---------------------------- MODULE DegradedOps ----------------------------
(***************************************************************************)
(* Degraded GET and UPDATE requests on one sealed stripe.                  *)
(*                                                                         *)
(* Chunk c of the stripe is stored on server c: 0..K-1 hold data chunks,   *)
(* K..K+M-1 parity chunks.  When a server fails, the coordinator redirects *)
(* its chunk to a surviving server (a degraded lock), one server of the    *)
(* stripe fetches K surviving chunks (GET_CHUNK), decodes the lost ones    *)
(* and forwards them (FORWARD_CHUNK) to the servers they are redirected    *)
(* to; requests that come meanwhile wait in the degraded map of their      *)
(* server.  UPDATE requests go on during all this: a server copies a chunk *)
(* aside before it changes it (GetChunkBuffer), so that the chunks fetched *)
(* belong to one version of the stripe.                                    *)
(*                                                                         *)
(* A chunk's contents are abstracted to the updates folded into it: for    *)
(* each data chunk the set of updates of that chunk.  Adding a delta is    *)
(* the symmetric difference, as XOR is: adding it twice removes it.        *)
(***************************************************************************)
EXTENDS Integers, FiniteSets, FiniteSetsExt, Sequences, SequencesExt, TLC

CONSTANTS
    K,        \* number of data chunks of a stripe
    M,        \* number of parity chunks of a stripe
    Reqs,     \* identifiers of client requests
    None,     \* no request, no chunk
    Before,   \* the requests that may be issued before the failure
    Locks     \* the degraded locks the coordinator may grant for the stripe:
              \* [entries |-> <<[orig |-> chunk, to |-> chunk], ...>>,
              \*  ongoing |-> chunk]

Data   == 0 .. K - 1
Parity == K .. K + M - 1
Chunks == Data \cup Parity

ASSUME DegradedOpsAssumption ==
    /\ K \in Nat \ {0} /\ M \in Nat \ {0}
    /\ Before \subseteq Reqs
    /\ \A l \in Locks :
          /\ l.ongoing \in Chunks
          /\ \A i \in DOMAIN l.entries : l.entries[i].orig \in Chunks
                                         /\ l.entries[i].to \in Chunks

VARIABLES
    lock,     \* the degraded lock in force (NoLock before the failure)
    req,      \* the client requests: operation, data chunk, what they may not miss
    at,       \* where the handling of a request stands
    srv,      \* the servers' state, one record for each chunk of the stripe
    msgs,     \* messages between servers and from clients, in any order
    answers,  \* the answers each request got
    pool,     \* whether the servers run several workers
    restored, \* chunks sent back to their servers after the failure
    behind    \* UPDATEs that waited behind a request for another chunk

vars == <<lock, req, at, srv, msgs, answers, restored, behind, pool>>

NoLock == [entries |-> << >>, ongoing |-> 0]
Garbage == "garbage"
Sealed  == "sealed"

-----------------------------------------------------------------------------
(* Chunk contents *)

Zeros == [d \in Data |-> {}]
Xor(a, b) == [d \in Data |-> SymDiff(a[d], b[d])]
Delta(r, c) == [d \in Data |-> IF d = c THEN {r} ELSE {}]
Corrupt == [d \in Data |-> {Garbage}]
(* What chunk c holds to begin with: the objects its stripe was sealed with. *)
Stored(c) == [d \in Data |-> IF c \in Parity \/ c = d THEN {Sealed} ELSE {}]

(* Mutant of decode: the other data chunks are not taken out again.        *)
decodeSum(got) ==
    LET sum == [d \in Data |-> UNION {got[c][d] : c \in DOMAIN got}]
    IN [c \in Chunks |-> sum]

(* Decoding from K chunks: they must belong to one version of the stripe,  *)
(* otherwise the result is garbage.                                        *)
decode(got) ==
    LET D == DOMAIN got \cap Data
        P == DOMAIN got \cap Parity
        v == [d \in Data |-> IF d \in D THEN got[d][d] ELSE got[CHOOSE p \in P : TRUE][d]]
        clean == \A p \in P : got[p] = v
    IN [c \in Chunks |-> IF ~clean /\ c \notin DOMAIN got THEN Corrupt
                         ELSE IF c \in Data THEN [Zeros EXCEPT ![c] = v[c]]
                         ELSE v]

-----------------------------------------------------------------------------
(* The degraded lock, as a server reads it from the header of a request *)

Lost == {lock.entries[i].orig : i \in DOMAIN lock.entries}
Redirected(c) == LET i == CHOOSE i \in DOMAIN lock.entries : lock.entries[i].orig = c
                 IN lock.entries[i].to
ServerOf(c) == IF c \in Lost THEN Redirected(c) ELSE c

(* The first entry redirected to server s (0 if none) and whether a parity *)
(* or data chunk has to be reconstructed, seen from the entries up to it.  *)
findInRedirectedList(s, d) ==
    LET mine  == {i \in DOMAIN lock.entries : lock.entries[i].to = s}
        index == IF mine = {} THEN 0 ELSE Min(mine)
        seen  == {lock.entries[i].orig : i \in
                    {j \in DOMAIN lock.entries : index = 0 \/ j <= index}}
        reconstructData == d \in seen \/ (d = lock.ongoing /\ seen \cap Data # {})
    IN [index |-> index,
        reconstructData |-> reconstructData,
        reconstructParity |-> /\ seen \cap Parity # {}
                              /\ s = lock.ongoing
                              /\ ~reconstructData]

-----------------------------------------------------------------------------
(* A turn is what a server does in one handler: its new state `me', the    *)
(* messages `out' it sends, the answers `ans' it gives, and `chunks', the  *)
(* stripe it has just decoded (the worker's buffer).                       *)

Turn(s) == [me |-> srv[s], out |-> {}, ans |-> << >>, chunks |-> [c \in Chunks |-> Zeros]]

Answer(t, r, ok, val) == [t EXCEPT !.ans = Append(@, [req |-> r, ok |-> ok, val |-> val])]
Send(t, m) == [t EXCEPT !.out = @ \cup {m}]

(* GetChunkBuffer::insert - copy the chunk unless there is a copy or a     *)
(* GET_CHUNK request has already been answered.                            *)
insertBackup(t) ==
    IF t.me.backup = None /\ ~t.me.acked
    THEN [t EXCEPT !.me.backup = t.me.chunk] ELSE t

(* GetChunkBuffer::find and ack - the copy, if any, is what is handed out. *)
takeBackup(me) == IF me.backup # None THEN me.backup ELSE me.chunk
ackBackup(t) == [t EXCEPT !.me.backup = None, !.me.acked = TRUE]

(* Mutant: a reconstructed parity chunk is updated where it will be, too.  *)
sendModifyChunkRequestToAll(t, s, r, metadata, reconstructParity) ==
    LET remote == {p \in Parity : ServerOf(p) # s}
        sent == [t EXCEPT
                   !.out = @ \cup {[type |-> "UPDATE_CHUNK", to |-> p, from |-> s,
                                    chunk |-> p, req |-> r, data |-> metadata] : p \in remote},
                   !.me.updates[r] = remote]
    IN IF remote = {} THEN Answer(sent, r, TRUE, {}) ELSE sent

(* Send the delta of an update to the parity servers of a sealed chunk, as *)
(* one of the data chunk that metadata names.  A lost parity chunk is      *)
(* updated where it is redirected to, or, when it has just been decoded,   *)
(* in the buffer it will be forwarded from.                                *)
sendModifyChunkRequest(t, s, r, metadata, reconstructParity) ==
    LET inBuffer == IF reconstructParity THEN Lost \cap Parity ELSE {}
        remote   == {p \in Parity \ inBuffer : ServerOf(p) # s}
        own      == (Parity \ inBuffer) \ remote
        delta    == Delta(r, metadata)
        sent == [t EXCEPT
                   !.out = @ \cup {[type |-> "UPDATE_CHUNK", to |-> ServerOf(p), from |-> s,
                                    chunk |-> p, req |-> r, data |-> metadata] : p \in remote},
                   !.me.updates[r] = remote,
                   !.chunks = [c \in Chunks |-> IF c \in inBuffer THEN Xor(@[c], delta) ELSE @[c]]]
        local == IF s \in Parity /\ Cardinality(own) % 2 = 1
                 THEN [sent EXCEPT !.me.chunk = Xor(@, delta)] ELSE sent
    IN IF remote = {} THEN Answer(local, r, TRUE, {}) ELSE local

(* handleUpdateRequest - the key must be in a chunk of this server; the    *)
(* chunk is copied aside before every update.                              *)
handleUpdateRequest(t, s, r) ==
    IF s = req[r].chunk
    THEN sendModifyChunkRequest(
            [insertBackup(t) EXCEPT !.me.chunk = Xor(@, Delta(r, req[r].chunk))],
            s, r, req[r].chunk, FALSE)
    ELSE Answer(t, r, FALSE, {})

handleGetRequest(t, s, r) ==
    IF s = req[r].chunk THEN Answer(t, r, TRUE, t.me.chunk[s])
                        ELSE Answer(t, r, FALSE, {})

-----------------------------------------------------------------------------
(* The degraded map of a server *)

(* DegradedMap::findChunkById, findRemovedChunk, insertChunk, deleteChunk:  *)
(* a chunk inserted is one that is not there, and no longer a removed one. *)
findChunkById(me, c) == me.cache[c]
findRemovedChunk(me, c) == c \in me.removed
insertChunk(t, c, val) ==
    [t EXCEPT !.me.cache[c] = IF @ = None THEN val ELSE @, !.me.removed = @ \ {c}]
deleteChunk(me, c) == [me EXCEPT !.cache[c] = None, !.removed = @ \cup {c}]

(* DegradedChunkBuffer::updateKeyValue - the object in a data chunk, which *)
(* is there - and update - a parity chunk, which begins empty if it is not. *)
updateKeyValue(t, r) ==
    [t EXCEPT !.me.cache[req[r].chunk] = Xor(@, Delta(r, req[r].chunk))]
update(t, c, delta) ==
    [t EXCEPT !.me.cache[c] = Xor(IF @ = None THEN Zeros ELSE @, delta)]

(* Mutant: the decoded chunk is updated instead of the one in the map.     *)
updateDecoded(t, s, r, metadata, reconstructParity) ==
    sendModifyChunkRequest([t EXCEPT !.chunks[req[r].chunk] = Xor(@, Delta(r, req[r].chunk))],
                           s, r, metadata, reconstructParity)

(* The update of a chunk in the degraded map and of the parity chunks. *)
updateReconstructed(t, s, r, metadata, reconstructParity) ==
    sendModifyChunkRequest(updateKeyValue(t, r), s, r, metadata, reconstructParity)

(* DegradedMap::insertDegradedChunk - wait for the reconstruction of the   *)
(* stripe; only the first request starts it.                               *)
insertDegradedChunk(t, r) ==
    IF t.me.waiting # << >> \/ ~t.me.reconstructed
    THEN [t EXCEPT !.me.waiting = Append(@, r)] ELSE t

(* DegradedMap::deleteDegradedChunk - the stripe is reconstructed and      *)
(* nobody waits for it any more.                                           *)
deleteDegradedChunkOnly(t) == [t EXCEPT !.me.reconstructed = TRUE]   \* mutant
deleteDegradedChunk(t) == [t EXCEPT !.me.waiting = << >>, !.me.reconstructed = TRUE]

(* The K chunks fetched: the first surviving ones, in the order of the list. *)
selected ==
    LET surviving == Chunks \ Lost
    IN {c \in surviving : Cardinality({b \in surviving : b < c}) < K}

(* performDegradedRead of a key in a sealed chunk. *)
performDegradedRead(t, s, r) ==
    LET first == t.me.waiting = << >> /\ ~t.me.reconstructed
        wait  == insertDegradedChunk(t, r)
    IN IF first /\ lock.ongoing = s
       THEN [wait EXCEPT
               !.me.gather = [req |-> r, got |-> << >>],
               !.out = @ \cup {[type |-> "GET_CHUNK", to |-> c, from |-> s] :
                                 c \in selected \ {s}}]
       ELSE wait

alreadyReconstructed(me, s) ==
    lock.ongoing = s /\ me.waiting = << >> /\ me.reconstructed

(* The part of handleDegradedUpdateRequest before the degraded map is      *)
(* looked up; `jump' when the request waited for a forwarded chunk.        *)
degradedUpdate(t, s, r, jump) ==
    LET d == req[r].chunk
        f == findInRedirectedList(s, d)
        others == {lock.entries[i].orig : i \in DOMAIN lock.entries \ {f.index}}
        inProgress == f.reconstructParity /\ others \cap t.me.forwarded # {}
        normal == inProgress \/ (~f.reconstructParity /\ ~f.reconstructData)
        marked == IF f.reconstructParity
                  THEN [t EXCEPT !.me.forwarded = @ \cup others] ELSE t
        saved == IF s = d THEN insertBackup(marked) ELSE marked
    IN IF normal THEN [turn |-> handleUpdateRequest(marked, s, r), read |-> FALSE]
       ELSE IF f.index = 0 /\ ~jump THEN [turn |-> saved, read |-> TRUE]
       ELSE IF findChunkById(saved.me, d) # None
            THEN [turn |-> updateReconstructed(saved, s, r, d, FALSE), read |-> FALSE]
       ELSE IF findRemovedChunk(saved.me, d) THEN [turn |-> Answer(saved, r, FALSE, {}), read |-> FALSE]
       ELSE [turn |-> saved, read |-> TRUE]

(* handleDegradedGetRequest up to the degraded read. *)
degradedGet(t, s, r) ==
    LET d == req[r].chunk
        f == findInRedirectedList(s, d)
    IN IF f.index = 0 \/ lock.entries[f.index].orig \in Parity
       THEN [turn |-> handleGetRequest(t, s, r), read |-> FALSE]
       ELSE IF findChunkById(t.me, d) # None
            THEN [turn |-> Answer(t, r, TRUE, t.me.cache[d][d]), read |-> FALSE]
       ELSE IF findRemovedChunk(t.me, d) THEN [turn |-> Answer(t, r, FALSE, {}), read |-> FALSE]
       ELSE [turn |-> t, read |-> TRUE]

(* Mutant: the requests that wait for the chunk are forgotten.             *)
handleForwardChunkRequestOnly(t, s, c, val) ==
    IF findChunkById(t.me, c) = None THEN insertChunk(t, c, val)
    ELSE [t EXCEPT !.me.cache[c] = Xor(@, val)]

(* handleForwardChunkRequest - the forwarded chunk is XORed onto deltas    *)
(* that came before it, and the requests that waited for it are served.    *)
handleForwardChunkRequest(t, s, c, val) ==
    LET stored == IF findChunkById(t.me, c) = None THEN insertChunk(t, c, val)
                  ELSE [t EXCEPT !.me.cache[c] = Xor(@, val)]
        served == SelectSeq(t.me.waiting, LAMBDA r : req[r].chunk = c)
        freed == IF t.me.waiting = << >> THEN stored
                 ELSE [stored EXCEPT
                        !.me.waiting = SelectSeq(@, LAMBDA r : req[r].chunk # c),
                        !.me.reconstructed = TRUE]
        serve(u, r) == IF req[r].op = "GET"
                       THEN Answer(u, r, TRUE, u.me.cache[c][c])
                       ELSE degradedUpdate(u, s, r, TRUE).turn
    IN FoldLeft(serve, freed, served)

-----------------------------------------------------------------------------
(* Steps *)

Apply(s, t, consumed) ==
    /\ srv' = [srv EXCEPT ![s] = t.me]
    /\ msgs' = (msgs \ consumed) \cup t.out
    /\ answers' = [r \in Reqs |-> answers[r] \o
                     SelectSeq(t.ans, LAMBDA a : a.req = r)]

(* A client sends a request to the server of the chunk, or to the one it   *)
(* is redirected to: a GET only minds the data server, an UPDATE the whole *)
(* stripe.  The lock was granted for the first degraded request, whose     *)
(* server reconstructs.  `floor' are the updates acknowledged by then.     *)
Issue(r, op, d) ==
    LET degraded == IF op = "GET" THEN d \in Lost ELSE lock # NoLock
        issued   == {u \in Reqs : req[u] # None}
        acked    == {u \in issued : /\ req[u].op = "UPDATE" /\ req[u].chunk = d
                                    /\ \E i \in DOMAIN answers[u] : answers[u][i].ok}
    IN /\ req[r] = None
       /\ lock = NoLock => r \in Before
       /\ degraded => \/ ServerOf(d) = lock.ongoing
                      \/ \E u \in issued : req[u].degraded
       /\ req' = [req EXCEPT ![r] = [op |-> op, chunk |-> d, degraded |-> degraded,
                                     floor |-> acked]]
       /\ msgs' = msgs \cup {[type |-> "REQUEST", to |-> ServerOf(d), req |-> r]}
       /\ UNCHANGED <<lock, at, srv, answers, restored, behind, pool>>

(* Servers fail once the requests sent before are settled (the transition  *)
(* to the degraded state waits for them), and the lock is granted.         *)
Fail(l) ==
    /\ lock = NoLock
    /\ msgs = {}
    /\ lock' = l
    /\ UNCHANGED <<req, at, srv, msgs, answers, restored, behind, pool>>

Request(m) ==
    LET s == m.to
        r == m.req
        t == Turn(s)
        h == IF ~req[r].degraded
             THEN [turn |-> IF req[r].op = "GET" THEN handleGetRequest(t, s, r)
                                                 ELSE handleUpdateRequest(t, s, r),
                   read |-> FALSE]
             ELSE IF req[r].op = "GET" THEN degradedGet(t, s, r)
             ELSE degradedUpdate(t, s, r, FALSE)
    IN /\ m.type = "REQUEST"
       /\ Apply(s, h.turn, {m})
       /\ at' = IF h.read THEN [at EXCEPT ![r] = s] ELSE at
       /\ UNCHANGED <<lock, req, restored, behind, pool>>

(* Mutant: a GET does not look the degraded map up again.                  *)
ReadOnce(r) ==
    LET s == at[r]
        t == Turn(s)
    IN /\ at[r] \in Chunks
       /\ Apply(s, IF alreadyReconstructed(t.me, s)
                   THEN IF req[r].op = "UPDATE" THEN handleUpdateRequest(t, s, r)
                        ELSE handleGetRequest(t, s, r)
                   ELSE performDegradedRead(t, s, r), {})
       /\ at' = [at EXCEPT ![r] = -1]
       /\ UNCHANGED <<lock, req, restored, behind, pool>>

(* The degraded read.  When the stripe was reconstructed after the map was *)
(* looked up, a GET looks it up again and an UPDATE is handled normally.   *)
Read(r) ==
    LET s == at[r]
        t == Turn(s)
        done == alreadyReconstructed(t.me, s)
        again == degradedGet(t, s, r)
    IN /\ at[r] \in Chunks
       /\ Apply(s, CASE ~done -> performDegradedRead(t, s, r)
                     [] done /\ req[r].op = "UPDATE" -> handleUpdateRequest(t, s, r)
                     [] done /\ req[r].op = "GET" ->
                          IF again.read THEN Answer(t, r, FALSE, {}) ELSE again.turn, {})
       /\ at' = [at EXCEPT ![r] = -1]
       /\ UNCHANGED <<lock, req, restored, behind, pool>>

GetChunk(m) ==
    LET t == Turn(m.to)
    IN /\ m.type = "GET_CHUNK"
       /\ Apply(m.to, Send(ackBackup(t), [type |-> "GOT_CHUNK", to |-> m.from, chunk |-> m.to,
                                          val |-> takeBackup(t.me)]), {m})
       /\ UNCHANGED <<lock, req, at, restored, behind, pool>>

(* Nothing is redirected to this server: the request is handled normally.  *)
serveNormally(t, s, r) ==
    IF req[r].op = "GET" THEN handleGetRequest(t, s, r) ELSE handleUpdateRequest(t, s, r)

(* The chunk of the request in the degraded map, put there if it is new.   *)
withChunk(t, d) ==
    IF findChunkById(t.me, d) # None THEN t ELSE insertChunk(t, d, t.chunks[d])

serveGet(t, s, r) ==
    LET d == req[r].chunk
        cached == withChunk(t, d)
    IN IF d = s THEN handleGetRequest(t, s, r) ELSE Answer(cached, r, TRUE, cached.me.cache[d][d])

(* The chunk is that of the request, but the metadata sent on was set once *)
(* from the request that started the reconstruction.                       *)
serveUpdate(t, s, r, metadata, reconstructParity) ==
    LET d == req[r].chunk
    IN IF d = s
       THEN sendModifyChunkRequest([t EXCEPT !.me.chunk = Xor(@, Delta(r, d))],
                                   s, r, metadata, reconstructParity)
       ELSE updateReconstructed(withChunk(t, d), s, r, metadata, reconstructParity)

(* What a waiting request is answered when the stripe has been decoded.    *)
serveWaiting(t, s, r, metadata, index, reconstructParity) ==
    CASE index = 0 -> serveNormally(t, s, r)
      [] index # 0 /\ req[r].op = "GET" -> serveGet(t, s, r)
      [] index # 0 /\ req[r].op = "UPDATE" -> serveUpdate(t, s, r, metadata, reconstructParity)

(* The own chunk, or its copy, joins the chunks that were fetched.         *)
withOwn(t, s, got) == IF s \in selected THEN (s :> takeBackup(t.me)) @@ got ELSE got

(* The decoded chunks redirected to this server are forwarded locally ...  *)
forwardLocally(t, s) ==
    FoldSet(LAMBDA c, u : handleForwardChunkRequest(u, s, c, u.chunks[c]), t,
            {c \in Lost : Redirected(c) = s})

(* ... and the others, with the updates of the requests just served, sent. *)
forwardOthers(t, s) ==
    [t EXCEPT !.out = @ \cup {[type |-> "FORWARD_CHUNK", to |-> Redirected(c), chunk |-> c,
                               val |-> t.chunks[c]] : c \in {e \in Lost : Redirected(e) # s}}]

(* The last chunk has come: take the own chunk, decode, keep the chunks    *)
(* redirected to this server, serve the waiting requests and forward the   *)
(* other chunks.                                                           *)
finish(t, s, got) ==
    LET first == req[t.me.gather.req].chunk
        f    == findInRedirectedList(s, first)
        free == [deleteDegradedChunk(IF s \in selected THEN ackBackup(t) ELSE t) EXCEPT
                   !.me.gather = None, !.chunks = decode(withOwn(t, s, got))]
        done == FoldLeft(LAMBDA u, q : serveWaiting(u, s, q, first, f.index, f.reconstructParity),
                         forwardLocally(free, s), t.me.waiting)
    IN forwardOthers(done, s)

(* The UPDATEs that wait for a reconstruction started for another chunk. *)
Overtaken(me) ==
    {r \in ToSet(me.waiting) : req[r].op = "UPDATE" /\ req[r].chunk # req[me.gather.req].chunk}

GotChunk(m) ==
    LET s == m.to
        t == Turn(s)
        got == (m.chunk :> m.val) @@ t.me.gather.got
        last == DOMAIN got = selected \ {s}
    IN /\ m.type = "GOT_CHUNK"
       /\ Apply(s, IF last THEN finish(t, s, got) ELSE [t EXCEPT !.me.gather.got = got], {m})
       /\ behind' = IF last THEN behind \cup Overtaken(t.me) ELSE behind
       /\ UNCHANGED <<lock, req, at, restored, pool>>

ForwardChunk(m) ==
    /\ m.type = "FORWARD_CHUNK"
    /\ Apply(m.to, handleForwardChunkRequest(Turn(m.to), m.to, m.chunk, m.val), {m})
    /\ UNCHANGED <<lock, req, at, restored, behind, pool>>

(* handleUpdateChunkRequest - the delta is encoded as one of the data      *)
(* chunk named in the request and folded into the parity chunk,            *)
(* copied aside first, or into the redirected one in the degraded map.     *)
UpdateChunk(m) ==
    LET s == m.to
        t == Turn(s)
        u == IF m.chunk = s
             THEN [insertBackup(t) EXCEPT !.me.chunk = Xor(@, Delta(m.req, m.data))]
             ELSE update(t, m.chunk, Delta(m.req, m.data))
    IN /\ m.type = "UPDATE_CHUNK"
       /\ Apply(s, Send(u, [type |-> "UPDATED_CHUNK", to |-> m.from, chunk |-> m.chunk,
                            req |-> m.req]), {m})
       /\ UNCHANGED <<lock, req, at, restored, behind, pool>>

(* handleUpdateChunkResponse - the client is answered with the last one. *)
UpdatedChunk(m) ==
    LET s == m.to
        t == [Turn(s) EXCEPT !.me.updates[m.req] = @ \ {m.chunk}]
    IN /\ m.type = "UPDATED_CHUNK"
       /\ Apply(s, IF t.me.updates[m.req] = {} THEN Answer(t, m.req, TRUE, {}) ELSE t, {m})
       /\ UNCHANGED <<lock, req, at, restored, behind, pool>>

(* handleReleaseDegradedLockRequest - the failed server is back: its chunk *)
(* leaves the degraded map for it.                                         *)
Release(c) ==
    LET s == Redirected(c)
    IN /\ c \in Lost
       /\ srv[s].cache[c] # None
       /\ restored[c] = None
       /\ srv' = [srv EXCEPT ![s] = deleteChunk(@, c)]
       /\ restored' = [restored EXCEPT ![c] = srv[s].cache[c]]
       /\ UNCHANGED <<lock, req, at, msgs, answers, behind, pool>>

-----------------------------------------------------------------------------
Server(c) ==
          [chunk |-> Stored(c), backup |-> None, acked |-> FALSE,
           cache |-> [e \in Chunks |-> None], removed |-> {}, forwarded |-> {},
           waiting |-> << >>, reconstructed |-> FALSE, gather |-> None,
           updates |-> [r \in Reqs |-> {}]]

Init ==
    /\ lock = NoLock
    /\ req = [r \in Reqs |-> None]
    /\ at = [r \in Reqs |-> -1]
    /\ srv = [c \in Chunks |-> Server(c)]
    /\ msgs = {}
    /\ answers = [r \in Reqs |-> << >>]
    /\ restored = [c \in Chunks |-> None]
    /\ behind = {}
    /\ pool \in BOOLEAN

(* With a single worker a server takes the next event only when it is done *)
(* with the last one.                                                      *)
Idle(s) == pool \/ \A r \in Reqs : at[r] # s

Deliver(m) ==
    /\ Idle(m.to)
    /\ \/ Request(m)
       \/ GetChunk(m)
       \/ GotChunk(m)
       \/ ForwardChunk(m)
       \/ UpdateChunk(m)
       \/ UpdatedChunk(m)

Next ==
    \/ \E r \in Reqs, op \in {"GET", "UPDATE"}, d \in Data : Issue(r, op, d)
    \/ \E l \in Locks : Fail(l)
    \/ \E m \in msgs : Deliver(m)
    \/ \E r \in Reqs : Read(r)
    \/ \E c \in Chunks : Release(c)

Spec == Init /\ [][Next]_vars

-----------------------------------------------------------------------------
(* Properties *)

Vectors == [Data -> SUBSET (Reqs \cup {Garbage, Sealed})]

(* Contents of chunks are updates, a data chunk holds its own updates      *)
(* only, and requests wait once.                                           *)
TypeOK ==
    /\ lock \in Locks \cup {NoLock}
    /\ at \in [Reqs -> Chunks \cup {-1}]
    /\ \A c \in Chunks :
          /\ srv[c].chunk \in Vectors
          /\ srv[c].backup = None \/ srv[c].backup \in Vectors
          /\ \A e \in Chunks :
                srv[c].cache[e] # None =>
                   /\ srv[c].cache[e] \in Vectors
                   /\ e \in Data => \A d \in Data \ {e} :
                                       srv[c].cache[e][d] \subseteq {Garbage}
          /\ ToSet(srv[c].waiting) \subseteq Reqs /\ IsInjective(srv[c].waiting)
          /\ srv[c].forwarded \subseteq Chunks /\ srv[c].removed \subseteq Chunks

(* A request gets one answer: the waiting requests of a stripe are taken   *)
(* off the degraded map before they are served, whether the chunk is       *)
(* decoded here or forwarded (deleteDegradedChunk, handleGetChunkResponse, *)
(* handleForwardChunkRequest).                                             *)
AnsweredOnce == \A r \in Reqs : Len(answers[r]) <= 1

(* The chunks fetched for a reconstruction belong to one version of the    *)
(* stripe although UPDATE and UPDATE_CHUNK requests go on at the servers   *)
(* they come from (GetChunkBuffer): no decoded chunk is garbage.           *)
DecodeClean == \A s, c \in Chunks : srv[s].cache[c] # None =>
                  \A d \in Data : Garbage \notin srv[s].cache[c][d]

(* A GET misses no update acknowledged before it was sent, wherever it is  *)
(* served: by the data server, by the server its chunk is redirected to,   *)
(* from the degraded map or from the chunk just decoded.                   *)
ReadsAcknowledged ==
    \A r \in Reqs : \A i \in DOMAIN answers[r] :
        (req[r].op = "GET" /\ answers[r][i].ok) 
           => req[r].floor \cup {Sealed} \subseteq answers[r][i].val

Settled == msgs = {} /\ \A r \in Reqs : at[r] = -1

Current(c) == IF c \in Lost THEN srv[Redirected(c)].cache[c] ELSE srv[c].chunk

(* What a parity chunk should hold of a data chunk. *)
Expected(d) == IF Current(d) = None THEN srv[d].chunk[d] ELSE Current(d)[d]

(* When all is quiet, a parity chunk, reconstructed or not, holds exactly  *)
(* the updates of the data chunks: deltas sent to the parity server, to    *)
(* the server it is redirected to, or added before it is forwarded, are    *)
(* neither lost nor added twice (sendModifyChunkRequest).  An UPDATE that  *)
(* waited behind a request for another chunk is held once, too, but under  *)
(* whichever chunk (see UpdatesPlaced).  Left out is the parity chunk      *)
(* redirected to the server of the updated data chunk, whose branch for    *)
(* `self' adds nothing (degraded_worker.cc:1503-1531).                     *)
ParityCurrent ==
    Settled /\ (\A c \in Chunks : restored[c] = None) =>
      \A p \in Parity, d \in Data :
        (/\ Current(p) # None
         /\ ~(p \in Lost /\ Redirected(p) = ServerOf(d))) =>
           /\ Current(p)[d] \ behind = Expected(d) \ behind
           /\ \A r \in behind \cap Expected(d) :
                 Cardinality({e \in Data : r \in Current(p)[e]}) = 1

(* Every update is folded into the parity chunks as one of the data chunk  *)
(* that holds its object, as handleGetChunkResponse asserts of each        *)
(* waiting request (server_peer_res_worker.cc:1090-1095).  It is not: the  *)
(* metadata it passes on is that of the first one.                         *)
UpdatesPlaced ==
    \A p \in Parity, d \in Data :
      Current(p) # None => \A r \in Current(p)[d] \cap Reqs : req[r].chunk = d

(* A request is refused only after its chunk went back to its server: a    *)
(* key that exists is found in the degraded map, in the chunk decoded, or  *)
(* looked up again (handleDegradedGetRequest).  With several workers this  *)
(* holds of GET requests only: an UPDATE is not looked up again.           *)
RefusedOnlyMigrated ==
    \A r \in Reqs : \A i \in DOMAIN answers[r] :
        (~answers[r][i].ok /\ (req[r].op = "GET" \/ ~pool)) => restored[req[r].chunk] # None

(* With one worker no request is left behind: each one is answered when    *)
(* there is nothing more to do (requests that wait for a reconstruction or *)
(* for a forwarded chunk are all served when it comes).                    *)
NoneStranded ==
    (Settled /\ ~pool) => \A r \in Reqs : req[r] # None => answers[r] # << >>

=============================================================================

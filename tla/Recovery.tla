------------------------------ MODULE Recovery ------------------------------
(***************************************************************************)
(* Recovery of a crashed server.  The coordinator chooses a backup server, *)
(* announces it to all servers and waits until they know it, promotes it   *)
(* with the list of chunks and unsealed keys that are lost, and gives the  *)
(* surviving servers of each stripe list tasks of stripes to rebuild, one  *)
(* at a time.  Survivors send what they rebuild to the promoted server,    *)
(* which reports when it has all of it.  One server is recovered at a time *)
(* and others wait in a queue.                                             *)
(*                                                                         *)
(* Fetching and decoding the chunks of a stripe is one step here (see      *)
(* DegradedOps).  What the coordinator knows of chunks and keys is taken   *)
(* to be up to date.                                                       *)
(***************************************************************************)
EXTENDS Naturals, Sequences, FiniteSets

CONSTANTS
    Slots,      \* places in the hash ring; a slot is also its first server
    Backups,    \* sequence of backup servers
    Lists,      \* number of stripe lists
    Members,    \* Members[l]: the slots of list l, data chunks first
    DataCount,  \* data chunks of a stripe
    Chunks,     \* Chunks[s]: <<list, stripe>> of the sealed chunks of s that the coordinator knows
    Highest,    \* Highest[l]: the highest stripe of list l that the coordinator knows
    Keys,       \* Keys[s]: unsealed keys of s
    KeyList,    \* KeyList[k]: the list of key k
    TaskSize,   \* stripes or keys that fit into a message
    Crashing    \* servers that may crash

VARIABLES
    alive,      \* servers that run
    ready,      \* servers that are connected to the coordinator
    at,         \* at[x]: the server of slot x, at the coordinator
    backups,    \* backup servers left
    recovering, \* isRecovering
    queue,      \* servers that wait for recovery
    triggers,   \* recovery events of servers
    work,       \* work[f]: the worker that recovers f
    recovery,   \* recovery[f]: chunks and keys the promoted server has to report
    recon,      \* recon[f][l]: what the tasks of list l have to report
    log,        \* servers that are recovered
    view,       \* view[s][x]: the server of slot x, at server s
    tasks,      \* tasks at survivors
    home,       \* home[b]: what backup server b has and misses
    msgs        \* messages under way

coordinatorVars == <<ready, at, backups, recovering, queue, triggers, work, recovery, recon, log>>
serverVars == <<view, tasks, home>>
vars == <<alive, coordinatorVars, serverVars, msgs>>

BackupServers == {Backups[i] : i \in DOMAIN Backups}
Servers == Slots \cup BackupServers
Idle == [pc |-> "idle"]
SlotOf(s) == CHOOSE x \in Slots : at[x] = s

Init ==
    /\ alive = Servers
    /\ ready = Servers
    /\ at = [x \in Slots |-> x]
    /\ backups = Backups
    /\ recovering = FALSE
    /\ queue = <<>>
    /\ triggers = {}
    /\ work = [s \in Servers |-> Idle]
    /\ recovery = [s \in Servers |-> [chunks |-> 0, keys |-> 0]]
    /\ recon = [s \in Servers |-> [l \in 1 .. Lists |-> [chunks |-> 0, keys |-> 0]]]
    /\ log = {}
    /\ view = [s \in Servers |-> [x \in Slots |-> x]]
    /\ tasks = {}
    /\ home = [b \in BackupServers |->
            [promoted |-> FALSE, open |-> FALSE, chunks |-> {}, keys |-> {},
             lostChunks |-> {}, lostKeys |-> {}]]
    /\ msgs = {}

-----------------------------------------------------------------------------
(* Crashes                                                                 *)

Crash(s) ==
    /\ s \in Crashing \cap alive
    /\ alive' = alive \ {s}
    /\ UNCHANGED <<coordinatorVars, serverVars, msgs>>

Announcing(w) == w.pc = "announce"

(* The coordinator finds a server disconnected: it no longer waits for it, *)
(* and if the server is one of the ring its recovery is triggered.         *)
Disconnect(s) ==
    /\ s \in ready \ alive
    /\ ready' = ready \ {s}
    /\ work' = [f \in Servers |-> IF Announcing(work[f])
                                  THEN [work[f] EXCEPT !.wait = @ \ {s}] ELSE work[f]]
    /\ triggers' = IF \E x \in Slots : at[x] = s THEN triggers \cup {s} ELSE triggers
    /\ UNCHANGED <<alive, at, backups, recovering, queue, recovery, recon, log, serverVars, msgs>>

-----------------------------------------------------------------------------
(* The worker of the coordinator                                           *)

(* Choose a backup server and announce it to all servers but itself.       *)
(* Without a backup server nothing is recovered any more.                  *)
Replace(f) ==
    LET b == Head(backups)
        x == SlotOf(f)
        told == (ready \cap ({at[y] : y \in Slots \ {x}} \cup
                             {backups[i] : i \in DOMAIN backups})) \ {b}
    IN
    /\ recovering' = TRUE
    /\ IF backups = <<>> THEN UNCHANGED <<at, backups, work, msgs>>
       ELSE /\ backups' = Tail(backups)
            /\ at' = [at EXCEPT ![x] = b]
            /\ work' = [work EXCEPT ![f] = [pc |-> "announce", slot |-> x, to |-> b, wait |-> told]]
            /\ msgs' = msgs \cup {[type |-> "ANNOUNCE", to |-> s, f |-> f, slot |-> x, dst |-> b]
                                        : s \in told}
    /\ UNCHANGED queue

(* handleReconstructionRequest: one recovery at a time.                    *)
HandleReconstructionRequest(f) ==
    /\ f \in triggers
    /\ triggers' = triggers \ {f}
    /\ IF recovering
       THEN queue' = Append(queue, f) /\ UNCHANGED <<at, backups, recovering, work, msgs>>
       ELSE Replace(f)
    /\ UNCHANGED <<alive, ready, recovery, recon, log, serverVars>>

HandleAnnounced(m) ==
    /\ m \in msgs
    /\ m.type = "ANNOUNCED"
    /\ msgs' = msgs \ {m}
    /\ work' = IF Announcing(work[m.f]) THEN [work EXCEPT ![m.f].wait = @ \ {m.from}] ELSE work
    /\ UNCHANGED <<alive, ready, at, backups, recovering, queue, triggers, recovery, recon, log, serverVars>>

AllAnnounced(w) == w.wait = {}

ServersOf(l) == [i \in DOMAIN Members[l] |-> at[Members[l][i]]]
Parities(s) == SubSeq(s, DataCount + 1, Len(s))

(* The next list that the slot is part of, from l on.                      *)
NextList(w, l) ==
    LET lists == {n \in l .. Lists : \E i \in DOMAIN Members[n] : Members[n][i] = w.slot}
    IN
    IF lists = {} THEN Idle
    ELSE [pc |-> "list", slot |-> w.slot, to |-> w.to, usable |-> w.usable,
          list |-> CHOOSE n \in lists : \A o \in lists : n <= o]

(* The promoted server learns what is lost, then the tasks of the first    *)
(* list follow.  Servers that are not connected now get no tasks.          *)
Promote(f) ==
    LET w == work[f]
    IN
    /\ Announcing(w)
    /\ AllAnnounced(w)
    /\ msgs' = msgs \cup {[type |-> "PROMOTE", to |-> w.to, f |-> f, slot |-> w.slot,
                           chunks |-> Chunks[f], keys |-> Keys[f]]}
    /\ recovery' = [recovery EXCEPT ![f] =
            [chunks |-> Cardinality(Chunks[f]), keys |-> Cardinality(Keys[f])]]
    /\ work' = [work EXCEPT ![f] =
            NextList([slot |-> w.slot, to |-> w.to, usable |-> ready], 1)]
    /\ UNCHANGED <<alive, ready, at, backups, recovering, queue, triggers, recon, log, serverVars>>

IsParity(x, l) == \E i \in DataCount + 1 .. Len(Members[l]) : Members[l][i] = x

(* What the crashed server had of the list; a parity server had a chunk of *)
(* every stripe, and those that are not sealed are rebuilt too.  (The last *)
(* one is left out unless it is sealed.)                                   *)
StripesOf(f, l) ==
    {c[2] : c \in {d \in Chunks[f] : d[1] = l}} \cup
    {i \in 0 .. Highest[l] : i < Highest[l] /\ IsParity(work[f].slot, l)}
KeysOf(f, l) == {k \in Keys[f] : KeyList[k] = l}
Usable(w, s) == s \in w.usable \cap ready /\ s # w.to
Ceiling(a, b) == (a + b - 1) \div b

(* The tasks of a list are counted, and its stripes shared equally.  (With *)
(* no survivor at all the code divides by zero.)                           *)
BeginList(f) ==
    LET w == work[f]
        all == ServersOf(w.list)
        survivors == {i \in DOMAIN all : Usable(w, all[i])}
    IN
    /\ w.pc = "list"
    /\ survivors # {}
    /\ recon' = [recon EXCEPT ![f][w.list] =
            [chunks |-> Cardinality(StripesOf(f, w.list)),
             keys   |-> Cardinality(KeysOf(f, w.list))]]
    /\ work' = [work EXCEPT ![f] =
            [pc |-> "send", slot |-> w.slot, to |-> w.to, list |-> w.list, usable |-> w.usable,
             kind |-> "RECONSTRUCTION", all |-> all, todo |-> all,
             rest |-> StripesOf(f, w.list), again |-> FALSE,
             share |-> Ceiling(Cardinality(StripesOf(f, w.list)), Cardinality(survivors))]]
    /\ UNCHANGED <<alive, ready, at, backups, recovering, queue, triggers, recovery, log, serverVars, msgs>>

(* Send the next server as much as its share and a message allow, and wait *)
(* for a signal.                                                           *)
SendTask(f) ==
    LET w == work[f]
        s == Head(w.todo)
        size == IF w.share < Cardinality(w.rest) THEN w.share ELSE Cardinality(w.rest)
        fits == IF size < TaskSize THEN size ELSE TaskSize
    IN
    /\ w.pc = "send"
    /\ w.rest # {}
    /\ w.todo # <<>>
    /\ IF Usable(w, s)
       THEN \E part \in {t \in SUBSET w.rest : Cardinality(t) = fits} :
            /\ msgs' = msgs \cup {[type |-> w.kind, to |-> s, f |-> f, slot |-> w.slot,
                                   list |-> w.list, part |-> part]}
            /\ work' = [work EXCEPT ![f].todo = Tail(@), ![f].rest = @ \ part, ![f].pc = "sent",
                                    ![f].again = @ \/ size > TaskSize]
       ELSE work' = [work EXCEPT ![f].todo = Tail(@)] /\ UNCHANGED msgs
    /\ UNCHANGED <<alive, ready, at, backups, recovering, queue, triggers, recovery, recon, log, serverVars>>

Wait(f) ==
    /\ work[f].pc = "sent"
    /\ work' = [work EXCEPT ![f].pc = "waiting"]
    /\ UNCHANGED <<alive, ready, at, backups, recovering, queue, triggers, recovery, recon, log, serverVars, msgs>>

SpuriousWakeup(f) ==
    /\ work[f].pc = "waiting"
    /\ work' = [work EXCEPT ![f].pc = "send"]
    /\ UNCHANGED <<alive, ready, at, backups, recovering, queue, triggers, recovery, recon, log, serverVars, msgs>>

(* All servers had a task, or nothing is left to give: once more if tasks  *)
(* did not fit; then unsealed keys, from parity servers; then the next     *)
(* list.                                                                   *)
EndPass(f) ==
    LET w == work[f]
    IN
    /\ w.pc = "send"
    /\ w.rest = {} \/ w.todo = <<>>
    /\ work' = [work EXCEPT ![f] =
            CASE w.again -> [w EXCEPT !.todo = w.all, !.again = FALSE]
              [] ~w.again /\ w.kind = "RECONSTRUCTION" ->
                    [w EXCEPT !.kind = "UNSEALED", !.all = Parities(@), !.todo = Parities(w.all),
                              !.rest = KeysOf(f, w.list), !.share = Cardinality(Keys[f])]
              [] OTHER -> NextList(w, w.list + 1)]
    /\ UNCHANGED <<alive, ready, at, backups, recovering, queue, triggers, recovery, recon, log, serverVars, msgs>>

(* handleReconstructionResponse and handleReconstructionUnsealedResponse:  *)
(* the worker is signalled if it waits, and otherwise the signal is lost.  *)
HandleTaskResponse(m) ==
    LET c == recon[m.f][m.list]
        w == work[m.f]
    IN
    /\ m \in msgs
    /\ m.type = "DONE"
    /\ msgs' = msgs \ {m}
    /\ IF c.chunks >= m.chunkCount /\ c.keys >= m.keyCount
       THEN /\ recon' = [recon EXCEPT ![m.f][m.list] =
                    [chunks |-> c.chunks - m.chunkCount, keys |-> c.keys - m.keyCount]]
            /\ work' = IF w.pc = "waiting" /\ w.list = m.list
                       THEN [work EXCEPT ![m.f].pc = "send"] ELSE work
       ELSE UNCHANGED <<recon, work>>
    /\ UNCHANGED <<alive, ready, at, backups, recovering, queue, triggers, recovery, log, serverVars>>

(* Mutant: keys are not waited for.                                        *)
CompletedChunks(c) == c.chunks = 0

Completed(c) == c.chunks = 0 /\ c.keys = 0

(* handlePromoteBackupServerResponse: when nothing is missing the server   *)
(* is recovered, and the next one in the queue is triggered.               *)
HandlePromoteResponse(m) ==
    LET c == recovery[m.f]
        left == [chunks |-> c.chunks - m.chunkCount, keys |-> c.keys - m.keyCount]
    IN
    /\ m \in msgs
    /\ m.type = "PROMOTED"
    /\ IF c.chunks >= m.chunkCount /\ c.keys >= m.keyCount
       THEN /\ recovery' = [recovery EXCEPT ![m.f] = left]
            /\ IF Completed(left)
               THEN /\ log' = log \cup {m.f}
                    /\ recovering' = FALSE
                    /\ queue' = IF queue = <<>> THEN queue ELSE Tail(queue)
                    /\ triggers' = IF queue = <<>> THEN triggers ELSE triggers \cup {Head(queue)}
               ELSE UNCHANGED <<log, recovering, queue, triggers>>
       ELSE UNCHANGED <<recovery, log, recovering, queue, triggers>>
    /\ msgs' = msgs \ {m}
    /\ UNCHANGED <<alive, ready, at, backups, work, recon, serverVars>>

-----------------------------------------------------------------------------
(* Servers                                                                 *)

Received(m, type) == m \in msgs /\ m.type = type /\ m.to \in alive

HandleServerReconstructedMsg(m) ==
    /\ Received(m, "ANNOUNCE")
    /\ view' = [view EXCEPT ![m.to][m.slot] = m.dst]
    /\ msgs' = (msgs \ {m}) \cup {[type |-> "ANNOUNCED", f |-> m.f, from |-> m.to]}
    /\ UNCHANGED <<alive, coordinatorVars, tasks, home>>

(* Pending::insertRecovery: what is expected is added to what was before.  *)
insertRecovery(h, m) ==
    [h EXCEPT !.promoted = TRUE, !.lostChunks = @ \cup m.chunks, !.lostKeys = @ \cup m.keys]

HandleBackupServerPromotedMsg(m) ==
    /\ Received(m, "PROMOTE")
    /\ view' = [view EXCEPT ![m.to][m.slot] = m.to]
    /\ home' = [home EXCEPT ![m.to] = insertRecovery(@, m)]
    /\ msgs' = msgs \ {m}
    /\ UNCHANGED <<alive, coordinatorVars, tasks>>

(* Peers that are connected and registered; a promoted server answers      *)
(* registrations when it first reports.                                    *)
PeerReady(s, x) ==
    \/ view[s][x] = s
    \/ view[s][x] \in alive /\ (view[s][x] \in BackupServers => home[view[s][x]].open)

Task(m, stripes, keys) ==
    [at |-> m.to, f |-> m.f, slot |-> m.slot, list |-> m.list, stripes |-> stripes,
     left |-> stripes, total |-> Cardinality(stripes),
     keys |-> keys, keysTotal |-> Cardinality(keys)]

Same(t, u) == t.at = u.at /\ t.f = u.f /\ t.list = u.list

(* insertReconstruction: tasks of the same request are merged.             *)
AddTask(t) ==
    IF \E u \in tasks : Same(t, u)
    THEN LET u == CHOOSE u \in tasks : Same(t, u)
         IN (tasks \ {u}) \cup
            {[u EXCEPT !.stripes = @ \cup t.stripes, !.left = @ \cup t.left,
                       !.total = @ + t.total, !.keys = @ \cup t.keys,
                       !.keysTotal = @ + t.keysTotal]}
    ELSE tasks \cup {t}

(* A task is refused silently if too few chunks survive.                   *)
HandleReconstruction(m) ==
    LET others == {i \in DOMAIN Members[m.list] :
                        Members[m.list][i] # m.slot /\ PeerReady(m.to, Members[m.list][i])}
    IN
    /\ Received(m, "RECONSTRUCTION")
    /\ tasks' = IF Cardinality(others) >= DataCount THEN AddTask(Task(m, m.part, {})) ELSE tasks
    /\ msgs' = msgs \ {m}
    /\ UNCHANGED <<alive, coordinatorVars, view, home>>

(* The chunks of a stripe have arrived: decode, and send the lost one.     *)
SendChunk(t, i) ==
    /\ t \in tasks
    /\ t.at \in alive
    /\ i \in t.stripes
    /\ tasks' = (tasks \ {t}) \cup {[t EXCEPT !.stripes = @ \ {i}]}
    /\ msgs' = msgs \cup {[type |-> "SET_CHUNK", to |-> view[t.at][t.slot], from |-> t.at,
                           f |-> t.f, list |-> t.list, stripe |-> i]}
    /\ UNCHANGED <<alive, coordinatorVars, view, home>>

HandleUnsealed(m) ==
    /\ Received(m, "UNSEALED")
    /\ tasks' = AddTask(Task(m, {}, m.part))
    /\ msgs' = (msgs \ {m}) \cup {[type |-> "KEYS", to |-> view[m.to][m.slot], from |-> m.to,
                                   f |-> m.f, list |-> m.list, keys |-> m.part]}
    /\ UNCHANGED <<alive, coordinatorVars, view, home>>

(* The promoted server is given chunks or keys before it knows that it is  *)
(* promoted: it has no chunk buffer and dereferences a null pointer.       *)
CrashUnprepared(m) ==
    /\ Received(m, "SET_CHUNK") \/ Received(m, "KEYS")
    /\ m.to \in BackupServers
    /\ ~home[m.to].promoted
    /\ alive' = alive \ {m.to}
    /\ msgs' = msgs \ {m}
    /\ UNCHANGED <<coordinatorVars, serverVars>>

Report(f, chunks, keys) == [type |-> "PROMOTED", f |-> f, chunkCount |-> chunks, keyCount |-> keys]

(* handleSetChunkRequest: the last of the lost chunks is reported.         *)
HandleSetChunk(m) ==
    LET h == home[m.to]
        c == <<m.list, m.stripe>>
        last == c \notin h.chunks /\ h.lostChunks = {c}
    IN
    /\ Received(m, "SET_CHUNK")
    /\ m.to \in BackupServers
    /\ h.promoted
    /\ home' = [home EXCEPT ![m.to].chunks = @ \cup {c}, ![m.to].open = @ \/ last,
            ![m.to].lostChunks = IF c \in h.chunks THEN @ ELSE @ \ {c}]
    /\ msgs' = (msgs \ {m})
            \cup {[type |-> "CHUNK_SET", to |-> m.from, f |-> m.f, list |-> m.list, stripe |-> m.stripe]}
            \cup (IF last THEN {Report(m.f, Cardinality(Chunks[m.f]), 0)} ELSE {})
    /\ UNCHANGED <<alive, coordinatorVars, view, tasks>>

(* handleBatchKeyValueRequest                                              *)
HandleBatchKeyValue(m) ==
    LET h == home[m.to]
        last == h.lostKeys # {} /\ h.lostKeys \subseteq m.keys
    IN
    /\ Received(m, "KEYS")
    /\ m.to \in BackupServers
    /\ h.promoted
    /\ home' = [home EXCEPT ![m.to].keys = @ \cup m.keys, ![m.to].lostKeys = @ \ m.keys,
                            ![m.to].open = @ \/ last]
    /\ msgs' = (msgs \ {m})
            \cup {[type |-> "KEYS_SET", to |-> m.from, f |-> m.f, list |-> m.list, keys |-> m.keys]}
            \cup (IF last THEN {Report(m.f, 0, Cardinality(Keys[m.f]))} ELSE {})
    /\ UNCHANGED <<alive, coordinatorVars, view, tasks>>

Done(t, chunks, keys) ==
    [type |-> "DONE", f |-> t.f, list |-> t.list, from |-> t.at,
     chunkCount |-> chunks, keyCount |-> keys]

Keep(t) == IF t.left = {} /\ t.keys = {} THEN {} ELSE {t}

(* handleSetChunkResponse, handleBatchKeyValueResponse: a task that is     *)
(* done is reported to the coordinator, and dropped.                       *)
HandleSetChunkResponse(m) ==
    \E t \in tasks :
        LET u == [t EXCEPT !.left = @ \ {m.stripe}]
        IN
        /\ Received(m, "CHUNK_SET")
        /\ t.at = m.to /\ t.f = m.f /\ t.list = m.list
        /\ tasks' = (tasks \ {t}) \cup Keep(u)
        /\ msgs' = (msgs \ {m}) \cup (IF u.left = {} THEN {Done(t, t.total, 0)} ELSE {})
        /\ UNCHANGED <<alive, coordinatorVars, view, home>>

HandleBatchKeyValueResponse(m) ==
    \E t \in tasks :
        LET u == [t EXCEPT !.keys = @ \ m.keys]
        IN
        /\ Received(m, "KEYS_SET")
        /\ t.at = m.to /\ t.f = m.f /\ t.list = m.list
        /\ tasks' = (tasks \ {t}) \cup Keep(u)
        /\ msgs' = (msgs \ {m}) \cup (IF u.keys = {} THEN {Done(t, 0, t.keysTotal)} ELSE {})
        /\ UNCHANGED <<alive, coordinatorVars, view, home>>

-----------------------------------------------------------------------------
WorkerStep(f) ==
    \/ HandleReconstructionRequest(f)
    \/ Promote(f)
    \/ BeginList(f)
    \/ SendTask(f)
    \/ Wait(f)
    \/ SpuriousWakeup(f)
    \/ EndPass(f)

MessageStep(m) ==
    \/ HandleAnnounced(m)
    \/ HandleTaskResponse(m)
    \/ HandlePromoteResponse(m)
    \/ HandleServerReconstructedMsg(m)
    \/ HandleBackupServerPromotedMsg(m)
    \/ HandleReconstruction(m)
    \/ HandleUnsealed(m)
    \/ CrashUnprepared(m)
    \/ HandleSetChunk(m)
    \/ HandleBatchKeyValue(m)
    \/ HandleSetChunkResponse(m)
    \/ HandleBatchKeyValueResponse(m)

Next ==
    \/ \E s \in Servers : Crash(s) \/ Disconnect(s) \/ WorkerStep(s)
    \/ \E m \in msgs : MessageStep(m)
    \/ \E t \in tasks : \E i \in t.stripes : SendChunk(t, i)

Spec == Init /\ [][Next]_vars

-----------------------------------------------------------------------------
(* Properties                                                              *)

(* When the coordinator logs a recovery, the server that replaces the one  *)
(* that crashed has every chunk and every unsealed key of it: the counts   *)
(* of the coordinator, of the survivors and of the promoted server agree.  *)
RecoveredAll ==
    \A f \in log : \E b \in BackupServers :
        Chunks[f] \subseteq home[b].chunks /\ Keys[f] \subseteq home[b].keys

(* What is rebuilt goes to the promoted server: no survivor gets a task    *)
(* while it still knows the crashed server at that place.                  *)
SentToReplacement ==
    \A m \in msgs : m.type \in {"SET_CHUNK", "KEYS"} => m.to # m.f
=============================================================================

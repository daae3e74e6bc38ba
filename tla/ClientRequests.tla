--------------------------- MODULE ClientRequests ---------------------------
(***************************************************************************)
(* How a client carries out the requests of applications.  A request is    *)
(* kept in a map of application requests until it is answered, and what is *)
(* sent to servers in maps of server requests, by identifier and server.   *)
(* With all servers of the stripe in normal state a request goes to them   *)
(* directly; otherwise a lock is asked of the coordinator first, and the   *)
(* request goes where the lock says.  When a server becomes DEGRADED, what *)
(* the client still waits for from it is replayed.                         *)
(*                                                                         *)
(* One client and one stripe.  Objects larger than a chunk have several    *)
(* parts, stored at consecutive data servers.  What servers store is left  *)
(* out: a response succeeds or fails.  Identifiers and timestamps that are *)
(* no longer in use are used again, which keeps them unique.               *)
(***************************************************************************)
EXTENDS ServerStates, SequencesExt

CONSTANTS
    Parity,         \* parity servers of the stripe; the others store data
    Requests,       \* requests of applications
    Op,             \* Op[r]: "SET", "GET", "UPDATE" or "DELETE"
    Parts,          \* Parts[r]: how many parts the object has
    PartServer,     \* PartServer[p]: the data server of part p
    KeyServer,      \* KeyServer[p]: the data server that the key of part p hashes to,
                    \* for p > 0 with its offset: any server
    MaxIssued,      \* bound: requests issued
    Failing,        \* servers whose state changes
    MaxChanges      \* bound: changes of states

VARIABLES
    state,      \* state[s]: the state of s at the client
    changes,    \* changes of states so far
    replaying,  \* servers whose requests are to be replayed
    issued,     \* requests taken from applications
    hand,       \* requests a worker has decided the flow of
    app,        \* app[r]: entries of r among application requests, newest first
    entries,    \* server requests
    locks,      \* lock requests at the coordinator
    sent,       \* requests at servers, not answered
    replays,    \* replays[r]: replays of r in the event queue
    answers     \* answers[r]: the answers to the application

vars == <<state, changes, replaying, issued, hand, app, entries, locks, sent,
          replays, answers>>

DataServers == Servers \ Parity
PartsOf(r) == 0 .. Parts[r] - 1

Init ==
    /\ state = [s \in Servers |-> NORMAL]
    /\ changes = 0
    /\ replaying = {}
    /\ issued = {}
    /\ hand = {}
    /\ app = [r \in Requests |-> <<>>]
    /\ entries = {}
    /\ locks = {}
    /\ sent = {}
    /\ replays = [r \in Requests |-> 0]
    /\ answers = [r \in Requests |-> <<>>]

(* Identifiers of requests and timestamps of application requests.         *)
Unused(used, n) ==
    CHOOSE i \in 1 .. Cardinality(used) + n :
        i \notin used /\ Cardinality((1 .. i) \ used) = n

FreshId(n) == Unused({x.id : x \in hand \cup entries \cup locks \cup sent}, n)
FreshTimestamp ==
    Unused(UNION {{app[r][i].ts : i \in DOMAIN app[r]} : r \in Requests}, 1)

-----------------------------------------------------------------------------
(* States of servers                                                       *)

UseCoordinatedFlow(s) == state[s] # NORMAL
AcceptNormalResponse(s) == state[s] \notin {WAIT_DEGRADED, DEGRADED}

Successor(st) ==
    CASE st = NORMAL -> INTERMEDIATE
      [] st = INTERMEDIATE -> WAIT_DEGRADED
      [] st = WAIT_DEGRADED -> DEGRADED
      [] st = DEGRADED -> COORDINATED
      [] st = COORDINATED -> WAIT_NORMAL
      [] st = WAIT_NORMAL -> NORMAL

(* setState.  What follows a change to DEGRADED is a step of its own.      *)
SetState(s) ==
    /\ s \notin replaying
    /\ changes < MaxChanges
    /\ changes' = changes + 1
    /\ state' = [state EXCEPT ![s] = Successor(@)]
    /\ replaying' = IF Successor(state[s]) = DEGRADED THEN replaying \cup {s} ELSE replaying
    /\ UNCHANGED <<issued, hand, app, entries, locks, sent, replays, answers>>

-----------------------------------------------------------------------------
(* The map of application requests                                         *)

InsertApp(f, r, entry) == [f EXCEPT ![r] = <<entry>> \o @]

(* An UPDATE is erased when no part of it remains.                         *)
EraseApp(f, r) ==
    [f EXCEPT ![r] =
        IF Op[r] = "UPDATE" /\ @[1].left > 1
        THEN [@ EXCEPT ![1].left = @ - 1]
        ELSE Tail(@)]

Answer(r, ok) == answers' = [answers EXCEPT ![r] = Append(@, ok)]

-----------------------------------------------------------------------------
(* Requests                                                                *)

(* getServers and handleSetRequest: which servers decide the flow.         *)
Deciding(r, p) ==
    CASE Op[r] = "SET" -> Parity \cup {PartServer[q] : q \in PartsOf(r)}
      [] Op[r] = "GET" -> {PartServer[p]}
      [] OTHER -> Servers

Flow(r, p) ==
    IF \E s \in Deciding(r, p) : UseCoordinatedFlow(s) THEN "coordinated" ELSE "normal"

(* The application's request is remembered, a SET in the coordinated flow  *)
(* without a timestamp.  Of a GET only the first part is requested yet.    *)
Begin(r) ==
    /\ hand' = hand \cup
            {[id |-> FreshId(1), req |-> r, flow |-> Flow(r, 0),
              parts |-> IF Op[r] = "GET" THEN {0} ELSE PartsOf(r)]}
    /\ app' = InsertApp(app, r,
            [ts   |-> IF Op[r] = "SET" /\ Flow(r, 0) = "coordinated"
                      THEN 0 ELSE FreshTimestamp,
             left |-> Parts[r],
             got  |-> {}])

Issue(r) ==
    /\ r \notin issued
    /\ Cardinality(issued) < MaxIssued
    /\ issued' = issued \cup {r}
    /\ Begin(r)
    /\ UNCHANGED <<state, changes, replaying, entries, locks, sent, replays, answers>>

Replay(r) ==
    /\ replays[r] > 0
    /\ replays' = [replays EXCEPT ![r] = @ - 1]
    /\ Begin(r)
    /\ UNCHANGED <<state, changes, replaying, issued, entries, locks, sent, answers>>

Message(id, r, kind, s, p) == [id |-> id, req |-> r, kind |-> kind, server |-> s, part |-> p]

(* A SET goes to the data servers of its parts, and with each part to all  *)
(* parity servers.                                                         *)
Submitted(h) ==
    IF Op[h.req] = "SET"
    THEN {Message(h.id, h.req, "SET", s, p) : s \in Parity, p \in h.parts}
         \cup {Message(h.id, h.req, "SET", PartServer[p], p) : p \in h.parts}
    ELSE {Message(h.id, h.req, Op[h.req], PartServer[p], p) : p \in h.parts}

(* In the normal flow: server requests are remembered, then sent.          *)
SendRequests(h) ==
    /\ h \in hand
    /\ h.flow = "normal"
    /\ hand' = hand \ {h}
    /\ entries' = entries \cup Submitted(h)
    /\ sent' = sent \cup Submitted(h)
    /\ UNCHANGED <<state, changes, replaying, issued, app, locks, replays, answers>>

(* In the coordinated flow: a lock is asked for each part.                 *)
SendLockRequests(h) ==
    /\ h \in hand
    /\ h.flow = "coordinated"
    /\ hand' = hand \ {h}
    /\ locks' = locks \cup {[id |-> h.id, req |-> h.req, part |-> p] : p \in h.parts}
    /\ UNCHANGED <<state, changes, replaying, issued, app, entries, sent, replays, answers>>

-----------------------------------------------------------------------------
(* Responses of the coordinator                                            *)

Degraded(r) == CASE Op[r] = "GET" -> "DEGRADED_GET"
                 [] Op[r] = "UPDATE" -> "DEGRADED_UPDATE"
                 [] Op[r] = "DELETE" -> "DEGRADED_DELETE"

(* handleDegradedLockResponse.  If the key is locked the request is        *)
(* degraded, and goes where the chunk is reconstructed or, if only other   *)
(* chunks are, to its server.  If it is not locked the request goes to its *)
(* server, if it is remapped to where it was stored.                       *)
HandleDegradedLockResponse(l, type, t) ==
    LET r == l.req
        s == IF type = "NOT_LOCKED" THEN PartServer[l.part] ELSE t
        m == Message(FreshId(1), r, IF type = "IS_LOCKED" THEN Degraded(r) ELSE Op[r], s, l.part)
    IN
    /\ l \in locks
    /\ Op[r] # "SET"
    /\ locks' = locks \ {l}
    /\ IF type = "NOT_EXIST"
       THEN /\ IF app[r] = <<>> THEN UNCHANGED <<app, answers>>
               ELSE app' = EraseApp(app, r) /\ Answer(r, FALSE)
            /\ UNCHANGED <<entries, sent>>
       ELSE /\ entries' = entries \cup {m}
            /\ sent' = sent \cup {m}
            /\ UNCHANGED <<app, answers>>
    /\ UNCHANGED <<state, changes, replaying, issued, hand, replays>>

(* handleDegradedSetLockResponse: the lock was refused, or the part is     *)
(* stored with the servers that are not normal replaced by another.        *)
HandleDegradedSetLockResponse(l, ok, t) ==
    LET r == l.req
        dest(s) == IF UseCoordinatedFlow(s) THEN t ELSE s
        ms == {Message(l.id, r, "DEGRADED_SET", dest(s), l.part) :
                    s \in Parity \cup {PartServer[l.part]}}
    IN
    /\ l \in locks
    /\ Op[r] = "SET"
    /\ locks' = locks \ {l}
    /\ IF app[r] = <<>> THEN UNCHANGED <<app, answers, entries, sent>>
       ELSE IF ok
       THEN /\ entries' = entries \cup ms
            /\ sent' = sent \cup ms
            /\ UNCHANGED <<app, answers>>
       ELSE /\ app' = EraseApp(app, r)
            /\ Answer(r, FALSE)
            /\ UNCHANGED <<entries, sent>>
    /\ UNCHANGED <<state, changes, replaying, issued, hand, replays>>

-----------------------------------------------------------------------------
(* Responses of servers                                                    *)

(* The server request a response is matched with: by identifier and server.*)
Matching(m) == {e \in entries : e.id = m.id /\ e.server = m.server /\ e.kind = m.kind}
Matched(m) == CHOOSE e \in Matching(m) : TRUE

(* A response that is ignored, or to a request no longer remembered.       *)
Discard(m) ==
    /\ m \in sent
    /\ sent' = sent \ {m}
    /\ \/ /\ m.kind \in {"SET", "UPDATE", "DELETE"}
          /\ ~AcceptNormalResponse(m.server)
       \/ Matching(m) = {}
    /\ UNCHANGED <<state, changes, replaying, issued, hand, app, entries, locks, replays, answers>>

Accepted(m) ==
    /\ m \in sent
    /\ m.kind \in {"SET", "UPDATE", "DELETE"} => AcceptNormalResponse(m.server)
    /\ Matching(m) # {}
    /\ sent' = sent \ {m}
    /\ UNCHANGED <<state, changes, replaying, issued, hand, locks>>

(* The request is done: the application is answered unless it was before.  *)
Complete(r, ok) ==
    IF app[r] = <<>> THEN UNCHANGED <<app, answers>>
    ELSE app' = EraseApp(app, r) /\ Answer(r, ok)

(* Mutant: the first response answers the application.                     *)
RemainingFirst(m) == {}

(* Server requests of the same identifier that are still to be answered.   *)
Remaining(m) == {e \in entries \ {Matched(m)} : e.id = m.id /\ e.kind = m.kind}

(* handleSetResponse, handleDegradedSetResponse: the last response of the  *)
(* servers is the one the application gets.                                *)
HandleSetResponse(m, ok) ==
    /\ m.kind \in {"SET", "DEGRADED_SET"}
    /\ Accepted(m)
    /\ entries' = entries \ {Matched(m)}
    /\ IF Remaining(m) = {} THEN Complete(m.req, ok) ELSE UNCHANGED <<app, answers>>
    /\ UNCHANGED replays

IsGet(m) == m.kind \in {"GET", "DEGRADED_GET"}

(* handleGetResponse: a server other than the one the key belongs to does  *)
(* not have it: ask that one.  The key of a further part is looked at with *)
(* its offset, so that the server asked is not the one of the part.        *)
HandleGetElsewhere(m) ==
    LET n == Message(m.id, m.req, "GET", KeyServer[m.part], m.part)
    IN
    /\ m \in sent
    /\ IsGet(m)
    /\ m.server # KeyServer[m.part]
    /\ Matching(m) # {}
    /\ entries' = (entries \ {Matched(m)}) \cup {n}
    /\ sent' = (sent \ {m}) \cup {n}
    /\ UNCHANGED <<state, changes, replaying, issued, hand, app, locks, replays, answers>>

(* Mutant: a degraded GET that is replayed is answered as well.            *)
HandleGetFailureAnswers(m) ==
    LET r == m.req
    IN
    /\ IsGet(m)
    /\ m.server = KeyServer[m.part]
    /\ Accepted(m)
    /\ entries' = entries \ {Matched(m)}
    /\ Complete(r, FALSE)
    /\ IF app[r] # <<>> /\ m.kind = "DEGRADED_GET" /\ ~UseCoordinatedFlow(PartServer[0])
       THEN replays' = [replays EXCEPT ![r] = @ + 1]
       ELSE UNCHANGED replays

(* The key does not exist, or one of the parts.  If a degraded GET fails   *)
(* and the server of the key is back to normal the GET is replayed.        *)
HandleGetFailure(m) ==
    LET r == m.req
    IN
    /\ IsGet(m)
    /\ m.server = KeyServer[m.part]
    /\ Accepted(m)
    /\ entries' = entries \ {Matched(m)}
    /\ IF /\ app[r] # <<>>
          /\ m.kind = "DEGRADED_GET"
          /\ ~UseCoordinatedFlow(PartServer[0])
       THEN /\ app' = EraseApp(app, r)
            /\ replays' = [replays EXCEPT ![r] = @ + 1]
            /\ UNCHANGED answers
       ELSE Complete(r, FALSE) /\ UNCHANGED replays

(* The first part of a large object says how many there are: request them. *)
HandleGetFirstPart(m) ==
    LET r == m.req
    IN
    /\ IsGet(m)
    /\ m.part = 0
    /\ Parts[r] > 1
    /\ m \in sent
    /\ Matching(m) # {}
    /\ sent' = sent \ {m}
    /\ entries' = entries \ {Matched(m)}
    /\ IF app[r] = <<>> THEN UNCHANGED <<app, hand>>
       ELSE /\ app' = [app EXCEPT ![r][1].got = @ \cup {0}]
            /\ hand' = hand \cup
                    {[id |-> FreshId(p), req |-> r, flow |-> Flow(r, p), parts |-> {p}]
                        : p \in 1 .. Parts[r] - 1}
    /\ UNCHANGED <<state, changes, replaying, issued, locks, replays, answers>>

HasAll(r, p) == app[r][1].got \cup {p} = PartsOf(r)

(* Another part, or an object that has only one.                           *)
HandleGetPart(m) ==
    LET r == m.req
    IN
    /\ IsGet(m)
    /\ m.part > 0 \/ Parts[r] = 1
    /\ Accepted(m)
    /\ entries' = entries \ {Matched(m)}
    /\ IF app[r] # <<>> /\ ~HasAll(r, m.part)
       THEN app' = [app EXCEPT ![r][1].got = @ \cup {m.part}] /\ UNCHANGED answers
       ELSE Complete(r, TRUE)
    /\ UNCHANGED replays

(* handleUpdateResponse.  A failure in the normal flow changes nothing:    *)
(* the request is replayed when the server becomes DEGRADED.               *)
HandleUpdateFailure(m) ==
    /\ m.kind = "UPDATE"
    /\ Accepted(m)
    /\ UNCHANGED <<app, entries, replays, answers>>

NeedsReplay(m, ok) ==
    m.kind = "DEGRADED_UPDATE" /\ ~ok /\ ~UseCoordinatedFlow(PartServer[0])

HandleUpdateResponse(m, ok) ==
    LET r == m.req
    IN
    /\ (m.kind = "UPDATE" /\ ok) \/ m.kind = "DEGRADED_UPDATE"
    /\ Accepted(m)
    /\ entries' = entries \ {Matched(m)}
    /\ IF app[r] = <<>> THEN UNCHANGED <<app, answers, replays>>
       ELSE /\ app' = EraseApp(app, r)
            /\ IF NeedsReplay(m, ok)
               THEN replays' = [replays EXCEPT ![r] = @ + 1] /\ UNCHANGED answers
               ELSE /\ IF app[r][1].left = 1 THEN Answer(r, ok) ELSE UNCHANGED answers
                    /\ UNCHANGED replays

(* handleDeleteResponse                                                    *)
HandleDeleteResponse(m, ok) ==
    /\ m.kind \in {"DELETE", "DEGRADED_DELETE"}
    /\ Accepted(m)
    /\ entries' = entries \ {Matched(m)}
    /\ Complete(m.req, ok)
    /\ UNCHANGED replays

-----------------------------------------------------------------------------
(* Replaying                                                               *)

(* The maps of server requests, in the order in which they are searched.   *)
(* Those of degraded SETs are not searched.                                *)
Rank(kind) ==
    CASE kind = "SET" -> 1
      [] kind \in {"GET", "DEGRADED_GET"} -> 2
      [] kind \in {"UPDATE", "DEGRADED_UPDATE"} -> 3
      [] OTHER -> 4

PendingAt(s) ==
    SetToSortSeq({e \in entries : e.server = s /\ e.kind # "DEGRADED_SET"},
                 LAMBDA e, f : Rank(e.kind) < Rank(f.kind))

(* Mutant: timestamps are lost.                                            *)
ReplayOneTimeless(acc, e) ==
    IF acc.app[e.req] = <<>> THEN acc
    ELSE [app |-> EraseApp(acc.app, e.req), entries |-> acc.entries \ {e},
          map |-> acc.map @@ (0 :> e.req)]

(* replayRequestPrepare, for one server request: the application's request *)
(* is taken out, but put back, without a timestamp, if other servers have  *)
(* yet to answer.  Replays are kept by timestamp: the first one stays.     *)
ReplayOne(acc, e) ==
    LET r == e.req
        erased == EraseApp(acc.app, r)
        others == {x \in acc.entries \ {e} : x.id = e.id /\ Rank(x.kind) = Rank(e.kind)}
        again == [acc.app[r][1] EXCEPT !.ts = 0, !.left = @ - 1]
    IN
    IF acc.app[r] = <<>> THEN acc
    ELSE [app     |-> IF others # {} THEN InsertApp(erased, r, again) ELSE erased,
          entries |-> acc.entries \ {e},
          map     |-> acc.map @@ (acc.app[r][1].ts :> r)]

(* replayRequestPrepare and replayRequest                                  *)
ReplayRequests(s) ==
    LET prepared == FoldLeft(ReplayOne, [app |-> app, entries |-> entries, map |-> <<>>],
                             PendingAt(s))
    IN
    /\ s \in replaying
    /\ replaying' = replaying \ {s}
    /\ app' = prepared.app
    /\ entries' = prepared.entries
    /\ replays' = [r \in Requests |-> replays[r] +
            Cardinality({ts \in DOMAIN prepared.map : prepared.map[ts] = r})]
    /\ UNCHANGED <<state, changes, issued, hand, locks, sent, answers>>

-----------------------------------------------------------------------------
CoordinatorStep(l) ==
    \/ \E type \in {"IS_LOCKED", "NOT_LOCKED", "REMAPPED", "NOT_EXIST"}, t \in Servers :
            HandleDegradedLockResponse(l, type, t)
    \/ \E ok \in BOOLEAN, t \in Servers : HandleDegradedSetLockResponse(l, ok, t)

ResponseStep(m) ==
    \/ Discard(m)
    \/ \E ok \in BOOLEAN : \/ HandleSetResponse(m, ok)
                           \/ HandleUpdateResponse(m, ok)
                           \/ HandleDeleteResponse(m, ok)
    \/ HandleGetElsewhere(m)
    \/ HandleGetFailure(m)
    \/ HandleGetFirstPart(m)
    \/ HandleGetPart(m)
    \/ HandleUpdateFailure(m)

Next ==
    \/ \E s \in Failing : SetState(s)
    \/ \E r \in Requests : Issue(r) \/ Replay(r)
    \/ \E h \in hand : SendRequests(h) \/ SendLockRequests(h)
    \/ \E l \in locks : CoordinatorStep(l)
    \/ \E m \in sent : ResponseStep(m)
    \/ \E s \in replaying : ReplayRequests(s)

Spec == Init /\ [][Next]_vars

-----------------------------------------------------------------------------
(* Properties                                                              *)

(* An application gets at most one answer to a GET, an UPDATE or a DELETE, *)
(* however often it is replayed and however late responses arrive.         *)
AnsweredOnce ==
    \A r \in Requests : Op[r] # "SET" => Len(answers[r]) <= 1

(* A request without an answer is not forgotten: it is among the           *)
(* application's requests or in the queue of replays.                      *)
NoneForgotten ==
    \A r \in issued : answers[r] = <<>> => app[r] # <<>> \/ replays[r] > 0

(* What is under way for a request.                                        *)
UnderWay(r) ==
    {x \in hand \cup locks \cup entries : x.req = r}

(* An UPDATE or DELETE is carried out once at a time: a replay starts only *)
(* when the client no longer expects an answer to the attempt before.      *)
OneAttempt ==
    \A r \in Requests : Op[r] \in {"UPDATE", "DELETE"} =>
        Cardinality(UnderWay(r)) + replays[r] <= 1

(* A SET is answered when all servers it was sent to have answered, or     *)
(* what they were sent is replayed.                                        *)
SetByAll ==
    \A r \in Requests : Op[r] = "SET" /\ answers[r] # <<>> /\ app[r] = <<>> =>
        UnderWay(r) = {}
=============================================================================

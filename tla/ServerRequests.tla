---------------------------- MODULE ServerRequests ----------------------------
(***************************************************************************)
(* UPDATE and DELETE at a data server.  The server sends the delta to the  *)
(* parity servers of the stripe, keeps an entry for each of them in its    *)
(* pending map and answers the client when no entry is left.  When a       *)
(* parity server fails, a client tells the data server to revert, and the  *)
(* entries of that server are dropped.                                     *)
(*                                                                         *)
(* The entries of a request differ only in the socket, which is not        *)
(* compared: a response removes any of them.  Timestamps and backups of    *)
(* the deltas are those of ParityDelta.                                    *)
(***************************************************************************)
EXTENDS Naturals, FiniteSets, Sequences

CONSTANTS
    Updates,    \* Updates[r]: [op, where, targets]: what request r asks for, where its
                \* object is, and the servers of the parity chunks in their order;
                \* "Self" is the data server itself, "Gone" a chunk it forwards itself
    Parity,     \* the parity servers
    Failing,    \* those that may fail
    Pool        \* TRUE: several workers handle messages at once

Requests == DOMAIN Updates
Op(r) == Updates[r].op
Where(r) == Updates[r].where

Targets(r) == {Updates[r].targets[i] : i \in DOMAIN Updates[r].targets} \cap Parity

VARIABLES
    at,         \* at[r]: idle, inserting, sending or sent
    todo,       \* todo[r]: the parity chunks that have no entry yet
    clients,    \* requests in the pending maps of clients
    peers,      \* <<r, p>>: entries in the pending maps of server peers
    reported,   \* parity servers that have failed, as clients know
    crashed,    \* those that receive nothing any more (the others are slow)
    refusing,   \* parity servers that regard the data server as degraded
    answers,    \* answers[r]: the answers sent to the client
    acked,      \* acked[r]: parity servers whose response was handled
    msgs

vars == <<at, todo, clients, peers, reported, crashed, refusing, answers, acked, msgs>>

Init ==
    /\ at = [r \in Requests |-> "idle"]
    /\ todo = [r \in Requests |-> <<>>]
    /\ clients = {}
    /\ peers = {}
    /\ reported = {}
    /\ crashed = {}
    /\ refusing = {}
    /\ answers = [r \in Requests |-> <<>>]
    /\ acked = [r \in Requests |-> {}]
    /\ msgs = {}

(* One worker finishes a handler before it takes the next event.           *)
Free == Pool \/ \A r \in Requests : at[r] \in {"idle", "sent"}

Entries(r) == {e \in peers : e[1] = r}

-----------------------------------------------------------------------------
(* A DELETE of an object that was remapped to this server is ignored.      *)
Ignored(r) == Where(r) = "remapped" /\ Op(r) = "DELETE"

(* An object that is not found is answered at once.                        *)
NotFound(r) == Where(r) = "absent"

(* handleUpdateRequest and handleDeleteRequest                             *)
HandleRequest(r) ==
    /\ Free
    /\ at[r] = "idle"
    /\ IF NotFound(r) \/ Ignored(r)
       THEN /\ at' = [at EXCEPT ![r] = "sent"]
            /\ answers' = IF NotFound(r) THEN [answers EXCEPT ![r] = <<FALSE>>] ELSE answers
            /\ UNCHANGED <<todo, clients>>
       ELSE /\ at' = [at EXCEPT ![r] = "inserting"]
            /\ todo' = [todo EXCEPT ![r] = Updates[r].targets]
            /\ clients' = clients \cup {r}
            /\ UNCHANGED answers
    /\ UNCHANGED <<peers, reported, crashed, refusing, acked, msgs>>

(* sendModifyChunkRequest: an entry for every parity chunk that another    *)
(* server has ...                                                          *)
InsertPending(r) ==
    /\ at[r] = "inserting"
    /\ todo[r] # <<>>
    /\ peers' = IF Head(todo[r]) \in Parity THEN peers \cup {<<r, Head(todo[r])>>} ELSE peers
    /\ todo' = [todo EXCEPT ![r] = Tail(@)]
    /\ UNCHANGED <<at, clients, reported, crashed, refusing, answers, acked, msgs>>

(* With no parity server to send to, an UPDATE of a sealed chunk is        *)
(* answered at once; in the other cases nobody answers.                    *)
NoneToSend(r) == Targets(r) = {} /\ Where(r) = "sealed" /\ Op(r) = "UPDATE"

(* ... and only then the messages.                                         *)
SendModify(r) ==
    /\ at[r] = "inserting"
    /\ todo[r] = <<>>
    /\ at' = [at EXCEPT ![r] = "sent"]
    /\ clients' = IF NoneToSend(r) THEN clients \ {r} ELSE clients
    /\ answers' = IF NoneToSend(r) /\ r \in clients THEN [answers EXCEPT ![r] = Append(@, TRUE)] ELSE answers
    /\ msgs' = msgs \cup {[type |-> "MODIFY", req |-> r, to |-> p] : p \in Targets(r) \ crashed}
    /\ UNCHANGED <<todo, peers, reported, crashed, refusing, acked>>

(* A parity server refuses the delta of a sealed chunk if it has learned   *)
(* that the data server is degraded (useCoordinatedFlow).                  *)
Refuses(p, r) == Where(r) = "sealed" /\ p \in refusing

Response(m) == [type |-> "MODIFIED", req |-> m.req, from |-> m.to, ok |-> ~Refuses(m.to, m.req)]

ParityHandle(m) ==
    /\ m.type = "MODIFY"
    /\ msgs' = (msgs \ {m}) \cup {Response(m)}
    /\ UNCHANGED <<at, todo, clients, peers, reported, crashed, refusing, answers, acked>>

(* Mutant: the client is answered while a parity server is waited for.     *)
NoneLeftButOne(r, left) == Cardinality(left) <= 1

NoneLeft(r, left) == left = {}

(* Responses to a DELETE in an unsealed chunk are looked up under the id   *)
(* of the client instead of the server's, and never found.                 *)
Mistaken(r) == Op(r) = "DELETE" /\ Where(r) = "unsealed"

(* No entry matches a response, which is then discarded.                   *)
Unmatched(r) == Entries(r) = {} \/ Mistaken(r)

(* The response of a parity server; the last one decides what the client   *)
(* is told.                                                                *)
HandleModifyResponse(m) ==
    LET r == m.req
    IN
    /\ m.type = "MODIFIED"
    /\ Free
    /\ msgs' = msgs \ {m}
    /\ IF Unmatched(r) THEN UNCHANGED <<peers, clients, answers, acked>>
       ELSE \E e \in Entries(r) :
              LET answer == NoneLeft(r, Entries(r) \ {e}) /\ r \in clients
              IN
              /\ peers' = peers \ {e}
              /\ acked' = [acked EXCEPT ![r] = @ \cup {m.from}]
              /\ clients' = IF answer THEN clients \ {r} ELSE clients
              /\ answers' = IF answer THEN [answers EXCEPT ![r] = Append(@, m.ok)] ELSE answers
    /\ UNCHANGED <<at, todo, reported, crashed, refusing>>

-----------------------------------------------------------------------------
(* Failures                                                                *)

(* A parity server crashes, or is reported though it only is slow.         *)
Fail(p) ==
    /\ p \notin reported
    /\ reported' = reported \cup {p}
    /\ \/ /\ crashed' = crashed \cup {p}
          /\ msgs' = {m \in msgs : ~(m.type = "MODIFY" /\ m.to = p)}
       \/ UNCHANGED <<crashed, msgs>>
    /\ UNCHANGED <<at, todo, clients, peers, refusing, answers, acked>>

(* The state change of the data server itself reaches a parity server.     *)
LearnDegraded(p) ==
    /\ p \notin refusing
    /\ refusing' = refusing \cup {p}
    /\ UNCHANGED <<at, todo, clients, peers, reported, crashed, answers, acked, msgs>>

(* Mutant: entries of the failed server are dropped, nobody is answered.   *)
AnswersOnRevertNone(r) == FALSE

(* CHECK_RESPONSE_FOR_FAILED_PARITY: the only entry left is that of the    *)
(* failed server.  For the DELETEs that are never found nobody is answered *)
(* here either: the name of their map is "del", not "delete".              *)
AnswersOnRevert(r) ==
    /\ Cardinality(Entries(r)) = 1
    /\ r \in clients
    /\ ~Mistaken(r)

(* Entries for which the client is not found are kept.                     *)
StaysOnRevert(r) ==
    /\ Cardinality(Entries(r)) = 1
    /\ r \notin clients
    /\ ~Mistaken(r)

(* handleRevertDelta for parity server p                                   *)
HandleRevert(p) ==
    LET waiting == {r \in Requests : <<r, p>> \in peers}
        answered == {r \in waiting : AnswersOnRevert(r)}
    IN
    /\ p \in reported
    /\ Free
    /\ waiting # {}
    /\ peers' = peers \ {<<r, p>> : r \in {q \in waiting : ~StaysOnRevert(q)}}
    /\ clients' = clients \ answered
    /\ answers' = [r \in Requests |->
            IF r \in answered THEN Append(answers[r], Op(r) = "UPDATE") ELSE answers[r]]
    /\ UNCHANGED <<at, todo, reported, crashed, refusing, acked, msgs>>

-----------------------------------------------------------------------------
Next ==
    \/ \E r \in Requests : HandleRequest(r) \/ InsertPending(r) \/ SendModify(r)
    \/ \E m \in msgs : ParityHandle(m) \/ HandleModifyResponse(m)
    \/ \E p \in Failing : Fail(p) \/ HandleRevert(p)
    \/ \E p \in Parity : LearnDegraded(p)

Spec == Init /\ [][Next]_vars

-----------------------------------------------------------------------------
(* Properties                                                              *)

(* A client is answered when every parity server has responded; if some    *)
(* have failed, when these and the responses are as many as the request    *)
(* was sent to.  A response may remove the entry of another server, but    *)
(* not two of them.  (A server that fails after it has responded counts    *)
(* twice, and with several workers a revert between two insertions answers *)
(* at once.)                                                               *)
AnsweredAfterCount ==
    \A r \in Requests :
        LET failures == Targets(r) \cap reported
        IN  (answers[r] # <<>> /\ Where(r) # "absent") =>
                /\ failures = {} => acked[r] = Targets(r)
                /\ ~Pool => Cardinality(acked[r]) + Cardinality(failures) >= Cardinality(Targets(r))

(* Nothing is under way and the entries of failed servers are dropped.     *)
Settled ==
    /\ msgs = {}
    /\ \A r \in Requests : at[r] = "sent"
    /\ \A e \in peers : e[2] \notin reported

Answerable(r) == Targets(r) # {} /\ (Op(r) = "UPDATE" \/ Where(r) = "sealed")

(* No client waits for ever, if the request is for one parity server, or   *)
(* none of its parity servers fails: the revert answers what it drops.     *)
NoneLeftWaiting ==
    Settled => \A r \in Requests :
        (Answerable(r) /\ (Cardinality(Targets(r)) = 1 \/ Targets(r) \cap reported = {}))
            => Len(answers[r]) = 1

(* "data response for UPDATE / DELETE": the revert answers the requests    *)
(* that wait for the failed server, however many parity servers there are. *)
SkipsFailed ==
    Settled => \A r \in Requests : Answerable(r) => Len(answers[r]) = 1
=============================================================================

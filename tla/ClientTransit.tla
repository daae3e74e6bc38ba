--------------------------- MODULE ClientTransit ---------------------------
(***************************************************************************)
(* A client's side of a state transition.  The reader thread applies the   *)
(* state messages of the coordinator (setState) one server record at a     *)
(* time: useCoordinatedFlow and acceptNormalResponse read the state of a   *)
(* server without its lock, so that the other threads of the client see    *)
(* the states between two records.  After the last record the reader does, *)
(* per server, the work that follows the change.  Worker threads issue     *)
(* UPDATE and DELETE requests in the normal flow and handle the responses, *)
(* send the client's metadata to the coordinator and the requests to       *)
(* revert parity deltas to the other servers; a background thread tries    *)
(* to acknowledge again from time to time.                                 *)
(***************************************************************************)
EXTENDS TransitNetwork, Integers

CONSTANTS
    Requests,       \* identifiers of UPDATE and DELETE requests
    DataServer,     \* the server of the data chunk a request writes
    ParityServers,  \* the servers of the parity chunks of its stripe
    MaxLeaves       \* bound: clients that leave the group

ASSUME ClientAssumption ==
    /\ DataServer \in [Requests -> Servers]
    /\ ParityServers \in [Requests -> SUBSET Servers]
    /\ \A r \in Requests : DataServer[r] \notin ParityServers[r]
    /\ MaxLeaves \in Nat

VARIABLES
    cState,         \* cState[c][s]: the state of s at client c
    syncMeta,       \* syncMeta[c][s]: metadata syncs queued or on their way
    pendingNormal,  \* pendingNormal[c][s]: requests gathered for s to wait for
    completed,      \* completed[c][s]: no normal request to wait for
    parityRevert,   \* parityRevert[c][s]: the counter of reverts not done
    revertQueue,    \* revertQueue[c][p][s]: events "revert s" to p, not sent
    revertAck,      \* revertAck[c][p][s]: reverts p has yet to acknowledge
    reqState,       \* reqState[c][r]: progress of a request in the normal flow
    after           \* after[c]: servers whose change is yet to be followed up

transitInfo == <<syncMeta, pendingNormal, completed, parityRevert>>
revertVars  == <<revertQueue, revertAck>>
clientVars  == <<cState, transitInfo, revertVars, reqState, after>>

ClientTypeOK ==
    /\ cState \in [Clients -> [Servers -> ClientStates]]
    /\ syncMeta \in [Clients -> [Servers -> Nat]]
    /\ pendingNormal \in [Clients -> [Servers -> SUBSET Requests]]
    /\ completed \in [Clients -> [Servers -> BOOLEAN]]
    /\ parityRevert \in [Clients -> [Servers -> Int]]
    /\ revertQueue \in [Clients -> [Servers -> [Servers -> Nat]]]
    /\ revertAck \in [Clients -> [Servers -> [Servers -> Nat]]]
    /\ reqState \in [Clients -> [Requests -> {"idle", "flow", "pending", "answered"}]]
    /\ after \in [Clients -> SUBSET Servers]

ClientInit ==
    /\ cState = [c \in Clients |-> [s \in Servers |-> NORMAL]]
    /\ syncMeta = [c \in Clients |-> [s \in Servers |-> 0]]
    /\ pendingNormal = [c \in Clients |-> [s \in Servers |-> {}]]
    /\ completed = [c \in Clients |-> [s \in Servers |-> FALSE]]
    /\ parityRevert = [c \in Clients |-> [s \in Servers |-> 0]]
    /\ revertQueue = [c \in Clients |-> [p \in Servers |-> [s \in Servers |-> 0]]]
    /\ revertAck = [c \in Clients |-> [p \in Servers |-> [s \in Servers |-> 0]]]
    /\ reqState = [c \in Clients |-> [r \in Requests |-> "idle"]]
    /\ after = [c \in Clients |-> {}]

-----------------------------------------------------------------------------
(* Mutant: INTERMEDIATE still counts as the normal flow.                   *)
UseCoordinatedFlowLate(c, s) == cState[c][s] \notin {NORMAL, INTERMEDIATE}

UseCoordinatedFlow(c, s) == cState[c][s] # NORMAL

AcceptNormalResponse(c, s) == cState[c][s] \notin {WAIT_DEGRADED, DEGRADED}

PendingAt(c) == {r \in Requests : reqState[c][r] = "pending"}

(* Mutant: the counter of reverts is not looked at.                        *)
CheckAckWithoutReverts(st, reverts, done) ==
    \/ st = INTERMEDIATE /\ done
    \/ st = COORDINATED

(* checkAckForServer: may the state st of a server be acknowledged?        *)
CheckAckForServer(st, reverts, done) ==
    \/ st = INTERMEDIATE /\ reverts = 0 /\ done
    \/ st = COORDINATED

(* Mutant: COORDINATED is acknowledged with the final state.               *)
WaitForFinal(st) == IF st = INTERMEDIATE THEN WAIT_DEGRADED ELSE NORMAL

WaitFor(st) == IF st = INTERMEDIATE THEN WAIT_DEGRADED ELSE WAIT_NORMAL

(* The reader holds the locks of all servers of a message while it applies *)
(* the records.                                                            *)
SettingState(c) ==
    IF clientBox[c] # <<>> /\ after[c] # {} /\ DOMAIN Head(clientBox[c]) # {}
    THEN DOMAIN Head(clientBox[c]) \cup after[c] ELSE {}

(* ackTransit for the servers S, given the states, counters, flags and     *)
(* gathered requests that the caller has just established: servers that    *)
(* are ready go to their wait state and are acknowledged in one message.   *)
(* For a server in INTERMEDIATE that is not ready, the gathered ids that   *)
(* findKeyValue does not find among the SETs of the applications are       *)
(* dropped: all ids of UPDATE and DELETE requests.                         *)
AckTransit(c, S, st, reverts, done, ids) ==
    LET A == {s \in S : CheckAckForServer(st[s], reverts[s], done[s])}
    IN
    /\ S \cap SettingState(c) = {}
    /\ cState' = [cState EXCEPT ![c] = [s \in Servers |->
            IF s \in A THEN WaitFor(st[s]) ELSE st[s]]]
    /\ pendingNormal' = [pendingNormal EXCEPT ![c] = [s \in Servers |->
            IF s \in S \ A /\ st[s] = INTERMEDIATE THEN {} ELSE ids[s]]]
    /\ coordBox' =
            IF A = {} THEN coordBox
            ELSE [coordBox EXCEPT ![c] = Append(@,
                    [type |-> "ack", states |-> [s \in A |-> WaitFor(st[s])]])]

-----------------------------------------------------------------------------
(* The reader thread                                                       *)

(* gatherPendingNormalRequests: requests in flight whose stripe has target *)
(* as a parity server, unless their data server is in the coordinated flow.*)
Gathered(c, target) ==
    {r \in PendingAt(c) : /\ target \in ParityServers[r]
                          /\ ~UseCoordinatedFlow(c, DataServer[r])}

(* Requests whose data server is the target: no other server waits for     *)
(* them any more.                                                          *)
Outdated(c, target) == {r \in PendingAt(c) : DataServer[r] = target}

(* Mutant: all other servers are counted, also those left out.             *)
EnterIntermediateCountsAll(c, s) ==
    LET new  == Gathered(c, s)
        out  == Outdated(c, s)
        ids  == [t \in Servers |->
                    IF t = s THEN pendingNormal[c][s] \cup new
                             ELSE pendingNormal[c][t] \ out]
        peers == {p \in Servers \ {s} : ~UseCoordinatedFlow(c, p)}
    IN
    /\ syncMeta' = [syncMeta EXCEPT ![c][s] = @ + 1]
    /\ pendingNormal' = [pendingNormal EXCEPT ![c] = ids]
    /\ completed' = [completed EXCEPT ![c][s] = new = {} /\ ids[s] = {}]
    /\ revertQueue' = [revertQueue EXCEPT ![c] = [p \in Servers |->
            IF p \in peers THEN [revertQueue[c][p] EXCEPT ![s] = @ + 1]
                           ELSE revertQueue[c][p]]]
    /\ parityRevert' = [parityRevert EXCEPT ![c][s] = @ + Cardinality(Servers \ {s})]
    /\ cState' = [cState EXCEPT ![c][s] = INTERMEDIATE]

(* setState, case STATE_INTERMEDIATE: queue a metadata sync, gather the    *)
(* normal requests to wait for, and queue a revert request to every other  *)
(* server in normal state.                                                 *)
EnterIntermediate(c, s) ==
    LET new  == Gathered(c, s)
        out  == Outdated(c, s)
        ids  == [t \in Servers |->
                    IF t = s THEN pendingNormal[c][s] \cup new
                             ELSE pendingNormal[c][t] \ out]
        peers == {p \in Servers \ {s} : ~UseCoordinatedFlow(c, p)}
    IN
    /\ syncMeta' = [syncMeta EXCEPT ![c][s] = @ + 1]
    /\ pendingNormal' = [pendingNormal EXCEPT ![c] = ids]
    /\ completed' = [completed EXCEPT ![c] = [t \in Servers |->
            IF t = s THEN new = {} /\ ids[s] = {}
                     ELSE completed[c][t] \/ (out # {} /\ ids[t] = {})]]
    /\ revertQueue' = [revertQueue EXCEPT ![c] = [p \in Servers |->
            IF p \in peers THEN [revertQueue[c][p] EXCEPT ![s] = @ + 1]
                           ELSE revertQueue[c][p]]]
    /\ parityRevert' = [parityRevert EXCEPT ![c][s] = @ + Cardinality(peers)]
    /\ cState' = [cState EXCEPT ![c][s] = INTERMEDIATE]

(* setState for one record of the message at the head of the box.  A       *)
(* client that has acknowledged keeps its wait state when the same signal  *)
(* comes again.                                                            *)
SetState(c, s) ==
    /\ clientBox[c] # <<>>
    /\ s \in DOMAIN Head(clientBox[c])
    /\ LET signal == Head(clientBox[c])[s]
           rest == [t \in DOMAIN Head(clientBox[c]) \ {s} |-> Head(clientBox[c])[t]]
       IN  /\ \/ /\ signal = INTERMEDIATE
                 /\ cState[c][s] # WAIT_DEGRADED
                 /\ EnterIntermediate(c, s)
                 /\ UNCHANGED revertAck
              \/ /\ \/ signal # INTERMEDIATE
                    \/ cState[c][s] = WAIT_DEGRADED
                 /\ cState' = [cState EXCEPT ![c][s] =
                        IF \/ signal = INTERMEDIATE
                           \/ signal = COORDINATED /\ @ = WAIT_NORMAL
                        THEN @ ELSE signal]
                 /\ UNCHANGED <<transitInfo, revertVars>>
           /\ clientBox' = [clientBox EXCEPT ![c] = <<rest>> \o Tail(@)]
    /\ after' = [after EXCEPT ![c] = @ \cup {s}]
    /\ UNCHANGED <<reqState, status, coordBox>>

(* After the last record: the follow-up of the change of one server.       *)
(* INTERMEDIATE: removePending forgets what this server has yet to         *)
(* acknowledge, and all servers are tried for acknowledgement.             *)
(* COORDINATED: the server is tried.  DEGRADED: the requests in flight to  *)
(* the server leave the normal flow and are replayed.                      *)
AfterSetState(c, s) ==
    /\ clientBox[c] # <<>>
    /\ DOMAIN Head(clientBox[c]) = {}
    /\ s \in after[c]
    /\ after' = [after EXCEPT ![c] = @ \ {s}]
    /\ \/ /\ cState[c][s] = INTERMEDIATE
          /\ LET reverts == [t \in Servers |->
                                parityRevert[c][t] - revertAck[c][s][t]]
             IN  /\ parityRevert' = [parityRevert EXCEPT ![c] = reverts]
                 /\ AckTransit(c, Servers, cState[c], reverts, completed[c],
                               pendingNormal[c])
          /\ revertAck' = [revertAck EXCEPT ![c][s] = [t \in Servers |-> 0]]
          /\ UNCHANGED reqState
       \/ /\ cState[c][s] = COORDINATED
          /\ AckTransit(c, {s}, cState[c], parityRevert[c], completed[c],
                        pendingNormal[c])
          /\ UNCHANGED <<parityRevert, revertAck, reqState>>
       \/ /\ cState[c][s] = DEGRADED
          /\ reqState' = [reqState EXCEPT ![c] = [r \in Requests |->
                IF r \in Outdated(c, s) THEN "idle" ELSE @[r]]]
          /\ UNCHANGED <<cState, pendingNormal, parityRevert, revertAck, coordBox>>
       \/ /\ cState[c][s] \in {NORMAL} \cup WaitStates
          /\ UNCHANGED <<cState, pendingNormal, parityRevert, revertAck,
                         reqState, coordBox>>
    /\ UNCHANGED <<syncMeta, completed, revertQueue, status, clientBox>>

NextMessage(c) ==
    /\ clientBox[c] # <<>>
    /\ DOMAIN Head(clientBox[c]) = {}
    /\ after[c] = {}
    /\ clientBox' = [clientBox EXCEPT ![c] = Tail(@)]
    /\ UNCHANGED <<clientVars, status, coordBox>>

-----------------------------------------------------------------------------
(* The other threads                                                       *)

(* The periodic attempt of the background thread.                          *)
BackgroundAck(c) ==
    /\ status[c] = "up"
    /\ AckTransit(c, Servers, cState[c], parityRevert[c], completed[c],
                  pendingNormal[c])
    /\ <<cState, pendingNormal>>' # <<cState, pendingNormal>>
    /\ UNCHANGED <<syncMeta, completed, parityRevert, revertVars, reqState,
                   after, status, clientBox>>

(* The client's metadata for s reaches the coordinator.                    *)
SyncMetadataSent(c, s) ==
    /\ status[c] = "up"
    /\ syncMeta[c][s] > 0
    /\ syncMeta' = [syncMeta EXCEPT ![c][s] = @ - 1]
    /\ UNCHANGED <<cState, pendingNormal, completed, parityRevert, revertVars,
                   reqState, after, netVars>>

(* A worker takes a revert event from the queue: only now is the           *)
(* acknowledgement registered as pending.                                  *)
SendRevert(c, p, s) ==
    /\ status[c] = "up"
    /\ revertQueue[c][p][s] > 0
    /\ revertQueue' = [revertQueue EXCEPT ![c][p][s] = @ - 1]
    /\ revertAck' = [revertAck EXCEPT ![c][p][s] = @ + 1]
    /\ UNCHANGED <<cState, transitInfo, reqState, after, netVars>>

(* handleDeltaAcknowledgement for a revert: the counter goes down and the  *)
(* target is tried for acknowledgement.                                    *)
DeltaAcknowledged(c, p, s) ==
    /\ status[c] = "up"
    /\ revertAck[c][p][s] > 0
    /\ revertAck' = [revertAck EXCEPT ![c][p][s] = @ - 1]
    /\ LET reverts == [parityRevert[c] EXCEPT ![s] = @ - 1]
       IN  /\ parityRevert' = [parityRevert EXCEPT ![c] = reverts]
           /\ AckTransit(c, {s}, cState[c], reverts, completed[c],
                         pendingNormal[c])
    /\ UNCHANGED <<syncMeta, completed, revertQueue, reqState, after, status,
                   clientBox>>

(* A request finds every server of its stripe in normal state ...          *)
StartRequest(c, r) ==
    /\ status[c] = "up"
    /\ reqState[c][r] = "idle"
    /\ \A s \in {DataServer[r]} \cup ParityServers[r] : ~UseCoordinatedFlow(c, s)
    /\ reqState' = [reqState EXCEPT ![c][r] = "flow"]
    /\ UNCHANGED <<cState, transitInfo, revertVars, after, netVars>>

(* ... and is registered as pending and sent, without a second look.       *)
SendRequest(c, r) ==
    /\ status[c] = "up"
    /\ reqState[c][r] = "flow"
    /\ reqState' = [reqState EXCEPT ![c][r] = "pending"]
    /\ UNCHANGED <<cState, transitInfo, revertVars, after, netVars>>

(* The response: the request is taken off the pending ones ...             *)
HandleResponse(c, r) ==
    /\ status[c] = "up"
    /\ reqState[c][r] = "pending"
    /\ AcceptNormalResponse(c, DataServer[r])
    /\ reqState' = [reqState EXCEPT ![c][r] = "answered"]
    /\ UNCHANGED <<cState, transitInfo, revertVars, after, netVars>>

(* ... and then, under the locks of the parity servers, those of them in   *)
(* transition that still wait for normal requests wait for one fewer; the  *)
(* last one completes the wait.                                            *)
CompleteNormalRequest(c, r) ==
    LET P   == {s \in ParityServers[r] :
                    UseCoordinatedFlow(c, s) /\ ~completed[c][s]}
        ids == [s \in Servers |-> IF s \in P THEN pendingNormal[c][s] \ {r}
                                             ELSE pendingNormal[c][s]]
        Z   == {s \in P : ids[s] = {}}
        done == [s \in Servers |-> completed[c][s] \/ s \in Z]
    IN
    /\ status[c] = "up"
    /\ reqState[c][r] = "answered"
    /\ ParityServers[r] \cap SettingState(c) = {}
    /\ reqState' = [reqState EXCEPT ![c][r] = "idle"]
    /\ completed' = [completed EXCEPT ![c] = done]
    /\ AckTransit(c, Z, cState[c], parityRevert[c], done, ids)
    /\ UNCHANGED <<syncMeta, parityRevert, revertVars, after, status, clientBox>>

-----------------------------------------------------------------------------
(* Membership                                                              *)

Join(c) ==
    /\ status[c] = "new"
    /\ status' = [status EXCEPT ![c] = "up"]
    /\ coordBox' = [coordBox EXCEPT ![c] =
            Append(@, [type |-> "join", states |-> NoRecords])]
    /\ UNCHANGED <<clientVars, clientBox>>

(* A client stops or crashes; its unread messages, its queues and what is  *)
(* on its way to it are gone.                                              *)
Leave(c) ==
    /\ status[c] = "up"
    /\ Cardinality({x \in Clients : status[x] = "gone"}) < MaxLeaves
    /\ status' = [status EXCEPT ![c] = "gone"]
    /\ clientBox' = [clientBox EXCEPT ![c] = <<>>]
    /\ coordBox' = [coordBox EXCEPT ![c] =
            Append(@, [type |-> "left", states |-> NoRecords])]
    /\ UNCHANGED clientVars
=============================================================================

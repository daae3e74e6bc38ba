---------------------------- MODULE StateTransit ----------------------------
(***************************************************************************)
(* Coordinator and clients together: the transition of servers from normal *)
(* to degraded state and back.                                             *)
(***************************************************************************)
EXTENDS CoordinatorTransit, ClientTransit, Functions

vars == <<netVars, coordVars, clientVars>>

TypeOK == NetTypeOK /\ CoordTypeOK /\ ClientTypeOK

Init ==
    /\ status = [c \in Clients |-> IF c \in InitialClients THEN "up" ELSE "new"]
    /\ clientBox = [c \in Clients |-> <<>>]
    /\ coordBox = [c \in Clients |-> <<>>]
    /\ CoordInit
    /\ ClientInit

(* The last metadata packet of a client is sent and handled.               *)
SyncMetadata(c, s) == SyncMetadataSent(c, s) /\ SyncMetadataArrived(s)

DispatcherStep(d) ==
    \/ \E s \in Servers : InitServer(d, s)
    \/ InitCompose(d)
    \/ InitSend(d)
    \/ \E s \in Servers : InsertEvent(d, s)
    \/ InitDone(d)

WorkerStep(w) ==
    \/ ExtractEvent(w)
    \/ TransitToDegradedEnd(w)
    \/ CheckAck(w)
    \/ CondWait(w)
    \/ Commit(w)
    \/ TransitToNormalEnd(w)
    \/ WorkerSend(w)

ReaderStep ==
    \/ \E c \in Clients, s \in Servers : UpdateState(c, s)
    \/ \E c \in Clients : AddAliveClient(c) \/ RemoveAliveClient(c)
    \/ SignalAcked
    \/ EraseAck
    \/ ReaderSend

ClientReaderStep(c) ==
    \/ \E s \in Servers : SetState(c, s) \/ AfterSetState(c, s)
    \/ NextMessage(c)

RequestStep(c, r) ==
    SendRequest(c, r) \/ HandleResponse(c, r) \/ CompleteNormalRequest(c, r)

(* What the environment may or may not do.                                 *)
CoordEnvironment ==
    \/ \E d \in Dispatchers, S \in (SUBSET Switchable) \ {{}}, start, isCrashed \in BOOLEAN :
            SwitchPhase(d, S, start, isCrashed)
    \/ \E d \in Dispatchers : InitSendFails(d)
    \/ \E w \in Workers : SpuriousWakeup(w)
    \/ ServerJoined

ClientEnvironment ==
    \E c \in Clients : Join(c) \/ Leave(c) \/ \E r \in Requests : StartRequest(c, r)

CoordStep ==
    \/ \E d \in Dispatchers : DispatcherStep(d)
    \/ \E w \in Workers : WorkerStep(w)
    \/ ReaderStep
    \/ CoordEnvironment

ClientStep ==
    \/ \E c \in Clients :
        \/ ClientReaderStep(c)
        \/ BackgroundAck(c)
        \/ \E p, s \in Servers : SendRevert(c, p, s) \/ DeltaAcknowledged(c, p, s)
        \/ \E r \in Requests : RequestStep(c, r)
    \/ ClientEnvironment

Next ==
    /\ ~terminated
    /\ \/ CoordStep /\ UNCHANGED clientVars
       \/ ClientStep /\ UNCHANGED coordVars
       \/ \E c \in Clients, s \in Servers : SyncMetadata(c, s)

Spec == Init /\ [][Next]_vars

(* Every thread keeps running, and the servers that are never switched     *)
(* answer.  Nothing is promised about the environment, about servers that  *)
(* may have crashed, or about the background thread, which is optional.    *)
Fairness ==
    /\ \A d \in Dispatchers : WF_vars(~terminated /\ DispatcherStep(d) /\ UNCHANGED clientVars)
    /\ \A w \in Workers : WF_vars(~terminated /\ WorkerStep(w) /\ UNCHANGED clientVars)
    /\ WF_vars(~terminated /\ ReaderStep /\ UNCHANGED clientVars)
    /\ \A c \in Clients :
        /\ WF_vars(~terminated /\ ClientReaderStep(c) /\ UNCHANGED coordVars)
        /\ \A p, s \in Servers :
            /\ WF_vars(~terminated /\ SendRevert(c, p, s) /\ UNCHANGED coordVars)
            /\ p \notin Switchable =>
                WF_vars(~terminated /\ DeltaAcknowledged(c, p, s) /\ UNCHANGED coordVars)
        /\ \A r \in {q \in Requests : DataServer[q] \notin Switchable} :
            WF_vars(~terminated /\ RequestStep(c, r) /\ UNCHANGED coordVars)
        /\ \A s \in Servers : WF_vars(~terminated /\ SyncMetadata(c, s))

LiveSpec == Spec /\ Fairness

-----------------------------------------------------------------------------
(* Properties                                                              *)

(* From extracting an event to completing the transition.                  *)
Active(w) == worker[w].pc \notin {"idle", "send"}

(* As long as no multicast has failed, a worker that handles an event      *)
(* finds the server in the state the event was inserted for, and no second *)
(* worker handles the same server: the branches of transitToDegraded and   *)
(* transitToNormal that give up because "other workers change the state"   *)
(* are dead.                                                               *)
SingleTransition ==
    sendFailures = 0 =>
        \A w \in Workers : Active(w) =>
            /\ serversState[worker[w].server] = Transient(worker[w].start)
            /\ \A v \in Workers \ {w} :
                    Active(v) => worker[v].server # worker[w].server

(* A server on its way is never forgotten: some thread or the event queue  *)
(* still holds the event that will complete its transition, also when the  *)
(* queue is full (insertRepeatedEvents) or a broadcast failed.             *)
TransitionOwned ==
    \A s \in Servers, start \in BOOLEAN : serversState[s] = Transient(start) =>
        \/ \E d \in Dispatchers : dispatcher[d].start = start /\ s \in dispatcher[d].checked
        \/ \E i \in DOMAIN eventQueue : eventQueue[i] = [server |-> s, start |-> start]
        \/ \E w \in Workers :
                Active(w) /\ worker[w].server = s /\ worker[w].start = start

(* The protocol keeps its promise: the state of a server at the            *)
(* coordinator goes round the four modes, it is completed only when all    *)
(* clients wait for it, and the state at every client follows one step at  *)
(* a time and is never more than one phase away.                           *)
Promise == INSTANCE TransitPromise WITH mode <- serversState, view <- cState
PromiseKept == Promise!PSpec

(* A client never runs a server in a flow that the coordinator's state of  *)
(* the server excludes: once the coordinator is DEGRADED no client is in   *)
(* the normal flow or on its way (INTERMEDIATE), and once it is NORMAL     *)
(* again no client uses the degraded flow.                                 *)
ModeAgreement ==
    \A c \in Members, s \in Servers : cState[c][s] \in Promise!Views(serversState[s])

(* When the wait for the metadata is over (transitToDegradedEnd), every    *)
(* client of the group was told of the transition and none of its metadata *)
(* for the server is still queued or on its way.                           *)
MetadataSynced ==
    \A w \in Workers :
        Active(w) /\ worker[w].start /\ worker[w].pc # "metadata" =>
            \A c \in Members :
                /\ cState[c][worker[w].server] \in {INTERMEDIATE, WAIT_DEGRADED}
                /\ syncMeta[c][worker[w].server] = 0

(* The coordinator completes the transition to DEGRADED only when every    *)
(* client that is alive has acknowledged it.                               *)
DegradedNeedsAllAcks ==
    [][\A s \in Servers :
        serversState[s] = INTERMEDIATE /\ serversState'[s] = DEGRADED =>
            aliveClients \subseteq ackClients[s]]_vars

(* When a server is DEGRADED at the coordinator, no client waits for the   *)
(* revert of a parity delta of that server.                                *)
ParityReverted ==
    \A s \in Servers : serversState[s] = DEGRADED =>
        \A c \in Members, p \in Servers :
            revertQueue[c][p][s] = 0 /\ revertAck[c][p][s] = 0

(* The counter of pending reverts is the number of revert events queued    *)
(* plus the acknowledgements registered, whichever of the two handlers     *)
(* takes them off (the acknowledgement or removePending).                  *)
RevertsOf(c, s) == [p \in Servers |-> revertQueue[c][p][s] + revertAck[c][p][s]]
RevertCounterExact ==
    \A c \in Clients, s \in Servers :
        parityRevert[c][s] = SumFunctionOnSet(RevertsOf(c, s), Servers)

(* The coordinator counts acknowledgements by comparing set sizes, which   *)
(* is right only if it counts none of a client that is not alive: the set  *)
(* of a server holds alive clients only, except while the reader is        *)
(* between the two locks of removeAliveClient.                             *)
AcksFromAlive ==
    \A s \in Servers : ackClients[s] \subseteq aliveClients \cup {reader.client}

(* A request that a client gathered, to wait for it before it acknowledges *)
(* the transition of s, is awaited until it is answered or its data server *)
(* is in transition itself.                                                *)
GatheredAwaited ==
    [][\A c \in Members, s \in Servers :
        \A r \in pendingNormal[c][s] \ pendingNormal'[c][s] :
            \/ reqState'[c][r] # "pending"
            \/ cState'[c][DataServer[r]] # NORMAL]_vars

(* A client that acknowledged the transition of a server has no request in *)
(* flight in the normal flow to a stripe in which the server holds parity, *)
(* other than those whose data server has left the normal flow itself.     *)
NormalRequestsDrained ==
    \A c \in Members, s \in Servers : cState[c][s] = WAIT_DEGRADED =>
        Gathered(c, s) = {}

(* A multicast that fails leaves each server as it was before the switch   *)
(* that failed.                                                            *)
FailedStartReverts ==
    [][\A d \in Dispatchers : InitSendFails(d) =>
        \A s \in dispatcher[d].checked :
            serversState'[s] = Origin(dispatcher[d].start)]_vars

(* A client that starts a transition acknowledges it, or is told of        *)
(* another state.                                                          *)
ClientsAcknowledge ==
    \A c \in Clients, s \in Servers :
        cState[c][s] = INTERMEDIATE ~> cState[c][s] # INTERMEDIATE

(* A transition that was started completes.                                *)
TransitionCompletes ==
    \A s \in Servers :
        /\ serversState[s] = INTERMEDIATE ~> serversState[s] = DEGRADED
        /\ serversState[s] = COORDINATED ~> serversState[s] = NORMAL
=============================================================================

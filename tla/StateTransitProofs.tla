------------------------ MODULE StateTransitProofs ------------------------
(***************************************************************************)
(* Proofs about StateTransit, in three parts.                              *)
(*  1. The types of the state are an inductive invariant, shown with one   *)
(*     lemma per action; the acknowledgements that the coordinator counts  *)
(*     are of clients that are alive, and each client counts its reverts.  *)
(*  2. A server on its way is held by one event.                           *)
(*  3. The refinement of TransitPromise, and what the clients have done    *)
(*     when a transition is completed.                                     *)
(***************************************************************************)
EXTENDS StateTransit, SumLemmas

(* A function from a set of servers is a state message: what sendState     *)
(* packs for any list of servers.                                          *)
LEMMA RecordsIntro ==
    ASSUME NEW V, NEW D \in SUBSET Servers, NEW f \in [D -> V]
    PROVE  f \in Records(V)
  BY DEF Records

(* A state message is a function from the servers it lists (sendState).    *)
LEMMA RecordsElim ==
    ASSUME NEW V, NEW f \in Records(V)
    PROVE  DOMAIN f \in SUBSET Servers /\ f \in [DOMAIN f -> V]
  BY DEF Records

(* The message that lists no server is a state message.                    *)
LEMMA NoRecordsType ==
    ASSUME NEW V
    PROVE  NoRecords \in Records(V)
  <1>1. NoRecords \in [{} -> V] BY DEF NoRecords
  <1> QED BY <1>1, RecordsIntro

(* broadcastState builds a message of coordinator states, for a list of    *)
(* servers or, when the list is empty, for all of them.                    *)
LEMMA ComposeType ==
    ASSUME NEW st \in [Servers -> CoordStates], NEW S \in SUBSET Servers
    PROVE  Compose(st, S) \in Records(CoordStates)
  <1> DEFINE D == IF S = {} THEN Servers ELSE S
  <1>1. D \in SUBSET Servers OBVIOUS
  <1>2. Compose(st, S) \in [D -> CoordStates] BY <1>1 DEF Compose
  <1> HIDE DEF D
  <1> QED BY <1>1, <1>2, RecordsIntro

(* The threads of the coordinator start in states of their types.          *)
LEMMA IdleTypes ==
    /\ IdleWorker \in WorkerState
    /\ IdleDispatcher \in DispatcherState
    /\ IdleReader \in ReaderState
  BY NoRecordsType DEF IdleWorker, IdleDispatcher, IdleReader, WorkerState,
     WorkerPC, DispatcherState, ReaderState

(* SP_multicast of a message of coordinator states keeps the boxes of the  *)
(* clients well typed.                                                     *)
LEMMA MulticastType ==
    ASSUME NetTypeOK, NEW msg \in Records(CoordStates), Multicast(msg)
    PROVE  clientBox' \in [Clients -> Seq(Records(CoordStates))]
  BY DEF NetTypeOK, Multicast

(* A uint32_t counter stays within its width.                              *)
LEMMA ModType ==
    ASSUME NEW n \in Nat
    PROVE  n % CounterMod \in 0 .. CounterMod - 1
  BY CoordinatorAssumption

(* The number of clients, or of servers, of any group is a natural number. *)
LEMMA CardType ==
    ASSUME NEW S, S \subseteq Clients \/ S \subseteq Servers
    PROVE  Cardinality(S) \in Nat
  BY NetworkAssumption, FS_Subset, FS_CardinalityType

(* The SWITCH_PHASE event, which records the clients to wait for and the   *)
(* crashed servers, keeps the types.                                       *)
LEMMA SwitchPhaseType ==
    ASSUME TypeOK, NEW d \in Dispatchers, NEW S \in SUBSET Servers,
           NEW start \in BOOLEAN, NEW isCrashed \in BOOLEAN,
           SwitchPhase(d, S, start, isCrashed)
    PROVE  NetTypeOK' /\ CoordTypeOK'
  <1>1. transition' \in [Servers -> (0 .. CounterMod - 1) \cup {None}]
    <2>1. Cardinality(Members) \in Nat BY CardType DEF Members
    <2> QED BY <2>1, ModType DEF TypeOK, CoordTypeOK, SwitchPhase
  <1>2. dispatcher' \in [Dispatchers -> DispatcherState]
    <2> DEFINE new == [IdleDispatcher EXCEPT
                !.pc = "init", !.start = start,
                !.todo = IF start THEN S ELSE S \ crashedServers]
    <2>1. new \in DispatcherState
      BY IdleTypes DEF DispatcherState
    <2> QED BY <2>1 DEF TypeOK, CoordTypeOK, SwitchPhase
  <1>3. crashedServers' \subseteq Servers
    BY DEF TypeOK, CoordTypeOK, SwitchPhase
  <1>4. NetTypeOK'
    BY DEF TypeOK, NetTypeOK, SwitchPhase, netVars
  <1> QED
    BY <1>1, <1>2, <1>3, <1>4 DEF TypeOK, CoordTypeOK, SwitchPhase, ackVars, netVars

(* One round of the first loop of stateChangeInitHandler keeps the types.  *)
LEMMA InitServerType ==
    ASSUME TypeOK, NEW d \in Dispatchers, NEW s \in Servers, InitServer(d, s)
    PROVE  NetTypeOK' /\ CoordTypeOK'
  <1>1. dispatcher[d] \in DispatcherState BY DEF TypeOK, CoordTypeOK
  <1>2. dispatcher' \in [Dispatchers -> DispatcherState]
    <2>1. [dispatcher[d] EXCEPT !.todo = @ \ {s}, !.checked = @ \cup {s}] \in DispatcherState
      BY <1>1 DEF DispatcherState
    <2>2. [dispatcher[d] EXCEPT !.todo = @ \ {s}, !.skipped = @ \cup {s}] \in DispatcherState
      BY <1>1 DEF DispatcherState
    <2> QED BY <2>1, <2>2 DEF TypeOK, CoordTypeOK, InitServer
  <1>3. serversState' \in [Servers -> CoordStates]
    BY DEF TypeOK, CoordTypeOK, InitServer, Transient, CoordStates
  <1>4. ackClients' \in [Servers -> SUBSET Clients]
    BY DEF TypeOK, CoordTypeOK, InitServer
  <1>5. NetTypeOK'
    BY DEF TypeOK, NetTypeOK, InitServer, netVars
  <1> QED
    BY <1>2, <1>3, <1>4, <1>5
    DEF TypeOK, CoordTypeOK, InitServer, metaVars, boundVars, netVars

(* The broadcast of stateChangeInitHandler, composed and then sent, keeps  *)
(* the types.                                                              *)
LEMMA DispatcherSendType ==
    ASSUME TypeOK, NEW d \in Dispatchers, InitCompose(d) \/ InitSend(d)
    PROVE  NetTypeOK' /\ CoordTypeOK'
  <1>1. dispatcher[d] \in DispatcherState BY DEF TypeOK, CoordTypeOK
  <1>2. CASE InitCompose(d)
    <2>1. Compose(serversState, dispatcher[d].checked) \in Records(CoordStates)
      BY <1>1, ComposeType DEF TypeOK, CoordTypeOK, DispatcherState
    <2>2. [dispatcher[d] EXCEPT !.pc = "send",
                  !.msg = Compose(serversState, dispatcher[d].checked)] \in DispatcherState
      BY <1>1, <2>1 DEF DispatcherState
    <2>3. dispatcher' \in [Dispatchers -> DispatcherState]
      BY <1>2, <2>2 DEF TypeOK, CoordTypeOK, InitCompose
    <2> QED
      BY <1>2, <2>3 DEF TypeOK, CoordTypeOK, NetTypeOK, InitCompose, ackVars,
         metaVars, boundVars, netVars
  <1>3. CASE InitSend(d)
    <2>1. [dispatcher[d] EXCEPT !.pc = "insert", !.msg = NoRecords] \in DispatcherState
      BY <1>1, NoRecordsType DEF DispatcherState
    <2>2. dispatcher' \in [Dispatchers -> DispatcherState]
      BY <1>3, <2>1 DEF TypeOK, CoordTypeOK, InitSend
    <2>3. dispatcher[d].msg \in Records(CoordStates)
      BY <1>1 DEF DispatcherState
    <2>4. clientBox' \in [Clients -> Seq(Records(CoordStates))]
      BY <1>3, <2>3, MulticastType DEF TypeOK, InitSend
    <2> QED
      BY <1>3, <2>2, <2>4 DEF TypeOK, CoordTypeOK, NetTypeOK, InitSend, ackVars,
         metaVars, boundVars, netVars
  <1> QED BY <1>2, <1>3

(* The revert loop of stateChangeInitHandler after a failed broadcast      *)
(* keeps the types, whichever servers it walks over.                       *)
LEMMA InitSendFailsType ==
    ASSUME TypeOK, NEW d \in Dispatchers, InitSendFails(d)
    PROVE  NetTypeOK' /\ CoordTypeOK'
  <1>1. dispatcher[d] \in DispatcherState BY DEF TypeOK, CoordTypeOK
  <1>2. dispatcher' \in [Dispatchers -> DispatcherState]
    <2>1. [dispatcher[d] EXCEPT !.pc = "insert", !.msg = NoRecords] \in DispatcherState
      BY <1>1, NoRecordsType DEF DispatcherState
    <2> QED BY <2>1 DEF TypeOK, CoordTypeOK, InitSendFails
  <1>3. PICK R \in SUBSET dispatcher[d].skipped :
        /\ LET start == dispatcher[d].start
           IN  serversState' = [s \in Servers |->
                    IF s \in R /\ serversState[s] = Transient(start)
                    THEN Origin(start) ELSE serversState[s]]
        /\ terminated' = (Cardinality(R) < Cardinality(dispatcher[d].checked))
    BY DEF InitSendFails
  <1>4. serversState' \in [Servers -> CoordStates]
    BY <1>3 DEF TypeOK, CoordTypeOK, Origin, CoordStates
  <1>5. terminated' \in BOOLEAN
    BY <1>3
  <1>6. sendFailures' \in Nat
    BY DEF TypeOK, CoordTypeOK, InitSendFails
  <1>7. UNCHANGED <<ackVars, metaVars, eventQueue, worker, reader, switches,
                   serverJoins, netVars>>
    BY DEF InitSendFails
  <1> QED
    BY <1>2, <1>4, <1>5, <1>6, <1>7 DEF TypeOK, CoordTypeOK, NetTypeOK, ackVars,
       metaVars, netVars

(* insertRepeatedEvents, and the return from the handler, keep the types.  *)
LEMMA InsertType ==
    ASSUME TypeOK, NEW d \in Dispatchers,
           InitDone(d) \/ \E s \in Servers : InsertEvent(d, s)
    PROVE  NetTypeOK' /\ CoordTypeOK'
  <1>1. dispatcher[d] \in DispatcherState BY DEF TypeOK, CoordTypeOK
  <1>2. CASE InitDone(d)
    <2>1. dispatcher' \in [Dispatchers -> DispatcherState]
      BY <1>2, IdleTypes DEF TypeOK, CoordTypeOK, InitDone
    <2> QED
      BY <1>2, <2>1 DEF TypeOK, CoordTypeOK, NetTypeOK, InitDone, ackVars,
         metaVars, boundVars, netVars
  <1>3. ASSUME NEW s \in Servers, InsertEvent(d, s)
        PROVE  NetTypeOK' /\ CoordTypeOK'
    <2>1. [dispatcher[d] EXCEPT !.checked = @ \ {s}] \in DispatcherState
      BY <1>1 DEF DispatcherState
    <2>2. dispatcher' \in [Dispatchers -> DispatcherState]
      BY <1>3, <2>1 DEF TypeOK, CoordTypeOK, InsertEvent
    <2>3. [server |-> s, start |-> dispatcher[d].start] \in Event
      BY <1>1 DEF Event, DispatcherState
    <2>4. eventQueue' \in Seq(Event)
      BY <1>3, <2>3 DEF TypeOK, CoordTypeOK, InsertEvent
    <2> QED
      BY <1>3, <2>2, <2>4 DEF TypeOK, CoordTypeOK, NetTypeOK, InsertEvent,
         ackVars, metaVars, boundVars, netVars
  <1> QED BY <1>2, <1>3

(* pthread_cond_broadcast changes the workers only within their type.      *)
LEMMA WokenType ==
    ASSUME TypeOK, NEW s
    PROVE  Woken(s) \in [Workers -> WorkerState]
  <1>1. ASSUME NEW w \in Workers
        PROVE  /\ worker[w] \in WorkerState
               /\ [worker[w] EXCEPT !.pc = "commit"] \in WorkerState
    BY DEF TypeOK, CoordTypeOK, WorkerState, WorkerPC
  <1> QED BY <1>1 DEF Woken

(* A transit worker that takes an event and waits for metadata and         *)
(* acknowledgements keeps the types.                                       *)
LEMMA WorkerWaitType ==
    ASSUME TypeOK, NEW w \in Workers,
           ExtractEvent(w) \/ TransitToDegradedEnd(w) \/ CheckAck(w)
              \/ CondWait(w) \/ SpuriousWakeup(w)
    PROVE  NetTypeOK' /\ CoordTypeOK'
  <1>1. worker[w] \in WorkerState BY DEF TypeOK, CoordTypeOK
  <1>2. ASSUME NEW f \in [Workers -> WorkerState], NEW pc \in WorkerPC
        PROVE  [f EXCEPT ![w].pc = pc] \in [Workers -> WorkerState]
    <2>1. f[w] \in WorkerState OBVIOUS
    <2>2. [f[w] EXCEPT !.pc = pc] \in WorkerState BY <2>1 DEF WorkerState
    <2> QED BY <2>2
  <1>3. worker \in [Workers -> WorkerState] BY DEF TypeOK, CoordTypeOK
  <1>4. CASE ExtractEvent(w)
    <2>1. Head(eventQueue) \in Event /\ eventQueue' \in Seq(Event)
      BY <1>4 DEF TypeOK, CoordTypeOK, ExtractEvent
    <2>2. worker' \in [Workers -> WorkerState]
      BY <1>4, <2>1, NoRecordsType
      DEF TypeOK, CoordTypeOK, ExtractEvent, Event, WorkerState, WorkerPC
    <2> QED
      BY <1>4, <2>1, <2>2 DEF TypeOK, CoordTypeOK, NetTypeOK, ExtractEvent,
         ackVars, metaVars, boundVars, netVars
  <1>5. CASE TransitToDegradedEnd(w)
    <2>1. worker' \in [Workers -> WorkerState]
      BY <1>2, <1>3, <1>5 DEF TransitToDegradedEnd, WorkerPC
    <2>2. transition' \in [Servers -> (0 .. CounterMod - 1) \cup {None}]
      BY <1>5 DEF TypeOK, CoordTypeOK, TransitToDegradedEnd
    <2>3. reconstructing' \subseteq Servers
      BY <1>5 DEF TypeOK, CoordTypeOK, TransitToDegradedEnd
    <2> QED
      BY <1>5, <2>1, <2>2, <2>3 DEF TypeOK, CoordTypeOK, NetTypeOK,
         TransitToDegradedEnd, ackVars, boundVars, netVars
  <1>6. CASE CheckAck(w)
    <2>1. PICK f \in [Workers -> WorkerState], pc \in WorkerPC :
             worker' = [f EXCEPT ![w].pc = pc]
      BY <1>3, <1>6, WokenType, Zenon DEF CheckAck, WorkerPC
    <2>2. worker' \in [Workers -> WorkerState]
      BY <1>2, <2>1
    <2> QED
      BY <1>6, <2>2 DEF TypeOK, CoordTypeOK, NetTypeOK, CheckAck, ackVars,
         metaVars, boundVars, netVars
  <1>7. CASE CondWait(w) \/ SpuriousWakeup(w)
    <2>1. worker' \in [Workers -> WorkerState]
      BY <1>2, <1>3, <1>7 DEF CondWait, SpuriousWakeup, WorkerPC
    <2> QED
      BY <1>7, <2>1 DEF TypeOK, CoordTypeOK, NetTypeOK, CondWait,
         SpuriousWakeup, ackVars, metaVars, boundVars, netVars
  <1> QED BY <1>4, <1>5, <1>6, <1>7

(* A transit worker that completes a transition and broadcasts it keeps    *)
(* the types.                                                              *)
LEMMA WorkerCommitType ==
    ASSUME TypeOK, NEW w \in Workers,
           Commit(w) \/ TransitToNormalEnd(w) \/ WorkerSend(w)
    PROVE  NetTypeOK' /\ CoordTypeOK'
  <1>1. worker \in [Workers -> WorkerState] BY DEF TypeOK, CoordTypeOK
  <1>2. serversState \in [Servers -> CoordStates] BY DEF TypeOK, CoordTypeOK
  <1>3. ASSUME NEW msg \in Records(CoordStates)
        PROVE  [worker EXCEPT ![w].pc = "send", ![w].msg = msg] \in [Workers -> WorkerState]
    BY <1>1 DEF WorkerState, WorkerPC
  <1>4. ASSUME NEW state \in CoordStates
        PROVE  LET new == [serversState EXCEPT ![worker[w].server] = state]
               IN  new \in [Servers -> CoordStates] /\ Compose(new, {}) \in Records(CoordStates)
    <2>1. [serversState EXCEPT ![worker[w].server] = state] \in [Servers -> CoordStates]
      BY <1>2
    <2> QED BY <2>1, ComposeType
  <1>5. CASE Commit(w)
    <2>1. DEGRADED \in CoordStates BY DEF CoordStates
    <2>2. serversState' \in [Servers -> CoordStates]
      BY <1>2, <1>4, <1>5, <2>1 DEF Commit
    <2>3. worker' \in [Workers -> WorkerState]
      <3>1. [worker EXCEPT ![w] = IdleWorker] \in [Workers -> WorkerState]
        BY <1>1, IdleTypes
      <3>2. [worker EXCEPT ![w].pc = "normalEnd"] \in [Workers -> WorkerState]
        BY <1>1 DEF WorkerState, WorkerPC
      <3> DEFINE degraded == [serversState EXCEPT ![worker[w].server] = DEGRADED]
      <3>3. Compose(degraded, {}) \in Records(CoordStates)
        BY <1>4, <2>1
      <3>4. [worker EXCEPT ![w].pc = "send", ![w].msg = Compose(degraded, {})]
                \in [Workers -> WorkerState]
        BY <1>3, <3>3
      <3>5. \/ worker' = [worker EXCEPT ![w] = IdleWorker]
            \/ worker' = [worker EXCEPT ![w].pc = "normalEnd"]
            \/ worker' = [worker EXCEPT ![w].pc = "send", ![w].msg = Compose(degraded, {})]
        BY <1>5, Zenon DEF Commit
      <3> QED BY <3>1, <3>2, <3>4, <3>5
    <2> QED
      BY <1>5, <2>2, <2>3 DEF TypeOK, CoordTypeOK, NetTypeOK, Commit, ackVars,
         metaVars, boundVars, netVars
  <1>6. CASE TransitToNormalEnd(w)
    <2>1. NORMAL \in CoordStates BY DEF CoordStates
    <2>2. serversState' \in [Servers -> CoordStates]
      BY <1>4, <1>6, <2>1 DEF TransitToNormalEnd
    <2>3. worker' \in [Workers -> WorkerState]
      BY <1>3, <1>4, <1>6, <2>1 DEF TransitToNormalEnd
    <2> QED
      BY <1>6, <2>2, <2>3 DEF TypeOK, CoordTypeOK, NetTypeOK,
         TransitToNormalEnd, ackVars, metaVars, boundVars, netVars
  <1>7. CASE WorkerSend(w)
    <2>1. worker' \in [Workers -> WorkerState]
      BY <1>1, <1>7, IdleTypes DEF WorkerSend
    <2>2. worker[w].msg \in Records(CoordStates)
      BY <1>1 DEF WorkerState
    <2>3. clientBox' \in [Clients -> Seq(Records(CoordStates))] /\ sendFailures' \in Nat
      BY <1>7, <2>2, MulticastType DEF TypeOK, CoordTypeOK, NetTypeOK, WorkerSend
    <2> QED
      BY <1>7, <2>1, <2>3 DEF TypeOK, CoordTypeOK, NetTypeOK, WorkerSend,
         ackVars, metaVars
  <1> QED BY <1>5, <1>6, <1>7

(* updateState, for one record of an acknowledgement, keeps the types.     *)
LEMMA UpdateStateType ==
    ASSUME TypeOK, NEW c \in Clients, NEW s \in Servers, UpdateState(c, s)
    PROVE  NetTypeOK' /\ CoordTypeOK'
  <1>1. reader' \in ReaderState
    <2>1. [IdleReader EXCEPT !.pc = "signal", !.server = s] \in ReaderState
      BY IdleTypes DEF ReaderState
    <2> QED BY <2>1, IdleTypes DEF UpdateState
  <1>2. ackClients' \in [Servers -> SUBSET Clients]
    BY DEF TypeOK, CoordTypeOK, UpdateState
  <1>3. coordBox' \in [Clients -> Seq(CoordMsg)]
    <2> DEFINE msg == Head(coordBox[c])
               left == DOMAIN msg.states \ {s}
               rest == [type |-> "ack", states |-> [t \in left |-> msg.states[t]]]
    <2>1. coordBox[c] \in Seq(CoordMsg) /\ coordBox[c] # <<>>
      BY DEF TypeOK, NetTypeOK, UpdateState
    <2>2. msg \in CoordMsg /\ Tail(coordBox[c]) \in Seq(CoordMsg)
      BY <2>1
    <2>3. DOMAIN msg.states \in SUBSET Servers
          /\ msg.states \in [DOMAIN msg.states -> WaitStates]
      BY <2>2, RecordsElim DEF CoordMsg
    <2>4. rest.states \in Records(WaitStates)
      BY <2>3, RecordsIntro
    <2>5. rest \in CoordMsg
      BY <2>4 DEF CoordMsg
    <2>6. <<rest>> \o Tail(coordBox[c]) \in Seq(CoordMsg)
      <3> HIDE DEF rest
      <3> QED BY <2>2, <2>5
    <2>7. coordBox' = [coordBox EXCEPT ![c] =
              IF left = {} THEN Tail(coordBox[c]) ELSE <<rest>> \o Tail(coordBox[c])]
      BY DEF UpdateState
    <2> QED BY <2>2, <2>6, <2>7 DEF TypeOK, NetTypeOK
  <1> QED
    BY <1>1, <1>2, <1>3 DEF TypeOK, CoordTypeOK, NetTypeOK, UpdateState,
       metaVars, boundVars

(* The other steps of the coordinator's reader (signal, membership         *)
(* changes, their broadcasts) keep the types.                              *)
LEMMA ReaderType ==
    ASSUME TypeOK,
           \/ \E c \in Clients : AddAliveClient(c) \/ RemoveAliveClient(c)
           \/ SignalAcked \/ EraseAck \/ ServerJoined \/ ReaderSend
    PROVE  NetTypeOK' /\ CoordTypeOK'
  <1>1. reader \in ReaderState BY DEF TypeOK, CoordTypeOK
  <1>2. ASSUME NEW c \in Clients, coordBox[c] # <<>>
        PROVE  [coordBox EXCEPT ![c] = Tail(@)] \in [Clients -> Seq(CoordMsg)]
    <2>1. Tail(coordBox[c]) \in Seq(CoordMsg)
      BY <1>2 DEF TypeOK, NetTypeOK
    <2> QED BY <2>1 DEF TypeOK, NetTypeOK
  <1>3. [IdleReader EXCEPT !.pc = "send", !.msg = Compose(serversState, {})] \in ReaderState
    <2>1. Compose(serversState, {}) \in Records(CoordStates)
      BY ComposeType DEF TypeOK, CoordTypeOK
    <2> QED BY <2>1, IdleTypes DEF ReaderState
  <1>4. ASSUME NEW c \in Clients, AddAliveClient(c) PROVE NetTypeOK' /\ CoordTypeOK'
    BY <1>2, <1>3, <1>4 DEF TypeOK, CoordTypeOK, NetTypeOK, AddAliveClient,
       metaVars, boundVars
  <1>5. ASSUME NEW c \in Clients, RemoveAliveClient(c) PROVE NetTypeOK' /\ CoordTypeOK'
    <2>1. [IdleReader EXCEPT !.pc = "erase", !.client = c] \in ReaderState
      BY IdleTypes DEF ReaderState
    <2> QED
      BY <1>2, <1>5, <2>1 DEF TypeOK, CoordTypeOK, NetTypeOK,
         RemoveAliveClient, metaVars, boundVars
  <1>6. CASE SignalAcked
    <2>1. worker' \in [Workers -> WorkerState]
      BY <1>6, WokenType DEF TypeOK, CoordTypeOK, SignalAcked
    <2> QED
      BY <1>6, <2>1, IdleTypes DEF TypeOK, CoordTypeOK, NetTypeOK,
         SignalAcked, ackVars, metaVars, boundVars, netVars
  <1>7. CASE EraseAck
    BY <1>7, IdleTypes DEF TypeOK, CoordTypeOK, NetTypeOK, EraseAck,
       metaVars, boundVars, netVars
  <1>8. CASE ServerJoined
    BY <1>3, <1>8 DEF TypeOK, CoordTypeOK, NetTypeOK, ServerJoined, ackVars,
       metaVars, netVars
  <1>9. CASE ReaderSend
    <2>1. clientBox' \in [Clients -> Seq(Records(CoordStates))]
      BY <1>1, <1>9, MulticastType DEF TypeOK, ReaderSend, ReaderState
    <2> QED
      BY <1>9, <2>1, IdleTypes DEF TypeOK, CoordTypeOK, NetTypeOK, ReaderSend,
         ackVars, metaVars, boundVars
  <1> QED BY <1>4, <1>5, <1>6, <1>7, <1>8, <1>9

(* handleSyncMetadata keeps the coordinator's types; the counter wraps     *)
(* around within uint32_t.                                                 *)
LEMMA SyncMetadataArrivedType ==
    ASSUME TypeOK, NEW s \in Servers, SyncMetadataArrived(s)
    PROVE  CoordTypeOK'
  <1>1. ASSUME transition[s] # None
        PROVE  (transition[s] + CounterMod - 1) % CounterMod \in 0 .. CounterMod - 1
    <2>1. transition[s] + CounterMod - 1 \in Nat
      BY <1>1, CoordinatorAssumption DEF TypeOK, CoordTypeOK
    <2> QED BY <2>1, ModType
  <1>2. transition' \in [Servers -> (0 .. CounterMod - 1) \cup {None}]
    BY <1>1 DEF TypeOK, CoordTypeOK, SyncMetadataArrived
  <1> QED
    BY <1>2 DEF TypeOK, CoordTypeOK, SyncMetadataArrived, ackVars, boundVars

(* What ackTransit of a client leaves behind, for arguments of the right   *)
(* types, has the right types.                                             *)
LEMMA AckTransitType ==
    ASSUME TypeOK, NEW c \in Clients, NEW S \in SUBSET Servers,
           NEW st \in [Servers -> ClientStates], NEW reverts, NEW done,
           NEW ids \in [Servers -> SUBSET Requests],
           AckTransit(c, S, st, reverts, done, ids)
    PROVE  /\ cState' \in [Clients -> [Servers -> ClientStates]]
           /\ pendingNormal' \in [Clients -> [Servers -> SUBSET Requests]]
           /\ coordBox' \in [Clients -> Seq(CoordMsg)]
  <1> DEFINE A == {s \in S : CheckAckForServer(st[s], reverts[s], done[s])}
             f == [s \in A |-> WaitFor(st[s])]
             msg == [type |-> "ack", states |-> f]
  <1>1. ASSUME NEW x PROVE WaitFor(x) \in WaitStates
    BY DEF WaitFor, WaitStates
  <1>2. cState' \in [Clients -> [Servers -> ClientStates]]
    <2>1. [s \in Servers |-> IF s \in A THEN WaitFor(st[s]) ELSE st[s]]
            \in [Servers -> ClientStates]
      BY <1>1 DEF ClientStates
    <2> QED BY <2>1 DEF TypeOK, ClientTypeOK, AckTransit
  <1>3. pendingNormal' \in [Clients -> [Servers -> SUBSET Requests]]
    <2>1. [s \in Servers |->
            IF s \in S \ A /\ st[s] = INTERMEDIATE THEN {} ELSE ids[s]]
            \in [Servers -> SUBSET Requests]
      OBVIOUS
    <2> QED BY <2>1 DEF TypeOK, ClientTypeOK, AckTransit
  <1>4. msg \in CoordMsg
    <2>1. f \in [A -> WaitStates] BY <1>1
    <2>2. A \in SUBSET Servers OBVIOUS
    <2> HIDE DEF A, f
    <2>3. f \in Records(WaitStates) BY <2>1, <2>2, RecordsIntro
    <2> QED BY <2>3 DEF CoordMsg
  <1>5. coordBox' \in [Clients -> Seq(CoordMsg)]
    <2>1. coordBox' = IF A = {} THEN coordBox
                      ELSE [coordBox EXCEPT ![c] = Append(@, msg)]
      BY DEF AckTransit
    <2> HIDE DEF A, msg
    <2> QED BY <1>4, <2>1 DEF TypeOK, NetTypeOK
  <1> QED BY <1>2, <1>3, <1>5

(* The message at the head of a client's box is a message of coordinator   *)
(* states.                                                                 *)
LEMMA ClientBoxType ==
    ASSUME TypeOK, NEW c \in Clients, clientBox[c] # <<>>
    PROVE  /\ Head(clientBox[c]) \in Records(CoordStates)
           /\ Tail(clientBox[c]) \in Seq(Records(CoordStates))
  BY DEF TypeOK, NetTypeOK

(* setState, case STATE_INTERMEDIATE, keeps the types: the sets of         *)
(* gathered requests, the counter of reverts and the queued events.        *)
LEMMA EnterIntermediateType ==
    ASSUME TypeOK, NEW c \in Clients, NEW s \in Servers, EnterIntermediate(c, s)
    PROVE  /\ cState' \in [Clients -> [Servers -> ClientStates]]
           /\ syncMeta' \in [Clients -> [Servers -> Nat]]
           /\ pendingNormal' \in [Clients -> [Servers -> SUBSET Requests]]
           /\ completed' \in [Clients -> [Servers -> BOOLEAN]]
           /\ parityRevert' \in [Clients -> [Servers -> Int]]
           /\ revertQueue' \in [Clients -> [Servers -> [Servers -> Nat]]]
  <1> DEFINE new  == Gathered(c, s)
             out  == Outdated(c, s)
             ids  == [t \in Servers |->
                        IF t = s THEN pendingNormal[c][s] \cup new
                                 ELSE pendingNormal[c][t] \ out]
             peers == {p \in Servers \ {s} : ~UseCoordinatedFlow(c, p)}
  <1>1. new \subseteq Requests
    BY DEF Gathered, PendingAt
  <1>2. ids \in [Servers -> SUBSET Requests]
    BY <1>1 DEF TypeOK, ClientTypeOK
  <1>3. Cardinality(peers) \in Nat
    BY CardType
  <1>4. cState' \in [Clients -> [Servers -> ClientStates]]
    BY DEF TypeOK, ClientTypeOK, EnterIntermediate, ClientStates, CoordStates
  <1>5. syncMeta' \in [Clients -> [Servers -> Nat]]
    BY DEF TypeOK, ClientTypeOK, EnterIntermediate
  <1>6. pendingNormal' \in [Clients -> [Servers -> SUBSET Requests]]
    BY <1>2 DEF TypeOK, ClientTypeOK, EnterIntermediate
  <1>7. completed' \in [Clients -> [Servers -> BOOLEAN]]
    <2>1. [t \in Servers |->
            IF t = s THEN new = {} /\ ids[s] = {}
                     ELSE completed[c][t] \/ (out # {} /\ ids[t] = {})]
              \in [Servers -> BOOLEAN]
      BY DEF TypeOK, ClientTypeOK
    <2> HIDE DEF new, out, ids
    <2> QED BY <2>1 DEF TypeOK, ClientTypeOK, EnterIntermediate, new, out, ids
  <1>8. parityRevert' \in [Clients -> [Servers -> Int]]
    BY <1>3 DEF TypeOK, ClientTypeOK, EnterIntermediate
  <1>9. revertQueue' \in [Clients -> [Servers -> [Servers -> Nat]]]
    <2>1. [p \in Servers |->
            IF p \in peers THEN [revertQueue[c][p] EXCEPT ![s] = @ + 1]
                           ELSE revertQueue[c][p]] \in [Servers -> [Servers -> Nat]]
      BY DEF TypeOK, ClientTypeOK
    <2> QED BY <2>1 DEF TypeOK, ClientTypeOK, EnterIntermediate
  <1> QED BY <1>4, <1>5, <1>6, <1>7, <1>8, <1>9

(* setState, for one record of a state message, keeps the types.           *)
LEMMA SetStateType ==
    ASSUME TypeOK, NEW c \in Clients, NEW s \in Servers, SetState(c, s)
    PROVE  NetTypeOK' /\ ClientTypeOK'
  <1> DEFINE msg == Head(clientBox[c])
             rest == [t \in DOMAIN msg \ {s} |-> msg[t]]
  <1>1. /\ msg \in Records(CoordStates)
        /\ Tail(clientBox[c]) \in Seq(Records(CoordStates))
    BY ClientBoxType DEF SetState
  <1>2. DOMAIN msg \in SUBSET Servers /\ msg \in [DOMAIN msg -> CoordStates]
    BY <1>1, RecordsElim
  <1>3. rest \in Records(CoordStates)
    BY <1>2, RecordsIntro
  <1>4. <<rest>> \o Tail(clientBox[c]) \in Seq(Records(CoordStates))
    <2> HIDE DEF rest
    <2> QED BY <1>1, <1>3
  <1>5. NetTypeOK'
    <2>1. clientBox' = [clientBox EXCEPT ![c] = <<rest>> \o Tail(clientBox[c])]
      BY DEF SetState
    <2> HIDE DEF rest
    <2> QED BY <1>4, <2>1 DEF TypeOK, NetTypeOK, SetState
  <1>6. after' \in [Clients -> SUBSET Servers]
    BY DEF TypeOK, ClientTypeOK, SetState
  <1>7. CASE EnterIntermediate(c, s) /\ UNCHANGED revertAck
    <2>1. UNCHANGED <<revertAck, reqState>> BY <1>7 DEF SetState
    <2> QED BY <1>5, <1>6, <1>7, <2>1, EnterIntermediateType DEF TypeOK, ClientTypeOK
  <1>8. CASE /\ cState' = [cState EXCEPT ![c][s] =
                    IF \/ msg[s] = INTERMEDIATE
                       \/ msg[s] = COORDINATED /\ @ = WAIT_NORMAL
                    THEN @ ELSE msg[s]]
             /\ UNCHANGED <<transitInfo, revertVars>>
    <2>1. msg[s] \in ClientStates
      BY <1>2 DEF SetState, ClientStates
    <2>2. cState' \in [Clients -> [Servers -> ClientStates]]
      <3> HIDE DEF msg
      <3> QED BY <1>8, <2>1 DEF TypeOK, ClientTypeOK
    <2> QED
      <3>1. UNCHANGED reqState BY DEF SetState
      <3> QED
        BY <1>5, <1>6, <1>8, <2>2, <3>1 DEF TypeOK, ClientTypeOK, transitInfo, revertVars
  <1> QED BY <1>5, <1>7, <1>8 DEF SetState

(* The work after setState, with removePending and the first attempt to    *)
(* acknowledge, keeps the types.                                           *)
LEMMA AfterSetStateType ==
    ASSUME TypeOK, NEW c \in Clients, NEW s \in Servers, AfterSetState(c, s)
    PROVE  NetTypeOK' /\ ClientTypeOK'
  <1>1. /\ cState[c] \in [Servers -> ClientStates]
        /\ pendingNormal[c] \in [Servers -> SUBSET Requests]
    BY DEF TypeOK, ClientTypeOK
  <1>2. after' \in [Clients -> SUBSET Servers]
    BY DEF TypeOK, ClientTypeOK, AfterSetState
  <1> DEFINE reverts == [t \in Servers |-> parityRevert[c][t] - revertAck[c][s][t]]
  <1>3. CASE /\ parityRevert' = [parityRevert EXCEPT ![c] = reverts]
             /\ AckTransit(c, Servers, cState[c], reverts, completed[c], pendingNormal[c])
             /\ revertAck' = [revertAck EXCEPT ![c][s] = [t \in Servers |-> 0]]
             /\ UNCHANGED reqState
    <2>1. reverts \in [Servers -> Int] BY DEF TypeOK, ClientTypeOK
    <2> HIDE DEF reverts
    <2>2. parityRevert' \in [Clients -> [Servers -> Int]]
      BY <1>3, <2>1 DEF TypeOK, ClientTypeOK
    <2>3. revertAck' \in [Clients -> [Servers -> [Servers -> Nat]]]
      BY <1>3 DEF TypeOK, ClientTypeOK
    <2>4. /\ cState' \in [Clients -> [Servers -> ClientStates]]
          /\ pendingNormal' \in [Clients -> [Servers -> SUBSET Requests]]
          /\ coordBox' \in [Clients -> Seq(CoordMsg)]
      BY <1>1, <1>3, AckTransitType
    <2> QED
      BY <1>2, <1>3, <2>2, <2>3, <2>4 DEF TypeOK, NetTypeOK, ClientTypeOK, AfterSetState
  <1>4. CASE /\ AckTransit(c, {s}, cState[c], parityRevert[c], completed[c],
                           pendingNormal[c])
             /\ UNCHANGED <<parityRevert, revertAck, reqState>>
    <2>1. /\ cState' \in [Clients -> [Servers -> ClientStates]]
          /\ pendingNormal' \in [Clients -> [Servers -> SUBSET Requests]]
          /\ coordBox' \in [Clients -> Seq(CoordMsg)]
      BY <1>1, <1>4, AckTransitType
    <2> QED
      BY <1>2, <1>4, <2>1 DEF TypeOK, NetTypeOK, ClientTypeOK, AfterSetState
  <1>5. CASE /\ reqState' = [reqState EXCEPT ![c] = [r \in Requests |->
                    IF r \in Outdated(c, s) THEN "idle" ELSE reqState[c][r]]]
             /\ UNCHANGED <<cState, pendingNormal, parityRevert, revertAck, coordBox>>
    <2>1. reqState' \in [Clients -> [Requests -> {"idle", "flow", "pending", "answered"}]]
      BY <1>5 DEF TypeOK, ClientTypeOK
    <2> QED
      BY <1>2, <1>5, <2>1 DEF TypeOK, NetTypeOK, ClientTypeOK, AfterSetState
  <1>6. CASE UNCHANGED <<cState, pendingNormal, parityRevert, revertAck,
                         reqState, coordBox>>
    BY <1>2, <1>6 DEF TypeOK, NetTypeOK, ClientTypeOK, AfterSetState
  <1> QED BY <1>3, <1>4, <1>5, <1>6 DEF AfterSetState

(* A client that goes on to its next message keeps the types.              *)
LEMMA NextMessageType ==
    ASSUME TypeOK, NEW c \in Clients, NextMessage(c)
    PROVE  NetTypeOK' /\ ClientTypeOK'
  <1>1. Tail(clientBox[c]) \in Seq(Records(CoordStates))
    BY ClientBoxType DEF NextMessage
  <1> QED
    BY <1>1 DEF TypeOK, NetTypeOK, ClientTypeOK, NextMessage, clientVars,
       transitInfo, revertVars

(* The worker threads that sync metadata and revert parity deltas, and the *)
(* background attempt to acknowledge, keep the types.                      *)
LEMMA RevertType ==
    ASSUME TypeOK, NEW c \in Clients, NEW p \in Servers, NEW s \in Servers,
           SyncMetadataSent(c, s) \/ SendRevert(c, p, s) \/ DeltaAcknowledged(c, p, s)
    PROVE  NetTypeOK' /\ ClientTypeOK'
  <1>1. /\ cState[c] \in [Servers -> ClientStates]
        /\ pendingNormal[c] \in [Servers -> SUBSET Requests]
    BY DEF TypeOK, ClientTypeOK
  <1>3. CASE SyncMetadataSent(c, s)
    <2>1. syncMeta' \in [Clients -> [Servers -> Nat]]
      BY <1>3 DEF TypeOK, ClientTypeOK, SyncMetadataSent
    <2> QED
      BY <1>3, <2>1 DEF TypeOK, NetTypeOK, ClientTypeOK, SyncMetadataSent,
         revertVars, netVars
  <1>4. CASE SendRevert(c, p, s)
    <2>1. revertQueue' \in [Clients -> [Servers -> [Servers -> Nat]]]
      BY <1>4 DEF TypeOK, ClientTypeOK, SendRevert
    <2>2. revertAck' \in [Clients -> [Servers -> [Servers -> Nat]]]
      BY <1>4 DEF TypeOK, ClientTypeOK, SendRevert
    <2> QED
      BY <1>4, <2>1, <2>2 DEF TypeOK, NetTypeOK, ClientTypeOK, SendRevert,
         transitInfo, netVars
  <1>5. CASE DeltaAcknowledged(c, p, s)
    <2> DEFINE reverts == [parityRevert[c] EXCEPT ![s] = @ - 1]
    <2>1. reverts \in [Servers -> Int] BY DEF TypeOK, ClientTypeOK
    <2>2. /\ parityRevert' = [parityRevert EXCEPT ![c] = reverts]
          /\ AckTransit(c, {s}, cState[c], reverts, completed[c], pendingNormal[c])
      BY <1>5 DEF DeltaAcknowledged
    <2>3. revertAck' \in [Clients -> [Servers -> [Servers -> Nat]]]
      BY <1>5 DEF TypeOK, ClientTypeOK, DeltaAcknowledged
    <2> HIDE DEF reverts
    <2>4. parityRevert' \in [Clients -> [Servers -> Int]]
      BY <2>1, <2>2 DEF TypeOK, ClientTypeOK
    <2>5. /\ cState' \in [Clients -> [Servers -> ClientStates]]
          /\ pendingNormal' \in [Clients -> [Servers -> SUBSET Requests]]
          /\ coordBox' \in [Clients -> Seq(CoordMsg)]
      BY <1>1, <2>2, AckTransitType
    <2> QED
      BY <1>5, <2>3, <2>4, <2>5 DEF TypeOK, NetTypeOK, ClientTypeOK, DeltaAcknowledged
  <1> QED BY <1>3, <1>4, <1>5

(* A request of the normal flow, from the check of the states to its       *)
(* completion, keeps the types.                                            *)
LEMMA RequestType ==
    ASSUME TypeOK, NEW c \in Clients, NEW r \in Requests,
           StartRequest(c, r) \/ RequestStep(c, r)
    PROVE  NetTypeOK' /\ ClientTypeOK'
  <1>1. CASE StartRequest(c, r) \/ SendRequest(c, r) \/ HandleResponse(c, r)
    <2>1. PICK x \in {"idle", "flow", "pending", "answered"} :
             reqState' = [reqState EXCEPT ![c][r] = x]
      BY <1>1 DEF StartRequest, SendRequest, HandleResponse
    <2>2. reqState' \in [Clients -> [Requests -> {"idle", "flow", "pending", "answered"}]]
      BY <2>1 DEF TypeOK, ClientTypeOK
    <2>3. UNCHANGED <<cState, transitInfo, revertVars, after, netVars>>
      BY <1>1 DEF StartRequest, SendRequest, HandleResponse
    <2> QED
      BY <2>2, <2>3 DEF TypeOK, NetTypeOK, ClientTypeOK, transitInfo, revertVars, netVars
  <1>2. CASE CompleteNormalRequest(c, r)
    <2> DEFINE P   == {s \in ParityServers[r] :
                        UseCoordinatedFlow(c, s) /\ ~completed[c][s]}
               ids == [s \in Servers |-> IF s \in P THEN pendingNormal[c][s] \ {r}
                                                 ELSE pendingNormal[c][s]]
               Z   == {s \in P : ids[s] = {}}
               done == [s \in Servers |-> completed[c][s] \/ s \in Z]
    <2>1. /\ completed' = [completed EXCEPT ![c] = done]
          /\ AckTransit(c, Z, cState[c], parityRevert[c], done, ids)
      BY <1>2 DEF CompleteNormalRequest
    <2>2. cState[c] \in [Servers -> ClientStates]
      BY DEF TypeOK, ClientTypeOK
    <2>3. ids \in [Servers -> SUBSET Requests]
      BY DEF TypeOK, ClientTypeOK
    <2>4. Z \in SUBSET Servers
      BY ClientAssumption
    <2>5. done \in [Servers -> BOOLEAN]
      BY DEF TypeOK, ClientTypeOK
    <2>6. reqState' \in [Clients -> [Requests -> {"idle", "flow", "pending", "answered"}]]
      BY <1>2 DEF TypeOK, ClientTypeOK, CompleteNormalRequest
    <2>7. UNCHANGED <<syncMeta, parityRevert, revertVars, after, status, clientBox>>
      BY <1>2 DEF CompleteNormalRequest
    <2> HIDE DEF P, ids, Z, done
    <2>8. completed' \in [Clients -> [Servers -> BOOLEAN]]
      BY <2>1, <2>5 DEF TypeOK, ClientTypeOK
    <2>9. /\ cState' \in [Clients -> [Servers -> ClientStates]]
          /\ pendingNormal' \in [Clients -> [Servers -> SUBSET Requests]]
          /\ coordBox' \in [Clients -> Seq(CoordMsg)]
      BY <2>1, <2>2, <2>3, <2>4, AckTransitType
    <2> QED
      BY <2>6, <2>7, <2>8, <2>9 DEF TypeOK, NetTypeOK, ClientTypeOK, revertVars
  <1> QED BY <1>1, <1>2 DEF RequestStep

(* A client that joins or leaves the group keeps the types.                *)
LEMMA MembershipType ==
    ASSUME TypeOK, NEW c \in Clients, Join(c) \/ Leave(c)
    PROVE  NetTypeOK' /\ ClientTypeOK'
  <1>1. ASSUME NEW ty \in {"join", "left"}
        PROVE  Append(coordBox[c], [type |-> ty, states |-> NoRecords]) \in Seq(CoordMsg)
    <2>1. [type |-> ty, states |-> NoRecords] \in CoordMsg
      BY NoRecordsType DEF CoordMsg
    <2> QED BY <2>1 DEF TypeOK, NetTypeOK
  <1>2. NetTypeOK'
    <2>1. coordBox' \in [Clients -> Seq(CoordMsg)]
      <3>1. PICK ty \in {"join", "left"} : coordBox' = [coordBox EXCEPT ![c] =
                Append(coordBox[c], [type |-> ty, states |-> NoRecords])]
        BY DEF Join, Leave
      <3> QED BY <1>1, <3>1 DEF TypeOK, NetTypeOK
    <2>2. clientBox' \in [Clients -> Seq(Records(CoordStates))]
      <3>1. <<>> \in Seq(Records(CoordStates)) OBVIOUS
      <3>2. clientBox' = clientBox \/ clientBox' = [clientBox EXCEPT ![c] = <<>>]
        BY DEF Join, Leave
      <3> QED BY <3>1, <3>2 DEF TypeOK, NetTypeOK
    <2>3. status' \in [Clients -> {"new", "up", "gone"}]
      BY DEF TypeOK, NetTypeOK, Join, Leave
    <2> QED BY <2>1, <2>2, <2>3 DEF NetTypeOK
  <1> QED
    BY <1>2 DEF TypeOK, ClientTypeOK, Join, Leave, clientVars, transitInfo, revertVars

(* Coordinator and clients start with all servers in STATE_NORMAL, within  *)
(* the types.                                                              *)
LEMMA InitType == Init => TypeOK
  <1> SUFFICES ASSUME Init PROVE TypeOK OBVIOUS
  <1>1. NetTypeOK
    BY DEF Init, NetTypeOK
  <1>2. CoordTypeOK
    <2>1. NORMAL \in CoordStates BY DEF CoordStates
    <2>2. worker \in [Workers -> WorkerState] /\ dispatcher \in [Dispatchers -> DispatcherState]
          /\ reader \in ReaderState
      BY IdleTypes DEF Init, CoordInit
    <2>3. transition \in [Servers -> (0 .. CounterMod - 1) \cup {None}]
      BY DEF Init, CoordInit
    <2>4. serversState \in [Servers -> CoordStates] /\ ackClients \in [Servers -> SUBSET Clients]
      BY <2>1 DEF Init, CoordInit
    <2>5. eventQueue \in Seq(Event)
      BY DEF Init, CoordInit
    <2>6. aliveClients \subseteq Clients /\ crashedServers \subseteq Servers
          /\ reconstructing \subseteq Servers
      BY CoordinatorAssumption DEF Init, CoordInit
    <2>7. terminated \in BOOLEAN /\ switches \in Nat /\ serverJoins \in Nat /\ sendFailures \in Nat
      BY DEF Init, CoordInit
    <2> QED BY <2>2, <2>3, <2>4, <2>5, <2>6, <2>7 DEF CoordTypeOK
  <1>3. ClientTypeOK
    BY DEF Init, ClientInit, ClientTypeOK, ClientStates, CoordStates
  <1> QED BY <1>1, <1>2, <1>3 DEF TypeOK

(* Every step of every thread of coordinator and clients keeps the types.  *)
LEMMA NextType == TypeOK /\ [Next]_vars => TypeOK'
  <1> SUFFICES ASSUME TypeOK, [Next]_vars PROVE TypeOK' OBVIOUS
  <1>1. CASE CoordStep /\ UNCHANGED clientVars
    <2>1. ClientTypeOK'
      BY <1>1 DEF TypeOK, ClientTypeOK, clientVars, transitInfo, revertVars
    <2>2. ASSUME NEW d \in Dispatchers, DispatcherStep(d)
          PROVE  NetTypeOK' /\ CoordTypeOK'
      BY <2>2, InitServerType, DispatcherSendType, InsertType DEF DispatcherStep
    <2>3. ASSUME NEW w \in Workers, WorkerStep(w)
          PROVE  NetTypeOK' /\ CoordTypeOK'
      BY <2>3, WorkerWaitType, WorkerCommitType DEF WorkerStep
    <2>4. ASSUME ReaderStep
          PROVE  NetTypeOK' /\ CoordTypeOK'
      BY <2>4, ReaderType, UpdateStateType DEF ReaderStep
    <2>5. ASSUME CoordEnvironment
          PROVE  NetTypeOK' /\ CoordTypeOK'
      <3>1. ASSUME NEW d \in Dispatchers, NEW S \in SUBSET Switchable,
                   NEW start \in BOOLEAN, NEW isCrashed \in BOOLEAN,
                   SwitchPhase(d, S, start, isCrashed)
            PROVE  NetTypeOK' /\ CoordTypeOK'
        BY <3>1, SwitchPhaseType, CoordinatorAssumption
      <3>2. ASSUME NEW w \in Workers, SpuriousWakeup(w)
            PROVE  NetTypeOK' /\ CoordTypeOK'
        BY <3>2, WorkerWaitType
      <3> QED BY <2>5, <3>1, <3>2, InitSendFailsType, ReaderType DEF CoordEnvironment
    <2> QED BY <1>1, <2>1, <2>2, <2>3, <2>4, <2>5 DEF CoordStep, TypeOK
  <1>2. CASE ClientStep /\ UNCHANGED coordVars
    <2>1. CoordTypeOK'
      BY <1>2 DEF TypeOK, CoordTypeOK, coordVars, ackVars, metaVars, boundVars
    <2>2. ASSUME NEW c \in Clients, ClientReaderStep(c)
          PROVE  NetTypeOK' /\ ClientTypeOK'
      BY <2>2, SetStateType, AfterSetStateType, NextMessageType DEF ClientReaderStep
    <2>3. ASSUME NEW c \in Clients, BackgroundAck(c)
          PROVE  NetTypeOK' /\ ClientTypeOK'
      <3>1. /\ cState[c] \in [Servers -> ClientStates]
            /\ pendingNormal[c] \in [Servers -> SUBSET Requests]
        BY DEF TypeOK, ClientTypeOK
      <3>2. /\ cState' \in [Clients -> [Servers -> ClientStates]]
            /\ pendingNormal' \in [Clients -> [Servers -> SUBSET Requests]]
            /\ coordBox' \in [Clients -> Seq(CoordMsg)]
        BY <2>3, <3>1, AckTransitType DEF BackgroundAck
      <3> QED
        BY <2>3, <3>2 DEF TypeOK, NetTypeOK, ClientTypeOK, BackgroundAck, revertVars
    <2>4. ASSUME NEW c \in Clients, NEW p \in Servers, NEW s \in Servers,
                 SendRevert(c, p, s) \/ DeltaAcknowledged(c, p, s)
          PROVE  NetTypeOK' /\ ClientTypeOK'
      BY <2>4, RevertType
    <2>5. ASSUME ClientEnvironment
          PROVE  NetTypeOK' /\ ClientTypeOK'
      BY <2>5, MembershipType, RequestType DEF ClientEnvironment
    <2>6. ASSUME NEW c \in Clients, NEW r \in Requests, RequestStep(c, r)
          PROVE  NetTypeOK' /\ ClientTypeOK'
      BY <2>6, RequestType
    <2> QED
      BY <1>2, <2>1, <2>2, <2>3, <2>4, <2>5, <2>6 DEF ClientStep, TypeOK
  <1>3. CASE \E c \in Clients, s \in Servers : SyncMetadata(c, s)
    <2> PICK c \in Clients, s \in Servers : SyncMetadata(c, s)
      BY <1>3
    <2>1. CoordTypeOK'
      BY SyncMetadataArrivedType DEF SyncMetadata
    <2>2. NetTypeOK' /\ ClientTypeOK'
      BY RevertType DEF SyncMetadata
    <2> QED BY <2>1, <2>2 DEF TypeOK
  <1>4. CASE UNCHANGED vars
    BY <1>4 DEF vars, TypeOK, NetTypeOK, CoordTypeOK, ClientTypeOK, netVars,
       coordVars, clientVars, ackVars, metaVars, boundVars, transitInfo, revertVars
  <1> QED BY <1>1, <1>2, <1>3, <1>4 DEF Next

(* Every behaviour of the protocol is type correct: threads, counters and  *)
(* messages of any number of servers, clients, workers and requests stay   *)
(* in the sets the code's types give them.                                 *)
THEOREM TypeCorrect == Spec => []TypeOK
  BY InitType, NextType, PTL DEF Spec

-----------------------------------------------------------------------------
(* The reader names a client only between the two locks of                 *)
(* removeAliveClient.                                                      *)
ReaderErases == reader.pc # "erase" => reader.client = None

(* Every step of the coordinator keeps the counted acknowledgements within *)
(* the clients that are alive: updateState adds only such a client,        *)
(* stateChangeInitHandler clears the set, and removeAliveClient takes the  *)
(* client that left out of every set.                                      *)
LEMMA AcksFromAliveStep ==
    ASSUME TypeOK, ReaderErases, AcksFromAlive, [Next]_vars
    PROVE  ReaderErases' /\ AcksFromAlive'
  <1> ackClients \in [Servers -> SUBSET Clients]
    BY DEF TypeOK, CoordTypeOK
  <1>0. None \notin Clients BY NetworkAssumption
  <1>1. CASE UNCHANGED <<ackClients, aliveClients, reader>>
    BY <1>1 DEF ReaderErases, AcksFromAlive
  <1>2. ASSUME NEW d \in Dispatchers, NEW s \in Servers, InitServer(d, s)
        PROVE  ReaderErases' /\ AcksFromAlive'
    <2>1. UNCHANGED <<aliveClients, reader>> BY <1>2 DEF InitServer
    <2>2. \A t \in Servers : ackClients'[t] \subseteq ackClients[t]
      BY <1>2 DEF InitServer
    <2> QED BY <2>1, <2>2 DEF ReaderErases, AcksFromAlive
  <1>3. ASSUME NEW c \in Clients, NEW s \in Servers, UpdateState(c, s)
        PROVE  ReaderErases' /\ AcksFromAlive'
    <2>1. UNCHANGED aliveClients /\ reader.client = None
      BY <1>3 DEF UpdateState, ReaderErases
    <2>2. \A t \in Servers : ackClients'[t] \subseteq aliveClients
      BY <1>0, <1>3, <2>1 DEF UpdateState, AcksFromAlive
    <2>3. ReaderErases'
      BY <1>3 DEF UpdateState, ReaderErases, IdleReader
    <2> QED BY <2>1, <2>2, <2>3 DEF AcksFromAlive
  <1>4. ASSUME NEW c \in Clients, AddAliveClient(c) \/ RemoveAliveClient(c)
        PROVE  ReaderErases' /\ AcksFromAlive'
    <2>1. UNCHANGED ackClients /\ reader.client = None
      BY <1>4 DEF AddAliveClient, RemoveAliveClient, ReaderErases
    <2>2. \A t \in Servers : ackClients[t] \subseteq aliveClients
      BY <1>0, <2>1 DEF AcksFromAlive
    <2>3. CASE AddAliveClient(c)
      <3>1. aliveClients' = aliveClients \cup {c} /\ reader'.client = None
        BY <2>3 DEF AddAliveClient, IdleReader
      <3> QED BY <2>1, <2>2, <3>1 DEF ReaderErases, AcksFromAlive
    <2>4. CASE RemoveAliveClient(c)
      <3>1. /\ aliveClients' = aliveClients \ {c}
            /\ reader'.client = c /\ reader'.pc = "erase"
        BY <2>4 DEF RemoveAliveClient, IdleReader
      <3> QED BY <2>1, <2>2, <3>1 DEF ReaderErases, AcksFromAlive
    <2> QED BY <1>4, <2>3, <2>4
  <1>5. CASE EraseAck
    <2>1. /\ UNCHANGED aliveClients /\ reader'.client = None
          /\ \A t \in Servers : ackClients'[t] = ackClients[t] \ {reader.client}
      BY <1>5 DEF EraseAck, IdleReader
    <2> QED BY <2>1 DEF ReaderErases, AcksFromAlive
  <1>6. CASE SignalAcked \/ ReaderSend \/ ServerJoined
    <2>1. UNCHANGED <<ackClients, aliveClients>> /\ reader.pc # "erase"
      BY <1>6 DEF SignalAcked, ReaderSend, ServerJoined, ackVars
    <2>2. reader'.client = None
      <3>1. CASE SignalAcked \/ ReaderSend
        BY <3>1 DEF SignalAcked, ReaderSend, IdleReader
      <3>2. CASE ServerJoined
        BY <3>2 DEF ServerJoined, IdleReader
      <3> QED BY <1>6, <3>1, <3>2
    <2>3. reader.client = None
      BY <2>1 DEF ReaderErases
    <2> QED BY <2>1, <2>2, <2>3 DEF ReaderErases, AcksFromAlive
  <1>7. CASE CoordStep
    <2>1. ASSUME NEW d \in Dispatchers, DispatcherStep(d)
          PROVE  \/ UNCHANGED <<ackClients, aliveClients, reader>>
                 \/ \E s \in Servers : InitServer(d, s)
      BY <2>1 DEF DispatcherStep, InitCompose, InitSend, InsertEvent, InitDone, ackVars
    <2>2. ASSUME NEW w \in Workers, WorkerStep(w)
          PROVE  UNCHANGED <<ackClients, aliveClients, reader>>
      BY <2>2 DEF WorkerStep, ExtractEvent, TransitToDegradedEnd, CheckAck,
         CondWait, Commit, TransitToNormalEnd, WorkerSend, ackVars
    <2>3. ASSUME CoordEnvironment
          PROVE  UNCHANGED <<ackClients, aliveClients, reader>> \/ ServerJoined
      BY <2>3 DEF CoordEnvironment, SwitchPhase, InitSendFails, SpuriousWakeup, ackVars
    <2> QED
      BY <1>1, <1>2, <1>3, <1>4, <1>5, <1>6, <1>7, <2>1, <2>2, <2>3
      DEF CoordStep, ReaderStep
  <1>8. CASE UNCHANGED coordVars
    BY <1>1, <1>8 DEF coordVars, ackVars
  <1>9. CASE \E c \in Clients, s \in Servers : SyncMetadata(c, s)
    BY <1>1, <1>9 DEF SyncMetadata, SyncMetadataArrived, ackVars
  <1> QED BY <1>7, <1>8, <1>9 DEF Next, vars

(* In every behaviour, with any membership changes, the sets whose sizes   *)
(* isAllClientAcked compares with the number of alive clients hold alive   *)
(* clients only, except for the one that removeAliveClient is erasing.     *)
THEOREM AcksCounted == Spec => []AcksFromAlive
  <1>1. Init => ReaderErases /\ AcksFromAlive
    BY DEF Init, CoordInit, ReaderErases, AcksFromAlive, IdleReader
  <1>2. TypeOK /\ ReaderErases /\ AcksFromAlive /\ [Next]_vars
            => ReaderErases' /\ AcksFromAlive'
    BY AcksFromAliveStep
  <1> QED BY <1>1, <1>2, TypeCorrect, PTL DEF Spec

-----------------------------------------------------------------------------
(* The reverts of all servers are natural numbers.                         *)
LEMMA RevertsType ==
    ASSUME TypeOK, NEW c \in Clients, NEW s \in Servers
    PROVE  /\ \A p \in Servers : RevertsOf(c, s)[p] \in Int
           /\ SumFunctionOnSet(RevertsOf(c, s), Servers) \in Int
  <1>1. \A p \in Servers : RevertsOf(c, s)[p] \in Int
    BY DEF TypeOK, ClientTypeOK, RevertsOf
  <1> QED BY <1>1, SumType, NetworkAssumption

(* A step that leaves the counter and the reverts of a server as they are. *)
LEMMA RevertsUnchanged ==
    ASSUME RevertCounterExact, NEW c \in Clients, NEW s \in Servers,
           parityRevert'[c][s] = parityRevert[c][s],
           \A p \in Servers : RevertsOf(c, s)'[p] = RevertsOf(c, s)[p]
    PROVE  parityRevert'[c][s] = SumFunctionOnSet(RevertsOf(c, s)', Servers)
  <1>1. SumFunctionOnSet(RevertsOf(c, s)', Servers) = SumFunctionOnSet(RevertsOf(c, s), Servers)
    BY SumSame, NetworkAssumption
  <1> QED BY <1>1 DEF RevertCounterExact

(* A step that changes the reverts of one server at one other.             *)
LEMMA RevertsChange ==
    ASSUME NEW old, NEW new, NEW p \in Servers,
           \A q \in Servers : old[q] \in Int /\ new[q] \in Int,
           \A q \in Servers \ {p} : new[q] = old[q]
    PROVE  SumFunctionOnSet(new, Servers) = SumFunctionOnSet(old, Servers) + new[p] - old[p]
  BY SumChange, NetworkAssumption

(* setState counts as many reverts as it inserts events: one per server    *)
(* in normal state, for the server that changes.                           *)
LEMMA EnterIntermediateCounts ==
    ASSUME TypeOK, RevertCounterExact, NEW c \in Clients, NEW s \in Servers,
           EnterIntermediate(c, s), UNCHANGED revertAck
    PROVE  RevertCounterExact'
  <1> DEFINE peers == {p \in Servers \ {s} : ~UseCoordinatedFlow(c, p)}
  <1>1. /\ parityRevert' = [parityRevert EXCEPT ![c][s] = @ + Cardinality(peers)]
        /\ revertQueue' = [revertQueue EXCEPT ![c] = [p \in Servers |->
                IF p \in peers THEN [revertQueue[c][p] EXCEPT ![s] = @ + 1]
                               ELSE revertQueue[c][p]]]
    BY DEF EnterIntermediate
  <1>2. peers \in SUBSET Servers OBVIOUS
  <1> HIDE DEF peers
  <1>3. /\ parityRevert \in [Clients -> [Servers -> Int]]
        /\ revertQueue \in [Clients -> [Servers -> [Servers -> Nat]]]
        /\ revertAck \in [Clients -> [Servers -> [Servers -> Nat]]]
    BY DEF TypeOK, ClientTypeOK
  <1>4. ASSUME NEW d \in Clients, NEW t \in Servers
        PROVE  parityRevert'[d][t] = SumFunctionOnSet(RevertsOf(d, t)', Servers)
    <2>1. CASE d = c /\ t = s
      <3>1. \A p \in Servers : RevertsOf(c, s)'[p] =
                IF p \in peers THEN RevertsOf(c, s)[p] + 1 ELSE RevertsOf(c, s)[p]
        BY <1>1, <1>3 DEF RevertsOf
      <3>2. SumFunctionOnSet(RevertsOf(c, s)', Servers)
                = SumFunctionOnSet(RevertsOf(c, s), Servers) + Cardinality(peers)
        BY <1>2, <3>1, RevertsType, SumRaise, NetworkAssumption
      <3>3. parityRevert'[c][s] = parityRevert[c][s] + Cardinality(peers)
        BY <1>1, <1>3
      <3> QED BY <2>1, <3>2, <3>3 DEF RevertCounterExact
    <2>2. CASE ~(d = c /\ t = s)
      <3>1. parityRevert'[d][t] = parityRevert[d][t]
        BY <1>1, <1>3, <2>2
      <3>2. \A p \in Servers : RevertsOf(d, t)'[p] = RevertsOf(d, t)[p]
        BY <1>1, <1>3, <2>2 DEF RevertsOf
      <3> QED BY <3>1, <3>2, RevertsUnchanged
    <2> QED BY <2>1, <2>2
  <1> QED BY <1>4 DEF RevertCounterExact

(* removePending takes off the counters of all servers what the server     *)
(* that changes has yet to acknowledge, and forgets it.                    *)
LEMMA AfterSetStateCounts ==
    ASSUME TypeOK, RevertCounterExact, NEW c \in Clients, NEW s \in Servers,
           AfterSetState(c, s), cState[c][s] = INTERMEDIATE
    PROVE  RevertCounterExact'
  <1>1. /\ parityRevert' = [parityRevert EXCEPT ![c] =
                [t \in Servers |-> parityRevert[c][t] - revertAck[c][s][t]]]
        /\ revertAck' = [revertAck EXCEPT ![c][s] = [t \in Servers |-> 0]]
        /\ UNCHANGED revertQueue
    BY DEF AfterSetState, NORMAL, INTERMEDIATE, COORDINATED, DEGRADED, WaitStates,
       WAIT_DEGRADED, WAIT_NORMAL
  <1>2. /\ parityRevert \in [Clients -> [Servers -> Int]]
        /\ revertQueue \in [Clients -> [Servers -> [Servers -> Nat]]]
        /\ revertAck \in [Clients -> [Servers -> [Servers -> Nat]]]
    BY DEF TypeOK, ClientTypeOK
  <1>3. ASSUME NEW d \in Clients, NEW t \in Servers
        PROVE  parityRevert'[d][t] = SumFunctionOnSet(RevertsOf(d, t)', Servers)
    <2>1. CASE d = c
      <3>1. \A p \in Servers : RevertsOf(c, t)'[p] =
                IF p = s THEN revertQueue[c][s][t] ELSE RevertsOf(c, t)[p]
        BY <1>1, <1>2 DEF RevertsOf
      <3>2. RevertsOf(c, t)[s] = revertQueue[c][s][t] + revertAck[c][s][t]
        BY DEF RevertsOf
      <3>3. \A p \in Servers : RevertsOf(c, t)'[p] \in Int
        <4>1. revertQueue[c][s][t] \in Int BY <1>2
        <4> QED BY <3>1, <4>1, RevertsType
      <3>4. SumFunctionOnSet(RevertsOf(c, t)', Servers) =
                SumFunctionOnSet(RevertsOf(c, t), Servers)
                    + RevertsOf(c, t)'[s] - RevertsOf(c, t)[s]
        BY <3>1, <3>3, RevertsType, RevertsChange
      <3>5. parityRevert'[c][t] = parityRevert[c][t] - revertAck[c][s][t]
        BY <1>1, <1>2
      <3>6. SumFunctionOnSet(RevertsOf(c, t), Servers) \in Int BY RevertsType
      <3>7. revertQueue[c][s][t] \in Nat /\ revertAck[c][s][t] \in Nat BY <1>2
      <3> QED BY <2>1, <3>1, <3>2, <3>4, <3>5, <3>6, <3>7 DEF RevertCounterExact
    <2>2. CASE d # c
      <3>1. parityRevert'[d][t] = parityRevert[d][t]
        BY <1>1, <1>2, <2>2
      <3>2. \A p \in Servers : RevertsOf(d, t)'[p] = RevertsOf(d, t)[p]
        BY <1>1, <1>2, <2>2 DEF RevertsOf
      <3> QED BY <3>1, <3>2, RevertsUnchanged
    <2> QED BY <2>1, <2>2
  <1> QED BY <1>3 DEF RevertCounterExact

(* An event that is taken from the queue is awaited from then on, and an   *)
(* acknowledgement counts down what it takes off.                          *)
LEMMA RevertCounts ==
    ASSUME TypeOK, RevertCounterExact,
           NEW c \in Clients, NEW p \in Servers, NEW s \in Servers,
           SendRevert(c, p, s) \/ DeltaAcknowledged(c, p, s)
    PROVE  RevertCounterExact'
  <1>1. /\ parityRevert \in [Clients -> [Servers -> Int]]
        /\ revertQueue \in [Clients -> [Servers -> [Servers -> Nat]]]
        /\ revertAck \in [Clients -> [Servers -> [Servers -> Nat]]]
    BY DEF TypeOK, ClientTypeOK
  <1>2. CASE SendRevert(c, p, s)
    <2>1. /\ revertQueue' = [revertQueue EXCEPT ![c][p][s] = @ - 1]
          /\ revertAck' = [revertAck EXCEPT ![c][p][s] = @ + 1]
          /\ UNCHANGED parityRevert
      BY <1>2 DEF SendRevert, transitInfo
    <2>2. ASSUME NEW d \in Clients, NEW t \in Servers
          PROVE  parityRevert'[d][t] = SumFunctionOnSet(RevertsOf(d, t)', Servers)
      <3>1. \A q \in Servers : RevertsOf(d, t)'[q] = RevertsOf(d, t)[q]
        BY <1>1, <2>1 DEF RevertsOf
      <3> QED BY <2>1, <3>1, RevertsUnchanged
    <2> QED BY <2>2 DEF RevertCounterExact
  <1>3. CASE DeltaAcknowledged(c, p, s)
    <2>1. /\ revertAck' = [revertAck EXCEPT ![c][p][s] = @ - 1]
          /\ parityRevert' = [parityRevert EXCEPT ![c] = [parityRevert[c] EXCEPT ![s] = @ - 1]]
          /\ UNCHANGED revertQueue
          /\ revertAck[c][p][s] > 0
      BY <1>3 DEF DeltaAcknowledged
    <2>2. ASSUME NEW d \in Clients, NEW t \in Servers
          PROVE  parityRevert'[d][t] = SumFunctionOnSet(RevertsOf(d, t)', Servers)
      <3>1. CASE d = c /\ t = s
        <4>1. \A q \in Servers : RevertsOf(c, s)'[q] =
                  IF q = p THEN RevertsOf(c, s)[p] - 1 ELSE RevertsOf(c, s)[q]
          BY <1>1, <2>1 DEF RevertsOf
        <4>2. SumFunctionOnSet(RevertsOf(c, s)', Servers) =
                  SumFunctionOnSet(RevertsOf(c, s), Servers)
                      + RevertsOf(c, s)'[p] - RevertsOf(c, s)[p]
          <5>1. \A q \in Servers : RevertsOf(c, s)[q] \in Int /\ RevertsOf(c, s)'[q] \in Int
            BY <4>1, RevertsType
          <5> QED BY <4>1, <5>1, RevertsChange
        <4>3. parityRevert'[c][s] = parityRevert[c][s] - 1 BY <1>1, <2>1
        <4>4. RevertsOf(c, s)[p] \in Int /\ SumFunctionOnSet(RevertsOf(c, s), Servers) \in Int
          BY RevertsType
        <4> QED BY <3>1, <4>1, <4>2, <4>3, <4>4 DEF RevertCounterExact
      <3>2. CASE ~(d = c /\ t = s)
        <4>1. parityRevert'[d][t] = parityRevert[d][t] BY <1>1, <2>1, <3>2
        <4>2. \A q \in Servers : RevertsOf(d, t)'[q] = RevertsOf(d, t)[q]
          BY <1>1, <2>1, <3>2 DEF RevertsOf
        <4> QED BY <4>1, <4>2, RevertsUnchanged
      <3> QED BY <3>1, <3>2
    <2> QED BY <2>2 DEF RevertCounterExact
  <1> QED BY <1>2, <1>3

(* The other steps change neither the counters nor the reverts.            *)
LEMMA RevertStepKinds ==
    ASSUME [Next]_vars
    PROVE  \/ UNCHANGED <<parityRevert, revertQueue, revertAck>>
           \/ \E c \in Clients, s \in Servers :
                \/ EnterIntermediate(c, s) /\ UNCHANGED revertAck
                \/ AfterSetState(c, s) /\ cState[c][s] = INTERMEDIATE
                \/ \E p \in Servers : SendRevert(c, p, s) \/ DeltaAcknowledged(c, p, s)
  <1>1. CASE UNCHANGED clientVars
    BY <1>1 DEF clientVars, transitInfo, revertVars
  <1>2. CASE ClientStep
    <2>1. ASSUME NEW c \in Clients, NEW s \in Servers, SetState(c, s)
          PROVE  \/ UNCHANGED <<parityRevert, revertQueue, revertAck>>
                 \/ EnterIntermediate(c, s) /\ UNCHANGED revertAck
      BY <2>1 DEF SetState, transitInfo, revertVars
    <2>2. ASSUME NEW c \in Clients, NEW s \in Servers, AfterSetState(c, s)
          PROVE  \/ UNCHANGED <<parityRevert, revertQueue, revertAck>>
                 \/ cState[c][s] = INTERMEDIATE
      BY <2>2 DEF AfterSetState
    <2>3. ASSUME NEW c \in Clients, NextMessage(c) \/ BackgroundAck(c)
          PROVE  UNCHANGED <<parityRevert, revertQueue, revertAck>>
      BY <2>3 DEF NextMessage, BackgroundAck, clientVars, transitInfo, revertVars
    <2>4. ASSUME NEW c \in Clients, NEW r \in Requests, RequestStep(c, r) \/ StartRequest(c, r)
          PROVE  UNCHANGED <<parityRevert, revertQueue, revertAck>>
      BY <2>4 DEF RequestStep, StartRequest, SendRequest, HandleResponse,
         CompleteNormalRequest, transitInfo, revertVars
    <2>5. ASSUME NEW c \in Clients, Join(c) \/ Leave(c)
          PROVE  UNCHANGED <<parityRevert, revertQueue, revertAck>>
      BY <2>5 DEF Join, Leave, clientVars, transitInfo, revertVars
    <2> QED
      BY <1>2, <2>1, <2>2, <2>3, <2>4, <2>5 DEF ClientStep, ClientReaderStep, ClientEnvironment
  <1>3. CASE \E c \in Clients, s \in Servers : SyncMetadata(c, s)
    BY <1>3 DEF SyncMetadata, SyncMetadataSent, revertVars
  <1> QED BY <1>1, <1>2, <1>3 DEF Next, vars

(* In every behaviour the counter of a client for a server is the number   *)
(* of reverts of it that are queued or sent and not acknowledged: neither  *)
(* an acknowledgement nor removePending is counted twice or missed, with   *)
(* any number of servers in transition at once.                            *)
THEOREM RevertsCounted == Spec => []RevertCounterExact
  <1>1. Init => RevertCounterExact
    <2> SUFFICES ASSUME Init, NEW c \in Clients, NEW s \in Servers
                 PROVE  parityRevert[c][s] = SumFunctionOnSet(RevertsOf(c, s), Servers)
      BY DEF RevertCounterExact
    <2>1. \A p \in Servers : RevertsOf(c, s)[p] = 0
      BY DEF Init, ClientInit, RevertsOf
    <2>2. parityRevert[c][s] = 0
      BY DEF Init, ClientInit
    <2> QED BY <2>1, <2>2, SumZero, NetworkAssumption
  <1>2. TypeOK /\ RevertCounterExact /\ [Next]_vars => RevertCounterExact'
    <2> SUFFICES ASSUME TypeOK, RevertCounterExact, [Next]_vars
                 PROVE  RevertCounterExact'
      OBVIOUS
    <2>1. CASE UNCHANGED <<parityRevert, revertQueue, revertAck>>
      BY <2>1 DEF RevertCounterExact, RevertsOf
    <2> QED
      BY <2>1, RevertStepKinds, EnterIntermediateCounts, AfterSetStateCounts, RevertCounts
  <1> QED BY <1>1, <1>2, TypeCorrect, PTL DEF Spec
-----------------------------------------------------------------------------
(* Part 2: who holds the event of a transition.  A server on its way is    *)
(* held by a dispatcher (it is in the list of checked servers), by the     *)
(* event queue or by a worker.  Two invariants are inductive: a server on  *)
(* its way has a holder, whatever fails; and, as long as no multicast is   *)
(* refused, all holders agree with the state of the server and no server   *)
(* has two.                                                                *)

(* A dispatcher that is not in stateChangeInitHandler holds no server.     *)
IdleHoldsNone ==
    \A d \in Dispatchers : dispatcher[d].pc = "idle" => dispatcher[d].checked = {}

(* Each holder was made for the state the server is in.                    *)
HoldersAgree ==
    /\ \A d \in Dispatchers : \A s \in dispatcher[d].checked :
            serversState[s] = Transient(dispatcher[d].start)
    /\ \A i \in DOMAIN eventQueue :
            serversState[eventQueue[i].server] = Transient(eventQueue[i].start)
    /\ \A w \in Workers : Active(w) =>
            /\ worker[w].server \in Servers
            /\ serversState[worker[w].server] = Transient(worker[w].start)

(* No server has two holders.                                              *)
HoldersDistinct ==
    /\ \A d \in Dispatchers : \A s \in dispatcher[d].checked :
        /\ \A e \in Dispatchers \ {d} : s \notin dispatcher[e].checked
        /\ \A i \in DOMAIN eventQueue : eventQueue[i].server # s
        /\ \A w \in Workers : Active(w) => worker[w].server # s
    /\ \A i \in DOMAIN eventQueue :
        /\ \A j \in DOMAIN eventQueue \ {i} : eventQueue[j].server # eventQueue[i].server
        /\ \A w \in Workers : Active(w) => worker[w].server # eventQueue[i].server
    /\ \A w \in Workers : Active(w) =>
        \A v \in Workers \ {w} : Active(v) => worker[v].server # worker[w].server

HolderInv == IdleHoldsNone /\ HoldersAgree /\ HoldersDistinct

(* A step that changes no holder.                                          *)
Kept ==
    /\ serversState' = serversState
    /\ eventQueue' = eventQueue
    /\ \A d \in Dispatchers :
        /\ dispatcher'[d].checked = dispatcher[d].checked
        /\ dispatcher[d].checked # {} => dispatcher'[d].start = dispatcher[d].start
        /\ dispatcher'[d].pc = "idle" => dispatcher[d].checked = {}
    /\ \A w \in Workers :
        /\ Active(w)' <=> Active(w)
        /\ Active(w) => /\ worker'[w].server = worker[w].server
                        /\ worker'[w].start = worker[w].start

(* A step in which a worker ends its work and leaves the server in a state *)
(* that is not on its way.                                                 *)
Completes(w) ==
    /\ Active(w)
    /\ \E st \in {NORMAL, DEGRADED} :
            serversState' = [serversState EXCEPT ![worker[w].server] = st]
    /\ worker'[w].pc = "send"
    /\ \A v \in Workers \ {w} : worker'[v] = worker[v]
    /\ UNCHANGED <<eventQueue, dispatcher>>

(* A step in which a worker gives up: the state is not the one its event   *)
(* was inserted for.                                                       *)
GivesUp(w) ==
    /\ serversState[worker[w].server] # Transient(worker[w].start)
    /\ worker' = [worker EXCEPT ![w] = IdleWorker]
    /\ UNCHANGED <<serversState, eventQueue, dispatcher>>

-----------------------------------------------------------------------------
(* pthread_cond_broadcast changes no holder: a waiting worker stays at     *)
(* work for its server.                                                    *)
LEMMA WokenKeeps ==
    ASSUME TypeOK, NEW s, NEW w \in Workers
    PROVE  /\ Woken(s)[w].pc \notin {"idle", "send"} <=> Active(w)
           /\ Woken(s)[w].server = worker[w].server
           /\ Woken(s)[w].start = worker[w].start
  BY DEF Woken, Active, TypeOK, CoordTypeOK, WorkerState

(* Taking up a SWITCH_PHASE event, composing and sending the broadcast and *)
(* returning from stateChangeInitHandler change no holder.                 *)
LEMMA DispatcherKeeps ==
    ASSUME TypeOK, IdleHoldsNone, NEW d \in Dispatchers,
           \/ \E S \in SUBSET Servers, start, isCrashed \in BOOLEAN :
                    SwitchPhase(d, S, start, isCrashed)
           \/ InitCompose(d) \/ InitSend(d) \/ InitDone(d)
    PROVE  Kept
  <1>1. UNCHANGED <<serversState, eventQueue, worker>>
    BY DEF SwitchPhase, InitCompose, InitSend, InitDone
  <1>2. ASSUME NEW e \in Dispatchers
        PROVE  /\ dispatcher'[e].checked = dispatcher[e].checked
               /\ dispatcher[e].checked # {} => dispatcher'[e].start = dispatcher[e].start
               /\ dispatcher'[e].pc = "idle" => dispatcher[e].checked = {}
    <2> /\ dispatcher \in [Dispatchers -> DispatcherState]
        /\ dispatcher[e] \in DispatcherState
      BY DEF TypeOK, CoordTypeOK
    <2>1. CASE \E S \in SUBSET Servers, start, isCrashed \in BOOLEAN :
                    SwitchPhase(d, S, start, isCrashed)
      <3> PICK S \in SUBSET Servers, start \in BOOLEAN, isCrashed \in BOOLEAN :
                    SwitchPhase(d, S, start, isCrashed)
        BY <2>1
      <3> DEFINE new == [IdleDispatcher EXCEPT
                !.pc = "init", !.start = start,
                !.todo = IF start THEN S ELSE S \ crashedServers]
      <3>1. new.pc = "init" /\ new.checked = {}
        BY DEF IdleDispatcher
      <3>2. dispatcher[d].pc = "idle" /\ dispatcher' = [dispatcher EXCEPT ![d] = new]
        BY DEF SwitchPhase
      <3> QED BY <3>1, <3>2 DEF IdleHoldsNone, DispatcherState
    <2>2. CASE InitCompose(d)
      BY <2>2 DEF InitCompose, IdleHoldsNone, DispatcherState
    <2>3. CASE InitSend(d)
      BY <2>3 DEF InitSend, IdleHoldsNone, DispatcherState
    <2>4. CASE InitDone(d)
      BY <2>4 DEF InitDone, IdleHoldsNone, IdleDispatcher, DispatcherState
    <2> QED BY <2>1, <2>2, <2>3, <2>4
  <1> QED BY <1>1, <1>2 DEF Kept, Active

(* The waits of a transit worker, its wake-up and its broadcast change no  *)
(* holder.                                                                 *)
LEMMA WorkerKeeps ==
    ASSUME TypeOK, IdleHoldsNone, NEW w \in Workers,
           \/ TransitToDegradedEnd(w) \/ CheckAck(w) \/ CondWait(w)
           \/ SpuriousWakeup(w) \/ WorkerSend(w)
    PROVE  Kept
  <1>1. UNCHANGED <<serversState, eventQueue, dispatcher>>
    BY DEF TransitToDegradedEnd, CheckAck, CondWait, SpuriousWakeup, WorkerSend
  <1>2. ASSUME NEW v \in Workers
        PROVE  /\ Active(v)' <=> Active(v)
               /\ Active(v) => /\ worker'[v].server = worker[v].server
                               /\ worker'[v].start = worker[v].start
    <2> /\ worker \in [Workers -> WorkerState]
        /\ worker[v] \in WorkerState
      BY DEF TypeOK, CoordTypeOK
    <2>1. CASE TransitToDegradedEnd(w)
      BY <2>1 DEF TransitToDegradedEnd, Active, WorkerState
    <2>2. CASE CheckAck(w)
      <3>1. Woken(worker[w].server) \in [Workers -> WorkerState]
        BY WokenType DEF TypeOK
      <3>2. /\ Woken(worker[w].server)[v].pc \notin {"idle", "send"} <=> Active(v)
            /\ Woken(worker[w].server)[v].server = worker[v].server
            /\ Woken(worker[w].server)[v].start = worker[v].start
        BY WokenKeeps
      <3> QED BY <2>2, <3>1, <3>2 DEF CheckAck, Active, WorkerState
    <2>3. CASE CondWait(w)
      BY <2>3 DEF CondWait, Active, WorkerState
    <2>4. CASE SpuriousWakeup(w)
      BY <2>4 DEF SpuriousWakeup, Active, WorkerState
    <2>5. CASE WorkerSend(w)
      BY <2>5 DEF WorkerSend, Active, IdleWorker, WorkerState
    <2> QED BY <2>1, <2>2, <2>3, <2>4, <2>5
  <1> QED BY <1>1, <1>2 DEF Kept, IdleHoldsNone

(* The reader of the coordinator changes no holder.                        *)
LEMMA ReaderKeeps ==
    ASSUME TypeOK, IdleHoldsNone, ReaderStep \/ ServerJoined
    PROVE  Kept
  <1>1. UNCHANGED <<serversState, eventQueue, dispatcher>>
    BY DEF ReaderStep, UpdateState, AddAliveClient, RemoveAliveClient,
       SignalAcked, EraseAck, ReaderSend, ServerJoined
  <1>2. CASE SignalAcked
    <2>1. ASSUME NEW v \in Workers
          PROVE  /\ Active(v)' <=> Active(v)
                 /\ Active(v) => /\ worker'[v].server = worker[v].server
                                 /\ worker'[v].start = worker[v].start
      BY <1>2, WokenKeeps DEF SignalAcked, Active
    <2> QED BY <1>1, <2>1 DEF Kept, IdleHoldsNone
  <1>3. CASE UNCHANGED worker
    BY <1>1, <1>3 DEF Kept, IdleHoldsNone, Active
  <1> QED
    BY <1>2, <1>3 DEF ReaderStep, UpdateState, AddAliveClient,
       RemoveAliveClient, EraseAck, ReaderSend, ServerJoined

(* Clients change no holder, and neither does their metadata.              *)
LEMMA ClientKeeps ==
    ASSUME TypeOK, IdleHoldsNone,
           \/ UNCHANGED coordVars
           \/ \E s \in Servers : SyncMetadataArrived(s)
    PROVE  Kept
  <1>1. UNCHANGED <<serversState, eventQueue, dispatcher, worker>>
    BY DEF coordVars, SyncMetadataArrived
  <1> QED BY <1>1 DEF Kept, IdleHoldsNone, Active

(* The end of transitToDegraded and transitToNormal completes the          *)
(* transition, gives up or keeps the holders.                              *)
LEMMA CommitEnds ==
    ASSUME TypeOK, IdleHoldsNone, NEW w \in Workers,
           Commit(w) \/ TransitToNormalEnd(w)
    PROVE  Kept \/ Completes(w) \/ GivesUp(w)
  <1> /\ worker \in [Workers -> WorkerState]
      /\ worker[w] \in WorkerState
    BY DEF TypeOK, CoordTypeOK
  <1>1. UNCHANGED <<eventQueue, dispatcher>>
    BY DEF Commit, TransitToNormalEnd
  <1>2. CASE Commit(w)
    <2>1. CASE serversState[worker[w].server] # Transient(worker[w].start)
      <3>1. worker' = [worker EXCEPT ![w] = IdleWorker] /\ UNCHANGED serversState
        BY <1>2, <2>1 DEF Commit, Transient
      <3> QED BY <1>1, <2>1, <3>1 DEF GivesUp
    <2>2. CASE /\ serversState[worker[w].server] = Transient(worker[w].start)
               /\ worker[w].start
      <3>1. /\ serversState' = [serversState EXCEPT ![worker[w].server] = DEGRADED]
            /\ worker' = [worker EXCEPT ![w].pc = "send", ![w].msg =
                    Compose([serversState EXCEPT ![worker[w].server] = DEGRADED], {})]
        BY <1>2, <2>2 DEF Commit
      <3>2. Active(w) BY <1>2 DEF Commit, Active
      <3>3. worker'[w].pc = "send" /\ \A v \in Workers \ {w} : worker'[v] = worker[v]
        BY <3>1 DEF WorkerState
      <3> QED BY <1>1, <3>1, <3>2, <3>3 DEF Completes
    <2>3. CASE /\ serversState[worker[w].server] = Transient(worker[w].start)
               /\ ~worker[w].start
      <3>1. /\ worker' = [worker EXCEPT ![w].pc = "normalEnd"]
            /\ UNCHANGED serversState
            /\ worker[w].pc = "commit"
        BY <1>2, <2>3 DEF Commit
      <3>2. ASSUME NEW v \in Workers
            PROVE  /\ Active(v)' <=> Active(v)
                   /\ Active(v) => /\ worker'[v].server = worker[v].server
                                   /\ worker'[v].start = worker[v].start
        BY <3>1 DEF Active, WorkerState
      <3> QED BY <1>1, <3>1, <3>2 DEF Kept, IdleHoldsNone
    <2> QED BY <2>1, <2>2, <2>3
  <1>3. CASE TransitToNormalEnd(w)
    <2>1. /\ serversState' = [serversState EXCEPT ![worker[w].server] = NORMAL]
          /\ worker' = [worker EXCEPT ![w].pc = "send", ![w].msg =
                    Compose([serversState EXCEPT ![worker[w].server] = NORMAL], {})]
          /\ Active(w)
      BY <1>3 DEF TransitToNormalEnd, Active
    <2>2. worker'[w].pc = "send" /\ \A v \in Workers \ {w} : worker'[v] = worker[v]
      BY <2>1 DEF WorkerState
    <2> QED BY <1>1, <2>1, <2>2 DEF Completes
  <1> QED BY <1>2, <1>3

(* Every step of the system is one of seven kinds.                         *)
LEMMA StepKinds ==
    ASSUME TypeOK, IdleHoldsNone, [Next]_vars
    PROVE  \/ Kept
           \/ \E w \in Workers : Completes(w) \/ GivesUp(w) \/ ExtractEvent(w)
           \/ \E d \in Dispatchers : InitSendFails(d)
           \/ \E d \in Dispatchers, s \in Servers : InitServer(d, s) \/ InsertEvent(d, s)
  <1>1. CASE CoordStep
    <2>1. ASSUME NEW d \in Dispatchers, DispatcherStep(d),
                 ~ \E s \in Servers : InitServer(d, s) \/ InsertEvent(d, s)
          PROVE  Kept
      BY <2>1, DispatcherKeeps DEF DispatcherStep
    <2>2. ASSUME NEW w \in Workers, WorkerStep(w)
          PROVE  Kept \/ Completes(w) \/ GivesUp(w) \/ ExtractEvent(w)
      BY <2>2, WorkerKeeps, CommitEnds DEF WorkerStep
    <2>3. ASSUME CoordEnvironment
          PROVE  Kept \/ \E d \in Dispatchers : InitSendFails(d)
      <3>1. SUBSET Switchable \subseteq SUBSET Servers
        BY CoordinatorAssumption
      <3>2. ASSUME NEW d \in Dispatchers, NEW S \in SUBSET Switchable,
                   NEW start \in BOOLEAN, NEW isCrashed \in BOOLEAN,
                   SwitchPhase(d, S, start, isCrashed)
            PROVE  Kept
        BY <3>1, <3>2, DispatcherKeeps
      <3> QED BY <2>3, <3>2, WorkerKeeps, ReaderKeeps DEF CoordEnvironment
    <2> QED BY <1>1, <2>1, <2>2, <2>3, ReaderKeeps DEF CoordStep
  <1>2. CASE UNCHANGED coordVars
    BY <1>2, ClientKeeps
  <1>3. CASE \E c \in Clients, s \in Servers : SyncMetadata(c, s)
    BY <1>3, ClientKeeps DEF SyncMetadata
  <1>4. CASE UNCHANGED vars
    BY <1>4, ClientKeeps DEF vars
  <1> QED BY <1>1, <1>2, <1>3, <1>4 DEF Next

-----------------------------------------------------------------------------
(* The two states a server has on its way are different, and neither is a  *)
(* state a switch starts from.                                             *)
LEMMA TransientStates ==
    ASSUME NEW a \in BOOLEAN, NEW b \in BOOLEAN
    PROVE  /\ Transient(a) = Transient(b) => a = b
           /\ Transient(a) # Origin(b)
           /\ Transient(a) \notin {NORMAL, DEGRADED}
  BY DEF Transient, Origin, NORMAL, INTERMEDIATE, DEGRADED, COORDINATED

(* How InitServer changes the state of a server and the dispatcher's list. *)
LEMMA InitServerEffect ==
    ASSUME TypeOK, NEW d \in Dispatchers, NEW s \in Servers, InitServer(d, s)
    PROVE  /\ UNCHANGED <<eventQueue, worker>>
           /\ \A e \in Dispatchers :
                /\ dispatcher'[e].pc = dispatcher[e].pc
                /\ dispatcher'[e].start = dispatcher[e].start
           /\ \A e \in Dispatchers \ {d} : dispatcher'[e] = dispatcher[e]
           /\ dispatcher[d].start \in BOOLEAN
           /\ dispatcher[d].pc = "init"
           /\ \/ /\ serversState' = serversState
                 /\ dispatcher'[d].checked = dispatcher[d].checked
              \/ /\ serversState[s] = Origin(dispatcher[d].start)
                 /\ serversState' = [serversState EXCEPT ![s] = Transient(dispatcher[d].start)]
                 /\ dispatcher'[d].checked = dispatcher[d].checked \cup {s}
  <1> /\ dispatcher \in [Dispatchers -> DispatcherState]
      /\ dispatcher[d] \in DispatcherState
    BY DEF TypeOK, CoordTypeOK
  <1>1. /\ UNCHANGED <<eventQueue, worker>>
        /\ dispatcher[d].pc = "init" /\ dispatcher[d].start \in BOOLEAN
    BY DEF InitServer, DispatcherState
  <1>2. CASE serversState[s] = Origin(dispatcher[d].start)
    <2>1. /\ serversState' = [serversState EXCEPT ![s] = Transient(dispatcher[d].start)]
          /\ dispatcher' = [dispatcher EXCEPT
                    ![d].todo = @ \ {s}, ![d].checked = @ \cup {s}]
      BY <1>2 DEF InitServer
    <2> QED BY <1>1, <1>2, <2>1 DEF DispatcherState
  <1>3. CASE serversState[s] # Origin(dispatcher[d].start)
    <2>1. /\ serversState' = serversState
          /\ dispatcher' = [dispatcher EXCEPT
                    ![d].todo = @ \ {s}, ![d].skipped = @ \cup {s}]
      BY <1>3 DEF InitServer
    <2> QED BY <1>1, <2>1 DEF DispatcherState
  <1> QED BY <1>2, <1>3

(* insertRepeatedEvents moves a server from the dispatcher's list to the   *)
(* end of the queue.                                                       *)
LEMMA InsertEventEffect ==
    ASSUME TypeOK, NEW d \in Dispatchers, NEW s \in Servers, InsertEvent(d, s)
    PROVE  /\ UNCHANGED <<serversState, worker>>
           /\ \A e \in Dispatchers :
                /\ dispatcher'[e].pc = dispatcher[e].pc
                /\ dispatcher'[e].start = dispatcher[e].start
           /\ \A e \in Dispatchers \ {d} : dispatcher'[e] = dispatcher[e]
           /\ dispatcher'[d].checked = dispatcher[d].checked \ {s}
           /\ dispatcher[d].pc = "insert" /\ s \in dispatcher[d].checked
           /\ DOMAIN eventQueue' = DOMAIN eventQueue \cup {Len(eventQueue) + 1}
           /\ Len(eventQueue) + 1 \notin DOMAIN eventQueue
           /\ \A i \in DOMAIN eventQueue : eventQueue'[i] = eventQueue[i]
           /\ eventQueue'[Len(eventQueue) + 1] =
                    [server |-> s, start |-> dispatcher[d].start]
  <1> /\ dispatcher \in [Dispatchers -> DispatcherState]
      /\ dispatcher[d] \in DispatcherState
      /\ eventQueue \in Seq(Event)
    BY DEF TypeOK, CoordTypeOK
  <1>1. /\ UNCHANGED <<serversState, worker>>
        /\ dispatcher' = [dispatcher EXCEPT ![d].checked = @ \ {s}]
        /\ dispatcher[d].pc = "insert" /\ s \in dispatcher[d].checked
    BY DEF InsertEvent
  <1> DEFINE e == [server |-> s, start |-> dispatcher[d].start]
  <1>2. e \in Event
    BY DEF Event, DispatcherState
  <1>3. eventQueue' = Append(eventQueue, e)
    BY DEF InsertEvent
  <1> HIDE DEF e
  <1>4. /\ DOMAIN eventQueue' = DOMAIN eventQueue \cup {Len(eventQueue) + 1}
        /\ Len(eventQueue) + 1 \notin DOMAIN eventQueue
        /\ \A i \in DOMAIN eventQueue : eventQueue'[i] = eventQueue[i]
        /\ eventQueue'[Len(eventQueue) + 1] = e
    BY <1>2, <1>3
  <1> QED BY <1>1, <1>4 DEF e, DispatcherState

(* A worker that extracts an event takes the one at the head of the queue. *)
LEMMA ExtractEventEffect ==
    ASSUME TypeOK, NEW w \in Workers, ExtractEvent(w)
    PROVE  /\ UNCHANGED <<serversState, dispatcher>>
           /\ ~Active(w) /\ Active(w)'
           /\ 1 \in DOMAIN eventQueue
           /\ worker'[w].server = eventQueue[1].server
           /\ worker'[w].start = eventQueue[1].start
           /\ \A v \in Workers \ {w} : worker'[v] = worker[v]
           /\ \A i \in DOMAIN eventQueue \ {1} : i - 1 \in DOMAIN eventQueue'
           /\ \A i \in DOMAIN eventQueue' :
                    /\ i \in Nat
                    /\ i + 1 \in DOMAIN eventQueue \ {1}
                    /\ eventQueue'[i] = eventQueue[i + 1]
  <1> /\ worker \in [Workers -> WorkerState]
      /\ eventQueue \in Seq(Event)
    BY DEF TypeOK, CoordTypeOK
  <1>1. /\ eventQueue # <<>> /\ eventQueue' = Tail(eventQueue)
        /\ Head(eventQueue) = eventQueue[1] /\ 1 \in DOMAIN eventQueue
        /\ UNCHANGED <<serversState, dispatcher>>
        /\ worker[w].pc = "idle"
    BY DEF ExtractEvent
  <1>2. /\ worker'[w].server = eventQueue[1].server
        /\ worker'[w].start = eventQueue[1].start
        /\ worker'[w].pc \in {"metadata", "check"}
        /\ \A v \in Workers \ {w} : worker'[v] = worker[v]
    BY <1>1 DEF ExtractEvent
  <1>3. /\ \A i \in DOMAIN eventQueue \ {1} : i - 1 \in DOMAIN eventQueue'
        /\ \A i \in DOMAIN eventQueue' :
                    /\ i \in Nat
                    /\ i + 1 \in DOMAIN eventQueue \ {1}
                    /\ eventQueue'[i] = eventQueue[i + 1]
    BY <1>1
  <1> QED BY <1>1, <1>2, <1>3 DEF Active

(* The revert loop of a failed broadcast leaves every holder where it is   *)
(* and takes servers only off their way.                                   *)
LEMMA InitSendFailsEffect ==
    ASSUME TypeOK, NEW d \in Dispatchers, InitSendFails(d)
    PROVE  /\ UNCHANGED <<eventQueue, worker>>
           /\ \A e \in Dispatchers :
                /\ dispatcher'[e].checked = dispatcher[e].checked
                /\ dispatcher'[e].start = dispatcher[e].start
                /\ dispatcher'[e].pc = "idle" => dispatcher[e].pc = "idle"
           /\ \A s \in Servers, start \in BOOLEAN :
                serversState'[s] = Transient(start) => serversState[s] = Transient(start)
  <1> /\ dispatcher \in [Dispatchers -> DispatcherState]
      /\ dispatcher[d].start \in BOOLEAN
    BY DEF TypeOK, CoordTypeOK, DispatcherState
  <1>1. /\ UNCHANGED <<eventQueue, worker>>
        /\ dispatcher' = [dispatcher EXCEPT ![d].pc = "insert", ![d].msg = NoRecords]
    BY DEF InitSendFails
  <1>2. PICK R \in SUBSET dispatcher[d].skipped :
            serversState' = [s \in Servers |->
                    IF s \in R /\ serversState[s] = Transient(dispatcher[d].start)
                    THEN Origin(dispatcher[d].start) ELSE serversState[s]]
    BY DEF InitSendFails
  <1>3. \A s \in Servers, start \in BOOLEAN :
            serversState'[s] = Transient(start) => serversState[s] = Transient(start)
    BY <1>2, TransientStates
  <1> QED BY <1>1, <1>3 DEF DispatcherState

-----------------------------------------------------------------------------
(* No step makes a dispatcher leave stateChangeInitHandler with servers in *)
(* its list.                                                               *)
LEMMA IdleHoldsNoneStep ==
    ASSUME TypeOK, IdleHoldsNone, [Next]_vars
    PROVE  IdleHoldsNone'
  <1>1. CASE Kept
    BY <1>1 DEF Kept, IdleHoldsNone
  <1>2. CASE UNCHANGED dispatcher
    BY <1>2 DEF IdleHoldsNone
  <1>3. ASSUME NEW d \in Dispatchers, InitSendFails(d)
        PROVE  IdleHoldsNone'
    BY <1>3, InitSendFailsEffect DEF IdleHoldsNone
  <1>4. ASSUME NEW d \in Dispatchers, NEW s \in Servers, InitServer(d, s)
        PROVE  IdleHoldsNone'
    BY <1>4, InitServerEffect DEF IdleHoldsNone
  <1>5. ASSUME NEW d \in Dispatchers, NEW s \in Servers, InsertEvent(d, s)
        PROVE  IdleHoldsNone'
    BY <1>5, InsertEventEffect DEF IdleHoldsNone
  <1> QED
    BY StepKinds, <1>1, <1>2, <1>3, <1>4, <1>5 DEF Completes, GivesUp, ExtractEvent

(* Every step of the system leaves a server that is on its way with a      *)
(* holder: it stays with it, moves on from the list to the queue and from  *)
(* the queue to a worker, or is dropped by a worker for which the server   *)
(* is no longer on the way the event was inserted for.                     *)
LEMMA TransitionOwnedStep ==
    ASSUME TypeOK, IdleHoldsNone, TransitionOwned, [Next]_vars
    PROVE  TransitionOwned'
  <1> DEFINE Has(s, start) ==
        \/ \E d \in Dispatchers : dispatcher[d].start = start /\ s \in dispatcher[d].checked
        \/ \E i \in DOMAIN eventQueue : eventQueue[i] = [server |-> s, start |-> start]
        \/ \E w \in Workers :
                Active(w) /\ worker[w].server = s /\ worker[w].start = start
  <1> SUFFICES ASSUME NEW s \in Servers, NEW start \in BOOLEAN,
                      serversState'[s] = Transient(start)
               PROVE  Has(s, start)'
    BY DEF TransitionOwned
  <1>0. serversState[s] = Transient(start) => Has(s, start)
    BY DEF TransitionOwned
  <1>1. CASE Kept
    <2>1. Has(s, start) BY <1>0, <1>1 DEF Kept
    <2> QED BY <1>1, <2>1 DEF Kept
  <1>2. ASSUME NEW w \in Workers, Completes(w)
        PROVE  Has(s, start)'
    <2>1. worker[w].server # s
      BY <1>2, TransientStates DEF Completes, TypeOK, CoordTypeOK
    <2>2. Has(s, start)
      BY <1>0, <1>2, <2>1 DEF Completes, TypeOK, CoordTypeOK
    <2> QED BY <1>2, <2>1, <2>2 DEF Completes, Active
  <1>3. ASSUME NEW w \in Workers, GivesUp(w)
        PROVE  Has(s, start)'
    <2>1. Has(s, start) /\ serversState[s] = Transient(start)
      BY <1>0, <1>3 DEF GivesUp
    <2>2. ~(worker[w].server = s /\ worker[w].start = start)
      BY <1>3, <2>1 DEF GivesUp
    <2>3. \A v \in Workers \ {w} : worker'[v] = worker[v]
      BY <1>3 DEF GivesUp, TypeOK, CoordTypeOK
    <2> QED BY <1>3, <2>1, <2>2, <2>3 DEF GivesUp, Active
  <1>4. ASSUME NEW w \in Workers, ExtractEvent(w)
        PROVE  Has(s, start)'
    <2>1. Has(s, start) BY <1>0, <1>4, ExtractEventEffect
    <2>2. CASE \E d \in Dispatchers : dispatcher[d].start = start /\ s \in dispatcher[d].checked
      BY <1>4, <2>2, ExtractEventEffect
    <2>3. CASE \E i \in DOMAIN eventQueue : eventQueue[i] = [server |-> s, start |-> start]
      <3> PICK i \in DOMAIN eventQueue : eventQueue[i] = [server |-> s, start |-> start]
        BY <2>3
      <3>1. CASE i = 1
        BY <1>4, <3>1, ExtractEventEffect
      <3>2. CASE i # 1
        <4>1. i - 1 \in DOMAIN eventQueue' /\ i \in Nat
          BY <1>4, <3>2, ExtractEventEffect DEF TypeOK, CoordTypeOK
        <4>2. eventQueue'[i - 1] = eventQueue[(i - 1) + 1]
          BY <1>4, <4>1, ExtractEventEffect
        <4>3. eventQueue'[i - 1] = [server |-> s, start |-> start]
          BY <4>1, <4>2
        <4> QED BY <4>1, <4>3
      <3> QED BY <3>1, <3>2
    <2>4. CASE \E v \in Workers :
                Active(v) /\ worker[v].server = s /\ worker[v].start = start
      BY <1>4, <2>4, ExtractEventEffect DEF Active
    <2> QED BY <2>1, <2>2, <2>3, <2>4
  <1>5. ASSUME NEW d \in Dispatchers, InitSendFails(d)
        PROVE  Has(s, start)'
    <2>1. Has(s, start) BY <1>0, <1>5, InitSendFailsEffect
    <2> QED BY <1>5, <2>1, InitSendFailsEffect DEF Active
  <1>6. ASSUME NEW d \in Dispatchers, NEW t \in Servers, InitServer(d, t)
        PROVE  Has(s, start)'
    <2>1. CASE serversState[s] = Transient(start)
      <3>1. Has(s, start) BY <1>0, <2>1
      <3>2. \A e \in Dispatchers :
                /\ dispatcher'[e].start = dispatcher[e].start
                /\ dispatcher[e].checked \subseteq dispatcher'[e].checked
        BY <1>6, InitServerEffect
      <3>3. UNCHANGED <<eventQueue, worker>>
        BY <1>6, InitServerEffect
      <3> QED BY <3>1, <3>2, <3>3 DEF Active
    <2>2. CASE serversState[s] # Transient(start)
      <3>1. serversState \in [Servers -> CoordStates] BY DEF TypeOK, CoordTypeOK
      <3>2. /\ s = t
            /\ serversState'[s] = Transient(dispatcher[d].start)
            /\ s \in dispatcher'[d].checked
        BY <1>6, <2>2, <3>1, InitServerEffect
      <3>3. dispatcher'[d].start = start
        BY <1>6, <3>2, InitServerEffect, TransientStates
      <3> QED BY <3>2, <3>3
    <2> QED BY <2>1, <2>2
  <1>7. ASSUME NEW d \in Dispatchers, NEW t \in Servers, InsertEvent(d, t)
        PROVE  Has(s, start)'
    <2>1. Has(s, start) BY <1>0, <1>7, InsertEventEffect
    <2>2. CASE \E e \in Dispatchers : dispatcher[e].start = start /\ s \in dispatcher[e].checked
      <3> PICK e \in Dispatchers : dispatcher[e].start = start /\ s \in dispatcher[e].checked
        BY <2>2
      <3>1. CASE e = d /\ s = t
        <4>1. /\ Len(eventQueue) + 1 \in DOMAIN eventQueue'
              /\ eventQueue'[Len(eventQueue) + 1] = [server |-> s, start |-> start]
          BY <1>7, <3>1, InsertEventEffect
        <4> QED BY <4>1
      <3>2. CASE e # d
        <4>1. dispatcher'[e] = dispatcher[e] BY <1>7, <3>2, InsertEventEffect
        <4> QED BY <4>1
      <3>3. CASE e = d /\ s # t
        <4>1. s \in dispatcher'[e].checked /\ dispatcher'[e].start = start
          BY <1>7, <3>3, InsertEventEffect
        <4> QED BY <4>1
      <3> QED BY <3>1, <3>2, <3>3
    <2>3. CASE \E i \in DOMAIN eventQueue : eventQueue[i] = [server |-> s, start |-> start]
      BY <1>7, <2>3, InsertEventEffect
    <2>4. CASE \E v \in Workers :
                Active(v) /\ worker[v].server = s /\ worker[v].start = start
      BY <1>7, <2>4, InsertEventEffect DEF Active
    <2> QED BY <2>1, <2>2, <2>3, <2>4
  <1> HIDE DEF Has
  <1> QED BY StepKinds, <1>1, <1>2, <1>3, <1>4, <1>5, <1>6, <1>7

(* A server that a switch set on its way is never forgotten: in every      *)
(* behaviour, with refused multicasts, full queues, redundant switches and *)
(* spurious wake-ups, some thread or the queue holds its event.            *)
THEOREM TransitionsOwned == Spec => []TransitionOwned
  <1>1. Init => IdleHoldsNone /\ TransitionOwned
    BY TransientStates
    DEF Init, CoordInit, IdleHoldsNone, TransitionOwned, IdleDispatcher
  <1>2. TypeOK /\ IdleHoldsNone /\ TransitionOwned /\ [Next]_vars
            => IdleHoldsNone' /\ TransitionOwned'
    BY IdleHoldsNoneStep, TransitionOwnedStep
  <1> QED BY <1>1, <1>2, TypeCorrect, PTL DEF Spec

-----------------------------------------------------------------------------
(* The event queue holds events of servers.                                *)
LEMMA QueueType ==
    ASSUME TypeOK, NEW i \in DOMAIN eventQueue
    PROVE  eventQueue[i].server \in Servers /\ eventQueue[i].start \in BOOLEAN
  <1>1. eventQueue \in Seq(Event) BY DEF TypeOK, CoordTypeOK
  <1>2. eventQueue[i] \in Event BY <1>1
  <1> QED BY <1>2 DEF Event

(* A server that is not on its way has no holder, if the holders agree     *)
(* with the states.                                                        *)
LEMMA NotHeld ==
    ASSUME TypeOK, HoldersAgree, NEW s \in Servers,
           \A start \in BOOLEAN : serversState[s] # Transient(start)
    PROVE  /\ \A d \in Dispatchers : s \notin dispatcher[d].checked
           /\ \A i \in DOMAIN eventQueue : eventQueue[i].server # s
           /\ \A w \in Workers : Active(w) => worker[w].server # s
  <1>1. \A d \in Dispatchers : dispatcher[d].start \in BOOLEAN
    BY DEF TypeOK, CoordTypeOK, DispatcherState
  <1>2. \A i \in DOMAIN eventQueue : eventQueue[i].start \in BOOLEAN
    BY QueueType
  <1>3. \A w \in Workers : worker[w].start \in BOOLEAN
    BY DEF TypeOK, CoordTypeOK, WorkerState
  <1> QED BY <1>1, <1>2, <1>3 DEF HoldersAgree

(* stateChangeInitHandler takes a server into its list only if no other    *)
(* thread and no event holds it.                                           *)
LEMMA HolderInitServer ==
    ASSUME TypeOK, HolderInv, NEW d \in Dispatchers, NEW t \in Servers,
           InitServer(d, t)
    PROVE  HoldersAgree' /\ HoldersDistinct'
  <1>1. CASE /\ serversState' = serversState
             /\ dispatcher'[d].checked = dispatcher[d].checked
    <2>1. \A e \in Dispatchers : /\ dispatcher'[e].checked = dispatcher[e].checked
                                 /\ dispatcher'[e].start = dispatcher[e].start
      BY <1>1, InitServerEffect
    <2>2. UNCHANGED <<serversState, eventQueue, worker>>
      BY <1>1, InitServerEffect
    <2>3. HoldersAgree'
      BY <2>1, <2>2 DEF HolderInv, HoldersAgree, Active
    <2>4. HoldersDistinct'
      BY <2>1, <2>2 DEF HolderInv, HoldersDistinct, Active
    <2> QED BY <2>3, <2>4
  <1>2. CASE /\ serversState[t] = Origin(dispatcher[d].start)
             /\ serversState' = [serversState EXCEPT ![t] = Transient(dispatcher[d].start)]
             /\ dispatcher'[d].checked = dispatcher[d].checked \cup {t}
    <2>1. /\ \A e \in Dispatchers : dispatcher'[e].start = dispatcher[e].start
          /\ \A e \in Dispatchers \ {d} : dispatcher'[e].checked = dispatcher[e].checked
          /\ UNCHANGED <<eventQueue, worker>>
          /\ dispatcher[d].start \in BOOLEAN
      BY InitServerEffect
    <2>2. /\ \A e \in Dispatchers : t \notin dispatcher[e].checked
          /\ \A i \in DOMAIN eventQueue : eventQueue[i].server # t
          /\ \A w \in Workers : Active(w) => worker[w].server # t
      BY <1>2, <2>1, TransientStates, NotHeld DEF HolderInv
    <2>3. \A s \in Servers \ {t} : serversState'[s] = serversState[s]
      BY <1>2 DEF TypeOK, CoordTypeOK
    <2>4. serversState'[t] = Transient(dispatcher[d].start)
      BY <1>2 DEF TypeOK, CoordTypeOK
    <2>5. HoldersAgree'
      <3>1. \A e \in Dispatchers : \A s \in dispatcher'[e].checked :
                serversState'[s] = Transient(dispatcher'[e].start)
        <4>1. \A e \in Dispatchers : dispatcher[e].checked \subseteq Servers
          BY DEF TypeOK, CoordTypeOK, DispatcherState
        <4> QED BY <1>2, <2>1, <2>2, <2>3, <2>4, <4>1 DEF HolderInv, HoldersAgree
      <3>2. \A i \in DOMAIN eventQueue' :
                serversState'[eventQueue'[i].server] = Transient(eventQueue'[i].start)
        <4>1. \A i \in DOMAIN eventQueue : eventQueue[i].server \in Servers
          BY QueueType
        <4> QED BY <2>1, <2>2, <2>3, <4>1 DEF HolderInv, HoldersAgree
      <3>3. \A w \in Workers : Active(w)' =>
                /\ worker'[w].server \in Servers
                /\ serversState'[worker'[w].server] = Transient(worker'[w].start)
        BY <2>1, <2>2, <2>3 DEF HolderInv, HoldersAgree, Active
      <3> QED BY <3>1, <3>2, <3>3 DEF HoldersAgree
    <2>6. HoldersDistinct'
      BY <1>2, <2>1, <2>2 DEF HolderInv, HoldersDistinct, Active
    <2> QED BY <2>5, <2>6
  <1> QED BY <1>1, <1>2, InitServerEffect

(* insertRepeatedEvents hands a server from the list to the queue.         *)
LEMMA HolderInsertEvent ==
    ASSUME TypeOK, HolderInv, NEW d \in Dispatchers, NEW t \in Servers,
           InsertEvent(d, t)
    PROVE  HoldersAgree' /\ HoldersDistinct'
  <1> DEFINE n == Len(eventQueue) + 1
  <1>0. \A e \in Dispatchers : dispatcher'[e].checked \subseteq dispatcher[e].checked
    <2>1. dispatcher'[d].checked \subseteq dispatcher[d].checked
      BY InsertEventEffect
    <2>2. \A e \in Dispatchers \ {d} : dispatcher'[e] = dispatcher[e]
      BY InsertEventEffect
    <2> QED BY <2>1, <2>2
  <1>1. /\ UNCHANGED <<serversState, worker>>
        /\ \A e \in Dispatchers : dispatcher'[e].start = dispatcher[e].start
        /\ t \in dispatcher[d].checked /\ t \notin dispatcher'[d].checked
        /\ DOMAIN eventQueue' = DOMAIN eventQueue \cup {n}
        /\ \A i \in DOMAIN eventQueue : eventQueue'[i] = eventQueue[i]
        /\ eventQueue'[n].server = t /\ eventQueue'[n].start = dispatcher[d].start
        /\ n \notin DOMAIN eventQueue
    <2>1. eventQueue'[n] = [server |-> t, start |-> dispatcher[d].start]
      BY InsertEventEffect
    <2>2. eventQueue'[n].server = t /\ eventQueue'[n].start = dispatcher[d].start
      BY <2>1
    <2>3. t \notin dispatcher'[d].checked
      BY InsertEventEffect
    <2> QED BY <2>2, <2>3, InsertEventEffect
  <1> HIDE DEF n
  <1>2. HoldersAgree'
    BY <1>0, <1>1 DEF HolderInv, HoldersAgree, Active
  <1>3. \A e \in Dispatchers : t \notin dispatcher'[e].checked
    BY <1>0, <1>1 DEF HolderInv, HoldersDistinct
  <1>4. /\ \A i \in DOMAIN eventQueue : eventQueue[i].server # t
        /\ \A w \in Workers : Active(w) => worker[w].server # t
    BY <1>1 DEF HolderInv, HoldersDistinct
  <1>5. \A w \in Workers : Active(w)' <=> Active(w)
    BY <1>1 DEF Active
  <1>6. \A e \in Dispatchers : \A s \in dispatcher'[e].checked :
            /\ \A f \in Dispatchers \ {e} : s \notin dispatcher'[f].checked
            /\ \A i \in DOMAIN eventQueue' : eventQueue'[i].server # s
            /\ \A w \in Workers : Active(w)' => worker'[w].server # s
    BY <1>0, <1>1, <1>3, <1>5 DEF HolderInv, HoldersDistinct
  <1>7. \A i \in DOMAIN eventQueue' :
            /\ \A j \in DOMAIN eventQueue' \ {i} : eventQueue'[j].server # eventQueue'[i].server
            /\ \A w \in Workers : Active(w)' => worker'[w].server # eventQueue'[i].server
    BY <1>1, <1>4, <1>5 DEF HolderInv, HoldersDistinct
  <1>8. \A w \in Workers : Active(w)' =>
            \A v \in Workers \ {w} : Active(v)' => worker'[v].server # worker'[w].server
    BY <1>1, <1>5 DEF HolderInv, HoldersDistinct
  <1> QED BY <1>2, <1>6, <1>7, <1>8 DEF HoldersDistinct

(* A worker that extracts an event takes the server over from the queue.   *)
LEMMA HolderExtractEvent ==
    ASSUME TypeOK, HolderInv, NEW u \in Workers, ExtractEvent(u)
    PROVE  HoldersAgree' /\ HoldersDistinct'
  <1>1. /\ UNCHANGED <<serversState, dispatcher>>
        /\ ~Active(u) /\ Active(u)'
        /\ 1 \in DOMAIN eventQueue
        /\ worker'[u].server = eventQueue[1].server
        /\ worker'[u].start = eventQueue[1].start
        /\ \A v \in Workers \ {u} : worker'[v] = worker[v]
    BY ExtractEventEffect
  <1>2. \A i \in DOMAIN eventQueue' :
            /\ i \in Nat
            /\ i + 1 \in DOMAIN eventQueue /\ i + 1 # 1
            /\ eventQueue'[i] = eventQueue[i + 1]
    BY ExtractEventEffect
  <1>3. \A v \in Workers \ {u} : Active(v)' <=> Active(v)
    BY <1>1 DEF Active
  <1>4. eventQueue[1].server \in Servers
    BY <1>1, QueueType
  <1>5. HoldersAgree'
    BY <1>1, <1>2, <1>3, <1>4 DEF HolderInv, HoldersAgree
  <1>6. \A e \in Dispatchers : \A s \in dispatcher'[e].checked :
            /\ \A f \in Dispatchers \ {e} : s \notin dispatcher'[f].checked
            /\ \A i \in DOMAIN eventQueue' : eventQueue'[i].server # s
            /\ \A w \in Workers : Active(w)' => worker'[w].server # s
    BY <1>1, <1>2, <1>3 DEF HolderInv, HoldersDistinct
  <1>7. ASSUME NEW i \in DOMAIN eventQueue'
        PROVE  /\ \A j \in DOMAIN eventQueue' \ {i} :
                        eventQueue'[j].server # eventQueue'[i].server
               /\ \A w \in Workers : Active(w)' => worker'[w].server # eventQueue'[i].server
    <2>1. ASSUME NEW j \in DOMAIN eventQueue', j # i
          PROVE  eventQueue'[j].server # eventQueue'[i].server
      <3>1. i + 1 # j + 1 BY <1>2, <2>1
      <3> QED BY <1>2, <3>1 DEF HolderInv, HoldersDistinct
    <2>2. \A w \in Workers : Active(w)' => worker'[w].server # eventQueue'[i].server
      BY <1>1, <1>2, <1>3 DEF HolderInv, HoldersDistinct
    <2> QED BY <2>1, <2>2
  <1>8. \A w \in Workers : Active(w)' =>
            \A v \in Workers \ {w} : Active(v)' => worker'[v].server # worker'[w].server
    BY <1>1, <1>3 DEF HolderInv, HoldersDistinct
  <1> QED BY <1>5, <1>6, <1>7, <1>8 DEF HoldersDistinct

(* A worker that completes a transition was the only holder, so that no    *)
(* other one disagrees with the new state.                                 *)
LEMMA HolderCompletes ==
    ASSUME TypeOK, HolderInv, NEW u \in Workers, Completes(u)
    PROVE  HoldersAgree' /\ HoldersDistinct'
  <1> DEFINE t == worker[u].server
  <1>1. /\ UNCHANGED <<eventQueue, dispatcher>>
        /\ Active(u) /\ ~Active(u)'
        /\ \A v \in Workers \ {u} : worker'[v] = worker[v]
    BY DEF Completes, Active
  <1>2. \A v \in Workers \ {u} : Active(v)' <=> Active(v)
    BY <1>1 DEF Active
  <1>3. \A s \in Servers \ {t} : serversState'[s] = serversState[s]
    BY DEF Completes, TypeOK, CoordTypeOK
  <1> HIDE DEF t
  <1>4. /\ \A d \in Dispatchers : t \notin dispatcher[d].checked
        /\ \A i \in DOMAIN eventQueue : eventQueue[i].server # t
        /\ \A v \in Workers \ {u} : Active(v) => worker[v].server # t
    BY <1>1 DEF HolderInv, HoldersDistinct, t
  <1>5. HoldersAgree'
    <2>1. /\ \A d \in Dispatchers : dispatcher[d].checked \subseteq Servers
          /\ \A i \in DOMAIN eventQueue : eventQueue[i].server \in Servers
      BY QueueType DEF TypeOK, CoordTypeOK, DispatcherState
    <2> QED BY <1>1, <1>2, <1>3, <1>4, <2>1 DEF HolderInv, HoldersAgree
  <1>6. HoldersDistinct'
    BY <1>1, <1>2 DEF HolderInv, HoldersDistinct
  <1> QED BY <1>5, <1>6

(* Failed multicasts are counted: no step forgets one.                     *)
LEMMA FailuresCounted ==
    ASSUME TypeOK, [Next]_vars, sendFailures' = 0
    PROVE  /\ sendFailures = 0
           /\ \A d \in Dispatchers : ~InitSendFails(d)
  <1>1. sendFailures \in Nat BY DEF TypeOK, CoordTypeOK
  <1>2. ASSUME NEW d \in Dispatchers PROVE ~InitSendFails(d)
    BY <1>1 DEF InitSendFails
  <1>3. ASSUME NEW d \in Dispatchers, DispatcherStep(d)
        PROVE  sendFailures' = sendFailures
    BY <1>3 DEF DispatcherStep, InitServer, InitCompose, InitSend, InsertEvent,
       InitDone, boundVars
  <1>4. ASSUME NEW w \in Workers, WorkerStep(w)
        PROVE  sendFailures' = sendFailures \/ sendFailures' = sendFailures + 1
    <2>1. CASE WorkerSend(w)
      BY <2>1 DEF WorkerSend
    <2> QED BY <1>4, <2>1 DEF WorkerStep, ExtractEvent, TransitToDegradedEnd,
               CheckAck, CondWait, Commit, TransitToNormalEnd, boundVars
  <1>5. ASSUME ReaderStep \/ ServerJoined
        PROVE  sendFailures' = sendFailures
    BY <1>5 DEF ReaderStep, UpdateState, AddAliveClient, RemoveAliveClient,
       SignalAcked, EraseAck, ReaderSend, ServerJoined, boundVars
  <1>6. ASSUME CoordEnvironment
        PROVE  sendFailures' = sendFailures
    <2>1. ASSUME NEW w \in Workers, SpuriousWakeup(w)
          PROVE  sendFailures' = sendFailures
      BY <2>1 DEF SpuriousWakeup, boundVars
    <2>2. ASSUME NEW d \in Dispatchers, NEW S, NEW start, NEW isCrashed,
                 SwitchPhase(d, S, start, isCrashed)
          PROVE  sendFailures' = sendFailures
      BY <2>2 DEF SwitchPhase
    <2> QED BY <1>2, <1>5, <1>6, <2>1, <2>2 DEF CoordEnvironment
  <1>7. ASSUME NEW s \in Servers, SyncMetadataArrived(s)
        PROVE  sendFailures' = sendFailures
    BY <1>7 DEF SyncMetadataArrived, boundVars
  <1>8. sendFailures' = sendFailures \/ sendFailures' = sendFailures + 1
    <2>1. CASE CoordStep BY <2>1, <1>3, <1>4, <1>5, <1>6 DEF CoordStep
    <2>2. CASE UNCHANGED coordVars BY <2>2 DEF coordVars, boundVars
    <2>3. CASE UNCHANGED vars BY <2>3 DEF vars, coordVars, boundVars
    <2> QED BY <2>1, <2>2, <2>3, <1>7 DEF Next, SyncMetadata
  <1> QED BY <1>1, <1>2, <1>8

(* Every step keeps one holder per server on its way, in agreement with    *)
(* its state, as long as no multicast is refused.                          *)
LEMMA HolderStep ==
    ASSUME TypeOK, HolderInv, [Next]_vars, sendFailures' = 0
    PROVE  HolderInv'
  <1>1. IdleHoldsNone' BY IdleHoldsNoneStep DEF HolderInv
  <1>2. CASE Kept
    <2>1. HoldersAgree' BY <1>2 DEF Kept, HolderInv, HoldersAgree
    <2>2. HoldersDistinct' BY <1>2 DEF Kept, HolderInv, HoldersDistinct
    <2> QED BY <1>1, <2>1, <2>2 DEF HolderInv
  <1>3. ASSUME NEW w \in Workers, GivesUp(w)
        PROVE  HolderInv'
    <2>1. /\ UNCHANGED <<serversState, eventQueue, dispatcher>>
          /\ ~Active(w)'
          /\ \A v \in Workers \ {w} : worker'[v] = worker[v]
      BY <1>3 DEF GivesUp, TypeOK, CoordTypeOK, Active, IdleWorker
    <2>2. HoldersAgree' BY <2>1 DEF HolderInv, HoldersAgree, Active
    <2>3. HoldersDistinct' BY <2>1 DEF HolderInv, HoldersDistinct, Active
    <2> QED BY <1>1, <2>2, <2>3 DEF HolderInv
  <1>4. ASSUME NEW d \in Dispatchers PROVE ~InitSendFails(d)
    BY FailuresCounted
  <1> QED
    BY StepKinds, <1>1, <1>2, <1>3, <1>4, HolderInitServer, HolderInsertEvent,
       HolderExtractEvent, HolderCompletes DEF HolderInv

(* As long as no multicast was refused, a transition is carried out by one *)
(* worker, which finds the server in the state its event was inserted for, *)
(* for any number of threads, switches and spurious wake-ups.              *)
THEOREM TransitionsSingle == Spec => []SingleTransition
  <1> DEFINE Inv == sendFailures = 0 => HolderInv
  <1>1. Init => Inv
    BY DEF Init, CoordInit, HolderInv, IdleHoldsNone, HoldersAgree,
       HoldersDistinct, IdleDispatcher, IdleWorker, Active
  <1>2. TypeOK /\ Inv /\ [Next]_vars => Inv'
    BY HolderStep, FailuresCounted
  <1>3. Inv => SingleTransition
    BY DEF HolderInv, HoldersAgree, HoldersDistinct, SingleTransition
  <1> QED BY <1>1, <1>2, <1>3, TypeCorrect, PTL DEF Spec

-----------------------------------------------------------------------------
(***************************************************************************)
(* Part 3: the refinement of TransitPromise, and what the clients have     *)
(* done when a transition is completed.                                    *)
(***************************************************************************)

(* The setting: one server is switched, one dispatcher takes the events,   *)
(* the clients are those the coordinator starts with and none leaves, no   *)
(* multicast is refused, no thread wakes up by itself, and a uint32_t      *)
(* counts the clients.                                                     *)
Calm ==
    /\ \E s \in Servers : Switchable = {s}
    /\ \A d, e \in Dispatchers : d = e
    /\ InitialClients = Clients
    /\ MaxLeaves = 0 /\ MaxServerJoins = 0 /\ MaxSendFailures = 0
    /\ ~RedundantSwitches /\ ~SpuriousWakeups
    /\ Cardinality(Clients) < CounterMod

(* The server that is switched, its state, and its state at a client.      *)
X == CHOOSE s \in Servers : Switchable = {s}
Mode == serversState[X]
View(c) == cState[c][X]

(* A phase is NORMAL with INTERMEDIATE, or DEGRADED with COORDINATED: the  *)
(* state it begins with, the state on the way out of it, and the states in *)
(* which clients wait when they enter it and before they leave it.         *)
Base(m)    == IF m \in {NORMAL, INTERMEDIATE} THEN NORMAL ELSE DEGRADED
Going(m)   == IF m \in {NORMAL, INTERMEDIATE} THEN INTERMEDIATE ELSE COORDINATED
WaitIn(m)  == IF m \in {NORMAL, INTERMEDIATE} THEN WAIT_NORMAL ELSE WAIT_DEGRADED
WaitOut(m) == IF m \in {NORMAL, INTERMEDIATE} THEN WAIT_DEGRADED ELSE WAIT_NORMAL

(* Nobody joins or leaves, and no multicast is refused.                    *)
Group ==
    /\ \A c \in Clients : status[c] = "up"
    /\ aliveClients = Clients
    /\ reader.pc \in {"idle", "signal"}
    /\ sendFailures = 0

(* Everybody knows the other servers as NORMAL.                            *)
Silent(msg) == \A s \in DOMAIN msg : s # X => msg[s] = NORMAL
Quiet ==
    /\ \A s \in Servers \ {X} : serversState[s] = NORMAL
    /\ \A i \in DOMAIN eventQueue : eventQueue[i].server = X
    /\ \A d \in Dispatchers :
        /\ dispatcher[d].todo \subseteq {X}
        /\ dispatcher[d].checked \subseteq {X}
        /\ Silent(dispatcher[d].msg)
    /\ \A w \in Workers :
        /\ worker[w].pc # "idle" => worker[w].server = X
        /\ Silent(worker[w].msg)
QuietClients ==
    \A c \in Clients :
        /\ \A s \in Servers \ {X} : cState[c][s] = NORMAL
        /\ \A i \in DOMAIN clientBox[c] : Silent(clientBox[c][i])

(* The message about X that a thread has composed is still true when it is *)
(* sent.  A dispatcher without servers is told to switch back a server     *)
(* that crashed, which stays DEGRADED for ever.                            *)
Stuck == X \in crashedServers /\ Mode = DEGRADED
Current(msg) == X \in DOMAIN msg /\ msg[X] = Mode
DispatcherTrue(d) ==
    /\ dispatcher[d].pc = "init" =>
        \/ /\ dispatcher[d].todo = {X} /\ dispatcher[d].checked = {}
           /\ Mode = Origin(dispatcher[d].start)
           /\ dispatcher[d].start \/ X \notin crashedServers
        \/ dispatcher[d].todo = {} /\ dispatcher[d].checked = {X}
        \/ dispatcher[d].todo = {} /\ Stuck
    /\ dispatcher[d].pc = "send" =>
        /\ Current(dispatcher[d].msg)
        /\ dispatcher[d].checked = {X} \/ Stuck
WorkerTrue(w) ==
    worker[w].pc = "send" => Current(worker[w].msg) /\ Mode \in {NORMAL, DEGRADED}
Threads ==
    /\ \A d \in Dispatchers : DispatcherTrue(d)
    /\ \A w \in Workers : WorkerTrue(w)

(* Only a worker that switches back waits for the end of the migration.    *)
Returning == \A w \in Workers : worker[w].pc = "normalEnd" => ~worker[w].start

(* What a client has yet to read about X is the state its phase began with *)
(* and then, when the clients were told to leave it, the state on the way  *)
(* out of it; a client that was told has nothing to read, and one that     *)
(* waits to enter the phase will be told.                                  *)
Told == \A d \in Dispatchers : dispatcher[d].checked = {X} => dispatcher[d].pc = "insert"
Leaving == Mode = Going(Mode) /\ Told
Listed(c) == {i \in DOMAIN clientBox[c] : X \in DOMAIN clientBox[c][i]}
Signal(c, i) == clientBox[c][i][X]
BoxTrue(c) ==
    /\ View(c) \in {Base(Mode), Going(Mode), WaitIn(Mode), WaitOut(Mode)}
    /\ \A i \in Listed(c) :
        \/ Signal(c, i) = Base(Mode)
        \/ Signal(c, i) = Going(Mode) /\ Leaving /\ \A j \in Listed(c) : j <= i
    /\ View(c) \in {Going(Mode), WaitOut(Mode)} => Leaving /\ Listed(c) = {}
    /\ View(c) = WaitIn(Mode) =>
        \/ \E i \in Listed(c) : Signal(c, i) = Base(Mode)
        \/ \E w \in Workers : worker[w].pc = "send"
Boxes == \A c \in Clients : BoxTrue(c)

(* An acknowledgement on its way or counted is one of a client that waits; *)
(* a worker goes on when all are counted.                                  *)
AckMsg(m) == [type |-> "ack", states |-> [s \in {X} |-> WaitOut(m)]]
AckTrue(c) ==
    /\ \/ coordBox[c] = <<>>
       \/ coordBox[c] = <<AckMsg(Mode)>> /\ View(c) = WaitOut(Mode) /\ c \notin ackClients[X]
    /\ Mode = Going(Mode) /\ c \in ackClients[X] => View(c) = WaitOut(Mode)
Acks ==
    /\ \A c \in Clients : AckTrue(c)
    /\ \A w \in Workers : worker[w].pc \in {"commit", "normalEnd"} => ackClients[X] = Clients

(* The entry of X counts the clients that were not told or whose metadata  *)
(* is on its way, from the switch until a worker has seen it reach zero.   *)
Owes(c) == View(c) \in {NORMAL, WAIT_NORMAL} \/ syncMeta[c][X] # 0
Owing == {c \in Clients : Owes(c)}
Syncing(c) ==
    /\ syncMeta[c][X] \in {0, 1}
    /\ syncMeta[c][X] # 0 => View(c) \in {INTERMEDIATE, WAIT_DEGRADED} /\ Mode = INTERMEDIATE
Starting(d) == dispatcher[d].pc = "init" /\ dispatcher[d].todo = {X} /\ dispatcher[d].start
Past(w) == Active(w) /\ worker[w].start /\ worker[w].pc # "metadata"
Meta ==
    /\ \A c \in Clients : Syncing(c)
    /\ transition[X] # None => transition[X] = Cardinality(Owing)
    /\ Mode \in {DEGRADED, COORDINATED} => transition[X] = None
    /\ \A d \in Dispatchers : Starting(d) => transition[X] # None
    /\ Mode = INTERMEDIATE => transition[X] # None \/ \E w \in Workers : Past(w)
    /\ \A w \in Workers : Past(w) => transition[X] = None /\ Owing = {}

(* A client has reverts of X to wait for only while it is INTERMEDIATE.    *)
Reverts == \A c \in Clients : View(c) # INTERMEDIATE => parityRevert[c][X] = 0
CalmInv ==
    /\ TypeOK /\ HolderInv /\ Group /\ Quiet /\ QuietClients
    /\ Threads /\ Boxes /\ Acks /\ Returning

-----------------------------------------------------------------------------
(* There is a server that is switched.                                     *)
LEMMA Switched == ASSUME Calm PROVE X \in Servers /\ Switchable = {X}
  BY DEF Calm, X

(* The four states of a phase are different, and a phase is left for the   *)
(* other one.                                                              *)
LEMMA Phases ==
    ASSUME NEW m \in CoordStates
    PROVE  /\ m = Base(m) \/ m = Going(m)
           /\ Base(m) # Going(m) /\ Base(m) # WaitIn(m) /\ Base(m) # WaitOut(m)
           /\ Going(m) # WaitIn(m) /\ Going(m) # WaitOut(m) /\ WaitIn(m) # WaitOut(m)
           /\ m \in {NORMAL, DEGRADED} <=> m = Base(m)
           /\ Base(m) \notin {INTERMEDIATE, COORDINATED}
           /\ WaitIn(m) \notin {INTERMEDIATE, COORDINATED}
           /\ WaitOut(m) \notin {INTERMEDIATE, COORDINATED}
           /\ WaitFor(Going(m)) = WaitOut(m)
           /\ Acknowledges(WaitOut(m), Going(m))
  BY DEF CoordStates, Base, Going, WaitIn, WaitOut, WaitFor, Acknowledges,
     NORMAL, INTERMEDIATE, COORDINATED, DEGRADED, WAIT_DEGRADED, WAIT_NORMAL

(* The state of the switched server is one of the coordinator's.           *)
LEMMA ModeType == ASSUME Calm, TypeOK PROVE Mode \in CoordStates
  BY Switched DEF TypeOK, CoordTypeOK, Mode

(* A message of the coordinator about all servers, or about X alone.       *)
LEMMA ComposeEffect ==
    ASSUME Calm, NEW st \in [Servers -> CoordStates],
           \A s \in Servers \ {X} : st[s] = NORMAL, NEW S \in SUBSET {X}
    PROVE  LET msg == Compose(st, S)
           IN  Silent(msg) /\ X \in DOMAIN msg /\ msg[X] = st[X]
  BY Switched DEF Compose, Silent

(* The message that lists no server.                                       *)
LEMMA NoRecordsSilent == Silent(NoRecords)
  BY DEF Silent, NoRecords

-----------------------------------------------------------------------------
(* ackTransit acknowledges the switched server, when it is on its way and, *)
(* on the way to DEGRADED, has no revert to wait for; or it does nothing.  *)
AckSent(c) ==
    /\ View(c) \in {INTERMEDIATE, COORDINATED}
    /\ cState' = [cState EXCEPT ![c][X] = WaitFor(View(c))]
    /\ coordBox' = [coordBox EXCEPT ![c] = Append(@,
            [type |-> "ack", states |-> [s \in {X} |-> WaitFor(View(c))]])]

(* What a call of ackTransit does to the switched server.                  *)
LEMMA AckEffect ==
    ASSUME Calm, TypeOK, QuietClients, NEW c \in Clients, NEW S \in SUBSET Servers,
           NEW reverts, NEW done, NEW ids,
           AckTransit(c, S, cState[c], reverts, done, ids)
    PROVE  \/ UNCHANGED <<cState, coordBox>>
           \/ AckSent(c) /\ (View(c) = INTERMEDIATE => reverts[X] = 0)
  <1> DEFINE A == {s \in S : CheckAckForServer(cState[c][s], reverts[s], done[s])}
  <1>1. /\ cState' = [cState EXCEPT ![c] = [s \in Servers |->
                IF s \in A THEN WaitFor(cState[c][s]) ELSE cState[c][s]]]
        /\ coordBox' = IF A = {} THEN coordBox
                ELSE [coordBox EXCEPT ![c] = Append(@,
                    [type |-> "ack", states |-> [s \in A |-> WaitFor(cState[c][s])]])]
    BY DEF AckTransit
  <1>2. X \in Servers BY Switched
  <1>3. cState \in [Clients -> [Servers -> ClientStates]]
    BY DEF TypeOK, ClientTypeOK
  <1>4. A \subseteq {X}
    BY DEF QuietClients, CheckAckForServer, NORMAL, INTERMEDIATE, COORDINATED
  <1>5. X \in A => /\ View(c) \in {INTERMEDIATE, COORDINATED}
                   /\ View(c) = INTERMEDIATE => reverts[X] = 0
    BY DEF CheckAckForServer, View, INTERMEDIATE, COORDINATED
  <1> HIDE DEF A
  <1>6. CASE A = {}
    BY <1>1, <1>3, <1>6
  <1>7. CASE A = {X}
    <2>1. cState' = [cState EXCEPT ![c][X] = WaitFor(View(c))]
      BY <1>1, <1>2, <1>3, <1>7 DEF View
    <2>2. [s \in A |-> WaitFor(cState[c][s])] = [s \in {X} |-> WaitFor(View(c))]
      BY <1>7 DEF View
    <2> QED BY <1>1, <1>5, <1>7, <2>1, <2>2 DEF AckSent
  <1> QED BY <1>4, <1>6, <1>7

(* The steps of a client that read no message: they acknowledge X, or they *)
(* change neither the states nor what was sent.                            *)
Quietly(c) ==
    /\ UNCHANGED <<coordVars, clientBox, status, syncMeta>>
    /\ \/ UNCHANGED <<cState, coordBox>>
       \/ AckSent(c) /\ (View(c) = INTERMEDIATE => parityRevert'[c][X] = 0)

(* The follow-up of a state change reads no message.                       *)
LEMMA AfterSetStateQuiet ==
    ASSUME Calm, CalmInv, NEW c \in Clients, NEW s \in Servers, AfterSetState(c, s),
           UNCHANGED coordVars
    PROVE  Quietly(c)
  <1> TypeOK /\ QuietClients BY DEF CalmInv
  <1> DEFINE reverts == [t \in Servers |-> parityRevert[c][t] - revertAck[c][s][t]]
  <1>1. UNCHANGED <<clientBox, status, syncMeta>>
    BY DEF AfterSetState
  <1>2. parityRevert \in [Clients -> [Servers -> Int]]
    BY DEF TypeOK, ClientTypeOK
  <1>3. CASE /\ parityRevert' = [parityRevert EXCEPT ![c] = reverts]
             /\ AckTransit(c, Servers, cState[c], reverts, completed[c], pendingNormal[c])
    <2> HIDE DEF reverts
    <2>1. parityRevert'[c] = reverts BY <1>2, <1>3
    <2> QED BY <1>1, <1>3, <2>1, AckEffect DEF Quietly
  <1>4. CASE /\ AckTransit(c, {s}, cState[c], parityRevert[c], completed[c], pendingNormal[c])
             /\ UNCHANGED parityRevert
    BY <1>1, <1>4, AckEffect DEF Quietly
  <1>5. CASE UNCHANGED <<cState, coordBox>>
    BY <1>1, <1>5 DEF Quietly
  <1> QED BY <1>3, <1>4, <1>5 DEF AfterSetState

(* Nor do the background thread, the reverts and the requests.             *)
LEMMA OthersQuiet ==
    ASSUME Calm, CalmInv, NEW c \in Clients, UNCHANGED coordVars,
           \/ BackgroundAck(c)
           \/ \E p, s \in Servers : SendRevert(c, p, s) \/ DeltaAcknowledged(c, p, s)
           \/ \E r \in Requests : RequestStep(c, r) \/ StartRequest(c, r)
    PROVE  Quietly(c)
  <1> TypeOK /\ QuietClients BY DEF CalmInv
  <1>1. UNCHANGED <<clientBox, status, syncMeta>>
    BY DEF BackgroundAck, SendRevert, DeltaAcknowledged, RequestStep, StartRequest,
       SendRequest, HandleResponse, CompleteNormalRequest, transitInfo, netVars
  <1>2. CASE BackgroundAck(c)
    <2>1. /\ AckTransit(c, Servers, cState[c], parityRevert[c], completed[c], pendingNormal[c])
          /\ UNCHANGED parityRevert
      BY <1>2 DEF BackgroundAck
    <2> QED BY <1>1, <2>1, AckEffect DEF Quietly
  <1>3. ASSUME NEW p \in Servers, NEW s \in Servers, SendRevert(c, p, s)
        PROVE  Quietly(c)
    BY <1>1, <1>3 DEF SendRevert, netVars, Quietly
  <1>4. ASSUME NEW p \in Servers, NEW s \in Servers, DeltaAcknowledged(c, p, s)
        PROVE  Quietly(c)
    <2> DEFINE reverts == [parityRevert[c] EXCEPT ![s] = @ - 1]
    <2>1. /\ parityRevert' = [parityRevert EXCEPT ![c] = reverts]
          /\ AckTransit(c, {s}, cState[c], reverts, completed[c], pendingNormal[c])
      BY <1>4 DEF DeltaAcknowledged
    <2> HIDE DEF reverts
    <2>2. parityRevert'[c] = reverts
      BY <2>1 DEF TypeOK, ClientTypeOK
    <2> QED BY <1>1, <2>1, <2>2, AckEffect DEF Quietly
  <1>5. ASSUME NEW r \in Requests, CompleteNormalRequest(c, r)
        PROVE  Quietly(c)
    <2>1. UNCHANGED parityRevert
      BY <1>5 DEF CompleteNormalRequest
    <2>2. PICK Z, done, ids :
            Z \in SUBSET Servers /\ AckTransit(c, Z, cState[c], parityRevert[c], done, ids)
      <3> DEFINE P   == {s \in ParityServers[r] :
                            UseCoordinatedFlow(c, s) /\ ~completed[c][s]}
                 ids == [s \in Servers |-> IF s \in P THEN pendingNormal[c][s] \ {r}
                                                      ELSE pendingNormal[c][s]]
                 Z   == {s \in P : ids[s] = {}}
                 done == [s \in Servers |-> completed[c][s] \/ s \in Z]
      <3>1. Z \in SUBSET Servers BY ClientAssumption
      <3>2. AckTransit(c, Z, cState[c], parityRevert[c], done, ids)
        BY <1>5 DEF CompleteNormalRequest
      <3> HIDE DEF Z, done, ids
      <3> QED BY <3>1, <3>2
    <2> QED BY <1>1, <2>1, <2>2, AckEffect DEF Quietly
  <1>6. ASSUME NEW r \in Requests, SendRequest(c, r) \/ HandleResponse(c, r) \/ StartRequest(c, r)
        PROVE  Quietly(c)
    BY <1>1, <1>6 DEF SendRequest, HandleResponse, StartRequest, netVars, Quietly
  <1> QED BY <1>2, <1>3, <1>4, <1>5, <1>6 DEF RequestStep

-----------------------------------------------------------------------------
(* How setState changes the box of the client that reads.                  *)
LEMMA SetStateBox ==
    ASSUME TypeOK, NEW c \in Clients, NEW s \in Servers, SetState(c, s)
    PROVE  /\ 1 \in DOMAIN clientBox[c]
           /\ clientBox[c][1] = Head(clientBox[c])
           /\ s \in DOMAIN clientBox[c][1]
           /\ DOMAIN clientBox'[c] = DOMAIN clientBox[c]
           /\ clientBox'[c][1] = [t \in DOMAIN clientBox[c][1] \ {s} |-> clientBox[c][1][t]]
           /\ \A i \in DOMAIN clientBox[c] : i # 1 => clientBox'[c][i] = clientBox[c][i]
           /\ \A d \in Clients \ {c} : clientBox'[d] = clientBox[d]
  <1> DEFINE b == clientBox[c]
             rest == [t \in DOMAIN Head(b) \ {s} |-> Head(b)[t]]
  <1>1. /\ clientBox' = [clientBox EXCEPT ![c] = <<rest>> \o Tail(b)]
        /\ b # <<>> /\ s \in DOMAIN Head(b)
    BY DEF SetState
  <1>2. b \in Seq(Records(CoordStates)) /\ clientBox \in [Clients -> Seq(Records(CoordStates))]
    BY DEF TypeOK, NetTypeOK
  <1>3. 1 \in DOMAIN b /\ b[1] = Head(b)
    BY <1>1, <1>2
  <1>4. clientBox'[c] = <<rest>> \o Tail(b) /\ \A d \in Clients \ {c} : clientBox'[d] = clientBox[d]
    BY <1>1, <1>2
  <1> HIDE DEF b, rest
  <1>5. /\ DOMAIN (<<rest>> \o Tail(b)) = DOMAIN b
        /\ (<<rest>> \o Tail(b))[1] = rest
        /\ \A i \in DOMAIN b : i # 1 => (<<rest>> \o Tail(b))[i] = b[i]
    BY <1>1, <1>2
  <1> QED BY <1>1, <1>3, <1>4, <1>5 DEF b, rest

(* The record that is read is no longer listed, and the others stay.       *)
LEMMA SetStateListed ==
    ASSUME TypeOK, NEW c \in Clients, NEW s \in Servers, SetState(c, s)
    PROVE  /\ Listed(c)' = IF s = X THEN Listed(c) \ {1} ELSE Listed(c)
           /\ \A i \in Listed(c)' : clientBox'[c][i][X] = clientBox[c][i][X]
           /\ s = X => 1 \in Listed(c)
  <1>1. /\ 1 \in DOMAIN clientBox[c]
        /\ s \in DOMAIN clientBox[c][1]
        /\ DOMAIN clientBox'[c] = DOMAIN clientBox[c]
        /\ DOMAIN clientBox'[c][1] = DOMAIN clientBox[c][1] \ {s}
        /\ \A t \in DOMAIN clientBox[c][1] \ {s} : clientBox'[c][1][t] = clientBox[c][1][t]
        /\ \A i \in DOMAIN clientBox[c] : i # 1 => clientBox'[c][i] = clientBox[c][i]
    <2>1. clientBox'[c][1] = [t \in DOMAIN clientBox[c][1] \ {s} |-> clientBox[c][1][t]]
      BY SetStateBox
    <2>2. /\ DOMAIN clientBox'[c][1] = DOMAIN clientBox[c][1] \ {s}
          /\ \A t \in DOMAIN clientBox[c][1] \ {s} : clientBox'[c][1][t] = clientBox[c][1][t]
      BY <2>1
    <2> QED BY <2>2, SetStateBox
  <1>2. ASSUME NEW i
        PROVE  i \in Listed(c)' <=> i \in Listed(c) /\ ~(s = X /\ i = 1)
    BY <1>1 DEF Listed
  <1>3. ASSUME NEW i \in Listed(c)'
        PROVE  clientBox'[c][i][X] = clientBox[c][i][X]
    BY <1>1 DEF Listed
  <1> QED BY <1>1, <1>2, <1>3 DEF Listed

(* A client that reads about another server changes no state; what it      *)
(* reads about X is the state of its phase, or it leaves the phase.        *)
LEMMA SetStateOther ==
    ASSUME Calm, CalmInv, NEW c \in Clients, NEW s \in Servers, SetState(c, s), s # X
    PROVE  UNCHANGED <<cState, transitInfo>>
  <1>1. clientBox[c][1] = Head(clientBox[c]) /\ 1 \in DOMAIN clientBox[c]
           /\ s \in DOMAIN clientBox[c][1]
    BY SetStateBox DEF CalmInv
  <1>2. Head(clientBox[c])[s] = NORMAL /\ cState[c][s] = NORMAL
    BY <1>1 DEF CalmInv, QuietClients, Silent
  <1>3. /\ cState' = [cState EXCEPT ![c][s] = NORMAL]
        /\ UNCHANGED transitInfo
    BY <1>2 DEF SetState, NORMAL, INTERMEDIATE, COORDINATED
  <1> QED BY <1>2, <1>3 DEF CalmInv, TypeOK, ClientTypeOK

(* What a client reads about X, and the state it is in when it does.       *)
LEMMA SetStateView ==
    ASSUME Calm, CalmInv, NEW c \in Clients, SetState(c, X)
    PROVE  /\ cState' = [cState EXCEPT ![c][X] = Signal(c, 1)]
           /\ View(c)' = Signal(c, 1)
           /\ \/ /\ Signal(c, 1) = Base(Mode)
                 /\ View(c) \in {Base(Mode), WaitIn(Mode)}
                 /\ UNCHANGED transitInfo
              \/ /\ Signal(c, 1) = Going(Mode)
                 /\ View(c) = Base(Mode)
                 /\ Leaving /\ Listed(c) = {1}
                 /\ IF Mode = INTERMEDIATE THEN EnterIntermediate(c, X)
                                           ELSE UNCHANGED transitInfo
  <1>0. X \in Servers /\ Mode \in CoordStates
    BY Switched, ModeType DEF CalmInv
  <1>1. clientBox[c][1] = Head(clientBox[c]) /\ 1 \in Listed(c)
    BY <1>0, SetStateBox, SetStateListed DEF CalmInv
  <1>2. Head(clientBox[c])[X] = Signal(c, 1)
    BY <1>1 DEF Signal
  <1>3. cState \in [Clients -> [Servers -> ClientStates]]
    BY DEF CalmInv, TypeOK, ClientTypeOK
  <1>4. BoxTrue(c) BY DEF CalmInv, Boxes
  <1>5. View(c) \in {Base(Mode), WaitIn(Mode)}
    BY <1>1, <1>4, Phases DEF BoxTrue
  <1>6. CASE Signal(c, 1) = Base(Mode)
    <2>1. /\ cState' = [cState EXCEPT ![c][X] = Signal(c, 1)]
          /\ UNCHANGED transitInfo
      BY <1>0, <1>2, <1>6, Phases DEF SetState
    <2> QED BY <1>0, <1>3, <1>5, <1>6, <2>1 DEF View
  <1>7. CASE Signal(c, 1) = Going(Mode)
    <2>1. Leaving /\ \A j \in Listed(c) : j <= 1
      BY <1>0, <1>1, <1>4, <1>7, Phases DEF BoxTrue
    <2>2. Listed(c) = {1}
      <3>1. \A j \in Listed(c) : j \in Nat /\ j >= 1
        BY DEF CalmInv, TypeOK, NetTypeOK, Listed
      <3>2. \A j \in Listed(c) : j = 1 BY <2>1, <3>1
      <3> QED BY <1>1, <3>2
    <2>3. ~ \E w \in Workers : worker[w].pc = "send"
      BY <1>0, <2>1, Phases DEF CalmInv, Threads, WorkerTrue, Leaving
    <2>4. View(c) = Base(Mode)
      BY <1>0, <1>4, <1>5, <1>7, <2>2, <2>3, Phases DEF BoxTrue
    <2>5. CASE Mode = INTERMEDIATE
      <3>1. Signal(c, 1) = INTERMEDIATE /\ View(c) = NORMAL
        BY <1>7, <2>4, <2>5 DEF Going, Base
      <3>2. EnterIntermediate(c, X)
        BY <1>2, <3>1 DEF SetState, View, NORMAL, WAIT_DEGRADED
      <3>3. cState' = [cState EXCEPT ![c][X] = Signal(c, 1)]
        BY <3>1, <3>2 DEF EnterIntermediate
      <3> QED BY <1>0, <1>3, <1>7, <2>1, <2>2, <2>4, <2>5, <3>2, <3>3 DEF View
    <2>6. CASE Mode # INTERMEDIATE
      <3>1. Mode = COORDINATED /\ Signal(c, 1) = COORDINATED /\ View(c) = DEGRADED
        BY <1>0, <1>7, <2>1, <2>4, <2>6 DEF Leaving, Going, Base, CoordStates, NORMAL, COORDINATED,
           INTERMEDIATE, DEGRADED
      <3>2. /\ cState' = [cState EXCEPT ![c][X] = Signal(c, 1)]
            /\ UNCHANGED transitInfo
        BY <1>2, <3>1 DEF SetState, View, DEGRADED, COORDINATED, INTERMEDIATE, WAIT_DEGRADED,
           WAIT_NORMAL
      <3> QED BY <1>0, <1>3, <1>7, <2>1, <2>2, <2>4, <2>6, <3>2 DEF View
    <2> QED BY <2>5, <2>6
  <1> QED BY <1>0, <1>1, <1>4, <1>6, <1>7 DEF BoxTrue

-----------------------------------------------------------------------------
(* The steps that the setting leaves.                                      *)
DispatcherSteps(d) ==
    \/ \E start, isCrashed \in BOOLEAN : SwitchPhase(d, {X}, start, isCrashed)
    \/ InitServer(d, X) \/ InitCompose(d) \/ InitSend(d) \/ InsertEvent(d, X) \/ InitDone(d)

(* Nobody joins or leaves, no multicast fails, no thread wakes by itself.  *)
LEMMA CalmSteps ==
    ASSUME Calm, CalmInv, [Next]_vars
    PROVE  \/ UNCHANGED vars
           \/ /\ UNCHANGED <<clientVars, status>>
              /\ \/ \E d \in Dispatchers : DispatcherSteps(d)
                 \/ \E w \in Workers : WorkerStep(w)
                 \/ \E c \in Clients : UpdateState(c, X)
                 \/ SignalAcked
           \/ /\ UNCHANGED <<coordVars, status>>
              /\ \E c \in Clients :
                    Quietly(c) \/ NextMessage(c) \/ \E s \in Servers : SetState(c, s)
           \/ \E c \in Clients, s \in Servers : SyncMetadata(c, s)
  <1>0. X \in Servers /\ Switchable = {X} BY Switched
  <1>1. ASSUME CoordStep, UNCHANGED clientVars
        PROVE  /\ UNCHANGED <<clientVars, status>>
               /\ \/ \E d \in Dispatchers : DispatcherSteps(d)
                  \/ \E w \in Workers : WorkerStep(w)
                  \/ \E c \in Clients : UpdateState(c, X)
                  \/ SignalAcked
    <2>1. ASSUME NEW d \in Dispatchers, DispatcherStep(d) PROVE DispatcherSteps(d) /\ UNCHANGED status
      <3>1. \A s \in dispatcher[d].todo \cup dispatcher[d].checked : s = X
        BY DEF CalmInv, Quiet
      <3>2. DispatcherSteps(d)
        BY <2>1, <3>1 DEF DispatcherStep, DispatcherSteps, InitServer, InsertEvent
      <3> QED BY <2>1, <3>2 DEF DispatcherStep, InitServer, InitCompose, InitSend, InsertEvent,
                 InitDone, netVars
    <2>2. ASSUME NEW w \in Workers, WorkerStep(w) PROVE UNCHANGED status
      BY <2>2 DEF WorkerStep, ExtractEvent, TransitToDegradedEnd, CheckAck,
         CondWait, Commit, TransitToNormalEnd, WorkerSend, netVars
    <2>3. ASSUME ReaderStep
          PROVE  UNCHANGED status /\ (SignalAcked \/ \E c \in Clients : UpdateState(c, X))
      <3>1. ASSUME NEW c \in Clients, coordBox[c] # <<>>
            PROVE  Head(coordBox[c]) = AckMsg(Mode)
        BY <3>1 DEF CalmInv, Acks, AckTrue
      <3>2. ASSUME NEW c \in Clients, NEW s \in Servers, UpdateState(c, s)
            PROVE  s = X
        BY <3>1, <3>2 DEF UpdateState, AckMsg
      <3>3. ASSUME NEW c \in Clients, AddAliveClient(c) \/ RemoveAliveClient(c)
            PROVE  FALSE
        BY <3>1, <3>3 DEF AddAliveClient, RemoveAliveClient, AckMsg
      <3>4. ~EraseAck /\ ~ReaderSend
        BY DEF EraseAck, ReaderSend, CalmInv, Group
      <3>5. SignalAcked \/ \E c \in Clients : UpdateState(c, X)
        BY <2>3, <3>2, <3>3, <3>4 DEF ReaderStep
      <3> QED BY <3>5 DEF SignalAcked, UpdateState, netVars
    <2>4. ASSUME CoordEnvironment
          PROVE  UNCHANGED status /\ \E d \in Dispatchers : DispatcherSteps(d)
      <3>1. ~ServerJoined
        <4>1. serverJoins \in Nat /\ MaxServerJoins = 0
          BY DEF CalmInv, TypeOK, CoordTypeOK, Calm
        <4>2. ~(serverJoins < MaxServerJoins) BY <4>1
        <4> QED BY <4>2 DEF ServerJoined
      <3>2. ASSUME NEW d \in Dispatchers PROVE ~InitSendFails(d)
        <4>1. sendFailures \in Nat /\ MaxSendFailures = 0
          BY DEF CalmInv, TypeOK, CoordTypeOK, Calm
        <4>2. ~(sendFailures < MaxSendFailures) BY <4>1
        <4> QED BY <4>2 DEF InitSendFails
      <3>3. ASSUME NEW w \in Workers PROVE ~SpuriousWakeup(w)
        BY DEF SpuriousWakeup, Calm
      <3>4. ASSUME NEW S \in (SUBSET Switchable) \ {{}} PROVE S = {X}
        <4>1. S # {} OBVIOUS
        <4>2. \A s \in S : s = X BY <1>0, <3>4
        <4> QED BY <4>1, <4>2
      <3>5. ASSUME NEW d \in Dispatchers, NEW S \in (SUBSET Switchable) \ {{}},
                   NEW start \in BOOLEAN, NEW isCrashed \in BOOLEAN,
                   SwitchPhase(d, S, start, isCrashed)
            PROVE  DispatcherSteps(d) /\ UNCHANGED status
        <4>1. SwitchPhase(d, {X}, start, isCrashed) BY <3>4, <3>5
        <4> QED BY <3>5, <4>1 DEF DispatcherSteps, SwitchPhase, netVars
      <3> QED BY <2>4, <3>1, <3>2, <3>3, <3>5 DEF CoordEnvironment
    <2> QED BY <1>1, <2>1, <2>2, <2>3, <2>4 DEF CoordStep
  <1>2. ASSUME ClientStep, UNCHANGED coordVars
        PROVE  /\ UNCHANGED <<coordVars, status>>
               /\ \E c \in Clients :
                    Quietly(c) \/ NextMessage(c) \/ \E s \in Servers : SetState(c, s)
    <2>1. ASSUME NEW c \in Clients PROVE ~Join(c) /\ ~Leave(c)
      <3>1. status[c] = "up" BY DEF CalmInv, Group
      <3>2. Cardinality({x \in Clients : status[x] = "gone"}) \in Nat BY CardType
      <3>3. ~(Cardinality({x \in Clients : status[x] = "gone"}) < MaxLeaves)
        BY <3>2 DEF Calm
      <3> QED BY <3>1, <3>3 DEF Join, Leave
    <2>2. PICK c \in Clients :
            Quietly(c) \/ NextMessage(c) \/ \E s \in Servers : SetState(c, s)
      BY <1>2, <2>1, AfterSetStateQuiet, OthersQuiet DEF ClientStep, ClientReaderStep, ClientEnvironment
    <2>3. UNCHANGED status
      BY <2>2 DEF Quietly, NextMessage, SetState
    <2> QED BY <1>2, <2>2, <2>3
  <1> QED BY <1>1, <1>2 DEF Next

-----------------------------------------------------------------------------
(* Steps that leave a part of the state alone.                             *)
LEMMA BoxesKept ==
    ASSUME Boxes, UNCHANGED <<clientBox, cState>>, Mode' = Mode, Leaving => Told',
           \A w \in Workers : worker[w].pc = "send" => worker'[w].pc = "send"
    PROVE  Boxes'
  <1>1. Leaving => Leaving' BY DEF Leaving
  <1>2. ASSUME NEW c \in Clients PROVE BoxTrue(c)'
    <2>1. BoxTrue(c) BY DEF Boxes
    <2>2. Listed(c)' = Listed(c) /\ View(c)' = View(c) /\ \A i : Signal(c, i)' = Signal(c, i)
      BY DEF Listed, View, Signal
    <2> QED BY <1>1, <2>1, <2>2 DEF BoxTrue
  <1> QED BY <1>2 DEF Boxes

(* The acknowledgements stay true, unless a worker goes on too early.      *)
LEMMA AcksKept ==
    ASSUME Acks, UNCHANGED <<coordBox, cState>>, Mode' = Mode, ackClients'[X] = ackClients[X],
           \A w \in Workers : worker'[w].pc \in {"commit", "normalEnd"} =>
                worker[w].pc \in {"commit", "normalEnd"} \/ ackClients[X] = Clients
    PROVE  Acks'
  <1>1. ASSUME NEW c \in Clients PROVE AckTrue(c)'
    BY DEF Acks, AckTrue, View, AckMsg
  <1> QED BY <1>1 DEF Acks

(* No worker begins to send.                                               *)
LEMMA WorkersTrueKept ==
    ASSUME Threads, Mode' = Mode,
           \A w \in Workers : worker'[w].pc = "send" => worker'[w] = worker[w]
    PROVE  \A w \in Workers : WorkerTrue(w)'
  BY DEF Threads, WorkerTrue, Current

(* The dispatchers and the state stay as they are.                         *)
LEMMA DispatchersTrueKept ==
    ASSUME Threads, Mode' = Mode, UNCHANGED <<dispatcher, crashedServers>>
    PROVE  \A d \in Dispatchers : DispatcherTrue(d)'
  BY DEF Threads, DispatcherTrue, Current, Stuck

(* The clients read nothing and are sent nothing.                          *)
LEMMA QuietClientsKept ==
    ASSUME QuietClients, UNCHANGED <<clientBox, cState>>
    PROVE  QuietClients'
  BY DEF QuietClients

(* The parts of the invariant that a step of the coordinator may change.   *)
CalmParts == Group /\ Quiet /\ QuietClients /\ Threads /\ Boxes /\ Acks

(* Taking up a SWITCH_PHASE event.                                         *)
LEMMA SwitchPhaseCalm ==
    ASSUME Calm, CalmInv, NEW d \in Dispatchers, NEW start \in BOOLEAN, NEW isCrashed \in BOOLEAN,
           SwitchPhase(d, {X}, start, isCrashed), UNCHANGED <<clientVars, status>>
    PROVE  CalmParts'
  <1> USE DEF CalmInv
  <1> DEFINE new == [IdleDispatcher EXCEPT
                !.pc = "init", !.start = start,
                !.todo = IF start THEN {X} ELSE {X} \ crashedServers]
  <1>1. /\ new.pc = "init" /\ new.checked = {} /\ new.start = start /\ new.msg = NoRecords
        /\ new.todo = IF start THEN {X} ELSE {X} \ crashedServers
    BY DEF IdleDispatcher
  <1>2. /\ dispatcher' = [dispatcher EXCEPT ![d] = new]
        /\ UNCHANGED <<serversState, ackVars, eventQueue, worker, reader, sendFailures, netVars>>
        /\ Mode = Origin(start)
        /\ ~start => UNCHANGED crashedServers
    BY DEF SwitchPhase, Calm, Mode
  <1> HIDE DEF new
  <1>3. \A e \in Dispatchers : e = d /\ dispatcher'[e] = new
    BY <1>2 DEF TypeOK, CoordTypeOK, Calm
  <1>4. Mode' = Mode /\ UNCHANGED <<cState, clientBox, coordBox, ackClients, aliveClients>>
    BY <1>2 DEF Mode, clientVars, netVars, ackVars
  <1>5. Group' BY <1>2, <1>4 DEF Group
  <1>6. Quiet'
    <2>1. \A e \in Dispatchers : /\ dispatcher'[e].todo \subseteq {X}
                                 /\ dispatcher'[e].checked \subseteq {X}
                                 /\ Silent(dispatcher'[e].msg)
      BY <1>1, <1>3, NoRecordsSilent
    <2> QED BY <1>2, <2>1 DEF Quiet
  <1>7. QuietClients' BY <1>4, QuietClientsKept
  <1>8. Threads'
    <2>1. DispatcherTrue(d)'
      <3>1. dispatcher'[d] = new BY <1>3
      <3>2. CASE start
        BY <1>1, <1>2, <1>4, <3>1, <3>2 DEF DispatcherTrue
      <3>3. CASE ~start
        <4>1. UNCHANGED crashedServers BY <1>2, <3>3
        <4>2. Mode = DEGRADED BY <1>2, <3>3 DEF Origin
        <4>3. CASE X \in crashedServers
          <5>1. new.todo = {} BY <1>1, <3>3, <4>3
          <5> QED BY <1>1, <1>4, <3>1, <4>1, <4>2, <4>3, <5>1 DEF DispatcherTrue, Stuck
        <4>4. CASE X \notin crashedServers
          <5>1. new.todo = {X} BY <1>1, <3>3, <4>4
          <5> QED BY <1>1, <1>2, <1>4, <3>1, <4>1, <4>4, <5>1 DEF DispatcherTrue
        <4> QED BY <4>3, <4>4
      <3> QED BY <3>2, <3>3
    <2>2. \A w \in Workers : WorkerTrue(w)'
      BY <1>2, <1>4, WorkersTrueKept
    <2> QED BY <1>3, <2>1, <2>2 DEF Threads
  <1>9. Boxes'
    <2>1. Told' BY <1>1, <1>3 DEF Told
    <2> QED BY <1>2, <1>4, <2>1, BoxesKept
  <1>10. Acks' BY <1>2, <1>4, AcksKept
  <1> QED BY <1>5, <1>6, <1>7, <1>8, <1>9, <1>10 DEF CalmParts

(* The loop of stateChangeInitHandler sets the state of the server: what   *)
(* it finds is the state the switch starts from, no worker is about to     *)
(* send, and the clients will be told.                                     *)
LEMMA InitServerCalm ==
    ASSUME Calm, CalmInv, NEW d \in Dispatchers, InitServer(d, X), UNCHANGED <<clientVars, status>>
    PROVE  /\ CalmParts'
           /\ Mode = Origin(dispatcher[d].start)
           /\ serversState' = [serversState EXCEPT ![X] = Transient(dispatcher[d].start)]
  <1> USE DEF CalmInv
  <1> DEFINE start == dispatcher[d].start
  <1>0. X \in Servers /\ Mode \in CoordStates BY Switched, ModeType
  <1>1. /\ dispatcher[d].pc = "init" /\ X \in dispatcher[d].todo
        /\ ~StateLocked(X)
        /\ UNCHANGED <<aliveClients, metaVars, eventQueue, worker, reader, boundVars, netVars>>
    BY DEF InitServer
  <1>2. /\ dispatcher[d].todo = {X} /\ dispatcher[d].checked = {}
        /\ Mode = Origin(start)
    BY <1>1 DEF Threads, DispatcherTrue
  <1>3. /\ serversState' = [serversState EXCEPT ![X] = Transient(start)]
        /\ ackClients' = [ackClients EXCEPT ![X] = {}]
        /\ dispatcher' = [dispatcher EXCEPT ![d].todo = @ \ {X}, ![d].checked = @ \cup {X}]
    BY <1>2 DEF InitServer, Mode
  <1>4. dispatcher[d] \in DispatcherState /\ dispatcher \in [Dispatchers -> DispatcherState]
    BY DEF TypeOK, CoordTypeOK
  <1>5. /\ dispatcher'[d].pc = "init" /\ dispatcher'[d].todo = {} /\ dispatcher'[d].checked = {X}
        /\ dispatcher'[d].msg = dispatcher[d].msg
        /\ \A e \in Dispatchers : e = d
    BY <1>1, <1>2, <1>3, <1>4 DEF DispatcherState, Calm
  <1>6. /\ Mode' = Transient(start)
        /\ \A s \in Servers \ {X} : serversState'[s] = serversState[s]
        /\ ackClients'[X] = {}
    BY <1>0, <1>3 DEF TypeOK, CoordTypeOK, Mode
  <1>7. start \in BOOLEAN BY <1>4 DEF DispatcherState
  <1>8. /\ Mode' = Going(Mode') /\ Mode = Base(Mode) /\ Mode # Going(Mode)
        /\ Base(Mode') = Base(Mode) /\ Going(Mode') = Going(Mode)
        /\ WaitIn(Mode') = WaitIn(Mode) /\ WaitOut(Mode') = WaitOut(Mode)
    BY <1>2, <1>6, <1>7 DEF Origin, Transient, Base, Going, WaitIn, WaitOut,
       NORMAL, INTERMEDIATE, DEGRADED, COORDINATED
  <1>9. \A w \in Workers : worker[w].pc # "send"
    BY <1>1 DEF StateLocked, Quiet
  <1>10. UNCHANGED <<cState, clientBox, coordBox, aliveClients>>
    BY <1>1 DEF clientVars, netVars
  <1>11. Group' BY <1>1, <1>10 DEF Group, boundVars
  <1>12. Quiet' BY <1>1, <1>5, <1>6 DEF Quiet
  <1>13. QuietClients' BY <1>10, QuietClientsKept
  <1>14. Threads'
    BY <1>1, <1>5, <1>9 DEF Threads, DispatcherTrue, WorkerTrue
  <1>15. Boxes'
    <2> SUFFICES ASSUME NEW c \in Clients PROVE BoxTrue(c)'
      BY DEF Boxes
    <2>1. BoxTrue(c) BY DEF Boxes
    <2>2. Listed(c)' = Listed(c) /\ View(c)' = View(c) /\ \A i : Signal(c, i)' = Signal(c, i)
      BY <1>10 DEF Listed, View, Signal
    <2>3. ~Leaving BY <1>8 DEF Leaving
    <2> QED BY <1>1, <1>8, <2>1, <2>2, <2>3 DEF BoxTrue
  <1>16. Acks'
    <2>1. ASSUME NEW c \in Clients PROVE AckTrue(c)'
      <3>1. View(c) # WaitOut(Mode)
        BY <1>8 DEF Boxes, BoxTrue, Leaving
      <3>2. coordBox[c] = <<>> BY <3>1 DEF Acks, AckTrue
      <3> QED BY <1>6, <1>10, <3>2 DEF AckTrue
    <2>2. ASSUME NEW w \in Workers PROVE worker[w].pc \notin {"commit", "normalEnd"}
      <3>1. Active(w) => Mode = Transient(worker[w].start) /\ worker[w].start \in BOOLEAN
        BY DEF HolderInv, HoldersAgree, Quiet, Active, Mode, TypeOK, CoordTypeOK, WorkerState
      <3> QED BY <1>2, <1>7, <3>1, TransientStates DEF Active
    <2> QED BY <1>1, <2>1, <2>2 DEF Acks
  <1> QED BY <1>2, <1>3, <1>11, <1>12, <1>13, <1>14, <1>15, <1>16 DEF CalmParts

(* A multicast of the state of X, when no client has been told to leave    *)
(* the phase yet: it is the last message of every client.                  *)
LEMMA MulticastCalm ==
    ASSUME Calm, CalmInv, NEW msg \in Records(CoordStates), Multicast(msg),
           Silent(msg), Current(msg), UNCHANGED cState, Mode' = Mode,
           Mode = Going(Mode) => ~Told /\ Told' /\ UNCHANGED worker
    PROVE  QuietClients' /\ Boxes'
  <1> USE DEF CalmInv
  <1>0. Mode \in CoordStates BY ModeType
  <1>1. ~Leaving BY DEF Leaving
  <1>2. ASSUME NEW c \in Clients
        PROVE  BoxTrue(c)' /\ \A i \in DOMAIN clientBox'[c] : Silent(clientBox'[c][i])
    <2> DEFINE b == clientBox[c]
    <2>1. clientBox'[c] = Append(b, msg)
      BY DEF Multicast, Members, Group
    <2>2. b \in Seq(Records(CoordStates)) BY DEF TypeOK, NetTypeOK
    <2> HIDE DEF b
    <2>3. PICK n \in Nat :
            /\ DOMAIN clientBox'[c] = DOMAIN b \cup {n}
            /\ \A i \in DOMAIN b : clientBox'[c][i] = b[i] /\ i <= n
            /\ clientBox'[c][n] = msg /\ n <= n /\ n \notin DOMAIN b
      <3> DEFINE m == Len(b) + 1
      <3>1. /\ DOMAIN clientBox'[c] = DOMAIN b \cup {m}
            /\ \A i \in DOMAIN b : clientBox'[c][i] = b[i] /\ i <= m
            /\ clientBox'[c][m] = msg /\ m <= m /\ m \notin DOMAIN b
            /\ m \in Nat
        BY <2>1, <2>2
      <3> QED BY <3>1
    <2>4. \A i \in DOMAIN clientBox'[c] : Silent(clientBox'[c][i])
      BY <2>3 DEF QuietClients, b
    <2>5. /\ Listed(c)' = Listed(c) \cup {n}
          /\ \A i \in Listed(c) : Signal(c, i)' = Signal(c, i) /\ i <= n
          /\ Signal(c, n)' = Mode
      <3>1. ASSUME NEW i PROVE i \in Listed(c)' <=> i \in Listed(c) \cup {n}
        BY <2>3 DEF Listed, Current, b
      <3>2. ASSUME NEW i \in Listed(c) PROVE Signal(c, i)' = Signal(c, i) /\ i <= n
        BY <2>3 DEF Listed, Signal, b
      <3>3. Signal(c, n)' = Mode BY <2>3 DEF Signal, Current
      <3> QED BY <3>1, <3>2, <3>3
    <2>6. BoxTrue(c) /\ View(c)' = View(c) BY DEF Boxes, View
    <2>7. \A i \in Listed(c) : Signal(c, i) = Base(Mode)
      BY <1>1, <2>6 DEF BoxTrue
    <2>8. View(c)' \notin {Going(Mode'), WaitOut(Mode')}
      BY <1>1, <2>6 DEF BoxTrue
    <2>9. Mode = Going(Mode) => Leaving' BY DEF Leaving
    <2>10. \A i \in Listed(c)' :
            \/ Signal(c, i)' = Base(Mode')
            \/ Signal(c, i)' = Going(Mode') /\ Leaving' /\ \A j \in Listed(c)' : j <= i
      <3>1. Mode = Base(Mode) \/ Mode = Going(Mode) BY <1>0, Phases
      <3>2. \A i \in Listed(c) : Signal(c, i)' = Base(Mode') BY <2>5, <2>7
      <3>3. \A j \in Listed(c)' : j <= n BY <2>3, <2>5
      <3>4. \/ Signal(c, n)' = Base(Mode')
            \/ Signal(c, n)' = Going(Mode') /\ Leaving' /\ \A j \in Listed(c)' : j <= n
        BY <2>5, <2>9, <3>1, <3>3
      <3> QED BY <2>5, <3>2, <3>4
    <2>11. View(c)' = WaitIn(Mode') =>
            \/ \E i \in Listed(c)' : Signal(c, i)' = Base(Mode')
            \/ \E w \in Workers : worker'[w].pc = "send"
      <3>1. CASE Mode = Base(Mode)
        <4>1. n \in Listed(c)' /\ Signal(c, n)' = Base(Mode') BY <2>5, <3>1
        <4> QED BY <4>1
      <3>2. CASE Mode = Going(Mode)
        <4>1. \A i \in Listed(c) : i \in Listed(c)' /\ Signal(c, i)' = Signal(c, i) BY <2>5
        <4>2. UNCHANGED worker BY <3>2
        <4> QED BY <2>6, <4>1, <4>2 DEF BoxTrue
      <3> QED BY <1>0, <3>1, <3>2, Phases
    <2>12. View(c)' \in {Base(Mode'), Going(Mode'), WaitIn(Mode'), WaitOut(Mode')}
      BY <2>6 DEF BoxTrue
    <2> QED BY <2>4, <2>8, <2>10, <2>11, <2>12 DEF BoxTrue
  <1> QED BY <1>2 DEF QuietClients, Boxes

(* The broadcast of stateChangeInitHandler, and the insertion of events.   *)
LEMMA InitComposeCalm ==
    ASSUME Calm, CalmInv, NEW d \in Dispatchers, InitCompose(d), UNCHANGED <<clientVars, status>>
    PROVE  CalmParts'
  <1> USE DEF CalmInv
  <1> DEFINE msg == Compose(serversState, dispatcher[d].checked)
  <1>1. /\ dispatcher[d].pc = "init" /\ dispatcher[d].todo = {}
        /\ dispatcher' = [dispatcher EXCEPT ![d].pc = "send", ![d].msg = msg]
        /\ UNCHANGED <<serversState, ackVars, metaVars, eventQueue, worker, reader, boundVars, netVars>>
    BY DEF InitCompose
  <1>2. Silent(msg) /\ X \in DOMAIN msg /\ msg[X] = Mode
    BY ComposeEffect DEF Quiet, Mode, TypeOK, CoordTypeOK
  <1> HIDE DEF msg
  <1>3. dispatcher[d] \in DispatcherState /\ dispatcher \in [Dispatchers -> DispatcherState]
    BY DEF TypeOK, CoordTypeOK
  <1>4. /\ dispatcher'[d].pc = "send" /\ dispatcher'[d].todo = {} /\ dispatcher'[d].msg = msg
        /\ dispatcher'[d].checked = dispatcher[d].checked
        /\ \A e \in Dispatchers : e = d
    BY <1>1, <1>3 DEF DispatcherState, Calm
  <1>5. Mode' = Mode /\ UNCHANGED <<cState, clientBox, coordBox, ackClients, aliveClients,
                                    sendFailures, crashedServers>>
    BY <1>1 DEF Mode, clientVars, netVars, ackVars, boundVars, metaVars
  <1>6. Group' BY <1>1, <1>5 DEF Group
  <1>7. Quiet' BY <1>1, <1>2, <1>4 DEF Quiet
  <1>8. QuietClients' BY <1>5, QuietClientsKept
  <1>9. Threads'
    <2>1. DispatcherTrue(d)'
      BY <1>1, <1>2, <1>4, <1>5 DEF Threads, DispatcherTrue, Current, Stuck
    <2>2. \A w \in Workers : WorkerTrue(w)' BY <1>1, <1>5, WorkersTrueKept
    <2> QED BY <1>4, <2>1, <2>2 DEF Threads
  <1>10. Boxes'
    <2>1. Leaving => Told' BY <1>1, <1>4 DEF Leaving, Told
    <2> QED BY <1>1, <1>5, <2>1, BoxesKept
  <1>11. Acks' BY <1>1, <1>5, AcksKept
  <1> QED BY <1>6, <1>7, <1>8, <1>9, <1>10, <1>11 DEF CalmParts

(* The clients are told to leave the phase.                                *)
LEMMA InitSendCalm ==
    ASSUME Calm, CalmInv, NEW d \in Dispatchers, InitSend(d), UNCHANGED <<clientVars, status>>
    PROVE  CalmParts'
  <1> USE DEF CalmInv
  <1>1. /\ dispatcher[d].pc = "send"
        /\ Multicast(dispatcher[d].msg)
        /\ dispatcher' = [dispatcher EXCEPT ![d].pc = "insert", ![d].msg = NoRecords]
        /\ UNCHANGED <<serversState, ackVars, metaVars, eventQueue, worker, reader, boundVars, coordBox>>
    BY DEF InitSend
  <1>3. dispatcher[d] \in DispatcherState /\ dispatcher \in [Dispatchers -> DispatcherState]
    BY DEF TypeOK, CoordTypeOK
  <1>4. /\ dispatcher'[d].pc = "insert" /\ dispatcher'[d].todo = dispatcher[d].todo
        /\ dispatcher'[d].msg = NoRecords
        /\ dispatcher'[d].checked = dispatcher[d].checked
        /\ \A e \in Dispatchers : e = d
        /\ dispatcher[d].msg \in Records(CoordStates)
    BY <1>1, <1>3 DEF DispatcherState, Calm
  <1>5. Mode' = Mode /\ UNCHANGED <<cState, ackClients, aliveClients, sendFailures>>
    BY <1>1 DEF Mode, clientVars, ackVars, boundVars
  <1>6. Group' BY <1>1, <1>5 DEF Group
  <1>7. Quiet' BY <1>1, <1>4, NoRecordsSilent DEF Quiet
  <1>8. Silent(dispatcher[d].msg) /\ Current(dispatcher[d].msg)
            /\ (dispatcher[d].checked = {X} \/ Stuck)
    BY <1>1 DEF Quiet, Threads, DispatcherTrue
  <1>9. Mode = Going(Mode) => ~Told /\ Told'
    <2>1. Mode = Going(Mode) => ~Stuck
      BY DEF Stuck, Going, NORMAL, INTERMEDIATE, COORDINATED, DEGRADED
    <2> QED BY <1>1, <1>4, <1>8, <2>1 DEF Told
  <1>10. QuietClients' /\ Boxes'
    BY <1>1, <1>4, <1>5, <1>8, <1>9, MulticastCalm
  <1>11. Threads'
    <2>1. DispatcherTrue(d)' BY <1>4 DEF DispatcherTrue
    <2>2. \A w \in Workers : WorkerTrue(w)' BY <1>1, <1>5, WorkersTrueKept
    <2> QED BY <1>4, <2>1, <2>2 DEF Threads
  <1>12. Acks' BY <1>1, <1>5, AcksKept
  <1> QED BY <1>6, <1>7, <1>10, <1>11, <1>12 DEF CalmParts

(* The event is inserted, or the handler returns.                          *)
LEMMA InsertCalm ==
    ASSUME Calm, CalmInv, NEW d \in Dispatchers, InsertEvent(d, X) \/ InitDone(d),
           UNCHANGED <<clientVars, status>>
    PROVE  CalmParts'
  <1> USE DEF CalmInv
  <1>0. X \in Servers BY Switched
  <1>1. UNCHANGED <<serversState, ackVars, metaVars, worker, reader, boundVars, netVars>>
    BY DEF InsertEvent, InitDone
  <1>3. dispatcher[d] \in DispatcherState /\ dispatcher \in [Dispatchers -> DispatcherState]
    BY DEF TypeOK, CoordTypeOK
  <1>4. /\ dispatcher'[d].pc \in {"insert", "idle"} /\ dispatcher'[d].todo \subseteq {X}
        /\ Silent(dispatcher'[d].msg)
        /\ dispatcher'[d].checked = {}
        /\ \A e \in Dispatchers : e = d
    <2>1. CASE InsertEvent(d, X)
      <3>1. /\ dispatcher[d].pc = "insert" /\ X \in dispatcher[d].checked
            /\ dispatcher' = [dispatcher EXCEPT ![d].checked = @ \ {X}]
        BY <2>1 DEF InsertEvent
      <3> QED BY <1>3, <3>1 DEF DispatcherState, Calm, Quiet
    <2>2. CASE InitDone(d)
      <3>1. dispatcher'[d] = IdleDispatcher BY <1>3, <2>2 DEF InitDone
      <3> QED BY <3>1, NoRecordsSilent DEF IdleDispatcher, Calm
    <2> QED BY <2>1, <2>2
  <1>5. Mode' = Mode /\ UNCHANGED <<cState, clientBox, coordBox, ackClients, aliveClients, sendFailures>>
    BY <1>1 DEF Mode, clientVars, netVars, ackVars, boundVars
  <1>6. Group' BY <1>1, <1>5 DEF Group
  <1>7. Quiet'
    <2>1. \A i \in DOMAIN eventQueue' : eventQueue'[i].server = X
      <3>1. CASE InsertEvent(d, X)
        <4> DEFINE n == Len(eventQueue) + 1
        <4>1. /\ DOMAIN eventQueue' = DOMAIN eventQueue \cup {n}
              /\ \A i \in DOMAIN eventQueue : eventQueue'[i] = eventQueue[i]
              /\ eventQueue'[n] = [server |-> X, start |-> dispatcher[d].start]
          BY <1>0, <3>1, InsertEventEffect
        <4> HIDE DEF n
        <4>2. eventQueue'[n].server = X BY <4>1
        <4> QED BY <4>1, <4>2 DEF Quiet
      <3>2. CASE InitDone(d)
        BY <3>2 DEF InitDone, Quiet
      <3> QED BY <3>1, <3>2
    <2> QED BY <1>1, <1>4, <2>1 DEF Quiet
  <1>8. QuietClients' BY <1>5, QuietClientsKept
  <1>9. Threads'
    <2>1. DispatcherTrue(d)' BY <1>4 DEF DispatcherTrue
    <2>2. \A w \in Workers : WorkerTrue(w)' BY <1>1, <1>5, WorkersTrueKept
    <2> QED BY <1>4, <2>1, <2>2 DEF Threads
  <1>10. Boxes'
    <2>1. Told' BY <1>4 DEF Told
    <2> QED BY <1>1, <1>5, <2>1, BoxesKept
  <1>11. Acks' BY <1>1, <1>5, AcksKept
  <1> QED BY <1>6, <1>7, <1>8, <1>9, <1>10, <1>11 DEF CalmParts

-----------------------------------------------------------------------------
(* A worker at work finds the server on its way, nobody else holds it, and *)
(* no thread is about to send.                                             *)
LEMMA AtWork ==
    ASSUME Calm, CalmInv, NEW w \in Workers, Active(w)
    PROVE  /\ worker[w].server = X /\ worker[w].start \in BOOLEAN
           /\ Mode = Transient(worker[w].start) /\ Mode = Going(Mode)
           /\ Mode = IF worker[w].start THEN INTERMEDIATE ELSE COORDINATED
           /\ \A d \in Dispatchers : /\ X \notin dispatcher[d].checked
                                     /\ dispatcher[d].pc \notin {"init", "send"}
           /\ \A v \in Workers : worker[v].pc # "send" /\ (Active(v) => v = w)
  <1> USE DEF CalmInv
  <1>1. worker[w].server = X /\ worker[w].start \in BOOLEAN
    BY DEF Quiet, Active, TypeOK, CoordTypeOK, WorkerState
  <1>2. Mode = Transient(worker[w].start)
    BY <1>1 DEF HolderInv, HoldersAgree, Mode
  <1>3. Mode = Going(Mode) /\ Mode = IF worker[w].start THEN INTERMEDIATE ELSE COORDINATED
    BY <1>1, <1>2 DEF Transient, Going, NORMAL, INTERMEDIATE, COORDINATED
  <1>4. \A d \in Dispatchers : X \notin dispatcher[d].checked
    BY <1>1 DEF HolderInv, HoldersDistinct
  <1>5. ASSUME NEW d \in Dispatchers PROVE dispatcher[d].pc \notin {"init", "send"}
    <2>1. Mode \notin {NORMAL, DEGRADED} BY <1>1, <1>2, TransientStates
    <2>2. ~Stuck BY <2>1 DEF Stuck
    <2>3. Mode # Origin(dispatcher[d].start) BY <2>1 DEF Origin
    <2>4. DispatcherTrue(d) BY DEF Threads
    <2> QED BY <1>4, <2>2, <2>3, <2>4 DEF DispatcherTrue
  <1>6. ASSUME NEW v \in Workers PROVE worker[v].pc # "send"
    BY <1>1, <1>2, TransientStates DEF Threads, WorkerTrue
  <1>7. ASSUME NEW v \in Workers, Active(v) PROVE v = w
    <2>1. worker[v].server = X BY <1>7 DEF Quiet, Active
    <2> QED BY <1>1, <1>7, <2>1 DEF HolderInv, HoldersDistinct
  <1> QED BY <1>1, <1>2, <1>3, <1>4, <1>5, <1>6, <1>7

(* isAllClientAcked compares numbers; all clients are alive.               *)
LEMMA AllAckedMeans ==
    ASSUME Calm, CalmInv, AllAcked(aliveClients, ackClients[X])
    PROVE  ackClients[X] = Clients
  <1>1. ackClients[X] \subseteq Clients
    BY Switched DEF CalmInv, TypeOK, CoordTypeOK
  <1>2. Cardinality(Clients) = Cardinality(ackClients[X])
    BY DEF AllAcked, CalmInv, Group
  <1> QED BY <1>1, <1>2, FS_Subset, NetworkAssumption

(* A worker that goes on from one wait to the next.                        *)
LEMMA WaitingCalm ==
    ASSUME Calm, CalmInv, UNCHANGED <<clientVars, netVars, serversState, ackVars, eventQueue,
                                      dispatcher, crashedServers, sendFailures>>,
           reader'.pc \in {"idle", "signal"},
           \A w \in Workers :
                /\ worker'[w].pc # "idle" => worker[w].pc # "idle"
                /\ worker'[w].server = worker[w].server
                /\ worker'[w].msg = worker[w].msg
                /\ worker'[w].pc = "send" <=> worker[w].pc = "send"
                /\ worker'[w].pc \in {"commit", "normalEnd"} =>
                      worker[w].pc \in {"commit", "normalEnd"} \/ ackClients[X] = Clients
    PROVE  CalmParts'
  <1> USE DEF CalmInv
  <1>1. Mode' = Mode /\ UNCHANGED <<cState, clientBox, coordBox, status, ackClients, aliveClients>>
    BY DEF Mode, clientVars, netVars, ackVars
  <1>2. Group' BY <1>1 DEF Group
  <1>3. Quiet' BY <1>1 DEF Quiet
  <1>4. QuietClients' BY <1>1, QuietClientsKept
  <1>5. Threads'
    <2>1. \A d \in Dispatchers : DispatcherTrue(d)' BY <1>1, DispatchersTrueKept
    <2>2. \A w \in Workers : WorkerTrue(w)'
      BY <1>1 DEF Threads, WorkerTrue, Current
    <2> QED BY <2>1, <2>2 DEF Threads
  <1>6. Boxes'
    <2>1. Leaving => Told' BY DEF Leaving, Told
    <2> QED BY <1>1, <2>1, BoxesKept
  <1>7. Acks' BY <1>1, AcksKept
  <1> QED BY <1>2, <1>3, <1>4, <1>5, <1>6, <1>7 DEF CalmParts

(* The waits of a worker.                                                  *)
LEMMA WorkerWaitCalm ==
    ASSUME Calm, CalmInv, NEW w \in Workers,
           TransitToDegradedEnd(w) \/ CheckAck(w) \/ CondWait(w),
           UNCHANGED <<clientVars, status>>
    PROVE  CalmParts'
  <1> USE DEF CalmInv
  <1>1. /\ UNCHANGED <<netVars, serversState, ackVars, eventQueue, dispatcher,
                       crashedServers, sendFailures, reader>>
        /\ reader.pc \in {"idle", "signal"}
    BY DEF TransitToDegradedEnd, CheckAck, CondWait, metaVars, boundVars, Group
  <1>2. worker \in [Workers -> WorkerState] BY DEF TypeOK, CoordTypeOK
  <1>3. worker[w].pc \in {"metadata", "check", "decided"} /\ worker[w].server = X
    BY DEF TransitToDegradedEnd, CheckAck, CondWait, Quiet
  <1>4. ASSUME NEW v \in Workers
        PROVE  /\ worker'[v].pc # "idle" => worker[v].pc # "idle"
               /\ worker'[v].server = worker[v].server
               /\ worker'[v].msg = worker[v].msg
               /\ worker'[v].pc = "send" <=> worker[v].pc = "send"
               /\ worker'[v].pc \in {"commit", "normalEnd"} =>
                      worker[v].pc \in {"commit", "normalEnd"} \/ ackClients[X] = Clients
    <2>1. worker[v] \in WorkerState BY <1>2
    <2>2. CASE TransitToDegradedEnd(w)
      BY <1>2, <1>3, <2>1, <2>2 DEF TransitToDegradedEnd, WorkerState
    <2>3. CASE CondWait(w)
      BY <1>2, <1>3, <2>1, <2>3 DEF CondWait, WorkerState
    <2>4. CASE CheckAck(w)
      <3>1. CASE AllAcked(aliveClients, ackClients[X])
        <4>1. worker' = [Woken(X) EXCEPT ![w].pc = "commit"]
          BY <1>3, <2>4, <3>1 DEF CheckAck
        <4>2. Woken(X) \in [Workers -> WorkerState] BY WokenType
        <4>3. /\ Woken(X)[v].server = worker[v].server
              /\ Woken(X)[v].msg = worker[v].msg
              /\ Woken(X)[v].pc = worker[v].pc \/ (worker[v].pc = "waiting" /\ Woken(X)[v].pc = "commit")
          BY <2>1 DEF Woken, WorkerState
        <4>4. ackClients[X] = Clients BY <3>1, AllAckedMeans
        <4>5. Woken(X)[v] \in WorkerState BY <4>2
        <4> QED BY <1>3, <4>1, <4>2, <4>3, <4>4, <4>5 DEF WorkerState
      <3>2. CASE ~AllAcked(aliveClients, ackClients[X])
        <4>1. worker' = [worker EXCEPT ![w].pc = "decided"]
          BY <1>3, <2>4, <3>2 DEF CheckAck
        <4> QED BY <1>2, <1>3, <2>1, <4>1 DEF WorkerState
      <3> QED BY <3>1, <3>2
    <2> QED BY <2>2, <2>3, <2>4
  <1> QED BY <1>1, <1>4, WaitingCalm

(* The reader signals the workers that wait.                               *)
LEMMA SignalCalm ==
    ASSUME Calm, CalmInv, SignalAcked, UNCHANGED <<clientVars, status>>
    PROVE  CalmParts'
  <1> USE DEF CalmInv
  <1>1. /\ UNCHANGED <<netVars, serversState, ackVars, eventQueue, dispatcher,
                       crashedServers, sendFailures>>
        /\ reader'.pc \in {"idle", "signal"}
    BY DEF SignalAcked, metaVars, boundVars, IdleReader
  <1>2. worker \in [Workers -> WorkerState] BY DEF TypeOK, CoordTypeOK
  <1>3. ASSUME NEW v \in Workers
        PROVE  /\ worker'[v].pc # "idle" => worker[v].pc # "idle"
               /\ worker'[v].server = worker[v].server
               /\ worker'[v].msg = worker[v].msg
               /\ worker'[v].pc = "send" <=> worker[v].pc = "send"
               /\ worker'[v].pc \in {"commit", "normalEnd"} =>
                      worker[v].pc \in {"commit", "normalEnd"} \/ ackClients[X] = Clients
    <2>1. worker[v] \in WorkerState BY <1>2
    <2>2. CASE worker'[v] = worker[v] BY <2>2
    <2>3. CASE worker'[v] # worker[v]
      <3>1. /\ AllAcked(aliveClients, ackClients[reader.server])
            /\ worker[v].pc = "waiting" /\ worker[v].server = reader.server
            /\ worker'[v] = [worker[v] EXCEPT !.pc = "commit"]
        BY <2>3 DEF SignalAcked, Woken
      <3>2. reader.server = X BY <3>1 DEF Quiet
      <3>3. ackClients[X] = Clients BY <3>1, <3>2, AllAckedMeans
      <3> QED BY <2>1, <3>1, <3>3 DEF WorkerState
    <2> QED BY <2>2, <2>3
  <1> QED BY <1>1, <1>3, WaitingCalm

(* A worker takes an event.                                                *)
LEMMA ExtractCalm ==
    ASSUME Calm, CalmInv, NEW w \in Workers, ExtractEvent(w), UNCHANGED <<clientVars, status>>
    PROVE  CalmParts'
  <1> USE DEF CalmInv
  <1>1. /\ UNCHANGED <<netVars, serversState, ackVars, dispatcher,
                       crashedServers, sendFailures, reader>>
        /\ worker[w].pc = "idle"
    BY DEF ExtractEvent, metaVars, boundVars
  <1>2. worker \in [Workers -> WorkerState] BY DEF TypeOK, CoordTypeOK
  <1>3. /\ worker'[w].pc \in {"metadata", "check"} /\ worker'[w].msg = NoRecords
        /\ \A v \in Workers \ {w} : worker'[v] = worker[v]
    BY <1>2 DEF ExtractEvent
  <1>4. worker'[w].server = X
    BY ExtractEventEffect DEF Quiet
  <1>5. \A i \in DOMAIN eventQueue' : eventQueue'[i].server = X
    BY ExtractEventEffect DEF Quiet
  <1>6. Mode' = Mode /\ UNCHANGED <<cState, clientBox, coordBox, ackClients, aliveClients>>
    BY <1>1 DEF Mode, clientVars, netVars, ackVars
  <1>7. Group' BY <1>1, <1>6 DEF Group
  <1>8. Quiet' BY <1>1, <1>3, <1>4, <1>5, NoRecordsSilent DEF Quiet
  <1>9. QuietClients' BY <1>6, QuietClientsKept
  <1>10. Threads'
    <2>1. \A d \in Dispatchers : DispatcherTrue(d)' BY <1>1, <1>6, DispatchersTrueKept
    <2>2. \A v \in Workers : WorkerTrue(v)'
      BY <1>3, <1>6, WorkersTrueKept
    <2> QED BY <2>1, <2>2 DEF Threads
  <1>11. Boxes'
    <2>1. Leaving => Told' BY <1>1 DEF Leaving, Told
    <2>2. \A v \in Workers : worker[v].pc = "send" => worker'[v].pc = "send" BY <1>1, <1>3
    <2> QED BY <1>6, <2>1, <2>2, BoxesKept
  <1>12. Acks'
    <2>1. \A v \in Workers : worker'[v].pc \in {"commit", "normalEnd"} =>
                worker[v].pc \in {"commit", "normalEnd"}
      BY <1>3
    <2> QED BY <1>6, <2>1, AcksKept
  <1> QED BY <1>7, <1>8, <1>9, <1>10, <1>11, <1>12 DEF CalmParts

(* A worker completes the transition: all clients wait for it, have read   *)
(* all messages, and their acknowledgements are counted.                   *)
Ends(w) ==
    /\ worker[w].pc \in {"commit", "normalEnd"}
    /\ serversState' = [serversState EXCEPT ![X] =
            IF Mode = INTERMEDIATE THEN DEGRADED ELSE NORMAL]
    /\ worker' = [worker EXCEPT ![w].pc = "send", ![w].msg = Compose(serversState', {})]
    /\ UNCHANGED <<clientVars, netVars, ackVars, metaVars, eventQueue, dispatcher, reader, boundVars>>

(* When a worker goes on, every client waits and has nothing to read.      *)
LEMMA AllWait ==
    ASSUME Calm, CalmInv, NEW w \in Workers, worker[w].pc \in {"commit", "normalEnd"},
           NEW c \in Clients
    PROVE  View(c) = WaitOut(Mode) /\ Listed(c) = {} /\ coordBox[c] = <<>>
  <1>1. Mode = Going(Mode) BY AtWork DEF Active
  <1>2. c \in ackClients[X] BY DEF CalmInv, Acks
  <1>3. View(c) = WaitOut(Mode) BY <1>1, <1>2 DEF CalmInv, Acks, AckTrue
  <1> QED BY <1>2, <1>3 DEF CalmInv, Acks, AckTrue, Boxes, BoxTrue

(* The next phase begins with clients that wait to enter it.               *)
LEMMA EndsCalm ==
    ASSUME Calm, CalmInv, NEW w \in Workers, Ends(w)
    PROVE  CalmParts'
  <1> USE DEF CalmInv
  <1> DEFINE st == IF Mode = INTERMEDIATE THEN DEGRADED ELSE NORMAL
  <1>0. X \in Servers /\ Mode \in CoordStates BY Switched, ModeType
  <1>1. /\ Mode = Going(Mode) /\ worker[w].server = X
        /\ \A d \in Dispatchers : X \notin dispatcher[d].checked /\ dispatcher[d].pc \notin {"init", "send"}
        /\ \A v \in Workers : worker[v].pc # "send"
    BY AtWork DEF Active, Ends
  <1>2. /\ serversState' \in [Servers -> CoordStates]
        /\ Mode' = st
        /\ \A s \in Servers \ {X} : serversState'[s] = NORMAL
    BY <1>0 DEF Ends, TypeOK, CoordTypeOK, Mode, Quiet, CoordStates
  <1>3. /\ Mode' = Base(Mode') /\ Mode' \in {NORMAL, DEGRADED}
        /\ WaitIn(Mode') = WaitOut(Mode)
        /\ WaitOut(Mode) \notin {Going(Mode'), WaitOut(Mode')}
        /\ Mode' # Going(Mode')
    BY <1>0, <1>1, <1>2 DEF CoordStates, Base, Going, WaitIn, WaitOut, NORMAL, INTERMEDIATE,
       DEGRADED, COORDINATED, WAIT_NORMAL, WAIT_DEGRADED
  <1> HIDE DEF st
  <1> DEFINE msg == Compose(serversState', {})
  <1>4. Silent(msg) /\ X \in DOMAIN msg /\ msg[X] = Mode'
    BY <1>2, ComposeEffect DEF Mode
  <1>5. worker' = [worker EXCEPT ![w].pc = "send", ![w].msg = msg] BY DEF Ends
  <1> HIDE DEF msg
  <1>6. worker \in [Workers -> WorkerState] /\ worker[w] \in WorkerState
    BY DEF TypeOK, CoordTypeOK
  <1>7. /\ worker'[w].pc = "send" /\ worker'[w].msg = msg /\ worker'[w].server = X
        /\ \A v \in Workers \ {w} : worker'[v] = worker[v]
    BY <1>1, <1>5, <1>6 DEF WorkerState
  <1>8. UNCHANGED <<cState, clientBox, coordBox, status, ackClients, aliveClients, crashedServers,
                    eventQueue, dispatcher, reader, sendFailures>>
    BY DEF Ends, clientVars, netVars, ackVars, metaVars, boundVars
  <1>9. Group' BY <1>8 DEF Group
  <1>10. Quiet' BY <1>2, <1>4, <1>7, <1>8 DEF Quiet
  <1>11. QuietClients' BY <1>8, QuietClientsKept
  <1>12. Threads'
    <2>1. \A d \in Dispatchers : DispatcherTrue(d)' BY <1>1, <1>8 DEF DispatcherTrue
    <2>2. ASSUME NEW v \in Workers PROVE WorkerTrue(v)'
      <3>1. CASE v = w BY <1>3, <1>4, <1>7, <3>1 DEF WorkerTrue, Current
      <3>2. CASE v # w
        <4>1. worker'[v].pc # "send" BY <1>1, <1>7, <3>2
        <4> QED BY <4>1 DEF WorkerTrue
      <3> QED BY <3>1, <3>2
    <2> QED BY <2>1, <2>2 DEF Threads
  <1>13. ASSUME NEW c \in Clients
         PROVE  View(c)' = WaitOut(Mode) /\ Listed(c)' = {} /\ coordBox'[c] = <<>>
    BY <1>8, AllWait DEF Ends, View, Listed
  <1>14. Boxes'
    <2> SUFFICES ASSUME NEW c \in Clients PROVE BoxTrue(c)' BY DEF Boxes
    <2> QED BY <1>3, <1>7, <1>13 DEF BoxTrue
  <1>15. Acks'
    <2>1. \A c \in Clients : AckTrue(c)' BY <1>3, <1>13 DEF AckTrue
    <2>2. ackClients'[X] = Clients BY <1>8 DEF Acks, Ends
    <2> QED BY <2>1, <2>2 DEF Acks
  <1> QED BY <1>9, <1>10, <1>11, <1>12, <1>14, <1>15 DEF CalmParts

(* Commit and transitToNormalEnd: a worker never gives up.                 *)
LEMMA CommitKinds ==
    ASSUME Calm, CalmInv, NEW w \in Workers, Commit(w) \/ TransitToNormalEnd(w),
           UNCHANGED <<clientVars, status>>
    PROVE  \/ Ends(w)
           \/ /\ worker[w].pc = "commit" /\ ~worker[w].start
              /\ worker' = [worker EXCEPT ![w].pc = "normalEnd"]
              /\ UNCHANGED <<serversState, netVars, ackVars, metaVars, eventQueue, dispatcher,
                             reader, boundVars>>
  <1>1. /\ worker[w].server = X /\ worker[w].start \in BOOLEAN
        /\ Mode = Transient(worker[w].start)
        /\ Mode = IF worker[w].start THEN INTERMEDIATE ELSE COORDINATED
    BY AtWork DEF Active, Commit, TransitToNormalEnd
  <1>2. UNCHANGED <<netVars, ackVars, metaVars, eventQueue, dispatcher, reader, boundVars>>
    BY DEF Commit, TransitToNormalEnd
  <1>3. CASE Commit(w) /\ worker[w].start
    <2>1. /\ worker[w].pc = "commit"
          /\ serversState' = [serversState EXCEPT ![X] = DEGRADED]
          /\ worker' = [worker EXCEPT ![w].pc = "send",
                ![w].msg = Compose([serversState EXCEPT ![X] = DEGRADED], {})]
      BY <1>1, <1>3 DEF Commit, Mode
    <2>2. Mode = INTERMEDIATE BY <1>1, <1>3
    <2> QED BY <1>2, <2>1, <2>2 DEF Ends
  <1>4. CASE Commit(w) /\ ~worker[w].start
    <2>1. /\ worker[w].pc = "commit"
          /\ worker' = [worker EXCEPT ![w].pc = "normalEnd"]
          /\ UNCHANGED serversState
      BY <1>1, <1>4 DEF Commit, Mode
    <2> QED BY <1>2, <1>4, <2>1
  <1>5. CASE TransitToNormalEnd(w)
    <2>1. Mode # INTERMEDIATE
      <3>1. Mode \in {INTERMEDIATE, COORDINATED} BY <1>1
      <3>2. worker[w].pc = "normalEnd" BY <1>5 DEF TransitToNormalEnd
      <3> QED BY <1>1, <3>2 DEF CalmInv, Returning, INTERMEDIATE, COORDINATED
    <2>2. /\ worker[w].pc = "normalEnd"
          /\ serversState' = [serversState EXCEPT ![X] = NORMAL]
          /\ worker' = [worker EXCEPT ![w].pc = "send",
                ![w].msg = Compose([serversState EXCEPT ![X] = NORMAL], {})]
      BY <1>1, <1>5 DEF TransitToNormalEnd
    <2> QED BY <1>2, <2>1, <2>2 DEF Ends
  <1> QED BY <1>3, <1>4, <1>5


(* The last steps of a worker before its broadcast.                        *)
LEMMA CommitCalm ==
    ASSUME Calm, CalmInv, NEW w \in Workers, Commit(w) \/ TransitToNormalEnd(w),
           UNCHANGED <<clientVars, status>>
    PROVE  CalmParts'
  <1> USE DEF CalmInv
  <1>1. CASE Ends(w) BY <1>1, EndsCalm
  <1>2. CASE /\ worker[w].pc = "commit"
             /\ worker' = [worker EXCEPT ![w].pc = "normalEnd"]
             /\ UNCHANGED <<serversState, netVars, ackVars, metaVars, eventQueue, dispatcher,
                            reader, boundVars>>
    <2>1. /\ UNCHANGED <<netVars, serversState, ackVars, eventQueue, dispatcher,
                         crashedServers, sendFailures, reader>>
          /\ reader.pc \in {"idle", "signal"}
      BY <1>2 DEF metaVars, boundVars, Group
    <2>2. ASSUME NEW v \in Workers
          PROVE  /\ worker'[v].pc # "idle" => worker[v].pc # "idle"
                 /\ worker'[v].server = worker[v].server
                 /\ worker'[v].msg = worker[v].msg
                 /\ worker'[v].pc = "send" <=> worker[v].pc = "send"
                 /\ worker'[v].pc \in {"commit", "normalEnd"} =>
                        worker[v].pc \in {"commit", "normalEnd"} \/ ackClients[X] = Clients
      <3>1. worker \in [Workers -> WorkerState] /\ worker[v] \in WorkerState
        BY DEF TypeOK, CoordTypeOK
      <3> QED BY <1>2, <3>1 DEF WorkerState
    <2> QED BY <2>1, <2>2, WaitingCalm
  <1> QED BY <1>1, <1>2, CommitKinds

(* The broadcast of a worker: the state a phase begins with.               *)
LEMMA WorkerSendCalm ==
    ASSUME Calm, CalmInv, NEW w \in Workers, WorkerSend(w), UNCHANGED <<clientVars, status>>
    PROVE  CalmParts'
  <1> USE DEF CalmInv
  <1>0. Mode \in CoordStates BY ModeType
  <1>1. /\ worker[w].pc = "send"
        /\ worker' = [worker EXCEPT ![w] = IdleWorker]
        /\ UNCHANGED <<serversState, ackVars, metaVars, eventQueue, dispatcher, reader, coordBox>>
    BY DEF WorkerSend
  <1>2. Multicast(worker[w].msg) /\ UNCHANGED sendFailures
    <2>1. sendFailures = 0 /\ MaxSendFailures = 0 BY DEF Group, Calm
    <2>2. ~(sendFailures < MaxSendFailures) BY <2>1
    <2> QED BY <2>2 DEF WorkerSend
  <1>3. Current(worker[w].msg) /\ Mode \in {NORMAL, DEGRADED} /\ Silent(worker[w].msg)
    BY <1>1 DEF Threads, WorkerTrue, Quiet
  <1>4. worker[w].msg \in Records(CoordStates)
    BY DEF TypeOK, CoordTypeOK, WorkerState
  <1>5. Mode # Going(Mode) BY <1>0, <1>3, Phases
  <1>6. Mode' = Mode /\ UNCHANGED <<cState, ackClients, aliveClients, crashedServers>>
    BY <1>1 DEF Mode, clientVars, ackVars, metaVars
  <1>7. /\ worker'[w] = IdleWorker /\ worker'[w].pc = "idle" /\ worker'[w].msg = NoRecords
        /\ \A v \in Workers \ {w} : worker'[v] = worker[v]
    BY <1>1 DEF TypeOK, CoordTypeOK, IdleWorker
  <1>8. Group' BY <1>1, <1>2, <1>6 DEF Group
  <1>9. Quiet' BY <1>1, <1>7, NoRecordsSilent DEF Quiet
  <1>10. QuietClients' /\ Boxes'
    BY <1>2, <1>3, <1>4, <1>5, <1>6, MulticastCalm
  <1>11. Threads'
    <2>1. \A d \in Dispatchers : DispatcherTrue(d)' BY <1>1, <1>6, DispatchersTrueKept
    <2>2. \A v \in Workers : WorkerTrue(v)' BY <1>6, <1>7, WorkersTrueKept
    <2> QED BY <2>1, <2>2 DEF Threads
  <1>12. Acks'
    <2>1. \A v \in Workers : worker'[v].pc \in {"commit", "normalEnd"} =>
                worker[v].pc \in {"commit", "normalEnd"}
      BY <1>7
    <2> QED BY <1>1, <1>6, <2>1, AcksKept
  <1> QED BY <1>8, <1>9, <1>10, <1>11, <1>12 DEF CalmParts

(* The reader counts the acknowledgement of a client.                      *)
LEMMA UpdateStateCalm ==
    ASSUME Calm, CalmInv, NEW c \in Clients, UpdateState(c, X), UNCHANGED <<clientVars, status>>
    PROVE  CalmParts'
  <1> USE DEF CalmInv
  <1>0. X \in Servers /\ Mode \in CoordStates BY Switched, ModeType
  <1>1. /\ coordBox[c] # <<>>
        /\ UNCHANGED <<serversState, aliveClients, metaVars, eventQueue, worker, dispatcher,
                       boundVars, clientBox>>
    BY DEF UpdateState
  <1>2. /\ coordBox[c] = <<AckMsg(Mode)>> /\ View(c) = WaitOut(Mode)
        /\ Head(coordBox[c]) = AckMsg(Mode) /\ Tail(coordBox[c]) = <<>>
    <2>1. coordBox[c] = <<AckMsg(Mode)>> /\ View(c) = WaitOut(Mode)
      BY <1>1 DEF Acks, AckTrue
    <2> QED BY <2>1
  <1>3. /\ Head(coordBox[c]).states = [s \in {X} |-> WaitOut(Mode)]
        /\ Head(coordBox[c]).states[X] = WaitOut(Mode)
        /\ DOMAIN Head(coordBox[c]).states \ {X} = {}
    BY <1>2 DEF AckMsg
  <1>4. /\ coordBox' = [coordBox EXCEPT ![c] = <<>>]
        /\ reader'.pc \in {"idle", "signal"}
        /\ ackClients' \in {ackClients, [ackClients EXCEPT ![X] = @ \cup {c}]}
    BY <1>2, <1>3 DEF UpdateState, IdleReader
  <1>5. Mode' = Mode /\ UNCHANGED <<cState, crashedServers, sendFailures>>
    BY <1>1 DEF Mode, clientVars, metaVars, boundVars
  <1>6. ackClients'[X] \in {ackClients[X], ackClients[X] \cup {c}}
    BY <1>0, <1>4 DEF TypeOK, CoordTypeOK
  <1>7. coordBox'[c] = <<>> /\ \A b \in Clients \ {c} : coordBox'[b] = coordBox[b]
    BY <1>4 DEF TypeOK, NetTypeOK
  <1>8. Group' BY <1>1, <1>4, <1>5 DEF Group
  <1>9. Quiet' BY <1>1 DEF Quiet
  <1>10. QuietClients' BY <1>1, <1>5, QuietClientsKept
  <1>11. Threads'
    <2>1. \A d \in Dispatchers : DispatcherTrue(d)' BY <1>1, <1>5, DispatchersTrueKept
    <2>2. \A v \in Workers : WorkerTrue(v)' BY <1>1, <1>5, WorkersTrueKept
    <2> QED BY <2>1, <2>2 DEF Threads
  <1>12. Boxes'
    <2>1. Leaving => Told' BY <1>1 DEF Leaving, Told
    <2> QED BY <1>1, <1>5, <2>1, BoxesKept
  <1>13. Acks'
    <2>1. ASSUME NEW b \in Clients PROVE AckTrue(b)'
      <3>1. AckTrue(b) /\ View(b)' = View(b) /\ AckMsg(Mode') = AckMsg(Mode)
        BY <1>5 DEF Acks, View
      <3>2. CASE b = c BY <1>2, <1>5, <1>7, <3>1, <3>2 DEF AckTrue
      <3>3. CASE b # c
        <4>1. coordBox'[b] = coordBox[b] /\ (b \in ackClients'[X] <=> b \in ackClients[X])
          BY <1>6, <1>7, <3>3
        <4> QED BY <1>5, <3>1, <4>1 DEF AckTrue
      <3> QED BY <3>2, <3>3
    <2>2. ackClients[X] = Clients => ackClients'[X] = Clients BY <1>6
    <2> QED BY <1>1, <2>1, <2>2 DEF Acks
  <1> QED BY <1>8, <1>9, <1>10, <1>11, <1>12, <1>13 DEF CalmParts

-----------------------------------------------------------------------------
(* A step of a client leaves what the coordinator knows.                   *)
LEMMA ClientCalm ==
    ASSUME Calm, CalmInv, UNCHANGED <<coordVars, status>>
    PROVE  /\ Group' /\ Quiet' /\ Threads' /\ Mode' = Mode /\ (Leaving <=> Leaving')
           /\ UNCHANGED <<worker, ackClients>>
  <1> USE DEF CalmInv
  <1>1. /\ Mode' = Mode
        /\ UNCHANGED <<worker, ackClients, aliveClients, dispatcher, reader, serversState,
                       eventQueue, crashedServers, sendFailures>>
    BY DEF Mode, coordVars, ackVars, metaVars, boundVars
  <1>2. Group' BY <1>1 DEF Group
  <1>3. Quiet' BY <1>1 DEF Quiet
  <1>4. Threads'
    <2>1. \A d \in Dispatchers : DispatcherTrue(d)' BY <1>1, DispatchersTrueKept
    <2>2. \A v \in Workers : WorkerTrue(v)' BY <1>1, WorkersTrueKept
    <2> QED BY <2>1, <2>2 DEF Threads
  <1>5. Leaving <=> Leaving' BY <1>1 DEF Leaving, Told
  <1> QED BY <1>1, <1>2, <1>3, <1>4, <1>5

(* An acknowledgement is sent by a client that was told to leave.          *)
LEMMA AckSentView ==
    ASSUME Calm, CalmInv, NEW c \in Clients, AckSent(c)
    PROVE  /\ View(c) = Going(Mode) /\ Leaving /\ Listed(c) = {}
           /\ View(c)' = WaitOut(Mode)
           /\ cState' = [cState EXCEPT ![c][X] = WaitOut(Mode)]
           /\ \A b \in Clients \ {c} : cState'[b] = cState[b] /\ coordBox'[b] = coordBox[b]
           /\ \A s \in Servers \ {X} : cState'[c][s] = cState[c][s]
           /\ coordBox[c] = <<>> /\ c \notin ackClients[X]
           /\ coordBox'[c] = <<AckMsg(Mode)>>
  <1> USE DEF CalmInv
  <1>0. X \in Servers /\ Mode \in CoordStates BY Switched, ModeType
  <1>1. BoxTrue(c) /\ AckTrue(c) BY DEF Boxes, Acks
  <1>2. View(c) \in {INTERMEDIATE, COORDINATED} BY DEF AckSent
  <1>3. View(c) = Going(Mode) BY <1>0, <1>1, <1>2, Phases DEF BoxTrue
  <1>4. Leaving /\ Listed(c) = {} BY <1>1, <1>3 DEF BoxTrue
  <1>5. WaitFor(View(c)) = WaitOut(Mode) BY <1>0, <1>3, Phases
  <1>6. cState \in [Clients -> [Servers -> ClientStates]] BY DEF TypeOK, ClientTypeOK
  <1>7. cState' = [cState EXCEPT ![c][X] = WaitOut(Mode)] BY <1>5 DEF AckSent
  <1>8. /\ View(c)' = WaitOut(Mode)
        /\ \A b \in Clients \ {c} : cState'[b] = cState[b]
        /\ \A s \in Servers \ {X} : cState'[c][s] = cState[c][s]
    BY <1>0, <1>6, <1>7 DEF View
  <1>9. View(c) # WaitOut(Mode) BY <1>0, <1>3, Phases
  <1>10. coordBox[c] = <<>> /\ c \notin ackClients[X]
    BY <1>1, <1>4, <1>9 DEF AckTrue, Leaving
  <1>11. coordBox' = [coordBox EXCEPT ![c] = Append(@, AckMsg(Mode))]
    BY <1>5 DEF AckSent, AckMsg
  <1>12. /\ coordBox'[c] = Append(coordBox[c], AckMsg(Mode))
         /\ \A b \in Clients \ {c} : coordBox'[b] = coordBox[b]
    BY <1>11 DEF TypeOK, NetTypeOK
  <1>13. coordBox'[c] = <<AckMsg(Mode)>> BY <1>10, <1>12
  <1> QED BY <1>3, <1>4, <1>7, <1>8, <1>10, <1>12, <1>13

(* The steps of a client that read no message.                             *)
LEMMA QuietlyCalm ==
    ASSUME Calm, CalmInv, NEW c \in Clients, Quietly(c), UNCHANGED <<coordVars, status>>
    PROVE  CalmParts'
  <1> USE DEF CalmInv
  <1>1. /\ Group' /\ Quiet' /\ Threads' /\ Mode' = Mode /\ (Leaving <=> Leaving')
        /\ UNCHANGED <<worker, ackClients>>
    BY ClientCalm
  <1>2. UNCHANGED clientBox BY DEF Quietly
  <1>3. CASE UNCHANGED <<cState, coordBox>>
    <2>1. QuietClients' BY <1>2, <1>3, QuietClientsKept
    <2>2. Boxes' BY <1>1, <1>2, <1>3, BoxesKept DEF Leaving
    <2>3. Acks' BY <1>1, <1>3, AcksKept
    <2> QED BY <1>1, <2>1, <2>2, <2>3 DEF CalmParts
  <1>4. CASE AckSent(c)
    <2>0. Mode \in CoordStates BY ModeType
    <2>1. /\ View(c) = Going(Mode) /\ Leaving /\ Listed(c) = {}
          /\ View(c)' = WaitOut(Mode)
          /\ \A b \in Clients \ {c} : cState'[b] = cState[b] /\ coordBox'[b] = coordBox[b]
          /\ \A s \in Servers \ {X} : cState'[c][s] = cState[c][s]
          /\ c \notin ackClients[X] /\ coordBox'[c] = <<AckMsg(Mode)>>
      BY <1>4, AckSentView
    <2>2. QuietClients' BY <1>2, <2>1 DEF QuietClients
    <2>3. ASSUME NEW b \in Clients PROVE BoxTrue(b)'
      <3>1. BoxTrue(b) BY DEF Boxes
      <3>2. Listed(b)' = Listed(b) /\ \A i : Signal(b, i)' = Signal(b, i)
        BY <1>2 DEF Listed, Signal
      <3>3. CASE b = c BY <1>1, <2>0, <2>1, <3>2, <3>3, Phases DEF BoxTrue
      <3>4. CASE b # c
        <4>1. View(b)' = View(b) BY <2>1, <3>4 DEF View
        <4> QED BY <1>1, <3>1, <3>2, <4>1 DEF BoxTrue
      <3> QED BY <3>3, <3>4
    <2>4. ASSUME NEW b \in Clients PROVE AckTrue(b)'
      <3>1. AckTrue(b) /\ AckMsg(Mode') = AckMsg(Mode) BY <1>1 DEF Acks
      <3>2. CASE b = c BY <1>1, <2>1, <3>1, <3>2 DEF AckTrue
      <3>3. CASE b # c
        <4>1. View(b)' = View(b) /\ coordBox'[b] = coordBox[b] BY <2>1, <3>3 DEF View
        <4> QED BY <1>1, <3>1, <4>1 DEF AckTrue
      <3> QED BY <3>2, <3>3
    <2>5. Acks' BY <1>1, <2>4 DEF Acks
    <2> QED BY <1>1, <2>2, <2>3, <2>5 DEF CalmParts, Boxes
  <1> QED BY <1>3, <1>4 DEF Quietly

(* A client that reads a record: what it knows of X follows its phase.     *)
LEMMA SetStateCalm ==
    ASSUME Calm, CalmInv, NEW c \in Clients, NEW s \in Servers, SetState(c, s),
           UNCHANGED <<coordVars, status>>
    PROVE  CalmParts'
  <1> USE DEF CalmInv
  <1>0. X \in Servers /\ Mode \in CoordStates BY Switched, ModeType
  <1>1. /\ Group' /\ Quiet' /\ Threads' /\ Mode' = Mode /\ (Leaving <=> Leaving')
        /\ UNCHANGED <<worker, ackClients, coordBox>>
    BY ClientCalm DEF SetState
  <1>2. cState \in [Clients -> [Servers -> ClientStates]] BY DEF TypeOK, ClientTypeOK
  <1>3. /\ \A b \in Clients \ {c} : clientBox'[b] = clientBox[b] /\ cState'[b] = cState[b]
        /\ \A t \in Servers \ {X} : cState'[c][t] = cState[c][t]
    <2>1. \A b \in Clients \ {c} : clientBox'[b] = clientBox[b] BY SetStateBox
    <2>2. CASE s # X BY <2>1, <2>2, SetStateOther
    <2>3. CASE s = X
      <3>1. cState' = [cState EXCEPT ![c][X] = Signal(c, 1)] BY <2>3, SetStateView
      <3> QED BY <1>2, <2>1, <3>1
    <2> QED BY <2>2, <2>3
  <1>4. \A i \in DOMAIN clientBox'[c] : Silent(clientBox'[c][i])
    <2>1. /\ 1 \in DOMAIN clientBox[c]
          /\ DOMAIN clientBox'[c] = DOMAIN clientBox[c]
          /\ clientBox'[c][1] = [t \in DOMAIN clientBox[c][1] \ {s} |-> clientBox[c][1][t]]
          /\ \A i \in DOMAIN clientBox[c] : i # 1 => clientBox'[c][i] = clientBox[c][i]
      BY SetStateBox
    <2>2. Silent(clientBox'[c][1]) BY <2>1 DEF QuietClients, Silent
    <2> QED BY <2>1, <2>2 DEF QuietClients
  <1>5. QuietClients' BY <1>3, <1>4 DEF QuietClients
  <1>6. ASSUME NEW b \in Clients, b # c PROVE BoxTrue(b)' /\ AckTrue(b)'
    <2>1. Listed(b)' = Listed(b) /\ View(b)' = View(b) /\ \A i : Signal(b, i)' = Signal(b, i)
      BY <1>3, <1>6 DEF Listed, View, Signal
    <2>2. BoxTrue(b) /\ AckTrue(b) /\ AckMsg(Mode') = AckMsg(Mode) BY <1>1 DEF Boxes, Acks
    <2>3. BoxTrue(b)' BY <1>1, <2>1, <2>2 DEF BoxTrue
    <2>4. AckTrue(b)' BY <1>1, <2>1, <2>2 DEF AckTrue
    <2> QED BY <2>3, <2>4
  <1>7. BoxTrue(c)' /\ AckTrue(c)'
    <2>1. BoxTrue(c) /\ AckTrue(c) /\ AckMsg(Mode') = AckMsg(Mode) BY <1>1 DEF Boxes, Acks
    <2>2. \A i \in Listed(c)' : Signal(c, i)' = Signal(c, i)
      BY SetStateListed DEF Signal
    <2>3. CASE s # X
      <3>1. View(c)' = View(c) /\ Listed(c)' = Listed(c)
        BY <2>3, SetStateOther, SetStateListed DEF View
      <3>2. BoxTrue(c)' BY <1>1, <2>1, <2>2, <3>1 DEF BoxTrue
      <3>3. AckTrue(c)' BY <1>1, <2>1, <3>1 DEF AckTrue
      <3> QED BY <3>2, <3>3
    <2>4. CASE s = X
      <3>1. Listed(c)' = Listed(c) \ {1} BY <2>4, SetStateListed
      <3>2. \/ View(c)' = Base(Mode) /\ View(c) \in {Base(Mode), WaitIn(Mode)}
            \/ /\ View(c)' = Going(Mode) /\ View(c) = Base(Mode)
               /\ Leaving /\ Listed(c)' = {}
        BY <2>4, <3>1, SetStateView
      <3>3. View(c) # WaitOut(Mode) BY <1>0, <3>2, Phases
      <3>4. coordBox[c] = <<>> /\ ~(Mode = Going(Mode) /\ c \in ackClients[X])
        BY <2>1, <3>3 DEF AckTrue
      <3>5. AckTrue(c)' BY <1>1, <3>4 DEF AckTrue
      <3>6. \A i \in Listed(c)' :
            \/ Signal(c, i)' = Base(Mode')
            \/ Signal(c, i)' = Going(Mode') /\ Leaving' /\ \A j \in Listed(c)' : j <= i
        BY <1>1, <2>1, <2>2, <3>1 DEF BoxTrue
      <3>7. BoxTrue(c)' BY <1>0, <1>1, <3>2, <3>6, Phases DEF BoxTrue
      <3> QED BY <3>5, <3>7
    <2> QED BY <2>3, <2>4
  <1>8. Boxes' BY <1>6, <1>7 DEF Boxes
  <1>9. Acks' BY <1>1, <1>6, <1>7 DEF Acks
  <1> QED BY <1>1, <1>5, <1>8, <1>9 DEF CalmParts

(* A client that is done with a message: the next one comes first.         *)
LEMMA NextMessageCalm ==
    ASSUME Calm, CalmInv, NEW c \in Clients, NextMessage(c), UNCHANGED <<coordVars, status>>
    PROVE  CalmParts'
  <1> USE DEF CalmInv
  <1>1. /\ Group' /\ Quiet' /\ Threads' /\ Mode' = Mode /\ (Leaving <=> Leaving')
        /\ UNCHANGED <<worker, ackClients, coordBox, cState>>
    BY ClientCalm DEF NextMessage, clientVars
  <1> DEFINE b == clientBox[c]
  <1>2. /\ b # <<>> /\ DOMAIN Head(b) = {}
        /\ clientBox' = [clientBox EXCEPT ![c] = Tail(b)]
    BY DEF NextMessage
  <1>3. clientBox \in [Clients -> Seq(Records(CoordStates))] /\ b \in Seq(Records(CoordStates))
    BY DEF TypeOK, NetTypeOK
  <1>4. clientBox'[c] = Tail(b) /\ \A e \in Clients \ {c} : clientBox'[e] = clientBox[e]
    BY <1>2, <1>3
  <1> HIDE DEF b
  <1>5. /\ \A i \in DOMAIN Tail(b) : i \in Nat /\ i + 1 \in DOMAIN b /\ Tail(b)[i] = b[i + 1]
        /\ \A j \in DOMAIN b : j \in Nat /\ (j # 1 => \E i \in DOMAIN Tail(b) : j = i + 1)
        /\ Head(b) = b[1] /\ 1 \in DOMAIN b
    <2>1. \A j \in DOMAIN b : j \in Nat /\ (j # 1 => j - 1 \in DOMAIN Tail(b) /\ j = (j - 1) + 1)
      BY <1>2, <1>3
    <2> QED BY <1>2, <1>3, <2>1
  <1>6. 1 \notin Listed(c) BY <1>2, <1>5 DEF Listed, b
  <1>7. /\ \A i \in Listed(c)' : /\ i \in Nat /\ i + 1 \in Listed(c)
                                 /\ clientBox'[c][i] = clientBox[c][i + 1]
        /\ \A j \in Listed(c) : \E i \in Listed(c)' : j = i + 1
    BY <1>4, <1>5, <1>6 DEF Listed, b
  <1>8. QuietClients'
    <2>1. ASSUME NEW i \in DOMAIN clientBox'[c] PROVE Silent(clientBox'[c][i])
      BY <1>4, <1>5 DEF QuietClients, b
    <2> QED BY <1>1, <1>4, <2>1 DEF QuietClients
  <1>9. ASSUME NEW e \in Clients PROVE BoxTrue(e)'
    <2>1. BoxTrue(e) /\ View(e)' = View(e) BY <1>1 DEF Boxes, View
    <2>2. CASE e # c
      <3>1. Listed(e)' = Listed(e) /\ \A i : Signal(e, i)' = Signal(e, i)
        BY <1>4, <2>2 DEF Listed, Signal
      <3> QED BY <1>1, <2>1, <3>1 DEF BoxTrue
    <2>3. CASE e = c
      <3>1. /\ View(c) \in {Base(Mode), Going(Mode), WaitIn(Mode), WaitOut(Mode)}
            /\ View(c) \in {Going(Mode), WaitOut(Mode)} => Leaving /\ Listed(c) = {}
            /\ View(c) = WaitIn(Mode) =>
                \/ \E j \in Listed(c) : clientBox[c][j][X] = Base(Mode)
                \/ \E w \in Workers : worker[w].pc = "send"
            /\ \A j \in Listed(c) :
                \/ clientBox[c][j][X] = Base(Mode)
                \/ /\ clientBox[c][j][X] = Going(Mode) /\ Leaving
                   /\ \A k \in Listed(c) : k <= j
        BY <2>1, <2>3 DEF BoxTrue, Signal
      <3>2. ASSUME NEW i \in Listed(c)'
            PROVE  \/ clientBox'[c][i][X] = Base(Mode)
                   \/ /\ clientBox'[c][i][X] = Going(Mode) /\ Leaving
                      /\ \A k \in Listed(c)' : k <= i
        <4>1. i \in Nat /\ \A k \in Listed(c)' : k \in Nat /\ (k + 1 <= i + 1 => k <= i)
          BY <1>7
        <4>2. (\A k \in Listed(c) : k <= i + 1) => \A k \in Listed(c)' : k <= i
          BY <1>7, <4>1
        <4> QED BY <1>7, <3>1, <4>2
      <3>3. Listed(c) = {} => Listed(c)' = {} BY <1>7
      <3>4. View(c) = WaitIn(Mode) =>
                \/ \E i \in Listed(c)' : clientBox'[c][i][X] = Base(Mode)
                \/ \E w \in Workers : worker[w].pc = "send"
        <4>1. ASSUME NEW j \in Listed(c), clientBox[c][j][X] = Base(Mode)
              PROVE  \E i \in Listed(c)' : clientBox'[c][i][X] = Base(Mode)
          <5>1. PICK i \in Listed(c)' : j = i + 1 BY <1>7
          <5> QED BY <1>7, <4>1, <5>1
        <4> QED BY <3>1, <4>1
      <3> QED BY <1>1, <2>1, <2>3, <3>1, <3>2, <3>3, <3>4 DEF BoxTrue, Signal
    <2> QED BY <2>2, <2>3
  <1>10. Acks' BY <1>1, AcksKept
  <1> QED BY <1>1, <1>8, <1>9, <1>10 DEF CalmParts, Boxes

(* Steps that change only what is counted: the metadata on its way.        *)
LEMMA CountingCalm ==
    ASSUME Calm, CalmInv, UNCHANGED <<serversState, ackVars, crashedServers, eventQueue, worker,
                                      dispatcher, reader, boundVars, cState, netVars>>
    PROVE  CalmParts'
  <1> USE DEF CalmInv
  <1>1. /\ Mode' = Mode
        /\ UNCHANGED <<cState, clientBox, coordBox, status, ackClients, aliveClients, sendFailures>>
    BY DEF Mode, netVars, ackVars, boundVars
  <1>2. Group' BY <1>1 DEF Group
  <1>3. Quiet' BY <1>1 DEF Quiet
  <1>4. QuietClients' BY <1>1, QuietClientsKept
  <1>5. Threads'
    <2>1. \A d \in Dispatchers : DispatcherTrue(d)' BY <1>1, DispatchersTrueKept
    <2>2. \A v \in Workers : WorkerTrue(v)' BY <1>1, WorkersTrueKept
    <2> QED BY <2>1, <2>2 DEF Threads
  <1>6. Boxes'
    <2>1. Leaving => Told' BY DEF Leaving, Told
    <2> QED BY <1>1, <2>1, BoxesKept
  <1>7. Acks' BY <1>1, AcksKept
  <1> QED BY <1>2, <1>3, <1>4, <1>5, <1>6, <1>7 DEF CalmParts

(* A worker waits for the migration only after Commit, on the way back.    *)
LEMMA ReturningStep ==
    ASSUME TypeOK, Returning, [Next]_vars
    PROVE  Returning'
  <1>0. worker \in [Workers -> WorkerState] BY DEF TypeOK, CoordTypeOK
  <1>1. ASSUME UNCHANGED worker PROVE Returning' BY <1>1 DEF Returning
  <1>2. ASSUME NEW w \in Workers, \A v \in Workers \ {w} : worker'[v] = worker[v],
               worker'[w].pc = "normalEnd" => ~worker'[w].start
        PROVE  Returning'
    BY <1>2 DEF Returning
  <1>3. ASSUME NEW s, NEW v \in Workers
        PROVE  Woken(s)[v].pc = "normalEnd" => Woken(s)[v] = worker[v]
    BY <1>0 DEF Woken, WorkerState
  <1>4. ASSUME NEW w \in Workers, WorkerStep(w) \/ SpuriousWakeup(w)
        PROVE  Returning'
    <2>1. CASE CheckAck(w)
      <3>1. PICK f \in {worker, Woken(worker[w].server)}, pc \in {"commit", "decided"} :
                worker' = [f EXCEPT ![w].pc = pc]
        BY <2>1 DEF CheckAck
      <3>2. f \in [Workers -> WorkerState] BY <1>0, <3>1, WokenType
      <3>3. worker'[w].pc = pc /\ \A v \in Workers \ {w} : worker'[v] = f[v]
        BY <3>1, <3>2 DEF WorkerState
      <3> QED BY <1>3, <3>1, <3>3 DEF Returning
    <2>2. CASE ExtractEvent(w) BY <1>0, <1>2, <2>2 DEF ExtractEvent
    <2>3. CASE TransitToDegradedEnd(w) BY <1>0, <1>2, <2>3 DEF TransitToDegradedEnd, WorkerState
    <2>4. CASE CondWait(w) \/ SpuriousWakeup(w)
      BY <1>0, <1>2, <2>4 DEF CondWait, SpuriousWakeup, WorkerState
    <2>5. CASE Commit(w) BY <1>0, <1>2, <2>5 DEF Commit, WorkerState, IdleWorker
    <2>6. CASE TransitToNormalEnd(w) BY <1>0, <1>2, <2>6 DEF TransitToNormalEnd, WorkerState
    <2>7. CASE WorkerSend(w) BY <1>0, <1>2, <2>7 DEF WorkerSend, IdleWorker
    <2> QED BY <1>4, <2>1, <2>2, <2>3, <2>4, <2>5, <2>6, <2>7 DEF WorkerStep
  <1>5. ASSUME NEW d \in Dispatchers, DispatcherStep(d) PROVE Returning'
    BY <1>1, <1>5 DEF DispatcherStep, InitServer, InitCompose, InitSend, InsertEvent, InitDone
  <1>6. ASSUME ReaderStep PROVE Returning'
    <2>1. CASE SignalAcked
      <3>1. worker' = worker \/ worker' = Woken(reader.server) BY <2>1 DEF SignalAcked
      <3> QED BY <1>3, <3>1 DEF Returning
    <2> QED BY <1>1, <1>6, <2>1 DEF ReaderStep, UpdateState, AddAliveClient, RemoveAliveClient,
               EraseAck, ReaderSend
  <1>7. ASSUME CoordEnvironment PROVE Returning'
    BY <1>1, <1>4, <1>7 DEF CoordEnvironment, SwitchPhase, InitSendFails, ServerJoined
  <1>8. CASE UNCHANGED coordVars BY <1>1, <1>8 DEF coordVars
  <1>9. CASE UNCHANGED vars BY <1>1, <1>9 DEF vars, coordVars
  <1>10. ASSUME NEW c \in Clients, NEW s \in Servers, SyncMetadata(c, s) PROVE Returning'
    BY <1>1, <1>10 DEF SyncMetadata, SyncMetadataArrived
  <1> QED BY <1>4, <1>5, <1>6, <1>7, <1>8, <1>9, <1>10 DEF Next, CoordStep

-----------------------------------------------------------------------------
(* The invariant holds initially, and every step keeps it.                 *)
LEMMA CalmInit == ASSUME Calm, Init PROVE CalmInv
  <1>1. TypeOK BY InitType
  <1>2. HolderInv
    BY DEF Init, CoordInit, HolderInv, IdleHoldsNone, HoldersAgree,
       HoldersDistinct, IdleDispatcher, IdleWorker, Active
  <1>3. Group BY DEF Group, Init, CoordInit, IdleReader, Calm
  <1>4. X \in Servers BY Switched
  <1>5. Mode = NORMAL /\ \A c \in Clients : View(c) = NORMAL
    BY <1>4 DEF Mode, View, Init, CoordInit, ClientInit
  <1>6. /\ \A w \in Workers : worker[w].pc = "idle" /\ worker[w].msg = NoRecords
        /\ \A d \in Dispatchers : /\ dispatcher[d].pc = "idle" /\ dispatcher[d].msg = NoRecords
                                  /\ dispatcher[d].todo = {} /\ dispatcher[d].checked = {}
    BY DEF Init, CoordInit, IdleWorker, IdleDispatcher
  <1>7. /\ \A c \in Clients : clientBox[c] = <<>> /\ coordBox[c] = <<>>
        /\ eventQueue = <<>> /\ ackClients[X] = {}
    BY <1>4 DEF Init, CoordInit
  <1>8. Quiet
    <2>1. \A s \in Servers \ {X} : serversState[s] = NORMAL BY DEF Init, CoordInit
    <2> QED BY <1>6, <1>7, <2>1, NoRecordsSilent DEF Quiet
  <1>9. QuietClients
    <2>1. \A c \in Clients : \A s \in Servers : cState[c][s] = NORMAL BY DEF Init, ClientInit
    <2> QED BY <1>7, <2>1 DEF QuietClients
  <1>10. Threads /\ Returning BY <1>6 DEF Threads, DispatcherTrue, WorkerTrue, Returning
  <1>11. Boxes
    <2> SUFFICES ASSUME NEW c \in Clients PROVE BoxTrue(c) BY DEF Boxes
    <2>1. Listed(c) = {} BY <1>7 DEF Listed
    <2>2. View(c) = Base(Mode) /\ Mode \in CoordStates BY <1>5 DEF Base, CoordStates
    <2> QED BY <2>1, <2>2, Phases DEF BoxTrue
  <1>12. Acks BY <1>6, <1>7 DEF Acks, AckTrue
  <1> QED BY <1>1, <1>2, <1>3, <1>8, <1>9, <1>10, <1>11, <1>12 DEF CalmInv

(* Every step keeps the invariant.                                         *)
LEMMA CalmStep ==
    ASSUME Calm, CalmInv, [Next]_vars
    PROVE  CalmInv'
  <1>1. ASSUME UNCHANGED vars PROVE CalmParts'
    <2>1. UNCHANGED <<serversState, ackVars, crashedServers, eventQueue, worker,
                      dispatcher, reader, boundVars, cState, netVars>>
      BY <1>1 DEF vars, coordVars, clientVars, metaVars
    <2> QED BY <2>1, CountingCalm
  <1>2. ASSUME UNCHANGED <<clientVars, status>>,
               \/ \E d \in Dispatchers : DispatcherSteps(d)
               \/ \E w \in Workers : WorkerStep(w)
               \/ \E c \in Clients : UpdateState(c, X)
               \/ SignalAcked
        PROVE  CalmParts'
    <2>1. ASSUME NEW d \in Dispatchers, DispatcherSteps(d) PROVE CalmParts'
      BY <1>2, <2>1, SwitchPhaseCalm, InitServerCalm, InitComposeCalm, InitSendCalm, InsertCalm
         DEF DispatcherSteps
    <2>2. ASSUME NEW w \in Workers, WorkerStep(w) PROVE CalmParts'
      BY <1>2, <2>2, ExtractCalm, WorkerWaitCalm, CommitCalm, WorkerSendCalm DEF WorkerStep
    <2> QED BY <1>2, <2>1, <2>2, UpdateStateCalm, SignalCalm
  <1>3. ASSUME UNCHANGED <<coordVars, status>>, NEW c \in Clients,
               Quietly(c) \/ NextMessage(c) \/ \E s \in Servers : SetState(c, s)
        PROVE  CalmParts'
    BY <1>3, QuietlyCalm, NextMessageCalm, SetStateCalm
  <1>4. ASSUME NEW c \in Clients, NEW s \in Servers, SyncMetadata(c, s)
        PROVE  CalmParts'
    BY <1>4, CountingCalm DEF SyncMetadata, SyncMetadataSent, SyncMetadataArrived
  <1>5. CalmParts' BY <1>1, <1>2, <1>3, <1>4, CalmSteps
  <1>6. TypeOK' /\ Returning' BY NextType, ReturningStep DEF CalmInv
  <1>7. HolderInv' BY <1>5, HolderStep DEF CalmInv, CalmParts, Group
  <1> QED BY <1>5, <1>6, <1>7 DEF CalmInv, CalmParts

(* In the setting, the invariant holds for any number of clients, workers, *)
(* servers and requests.                                                   *)
LEMMA CalmInvariant == ASSUME Calm PROVE Spec => []CalmInv
  <1>1. Init => CalmInv BY CalmInit
  <1>2. CalmInv /\ [Next]_vars => CalmInv' BY CalmStep
  <1> QED BY <1>1, <1>2, PTL DEF Spec

-----------------------------------------------------------------------------
(* The refinement: every step is one of TransitPromise, or changes neither *)
(* the states of the coordinator nor those of the clients.                 *)

(* The abstract specification has the same names for the states.           *)
LEMMA SameStates ==
    /\ Promise!NORMAL = NORMAL /\ Promise!INTERMEDIATE = INTERMEDIATE
    /\ Promise!DEGRADED = DEGRADED /\ Promise!COORDINATED = COORDINATED
    /\ Promise!WAIT_NORMAL = WAIT_NORMAL /\ Promise!WAIT_DEGRADED = WAIT_DEGRADED
  BY DEF Promise!NORMAL, Promise!INTERMEDIATE, Promise!DEGRADED, Promise!COORDINATED,
     Promise!WAIT_NORMAL, Promise!WAIT_DEGRADED, NORMAL, INTERMEDIATE, DEGRADED, COORDINATED,
     WAIT_NORMAL, WAIT_DEGRADED

(* The states of a phase come one after the other, and a client may be in  *)
(* those its phase has reached.                                            *)
LEMMA PhaseViews ==
    ASSUME NEW m \in CoordStates
    PROVE  /\ Promise!NextView(WaitIn(m)) = Base(m) /\ Base(m) \in Promise!Views(m)
           /\ m = Going(m) =>
                /\ Promise!NextView(Base(m)) = Going(m) /\ Going(m) \in Promise!Views(m)
                /\ Promise!NextView(Going(m)) = WaitOut(m) /\ WaitOut(m) \in Promise!Views(m)
  <1>1. CASE m \in {NORMAL, INTERMEDIATE}
    BY <1>1, SameStates DEF Promise!NextView, Promise!Views, WaitIn, WaitOut, Base, Going, NORMAL,
       INTERMEDIATE, DEGRADED, COORDINATED, WAIT_NORMAL, WAIT_DEGRADED
  <1>2. CASE m \in {DEGRADED, COORDINATED}
    BY <1>2, SameStates DEF Promise!NextView, Promise!Views, WaitIn, WaitOut, Base, Going, NORMAL,
       INTERMEDIATE, DEGRADED, COORDINATED, WAIT_NORMAL, WAIT_DEGRADED
  <1> QED BY <1>1, <1>2 DEF CoordStates

(* A client follows the mode of X.                                         *)
LEMMA Follows ==
    ASSUME Calm, TypeOK, NEW c \in Clients, NEW v,
           v = Promise!NextView(View(c)), v \in Promise!Views(Mode),
           cState' = [cState EXCEPT ![c][X] = v], UNCHANGED serversState
    PROVE  Promise!ViewStep
  <1>1. X \in Servers BY Switched
  <1>2. cState \in [Clients -> [Servers -> ClientStates]] BY DEF TypeOK, ClientTypeOK
  <1> DEFINE S == {X}
  <1>3. cState' = [cState EXCEPT ![c] = [s \in Servers |->
                        IF s \in S THEN Promise!NextView(cState[c][s]) ELSE cState[c][s]]]
    BY <1>1, <1>2 DEF View
  <1>4. \A s \in S : Promise!NextView(cState[c][s]) \in Promise!Views(serversState[s])
    BY DEF View, Mode
  <1>5. S \in SUBSET Servers BY <1>1
  <1> HIDE DEF S
  <1> QED BY <1>3, <1>4, <1>5 DEF Promise!ViewStep

(* The coordinator goes on to the next mode of X.                          *)
LEMMA GoesOn ==
    ASSUME Calm, TypeOK, NEW m, m = Promise!NextMode(Mode),
           Mode = INTERMEDIATE => \A c \in Clients : View(c) = WAIT_DEGRADED,
           Mode = COORDINATED => \A c \in Clients : View(c) = WAIT_NORMAL,
           serversState' = [serversState EXCEPT ![X] = m], UNCHANGED cState
    PROVE  Promise!ModeStep
  <1>1. X \in Servers BY Switched
  <1>2. serversState' = [serversState EXCEPT ![X] = Promise!NextMode(@)]
    BY <1>1 DEF Mode, TypeOK, CoordTypeOK
  <1> QED BY <1>1, <1>2, SameStates DEF Promise!ModeStep, Mode, View

(* One step of the protocol.                                               *)
LEMMA PromiseStep ==
    ASSUME Calm, CalmInv, [Next]_vars
    PROVE  \/ Promise!ModeStep \/ Promise!ViewStep
           \/ UNCHANGED <<serversState, cState>>
  <1> DEFINE Goal == \/ Promise!ModeStep \/ Promise!ViewStep
                     \/ UNCHANGED <<serversState, cState>>
  <1>0. TypeOK /\ Mode \in CoordStates BY ModeType DEF CalmInv
  <1>1. CASE UNCHANGED vars BY <1>1 DEF vars, coordVars, clientVars
  <1>2. ASSUME UNCHANGED <<clientVars, status>>, NEW d \in Dispatchers, DispatcherSteps(d)
        PROVE  Goal
    <2>0. UNCHANGED cState BY <1>2 DEF clientVars
    <2>1. CASE InitServer(d, X)
      <3>1. /\ Mode = Origin(dispatcher[d].start)
            /\ serversState' = [serversState EXCEPT ![X] = Transient(dispatcher[d].start)]
            /\ dispatcher[d].start \in BOOLEAN
        BY <1>2, <2>1, InitServerCalm DEF CalmInv, TypeOK, CoordTypeOK, DispatcherState
      <3>2. /\ Mode \notin {INTERMEDIATE, COORDINATED}
            /\ Transient(dispatcher[d].start) = Promise!NextMode(Mode)
        BY <3>1, SameStates DEF Origin, Transient, Promise!NextMode, NORMAL, INTERMEDIATE, DEGRADED, COORDINATED
      <3> QED BY <1>0, <2>0, <3>1, <3>2, GoesOn
    <2>2. CASE UNCHANGED serversState BY <2>0, <2>2
    <2> QED BY <1>2, <2>1, <2>2 DEF DispatcherSteps, SwitchPhase, InitCompose, InitSend,
               InsertEvent, InitDone
  <1>3. ASSUME UNCHANGED <<clientVars, status>>, NEW w \in Workers, WorkerStep(w)
        PROVE  Goal
    <2>0. UNCHANGED cState BY <1>3 DEF clientVars
    <2>1. CASE Ends(w)
      <3> DEFINE st == IF Mode = INTERMEDIATE THEN DEGRADED ELSE NORMAL
      <3>1. /\ serversState' = [serversState EXCEPT ![X] = st]
            /\ worker[w].pc \in {"commit", "normalEnd"}
        BY <2>1 DEF Ends
      <3>2. \A c \in Clients : View(c) = WaitOut(Mode) BY <3>1, AllWait
      <3>3. Mode \in {INTERMEDIATE, COORDINATED} BY <3>1, AtWork DEF Active
      <3>4. st = Promise!NextMode(Mode)
        BY <3>3, SameStates DEF Promise!NextMode, NORMAL, INTERMEDIATE, DEGRADED, COORDINATED
      <3>5. /\ Mode = INTERMEDIATE => WaitOut(Mode) = WAIT_DEGRADED
            /\ Mode = COORDINATED => WaitOut(Mode) = WAIT_NORMAL
        BY DEF WaitOut, NORMAL, INTERMEDIATE, COORDINATED
      <3> HIDE DEF st
      <3> QED BY <1>0, <2>0, <3>1, <3>2, <3>4, <3>5, GoesOn
    <2>2. CASE UNCHANGED serversState BY <2>0, <2>2
    <2>3. CASE Commit(w) \/ TransitToNormalEnd(w) BY <1>3, <2>1, <2>2, <2>3, CommitKinds
    <2> QED BY <1>3, <2>2, <2>3 DEF WorkerStep, ExtractEvent, TransitToDegradedEnd, CheckAck,
               CondWait, WorkerSend
  <1>4. ASSUME UNCHANGED <<clientVars, status>>,
               SignalAcked \/ \E c \in Clients : UpdateState(c, X)
        PROVE  Goal
    BY <1>4 DEF SignalAcked, UpdateState, clientVars
  <1>5. ASSUME UNCHANGED <<coordVars, status>>, NEW c \in Clients,
               Quietly(c) \/ NextMessage(c) \/ \E s \in Servers : SetState(c, s)
        PROVE  Goal
    <2>0. UNCHANGED serversState BY <1>5 DEF coordVars
    <2>1. CASE UNCHANGED cState BY <2>0, <2>1
    <2>2. CASE AckSent(c)
      <3>1. /\ View(c) = Going(Mode) /\ Leaving
            /\ cState' = [cState EXCEPT ![c][X] = WaitOut(Mode)]
        BY <2>2, AckSentView
      <3> QED BY <1>0, <2>0, <3>1, PhaseViews, Follows DEF Leaving
    <2>3. ASSUME NEW s \in Servers, SetState(c, s) PROVE Goal
      <3>1. CASE s # X BY <2>1, <2>3, <3>1, SetStateOther
      <3>2. CASE s = X
        <4>1. /\ cState' = [cState EXCEPT ![c][X] = Signal(c, 1)]
              /\ \/ Signal(c, 1) = Base(Mode) /\ View(c) \in {Base(Mode), WaitIn(Mode)}
                 \/ Signal(c, 1) = Going(Mode) /\ View(c) = Base(Mode) /\ Leaving
          BY <2>3, <3>2, SetStateView
        <4>2. CASE Signal(c, 1) = View(c)
          <5>1. UNCHANGED cState
            BY <1>0, <4>1, <4>2, Switched DEF View, TypeOK, ClientTypeOK
          <5> QED BY <2>1, <5>1
        <4>3. CASE Signal(c, 1) # View(c)
          <5>1. /\ Signal(c, 1) = Promise!NextView(View(c))
                /\ Signal(c, 1) \in Promise!Views(Mode)
            BY <1>0, <4>1, <4>3, PhaseViews DEF Leaving
          <5> QED BY <1>0, <2>0, <4>1, <5>1, Follows
        <4> QED BY <4>2, <4>3
      <3> QED BY <3>1, <3>2
    <2> QED BY <1>5, <2>1, <2>2, <2>3 DEF Quietly, NextMessage, clientVars
  <1>6. ASSUME NEW c \in Clients, NEW s \in Servers, SyncMetadata(c, s)
        PROVE  Goal
    BY <1>6 DEF SyncMetadata, SyncMetadataSent, SyncMetadataArrived
  <1> QED BY <1>1, <1>2, <1>3, <1>4, <1>5, <1>6, CalmSteps

(* The protocol implements its promise: the coordinator and the clients,   *)
(* with their threads, messages and counters, take the server round the    *)
(* four modes, and it is switched only when all clients wait for it, for   *)
(* any number of clients, workers, requests and switches.                  *)
THEOREM PromiseImplemented == ASSUME Calm PROVE Spec => PromiseKept
  <1>1. Init => Promise!PInit BY SameStates DEF Init, CoordInit, ClientInit, Promise!PInit
  <1>2. CalmInv /\ [Next]_vars => [Promise!ModeStep \/ Promise!ViewStep]_(Promise!pvars)
    BY PromiseStep DEF Promise!pvars
  <1> QED BY <1>1, <1>2, CalmInvariant, PTL DEF Spec, PromiseKept, Promise!PSpec

-----------------------------------------------------------------------------
(* The reverts of parity deltas.                                           *)

(* Without reverts to wait for there are no events and no acknowledgements *)
(* of them.                                                                *)
LEMMA NoneToRevert ==
    ASSUME TypeOK, RevertCounterExact, NEW c \in Clients, NEW s \in Servers,
           parityRevert[c][s] = 0, NEW p \in Servers
    PROVE  revertQueue[c][p][s] = 0 /\ revertAck[c][p][s] = 0
  <1> DEFINE f == RevertsOf(c, s)
             rest == SumFunctionOnSet(f, Servers \ {p})
  <1>1. \A q \in Servers : /\ f[q] = revertQueue[c][q][s] + revertAck[c][q][s]
                           /\ revertQueue[c][q][s] \in Nat /\ revertAck[c][q][s] \in Nat
    BY DEF RevertsOf, TypeOK, ClientTypeOK
  <1>2. \A q \in Servers : f[q] \in Nat /\ f[q] \in Int BY <1>1
  <1>3. SumFunctionOnSet(f, Servers) = 0 BY DEF RevertCounterExact
  <1> HIDE DEF f
  <1>4. SumFunctionOnSet(f, Servers) = f[p] + rest BY <1>2, SumRemove, NetworkAssumption
  <1>5. rest \in Nat
    <2>1. IsFiniteSet(Servers \ {p}) BY FS_Subset, NetworkAssumption
    <2> QED BY <1>2, <2>1, SumType
  <1> HIDE DEF rest
  <1>6. f[p] = 0 BY <1>2, <1>3, <1>4, <1>5
  <1> QED BY <1>1, <1>6

(* A client leaves INTERMEDIATE only without reverts, and no other step    *)
(* than entering it makes new ones.                                        *)
LEMMA RevertsStep ==
    ASSUME Calm, CalmInv, RevertCounterExact, Reverts, [Next]_vars
    PROVE  Reverts'
  <1>0. TypeOK /\ X \in Servers /\ Mode \in CoordStates BY Switched, ModeType DEF CalmInv
  <1>1. parityRevert \in [Clients -> [Servers -> Int]]
        /\ cState \in [Clients -> [Servers -> ClientStates]]
    BY <1>0 DEF TypeOK, ClientTypeOK
  <1>2. ASSUME NEW b \in Clients, View(b) # INTERMEDIATE, View(b)' # INTERMEDIATE
        PROVE  parityRevert'[b][X] = 0
    <2>0. parityRevert[b][X] = 0 BY <1>2 DEF Reverts
    <2>1. CASE UNCHANGED parityRevert BY <2>0, <2>1
    <2>2. ASSUME NEW c \in Clients, NEW s \in Servers, EnterIntermediate(c, s)
          PROVE  parityRevert'[b][X] = 0
      <3>1. ~(b = c /\ s = X)
        BY <1>0, <1>1, <1>2, <2>2 DEF EnterIntermediate, View
      <3>2. PICK n : parityRevert' = [parityRevert EXCEPT ![c][s] = n]
        BY <2>2 DEF EnterIntermediate
      <3> QED BY <1>0, <1>1, <2>0, <3>1, <3>2
    <2>3. ASSUME NEW c \in Clients, NEW s \in Servers, AfterSetState(c, s),
                 cState[c][s] = INTERMEDIATE
          PROVE  parityRevert'[b][X] = 0
      <3>1. s = X BY <2>3 DEF CalmInv, QuietClients, NORMAL, INTERMEDIATE
      <3>2. b # c BY <1>2, <2>3, <3>1 DEF View
      <3>3. PICK f : parityRevert' = [parityRevert EXCEPT ![c] = f] \/ UNCHANGED parityRevert
        BY <2>3 DEF AfterSetState
      <3> QED BY <1>1, <2>0, <3>2, <3>3
    <2>4. ASSUME NEW c \in Clients, NEW s \in Servers, NEW p \in Servers, DeltaAcknowledged(c, p, s)
          PROVE  parityRevert'[b][X] = 0
      <3>1. /\ revertAck[c][p][s] > 0
            /\ parityRevert' = [parityRevert EXCEPT ![c] = [parityRevert[c] EXCEPT ![s] = @ - 1]]
        BY <2>4 DEF DeltaAcknowledged
      <3>2. ~(b = c /\ s = X) BY <1>0, <2>0, <3>1, NoneToRevert
      <3> QED BY <1>0, <1>1, <2>0, <3>1, <3>2
    <2>5. ASSUME NEW c \in Clients, NEW s \in Servers, NEW p \in Servers, SendRevert(c, p, s)
          PROVE  UNCHANGED parityRevert
      BY <2>5 DEF SendRevert, transitInfo
    <2> QED BY <2>1, <2>2, <2>3, <2>4, <2>5, RevertStepKinds
  <1>3. ASSUME NEW b \in Clients, View(b) = INTERMEDIATE, View(b)' # INTERMEDIATE
        PROVE  parityRevert'[b][X] = 0
    <2>1. ~ UNCHANGED cState BY <1>3 DEF View
    <2>2. ASSUME NEW c \in Clients, Quietly(c) PROVE parityRevert'[b][X] = 0
      <3>1. AckSent(c) /\ (View(c) = INTERMEDIATE => parityRevert'[c][X] = 0)
        BY <2>1, <2>2 DEF Quietly
      <3>2. b = c BY <1>3, <3>1, AckSentView DEF View
      <3> QED BY <1>3, <3>1, <3>2
    <2>3. ASSUME NEW c \in Clients, NEW s \in Servers PROVE ~SetState(c, s)
      <3> SUFFICES ASSUME SetState(c, s) PROVE FALSE OBVIOUS
      <3>1. s = X BY <2>1, SetStateOther
      <3>2. /\ cState' = [cState EXCEPT ![c][X] = Signal(c, 1)]
            /\ View(c) \in {Base(Mode), WaitIn(Mode)}
        BY <3>1, SetStateView
      <3>3. View(c) # INTERMEDIATE BY <1>0, <3>2, Phases
      <3>4. b = c BY <1>0, <1>1, <1>3, <3>2 DEF View
      <3> QED BY <1>3, <3>3, <3>4
    <2>4. ~ UNCHANGED vars /\ ~ UNCHANGED clientVars BY <2>1 DEF vars, clientVars
    <2>5. \A c \in Clients : ~NextMessage(c) BY <2>4 DEF NextMessage
    <2>6. ~ \E c \in Clients, s \in Servers : SyncMetadata(c, s)
      BY <2>1 DEF SyncMetadata, SyncMetadataSent
    <2> QED BY <2>2, <2>3, <2>4, <2>5, <2>6, CalmSteps
  <1> QED BY <1>2, <1>3 DEF Reverts

(* When the server is DEGRADED at the coordinator, no client has a revert  *)
(* of its parity deltas left to send or to wait for.                       *)
THEOREM DeltasReverted == ASSUME Calm PROVE Spec => []ParityReverted
  <1>1. Init => Reverts
    <2>1. X \in Servers BY Switched
    <2> QED BY <2>1 DEF Init, ClientInit, Reverts
  <1>2. CalmInv /\ RevertCounterExact /\ Reverts /\ [Next]_vars => Reverts' BY RevertsStep
  <1>3. CalmInv /\ RevertCounterExact /\ Reverts => ParityReverted
    <2> SUFFICES ASSUME CalmInv, RevertCounterExact, Reverts, NEW s \in Servers,
                        serversState[s] = DEGRADED, NEW c \in Members, NEW p \in Servers
                 PROVE  revertQueue[c][p][s] = 0 /\ revertAck[c][p][s] = 0
      BY DEF ParityReverted
    <2>1. s = X BY DEF CalmInv, Quiet, NORMAL, DEGRADED
    <2>2. c \in Clients /\ TypeOK BY DEF Members, CalmInv
    <2>3. Mode = DEGRADED BY <2>1 DEF Mode
    <2>4. Mode # Going(Mode) BY <2>3 DEF Going, NORMAL, INTERMEDIATE, DEGRADED, COORDINATED
    <2>5. View(c) \in {Base(Mode), WaitIn(Mode)}
      BY <2>2, <2>4 DEF CalmInv, Boxes, BoxTrue, Leaving
    <2>6. View(c) # INTERMEDIATE BY <2>2, <2>5, ModeType, Phases
    <2>7. parityRevert[c][s] = 0 BY <2>1, <2>2, <2>6 DEF Reverts
    <2> QED BY <2>2, <2>7, NoneToRevert
  <1> QED BY <1>1, <1>2, <1>3, CalmInvariant, RevertsCounted, PTL DEF Spec

-----------------------------------------------------------------------------
(* The metadata of the clients.                                            *)

(* A worker is past the wait only on the way to DEGRADED.                  *)
LEMMA PastMode ==
    ASSUME Calm, CalmInv, NEW w \in Workers, Past(w)
    PROVE  Mode = INTERMEDIATE
  BY AtWork DEF Past

(* While the server is NORMAL no client has been told of a transition, so  *)
(* that all are owing.                                                     *)
LEMMA ViewsBefore ==
    ASSUME Calm, CalmInv, Mode = NORMAL
    PROVE  Owing = Clients
  <1>1. ~Leaving BY DEF Leaving, Going, NORMAL, INTERMEDIATE
  <1>2. ASSUME NEW c \in Clients PROVE View(c) \in {NORMAL, WAIT_NORMAL}
    BY <1>1 DEF CalmInv, Boxes, BoxTrue, Base, WaitIn
  <1> QED BY <1>2 DEF Owing, Owes

(* Steps that leave the counter and what it counts.                        *)
LEMMA MetaKept ==
    ASSUME Meta, Mode' = Mode, transition'[X] = transition[X], UNCHANGED <<cState, syncMeta>>,
           \A w \in Workers : Past(w)' <=> Past(w),
           \A d \in Dispatchers : Starting(d)' => Starting(d)
    PROVE  Meta'
  <1>1. \A c \in Clients : View(c)' = View(c) /\ (Owes(c)' <=> Owes(c))
    BY DEF View, Owes
  <1>2. Owing' = Owing BY <1>1 DEF Owing
  <1>3. \A c \in Clients : Syncing(c)' BY <1>1 DEF Meta, Syncing
  <1> QED BY <1>2, <1>3 DEF Meta

(* Steps of clients, which leave the counter: while it is looked at, the   *)
(* clients that owe metadata are the same.                                 *)
LEMMA MetaViews ==
    ASSUME Calm, CalmInv, Meta, UNCHANGED coordVars,
           \A c \in Clients : Syncing(c)' /\ (Mode \in {NORMAL, INTERMEDIATE} => (Owes(c)' <=> Owes(c)))
    PROVE  Meta'
  <1>1. /\ Mode' = Mode /\ transition' = transition
        /\ \A w \in Workers : Past(w)' <=> Past(w)
        /\ \A d \in Dispatchers : Starting(d)' <=> Starting(d)
    BY DEF Mode, coordVars, metaVars, Past, Active, Starting
  <1>2. Mode \in CoordStates BY ModeType DEF CalmInv
  <1>3. Mode \in {NORMAL, INTERMEDIATE} => Owing' = Owing BY DEF Owing
  <1>4. transition[X] # None => Mode \in {NORMAL, INTERMEDIATE}
    BY <1>2 DEF Meta, CoordStates
  <1>5. \A w \in Workers : Past(w) => Mode \in {NORMAL, INTERMEDIATE} BY PastMode
  <1> QED BY <1>1, <1>3, <1>4, <1>5 DEF Meta

(* A client that acknowledges still owes the metadata it has not sent.     *)
LEMMA QuietlyMeta ==
    ASSUME Calm, CalmInv, Meta, NEW c \in Clients, Quietly(c)
    PROVE  Meta'
  <1>0. Mode \in CoordStates BY ModeType DEF CalmInv
  <1>1. UNCHANGED <<coordVars, syncMeta>> /\ Mode' = Mode
    BY DEF Quietly, coordVars, Mode
  <1>2. CASE UNCHANGED cState
    BY <1>1, <1>2, MetaKept DEF coordVars, metaVars, Past, Active, Starting
  <1>3. CASE AckSent(c)
    <2>1. /\ View(c) = Going(Mode) /\ View(c)' = WaitOut(Mode)
          /\ \A b \in Clients \ {c} : View(b)' = View(b)
      BY <1>3, AckSentView DEF View
    <2>2. ASSUME NEW b \in Clients
          PROVE  Syncing(b)' /\ (Mode \in {NORMAL, INTERMEDIATE} => (Owes(b)' <=> Owes(b)))
      <3>1. Syncing(b) BY DEF Meta
      <3>2. CASE b # c BY <1>1, <2>1, <3>1, <3>2 DEF Syncing, Owes
      <3>3. CASE b = c
        BY <1>0, <1>1, <2>1, <3>1, <3>3 DEF Syncing, Owes, Going, WaitOut, CoordStates,
           NORMAL, INTERMEDIATE, DEGRADED, COORDINATED, WAIT_NORMAL, WAIT_DEGRADED
      <3> QED BY <3>2, <3>3
    <2> QED BY <1>1, <2>2, MetaViews
  <1> QED BY <1>2, <1>3 DEF Quietly

(* A client that is told to leave NORMAL queues its metadata, once.        *)
LEMMA SetStateMeta ==
    ASSUME Calm, CalmInv, Meta, NEW c \in Clients, NEW s \in Servers, SetState(c, s),
           UNCHANGED coordVars
    PROVE  Meta'
  <1>0. X \in Servers /\ Mode \in CoordStates /\ Mode' = Mode
    BY Switched, ModeType DEF CalmInv, coordVars, Mode
  <1>1. CASE s # X
    <2>1. UNCHANGED <<cState, syncMeta>> BY <1>1, SetStateOther DEF transitInfo
    <2> QED BY <1>0, <2>1, MetaKept DEF coordVars, metaVars, Past, Active, Starting
  <1>2. CASE s = X
    <2>1. cState \in [Clients -> [Servers -> ClientStates]] /\ syncMeta \in [Clients -> [Servers -> Nat]]
      BY DEF CalmInv, TypeOK, ClientTypeOK
    <2>2. /\ cState' = [cState EXCEPT ![c][X] = Signal(c, 1)]
          /\ View(c)' = Signal(c, 1)
      BY <1>2, SetStateView
    <2>3. \A b \in Clients \ {c} : View(b)' = View(b) BY <1>0, <2>1, <2>2 DEF View
    <2>4. CASE View(c) = NORMAL /\ Mode = INTERMEDIATE /\ EnterIntermediate(c, X)
      <3>1. /\ syncMeta' = [syncMeta EXCEPT ![c][X] = @ + 1]
            /\ cState' = [cState EXCEPT ![c][X] = INTERMEDIATE]
        BY <2>4 DEF EnterIntermediate
      <3>2. /\ View(c)' = INTERMEDIATE
            /\ syncMeta'[c][X] = syncMeta[c][X] + 1
            /\ \A b \in Clients \ {c} : syncMeta'[b][X] = syncMeta[b][X]
        BY <1>0, <2>1, <3>1 DEF View
      <3>3. syncMeta[c][X] = 0
        BY <2>4 DEF Meta, Syncing, NORMAL, INTERMEDIATE, WAIT_DEGRADED
      <3>4. syncMeta'[c][X] = 1 BY <3>2, <3>3
      <3>5. ASSUME NEW b \in Clients
            PROVE  Syncing(b)' /\ (Owes(b)' <=> Owes(b))
        <4>1. Syncing(b) BY DEF Meta
        <4>2. CASE b # c BY <1>0, <2>3, <3>2, <4>1, <4>2 DEF Syncing, Owes
        <4>3. CASE b = c BY <1>0, <2>4, <3>2, <3>4, <4>3 DEF Syncing, Owes
        <4> QED BY <4>2, <4>3
      <3> QED BY <3>5, MetaViews
    <2>5. CASE UNCHANGED syncMeta /\ \/ View(c)' = Base(Mode) /\ View(c) \in {Base(Mode), WaitIn(Mode)}
                                     \/ View(c)' = COORDINATED /\ View(c) = DEGRADED
                                            /\ Mode = COORDINATED
      <3>1. ASSUME NEW b \in Clients
            PROVE  Syncing(b)' /\ (Mode \in {NORMAL, INTERMEDIATE} => (Owes(b)' <=> Owes(b)))
        <4>1. Syncing(b) BY DEF Meta
        <4>2. CASE b # c BY <1>0, <2>3, <2>5, <4>1, <4>2 DEF Syncing, Owes
        <4>3. CASE b = c
          BY <1>0, <2>5, <4>1, <4>3 DEF Syncing, Owes, Base, WaitIn, CoordStates,
             NORMAL, INTERMEDIATE, DEGRADED, COORDINATED, WAIT_NORMAL, WAIT_DEGRADED
        <4> QED BY <4>2, <4>3
      <3> QED BY <3>1, MetaViews
    <2>6. \/ /\ Signal(c, 1) = Base(Mode) /\ View(c) \in {Base(Mode), WaitIn(Mode)}
             /\ UNCHANGED transitInfo
          \/ /\ Signal(c, 1) = Going(Mode) /\ View(c) = Base(Mode) /\ Leaving
             /\ IF Mode = INTERMEDIATE THEN EnterIntermediate(c, X) ELSE UNCHANGED transitInfo
      BY <1>2, SetStateView
    <2>7. Leaving => /\ Mode = INTERMEDIATE => Base(Mode) = NORMAL
                     /\ Mode # INTERMEDIATE => /\ Mode = COORDINATED /\ Base(Mode) = DEGRADED
                                               /\ Going(Mode) = COORDINATED
      BY <1>0 DEF Leaving, Base, Going, CoordStates, NORMAL, INTERMEDIATE, DEGRADED, COORDINATED
    <2> QED BY <2>2, <2>4, <2>5, <2>6, <2>7 DEF transitInfo
  <1> QED BY <1>1, <1>2

(* The metadata of a client arrives: it owes none any more, and the        *)
(* counter goes down by one and does not wrap.                             *)
LEMMA SyncMetadataMeta ==
    ASSUME Calm, CalmInv, Meta, NEW c \in Clients, NEW s \in Servers, SyncMetadata(c, s)
    PROVE  Meta'
  <1>0. X \in Servers /\ TypeOK BY Switched DEF CalmInv
  <1>1. /\ UNCHANGED <<serversState, dispatcher, worker, cState>> /\ Mode' = Mode
        /\ syncMeta[c][s] > 0
        /\ syncMeta' = [syncMeta EXCEPT ![c][s] = @ - 1]
        /\ transition' = [transition EXCEPT ![s] =
                IF @ = None THEN None ELSE (@ + CounterMod - 1) % CounterMod]
    BY DEF SyncMetadata, SyncMetadataSent, SyncMetadataArrived, Mode
  <1>2. /\ syncMeta \in [Clients -> [Servers -> Nat]]
        /\ transition \in [Servers -> (0 .. CounterMod - 1) \cup {None}]
    BY <1>0 DEF TypeOK, ClientTypeOK, CoordTypeOK
  <1>3. /\ \A w \in Workers : Past(w)' <=> Past(w)
        /\ \A d \in Dispatchers : Starting(d)' <=> Starting(d)
        /\ \A b \in Clients : View(b)' = View(b)
    BY <1>1 DEF Past, Active, Starting, View
  <1>4. CASE s # X
    <2>1. transition'[X] = transition[X] /\ \A b \in Clients : syncMeta'[b][X] = syncMeta[b][X]
      BY <1>0, <1>1, <1>2, <1>4
    <2>2. \A b \in Clients : (Owes(b)' <=> Owes(b)) /\ Syncing(b)'
      BY <1>1, <1>3, <2>1 DEF Meta, Owes, Syncing
    <2>3. Owing' = Owing BY <2>2 DEF Owing
    <2> QED BY <1>1, <1>3, <2>1, <2>2, <2>3 DEF Meta
  <1>5. CASE s = X
    <2>1. /\ syncMeta[c][X] = 1 /\ View(c) \in {INTERMEDIATE, WAIT_DEGRADED} /\ Mode = INTERMEDIATE
      <3>1. syncMeta[c][X] # 0 /\ Syncing(c) BY <1>1, <1>2, <1>5 DEF Meta
      <3> QED BY <3>1 DEF Syncing
    <2>2. syncMeta'[c][X] = 0 /\ \A b \in Clients \ {c} : syncMeta'[b][X] = syncMeta[b][X]
      BY <1>0, <1>1, <1>2, <1>5, <2>1
    <2>3. ASSUME NEW b \in Clients
          PROVE  Syncing(b)' /\ (Owes(b)' <=> Owes(b) /\ b # c)
      <3>1. Syncing(b) BY DEF Meta
      <3>2. CASE b # c BY <1>1, <1>3, <2>2, <3>1, <3>2 DEF Syncing, Owes
      <3>3. CASE b = c
        BY <1>3, <2>1, <2>2, <3>3 DEF Syncing, Owes, NORMAL, INTERMEDIATE, WAIT_NORMAL,
           WAIT_DEGRADED
      <3> QED BY <3>2, <3>3
    <2>4. Owing' = Owing \ {c} /\ c \in Owing BY <2>1, <2>3 DEF Owing, Owes
    <2>5. IsFiniteSet(Owing) /\ Owing \subseteq Clients /\ Cardinality(Owing) <= Cardinality(Clients)
      BY FS_Subset, NetworkAssumption DEF Owing
    <2>6. /\ Cardinality(Owing) \in Nat /\ Cardinality(Owing) > 0
          /\ Cardinality(Owing') = Cardinality(Owing) - 1
      BY <2>4, <2>5, FS_RemoveElement, FS_EmptySet, FS_CardinalityType
    <2>7. ~ \E w \in Workers : Past(w) BY <2>4 DEF Meta
    <2>8. transition[X] = Cardinality(Owing) /\ transition[X] # None
      BY <2>1, <2>7 DEF Meta
    <2>9. transition'[X] = (Cardinality(Owing) + CounterMod - 1) % CounterMod
      BY <1>0, <1>1, <1>2, <1>5, <2>8
    <2>10. transition'[X] = Cardinality(Owing')
      <3>1. Cardinality(Clients) \in Nat /\ Cardinality(Clients) < CounterMod /\ CounterMod \in Nat
        BY CardType, CoordinatorAssumption DEF Calm
      <3>2. ASSUME NEW n \in Nat, NEW m \in Nat, n > 0, n < m
            PROVE  (n + m - 1) % m = n - 1
        BY <3>2
      <3> QED BY <2>5, <2>6, <2>9, <3>1, <3>2
    <2>11. transition'[X] # None
      <3>1. Cardinality(Owing') \in Nat BY <2>6
      <3> QED BY <2>10, <3>1, NetworkAssumption
    <2> QED BY <1>1, <1>3, <2>1, <2>3, <2>7, <2>10, <2>11 DEF Meta, INTERMEDIATE, DEGRADED, COORDINATED
  <1> QED BY <1>4, <1>5

(* The coordinator records the clients when a switch starts: all are       *)
(* counted, and none has been told.                                        *)
LEMMA SwitchPhaseMeta ==
    ASSUME Calm, CalmInv, Meta, NEW d \in Dispatchers, NEW start \in BOOLEAN,
           NEW isCrashed \in BOOLEAN, SwitchPhase(d, {X}, start, isCrashed), UNCHANGED clientVars
    PROVE  Meta'
  <1>0. X \in Servers BY Switched
  <1>1. /\ UNCHANGED <<serversState, worker, cState, syncMeta>> /\ Mode' = Mode
        /\ Mode = Origin(start)
    BY DEF SwitchPhase, Calm, Mode, clientVars, transitInfo
  <1>2. /\ \A w \in Workers : Past(w)' <=> Past(w)
        /\ \A c \in Clients : (Owes(c)' <=> Owes(c)) /\ Syncing(c)'
    BY <1>1 DEF Past, Active, Owes, Syncing, View, Meta
  <1>3. Owing' = Owing BY <1>2 DEF Owing
  <1>4. CASE start
    <2>1. Mode = NORMAL BY <1>1, <1>4 DEF Origin
    <2>2. Owing = Clients BY <2>1, ViewsBefore
    <2>3. transition'[X] = IF transition[X] = None THEN Cardinality(Clients) % CounterMod
                                                   ELSE transition[X]
      <3>1. Members = Clients BY DEF Members, CalmInv, Group
      <3> QED BY <1>0, <1>4, <3>1 DEF SwitchPhase
    <2>4. Cardinality(Clients) % CounterMod = Cardinality(Clients) /\ Cardinality(Clients) # None
      <3>1. Cardinality(Clients) \in Nat /\ Cardinality(Clients) < CounterMod /\ CounterMod \in Nat
        BY CardType, CoordinatorAssumption DEF Calm
      <3>2. ASSUME NEW n \in Nat, NEW m \in Nat, n < m PROVE n % m = n BY <3>2
      <3> QED BY <3>1, <3>2, NetworkAssumption
    <2>5. transition'[X] = Cardinality(Owing') /\ transition'[X] # None
      BY <1>3, <2>2, <2>3, <2>4 DEF Meta
    <2>6. ASSUME NEW w \in Workers PROVE ~Past(w)
      BY <2>1, PastMode DEF NORMAL, INTERMEDIATE
    <2> QED BY <1>1, <1>2, <2>1, <2>5, <2>6 DEF Meta, NORMAL, INTERMEDIATE, DEGRADED, COORDINATED
  <1>5. CASE ~start
    <2>1. UNCHANGED transition BY <1>5 DEF SwitchPhase
    <2>2. \A e \in Dispatchers : Starting(e)' => Starting(e)
      BY <1>5 DEF SwitchPhase, Starting, IdleDispatcher, CalmInv, TypeOK, CoordTypeOK
    <2> QED BY <1>1, <1>2, <2>1, <2>2, MetaKept
  <1> QED BY <1>4, <1>5

(* The state is changed after the clients were counted.                    *)
LEMMA InitServerMeta ==
    ASSUME Calm, CalmInv, Meta, NEW d \in Dispatchers, InitServer(d, X),
           UNCHANGED <<clientVars, status>>
    PROVE  Meta'
  <1>0. X \in Servers /\ dispatcher[d] \in DispatcherState
    BY Switched DEF CalmInv, TypeOK, CoordTypeOK
  <1>1. /\ Mode = Origin(dispatcher[d].start)
        /\ serversState' = [serversState EXCEPT ![X] = Transient(dispatcher[d].start)]
        /\ dispatcher[d].start \in BOOLEAN
    BY <1>0, InitServerCalm DEF DispatcherState
  <1>2. Mode' = Transient(dispatcher[d].start)
    BY <1>0, <1>1 DEF Mode, CalmInv, TypeOK, CoordTypeOK
  <1>3. UNCHANGED <<worker, cState, syncMeta, transition>>
    BY DEF InitServer, clientVars, transitInfo, metaVars
  <1>4. ASSUME NEW w \in Workers PROVE ~Past(w) /\ ~Past(w)'
    <2>1. ~Past(w)
      BY <1>1, PastMode DEF Origin, NORMAL, INTERMEDIATE, DEGRADED
    <2> QED BY <1>3, <2>1 DEF Past, Active
  <1>5. ASSUME NEW c \in Clients PROVE (Owes(c)' <=> Owes(c)) /\ Syncing(c)'
    <2>1. syncMeta[c][X] = 0
      BY <1>1 DEF Meta, Syncing, Origin, NORMAL, INTERMEDIATE, DEGRADED
    <2> QED BY <1>3, <2>1 DEF Owes, Syncing, View
  <1>6. Owing' = Owing BY <1>5 DEF Owing
  <1>7. /\ dispatcher[d].start => Starting(d)
        /\ \A e \in Dispatchers : Starting(e)' => Starting(e)
    <2>1. /\ dispatcher[d].pc = "init" /\ X \in dispatcher[d].todo
          /\ dispatcher[d].todo \subseteq {X}
      BY DEF InitServer, CalmInv, Quiet
    <2>2. dispatcher[d].todo = {X} BY <2>1
    <2>3. \A e \in Dispatchers : e = d BY DEF Calm
    <2>4. dispatcher'[d].start = dispatcher[d].start
      BY <1>0 DEF InitServer, DispatcherState, CalmInv, TypeOK, CoordTypeOK
    <2> QED BY <2>1, <2>2, <2>3, <2>4 DEF Starting
  <1>8. CASE dispatcher[d].start
    <2>1. Mode' = INTERMEDIATE BY <1>2, <1>8 DEF Transient
    <2>2. transition[X] # None BY <1>7, <1>8 DEF Meta
    <2> QED BY <1>3, <1>4, <1>5, <1>6, <2>1, <2>2 DEF Meta, INTERMEDIATE, DEGRADED, COORDINATED
  <1>9. CASE ~dispatcher[d].start
    <2>1. Mode' = COORDINATED /\ Mode = DEGRADED BY <1>1, <1>2, <1>9 DEF Transient, Origin
    <2> QED BY <1>3, <1>4, <1>5, <1>6, <1>7, <2>1 DEF Meta, INTERMEDIATE, DEGRADED, COORDINATED
  <1> QED BY <1>8, <1>9

(* The wait for the metadata ends when no client owes any.                 *)
LEMMA MetadataEnds ==
    ASSUME Calm, CalmInv, Meta, NEW w \in Workers, TransitToDegradedEnd(w), UNCHANGED clientVars
    PROVE  Meta'
  <1>0. X \in Servers /\ worker \in [Workers -> WorkerState] /\ worker[w] \in WorkerState
    BY Switched DEF CalmInv, TypeOK, CoordTypeOK
  <1>1. /\ worker[w].pc = "metadata"
        /\ UNCHANGED <<serversState, cState, syncMeta, dispatcher>> /\ Mode' = Mode
        /\ worker' = [worker EXCEPT ![w].pc = "check"]
    BY DEF TransitToDegradedEnd, clientVars, transitInfo, Mode
  <1>2. /\ worker[w].server = X /\ Mode \in {INTERMEDIATE, COORDINATED}
        /\ worker[w].start => Mode = INTERMEDIATE
        /\ \A v \in Workers : Active(v) => v = w
    BY <1>1, AtWork DEF Active
  <1>3. transition[X] \in {0, None} /\ transition'[X] = None
    BY <1>0, <1>2 DEF TransitToDegradedEnd, CalmInv, TypeOK, CoordTypeOK
  <1>4. ~ \E v \in Workers : Past(v) BY <1>1, <1>2 DEF Past
  <1>5. /\ worker'[w].start = worker[w].start /\ worker'[w].pc = "check"
        /\ \A v \in Workers \ {w} : worker'[v] = worker[v]
    BY <1>0, <1>1 DEF WorkerState
  <1>6. /\ \A v \in Workers : Past(v)' => v = w /\ worker[w].start
        /\ worker[w].start => Past(w)'
    BY <1>2, <1>5 DEF Past, Active
  <1>7. /\ \A c \in Clients : (Owes(c)' <=> Owes(c)) /\ Syncing(c)'
        /\ \A d \in Dispatchers : ~Starting(d)'
    <2>1. \A d \in Dispatchers : ~Starting(d)' BY <1>1, AtWork DEF Active, Starting
    <2> QED BY <1>1, <2>1 DEF Owes, Syncing, View, Meta
  <1>8. Owing' = Owing BY <1>7 DEF Owing
  <1>9. Mode = INTERMEDIATE => worker[w].start /\ Owing = {}
    <2>1. Mode = INTERMEDIATE => worker[w].start
      BY <1>1, AtWork DEF Active, INTERMEDIATE, COORDINATED
    <2>2. Mode = INTERMEDIATE => Cardinality(Owing) = 0 BY <1>3, <1>4 DEF Meta
    <2>3. IsFiniteSet(Owing) BY FS_Subset, NetworkAssumption DEF Owing
    <2> QED BY <2>1, <2>2, <2>3, FS_EmptySet
  <1> QED BY <1>1, <1>2, <1>3, <1>6, <1>7, <1>8, <1>9 DEF Meta

(* A worker completes a transition: to DEGRADED, when it is past the wait. *)
LEMMA EndsMeta ==
    ASSUME Calm, CalmInv, Meta, NEW w \in Workers, Ends(w)
    PROVE  Meta'
  <1>0. X \in Servers /\ worker \in [Workers -> WorkerState] /\ worker[w] \in WorkerState
    BY Switched DEF CalmInv, TypeOK, CoordTypeOK
  <1>1. /\ worker[w].pc \in {"commit", "normalEnd"}
        /\ UNCHANGED <<cState, syncMeta, dispatcher, transition>>
    BY DEF Ends, clientVars, transitInfo, metaVars
  <1>2. /\ Mode = IF worker[w].start THEN INTERMEDIATE ELSE COORDINATED
        /\ worker[w].start \in BOOLEAN
        /\ \A v \in Workers : Active(v) => v = w
        /\ \A d \in Dispatchers : ~Starting(d)'
    BY <1>1, AtWork DEF Active, Starting
  <1>3. Mode' = IF Mode = INTERMEDIATE THEN DEGRADED ELSE NORMAL
    BY <1>0 DEF Ends, Mode, CalmInv, TypeOK, CoordTypeOK
  <1>4. transition[X] = None
    <2>1. CASE worker[w].start
      <3>1. Past(w) BY <1>1, <2>1 DEF Past, Active
      <3> QED BY <3>1 DEF Meta
    <2>2. CASE ~worker[w].start BY <1>2, <2>2 DEF Meta
    <2> QED BY <2>1, <2>2
  <1>5. ASSUME NEW c \in Clients PROVE syncMeta[c][X] = 0
    <2>1. CASE worker[w].start
      <3>1. Past(w) BY <1>1, <2>1 DEF Past, Active
      <3>2. c \notin Owing BY <3>1 DEF Meta
      <3> QED BY <3>2 DEF Owing, Owes
    <2>2. CASE ~worker[w].start
      BY <1>2, <2>2 DEF Meta, Syncing, INTERMEDIATE, COORDINATED
    <2> QED BY <2>1, <2>2
  <1>6. \A c \in Clients : Syncing(c)' BY <1>1, <1>5 DEF Syncing
  <1>7. ASSUME NEW v \in Workers PROVE ~Past(v)'
    <2>1. worker'[w].pc = "send" /\ \A u \in Workers \ {w} : worker'[u] = worker[u]
      BY <1>0 DEF Ends, WorkerState
    <2> QED BY <1>2, <2>1 DEF Past, Active
  <1> QED BY <1>1, <1>2, <1>3, <1>4, <1>6, <1>7 DEF Meta, NORMAL, INTERMEDIATE, DEGRADED

(* The other steps of the coordinator.                                     *)
LEMMA CoordMeta ==
    ASSUME Calm, CalmInv, Meta, UNCHANGED clientVars,
           \/ \E d \in Dispatchers : InitCompose(d) \/ InitSend(d) \/ InsertEvent(d, X) \/ InitDone(d)
           \/ \E w \in Workers : \/ ExtractEvent(w) \/ CheckAck(w) \/ CondWait(w) \/ WorkerSend(w)
                                 \/ /\ worker[w].pc = "commit" /\ ~worker[w].start
                                    /\ worker' = [worker EXCEPT ![w].pc = "normalEnd"]
                                    /\ UNCHANGED <<serversState, metaVars, dispatcher>>
           \/ \E c \in Clients : UpdateState(c, X)
           \/ SignalAcked
    PROVE  Meta'
  <1>0. /\ worker \in [Workers -> WorkerState] /\ dispatcher \in [Dispatchers -> DispatcherState]
        /\ TypeOK
    BY DEF CalmInv, TypeOK, CoordTypeOK
  <1>1. UNCHANGED <<serversState, transition, cState, syncMeta>> /\ Mode' = Mode
    BY DEF InitCompose, InitSend, InsertEvent, InitDone, ExtractEvent, CheckAck, CondWait,
       WorkerSend, UpdateState, SignalAcked, metaVars, clientVars, transitInfo, Mode
  <1>2. ASSUME NEW d \in Dispatchers,
               InitCompose(d) \/ InitSend(d) \/ InsertEvent(d, X) \/ InitDone(d)
        PROVE  Meta'
    <2>1. UNCHANGED worker BY <1>2 DEF InitCompose, InitSend, InsertEvent, InitDone
    <2>2. dispatcher'[d].pc # "init"
      BY <1>0, <1>2 DEF InitCompose, InitSend, InsertEvent, InitDone, IdleDispatcher, DispatcherState
    <2>3. \A e \in Dispatchers : ~Starting(e)' BY <2>2 DEF Starting, Calm
    <2> QED BY <1>1, <2>1, <2>3, MetaKept DEF Past, Active
  <1>3. ASSUME UNCHANGED dispatcher, \A w \in Workers : Past(w)' <=> Past(w)
        PROVE  Meta'
    BY <1>1, <1>3, MetaKept DEF Starting
  <1>4. ASSUME NEW s, NEW v \in Workers
        PROVE  /\ Woken(s)[v].start = worker[v].start
               /\ \/ Woken(s)[v].pc = worker[v].pc
                  \/ worker[v].pc = "waiting" /\ Woken(s)[v].pc = "commit"
    BY <1>0 DEF Woken, WorkerState
  <1>5. CASE SignalAcked
    <2>1. UNCHANGED dispatcher /\ (worker' = worker \/ worker' = Woken(reader.server))
      BY <1>5 DEF SignalAcked
    <2> QED BY <1>3, <1>4, <2>1 DEF Past, Active
  <1>6. ASSUME NEW c \in Clients, UpdateState(c, X) PROVE Meta'
    BY <1>3, <1>6 DEF UpdateState, Past, Active
  <1>7. ASSUME NEW w \in Workers, CheckAck(w) PROVE Meta'
    <2>1. PICK f \in {worker, Woken(worker[w].server)}, pc \in {"commit", "decided"} :
              worker' = [f EXCEPT ![w].pc = pc]
      BY <1>7 DEF CheckAck
    <2>2. f \in [Workers -> WorkerState] BY <1>0, <2>1, WokenType
    <2>3. /\ worker'[w].pc = pc /\ worker'[w].start = f[w].start
          /\ \A v \in Workers \ {w} : worker'[v] = f[v]
      BY <2>1, <2>2 DEF WorkerState
    <2>4. worker[w].pc = "check" /\ UNCHANGED dispatcher BY <1>7 DEF CheckAck
    <2>5. ASSUME NEW v \in Workers PROVE Past(v)' <=> Past(v)
      <3>1. /\ f[v].start = worker[v].start
            /\ \/ f[v].pc = worker[v].pc
               \/ worker[v].pc = "waiting" /\ f[v].pc = "commit"
        BY <1>4, <2>1
      <3> QED BY <2>1, <2>3, <2>4, <3>1 DEF Past, Active
    <2> QED BY <1>3, <2>4, <2>5
  <1>8. ASSUME NEW w \in Workers, ExtractEvent(w) \/ CondWait(w) \/ WorkerSend(w)
        PROVE  Meta'
    <2>1. /\ UNCHANGED dispatcher
          /\ \A v \in Workers \ {w} : worker'[v] = worker[v]
      BY <1>0, <1>8 DEF ExtractEvent, CondWait, WorkerSend
    <2>2. Past(w)' <=> Past(w)
      <3>1. CASE ExtractEvent(w)
        <4>1. /\ worker[w].pc = "idle"
              /\ worker'[w].pc = IF worker'[w].start THEN "metadata" ELSE "check"
          BY <1>0, <3>1 DEF ExtractEvent
        <4> QED BY <4>1 DEF Past, Active
      <3>2. CASE CondWait(w) BY <1>0, <3>2 DEF CondWait, Past, Active, WorkerState
      <3>3. CASE WorkerSend(w) BY <1>0, <3>3 DEF WorkerSend, Past, Active, IdleWorker
      <3> QED BY <1>8, <3>1, <3>2, <3>3
    <2> QED BY <1>3, <2>1, <2>2 DEF Past, Active
  <1>9. ASSUME NEW w \in Workers, ~worker[w].start,
               worker' = [worker EXCEPT ![w].pc = "normalEnd"], UNCHANGED dispatcher
        PROVE  Meta'
    <2>1. /\ worker'[w].start = worker[w].start
          /\ \A v \in Workers \ {w} : worker'[v] = worker[v]
      BY <1>0, <1>9 DEF WorkerState
    <2> QED BY <1>3, <1>9, <2>1 DEF Past, Active
  <1> QED BY <1>2, <1>5, <1>6, <1>7, <1>8, <1>9

(* Every step keeps the count exact.                                       *)
LEMMA MetaStep ==
    ASSUME Calm, CalmInv, Meta, [Next]_vars
    PROVE  Meta'
  <1>1. CASE UNCHANGED vars
    <2>1. UNCHANGED <<serversState, transition, cState, syncMeta, worker, dispatcher>>
      BY <1>1 DEF vars, coordVars, clientVars, transitInfo, metaVars
    <2> QED BY <2>1, MetaKept DEF Mode, Past, Active, Starting
  <1>2. ASSUME UNCHANGED <<clientVars, status>>,
               \/ \E d \in Dispatchers : DispatcherSteps(d)
               \/ \E w \in Workers : WorkerStep(w)
               \/ \E c \in Clients : UpdateState(c, X)
               \/ SignalAcked
        PROVE  Meta'
    <2>0. UNCHANGED clientVars BY <1>2
    <2>1. ASSUME NEW d \in Dispatchers, DispatcherSteps(d) PROVE Meta'
      BY <1>2, <2>0, <2>1, SwitchPhaseMeta, InitServerMeta, CoordMeta DEF DispatcherSteps
    <2>2. ASSUME NEW w \in Workers, WorkerStep(w) PROVE Meta'
      <3>1. CASE Commit(w) \/ TransitToNormalEnd(w)
        BY <1>2, <2>0, <3>1, CommitKinds, EndsMeta, CoordMeta
      <3>2. CASE TransitToDegradedEnd(w) BY <2>0, <3>2, MetadataEnds
      <3> QED BY <2>0, <2>2, <3>1, <3>2, CoordMeta DEF WorkerStep
    <2> QED BY <1>2, <2>0, <2>1, <2>2, CoordMeta
  <1>3. ASSUME UNCHANGED <<coordVars, status>>, NEW c \in Clients,
               Quietly(c) \/ NextMessage(c) \/ \E s \in Servers : SetState(c, s)
        PROVE  Meta'
    <2>0. UNCHANGED coordVars BY <1>3
    <2>1. CASE NextMessage(c)
      <3>1. UNCHANGED <<serversState, transition, cState, syncMeta, worker, dispatcher>>
        BY <2>0, <2>1 DEF NextMessage, coordVars, clientVars, transitInfo, metaVars
      <3> QED BY <3>1, MetaKept DEF Mode, Past, Active, Starting
    <2> QED BY <1>3, <2>0, <2>1, QuietlyMeta, SetStateMeta
  <1> QED BY <1>1, <1>2, <1>3, CalmSteps, SyncMetadataMeta

(* When the wait for the metadata is over, every client was told of the    *)
(* transition and its metadata has arrived: the counter, kept by the       *)
(* packets of the clients in uint32_t arithmetic, is exact.                *)
THEOREM MetadataArrived == ASSUME Calm PROVE Spec => []MetadataSynced
  <1>1. Init => Meta
    <2>1. X \in Servers BY Switched
    <2> SUFFICES ASSUME Init PROVE Meta OBVIOUS
    <2>2. /\ Mode = NORMAL /\ transition[X] = None
          /\ \A c \in Clients : syncMeta[c][X] = 0
      BY <2>1 DEF Init, CoordInit, ClientInit, Mode
    <2>3. /\ \A w \in Workers : worker[w].pc = "idle"
          /\ \A d \in Dispatchers : dispatcher[d].pc = "idle"
      BY DEF Init, CoordInit, IdleWorker, IdleDispatcher
    <2> QED BY <2>2, <2>3 DEF Meta, Syncing, Past, Active, Starting, NORMAL, INTERMEDIATE, DEGRADED,
               COORDINATED
  <1>2. CalmInv /\ Meta /\ [Next]_vars => Meta' BY MetaStep
  <1>3. CalmInv /\ Meta => MetadataSynced
    <2> SUFFICES ASSUME CalmInv, Meta, NEW w \in Workers, Past(w), NEW c \in Members
                 PROVE  /\ cState[c][worker[w].server] \in {INTERMEDIATE, WAIT_DEGRADED}
                        /\ syncMeta[c][worker[w].server] = 0
      BY DEF MetadataSynced, Past
    <2>1. worker[w].server = X /\ Mode = INTERMEDIATE BY AtWork, PastMode DEF Past
    <2>2. c \in Clients /\ ~Owes(c) BY DEF Members, Meta, Owing
    <2>3. View(c) \in {Base(Mode), Going(Mode), WaitIn(Mode), WaitOut(Mode)}
      BY <2>2 DEF CalmInv, Boxes, BoxTrue
    <2> QED BY <2>1, <2>2, <2>3 DEF Owes, View, Base, Going, WaitIn, WaitOut
  <1> QED BY <1>1, <1>2, <1>3, CalmInvariant, PTL DEF Spec
=============================================================================

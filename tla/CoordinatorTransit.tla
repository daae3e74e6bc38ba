------------------------- MODULE CoordinatorTransit -------------------------
(***************************************************************************)
(* The coordinator's side of a state transition.  Three kinds of threads   *)
(* share the handler's state:                                              *)
(*   - dispatchers, the coordinator worker threads that take a             *)
(*     SWITCH_PHASE event and run stateChangeInitHandler;                  *)
(*   - transit workers, which take the events the dispatchers insert, wait *)
(*     for the clients and complete the transition;                        *)
(*   - the reader, which handles what Spread delivers: acknowledgements    *)
(*     and membership changes.                                             *)
(* sendState first copies the states into a buffer and then multicasts the *)
(* buffer, with no lock around the two: composing and sending a message    *)
(* are separate steps of each thread.                                      *)
(***************************************************************************)
EXTENDS TransitNetwork

CONSTANTS
    Workers,            \* transit worker threads
    Dispatchers,        \* coordinator worker threads that handle SWITCH_PHASE
    InitialClients,     \* clients in the group when the coordinator starts
    Switchable,         \* servers that overload, crash or are switched by hand
    QueueSize,          \* capacity of the transit event queue
    CounterMod,         \* 2^32: the modulus of uint32_t counters
    MaxSwitches,        \* bound: SWITCH_PHASE events
    MaxServerJoins,     \* bound: membership messages of joining servers
    MaxSendFailures,    \* bound: multicasts that Spread refuses
    RedundantSwitches,  \* whether a SWITCH_PHASE event may name a server that
                        \* is not in the state the switch starts from
    SpuriousWakeups     \* whether pthread_cond_wait may return by itself

ASSUME CoordinatorAssumption ==
    /\ InitialClients \subseteq Clients
    /\ Switchable \subseteq Servers
    /\ QueueSize \in Nat \ {0}
    /\ CounterMod \in Nat \ {0, 1}
    /\ MaxSwitches \in Nat /\ MaxServerJoins \in Nat /\ MaxSendFailures \in Nat
    /\ RedundantSwitches \in BOOLEAN /\ SpuriousWakeups \in BOOLEAN

VARIABLES
    serversState,   \* the state of each server
    aliveClients,   \* clients the reader saw join and not leave
    ackClients,     \* per server, the clients that acknowledged
    crashedServers, \* servers switched because they crashed
    transition,     \* per server, clients yet to send metadata (None: no entry)
    reconstructing, \* servers for which reconstruction was triggered
    eventQueue,     \* transit events waiting for a worker
    worker,         \* the transit workers
    dispatcher,     \* the dispatchers
    reader,         \* the reader thread
    terminated,     \* an uncaught exception ended the process
    switches, serverJoins, sendFailures     \* events so far, for the bounds

ackVars   == <<aliveClients, ackClients>>
metaVars  == <<crashedServers, transition, reconstructing>>
boundVars == <<switches, serverJoins, sendFailures>>
coordVars == <<serversState, ackVars, metaVars, eventQueue, worker, dispatcher,
               reader, terminated, boundVars>>

Event == [server : Servers, start : BOOLEAN]

WorkerPC == {"idle", "metadata", "check", "decided", "waiting", "commit",
             "normalEnd", "send"}
WorkerState ==
    [pc : WorkerPC, server : Servers \cup {None}, start : BOOLEAN,
     msg : Records(CoordStates)]

DispatcherState ==
    [pc : {"idle", "init", "send", "insert"}, start : BOOLEAN,
     todo : SUBSET Servers,      \* servers the loop has yet to look at
     skipped : SUBSET Servers,   \* servers left in allServers
     checked : SUBSET Servers,   \* servers whose state was changed
     msg : Records(CoordStates)]

ReaderState ==
    [pc : {"idle", "signal", "erase", "send"}, client : Clients \cup {None},
     server : Servers \cup {None}, msg : Records(CoordStates)]

IdleWorker == [pc |-> "idle", server |-> None, start |-> FALSE,
               msg |-> NoRecords]
IdleDispatcher == [pc |-> "idle", start |-> FALSE, todo |-> {}, skipped |-> {},
                   checked |-> {}, msg |-> NoRecords]
IdleReader == [pc |-> "idle", client |-> None, server |-> None,
               msg |-> NoRecords]

CoordTypeOK ==
    /\ serversState \in [Servers -> CoordStates]
    /\ aliveClients \subseteq Clients
    /\ ackClients \in [Servers -> SUBSET Clients]
    /\ crashedServers \subseteq Servers
    /\ transition \in [Servers -> (0 .. CounterMod - 1) \cup {None}]
    /\ reconstructing \subseteq Servers
    /\ eventQueue \in Seq(Event)
    /\ worker \in [Workers -> WorkerState]
    /\ dispatcher \in [Dispatchers -> DispatcherState]
    /\ reader \in ReaderState
    /\ terminated \in BOOLEAN
    /\ switches \in Nat /\ serverJoins \in Nat /\ sendFailures \in Nat

CoordInit ==
    /\ serversState = [s \in Servers |-> NORMAL]
    /\ aliveClients = InitialClients
    /\ ackClients = [s \in Servers |-> {}]
    /\ crashedServers = {}
    /\ transition = [s \in Servers |-> None]
    /\ reconstructing = {}
    /\ eventQueue = <<>>
    /\ worker = [w \in Workers |-> IdleWorker]
    /\ dispatcher = [d \in Dispatchers |-> IdleDispatcher]
    /\ reader = IdleReader
    /\ terminated = FALSE
    /\ switches = 0 /\ serverJoins = 0 /\ sendFailures = 0

-----------------------------------------------------------------------------
(* The state a switch starts from, and the state of the server while the   *)
(* switch is under way.                                                    *)
Origin(start)    == IF start THEN NORMAL ELSE DEGRADED
Transient(start) == IF start THEN INTERMEDIATE ELSE COORDINATED

(* A worker keeps serversStateLock[s] from its state check to the end of   *)
(* its broadcast.                                                          *)
StateLocked(s) ==
    \E w \in Workers : worker[w].server = s /\ worker[w].pc \in {"normalEnd", "send"}

(* ackSignalLock is held between the check of the acknowledgements and the *)
(* wait; pthread_cond_wait releases it.                                    *)
AckSignalLocked == \E w \in Workers : worker[w].pc = "decided"

(* pthread_cond_broadcast on ackSignal of server s: it reaches only the    *)
(* workers that are waiting already.                                       *)
Woken(s) ==
    [w \in Workers |->
        IF worker[w].pc = "waiting" /\ worker[w].server = s
        THEN [worker[w] EXCEPT !.pc = "commit"]
        ELSE worker[w]]

(* The buffer sendState builds for the servers S; an empty list stands for *)
(* all servers that are alive.                                             *)
Compose(state, S) == [s \in (IF S = {} THEN Servers ELSE S) |-> state[s]]

AllAcked(alive, acks) == Cardinality(alive) = Cardinality(acks)

-----------------------------------------------------------------------------
(* Dispatchers                                                             *)

(* The SWITCH_PHASE event: record how many clients have to send their      *)
(* metadata (an entry that exists already is kept), note crashed servers.  *)
(* A switch back to normal leaves crashed servers out.                     *)
SwitchPhase(d, S, start, isCrashed) ==
    /\ dispatcher[d].pc = "idle"
    /\ switches < MaxSwitches
    /\ RedundantSwitches \/ \A s \in S : serversState[s] = Origin(start)
    /\ switches' = switches + 1
    /\ IF start
       THEN /\ transition' = [s \in Servers |->
                    IF s \in S /\ transition[s] = None
                    THEN Cardinality(Members) % CounterMod
                    ELSE transition[s]]
            /\ crashedServers' = IF isCrashed THEN crashedServers \cup S
                                              ELSE crashedServers
       ELSE UNCHANGED <<transition, crashedServers>>
    /\ dispatcher' = [dispatcher EXCEPT ![d] =
            [IdleDispatcher EXCEPT
                !.pc = "init", !.start = start,
                !.todo = IF start THEN S ELSE S \ crashedServers]]
    /\ UNCHANGED <<serversState, ackVars, reconstructing, eventQueue,
                   worker, reader, terminated, serverJoins, sendFailures,
                   netVars>>

(* Mutant: acknowledgements of the previous transition are kept.           *)
InitServerKeepsAcks(d, s) ==
    /\ dispatcher[d].pc = "init"
    /\ s \in dispatcher[d].todo
    /\ ~StateLocked(s)
    /\ LET start == dispatcher[d].start
           go == serversState[s] = Origin(start)
       IN  /\ serversState' = IF go THEN [serversState EXCEPT ![s] = Transient(start)]
                                    ELSE serversState
           /\ dispatcher' = [dispatcher EXCEPT
                ![d].todo = @ \ {s},
                ![d].checked = IF go THEN @ \cup {s} ELSE @,
                ![d].skipped = IF go THEN @ ELSE @ \cup {s}]
    /\ UNCHANGED <<ackVars, metaVars, eventQueue, worker, reader, terminated,
                   boundVars, netVars>>

(* Mutant: a server that is already on its way is started again.           *)
InitServerTwice(d, s) ==
    /\ dispatcher[d].pc = "init"
    /\ s \in dispatcher[d].todo
    /\ ~StateLocked(s)
    /\ serversState' = [serversState EXCEPT ![s] = Transient(dispatcher[d].start)]
    /\ ackClients' = [ackClients EXCEPT ![s] = {}]
    /\ dispatcher' = [dispatcher EXCEPT
            ![d].todo = @ \ {s}, ![d].checked = @ \cup {s}]
    /\ UNCHANGED <<aliveClients, metaVars, eventQueue, worker, reader,
                   terminated, boundVars, netVars>>

(* One iteration of the first loop of stateChangeInitHandler.              *)
InitServer(d, s) ==
    /\ dispatcher[d].pc = "init"
    /\ s \in dispatcher[d].todo
    /\ ~StateLocked(s)
    /\ LET start == dispatcher[d].start
           go == serversState[s] = Origin(start)
       IN  IF go
           THEN /\ serversState' = [serversState EXCEPT ![s] =
                        Transient(start)]
                /\ ackClients' = [ackClients EXCEPT ![s] = {}]
                /\ dispatcher' = [dispatcher EXCEPT
                        ![d].todo = @ \ {s}, ![d].checked = @ \cup {s}]
           ELSE /\ dispatcher' = [dispatcher EXCEPT
                        ![d].todo = @ \ {s}, ![d].skipped = @ \cup {s}]
                /\ UNCHANGED <<serversState, ackClients>>
    /\ UNCHANGED <<aliveClients, metaVars, eventQueue, worker, reader,
                   terminated, boundVars, netVars>>

(* broadcastState, first half: fill the message buffer.                    *)
InitCompose(d) ==
    /\ dispatcher[d].pc = "init"
    /\ dispatcher[d].todo = {}
    /\ dispatcher' = [dispatcher EXCEPT
            ![d].pc = "send",
            ![d].msg = Compose(serversState, dispatcher[d].checked)]
    /\ UNCHANGED <<serversState, ackVars, metaVars, eventQueue, worker,
                   reader, terminated, boundVars, netVars>>

(* broadcastState, second half: the multicast succeeds.                    *)
InitSend(d) ==
    /\ dispatcher[d].pc = "send"
    /\ Multicast(dispatcher[d].msg)
    /\ dispatcher' = [dispatcher EXCEPT
            ![d].pc = "insert", ![d].msg = NoRecords]
    /\ UNCHANGED <<serversState, ackVars, metaVars, eventQueue, worker,
                   reader, terminated, boundVars, status, coordBox>>

(* The multicast fails.  The loop that should undo the change walks        *)
(* allServers, from which the changed servers were removed: it reverts the *)
(* first |checked| of the servers that were skipped, and at() throws when  *)
(* there are fewer.                                                        *)
InitSendFails(d) ==
    /\ dispatcher[d].pc = "send"
    /\ sendFailures < MaxSendFailures
    /\ sendFailures' = sendFailures + 1
    /\ \E R \in SUBSET dispatcher[d].skipped :
        /\ \/ Cardinality(R) = Cardinality(dispatcher[d].checked)
           \/ /\ R = dispatcher[d].skipped
              /\ Cardinality(R) < Cardinality(dispatcher[d].checked)
        /\ \A s \in R : ~StateLocked(s)
        /\ LET start == dispatcher[d].start
           IN  serversState' = [s \in Servers |->
                    IF s \in R /\ serversState[s] = Transient(start)
                    THEN Origin(start) ELSE serversState[s]]
        /\ terminated' = (Cardinality(R) < Cardinality(dispatcher[d].checked))
    /\ dispatcher' = [dispatcher EXCEPT
            ![d].pc = "insert", ![d].msg = NoRecords]
    /\ UNCHANGED <<ackVars, metaVars, eventQueue, worker, reader, switches,
                   serverJoins, netVars>>

(* Mutant: an event that finds the queue full is dropped.                  *)
InsertEventOnce(d, s) ==
    /\ dispatcher[d].pc = "insert"
    /\ s \in dispatcher[d].checked
    /\ eventQueue' = IF Len(eventQueue) < QueueSize
                     THEN Append(eventQueue,
                                [server |-> s, start |-> dispatcher[d].start])
                     ELSE eventQueue
    /\ dispatcher' = [dispatcher EXCEPT ![d].checked = @ \ {s}]
    /\ UNCHANGED <<serversState, ackVars, metaVars, worker, reader,
                   terminated, boundVars, netVars>>

(* insertRepeatedEvents, one event at a time, retried while the queue is   *)
(* full; the handler returns after the last one.                           *)
InsertEvent(d, s) ==
    /\ dispatcher[d].pc = "insert"
    /\ s \in dispatcher[d].checked
    /\ Len(eventQueue) < QueueSize
    /\ eventQueue' = Append(eventQueue,
            [server |-> s, start |-> dispatcher[d].start])
    /\ dispatcher' = [dispatcher EXCEPT ![d].checked = @ \ {s}]
    /\ UNCHANGED <<serversState, ackVars, metaVars, worker, reader,
                   terminated, boundVars, netVars>>

InitDone(d) ==
    /\ dispatcher[d].pc = "insert"
    /\ dispatcher[d].checked = {}
    /\ dispatcher' = [dispatcher EXCEPT ![d] = IdleDispatcher]
    /\ UNCHANGED <<serversState, ackVars, metaVars, eventQueue, worker,
                   reader, terminated, boundVars, netVars>>

-----------------------------------------------------------------------------
(* Transit workers                                                         *)

ExtractEvent(w) ==
    /\ worker[w].pc = "idle"
    /\ eventQueue # <<>>
    /\ worker' = [worker EXCEPT ![w] =
            [pc |-> IF Head(eventQueue).start THEN "metadata" ELSE "check",
             server |-> Head(eventQueue).server,
             start |-> Head(eventQueue).start,
             msg |-> NoRecords]]
    /\ eventQueue' = Tail(eventQueue)
    /\ UNCHANGED <<serversState, ackVars, metaVars, dispatcher, reader,
                   terminated, boundVars, netVars>>

(* Mutant: the wait for the metadata ends with the first client.           *)
TransitToDegradedEndEarly(w) ==
    LET s == worker[w].server IN
    /\ worker[w].pc = "metadata"
    /\ transition[s] \in {0, 1, None}
    /\ transition' = [transition EXCEPT ![s] = None]
    /\ reconstructing' = IF s \in crashedServers THEN reconstructing \cup {s}
                                                 ELSE reconstructing
    /\ worker' = [worker EXCEPT ![w].pc = "check"]
    /\ UNCHANGED <<serversState, ackVars, crashedServers, eventQueue,
                   dispatcher, reader, terminated, boundVars, netVars>>

(* transitToDegradedEnd: wait until the count of clients that have yet to  *)
(* send metadata is zero, erase it, and trigger the reconstruction of a    *)
(* crashed server.  A missing entry is only reported.                      *)
TransitToDegradedEnd(w) ==
    LET s == worker[w].server IN
    /\ worker[w].pc = "metadata"
    /\ transition[s] \in {0, None}
    /\ transition' = [transition EXCEPT ![s] = None]
    /\ reconstructing' = IF s \in crashedServers THEN reconstructing \cup {s}
                                                 ELSE reconstructing
    /\ worker' = [worker EXCEPT ![w].pc = "check"]
    /\ UNCHANGED <<serversState, ackVars, crashedServers, eventQueue,
                   dispatcher, reader, terminated, boundVars, netVars>>

(* isAllClientAcked under ackSignalLock.  When it holds, it also signals   *)
(* the other workers that wait for this server.                            *)
CheckAck(w) ==
    LET s == worker[w].server
        all == AllAcked(aliveClients, ackClients[s])
    IN
    /\ worker[w].pc = "check"
    /\ ~AckSignalLocked
    /\ worker' = [(IF all THEN Woken(s) ELSE worker) EXCEPT
                    ![w].pc = IF all THEN "commit" ELSE "decided"]
    /\ UNCHANGED <<serversState, ackVars, metaVars, eventQueue, dispatcher,
                   reader, terminated, boundVars, netVars>>

CondWait(w) ==
    /\ worker[w].pc = "decided"
    /\ worker' = [worker EXCEPT ![w].pc = "waiting"]
    /\ UNCHANGED <<serversState, ackVars, metaVars, eventQueue, dispatcher,
                   reader, terminated, boundVars, netVars>>

(* pthread_cond_wait may return without a signal, and the worker does not  *)
(* test its condition again.                                               *)
SpuriousWakeup(w) ==
    /\ SpuriousWakeups
    /\ worker[w].pc = "waiting"
    /\ worker' = [worker EXCEPT ![w].pc = "commit"]
    /\ UNCHANGED <<serversState, ackVars, metaVars, eventQueue, dispatcher,
                   reader, terminated, boundVars, netVars>>

(* Take the server's lock and complete the transition, or give up when the *)
(* state is not the expected one.  No server is ever added to              *)
(* failedServers, so the updated servers are none and the broadcast covers *)
(* every server.                                                           *)
Commit(w) ==
    LET s == worker[w].server
        start == worker[w].start
        degraded == [serversState EXCEPT ![s] = DEGRADED]
    IN
    /\ worker[w].pc = "commit"
    /\ ~StateLocked(s)
    /\ \/ /\ serversState[s] # Transient(start)
          /\ worker' = [worker EXCEPT ![w] = IdleWorker]
          /\ UNCHANGED serversState
       \/ /\ start /\ serversState[s] = INTERMEDIATE
          /\ serversState' = degraded
          /\ worker' = [worker EXCEPT
                ![w].pc = "send", ![w].msg = Compose(degraded, {})]
       \/ /\ ~start /\ serversState[s] = COORDINATED
          /\ worker' = [worker EXCEPT ![w].pc = "normalEnd"]
          /\ UNCHANGED serversState
    /\ UNCHANGED <<ackVars, metaVars, eventQueue, dispatcher, reader,
                   terminated, boundVars, netVars>>

(* transitToNormalEnd has waited, lock in hand, for the migration of the   *)
(* remapped data and for the release of the degraded locks.                *)
TransitToNormalEnd(w) ==
    LET s == worker[w].server
        normal == [serversState EXCEPT ![s] = NORMAL]
    IN
    /\ worker[w].pc = "normalEnd"
    /\ serversState' = normal
    /\ worker' = [worker EXCEPT
            ![w].pc = "send", ![w].msg = Compose(normal, {})]
    /\ UNCHANGED <<ackVars, metaVars, eventQueue, dispatcher, reader,
                   terminated, boundVars, netVars>>

(* The multicast; a refused one returns 0, which is not the negative value *)
(* the worker tests for, and the message is lost.                          *)
WorkerSend(w) ==
    /\ worker[w].pc = "send"
    /\ \/ Multicast(worker[w].msg) /\ UNCHANGED sendFailures
       \/ /\ sendFailures < MaxSendFailures
          /\ sendFailures' = sendFailures + 1
          /\ UNCHANGED clientBox
    /\ worker' = [worker EXCEPT ![w] = IdleWorker]
    /\ UNCHANGED <<serversState, ackVars, metaVars, eventQueue, dispatcher,
                   reader, terminated, switches, serverJoins, status,
                   coordBox>>

-----------------------------------------------------------------------------
(* The reader                                                              *)

(* The wait state that acknowledges a coordinator state.                   *)
Acknowledges(wait, state) ==
    \/ state = INTERMEDIATE /\ wait = WAIT_DEGRADED
    \/ state = COORDINATED  /\ wait = WAIT_NORMAL

(* updateState, one record of an acknowledgement: a record that does not   *)
(* match the state of the server is ignored, another one counts if the     *)
(* client is alive, and the reader goes on to isAllClientAcked.            *)
UpdateState(c, s) ==
    /\ reader.pc = "idle"
    /\ coordBox[c] # <<>>
    /\ Head(coordBox[c]).type = "ack"
    /\ s \in DOMAIN Head(coordBox[c]).states
    /\ LET ack == Head(coordBox[c]).states
           left == DOMAIN ack \ {s}
           rest == [type |-> "ack", states |-> [t \in left |-> ack[t]]]
           hit == Acknowledges(ack[s], serversState[s])
       IN  /\ ackClients' = IF hit /\ c \in aliveClients
                            THEN [ackClients EXCEPT ![s] = @ \cup {c}]
                            ELSE ackClients
           /\ reader' = IF hit THEN [IdleReader EXCEPT !.pc = "signal", !.server = s]
                               ELSE IdleReader
           /\ coordBox' = [coordBox EXCEPT ![c] =
                    IF left = {} THEN Tail(@) ELSE <<rest>> \o Tail(@)]
    /\ UNCHANGED <<serversState, aliveClients, metaVars, eventQueue, worker,
                   dispatcher, terminated, boundVars, status, clientBox>>

(* isAllClientAcked, called by the reader: signal the worker that waits.   *)
(* The reader does not hold ackSignalLock.                                 *)
SignalAcked ==
    /\ reader.pc = "signal"
    /\ worker' = IF AllAcked(aliveClients, ackClients[reader.server])
                 THEN Woken(reader.server) ELSE worker
    /\ reader' = IdleReader
    /\ UNCHANGED <<serversState, ackVars, metaVars, eventQueue, dispatcher,
                   terminated, boundVars, netVars>>

(* A client joined: all states are sent to the group of the clients.       *)
AddAliveClient(c) ==
    /\ reader.pc = "idle"
    /\ coordBox[c] # <<>>
    /\ Head(coordBox[c]).type = "join"
    /\ aliveClients' = aliveClients \cup {c}
    /\ reader' = [IdleReader EXCEPT !.pc = "send",
                                    !.msg = Compose(serversState, {})]
    /\ coordBox' = [coordBox EXCEPT ![c] = Tail(@)]
    /\ UNCHANGED <<serversState, ackClients, metaVars, eventQueue, worker,
                   dispatcher, terminated, boundVars, status, clientBox>>

(* A client left: it leaves aliveClients, and only then, under the other   *)
(* lock, the sets of acknowledgements.                                     *)
RemoveAliveClient(c) ==
    /\ reader.pc = "idle"
    /\ coordBox[c] # <<>>
    /\ Head(coordBox[c]).type = "left"
    /\ aliveClients' = aliveClients \ {c}
    /\ reader' = [IdleReader EXCEPT !.pc = "erase", !.client = c]
    /\ coordBox' = [coordBox EXCEPT ![c] = Tail(@)]
    /\ UNCHANGED <<serversState, ackClients, metaVars, eventQueue, worker,
                   dispatcher, terminated, boundVars, status, clientBox>>

(* Mutant: only the servers in transition forget the client.               *)
EraseAckInTransition ==
    /\ reader.pc = "erase"
    /\ ackClients' = [s \in Servers |->
            IF serversState[s] \in {INTERMEDIATE, COORDINATED}
            THEN ackClients[s] \ {reader.client} ELSE ackClients[s]]
    /\ reader' = IdleReader
    /\ UNCHANGED <<serversState, aliveClients, metaVars, eventQueue, worker,
                   dispatcher, terminated, boundVars, netVars>>

EraseAck ==
    /\ reader.pc = "erase"
    /\ ackClients' = [s \in Servers |-> ackClients[s] \ {reader.client}]
    /\ reader' = IdleReader
    /\ UNCHANGED <<serversState, aliveClients, metaVars, eventQueue, worker,
                   dispatcher, terminated, boundVars, netVars>>

(* A server joined the group: all states are broadcast.                    *)
ServerJoined ==
    /\ reader.pc = "idle"
    /\ serverJoins < MaxServerJoins
    /\ serverJoins' = serverJoins + 1
    /\ reader' = [IdleReader EXCEPT !.pc = "send",
                                    !.msg = Compose(serversState, {})]
    /\ UNCHANGED <<serversState, ackVars, metaVars, eventQueue, worker,
                   dispatcher, terminated, switches, sendFailures, netVars>>

ReaderSend ==
    /\ reader.pc = "send"
    /\ Multicast(reader.msg)
    /\ reader' = IdleReader
    /\ UNCHANGED <<serversState, ackVars, metaVars, eventQueue, worker,
                   dispatcher, terminated, boundVars, status, coordBox>>

(* handleSyncMetadata on the last packet of a client's metadata: one       *)
(* client fewer to wait for, in uint32_t arithmetic.                       *)
SyncMetadataArrived(s) ==
    /\ transition' = [transition EXCEPT ![s] =
            IF @ = None THEN None ELSE (@ + CounterMod - 1) % CounterMod]
    /\ UNCHANGED <<serversState, ackVars, crashedServers, reconstructing,
                   eventQueue, worker, dispatcher, reader, terminated,
                   boundVars>>
=============================================================================

------------------------------- MODULE Queues -------------------------------
(***************************************************************************)
(* The event queue of a coordinator, client or server, its workers, and    *)
(* the pool of packets.                                                    *)
(*                                                                         *)
(* Threads that read sockets insert events into a bounded queue and sleep  *)
(* while it is full; workers extract them and sleep while it is empty.  A  *)
(* worker that has to send a message to several servers puts it into a     *)
(* packet with a reference count, inserts an event for all but the last    *)
(* of them with priority, and sends the last one itself.  An event goes to *)
(* the queue with priority only if the normal one is not empty, as workers *)
(* sleep on the normal one only.                                           *)
(*                                                                         *)
(* Sections under the mutex of a queue are atomic.  A sleeper is in the    *)
(* set of the condition variable, and a signal takes any one of them out.  *)
(***************************************************************************)
EXTENDS Integers, Sequences, FiniteSets, FiniteSetsExt

CONSTANTS
    Producers,          \* threads that read sockets
    Workers,
    Capacity,           \* of the normal queue
    PriorityCapacity,   \* of the queue with priority, as configured
    Copies,             \* servers that a message of a worker is sent to
    PoolSize,           \* packets in the pool
    Stopping,           \* whether the program is stopped
    MaxEvents,          \* bound on the events that producers insert
    MaxExtra            \* bound on the packets outside of the pool

Threads == Producers \cup Workers
Main == "main"          \* the thread that stops everything

\* Events.  A worker's answer to a request is sent in Copies packets.
Request == [type |-> "request"]
Empty == [type |-> "empty"]
Send(p) == [type |-> "send", packet |-> p]
NoEvent == [type |-> "none"]

VARIABLES
    mixed,          \* the normal queue
    priority,       \* the queue with priority
    priorityCount,  \* events with priority, counted by their inserters
    lock,           \* of this count: the thread that holds it, or none
    run,            \* the normal queue is not being stopped
    accepts,        \* the queues that take events
    cvFull, cvEmpty,\* sleepers
    pc,
    event,          \* the event in a thread's hand
    seen,           \* the length of the normal queue that a thread read
    copies,         \* packets that a worker still has to send
    packet,         \* the packet of a worker
    issued,         \* events that producers have inserted
    pool,           \* packets of the pool, as a ring
    readIndex, count,
    refs            \* reference counts of the packets in use

queueVars == <<mixed, priority, priorityCount, lock, run, accepts, cvFull, cvEmpty>>
threadVars == <<pc, event, seen, copies, packet, issued>>
poolVars == <<pool, readIndex, count, refs>>
queuesVars == <<queueVars, threadVars, poolVars>>

Nobody == "nobody"
PoolPackets == 0 .. PoolSize - 1
ExtraPackets == PoolSize .. PoolSize + MaxExtra - 1

QueuesInit ==
    /\ mixed = <<>> /\ priority = <<>> /\ priorityCount = 0 /\ lock = Nobody
    /\ run = TRUE /\ accepts = {"mixed", "priority"}
    /\ cvFull = {} /\ cvEmpty = {}
    /\ pc = [t \in Threads \cup {Main} |-> IF t \in Workers THEN "poll" ELSE "idle"]
    /\ event = [t \in Threads |-> NoEvent]
    /\ seen = [t \in Threads |-> 0]
    /\ copies = [w \in Workers |-> 0]
    /\ packet = [w \in Workers |-> 0]
    /\ issued = 0
    /\ pool = [i \in PoolPackets |-> i] /\ readIndex = 0 /\ count = 0
    /\ refs = [p \in PoolPackets \cup ExtraPackets |-> 0]

Awake(t) == t \notin cvFull \cup cvEmpty
At(t, label) == pc[t] = label /\ Awake(t)
Goto(t, label) == pc' = [pc EXCEPT ![t] = label]

\* pthread_cond_signal
Signal(sleepers) == IF sleepers = {} THEN {sleepers} ELSE {sleepers \ {t} : t \in sleepers}

\* Where a thread goes on after an insertion.
After(t) == IF t \in Producers THEN "idle" ELSE "copy"

-----------------------------------------------------------------------------
(***************************************************************************)
(* RingBuffer and EventQueue: insertion                                    *)
(***************************************************************************)

\* A socket is ready, or the client's socket starts to be served with priority.
Receive(p) ==
    /\ p \in Producers /\ At(p, "idle") /\ issued < MaxEvents
    /\ pc[Main] = "idle"
    /\ issued' = issued + 1
    /\ event' = [event EXCEPT ![p] = Request]
    /\ \/ Goto(p, "insert")
       \/ Goto(p, "prioritizedInsert")
    /\ UNCHANGED <<queueVars, seen, copies, packet, poolVars>>

\* Insert.  A queue that was stopped takes nothing, and the result is not looked at.
Insert(t) ==
    /\ At(t, "insert")
    /\ \/ /\ "mixed" \notin accepts
          /\ event' = [event EXCEPT ![t] = NoEvent]
          /\ Goto(t, After(t))
          /\ UNCHANGED <<mixed, cvFull, cvEmpty>>
       \/ /\ "mixed" \in accepts /\ Len(mixed) = Capacity
          /\ cvFull' = cvFull \cup {t}
          /\ UNCHANGED <<mixed, cvEmpty, pc, event>>
       \/ /\ "mixed" \in accepts /\ Len(mixed) < Capacity
          /\ mixed' = Append(mixed, event[t])
          /\ cvEmpty' \in Signal(cvEmpty)
          /\ event' = [event EXCEPT ![t] = NoEvent]
          /\ Goto(t, After(t))
          /\ UNCHANGED cvFull
    /\ UNCHANGED <<priority, priorityCount, lock, run, accepts, seen, copies, packet, issued, poolVars>>

\* A mutant: the queue with priority is tried although workers may sleep.
ReadCountAlways(t) ==
    /\ At(t, "prioritizedInsert")
    /\ seen' = [seen EXCEPT ![t] = Len(mixed)]
    /\ Goto(t, "tryLock")
    /\ UNCHANGED <<queueVars, event, copies, packet, issued, poolVars>>

\* prioritizedInsert looks at the length of the normal queue without its mutex.
ReadCount(t) ==
    /\ At(t, "prioritizedInsert")
    /\ seen' = [seen EXCEPT ![t] = Len(mixed)]
    /\ Goto(t, IF mixed = <<>> THEN "insert" ELSE "tryLock")
    /\ UNCHANGED <<queueVars, event, copies, packet, issued, poolVars>>

TryLock(t) ==
    /\ At(t, "tryLock")
    /\ IF lock # Nobody \/ priorityCount >= PriorityCapacity
       THEN Goto(t, "insert") /\ UNCHANGED <<lock, priorityCount>>
       ELSE /\ lock' = t
            /\ priorityCount' = priorityCount + 1
            /\ Goto(t, "priorityInsert")
    /\ UNCHANGED <<mixed, priority, run, accepts, cvFull, cvEmpty, event, seen, copies, packet, issued, poolVars>>

PriorityInsert(t) ==
    /\ At(t, "priorityInsert")
    /\ priority' = IF "priority" \in accepts THEN Append(priority, event[t]) ELSE priority
    /\ event' = [event EXCEPT ![t] = NoEvent]
    /\ lock' = Nobody
    /\ Goto(t, "recheck")
    /\ UNCHANGED <<mixed, priorityCount, run, accepts, cvFull, cvEmpty, seen, copies, packet, issued, poolVars>>

\* Workers that emptied the normal queue meanwhile may all sleep: they get an event
\* without a meaning.
Recheck(t) ==
    /\ At(t, "recheck")
    /\ IF Len(mixed) < seen[t]
       THEN event' = [event EXCEPT ![t] = Empty] /\ Goto(t, "insert")
       ELSE UNCHANGED event /\ Goto(t, After(t))
    /\ UNCHANGED <<queueVars, seen, copies, packet, issued, poolVars>>

-----------------------------------------------------------------------------
(***************************************************************************)
(* Workers                                                                 *)
(***************************************************************************)

\* extractMixed: the queue with priority comes first and nobody sleeps on it.
Poll(w) ==
    /\ At(w, "poll")
    /\ IF priority = <<>>
       THEN Goto(w, "extract") /\ UNCHANGED <<priority, event, cvFull>>
       ELSE /\ event' = [event EXCEPT ![w] = Head(priority)]
            /\ priority' = Tail(priority)
            /\ cvFull' = IF pc[Main] = "stopPriority" THEN cvFull \ {Main} ELSE cvFull
            /\ Goto(w, "decrement")
    /\ UNCHANGED <<mixed, priorityCount, lock, run, accepts, cvEmpty, seen, copies, packet, issued, poolVars>>

Decrement(w) ==
    /\ At(w, "decrement") /\ lock = Nobody
    /\ priorityCount' = priorityCount - 1
    /\ Goto(w, "dispatch")
    /\ UNCHANGED <<mixed, priority, lock, run, accepts, cvFull, cvEmpty, event, seen, copies, packet, issued, poolVars>>

\* Workers are told to stop before the queues are.
Stopped == pc[Main] # "idle"

Extract(w) ==
    /\ At(w, "extract")
    /\ \/ /\ mixed # <<>>
          /\ event' = [event EXCEPT ![w] = Head(mixed)]
          /\ mixed' = Tail(mixed)
          /\ cvFull' \in IF pc[Main] = "stopPriority" THEN {cvFull} ELSE Signal(cvFull)
          /\ Goto(w, "dispatch")
          /\ UNCHANGED cvEmpty
       \/ /\ mixed = <<>> /\ run
          /\ cvEmpty' = cvEmpty \cup {w}
          /\ UNCHANGED <<mixed, event, cvFull, pc>>
       \/ /\ mixed = <<>> /\ ~run
          /\ Goto(w, IF Stopped THEN "ended" ELSE "poll")
          /\ UNCHANGED <<mixed, event, cvFull, cvEmpty>>
    /\ UNCHANGED <<priority, priorityCount, lock, run, accepts, seen, copies, packet, issued, poolVars>>

\* PacketPool::free: the last one gives the packet back.
WriteIndex == (readIndex + PoolSize - count) % PoolSize
Freed(p) ==
    /\ refs' = [refs EXCEPT ![p] = @ - 1]
    /\ IF refs[p] = 1 /\ p \in PoolPackets
       THEN pool' = [pool EXCEPT ![WriteIndex] = p] /\ count' = count - 1
       ELSE UNCHANGED <<pool, count>>
    /\ UNCHANGED readIndex

\* A request is answered in a packet, or without one; a packet is sent.
Dispatch(w) ==
    /\ At(w, "dispatch")
    /\ event' = [event EXCEPT ![w] = NoEvent]
    /\ \/ event[w].type # "send" /\ Goto(w, "poll") /\ UNCHANGED poolVars
       \/ event[w].type = "request" /\ Goto(w, "malloc") /\ UNCHANGED poolVars
       \/ event[w].type = "send" /\ Goto(w, "poll") /\ Freed(event[w].packet)
    /\ UNCHANGED <<queueVars, seen, copies, packet, issued>>

\* PacketPool::malloc does not wait: a packet is made if the pool has none.
PacketMalloc(w, p) ==
    /\ At(w, "malloc")
    /\ IF count + 1 > PoolSize
       THEN p \in ExtraPackets /\ refs[p] = 0 /\ UNCHANGED <<readIndex, count>>
       ELSE p = pool[readIndex] /\ readIndex' = (readIndex + 1) % PoolSize /\ count' = count + 1
    /\ refs' = [refs EXCEPT ![p] = Copies]
    /\ packet' = [packet EXCEPT ![w] = p]
    /\ copies' = [copies EXCEPT ![w] = Copies]
    /\ Goto(w, "copy")
    /\ UNCHANGED <<queueVars, event, seen, issued, pool>>

\* All but the last are inserted; the last one is sent by this worker.
Copy(w) ==
    /\ At(w, "copy")
    /\ IF copies[w] = 0
       THEN Goto(w, "poll") /\ UNCHANGED <<event, copies>>
       ELSE /\ copies' = [copies EXCEPT ![w] = @ - 1]
            /\ event' = [event EXCEPT ![w] = Send(packet[w])]
            /\ Goto(w, IF copies[w] = 1 THEN "dispatch" ELSE "prioritizedInsert")
    /\ UNCHANGED <<queueVars, seen, packet, issued, poolVars>>

-----------------------------------------------------------------------------
(***************************************************************************)
(* Stopping.  The sockets are stopped first: nothing is received.          *)
(***************************************************************************)

StopWorkers ==
    /\ Stopping /\ pc[Main] = "idle" /\ \A p \in Producers : pc[p] = "idle"
    /\ run' = FALSE
    /\ Goto(Main, "stopMixed")
    /\ UNCHANGED <<mixed, priority, priorityCount, lock, accepts, cvFull, cvEmpty, event, seen, copies, packet, issued, poolVars>>

\* Stop waits until the queue is empty, on the condition variable of the inserters,
\* and wakes all that wait for an event.
StopMixed ==
    /\ At(Main, "stopMixed")
    /\ IF mixed # <<>>
       THEN cvFull' = cvFull \cup {Main} /\ UNCHANGED <<cvEmpty, accepts, pc>>
       ELSE /\ cvEmpty' = {} /\ accepts' = accepts \ {"mixed"}
            /\ Goto(Main, "stopPriority")
            /\ UNCHANGED cvFull
    /\ UNCHANGED <<mixed, priority, priorityCount, lock, run, event, seen, copies, packet, issued, poolVars>>

StopPriority ==
    /\ At(Main, "stopPriority")
    /\ IF priority # <<>>
       THEN cvFull' = cvFull \cup {Main} /\ UNCHANGED <<accepts, pc>>
       ELSE accepts' = {} /\ Goto(Main, "join") /\ UNCHANGED cvFull
    /\ UNCHANGED <<mixed, priority, priorityCount, lock, run, cvEmpty, event, seen, copies, packet, issued, poolVars>>

Join ==
    /\ pc[Main] = "join" /\ \A w \in Workers : pc[w] = "ended"
    /\ Goto(Main, "done")
    /\ UNCHANGED <<queueVars, event, seen, copies, packet, issued, poolVars>>

\* A condition variable may let a sleeper go at any time.
WakeUp(t) ==
    /\ ~Awake(t)
    /\ cvFull' = cvFull \ {t} /\ cvEmpty' = cvEmpty \ {t}
    /\ UNCHANGED <<mixed, priority, priorityCount, lock, run, accepts, threadVars, poolVars>>

QueuesNext ==
    \/ \E p \in Producers : Receive(p)
    \/ \E t \in Threads : Insert(t) \/ ReadCount(t) \/ TryLock(t) \/ PriorityInsert(t) \/ Recheck(t)
    \/ \E w \in Workers : Poll(w) \/ Decrement(w) \/ Extract(w) \/ Dispatch(w) \/ Copy(w)
    \/ \E w \in Workers, p \in PoolPackets \cup ExtraPackets : PacketMalloc(w, p)
    \/ StopWorkers \/ StopMixed \/ StopPriority \/ Join
    \/ \E t \in Threads \cup {Main} : WakeUp(t)

-----------------------------------------------------------------------------
(***************************************************************************)
(* What the queues promise                                                 *)
(***************************************************************************)

Trying(label) == {t \in Threads : At(t, label)}

\* Nobody sleeps while there is something to do: free places in the queue are for
\* threads that are about to insert, events in it for workers about to extract, and
\* the thread that stops a queue sleeps only as long as it is not empty.
NoneAsleep ==
    /\ cvFull \cap Threads # {} => Len(mixed) + Cardinality(Trying("insert")) >= Capacity
    /\ cvEmpty # {} => Len(mixed) <= Cardinality(Trying("extract"))
    /\ Main \in cvFull => IF pc[Main] = "stopMixed" THEN mixed # <<>> ELSE priority # <<>>
    /\ ~run /\ pc[Main] # "stopMixed" => cvEmpty = {}

\* An event with priority is not left while all workers sleep or have ended: someone
\* is awake, or the inserter is about to wake one.
Overseen ==
    \/ \E w \in Workers : Awake(w) /\ pc[w] # "ended"
    \/ \E t \in Threads : pc[t] = "recheck" \/ event[t] = Empty
SomeoneServes == priority # <<>> => Overseen

\* Workers insert the copies of their messages into the queue that they alone empty.
\* All of them may sleep until it has a place, and then nobody makes one.
AllBlocked == Workers \subseteq cvFull /\ Len(mixed) = Capacity

\* But for that, no event with priority is overlooked.
NoneOverlooked == SomeoneServes \/ AllBlocked

\* The inserters' count is never below what the queue with priority holds.
PriorityBounded == Len(priority) <= priorityCount /\ priorityCount <= PriorityCapacity

Holding(p) == {t \in Threads : event[t] = Send(p)}
Queued(q, p) == Cardinality({i \in DOMAIN q : q[i] = Send(p)})
Owed(p) == MapThenSumSet(LAMBDA w : IF packet[w] = p THEN copies[w] ELSE 0, Workers)
InUse == {p \in PoolPackets \cup ExtraPackets : refs[p] > 0}
Free == {pool[(readIndex + i) % PoolSize] : i \in 0 .. PoolSize - count - 1}

\* While the program runs, the reference count of a packet is the number of events
\* that still have to send it, so that it is given back once and not before; a packet
\* is in use or in the pool, and the ring of the pool holds every free one once.
PacketsExact ==
    /\ run => \A p \in PoolPackets \cup ExtraPackets :
                  refs[p] = Cardinality(Holding(p)) + Queued(mixed, p) + Queued(priority, p) + Owed(p)
    /\ Free \cap InUse = {} /\ Cardinality(Free) = PoolSize - count
    /\ count = Cardinality(InUse \cap PoolPackets)
=============================================================================

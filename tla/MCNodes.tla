------------------------------- MODULE MCNodes -------------------------------
(* What all processes have in common, one specification chosen at the      *)
(* start: the event queue with its workers and packets (Queues, filled     *)
(* until all workers may sleep on it, and with a place left until it is    *)
(* stopped), a connection and the workers that read it (Receiving, with    *)
(* several workers and with messages that are deferred), how processes     *)
(* connect (Connections), what they say to each other (Conversations), an  *)
(* application's commands (Application), which servers are overloaded      *)
(* (Overload), a process from its files to its end (Configuration), what   *)
(* it remembers of requests (Pending), and what its operator asks of it    *)
(* (Consoles).                                                             *)
EXTENDS Integers, Sequences, TLC

CONSTANTS
    p1, w1, w2,                 \* threads
    m1, m2, m3,                 \* messages
    s1, s2, s3, c1, c2,         \* servers and clients
    MaxEvents, MaxExtra, MaxStarts, MaxMeasures, MaxAlarms

VARIABLES
    unit,       \* the specification that is run
    mixed, priority, priorityCount, lock, run, accepts, cvFull, cvEmpty, pc, event, seen,
    copies, packet, issued, pool, readIndex, count, refs,
    written, writeLock, stream, closed, armed, arrivals, at, data, expected, alive, handled,
    phase, starts, registered, instanceId, busy, nodeQueues, links, accepting, hung, inbox,
    peer, idMap, sock, nodeEvents, lastId,
    msgs, jobs,
    entered, commands, doing, application, clients, locks, sent, results,
    past, current, cumulative, mirror, latest, overloaded, known, network, degraded,
    measures, alarms,
    process, stage, line, taken, conf, node, running, ignoring, threads, freed, stops, misused,
    chunkPool,
    side, table, job, awaited, served, recovering, held, registering, stats, waiting, clock,
    measured, counter, queued, acks, reverting, coordinated, cleaning, lost,
    unnoticed,
    typed, console, setting, ready, orders, messages, handed, asked, got, chunks, walks, io, files,
    failed, due, sealing, seals, changes

queuesVars == <<mixed, priority, priorityCount, lock, run, accepts, cvFull, cvEmpty, pc, event,
                seen, copies, packet, issued, pool, readIndex, count, refs>>
receivingVars == <<written, writeLock, stream, closed, armed, arrivals, at, data, expected,
                   alive, handled>>
connectionsVars == <<phase, starts, registered, instanceId, busy, nodeQueues, links, accepting,
                     hung, inbox, peer, idMap, sock, nodeEvents, lastId>>
conversationsVars == <<msgs, jobs>>
applicationVars == <<entered, commands, doing, application, clients, locks, sent, results>>
overloadVars == <<past, current, cumulative, mirror, latest, overloaded, known, network,
                  degraded, measures, alarms>>
configurationVars == <<process, stage, line, taken, conf, node, running, ignoring, threads, freed,
                       stops, misused, chunkPool>>
pendingVars == <<side, table, job, awaited, served, recovering, held, registering, stats, waiting,
                 clock, measured, counter, queued, acks, reverting, coordinated, cleaning,
                 lost, unnoticed>>
consolesVars == <<typed, console, setting, ready, orders, messages, handed, asked, got, chunks,
                  walks, io, files, failed, due, sealing, seals, changes>>

(* A queue that is full with events at two workers, one in it, and one     *)
(* with priority.                                                          *)
Filled == INSTANCE Queues WITH
    Producers <- {p1}, Workers <- {w1, w2}, Capacity <- 1, PriorityCapacity <- 1, Copies <- 2,
    PoolSize <- 1, Stopping <- FALSE, MaxEvents <- 4

(* A queue that is stopped and never full, as all workers could sleep on   *)
(* it when it is, and with them the thread that stops it.                  *)
Ended == INSTANCE Queues WITH
    Producers <- {p1}, Workers <- {w1, w2}, Capacity <- 9, PriorityCapacity <- 1, Copies <- 2,
    PoolSize <- 1, Stopping <- TRUE

(* A header alone, a message as long as the buffer, and one in between.    *)
Lengths == m1 :> 0 @@ m2 :> 2 @@ m3 :> 1

Shared == INSTANCE Receiving WITH
    Messages <- {m1, m2, m3}, Length <- Lengths, HeaderSize <- 2, BufferSize <- 4,
    Readers <- {w1, w2}, Deferring <- {}, events <- arrivals

(* One worker: with two, a deferred message lets both read the socket.     *)
Delayed == INSTANCE Receiving WITH
    Messages <- {m1, m2, m3}, Length <- Lengths, HeaderSize <- 2, BufferSize <- 4,
    Readers <- {w1}, Deferring <- {m2}, events <- arrivals

(* Processes start one by one, and one worker handles their events.        *)
Joined == INSTANCE Connections WITH
    Servers <- {s1, s2, s3}, Clients <- {c1}, Crashing <- {s1}, Calm <- TRUE,
    SeveralWorkers <- FALSE, IdMod <- 8, queue <- nodeQueues, events <- nodeEvents,
    current <- lastId

Talk == INSTANCE Conversations WITH Gaps <- FALSE

(* A path that cannot be opened, words too many, one too few, and a word   *)
(* that is no command.                                                     *)
Console == INSTANCE Application WITH
    Lines <- {<<"get", "k1", 3>>, <<"get", "k1", 4>>, <<"get", "k2", 9>>, <<"update", "k2", 5, 0, "more">>,
              <<"delete", "k1">>, <<"get", "k2">>, <<"other", "k2">>},
    NoFile <- 9,
    Workers <- {w1, w2}, Patient <- TRUE, queue <- commands

(* One of two servers is more than the first threshold; two clients may    *)
(* tell of different ones at two alarms.                                   *)
Loads == INSTANCE Overload WITH
    Servers <- {s1, s2}, Clients <- {c1, c2}, Ops <- {"Get"}, Measured <- {<<0, 1>>, <<1, 0>>},
    Giga <- 4, Start <- 40, Stop <- 30, Threshold <- 110, Maximum <- 0

(* GET and SET are measured apart.                                         *)
LoadsOfBoth == INSTANCE Overload WITH
    Servers <- {s1, s2}, Clients <- {c1}, Ops <- {"Get", "Set"}, Measured <- {<<0, 1>>, <<0, 3>>},
    Giga <- 4, Start <- 40, Stop <- 30, Threshold <- 110, Maximum <- 0,
    MaxMeasures <- 3, MaxAlarms <- 3

(* Lines of configuration files.                                           *)
Text(t) == [text |-> t, number |-> 0, address |-> "none"]
Number(n) == [text |-> ToString(n), number |-> n, address |-> "none"]
Address(a) == [text |-> a, number |-> 0, address |-> a]
Line(section, name, value) == [section |-> section, name |-> name, value |-> value]
Option(flag, words) == [flag |-> flag, words |-> words]

(* The address of the fourth server is not one.                            *)
Peers ==
    <<Line("coordinators", "coord1", Address("h0")), Line("servers", "server1", Address("h1")),
      Line("servers", "server2", Address("h2")), Line("servers", "server3", Address("h3")),
      Line("servers", "server4", Text("h4")), Line("stripe_lists", "count", Number(2))>>
Raid5 == <<Line("coding", "scheme", Text("raid5")), Line("raid5", "n", Number(3))>>
Spread == <<Line("states", "disabled", Text("false")), Line("states", "spreadd", Address("h9"))>>

(* The lines of a code in all orders, codes of all schemes, and settings   *)
(* at their limits.                                                        *)
CodeLines ==
    <<Line("rs", "k", Number(2)), Line("rs", "m", Number(1)), Line("rs", "w", Number(8)),
      Line("raid5", "n", Number(3)), Line("coding", "scheme", Text("rs"))>>
Globals ==
    {Peers \o [i \in 1 .. 5 |-> CodeLines[order[i]]] : order \in Permutations(1 .. 5)}
    \cup {Peers \o <<Line("coding", "scheme", Text(scheme)), Line(scheme, "n", Number(n))>> :
              scheme \in {"raid0", "raid1", "raid5", "rdp", "evenodd", "other"}, n \in 0 .. 3}
    \cup {Peers \o <<Line("coding", "scheme", Text("cauchy")), Line("cauchy", "c_k", Number(2)),
                      Line("cauchy", "c_m", Number(1)), Line("cauchy", "c_w", Number(w))>> : w \in {1, 2}}
    \cup {Peers \o <<Line("raid0", "n", Number(3))>>, Peers \o Raid5 \o Spread, Peers \o Raid5}
GlobalsAtLimits ==
    {Peers \o Raid5 \o <<Line("size", "key", Number(size - 4)), Line("size", "chunk", Number(size)),
                         Line("workers", "count", Number(n))>> :
        size \in {20, 32, 36, -8}, n \in {2, 65536, 65537}}

Arguments ==
    {<<>>, <<Option("h", <<>>)>>, <<Option("g", <<"coding", "scheme">>)>>,
     <<Option("g", <<"coding", "scheme", Text("rs")>>)>>,
     <<Option("g", <<"raid5", "n", Number(2)>>), Option("g", <<"size", "chunk", Number(8192)>>)>>,
     <<Option("g", <<"sizes", "chunk", Number(8192)>>)>>, <<Option("o", <<"server", "server3", Address("h3")>>)>>}

(* Pools of few chunks.                                                    *)
SecondServer(bytes) == <<Line("server", "server2", Address("h2")), Line("pool", "chunks", Number(bytes))>>
OwnLines(role) ==
    CASE role = "coordinator" ->
            {<<Line(role, "coord1", Address(a)), Line("states", "manual", Text("false")),
               Line("states", "start_threshold", Number(10)), Line("states", "overload_threshold", Number(n))>> :
                a \in {"h0", "h1"}, n \in {0, 150}}
      [] role = "server" -> {SecondServer(8300), <<Line(role, "server7", Address("h7")), Line("pool", "chunks", Number(8300))>>}
      [] role = "client" -> {<<Line(role, "client1", Address("h5"))>>, <<Line(role, "client1", Text("h5"))>>}
      [] OTHER -> {<<Line("clients", "client1", Address("h5"))>>, <<>>}

Process(role, global, arguments, own, missing, directory) ==
    [role |-> role, arguments |-> arguments, files |-> [global |-> global, own |-> own],
     missing |-> missing, directory |-> directory]
SomeProcesses ==
    {Process("server", global, <<>>, SecondServer(8300), {}, TRUE) : global \in Globals}
    \cup {Process("server", global, <<>>, SecondServer(100), {}, TRUE) : global \in GlobalsAtLimits}
    \cup UNION {{Process(role, global, arguments, own, {}, TRUE) :
                     global \in {Peers \o Raid5, Peers \o Raid5 \o Spread}, arguments \in Arguments, own \in OwnLines(role)} :
                   role \in {"coordinator", "client", "server", "application"}}
    \cup {Process("server", Peers \o Raid5, <<>>, <<>>, {"global"}, TRUE), Process("server", Peers \o Raid5, <<>>, <<>>, {"own"}, TRUE),
          Process("server", Peers \o Raid5, <<>>, <<Line("server", "server1", Address("h1"))>>, {}, FALSE)}

Life == INSTANCE Configuration WITH
    Processes <- SomeProcesses, Allocators <- {w1, w2}, HeaderSize <- 12, WordSize <- 20000, Calm <- TRUE,
    SpreadRuns <- TRUE, pool <- chunkPool

(* Requests of each kind of map, two of them with one request ID; a SET to *)
(* two servers, a GET, and one that is sent again.  One worker registers.  *)
Tables == INSTANCE Pending WITH
    Asks <- 1 .. 4, Type <- <<"UPDATE", "UPDATE_CHUNK", "DEL_CHUNK", "GET_CHUNK">>,
    Parent <- <<<<c1, 1>>, <<c2, 1>>, <<c1, 2>>, <<c2, 2>>>>, Peers <- {s1, s2}, Workers <- {w1},
    Requests <- 1 .. 3, Op <- <<"set", "get", "get">>,
    Receivers <- <<{s1, s2}, {s1}, {s2}>>, Retried <- <<"none", "none", s2>>,
    Home <- <<s1, s1, s1>>, Giga <- 2, MaxTime <- 4,
    Targets <- {s1, s3}

(* Lines of consoles: a word, and what is typed when more is asked for.    *)
Word(word) == [word |-> word, text |-> "", number |-> 0, chosen |-> <<>>]
Told(word, text, number) == [word |-> word, text |-> text, number |-> number, chosen |-> <<>>]
Allocated(parity, empty) == [parity |-> parity, empty |-> empty, version |-> 1]

(* Every command once, at any of the consoles.                             *)
Operated == INSTANCE Consoles WITH
    Sockets <- <<s1, s2>>, Workers <- {w1}, Buffers <- <<"data", "parity", "none">>, Total <- 3,
    Pool <- s1 :> <<Allocated(FALSE, TRUE), Allocated(FALSE, FALSE)>> @@ s2 :> <<>>,
    CoordinatorLines <- {Word(w) : w \in {"seal", "flush", "remapMigrate", "manual", "auto"}}
        \cup {Told("release", "all", 0), Told("release", "", 1), [Word("overload") EXCEPT !.chosen = <<s1, s3, s2>>]},
    ServerLines <- {Word(w) : w \in {"seal", "flush", "p2disk", "memory", "sync"}}
        \cup {Told("delay", "", 5)},
    ClientLines <- {Word(w) : w \in {"replay", "ackparity"}}
        \cup {Told("metadata", "all", 0), Told("metadata", "", 2), Told("set", "degraded", 1), Told("set", "other", 0)},
    MaxLines <- 1, MaxChanges <- 1

(* Two commands of the coordinator or of the only server about its chunks. *)
Walked == INSTANCE Consoles WITH
    Sockets <- <<s1>>, Workers <- {w1}, Buffers <- <<"data", "parity", "none">>, Total <- 3,
    Pool <- s1 :> <<Allocated(FALSE, TRUE), Allocated(TRUE, TRUE)>>,
    CoordinatorLines <- {Word("seal"), Word("flush")},
    ServerLines <- {Word(w) : w \in {"seal", "flush", "p2disk", "memory"}},
    ClientLines <- {}, MaxLines <- 2, MaxChanges <- 1

MCInit ==
    /\ unit \in {"filled", "ended", "shared", "delayed", "joined", "talk", "console", "loads", "loads of both",
                "life", "tables", "consoles", "walks"}
    /\ IF unit = "filled" THEN Filled!QueuesInit ELSE Ended!QueuesInit
    /\ IF unit = "delayed" THEN Delayed!ReceivingInit ELSE Shared!ReceivingInit
    /\ Joined!ConnectionsInit
    /\ IF unit = "talk" THEN Talk!ConversationsInit ELSE msgs = {} /\ jobs = {}
    /\ Console!ApplicationInit
    /\ IF unit = "loads of both" THEN LoadsOfBoth!OverloadInit ELSE Loads!OverloadInit
    /\ IF unit = "life" THEN Life!ConfigurationInit
       ELSE /\ process = "none" /\ stage = <<>> /\ line = 0 /\ taken = TRUE /\ conf = <<>> /\ node = <<>>
            /\ running = FALSE /\ ignoring = FALSE /\ threads = {} /\ freed = {} /\ stops = <<>>
            /\ misused = {} /\ chunkPool = <<>>
    /\ IF unit = "walks" THEN Walked!ConsolesInit ELSE Operated!ConsolesInit
    /\ Tables!PendingInit /\ (unit # "tables" => side = "client")

MCNext ==
    /\ UNCHANGED unit
    /\ \/ /\ \/ unit = "filled" /\ Filled!QueuesNext
             \/ unit = "ended" /\ Ended!QueuesNext
          /\ UNCHANGED <<receivingVars, connectionsVars, conversationsVars, applicationVars, overloadVars, configurationVars, pendingVars, consolesVars>>
       \/ /\ \/ unit = "shared" /\ Shared!ReceivingNext
             \/ unit = "delayed" /\ Delayed!ReceivingNext
          /\ UNCHANGED <<queuesVars, connectionsVars, conversationsVars, applicationVars, overloadVars, configurationVars, pendingVars, consolesVars>>
       \/ /\ unit = "joined" /\ Joined!ConnectionsNext
          /\ UNCHANGED <<queuesVars, receivingVars, conversationsVars, applicationVars, overloadVars, configurationVars, pendingVars, consolesVars>>
       \/ /\ unit = "talk" /\ Talk!ConversationsNext
          /\ UNCHANGED <<queuesVars, receivingVars, connectionsVars, applicationVars, overloadVars, configurationVars, pendingVars, consolesVars>>
       \/ /\ unit = "console" /\ Console!ApplicationNext
          /\ UNCHANGED <<queuesVars, receivingVars, connectionsVars, conversationsVars, overloadVars, configurationVars, pendingVars, consolesVars>>
       \/ /\ \/ unit = "loads" /\ Loads!OverloadNext
             \/ unit = "loads of both" /\ LoadsOfBoth!OverloadNext
          /\ UNCHANGED <<queuesVars, receivingVars, connectionsVars, conversationsVars, applicationVars, configurationVars, pendingVars, consolesVars>>
       \/ /\ unit = "life" /\ Life!ConfigurationNext
          /\ UNCHANGED <<queuesVars, receivingVars, connectionsVars, conversationsVars, applicationVars, overloadVars, pendingVars, consolesVars>>
       \/ /\ unit = "tables" /\ Tables!PendingNext
          /\ UNCHANGED <<queuesVars, receivingVars, connectionsVars, conversationsVars, applicationVars, overloadVars,
                         configurationVars, consolesVars>>
       \/ /\ \/ unit = "consoles" /\ Operated!ConsolesNext
             \/ unit = "walks" /\ Walked!ConsolesNext
          /\ UNCHANGED <<queuesVars, receivingVars, connectionsVars, conversationsVars, applicationVars, overloadVars,
                         configurationVars, pendingVars>>

MCSpec ==
    MCInit /\ [][MCNext]_<<unit, queuesVars, receivingVars, connectionsVars, conversationsVars,
                           applicationVars, overloadVars, configurationVars, pendingVars, consolesVars>>

(* While events come and while the queues are stopped, no thread sleeps on *)
(* a place or an event it could use, and an event with priority is         *)
(* overlooked only when all workers wait for a place in the full queue     *)
(* (EventQueue::insert, ::extractMixed); packets go back to their pool     *)
(* once all copies are sent; and a server that was told to degrade is told *)
(* when the alarms no longer find it overloaded.  A process that stops     *)
(* frees nothing a thread of it still uses, and no chunk is allocated      *)
(* twice.  What the operator of a server asks for is done to all chunks    *)
(* and buffers there are.                                                  *)
EventsServed ==
    CASE unit = "filled" ->
            Filled!NoneAsleep /\ Filled!NoneOverlooked /\ Filled!PriorityBounded /\ Filled!PacketsExact
      [] unit = "ended" ->
            Ended!NoneAsleep /\ Ended!NoneOverlooked /\ Ended!PriorityBounded /\ Ended!PacketsExact
      [] unit = "loads" -> Loads!LoadTracked
      [] unit = "loads of both" -> LoadsOfBoth!LoadTracked
      [] unit = "life" -> Life!StopOrdered /\ Life!PoolExact
      [] unit = "consoles" -> Operated!FlushesComplete /\ Operated!SealsExact /\ Operated!MemoryExact
      [] unit = "walks" -> Walked!FlushesComplete /\ Walked!SealsExact /\ Walked!MemoryExact
      [] OTHER -> TRUE

(* Every message is handled whole and once, whichever worker reads it and  *)
(* however its bytes arrive, and whoever receives one has a case for it.   *)
MessagesWhole ==
    CASE unit = "shared" -> Shared!HandledWhole /\ Shared!NoneUnread /\ Shared!AllHandled
      [] unit = "delayed" -> Delayed!HandledWhole /\ Delayed!NoneUnread /\ Delayed!AllHandled
      [] unit = "talk" -> Talk!Understood
      [] OTHER -> TRUE

(* When nothing is under way nobody waits for an answer: servers are ready *)
(* for each other over one connection and found by their instance IDs,     *)
(* requests are answered by the opcode their sender looks for, and every   *)
(* command of an application has its result.  Processes that accept their  *)
(* files agree on what the last lines of these say: the settings, the code *)
(* and the place of every server.  What is kept of a request answers it    *)
(* once, after its last peer, measures the server it was sent to, and is   *)
(* counted down once.  What the operator of the coordinator asks for       *)
(* reaches every server that stays.                                        *)
PeersAnswered ==
    CASE unit = "joined" -> Joined!PeersReady /\ Joined!IdsLead
      [] unit = "talk" -> Talk!Answered
      [] unit = "console" -> Console!CommandsAnswered
      [] unit = "life" -> Life!SettingsExact /\ Life!CodeExact /\ Life!BuffersExact
      [] unit = "tables" -> Tables!TablesExact /\ Tables!HeldAnswered /\ Tables!TimesExact
            /\ Tables!AcksExact
      [] unit = "consoles" -> Operated!OrdersCarried
      [] unit = "walks" -> Walked!OrdersCarried
      [] OTHER -> TRUE
=============================================================================

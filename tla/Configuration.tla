---------------------------- MODULE Configuration ----------------------------
(***************************************************************************)
(* A process from its arguments to its end: its options, its configuration *)
(* files read line by line, what it makes of them (the code, the stripe    *)
(* lists, the chunk pool and buffers of a server), its threads, and the    *)
(* stop that joins them.  (main and config of every process, common/config, *)
(* common/coding/coding.cc, common/ds/chunk_pool.cc)                       *)
(*                                                                         *)
(* A line or an option is a record [section, name, value]; a value is a    *)
(* record of what it is as a text, as a number and as an address ("none"   *)
(* for a text that is not one).  Unsigned numbers that are negative in the *)
(* file are larger than any other.                                         *)
(***************************************************************************)
EXTENDS Integers, Sequences, FiniteSets, SequencesExt, TLC

CONSTANTS
    Processes,      \* records: role, arguments, files, missing, directory
    Allocators,     \* threads of a server that allocate chunks
    HeaderSize,     \* CHUNK_IDENTIFIER_SIZE
    WordSize,       \* numbers of 32 bits are below it
    Calm,           \* no signal arrives while a process is being stopped
    SpreadRuns      \* the spread daemon can be reached

VARIABLES
    process,        \* what is started, one of Processes
    stage,          \* what the main thread does
    line,           \* the line or option that comes next
    taken,          \* all options so far were taken
    conf,           \* conf[file]: the settings, for "global" and "own"
    node,           \* what the process derives from them
    running,        \* isRunning
    ignoring,       \* signals are ignored: the handler has been entered
    threads,        \* threads of the process besides the main one
    freed,          \* what the stop has joined or freed
    stops,          \* positions of the calls of stop, the innermost first
    misused,        \* what was joined or freed a second time
    pool            \* the chunk pool: chunks in all, the counter, indices given, threads that found none

readVars == <<stage, line, taken, conf>>
lifeVars == <<running, ignoring, threads, freed, stops, misused>>
configurationVars == <<process, readVars, node, lifeVars, pool>>

LOCAL Lists == INSTANCE Placement

-----------------------------------------------------------------------------
(***************************************************************************)
(* Settings                                                                *)
(***************************************************************************)
Schemes == {"raid0", "raid1", "raid5", "rs", "rdp", "evenodd", "cauchy"}
OneParameter == Schemes \ {"rs", "cauchy"}

\* GlobalConfig; the smoothing factor is in hundredths.
GlobalDefaults ==
    <<"size", "key">> :> 255 @@ <<"size", "chunk">> :> 4096 @@ <<"stripe_lists", "count">> :> 16
    @@ <<"epoll", "max_events">> :> 64 @@ <<"epoll", "timeout">> :> -1 @@ <<"workers", "count">> :> 8
    @@ <<"event_queue", "block">> :> 1 @@ <<"event_queue", "size">> :> 1048576
    @@ <<"event_queue", "prioritized">> :> 1024 @@ <<"pool", "packets">> :> 1024
    @@ <<"timeout", "metadata">> :> 1000 @@ <<"timeout", "load">> :> 50
    @@ <<"states", "disabled">> :> 1 @@ <<"states", "workers">> :> 4 @@ <<"states", "queue_len">> :> 256
    @@ <<"states", "smoothing_factor">> :> 30

CoordinatorDefaults ==
    <<"states", "manual">> :> 1 @@ <<"states", "maximum">> :> 0 @@ <<"states", "start_threshold">> :> 0
    @@ <<"states", "stop_threshold">> :> 0 @@ <<"states", "overload_threshold">> :> 0

\* The names of paths are not kept.
ClientDefaults ==
    <<"degraded", "disabled">> :> 0 @@ <<"states", "ack_timeout">> :> 1
    @@ <<"backup", "ack_batch_size">> :> 10000 @@ <<"named_pipe", "isEnabled">> :> 0
    @@ <<"named_pipe", "pathname">> :> 0

\* Storage of type 1 is local, 0 undefined.
ServerDefaults ==
    <<"pool", "chunks">> :> 1073741824 @@ <<"buffer", "chunks_per_list">> :> 5
    @@ <<"storage", "type">> :> 1 @@ <<"storage", "path">> :> 0

ApplicationDefaults ==
    <<"size", "key">> :> 255 @@ <<"size", "chunk">> :> 4096 @@ <<"epoll", "max_events">> :> 64
    @@ <<"epoll", "timeout">> :> -1 @@ <<"workers", "count">> :> 8 @@ <<"event_queue", "block">> :> 1
    @@ <<"event_queue", "size">> :> 1048576

Defaults(file) ==
    CASE file = "global" -> GlobalDefaults
      [] process.role = "coordinator" -> CoordinatorDefaults
      [] process.role = "client" -> ClientDefaults
      [] process.role = "server" -> ServerDefaults
      [] OTHER -> ApplicationDefaults

\* Processes are static objects: what no constructor sets is zero.  The parameter that
\* the constructor of GlobalConfig sets is lost, as its scheme is not set before.
NoAddress == [name |-> "", address |-> "none"]
Unread(file) ==
    [values |-> Defaults(file), lists |-> [s \in {"coordinators", "servers", "clients"} |-> <<>>],
     address |-> NoAddress, scheme |-> "raid0", codeScheme |-> "undefined", params |-> <<0, 0, 0>>]

\* atoi, atof and the comparisons of texts, and what fits into the setting.
Flags == {<<"states", "disabled">>, <<"states", "manual">>, <<"degraded", "disabled">>, <<"named_pipe", "isEnabled">>}
Narrow == {<<"workers", "count">>, <<"states", "workers">>, <<"states", "maximum">>}
Signed == {<<"epoll", "timeout">>, <<"states", "smoothing_factor">>, <<"states", "start_threshold">>,
           <<"states", "stop_threshold">>, <<"states", "overload_threshold">>}
Huge == 2147483647
Converted(setting, value) ==
    CASE setting \in Flags -> IF value.text = "true" THEN 1 ELSE 0
      [] setting = <<"event_queue", "block">> -> IF value.text = "false" THEN 0 ELSE 1
      [] setting = <<"storage", "type">> -> IF value.text = "local" THEN 1 ELSE 0
      [] setting \in Narrow -> value.number % 65536
      [] setting \notin Signed /\ value.number < 0 -> Huge
      [] OTHER -> value.number

-----------------------------------------------------------------------------
(***************************************************************************)
(* Reading one line                                                        *)
(***************************************************************************)

\* ServerAddr::parse: a protocol and a port; whether the host is one is not checked.
parse(l) == [name |-> l.name, address |-> l.value.address]
IsAddress(l) == l.value.address # "none"

\* CodingParams: the schemes share three numbers.
ParameterIndex(scheme, name) ==
    CASE scheme \in OneParameter /\ name = "n" -> 1
      [] scheme = "rs" /\ name \in {"k", "m", "w"} -> CHOOSE i \in 1 .. 3 : <<"k", "m", "w">>[i] = name
      [] scheme = "cauchy" /\ name \in {"c_k", "c_m", "c_w"} -> CHOOSE i \in 1 .. 3 : <<"c_k", "c_m", "c_w">>[i] = name
      [] OTHER -> 0

setParameter(c, name, number) ==
    LET i == ParameterIndex(c.scheme, name)
    IN  IF i # 0 /\ c.codeScheme = c.scheme THEN [c EXCEPT !.params[i] = number] ELSE c

Taken(c) == [taken |-> TRUE, conf |-> c]
Refused(c) == [taken |-> FALSE, conf |-> c]

setAddress(c, l, new) == IF IsAddress(l) THEN Taken(new) ELSE Refused(c)

\* A scheme that is not known stays in force as undefined.
setScheme(c, text) ==
    LET scheme == IF text \in Schemes THEN text ELSE "undefined"
    IN  [taken |-> scheme # "undefined", conf |-> [c EXCEPT !.scheme = scheme, !.codeScheme = scheme]]

Setting(l) == <<l.section, l.name>>
setPlain(c, l) == Taken([c EXCEPT !.values[Setting(l)] = Converted(Setting(l), l.value)])

\* Parameters of a code are taken after its scheme, as all others are refused.
setGlobal(c, l) ==
    CASE Setting(l) \in DOMAIN c.values -> setPlain(c, l)
      [] l.section \in {"coordinators", "servers"} -> setAddress(c, l, [c EXCEPT !.lists[l.section] = Append(@, parse(l))])
      [] Setting(l) = <<"states", "spreadd">> -> setAddress(c, l, [c EXCEPT !.address = parse(l)])
      [] l.section = "coding" -> setScheme(c, l.value.text)
      [] l.section \in Schemes /\ l.section = c.scheme -> Taken(setParameter(c, l.name, l.value.number))
      [] OTHER -> Refused(c)

\* The name of the section with the address is the role.
setOwn(c, l) ==
    CASE Setting(l) \in DOMAIN c.values -> setPlain(c, l)
      [] l.section = process.role -> setAddress(c, l, [c EXCEPT !.address = parse(l)])
      [] OTHER -> Refused(c)

setCoordinator(c, l) == setOwn(c, l)
setClient(c, l) == setOwn(c, l)
setServer(c, l) == setOwn(c, l)

setApplication(c, l) ==
    CASE Setting(l) \in DOMAIN c.values -> setPlain(c, l)
      [] l.section = "clients" -> setAddress(c, l, [c EXCEPT !.lists["clients"] = Append(@, parse(l))])
      [] OTHER -> Refused(c)

set(file, c, l) ==
    CASE file = "global" -> setGlobal(c, l)
      [] process.role = "coordinator" -> setCoordinator(c, l)
      [] process.role = "client" -> setClient(c, l)
      [] process.role = "server" -> setServer(c, l)
      [] OTHER -> setApplication(c, l)

-----------------------------------------------------------------------------
(***************************************************************************)
(* Checking                                                                *)
(***************************************************************************)
getN(c) == IF c.codeScheme \in OneParameter THEN c.params[1] ELSE 0
getK(c) ==
    CASE c.codeScheme \in {"rs", "cauchy"} -> c.params[1]
      [] c.codeScheme = "raid5" -> c.params[1] - 1
      [] c.codeScheme \in {"rdp", "evenodd"} -> c.params[1] - 2
      [] OTHER -> 0
getM(c) == IF c.codeScheme \in {"rs", "cauchy"} THEN c.params[2] ELSE 0
getW(c) == IF c.codeScheme \in {"rs", "cauchy"} THEN c.params[3] ELSE 0

getDataChunkCount(c) ==
    CASE c.codeScheme = "raid0" -> getN(c)
      [] c.codeScheme = "raid1" -> 1
      [] OTHER -> getK(c)
getParityChunkCount(c) ==
    CASE c.codeScheme = "raid1" -> getN(c) - 1
      [] c.codeScheme = "raid5" -> 1
      [] c.codeScheme \in {"rdp", "evenodd"} -> 2
      [] c.codeScheme \in {"rs", "cauchy"} -> getM(c)
      [] OTHER -> 0
getChunkCount(c) == getDataChunkCount(c) + getParityChunkCount(c)

ValidSizes(v) ==
    /\ v[<<"size", "key">>] \in 8 .. 255
    /\ v[<<"size", "chunk">>] \in 32 .. 16777216
    /\ v[<<"size", "chunk">>] % 8 = 0
    /\ v[<<"size", "chunk">>] >= v[<<"size", "key">>] + 4

ValidThreads(v) ==
    /\ v[<<"epoll", "max_events">>] >= 1
    /\ v[<<"epoll", "timeout">>] >= -1
    /\ v[<<"workers", "count">>] >= 1
    /\ v[<<"event_queue", "size">>] >= v[<<"workers", "count">>]

ValidCode(c) ==
    CASE c.scheme \in {"raid0", "raid1"} -> getN(c) >= 1
      [] c.scheme = "raid5" -> getN(c) >= 3
      [] c.scheme \in {"rdp", "evenodd"} -> getN(c) >= 2
      [] c.scheme = "rs" ->
            /\ getK(c) >= 1 /\ getM(c) >= 1 /\ getW(c) \in {8, 16, 32}
            /\ getW(c) <= 16 => getK(c) + getM(c) <= 2 ^ getW(c)
      [] c.scheme = "cauchy" ->
            /\ getK(c) >= 1 /\ getM(c) >= 1 /\ getW(c) \in 1 .. 32
            /\ getW(c) < 30 => getK(c) + getM(c) <= 2 ^ getW(c)
      [] OTHER -> FALSE

ValidStates(c) ==
    /\ c.address # NoAddress
    /\ c.values[<<"states", "workers">>] >= 1
    /\ c.values[<<"states", "queue_len">>] >= c.values[<<"states", "workers">>]
    /\ c.values[<<"states", "smoothing_factor">>] \in 1 .. 100

validateGlobal(c) ==
    /\ ValidSizes(c.values) /\ ValidThreads(c.values)
    /\ c.values[<<"stripe_lists", "count">>] >= 1
    /\ c.values[<<"event_queue", "prioritized">>] >= c.values[<<"workers", "count">>]
    /\ c.values[<<"pool", "packets">>] >= 1
    /\ c.values[<<"timeout", "metadata">>] >= 1 /\ c.values[<<"timeout", "load">>] >= 1
    /\ c.lists["coordinators"] # <<>> /\ c.lists["servers"] # <<>>
    /\ c.values[<<"states", "disabled">>] = 1 \/ ValidStates(c)
    /\ ValidCode(c)

\* The coordinator has to be in the list; a server that is not is a backup server.
validateCoordinator(c) ==
    /\ c.address # NoAddress
    /\ \/ c.values[<<"states", "manual">>] = 1
       \/ /\ c.values[<<"states", "start_threshold">>] > c.values[<<"states", "stop_threshold">>]
          /\ c.values[<<"states", "overload_threshold">>] > 0
    /\ c.address \in Range(conf["global"].lists["coordinators"])

validateServer(c) ==
    /\ c.address # NoAddress
    /\ c.values[<<"pool", "chunks">>] >= 1 /\ c.values[<<"buffer", "chunks_per_list">>] >= 1
    /\ c.values[<<"storage", "type">>] = 1 /\ process.directory

validateClient(c) == c.address # NoAddress

validateApplication(c) == ValidSizes(c.values) /\ ValidThreads(c.values) /\ c.lists["clients"] # <<>>

validate(file, c) ==
    CASE file = "global" -> validateGlobal(c)
      [] process.role = "coordinator" -> validateCoordinator(c)
      [] process.role = "client" -> validateClient(c)
      [] process.role = "server" -> validateServer(c)
      [] OTHER -> validateApplication(c)

-----------------------------------------------------------------------------
(***************************************************************************)
(* Arguments and files                                                     *)
(***************************************************************************)

\* An option with fewer than three words is passed over.
Options(flag) ==
    LET chosen == SelectSeq(process.arguments, LAMBDA a : a.flag = flag /\ Len(a.words) >= 3)
    IN  [i \in DOMAIN chosen |->
            [section |-> chosen[i].words[1], name |-> chosen[i].words[2], value |-> chosen[i].words[3]]]

File == IF stage[1] = "global" THEN "global" ELSE "own"
Source ==
    CASE stage[2] = "file" -> process.files[File]
      [] stage[2] = "options" -> Options(IF File = "global" THEN "g" ELSE "o")
      [] OTHER -> <<>>

Goto(s) == stage' = s /\ line' = 1

\* main; an argument that is not known, or -h, ends the process.
ParseArguments ==
    /\ stage = <<"main", "arguments">>
    /\ Goto(IF \E i \in DOMAIN process.arguments :
                   \/ process.arguments[i].flag \notin {"g", "o"}
                   \/ process.arguments[i].flag = "g" /\ process.role = "application"
            THEN <<"main", "ended">>
            ELSE <<IF process.role = "application" THEN "own" ELSE "global", "file">>)
    /\ UNCHANGED <<process, taken, conf, node, lifeVars, pool>>

\* A line of a file that is refused is passed over: only a file that cannot be opened
\* makes parse fail.
ReadLine ==
    /\ stage[2] = "file" /\ File \notin process.missing /\ line <= Len(Source)
    /\ conf' = [conf EXCEPT ![File] = set(File, @, Source[line]).conf]
    /\ line' = line + 1
    /\ UNCHANGED <<process, stage, taken, node, lifeVars, pool>>

EndOfFile ==
    /\ stage[2] = "file" /\ (File \in process.missing \/ line > Len(Source))
    /\ Goto(IF File \in process.missing THEN <<"main", "ended">> ELSE <<stage[1], "options">>)
    /\ UNCHANGED <<process, taken, conf, node, lifeVars, pool>>

\* An option that is refused makes override fail, after the others were set.
override ==
    /\ stage[2] = "options" /\ line <= Len(Source)
    /\ LET result == set(File, conf[File], Source[line])
       IN  conf' = [conf EXCEPT ![File] = result.conf] /\ taken' = (taken /\ result.taken)
    /\ line' = line + 1
    /\ UNCHANGED <<process, stage, node, lifeVars, pool>>

Validate ==
    /\ stage[2] = "options" /\ line > Len(Source)
    /\ Goto(CASE ~taken \/ ~validate(File, conf[File]) -> <<"main", "ended">>
              [] File = "global" -> <<"own", "file">>
              [] OTHER -> <<"main", "init">>)
    /\ UNCHANGED <<process, taken, conf, node, lifeVars, pool>>

-----------------------------------------------------------------------------
(***************************************************************************)
(* What a process is made of                                               *)
(***************************************************************************)

\* Coding::instantiate: the numbers of data and parity chunks the code encodes.
instantiate(c) ==
    CASE c.scheme = "raid0" -> <<getN(c), 0>>
      [] c.scheme = "raid1" -> <<1, getN(c) - 1>>
      [] c.scheme = "raid5" -> <<getN(c) - 1, 1>>
      [] c.scheme \in {"rdp", "evenodd"} -> <<getK(c), 2>>
      [] OTHER -> <<getK(c), getM(c)>>

\* The position of a server in the list, numbered from 0; -1 for one that is not in it.
ServerIndex(servers, address) ==
    IF address \in Range(servers) THEN Min({i \in DOMAIN servers : servers[i] = address}) - 1 ELSE -1

StripeLists(c) ==
    Lists!generate(getChunkCount(c), getDataChunkCount(c), c.values[<<"stripe_lists", "count">>],
                   Len(c.lists["servers"]))

\* A chunk buffer for every list the server is in.
Buffers(c, index) ==
    LET mine == IF index = -1 THEN {} ELSE Lists!list(StripeLists(c), getDataChunkCount(c), index)
    IN  [l \in 0 .. c.values[<<"stripe_lists", "count">>] - 1 |->
            IF \E e \in mine : e.listId = l
            THEN LET e == CHOOSE e \in mine : e.listId = l
                 IN  <<IF e.isParity THEN "parity" ELSE "data", e.chunkId>>
            ELSE <<"none", 0>>]

NoNode == [index |-> -1, buffers |-> <<>>, recovering |-> FALSE, packets |-> 0]
NoPool == [total |-> 0, count |-> 0, given |-> {}, failing |-> {}]

ChunkBytes == conf["global"].values[<<"size", "chunk">>] + HeaderSize

\* A server takes as many packets as its workers may send for a stripe.
InitServer ==
    /\ stage = <<"main", "init">> /\ process.role = "server"
    /\ LET c == conf["global"]
           index == ServerIndex(c.lists["servers"], conf["own"].address)
       IN  node' = [index |-> index, buffers |-> Buffers(c, index), recovering |-> index = -1,
                    packets |-> c.values[<<"workers", "count">>] * getChunkCount(c)]
    /\ pool' = [NoPool EXCEPT !.total = conf["own"].values[<<"pool", "chunks">>] \div ChunkBytes]
    /\ Goto(<<"main", "start">>)
    /\ UNCHANGED <<process, taken, conf, lifeVars>>

InitOther(role) ==
    /\ stage = <<"main", "init">> /\ process.role = role
    /\ node' = [node EXCEPT !.packets = conf["global"].values[<<"pool", "packets">>]]
    /\ Goto(<<"main", "start">>)
    /\ UNCHANGED <<process, taken, conf, lifeVars, pool>>

InitCoordinator == InitOther("coordinator")
InitClient == InitOther("client")

\* Applications use one buffer per worker.
InitApplication ==
    /\ stage = <<"main", "init">> /\ process.role = "application"
    /\ Goto(<<"main", "start">>)
    /\ UNCHANGED <<process, taken, conf, node, lifeVars, pool>>

\* The sockets may be in use by another process.
InitFails ==
    /\ stage = <<"main", "init">>
    /\ Goto(<<"main", "ended">>)
    /\ UNCHANGED <<process, taken, conf, node, lifeVars, pool>>

\* A backup server that replaces another gets the buffers of its lists (init(int)).
Promote(index) ==
    /\ stage = <<"main", "interactive">> /\ running /\ stops = <<>>
    /\ process.role = "server" /\ node.index = -1
    /\ node' = [node EXCEPT !.index = index, !.buffers = Buffers(conf["global"], index)]
    /\ UNCHANGED <<process, readVars, lifeVars, pool>>

-----------------------------------------------------------------------------
(***************************************************************************)
(* The chunk pool                                                          *)
(***************************************************************************)

\* The counter is atomic; a thread that finds no chunk sets it back in another step.
alloc(t) ==
    /\ running /\ process.role = "server" /\ stops = <<>> /\ t \notin pool.failing
    /\ pool' = [pool EXCEPT !.count = @ + 1,
                            !.given = IF pool.count < pool.total THEN @ \cup {<<t, pool.count>>} ELSE @,
                            !.failing = IF pool.count < pool.total THEN @ ELSE @ \cup {t}]
    /\ UNCHANGED <<process, readVars, node, lifeVars>>

allocFails(t) ==
    /\ t \in pool.failing
    /\ pool' = [pool EXCEPT !.count = pool.total, !.failing = @ \ {t}]
    /\ UNCHANGED <<process, readVars, node, lifeVars>>

\* Addresses are computed with 32 bits, from the start of the pool.
AddressOf(index) == (index * ChunkBytes) % WordSize
getChunk(ptr) == ptr - (ptr % ChunkBytes)
isInChunkPool(address) == address >= 0 /\ address < (ChunkBytes * (pool.total + 1)) % WordSize

-----------------------------------------------------------------------------
(***************************************************************************)
(* Start, signals and stop                                                 *)
(***************************************************************************)
HasTransit == process.role # "application" /\ conf["global"].values[<<"states", "disabled">>] = 0

StartOk(role, started) ==
    /\ stage = <<"main", "start">> /\ process.role = role
    /\ threads' = started
    /\ running' = TRUE
    /\ Goto(<<"main", "interactive">>)
    /\ UNCHANGED <<process, taken, conf, node, ignoring, freed, stops, misused, pool>>

StartFails(role) ==
    /\ stage = <<"main", "start">> /\ process.role = role
    /\ Goto(<<"main", "ended">>)
    /\ UNCHANGED <<process, taken, conf, node, lifeVars, pool>>

Transit == IF HasTransit THEN {"transit"} ELSE {}

StartCoordinator ==
    \/ (HasTransit => SpreadRuns) /\ StartOk("coordinator", {"workers", "epoll"} \cup Transit)
    \/ StartFails("coordinator")

\* That a coordinator cannot be reached is not an error.
StartServer ==
    \/ (HasTransit => SpreadRuns) /\ StartOk("server", {"workers", "epoll"} \cup Transit)
    \/ StartFails("server")

\* A client goes on without what failed.
StartClient ==
    \E started \in SUBSET {"epoll"} :
        StartOk("client", {"workers"} \cup started \cup (IF SpreadRuns THEN Transit ELSE {}))

StartApplication == StartOk("application", {"workers", "epoll"}) \/ StartFails("application")

\* What stop joins and frees, step by step.
Joining(t) == [joins |-> {t}, frees |-> {}]
Freeing(r) == [joins |-> {}, frees |-> {r}]

stopNode ==
    <<Joining("epoll"), Joining("workers"), Freeing("sockets")>>
        \o (IF HasTransit THEN <<Joining("transit")>> ELSE <<>>) \o <<Freeing("queue")>>
stopApplication == <<Joining("epoll"), Joining("workers"), Freeing("sockets"), Freeing("queue")>>
StopSteps == IF process.role = "application" THEN stopApplication ELSE stopNode

\* The end of the input, or the command: main calls stop, which returns if the process
\* has stopped already.
Quit ==
    /\ stage = <<"main", "interactive">> /\ stops = <<>>
    /\ IF running THEN stops' = <<1>> /\ Goto(<<"main", "stop">>)
       ELSE UNCHANGED stops /\ Goto(<<"main", "ended">>)
    /\ UNCHANGED <<process, taken, conf, node, running, ignoring, threads, freed, misused, pool>>

\* The handler, set by init, runs on the main thread: it calls stop, and closes the
\* input.  Servers and applications ignore signals from then on.
SignalHandler ==
    /\ stage \in {<<"main", "start">>, <<"main", "interactive">>, <<"main", "stop">>} /\ ~ignoring
    /\ Calm => stops = <<>>
    /\ ignoring' = (process.role \in {"server", "application"})
    /\ stops' = IF running THEN <<1>> \o stops ELSE stops
    /\ UNCHANGED <<process, readVars, node, running, threads, freed, misused, pool>>

\* The epoll thread is joined if it runs, the others in any case, once too often if
\* they were joined before or never started.
StopStep ==
    /\ stops # <<>> /\ Head(stops) <= Len(StopSteps)
    /\ LET step == StopSteps[Head(stops)]
       IN  /\ threads' = threads \ step.joins
           /\ freed' = freed \cup step.frees \cup step.joins
           /\ misused' = misused \cup (step.frees \cap freed) \cup ((step.joins \ {"epoll"}) \ threads)
    /\ stops' = [stops EXCEPT ![1] = @ + 1]
    /\ UNCHANGED <<process, readVars, node, running, ignoring, pool>>

StopEnds ==
    /\ stops # <<>> /\ Head(stops) > Len(StopSteps)
    /\ running' = FALSE
    /\ stops' = Tail(stops)
    /\ IF stage = <<"main", "stop">> /\ Len(stops) = 1 THEN Goto(<<"main", "ended">>) ELSE UNCHANGED <<stage, line>>
    /\ UNCHANGED <<process, taken, conf, node, ignoring, threads, freed, misused, pool>>

ConfigurationInit ==
    /\ process \in Processes
    /\ stage = <<"main", "arguments">> /\ line = 1 /\ taken = TRUE
    /\ conf = [file \in {"global", "own"} |-> Unread(file)]
    /\ node = NoNode
    /\ running = FALSE /\ ignoring = FALSE /\ threads = {} /\ freed = {} /\ stops = <<>> /\ misused = {}
    /\ pool = NoPool

ConfigurationNext ==
    \/ ParseArguments \/ ReadLine \/ EndOfFile \/ override \/ Validate
    \/ InitCoordinator \/ InitClient \/ InitServer \/ InitApplication \/ InitFails
    \/ \E index \in 0 .. Len(conf["global"].lists["servers"]) - 1 : Promote(index)
    \/ \E t \in Allocators : alloc(t) \/ allocFails(t)
    \/ StartCoordinator \/ StartClient \/ StartServer \/ StartApplication
    \/ Quit \/ SignalHandler \/ StopStep \/ StopEnds

-----------------------------------------------------------------------------
(***************************************************************************)
(* What a process promises                                                 *)
(***************************************************************************)
Accepted == stage[1] = "main" /\ stage[2] \in {"init", "start", "interactive", "stop"}
Said(file) == process.files[file] \o Options(IF file = "global" THEN "g" ELSE "o")

\* When a file and its options have been read, every plain setting has the value of the
\* last line or option that gives it, whatever lines between were refused.
HasRead(file) ==
    \/ Accepted /\ (file = "global" => process.role # "application")
    \/ stage = <<file, "options">> /\ line > Len(Source)

SettingsExact ==
    \A file \in {"global", "own"} :
        HasRead(file) =>
            \A setting \in DOMAIN Defaults(file) :
                LET giving == {i \in DOMAIN Said(file) : <<Said(file)[i].section, Said(file)[i].name>> = setting}
                IN  conf[file].values[setting] =
                        IF giving = {} THEN Defaults(file)[setting]
                        ELSE Converted(setting, Said(file)[Max(giving)].value)

\* A code that was given by one scheme has the parameters that were given for this scheme
\* after it, and it encodes as many chunks as the stripe lists have servers.
Given(scheme, name, after) ==
    LET giving == {i \in DOMAIN Said("global") :
                       i > after /\ Said("global")[i].section = scheme /\ Said("global")[i].name = name}
    IN  IF giving = {} THEN 0 ELSE Said("global")[Max(giving)].value.number

CodeExact ==
    (Accepted /\ process.role # "application") =>
        LET c == conf["global"]
            schemes == {i \in DOMAIN Said("global") : Said("global")[i].section = "coding"}
        IN  /\ schemes # {} /\ c.scheme = c.codeScheme
            /\ \A i \in schemes : Said("global")[i].value.text = c.scheme =>
                   (Cardinality(schemes) = 1 =>
                       \A name \in {"n", "k", "m", "w", "c_k", "c_m", "c_w"} :
                           ParameterIndex(c.scheme, name) # 0 =>
                               c.params[ParameterIndex(c.scheme, name)] = Given(c.scheme, name, i))
            /\ instantiate(c) = <<getDataChunkCount(c), getParityChunkCount(c)>>
            /\ getChunkCount(c) >= 1
            /\ running => node.packets >= 1

\* A server that is not a backup server has its own place, and any server has a chunk
\* buffer for a list iff it is in it, of the kind of its place, also if it took the
\* place of another.
BuffersExact ==
    (running /\ process.role = "server" /\ getDataChunkCount(conf["global"]) >= 1) =>
        LET c == conf["global"]
            lists == StripeLists(c)
        IN  /\ node.recovering \/ c.lists["servers"][node.index + 1] = conf["own"].address
            /\ \A l \in DOMAIN node.buffers :
                   LET servers == Lists!ListOf(lists, l, Len(c.lists["servers"]))
                       places == {i \in DOMAIN servers : servers[i] = node.index}
                   IN  node.buffers[l] =
                           IF places = {} THEN <<"none", 0>>
                           ELSE LET i == Min(places) - 1
                                IN  <<IF i < getDataChunkCount(c) THEN "data" ELSE "parity", i>>

\* No chunk is given twice, none is beyond the pool, and an address inside a chunk leads
\* back to it, as long as the pool is smaller than what 32 bits can count.
PoolExact ==
    (running /\ process.role = "server" /\ ChunkBytes * (pool.total + 1) < WordSize) =>
        /\ \A x, y \in pool.given : x[2] = y[2] => x = y
        /\ \A x \in pool.given :
               LET address == AddressOf(x[2])
               IN  /\ address + ChunkBytes <= pool.total * ChunkBytes
                   /\ isInChunkPool(address)
                   /\ \A offset \in {0, 1, ChunkBytes - 1} : getChunk(address + offset) = address
        /\ pool.failing = {} => pool.count <= pool.total

\* The stop joins every thread before it frees what this thread uses, does nothing twice,
\* and a process that ends after it was started has no thread left.
StopOrdered ==
    /\ "sockets" \in freed => threads \cap {"workers", "epoll"} = {}
    /\ "queue" \in freed => threads = {}
    /\ misused = {}
    /\ stage = <<"main", "ended">> => threads = {} /\ ~running
=============================================================================

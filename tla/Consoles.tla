------------------------------ MODULE Consoles ------------------------------
(***************************************************************************)
(* The consoles of a coordinator, of servers and of a client.              *)
(*                                                                         *)
(* The thread that started a process reads commands.  Most of them only    *)
(* print and are left out.  The others put events into the queue of the    *)
(* process, which workers take from it: a coordinator's tell its servers,  *)
(* whose workers then do what the server's own console can be asked for,   *)
(* sealing all chunk buffers or flushing all chunks to disk.  The pool of  *)
(* chunks is gone through while other workers allocate chunks and change   *)
(* them.                                                                   *)
(***************************************************************************)
EXTENDS Naturals, Sequences, FiniteSets, SequencesExt

CONSTANTS
    Sockets,            \* the servers, in the order of a process's sockets
    CoordinatorLines,   \* lines that may be typed at each console: records of
    ServerLines,        \*   word, text, number and chosen, the last three
    ClientLines,        \*   what is typed when the command asks for more
    Workers,            \* threads of a server that take messages
    Buffers,            \* a server's chunk buffers: "data", "parity" or "none"
    Pool,               \* what the pool of chunks of each server holds at first
    Total,              \* chunks a pool has room for
    MaxLines, MaxChanges

Servers == ToSet(Sockets)
Processes == Servers \cup {"coordinator", "client"}
Walkers == Workers \cup {"console"}
NoWalk == [kind |-> "none"]

VARIABLES
    typed,      \* lines typed so far
    console,    \* of each process: "prompt", "busy", "ended" or "crashed"
    setting,    \* isManual, whether servers delay responses, the flag of a client
    ready,      \* servers whose connection to the coordinator stands
    orders,     \* events of the coordinator's queue
    messages,   \* what it has sent to servers
    handed,     \* events given to the parts of the system they are for
    asked, got, \* SEAL_CHUNKS and FLUSH_CHUNKS: what servers are to get, and got
    chunks,     \* the chunks a server has allocated
    walks,      \* of each thread of a server: how far in the pool it is
    io,         \* chunks to write, events of a server's queue
    files,      \* version of each chunk on disk, 0 if there is no file
    failed,     \* chunks whose last write failed
    due,        \* chunks that flushes went past, and their versions
    sealing,    \* chunk buffers to seal, events of a server's queue
    seals,      \* how often each chunk buffer was sealed
    changes

consolesVars == <<typed, console, setting, ready, orders, messages, handed, asked, got, chunks,
                  walks, io, files, failed, due, sealing, seals, changes>>
orderVars == <<ready, orders, messages, handed, asked, got>>
diskVars == <<chunks, walks, io, files, failed, due, changes>>
sealVars == <<sealing, seals>>

ConsolesInit ==
    /\ typed = 0
    /\ console = [p \in Processes |-> "prompt"]
    /\ setting = [p \in Processes |-> FALSE]
    /\ ready = Servers /\ orders = {} /\ messages = {} /\ handed = {}
    /\ asked = {} /\ got = {}
    /\ chunks = Pool
    /\ walks = [s \in Servers |-> [w \in Walkers |-> NoWalk]]
    /\ io = [s \in Servers |-> {}]
    /\ files = [s \in Servers |-> [i \in 1 .. Total |-> 0]]
    /\ failed = [s \in Servers |-> {}]
    /\ due = [s \in Servers |-> {}]
    /\ sealing = [s \in Servers |-> {}]
    /\ seals = [s \in Servers |-> [b \in DOMAIN Buffers |-> 0]]
    /\ changes = 0

Reads(p) ==
    /\ console[p] = "prompt"
    /\ typed < MaxLines
    /\ typed' = typed + 1

(* The sockets asked for: all of them, or the one with a number, from 0.   *)
Asked(line) ==
    IF line.text = "all" THEN Servers
    ELSE {Sockets[i] : i \in DOMAIN Sockets \cap {line.number + 1}}

Order(type, to) == [type |-> type, to |-> to, id |-> typed]

-----------------------------------------------------------------------------
(* The coordinator *)

CoordinatorReads(line) ==
    /\ Reads("coordinator")
    /\ line \in CoordinatorLines
    /\ UNCHANGED <<diskVars, sealVars>>

Insert(new) == orders' = orders \cup new /\ UNCHANGED <<ready, messages, handed, got>>

(* Coordinator::seal and flush: servers that are ready.                    *)
AskAll(line) ==
    /\ CoordinatorReads(line)
    /\ line.word \in {"seal", "flush"}
    /\ Insert({Order(line.word, {s}) : s \in ready})
    /\ asked' = asked \cup {Order(line.word, {s}) : s \in ready}
    /\ UNCHANGED <<console, setting>>

(* releaseDegradedLock(), and syncRemappedData of all servers: of servers   *)
(* that are not ready, too.                                                *)
ReleaseDegradedLock(line) ==
    /\ CoordinatorReads(line)
    /\ line.word = "release"
    /\ Insert({Order(line.word, {s}) : s \in Asked(line)})
    /\ UNCHANGED <<console, setting, asked>>

SyncRemappedData(line) ==
    /\ CoordinatorReads(line)
    /\ line.word = "remapMigrate"
    /\ Insert({Order(line.word, {s}) : s \in Servers})
    /\ UNCHANGED <<console, setting, asked>>

(* setServer: connections are typed until one is not known; those that have *)
(* ended are.  The phase is switched of those before it, perhaps of none.  *)
Chosen(line) ==
    {line.chosen[i] : i \in {j \in DOMAIN line.chosen : \A k \in 1 .. j : line.chosen[k] \in Servers}}

SetServer(line) ==
    /\ CoordinatorReads(line)
    /\ line.word \in {"overload", "underload"}
    /\ Insert({Order(line.word, Chosen(line))})
    /\ UNCHANGED <<console, setting, asked>>

SwitchOverload(line) ==
    /\ CoordinatorReads(line)
    /\ line.word \in {"manual", "auto"}
    /\ setting' = [setting EXCEPT !["coordinator"] = (line.word = "manual")]
    /\ UNCHANGED <<console, orderVars>>

(* A worker of the coordinator takes an event: a message is sent, or not   *)
(* if the connection has ended, and the others are handled elsewhere.      *)
Dispatch(o) ==
    /\ o \in orders
    /\ orders' = orders \ {o}
    /\ IF o.type \in {"seal", "flush"}
       THEN /\ messages' = messages \cup (IF o.to \subseteq ready THEN {o} ELSE {})
            /\ UNCHANGED handed
       ELSE handed' = handed \cup {o} /\ UNCHANGED messages
    /\ UNCHANGED <<typed, console, setting, ready, asked, got, diskVars, sealVars>>

(* A server's connection ends, and with it what it has not read.           *)
Disconnect(s) ==
    /\ s \in ready
    /\ ready' = ready \ {s}
    /\ messages' = {m \in messages : m.to # {s}}
    /\ UNCHANGED <<typed, console, setting, orders, handed, asked, got, diskVars, sealVars>>

-----------------------------------------------------------------------------
(* A server *)

Empty(c) == ~c.parity /\ c.empty
Chunk(s, i) ==
    IF i <= Len(chunks[s]) THEN chunks[s][i] ELSE [parity |-> FALSE, empty |-> TRUE, version |-> 0]

(* exportVars: how many chunks there are is read once.                     *)
Walk(s, kind, id) ==
    [kind |-> kind, id |-> id, at |-> 1, met |-> 0, count |-> Len(chunks[s]),
     parity |-> 0, data |-> 0, since |-> changes,
     due |-> {[chunk |-> i, version |-> chunks[s][i].version] :
                i \in {j \in DOMAIN chunks[s] : /\ ~Empty(chunks[s][j])
                                                /\ kind = "p2disk" => chunks[s][j].parity}}]

BeginWalk(s, w, kind, id) == walks' = [walks EXCEPT ![s][w] = Walk(s, kind, id)]

(* Server::seal: an event for every chunk buffer there is.                 *)
SealEvents(s, id) ==
    sealing' = [sealing EXCEPT ![s] = @ \cup
        {[buffer |-> b, id |-> id] : b \in {c \in DOMAIN Buffers : Buffers[c] # "none"}}]

ServerReads(s, line) == Reads(s) /\ line \in ServerLines

ServerSeal(s, line) ==
    /\ ServerReads(s, line)
    /\ line.word = "seal"
    /\ SealEvents(s, typed)
    /\ got' = got \cup {Order(line.word, {s})}
    /\ UNCHANGED <<console, setting, ready, orders, messages, handed, asked, diskVars, seals>>

(* flush, flush of parity chunks, memory: the console goes through the     *)
(* pool before the next command.                                           *)
ServerWalk(s, line) ==
    /\ ServerReads(s, line)
    /\ line.word \in {"flush", "p2disk", "memory"}
    /\ BeginWalk(s, "console", line.word, typed)
    /\ console' = [console EXCEPT ![s] = "busy"]
    /\ UNCHANGED <<setting, orderVars, chunks, io, files, failed, due, changes, sealVars>>

SetDelay(s, line) ==
    /\ ServerReads(s, line)
    /\ line.word = "delay"
    /\ setting' = [setting EXCEPT ![s] = (line.number > 0)]
    /\ UNCHANGED <<console, orderVars, diskVars, sealVars>>

Sync(s, line) ==
    /\ ServerReads(s, line)
    /\ line.word = "sync"
    /\ handed' = handed \cup {Order(line.word, {s})}
    /\ UNCHANGED <<console, setting, ready, orders, messages, asked, got, diskVars, sealVars>>

(* A worker gets the coordinator's message, and does the same.             *)
HandleOrder(s, w, m) ==
    /\ m \in messages /\ m.to = {s}
    /\ walks[s][w] = NoWalk
    /\ messages' = messages \ {m}
    /\ got' = got \cup {m}
    /\ IF m.type = "seal"
       THEN SealEvents(s, m.id) /\ UNCHANGED walks
       ELSE BeginWalk(s, w, "flush", m.id) /\ UNCHANGED sealing
    /\ UNCHANGED <<typed, console, setting, ready, orders, handed, asked, chunks, io, files, failed,
                   due, changes, seals>>

(* Whether a chunk is one to write, or to count.                           *)
Met(walk, c) == (walk.kind = "p2disk" => c.parity) /\ ~Empty(c)

(* One chunk of the pool: the end is at the last one, or when as many were *)
(* met as the pool had allocated at the beginning.                         *)
WalkOn(s, w) ==
    LET walk == walks[s][w]
        c == Chunk(s, walk.at)
        met == walk.met + (IF Met(walk, c) THEN 1 ELSE 0)
        end == walk.at = Total \/ (Met(walk, c) /\ met = walk.count)
        tally(kind) == IF Met(walk, c) /\ c.parity = (kind = "parity") THEN 1 ELSE 0
    IN  /\ walk # NoWalk
        /\ io' = IF walk.kind # "memory" /\ Met(walk, c)
                 THEN [io EXCEPT ![s] = @ \cup {[chunk |-> walk.at, id |-> walk.id]}] ELSE io
        /\ walks' = [walks EXCEPT ![s][w] =
                        IF end THEN NoWalk
                        ELSE [walk EXCEPT !.at = @ + 1, !.met = met,
                                          !.parity = @ + tally("parity"), !.data = @ + tally("data")]]
        /\ due' = IF end /\ walk.kind # "memory" THEN [due EXCEPT ![s] = @ \cup walk.due] ELSE due
        /\ console' = IF end /\ w = "console" THEN [console EXCEPT ![s] = "prompt"] ELSE console
        /\ UNCHANGED <<typed, setting, orderVars, chunks, files, failed, changes, sealVars>>

(* LocalStorage::write, of the chunk as it is when a worker takes the      *)
(* event.  Nobody looks at the result.                                     *)
Write(s, e) ==
    /\ e \in io[s]
    /\ io' = [io EXCEPT ![s] = @ \ {e}]
    /\ \/ /\ files' = [files EXCEPT ![s][e.chunk] = chunks[s][e.chunk].version]
          /\ failed' = [failed EXCEPT ![s] = @ \ {e.chunk}]
       \/ /\ failed' = [failed EXCEPT ![s] = @ \cup {e.chunk}]
          /\ UNCHANGED files
    /\ UNCHANGED <<typed, console, setting, orderVars, chunks, walks, due, changes, sealVars>>

(* MixedChunkBuffer::seal: parity chunk buffers have nothing to seal.      *)
SealBuffer(s, e) ==
    /\ e \in sealing[s]
    /\ sealing' = [sealing EXCEPT ![s] = @ \ {e}]
    /\ seals' = IF Buffers[e.buffer] = "data" THEN [seals EXCEPT ![s][e.buffer] = @ + 1] ELSE seals
    /\ UNCHANGED <<typed, console, setting, orderVars, diskVars>>

(* ChunkPool::alloc: the next chunk.                                       *)
Alloc(s, parity) ==
    /\ changes < MaxChanges /\ Len(chunks[s]) < Total
    /\ changes' = changes + 1
    /\ chunks' = [chunks EXCEPT ![s] =
                    Append(@, [parity |-> parity, empty |-> TRUE, version |-> 1])]
    /\ UNCHANGED <<typed, console, setting, orderVars, walks, io, files, failed, due, sealVars>>

(* Objects are set in a chunk, or the last one is deleted.                 *)
Change(s, i, empty) ==
    /\ changes < MaxChanges /\ i \in DOMAIN chunks[s]
    /\ changes' = changes + 1
    /\ chunks' = [chunks EXCEPT ![s][i].empty = empty, ![s][i].version = @ + 1]
    /\ walks' = [walks EXCEPT ![s] = [w \in Walkers |->
                    IF @[w] # NoWalk /\ empty /\ ~chunks[s][i].parity
                    THEN [@[w] EXCEPT !.due = {d \in @ : d.chunk # i}] ELSE @[w]]]
    /\ UNCHANGED <<typed, console, setting, orderVars, io, files, failed, due, sealVars>>

-----------------------------------------------------------------------------
(* A client *)

ClientReads(line) ==
    /\ Reads("client")
    /\ line \in ClientLines
    /\ UNCHANGED <<ready, orders, messages, asked, got, diskVars, sealVars>>

SyncMetadata(line) ==
    /\ ClientReads(line)
    /\ line.word = "metadata"
    /\ handed' = handed \cup {Order(line.word, {s}) : s \in Asked(line)}
    /\ UNCHANGED <<console, setting>>

(* The requests of all servers are prepared and replayed.                  *)
Replay(line) ==
    /\ ClientReads(line)
    /\ line.word = "replay"
    /\ handed' = handed \cup {Order(line.word, {s}) : s \in Servers}
    /\ UNCHANGED <<console, setting>>

(* set degraded true: three words, the second of them known.               *)
SetDebugFlag(line) ==
    /\ ClientReads(line)
    /\ line.word = "set"
    /\ setting' = IF line.text = "degraded" /\ line.number >= 0
                  THEN [setting EXCEPT !["client"] = (line.number = 1)] ELSE setting
    /\ UNCHANGED <<console, handed>>

(* ackparity is for no server in particular, but takes the lock of one.    *)
AckParity(line) ==
    /\ ClientReads(line)
    /\ line.word = "ackparity"
    /\ console' = [console EXCEPT !["client"] = IF Sockets = <<>> THEN @ ELSE "crashed"]
    /\ UNCHANGED <<setting, handed>>

-----------------------------------------------------------------------------
(* exit, or the end of the input: the process stops.                       *)
Exit(p) ==
    /\ Reads(p)
    /\ console' = [console EXCEPT ![p] = "ended"]
    /\ UNCHANGED <<setting, orderVars, diskVars, sealVars>>

ConsolesNext ==
    \/ \E line \in CoordinatorLines :
          \/ AskAll(line) \/ ReleaseDegradedLock(line) \/ SyncRemappedData(line)
          \/ SetServer(line) \/ SwitchOverload(line)
    \/ \E o \in orders : Dispatch(o)
    \/ \E s \in Servers :
          \/ Disconnect(s)
          \/ \E line \in ServerLines :
                \/ ServerSeal(s, line) \/ ServerWalk(s, line) \/ SetDelay(s, line)
                \/ Sync(s, line)
          \/ \E w \in Workers, m \in messages : HandleOrder(s, w, m)
          \/ \E w \in Walkers : WalkOn(s, w)
          \/ \E e \in io[s] : Write(s, e)
          \/ \E e \in sealing[s] : SealBuffer(s, e)
          \/ \E b \in BOOLEAN : Alloc(s, b) \/ \E i \in 1 .. Total : Change(s, i, b)
    \/ \E line \in ClientLines :
          \/ SyncMetadata(line) \/ Replay(line) \/ SetDebugFlag(line) \/ AckParity(line)
    \/ \E p \in Processes : Exit(p)

-----------------------------------------------------------------------------
(* What the operator asks of all servers is done by all that stay          *)
(* connected: when the coordinator's queue and the connections are empty,  *)
(* each has got every SEAL_CHUNKS and FLUSH_CHUNKS it was ready for.       *)
OrdersCarried ==
    orders = {} /\ messages = {} => \A o \in asked : o.to \subseteq ready => o \in got

(* A flush leaves out no chunk: those that held something when it began    *)
(* are on disk as they were then or later, if no write failed and none was *)
(* emptied before its turn, whatever other workers allocate and change     *)
(* while Server::flush counts.                                             *)
FlushesComplete ==
    \A s \in Servers : io[s] = {} =>
        \A d \in due[s] : files[s][d.chunk] >= d.version \/ d.chunk \in failed[s]

(* What Server::memory has counted are the chunks it has passed, if none   *)
(* changed meanwhile.                                                      *)
MemoryExact ==
    \A s \in Servers, w \in Walkers :
        LET walk == walks[s][w]
            passed(parity) == {i \in 1 .. Len(chunks[s]) :
                                /\ i < walk.at /\ ~Empty(chunks[s][i])
                                /\ chunks[s][i].parity = parity}
        IN  walk.kind = "memory" /\ walk.since = changes =>
                /\ walk.parity = Cardinality(passed(TRUE))
                /\ walk.data = Cardinality(passed(FALSE))

(* Data chunk buffers are sealed once for every command, the server's own  *)
(* and the coordinator's.                                                  *)
SealsExact ==
    \A s \in Servers, b \in DOMAIN Buffers :
        LET orderly == {m \in got : m.to = {s} /\ m.type = "seal"}
        IN  sealing[s] = {} /\ Buffers[b] = "data" => seals[s][b] = Cardinality(orderly)
=============================================================================

# MemEC: a TLA+ verification project

MemEC is an in-memory key-value store that protects small objects with erasure
coding. This directory holds TLA+ modules translated from its source, the TLC
configurations that check them on small instances, and theorems that TLAPS
checks for every instance.

`PROJECT.json` maps each definition to the lines it models, lists the runs,
the mutants that show that each property can fail, the hazards of the code and
the disagreements found between the code and its comments.

## 1. Inventory

### Processes

An *application* sends SET, GET, UPDATE and DELETE requests to a *client*. The
client hashes the key to a stripe list, picks one of its data servers, and sends
the request to it (a SET also to the parity servers). *Servers* store objects in
chunks; a stripe is k data chunks and n-k parity chunks on different servers.
The *coordinator* registers servers, watches their load, and leads the
transition of a server to the degraded state and back. Coordinator, clients and
servers also form a Spread group, over which states are broadcast.

Every process has one thread that polls its sockets and inserts events into a
queue, and a pool of workers that extract and handle them. Coordinator and
clients have a further thread that reads the group's messages.

### Components

| component | state | operations | interacts with |
|---|---|---|---|
| Coordinator state transition | `serversState`, `ackClients`, `aliveClients`, event queue, metadata counters | switch command, broadcast, wait for acknowledgements, complete, membership | Spread, degraded locks, remapping, recovery |
| Client state transition | `serversState` of its own, `StateTransitInfo` (counters, pending requests) | set state, gather requests, revert deltas, acknowledge, replay | Spread, request handling, parity delta backup |
| Spread messaging | queues of the group | multicast, membership | state transition |
| Parity delta backup | timestamps and `lastAck` per data server at a client; backups of deltas at servers | stamp, forward, acknowledge a range, revert | client requests, server data path |
| Degraded locks | `degradedLocks`, `releasingDegradedLocks`, pending counts | lock, expand a lock, release, migrate back | state transition, servers |
| Client metadata backup | `ops` and `sealed` of every server since its last heartbeat | insert, acknowledge a range, synchronize after a crash | heartbeats, state transition |
| Client requests | pending maps per operation, start times | issue, lock, send, answer, retry, replay | everything |
| Server data path | pending maps, maps of keys and chunks, cuckoo hash index | SET, GET, UPDATE, DELETE and their parity parts | chunk buffers, backups |
| Chunk buffers | open chunks and their locks; at parity servers keys and deltas before the seal | append, seal, re-insert, update | server data path, coding |
| Degraded operations | degraded chunk buffer, waiting requests per chunk and key | reconstruct on demand, operate on the copy, forward, migrate back | degraded locks, coding |
| Recovery | backup servers, announcements, counts of chunks and keys | promote, reconstruct, report | state transition, servers |
| Remapped SET | remapping records, objects kept for another server | lock, write to another server, synchronize | state transition, servers |
| Overload detection | latencies per server and alarm | measure, smooth, report, average, decide | client requests, state transition |
| Event queues, pools | ring buffers, priority queue, free lists, reference counts | insert, extract, allocate, release, stop | all workers |
| Placement | stripe lists, hashes, masks, cuckoo hash table | generate, look up, redirect | all |
| Erasure coding | matrices, tables, primes | encode, decode, add a delta | buffers, degraded operations |
| Protocol, sockets | connections, instance IDs, bytes received | compose, parse, register, receive | all |
| Configuration | settings, threads of a process | read, validate, start, stop | all |
| Application | commands and their files | ask, look up the answer | clients |

### What is hard

* **Concurrency.** Several threads of a process share states under locks that
  are often released between a check and its use: acknowledgements are compared
  before a condition variable is waited for, the flow of a request is chosen
  before the request is pending, server states are read before the lock of the
  degraded locks is taken.
* **Ordering.** States are composed and multicast by different threads; answers
  to UPDATEs come in any order while ranges of timestamps are acknowledged; a
  release is answered while its count still grows.
* **Failure.** Multicasts fail after states were switched, event queues are
  full, clients leave in the middle of a transition, a server is lost with
  deltas applied to parity that its own chunk never saw.
* **Limits.** Timestamps wrap around at 2^32, unsigned counters go below zero,
  empty sets of timestamps reach code that looks at their first member.

### What makes each component correct

* State transition: every server has at most one transition under way and none
  is forgotten; a server is DEGRADED only when all clients know, have drained or
  reverted their normal requests and have synchronized their metadata; clients
  never disagree with the coordinator by more than a phase; every transition
  ends.
* Parity delta backup: a backup is kept as long as its request may have to be
  undone and no longer; a revert undoes what the client did not see completed,
  all of it and nothing else, and is counted down once.
* Metadata backup: what a client was told of is known to the coordinator or to
  some client when the server crashes.
* Requests: an application is answered once, by all servers that its request
  went to, however often it is replayed; a server answers after the last parity
  server, or when the failed one is reverted.
* Degraded locks: two requests for a stripe agree where its lost chunks are
  reconstructed; a lock is released once, with the server it was made for; a
  server is NORMAL only when its chunks are back.
* Degraded operations: what is reconstructed is one version of the stripe, has
  every acknowledged update, and no waiting request is left behind.
* Chunk buffers: whatever the order of arrival, a parity server has every write
  once, among the unsealed objects or at the object's place in the parity chunk.
* Remapping: an answered SET is where its record leads, and at home when the
  server is normal again.
* Recovery: the replacement has every chunk and key when it is logged as such.
* Queues, connections, messages: nothing is lost, served twice or read across a
  boundary, and no thread sleeps on work it could do.
* Pure parts: codes give back what was encoded, layouts are read as written,
  stripe lists use every server as often as the others.

## 2. Modules

| module | models | run |
|---|---|---|
| `ServerStates` | the states of a server and the sets of servers and clients | `transit_*`, `locks` |
| `TransitNetwork` | the Spread group: FIFO queues from the coordinator to each client and back, with membership messages | `transit_*` |
| `CoordinatorTransit` | `coordinator/state_transit`, and the commands and metadata that reach it | `transit_*` |
| `ClientTransit` | `client/state_transit`, and the parts of the client's workers that it waits for | `transit_*` |
| `StateTransit` | the two composed: specification, fairness, properties | `transit_*` |
| `TransitPromise` | abstract specification of the protocol, implemented by `StateTransit` | `transit_cycle` |
| `ParityDelta` | timestamps, acknowledgements and reverts between a client, a data server and a parity server | `client` |
| `ClientRequests` | requests of applications at a client, with locks, parts and replays | `client` |
| `MetadataSync`, `Timestamps` | metadata of SETs, DELETEs and seals: heartbeats, backups of clients, a crash | `client` |
| `DegradedLocks` | degraded locks and their release at the coordinator, with the backward migration | `locks` |
| `ChunkSeal` | the chunk buffers of a data and a parity server, and the requests that keep them in step | `storage` |
| `CuckooHash` | the index of a server | `storage` |
| `Protocol` | layouts of objects, chunks and messages | `storage` |
| `XorCodes`, `MatrixCodes` | erasure codes, and the fields and matrices below them | `storage` |
| `Placement` | stripe lists, hashes, masks, redirections | `storage` |
| `DegradedOps` | degraded GET and UPDATE on a sealed stripe | `servers` |
| `DegradedKeys` | degraded GET, UPDATE and DELETE of an unsealed key | `servers` |
| `ServerRequests` | UPDATE and DELETE at a data server while parity servers fail | `servers` |
| `Remapping` | SETs while a server is degraded, and its return | `servers` |
| `Recovery` | reconstruction of crashed servers at a backup server | `servers` |
| `Queues` | event queue, ring buffers, workers, packets | `nodes` |
| `Receiving` | messages over a connection with several readers | `nodes` |
| `Connections` | registration of servers, peers and clients | `nodes` |
| `Conversations` | which process sends which message and who has a case for it | `nodes` |
| `Application` | the interactive application: its lines and what they send | `nodes` |
| `Consoles` | the operator consoles of coordinator, client and server | `nodes` |
| `Overload` | latencies and the choice of servers to degrade | `nodes` |
| `Configuration` | options, files, start and stop of a process, chunk pool | `nodes` |
| `Pending` | what is found, by ID, of the requests waited for | `nodes` |
| `MC...` | model values and the instances that a run chooses from | |
| `SumLemmas` | induction over finite sets, and sums over them | |
| `StateTransitProofs`, `ParityDeltaProofs`, `DegradedLocksProofs`, `ServerRequestsProofs`, `RemappingProofs`, `ChunkSealProofs`, `CuckooHashProofs` | theorems | |

### State transition (`StateTransit`)

*Coordinator.* A *dispatcher* is a thread that handles a SWITCH_PHASE command
(`SwitchPhase`), then follows `stateChangeInitHandler`: it switches the state of
each server that is in the right one (`InitServer`, one step per server, under
`serversStateLock`), composes the broadcast (`InitCompose`), multicasts it
(`InitSend`, or `InitSendFails`, which reverts as the code does), and inserts
events for the workers (`InsertEvent`, disabled while the ring buffer is full)
or, for a server that crashed, marks metadata as awaited. `dispatcher[d]` holds
the arguments and locals of the call. A *worker* extracts an event, waits until
metadata is synchronized or data migrated back, checks the acknowledgements,
waits on `ackSignal` and completes the transition; `worker[w].pc` is where it
is. The lock that a step holds across others is a predicate over these program
counters (`StateLocked`, `AckSignalLocked`). The *reader* handles group messages
in several steps where the code releases a lock in between (`UpdateState` then
`SignalAcked`; `RemoveAliveClient` then `EraseAck`).

*Client.* `SetState` is the handler of a broadcast; the parts after the state
lock is released are `AfterSetState`. Requests are UPDATEs or DELETEs with a
data server and parity servers: `StartRequest` chooses the flow, `SendRequest`
makes the request pending, `HandleResponse` and `CompleteNormalRequest` answer
it. `SendRevert` and `DeltaAcknowledged` are the revert of deltas; `parityRevert`
is the unsigned counter, modulo `CounterMod`.

*Composition.* Coordinator and client share the network only, and the metadata
packet (`SyncMetadata`), which goes by TCP and is one step: nothing at the
coordinator depends on when it arrives other than the count it decrements.
`terminated` is the `exit` of a client or coordinator on a protocol error.

`TransitPromise` says what clients and servers rely on: the coordinator's state
of a server goes round NORMAL, INTERMEDIATE, DEGRADED, COORDINATED, completes
only when every client is at the matching wait state, and a client follows one
step at a time.

### Parity deltas (`ParityDelta`)

One client, one data server, one parity server: nothing is shared between
different ones. `Ops` are UPDATE and DELETE requests. A request is stamped
(under the timestamp's lock), becomes pending, has its delta forwarded and
applied with a backup, and is answered; after an answer its thread may be in
`ackParityDelta`, which reads `lastAck`, the oldest pending UPDATE and the
oldest pending DELETE in separate steps. When the data server leaves NORMAL the
reader thread forces an acknowledgement, lists pending UPDATEs, then DELETEs,
and sends the revert, also when it listed nothing. `SharedIds` are requests with
an ID that `isPendingRequest` may find among those waiting for this server:
either list may leave them out. `channel` carries acknowledgements and reverts to
the parity server, in order if `InOrder`. Timestamps are modulo `TsMod`;
`FirstTs` 0 is where the code starts. The set operations of the server
(`removeParityUpdate` with its two ranges, `revertParityUpdate` with the first
and last member of a set) are modelled by what they compute, the read of
`*end()` and of the header of an empty `std::set` included.

Two variables are history and guard nothing: `passed`, the requests that
`lastAck` overtook before they had their response, and `settled`, those that had
it when the data server failed.

### Degraded locks (`DegradedLocks`)

A lock request is checked server by server in two loops (`surviving`, then
`targets`), each reading the state under `serversStateLock`, then inserted under
`degradedLocksLock`. A release swaps the two maps, groups chunks by the server
they were reconstructed at, and adds destinations to the pending count one at a
time while responses count it down; `returning[s]` is where
`transitToNormalEnd` is, under the lock of the state of `s`. Every
release has the ID of the request that began it, and a response is matched to
it. `dup` and `expand` of `DegradedLock` are `Insert`'s operators, the unsigned
subtraction and its assertion included; `aborted` is the failed assertion.

### Sealing (`ChunkSeal`)

One data server and one parity server of a stripe list. `data[s]` is the data
chunk of stripe `s`, a sequence of objects; `buffer` is the `DataChunkBuffer`,
with its open chunks and the sizes it caches. A SET is handled by each server on
its own. The data server's part is one step, as it runs under the buffer's lock:
choose a chunk (`Fitting`, `Fullest`, or a sealed chunk in `ReInserted`), flush
one before if none fits and after if it is full, and send a seal request for
each chunk flushed. UPDATE and DELETE change the data chunk and send a delta
that names the object or, after the seal, its place. The parity server keeps
`keys` and `pending`; `SetParity`, `SealChunk`, `UpdateKeyValue`, `UpdateChunk`,
`DeleteParity` and `DeleteChunk` are the handlers, each one step per lock it
takes: `UpdateKeyValue` that finds no object turns its message into one for the
parity chunk. A value is the set of operations that wrote it and exclusive-or is
`SymDiff`, so that a write lost and a write applied twice are both seen.
`reused` remembers keys deleted, or set while they existed. Copies made for
recovery (`GetChunkBuffer`) are in `DegradedOps`, large objects in `Protocol`.

### Metadata (`MetadataSync`)

A server logs each SET and DELETE with a timestamp (`stored`, `ops`, `sealed`)
and answers the client with it. A heartbeat stamps, takes the sealed chunks and
the operations apart, each under its lock (`BeatStamp`, `BeatSealed`, `BeatSend`,
`BeatOps`), and the coordinator's acknowledgement lets the server tell its
clients which range of timestamps they may forget (`HandleHeartbeatAck`,
`HandleAcknowledgement`). After a crash a client sends what it has left
(`SyncMetadata`). Timestamps wrap around (`Timestamps`).

### Requests of a client (`ClientRequests`)

`app` is the map of application requests, `entries` that of requests to servers
and `sent` the messages under way. A request decides on its flow, is entered,
and is sent, in steps of one worker (`hand`); a lock comes first in the
coordinated flow. `HandleGetFailure`, `HandleGetPart`, `HandleSetResponse` and
the others are the handlers of the responses (a part that is not found is asked
for again at `KeyServer`, the server that its key hashes to; the key of a further
part is hashed with its offset, so this is any server, and when the part is not
there either the GET fails), `ReplayOne` and `ReplayRequests`
what setState does when a server becomes DEGRADED. What servers store is left
out: a response succeeds or fails.

### Degraded requests (`DegradedOps`, `DegradedKeys`)

`DegradedOps` has one stripe, its chunks as sets of updates per data chunk, so
that a chunk decoded from different versions is seen. A request finds the lost
chunk, waits for it, or starts its reconstruction: `GET_CHUNK` to the survivors,
decoding, `FORWARD_CHUNK` to the other servers of the lock, and the requests
that waited, all under the chunk ID of the request that started it (`metadata`;
`behind` records those that waited with another). Updates meanwhile are applied
at survivors, which copy the chunk aside first. `DegradedKeys` has one object of
an unsealed chunk: the redirected server fetches it from a parity server, keeps
it, and sends changes to the parity servers; a server that goes on with freed
memory is `corrupt`. It is another server than those of the key, so that it
reads from a parity server and never from itself (section 4).

### Requests of a server (`ServerRequests`, `Pending`)

`ServerRequests` follows UPDATEs and DELETEs from the client to the answer,
with entries inserted for all parity servers before messages are sent, one by
one, and `HandleRevert` for a parity server that failed. `Pending` is about the
tables themselves: entries are compared by IDs only, so a response takes any of
its request; it also has the registrations that a recovering server holds back,
the start times of a client, and the acknowledgements of reverts that a lost
server leaves open.

### Remapping and recovery (`Remapping`, `Recovery`)

`Remapping` composes the client's choice of a server (`redirect`), the
coordinator's record, the SETs, and the synchronization that begins when the
server returns. `Recovery` follows `handleReconstructionRequest` through its
waits: announcement, promotion, tasks per stripe list, unsealed keys; survivors
and the promoted server handle messages in any order; servers crash meanwhile
and a second recovery waits in a queue.

### Index, layouts, codes and placement

`CuckooHash` searches a path and moves objects along it in single steps. The
other modules are functions, checked for every input of a bounded set against a
reference: `Protocol` has a generator and a parser for every message, each
translated from its own function: one gives the length put into the header and
the fields in the order of writing, the other the offsets that are read and the
bytes asked for, and the places of the two are compared; `XorCodes` keeps
symbolic bytes, so that a result holds for all data; `MatrixCodes` multiplies,
inverts and schedules in the fields it defines; `Placement` compares lists with
counts of their members.

### Processes (`Queues`, `Receiving`, `Connections`, `Conversations`, `Overload`, `Application`, `Consoles`, `Configuration`)

`Queues` has one step per mutex section of the ring buffers and the priority
lock; a worker is an inserter too, of the copies of a packet it sends.
`Receiving` delivers bytes, not messages, to workers that epoll wakes one at a
time. `Connections` starts processes that register with each other, one of them
crashing and starting again. `Conversations` has the tables of event types,
magic numbers and opcodes of all switches, and follows each conversation to its
last answer. `Overload` keeps latencies as pairs of seconds and nanoseconds.
`Application` splits a line into words, counts and checks them, and sends what
they ask for; `Consoles` carries the commands of an operator (switches, flushes,
seals, synchronization, metadata, counts of memory) to the peers that serve them
and back; commands that only print are left out. `Configuration` reads options
and lines one by one, validates them, and starts and stops the threads of each
kind of process.

## 3. Runs

Most passing runs choose one of several instances at the start (`unit`, `one`,
`joining`): the instances share no state and no step.

| run | instances | shows |
|---|---|---|
| `transit_cycle` | 2 servers (1 switched, to degraded and back), 2 clients, a request at each | types; metadata synchronized and parity reverted before DEGRADED; `StateTransit` implements `TransitPromise` |
| `transit_faults` | 2 servers switched, 2 workers, event queue of 1, a failing multicast; or a client and a server that join, a client that leaves, spurious wake-ups | the revert counter is exact; no transition is forgotten; acknowledgements are of clients in the group |
| `transit_liveness` | the cycle with one client, redundant switches too, under fairness | a client that is told of a transition acknowledges it; a server has one transition at a time |
| `client` | `ParityDelta` with 2 UPDATEs and a DELETE with a shared ID, messages in any order: from timestamp 0 on with one worker and 3 requests in flight, or two workers and 2 in flight; or one request at a time across the wrap-around; `ClientRequests` with 2 of 4 requests and 6 changes of a server's state; `MetadataSync` with a SET, a DELETE and two heartbeats | no backup of an answered request is left that no acknowledgement takes, unless `lastAck` overtook the request, and those of one request at a time are limited to a batch; what had its response is not undone, but for timestamp 0; ranges acknowledged by one worker end before what is pending, but for timestamp 0; applications are answered once, by all servers, and never forgotten; metadata survives a crash |
| `locks` | 2 servers switched and 2 threads; or one server, two stripes, one thread | release count exact; redirections stable; with one thread, locks only for degraded servers and chunks back before NORMAL |
| `storage` | `ChunkSeal` with 3 keys and 5 operations; `CuckooHash` with 7 objects in 8 slots; inputs of 15 functions | sizes exact, no write lost or applied twice, sealed objects rebuilt; objects found while others move; layouts, codes and placements as defined |
| `servers` | `DegradedOps` with 3 requests on 4 chunks; `DegradedKeys`, `ServerRequests` and `Remapping` each in two settings; `Recovery` with 2 crashes | answers once and after all parity servers; acknowledged data is read; chunks of one version; remapped objects found and migrated; all chunks and keys recovered |
| `nodes` | the process modules; `Queues` with 2 workers, stopped at any time, or with one place in each queue and workers that insert copies until all may sleep on the full queue; `Receiving`, `Consoles` and `Overload` in two settings each | nobody sleeps on a place or an event it could use; an event with priority is overlooked only when all workers wait for a place; packets go back once; events and messages served once; every request understood and answered; processes agree on their settings; tables exact |

Runs that refute what a comment of the code says; each is a finding in
`PROJECT.json`:

| run | refuted | by |
|---|---|---|
| `lost_wakeup` | the transition completes | last acknowledgement signalled between check and wait |
| `ack_inverted` | pending requests keep their backups | range below `lastAck` wraps around |
| `release_early` | migrated before NORMAL | count is zero before all destinations are added |
| `stale_backup` | reconstructed data has acknowledged updates | `GET_CHUNK` hands out the copy made at the first UPDATE, which is never discarded |

### Bounds

* `MaxSwitches`: 2 is a full cycle, or two servers. `MaxServerJoins`,
  `MaxSendFailures` and `MaxLeaves` bound what the environment does; one of each
  can happen in any state. `QueueSize` 1 makes the queue full with two servers.
* `CounterMod` 8 stands for 2^32: no count of these instances reaches 4, so a
  wrap-around below zero is told from every real count.
* `TsMod` 8 with three requests makes distances as ambiguous as 2^32 with 2^31
  requests would: less than half of the range is in use. `FirstTs` is 0 as in the
  code where several requests are in flight, and 1 in `ack_inverted`, whose cause
  is not timestamp 0; the instance with one request at a time begins shortly
  before the wrap-around. `BatchSize` 2 lets an acknowledgement be
  due or not. `MaxOutstanding` is the number of requests in flight.
* `ClientRequests`: `MaxIssued` 2 lets any two of a SET, a large GET, an UPDATE
  and a DELETE meet; `MaxChanges` 6 takes a server round the states with both
  wait states. `MetadataSync`: stamps start two before the wrap-around at 16;
  two heartbeats (`MaxBeats`) can overtake each other.
* Degraded locks: three servers are the fewest for which a lost chunk can move
  and a second one be lost; the two-stripe instances are those where a release
  has two destinations.
* `SpuriousWakeups` and `RedundantSwitches` turn environment behaviour on or
  off, so that a violation run shows its cause alone.
* `ChunkSeal`: chunks of three bytes hold two or three objects, so that an
  object may fit in one open chunk and not in the other, fill a chunk exactly,
  or fit in none. Five operations are two SETs, two UPDATEs and a DELETE, or
  three SETs with a deletion and a SET of the same key. `MaxStripes` 4 lets two
  chunks be sealed besides those that stay open. Every operation is a token of
  its own, so no two values can agree by chance.
* `CuckooHash`: seven objects fill four buckets of two but for one slot, so that
  the last insertions need paths, some with cycles; `MaxCuckoo` 7 lets a search
  fail too.
* Functions: sizes around the chunk size (14, 20 and 26 bytes) from an empty
  value to one of three parts; codes with every set of lost chunks, and deltas
  at every offset; fields 2^2, 2^3 and 2^4 completely and 2^8 at the corners;
  lists of 2 to 5 of 2 to 7 servers; every combination of states of the servers
  of a stripe.
* `DegradedOps`: three data chunks and a parity chunk, each lost in turn;
  `DegradedKeys`: three requests for one key and two parity servers, one of them
  gone or sealing. `ServerRequests`: three or four requests with two parity
  servers, both failing, or one. `Remapping`: two SETs, of one key or two, while
  a data or a parity server is degraded. `Recovery`: two stripe lists of three
  servers, one chunk or key each, two backup servers, two crashes, so that one
  recovery waits for another.
* `Queues`: with one place in each queue and 4 events, 2 are with the workers, 1
  fills the normal queue and 1 has priority, the fewest with which all workers
  sleep on the full queue; 2 events suffice to stop queues that are empty or in
  use;
  `Receiving`: messages of 0 to 2 bytes after a header of 2, in a buffer of 4;
  `Connections`: three servers and a client, `MaxStarts` 2; `Overload`: seconds
  of 4 nanoseconds, so that a sum carries over, 4 measures and 4 alarms;
  `Configuration`: about 190 combinations of files, options and roles, numbers
  at the limits that the code checks; `Pending`: four asks, one per kind of map,
  with a request ID of one client equal to that of another; three requests and
  two targets of reverts.

Deadlock is not checked: with these bounds every behaviour ends, and a process
may have ended (`terminated`, `aborted`, `stops`). That threads do not wait on
each other for ever is stated instead as an invariant of the states in which
nothing else can happen (`NoneStranded`, `NoneLeftWaiting`, `EventsServed`,
`PeersAnswered`) or as liveness. `transit_faults` uses the symmetry of workers
and dispatchers, `locks` that of requests and workers, `client` that of UPDATEs;
they check no liveness.

### Fairness

Weak fairness of every thread of coordinator and clients: they are pthreads with
no priorities, and their locks are held for steps that end. Servers that are
never switched answer requests and reverts. Nothing is assumed of commands, of
membership changes, of servers that may have crashed, or of the background
thread of the client, which a build option turns off. In `DegradedLocks` all
threads and the servers that migrate chunks are fair, requests are not.

## 4. What the passing runs leave out

The modules define more properties than the runs check. These are refuted by
TLC with the constants given, from what a comment, a message or an assertion of
the code says; the passing runs claim the property only without the cause.

| property | module, constants | cause |
|---|---|---|
| `DegradedNeedsAllAcks` | `StateTransit`, `MaxLeaves` 1 | `isAllClientAcked` compares the sizes of two sets, and a client leaves them in two steps |
| `MetadataSynced` | `RedundantSwitches` TRUE | a command that changes nothing broadcasts everything, and a client synchronizes twice |
| `NormalRequestsDrained` | a request | the flow is chosen before the request is pending, the gathering in between misses it |
| `GatheredAwaited` | a request | gathered UPDATEs are looked up among pending SETs (`findKeyValue`) |
| `FailedStartReverts` | two servers switched, `MaxSendFailures` 1 | the loop over the switched servers indexes the array of all of them |
| `ModeAgreement` | two servers switched, or two dispatchers | broadcasts are composed in one order and sent in another |
| `AckBeforePending` | `ParityDelta`, two UPDATEs, in order: `FirstTs` 0, or `FirstTs` 1 and `Workers` 2 | 0 - 1 is the largest timestamp; an UPDATE is stamped but not yet pending when another worker acknowledges. Runs and theorems claim `AckEndsBeforePending`: with one worker and no pending timestamp 0 |
| the same for DELETEs | `Deletes` not empty | DELETEs are looked at only if an UPDATE is pending |
| `BackupsReclaimed` without `passed` | two UPDATEs and `FirstTs` 0 or `Workers` 2, or a DELETE | a range passes a request before its backup is made, and the next one begins behind it |
| `RevertComplete` | two UPDATEs | the forced acknowledgement drops the backup that the revert lists |
| `AnsweredKept` | two UPDATEs | a response is accepted after the revert listed its request |
| `RevertOnlyListed` | `FirstTs` 0, `InOrder` FALSE | for an empty set the members read are 0, and timestamp 0 is undone; `SettledKept` is what is left of it |
| `ReleasedNotRevived` | `DegradedLocks`, two releases | the map of released locks is swapped back in and never cleared |
| `ReleasesOwnChunks` | two servers switched | a release takes the locks of all servers |
| `LockedOnlyDegraded` | two workers | states are checked before `degradedLocksLock` is taken |
| `NoAbort` | two workers | a state read twice in a request makes a server surviving and lost |
| `ReturnsToNormal` | one worker, fairness | the pool waits for a lock held until the pool answers |
| `DeltasConserved` | `ChunkSeal`, `AnsweredOnly` FALSE | an UPDATE of another client overtakes the SET at the parity server, where the SET then meets "TODO: PRT_UPDATE" and is dropped |
| `SkipsFailed` | `ServerRequests` | entries of a failed parity server are looked for by a socket that comparisons ignore |
| `HeldAnswered` | `Pending`, two workers | a registration is held back after the held ones were answered |
| `PeersReady` | `Connections`, `Calm` FALSE | two servers register before either is announced and both connect |
| `IdsLead` | `Connections`, `SeveralWorkers` TRUE | a registration reaches a server before its own instance ID |
| `HandledWhole` | `Receiving`, deferring with two readers | the worker of a deferred event reads the socket another worker reads |
| `SomeoneServes` | `Queues`, events with all workers, a full normal queue and an event with priority | all workers insert into the full queue that only they empty; `NoneOverlooked` excludes just the states in which all of them sleep there (`AllBlocked`) |
| `NoneAsleep` | `Queues`, `Stopping` and 4 events | a stop takes the signal of an extraction that a worker with an event to insert waits for |
| `UpdatesPlaced` | `DegradedOps`, an UPDATE of another chunk that waits behind a GET of the lost one | one `metadata` for all requests that waited (`server_peer_res_worker.cc:905`); `ParityCurrent` claims that such an UPDATE is in the parity chunk once, under whichever chunk |
| `ReturnedExact` | `Protocol`, a returned chunk with two objects | each object is written twice and counted once (`chunk_protocol.cc:171-202`), and the receiver finds the copy of the first where it expects the second |
| `Answered` | `Conversations`, `Gaps` TRUE | remapped DELETEs, and degraded GETs held by the client's own server, have no case |
| `CommandsAnswered` | `Application`, `Patient` FALSE | two commands for a key share an entry; the second lookup fails and keeps the lock |
| `StopOrdered` | `Configuration`, `Calm` FALSE | a second signal enters `stop` while it runs |

Facts of the code that the properties are written around:

* `ChunkSeal`: properties speak of objects that are found, were never deleted
  and are in chunks without deleted objects. A DELETE wipes the first object of
  its chunk (the offset is that of a second variable named `keyMetadata`); a
  seal request ends at the first wiped object; a DELETE in a sealed chunk ends in
  `assert( false )` at the parity server.
* `ClientRequests`: a SET is answered with the last response's success only; a
  large UPDATE or a replayed SET may be answered twice, so `AnsweredOnce` speaks
  of GETs, UPDATEs and DELETEs of one part.
* `MetadataSync`: a heartbeat that does not fit its buffer acknowledges stamps
  not yet sent; a DELETE followed by a SET of its key between two heartbeats
  leaves one of them (`Map::insertKey` keeps what it finds).
* `ParityDelta`: timestamp 0 is what the first UPDATE or DELETE for each data
  server gets (`timestamp.hh:12-15`). While it is pending, the range ends at
  the current timestamp (`client.cc:798`); an empty revert undoes it. It is
  exempted by name in `AckEndsBeforePending` and `SettledKept`, and in
  `BackupsReclaimed` only as far as a range did overtake it (`passed`).
* `Protocol`: a message that returns an unsealed chunk has every object twice
  (`ReturnedExact` above). `parseBatchKeyValueHeader` reads objects without their split
  offset (`batch_protocol.cc:217-224`), where the generator would write it
  (188-191); but the generator looks the keys up without the mark of a large
  object, does not find its parts (172-177) and leaves them out. So the message
  is read as written, and the inputs have no parts of large objects: such objects
  of unsealed chunks are not recovered.
* `CuckooHash`: `Key::equal` compares up to a zero byte (`key.hh:51-57`), so
  offsets of parts that contain one do not tell parts apart; `Map::deleteKey`
  looks for large parts under a key that is not marked as such (`map.cc:111`) and
  finds none. The instance has no part of a large object.
* `ChunkSeal`: a key enters the index after the lock of the buffer is given
  back (`data_chunk_buffer.cc:202-213`), in the model with it. In between an
  UPDATE or DELETE fails, as before the SET; a second SET of the key would
  store the object twice, and the properties speak of keys set once.
* `DegradedOps`: the parity server that a chunk is redirected to skips its own
  data chunk (`degraded_worker.cc:1503`), and the copies of `GetChunkBuffer` are
  never discarded (`stale_backup`).
* `DegradedKeys`: a second UPDATE of an unsealed key is refused, its operands
  are freed, and it is served later all the same (`corrupt`); a DELETE looks for
  a large object when the key is small, and its response is looked up under the
  client's instance ID; so `KeysAnswered` speaks of GETs and UPDATEs.
  `performDegradedRead` has a branch for the server itself
  (`degraded_worker.cc:1201-1347`), outside of the model. Two ways lead there.
  If a stripe has fewer data servers than a key has servers (`1 + m > k`),
  `BasicRemappingScheme::redirect` may choose a parity server of the key; then
  `dataServerSockets[ chunkId ]` was set to 0 and is dereferenced (1227). If only
  parity servers are redirected, the data server itself gets there with a DELETE
  ("TODO", 690) or an UPDATE of a key it does not have; `findObject` and
  `findLargeObject` are mixed up (1210-1214), so that an object is found, and
  FORWARD_KEY sent, only if it is a part of a large one that was looked up as an
  ordinary key, and otherwise the request fails and the key stays in
  `degraded.keys`, where later requests for it wait.
* `ServerRequests`: with several parity servers failing, a revert between two
  insertions answers at once, so the count, not the set, of parity servers is
  claimed.
* `Remapping`: records of keys remapped for a parity server are never erased,
  and a GET may follow a record to a server that has already sent the object
  home.
* `Recovery`: a server without chunks and keys never reports, a stripe whose
  survivor disconnects is dropped, and no backup server leaves `isRecovering`
  set; the instance has chunks, survivors and backup servers.
* `Overload`: a server told to degrade is not told back while the number of
  overloaded servers is between the two thresholds; `LoadTracked` compares with
  what was told.
* `Pending`: an end of a connection that only the event loop sees leaves its
  reverts counted (`client_socket.cc:80`); a GET that is sent again leaves the
  start time of the first attempt behind.
* `Configuration`: a metadata timeout below a second never fires (`alarm` of 0);
  chunk pools above 4 GB wrap the 32-bit offset; `isInChunkPool` is one chunk too
  wide; a code in the arguments drops the parameters that came with the one in
  the file. The instance stays below these limits or states what happens.
* Coding: `forceSeal` passes a parity index from 0 where 1 is expected; RAID-1
  copies no bytes of a delta; ISA-L decodes lost parity from rows beyond the
  inverse. The inputs are those that `decode` and `encode` are called with
  otherwise.
* `Consoles`: `ackparity` passes a target of 0 to `ackParityDelta`, which reads
  its address, and `revertparity` with the same target does nothing; the
  application's console takes an unknown word for nothing to do. The commands of
  the instance name a target and are known words.
* Placement: with fewer servers than `n`, `pickRand` does not end and `pickMin`
  gives server 0; lists are generated with at least `n`.

## 5. Proofs

Every theorem holds for all values of the constants that satisfy the ASSUMEs of
its component module (finite sets of servers and clients, `None` outside of
them, a data server that is not its own parity server, non-zero sizes) and the
hypotheses named here. A hypothesis is a condition without which TLC refutes the
property (section 4 or a violation run).

`SumLemmas`: a sum over a finite set (`SumFunctionOnSet`) of a function that
changes at one element, is raised at some, or is zero. The installed provers do
not instantiate an induction scheme with an operator; the lemmas quantify over
*sets* of good numbers or subsets instead (`NumbersInduction`,
`SubsetsInduction`, from well-foundedness), which is first-order.

`StateTransitProofs`, for all servers, clients, requests, threads and bounds:

* `TypeCorrect`: `Spec => []TypeOK`. The invariant is inductive as it stands;
  one lemma per action.
* `AcksCounted`: `Spec => []AcksFromAlive`. Inductive with the facts that the
  reader removes a client only between its two steps and that a joining client
  is added before its first acknowledgement can be read.
* `RevertsCounted`: `Spec => []RevertCounterExact`. Four actions touch the
  counter; for each, the sum over the peers changes as much as the counter does
  (`EnterIntermediate` raises it at the peers in normal flow, `removePending`
  zeroes one row, an acknowledgement lowers one entry).

`StateTransitProofs`, part 2:

* `TransitionsOwned`: a server in INTERMEDIATE or COORDINATED has a holder: a
  dispatcher that has checked it, an event, or an active worker.
* `TransitionsSingle`: `Spec => []SingleTransition`; as long as no multicast has
  failed, that holder is unique and agrees with the state. The inductive
  invariant `HolderInv` says that idle threads hold nothing, that every holder's
  direction is the one of the state (`HoldersAgree`), and that no server is held
  twice, in the queue or by two threads (`HoldersDistinct`). `SingleTransition`
  alone is not inductive: it says nothing of events still queued. It is
  conditional on `sendFailures = 0`, and the lemma `FailuresCounted` carries that
  condition back along a behaviour: `InitSendFails` puts the wrong server back
  (`FailedStartReverts`, section 4).

`StateTransitProofs`, part 3. The three theorems assume `Calm`: one server is
switched, one dispatcher takes the events, the group of clients is the initial
one, no multicast is refused, no command is redundant, no thread wakes up by
itself, and a uint32_t counts the clients. The constants of the run
`transit_cycle` satisfy it; the theorems hold for any number of clients,
workers, requests, other servers and switches. TLC refutes `PromiseKept` or
`ModeAgreement` when two servers are switched, with a second dispatcher, when a
client joins or leaves, when a server joins, when a multicast is refused and
with spurious wake-ups, and `MetadataSynced` with redundant commands.

* `PromiseImplemented`: `Spec => PromiseKept`, the refinement of
  `TransitPromise`. The argument is about phases: NORMAL with INTERMEDIATE, and
  DEGRADED with COORDINATED. What a client has yet to read about the server is
  the state its phase began with and then, at most once and last, the state on
  the way out of it (`Boxes`); an acknowledgement on its way or counted is that
  of a client that waits (`Acks`); a message composed but not sent is still true
  (`Threads`), although no lock covers composing and sending. So when a worker
  has seen all acknowledgements every client waits and has read all its
  messages, and the next phase begins with empty boxes. `CalmInv` puts this
  together with `TypeOK` and `HolderInv`; no part is inductive alone.
  `CalmSteps` says which steps the setting leaves, `PromiseStep` is the step
  simulation: a step of a thread is a `ModeStep`, a `ViewStep` or neither.
* `DeltasReverted`: `Spec => []ParityReverted`. A client has reverts to wait for
  only while it is INTERMEDIATE (`Reverts`), no client is INTERMEDIATE when the
  coordinator is DEGRADED (`CalmInv`), and a counter that is zero and exact
  (`RevertsCounted`) leaves no event and no acknowledgement.
* `MetadataArrived`: `Spec => []MetadataSynced`. `Meta` says that the entry of
  the server counts the clients that were not told yet or whose metadata is on
  its way, from the switch until a worker has seen it reach zero; its decrement
  does not wrap, because a client synchronizes once per phase.

`ParityDeltaProofs`. `NoWrap == FirstTs + Cardinality(Ops) < TsMod` says that
the timestamps of all requests fit below `TsMod` without wrapping around.
`FirstTs` is any timestamp, 0 included:

* `DeltaTypeCorrect`: timestamps stay below `TsMod`, and what is applied,
  undone or backed up was forwarded, for any modulus, batch size and requests.
  No run repeats it.
* `AcksEndEarly`: `Workers = 1` implies `AckEndsBeforePending`, without `NoWrap`: a
  range that a worker acknowledges ends before every pending UPDATE, unless
  timestamp 0 is pending. Between the read of the oldest pending timestamp and
  the dispatch of the event, requests may be stamped and answered: `AckRead` says
  that what was read stays below whatever is pending. TLC refutes it without
  either condition. `AckEndsBeforePendingByOne` of the run `client` is its
  instance.
* `RevertsPending`: `NoWrap` implies `[]SettledKept`: what had its response when
  the data server failed is never undone, but for timestamp 0, with any number
  of threads and messages in any order. `SettledApart` says that no list made
  since then, whether at the client or under way, has the timestamp of a settled
  request; an empty list undoes timestamp 0 only (`RevertedListed`).
* `NoBackupLeaked`: `NoWrap` implies `[]BackupsReclaimed`, with any number of
  workers: for an answered request that still has a backup and was not
  overtaken, an acknowledgement that covers it is on its way or will still be
  sent. Inductive with `Reclaimed` (the same from the response on, `Covered`),
  `AppliedFirst` (what is answered was applied) and `NoneAckedEarly` (what has
  no response is not acknowledged unless overtaken).
* `BatchOfBackups`: one request at a time (`MaxOutstanding = 1`) and `BatchSize + 1
  < TsMod` imply `[](BackupsBounded /\ BackupsReclaimed)`, across any number of
  wrap-arounds, with any number of threads and messages in any order. `SerialInv`
  measures timestamps by their distance from `lastAck` (`Off`): backups that no
  acknowledgement under way drops have different distances below that of the
  current timestamp (`LeftAhead`), which is at most a batch but for the request
  in progress (`BatchKept`). `Timestamp::operator-` is one too small across the
  wrap-around (`ThresholdOff`), which the bound just allows for. With
  `TsMod = BatchSize + 1` TLC finds a backup that no acknowledgement drops.

`DegradedLocksProofs`, for any servers, stripes, requests and threads:

* `LocksTypeCorrect`, `ReleasesCounted`: from the invariant `LocksInv`, types,
  distinct IDs of releases (`RequestsDistinct`) and `ReleaseCountExact`. The count
  is a sum of cardinalities of sets of chunks at different places; the proof
  moves a chunk from one to the next.
* `RedirectionsKept`: `Spec => RedirectionStable`.
* `BackBeforeNormal`: with one thread, `Spec => MigratedBeforeNormal`.
  `ReturnInv` says that only a release holds chunks to release (`WorkersClean`),
  that nothing signals a step of the return before it has begun (`SyncFirst`),
  and that what is under way for a server belongs to one release (`OneRelease`).
  `release_early` is the counterexample with two threads.
* `NoStaleLocks`: with one thread, `Spec => [](switches <= 1 =>
  LockedOnlyDegraded)`. `handleDegradedLockRequest` reads the states of the
  servers one by one and inserts the lock later, and no lock covers the two.
  `FirstInv` says that one server is on its way, that what a request found
  degraded stays so until its lock is inserted, because the return needs the
  same thread (`CheckedHeld`), that the map of released locks is empty before
  the first release (`SwappedOnce`), and that only chunks whose release is still
  to come are locked (`LocksAwaited`). The second transition swaps the released
  locks back in, and TLC finds chunks of a normal server locked; it finds the
  same with two threads.

`ServerRequestsProofs`, for any parity servers, requests, workers and failures.
The hypothesis `Stripes` says that the parity servers are finitely many, that
those that fail are among them, and that the targets of a request are places of
its stripe:

* `AnswersCounted`: `Spec => []AnsweredAfterCount`.
* `AllAnswered`: `Spec => []NoneLeftWaiting`.

  Both follow from `RequestInv`. A response may take off the entry
  of another parity server of its request, so no invariant about single entries
  holds; what holds is a count (`Counted`): responses and entries together are
  at most the targets, and with the failed servers they are at least the
  targets. `ClientExact` says that a client is in the pending map until it has
  its one answer, `Due` and `Only` that the last entry takes the client along.
  The two exceptions in the properties (several parity servers of which one
  fails; several workers) are needed: section 4.

`RemappingProofs`. The hypothesis `Layout` says that homes and keys are what
their names say and `1 + M <= K`: at least as many data servers as a SET goes
to. With fewer, `BasicRemappingScheme::redirect` may choose a parity server of the
same list, which stores the object as its own and never sends it back; with
`K = 1` and `M = 1` TLC refutes the properties. The configurations in
`src/bin/config` with `k=4`, `m=2` meet it.

* `RecordsLead`: `Spec => []RecordLeads`. The first lock for a key fixes its
  record (`LockedOK`): until the synchronization every answered lock, every
  SET under way and every object kept agree with it, whatever the clients
  proposed, and what a client does not wait for has its place (`ReqOK`).
* `AllMigrated`: `Spec => []AnsweredMigrated`. `TransferOK` counts the objects
  that each server has yet to send or to hear of, so a server that reports has
  none left; an object of a SET answered before is stored, kept at a server
  whose report is to come, or on its way (`Arriving`).

`ChunkSealProofs`, for any keys, sizes of objects, buffers, stripes and writes:

* `ChunksSized`: `Spec => [](TypeOK /\ SizesExact)`. `StoreInv` adds that each
  place of the buffer has a stripe of its own and knows its size (`Consistent`),
  that chunks with room again after a DELETE have left the buffer (`Reopened`),
  and that the index gives each key a place that is its own (`IndexOwned`).
* `WritesConserved`: `AnsweredOnly` implies `Spec => []DeltasConserved`.
* `ObjectsRebuildable`: `AnsweredOnly` implies `Spec => []Rebuildable`.

  Both follow from `SealInv`: `StoreInv`; messages and waiting seals speak of
  the places of their own objects (`PlacesOwned`); writes are numbered
  (`OpsBounded`); a seal follows the chunk out of the buffer (`SealsClosed`);
  and for each key that is set once, `KeyInv`: its SET has one message to each
  side (`Once`), all that speaks of its place speaks of the same place
  (`Single`), a write is in one message or applied (`Fresh`), parity chunk, keys
  and messages together are the object (`Conserved`), and its copy is in `keys`
  until the chunk is sealed, then announced or moved into the parity chunk
  (`Where`). The lemma `KeySteps` reduces every step to eight forms as one key
  sees them: it is left alone, or it is set, packed, updated, or reached by a
  SET, a delta or a seal at the parity server. The properties speak of keys that
  were never deleted and not set while they existed (`Kept`), since a second SET
  reuses the key while messages of the first are under way. `AnsweredOnly`, that
  a client updates or deletes a key after its SET was answered, is used once:
  without it a delta overtakes the SET and TLC refutes `DeltasConserved`
  (section 4). The run `storage` has it TRUE.

`CuckooHashProofs`:

* `IndexExact`: `LargeParts = {}` implies `TableSpec => []FoundExact`, for any
  hash, table size and length of paths. `TableInv` says where objects lie
  (`AtHome`, `OneSlot`, `Kept`), that each step of the path leads from a bucket to
  the other bucket of the object it saw there (`Linked`), and that while objects
  move the path ends at an empty slot (`PathSound`). The path may visit a slot
  twice; the check that the object is still there is what `BackmoveSound` needs,
  and the mutant that drops it breaks the property. All parts of large objects
  are left out, first ones too: `cpSearch` hashes their key from three bytes
  before it on (`cuckoo_hash.cc:246-248`), while `insert` and `find` hash the key
  alone for a first part and the key with its offset for the others (366-376), so
  that they may move to a bucket where `find` does not look. For other
  objects both compute the same tag, which is the assumption `Kick = Jump`.

Only model-checked, or checked by a run in another form:

* liveness under fairness (`ClientsAcknowledge`), which the prover does not do;
* what functions compute (`LayoutExact`, `CodingExact`, `PlacementExact`, and the
  tables of `Conversations` in `PeersAnswered`): it needs induction over the data
  they work on, or is about recursive definitions, both out of the provers'
  reach;
* `MigratedBeforeNormalByOne`, `LockedOnlyDegradedByOne` and `RedirectionsStable`
  of the run `locks` are instances of `BackBeforeNormal`, `NoStaleLocks` and
  `RedirectionsKept`, and `BackupsLimited` of `BatchOfBackups`: the run states them
  for the instance it has chosen, the theorems for the module; so it is with
  `AnsweredAfterCount`, `NoneLeftWaiting`, `RecordLeads` and `AnsweredMigrated` of
  the run `servers` and the theorems of `ServerRequestsProofs` and
  `RemappingProofs`;
* the properties of `ClientRequests`, `MetadataSync`, `DegradedOps`,
  `DegradedKeys`, `Recovery`, `Queues`, `Receiving`, `Connections`, `Overload` and
  `Pending`: no proof has been written.

## 6. Not modelled

`PROJECT.json` gives the reason for each component. Left out on purpose:

* tests, benchmarks, scripts and drivers of vendored libraries; of the libraries,
  what the codes do not call, and the vector instructions and table layouts that
  compute the products `MatrixCodes` defines;
* printing, logging, debug commands and the reading of command lines;
* code that is never called: `consistent_hash.hh`, `redirection_list`, the data
  server's own backups (`insertDataUpdate`, `insertDataDelete`), UPDATE_CHECK and
  DELETE_CHECK, the set of failed servers at the coordinator;
* the storage of chunks in files, which nothing reads back, and named pipes;
* degraded reads of a server from itself, with the FORWARD_KEY that they send
  (section 4); `Protocol` and `Conversations` have the message itself;
* undefined behaviour after which the process may do anything (freed operands of
  a refused UPDATE, uninitialized metadata): the models stop there (`corrupt`,
  `misused`) or avoid the input, as section 4 says;
* removal of a server from the Spread group, keys that do not exist in
  `DegradedLocks`, the client's new socket after a recovery.

## 7. Plan

What is left is proof. In order of importance:

1. `ClientRequests`: that a request is answered once and by all servers it went
   to (`AnsweredOnce`, `SetByAll`), by the parts still counted.
2. `DegradedOps`: `AnsweredOnce` and `NoneStranded`, by the requests that wait for
   a reconstruction.
3. `MetadataSync`: `MetadataDurable`.
4. `Queues`: `NoneOverlooked` and `PacketsExact`.

`Protocol`, `MatrixCodes`, `Placement` and `Conversations` are tables and
functions over bounded inputs and stay with TLC.

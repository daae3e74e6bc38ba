------------------------------ MODULE Pending ------------------------------
(* What a process remembers of the requests it waits for.  At a server:    *)
(* the maps of src/server/ds/pending.cc, whose entries are found by        *)
(* instance and request ID alone, and the registrations of peers held back *)
(* while it is a backup server that recovers.  At a client: the times at   *)
(* which requests were sent, which servers' latencies are measured from,   *)
(* and the reverts that servers have to acknowledge.  One of these is      *)
(* chosen at the start.                                                    *)
EXTENDS Integers, Sequences, FiniteSets

CONSTANTS
    Asks,           \* requests a server makes of its peers
    Type,           \* their types
    Parent,         \* the instance and request ID of what they are made for
    Peers,          \* the servers asked, or registering
    Workers,        \* the threads that handle registrations
    Requests,       \* a client's requests
    Op,             \* "get" or "set"
    Receivers,      \* the servers a request goes to
    Retried,        \* those that are asked first, not the server of the key
    Home,           \* the server of the key
    Giga, MaxTime,  \* nanoseconds of a second, and of a run
    Targets         \* servers whose deltas are reverted

VARIABLES
    side,       \* what is run: "server", "registrations", "client" or "acks"
    table,      \* entries per map
    job,        \* how far an ask is: "idle", or the peers it has entries for, then "sent"
    awaited,    \* peers that have been asked and have not answered
    served,     \* how often the request of a parent has been answered
    recovering, held, registering,
    stats,      \* entries per map of start times
    waiting,    \* requests on their way, with the time they were sent
    clock, measured,
    counter,    \* per target, acknowledgements to come: null before the revert
    queued,     \* reverts in the event queue
    acks,       \* entries of the acknowledgements waited for
    reverting,  \* reverts a server has got
    coordinated,\* servers the client uses the coordinated flow for
    cleaning,   \* those of them whose entries setState has not removed yet
    lost,       \* servers whose connection has ended
    unnoticed   \* those of them that no worker has read the end of

serverVars == <<table, job, awaited, served>>
registrationVars == <<recovering, held, registering>>
clientVars == <<stats, waiting, clock, measured>>
ackVars == <<counter, queued, acks, reverting, coordinated, cleaning, lost, unnoticed>>
flowVars == <<coordinated, cleaning>>
vars == <<side, serverVars, registrationVars, clientVars, ackVars>>

(* PendingIdentifier: the parent and the pointer are kept, not compared.   *)
Entry(id, parent, ptr) == [id |-> id, parent |-> parent, ptr |-> ptr, got |-> FALSE]
Equal(map, id) == {e \in map : e.id = id}
Own(a) == <<"own", a>>

(* Pending::get, by the type of value kept and the type of request.        *)
get(value, type) ==
    LET maps ==
            [none |-> [FORWARD_KEYS |-> "forwardKeys"],
             key |-> [CLIENT_GET |-> "clients.get", CLIENT_DEL |-> "clients.del",
                      GET |-> "get", DEL |-> "del"],
             keyValue |-> [SET |-> "set"],
             update |-> [CLIENT_UPDATE |-> "clients.update", UPDATE |-> "update"],
             degradedOp |-> [DEGRADED_OPS |-> "degradedOps"],
             chunkRequest |-> [GET_CHUNK |-> "getChunk", SET_CHUNK |-> "setChunk",
                               FORWARD_PARITY_CHUNK |-> "forwardParityChunk"],
             chunkUpdate |-> [UPDATE_CHUNK |-> "updateChunk", DEL_CHUNK |-> "deleteChunk"]]
    IN  maps[value][type]

Value == [UPDATE |-> "update", UPDATE_CHUNK |-> "chunkUpdate", DEL_CHUNK |-> "chunkUpdate",
          GET_CHUNK |-> "chunkRequest"]
MapOf(a) == get(Value[Type[a]], Type[a])

(* The entry of the request that is answered in the end: a client's, found *)
(* by the parent, or the degraded operation's, found by the server's ID.   *)
ParentMap(a) ==
    CASE Type[a] \in {"UPDATE", "UPDATE_CHUNK"} -> get("update", "CLIENT_UPDATE")
      [] Type[a] = "DEL_CHUNK" -> get("key", "CLIENT_DEL")
      [] OTHER -> get("degradedOp", "DEGRADED_OPS")
ParentId(a, parent) == IF ParentMap(a) = "degradedOps" THEN Own(a) ELSE parent

Maps == {"forwardKeys", "clients.get", "clients.del", "get", "del", "set", "clients.update",
         "update", "degradedOps", "getChunk", "setChunk", "forwardParityChunk", "updateChunk",
         "deleteChunk"}

PendingInit ==
    /\ side \in {"server", "registrations", "client", "acks"}
    /\ table = [m \in Maps |-> {}]
    /\ job = [a \in Asks |-> [pc |-> "idle", entered |-> {}]]
    /\ awaited = [a \in Asks |-> {}]
    /\ served = [a \in Asks |-> 0]
    /\ recovering = TRUE
    /\ held = <<>>
    /\ registering = [p \in Peers |-> "new"]
    /\ stats = [o \in {"get", "set"} |-> {}]
    /\ waiting = {}
    /\ clock = 0
    /\ measured = {}
    /\ counter = [t \in Targets |-> -1]
    /\ queued = {}
    /\ acks = {}
    /\ reverting = {}
    /\ coordinated = {}
    /\ cleaning = {}
    /\ lost = {}
    /\ unnoticed = {}

-----------------------------------------------------------------------------
(* A server asks its peers.                                                *)

(* insertKey, insertKeyValueUpdate, insertDegradedOp: a request is kept.   *)
Begin(a) ==
    /\ job[a].pc = "idle"
    /\ job' = [job EXCEPT ![a].pc = "entering"]
    /\ table' = [table EXCEPT ![ParentMap(a)] =
                    @ \cup {Entry(ParentId(a, Parent[a]), Parent[a], "client")}]
    /\ UNCHANGED <<awaited, served>>

(* insertChunkUpdate and the others: a multimap takes every entry.         *)
InsertPeer(a, p) ==
    /\ job[a].pc = "entering" /\ p \notin job[a].entered
    /\ job' = [job EXCEPT ![a].entered = @ \cup {p}]
    /\ table' = [table EXCEPT ![MapOf(a)] = @ \cup {Entry(Own(a), Parent[a], p)}]
    /\ UNCHANGED <<awaited, served>>

Send(a) ==
    /\ job[a].pc = "entering" /\ job[a].entered = Peers
    /\ job' = [job EXCEPT ![a].pc = "sent"]
    /\ awaited' = [awaited EXCEPT ![a] = Peers]
    /\ UNCHANGED <<table, served>>

(* Pending::count.                                                         *)
count(map, id) == Cardinality(Equal(map, id))

(* The parent's entry is erased, and what it is kept for is answered: by   *)
(* what is found, whichever ask put it there.                              *)
Serve(a, parent, rest) ==
    \E e \in Equal(rest[ParentMap(a)], ParentId(a, parent)) :
        /\ table' = [rest EXCEPT ![ParentMap(a)] = @ \ {e}]
        /\ served' = [b \in Asks |-> served[b] + (IF Parent[b] = e.parent THEN 1 ELSE 0)]

(* eraseKeyValueUpdate, eraseChunkUpdate with count under the same lock:   *)
(* any entry of the ID is erased, and the last of them is answered.        *)
Response(a, p) ==
    /\ p \in awaited[a] /\ Type[a] \in {"UPDATE", "UPDATE_CHUNK", "DEL_CHUNK"}
    /\ awaited' = [awaited EXCEPT ![a] = @ \ {p}]
    /\ \E e \in Equal(table[MapOf(a)], Own(a)) :
        LET rest == [table EXCEPT ![MapOf(a)] = @ \ {e}]
        IN  IF count(rest[MapOf(a)], Own(a)) = 0
            THEN Serve(a, e.parent, rest)
            ELSE table' = rest /\ UNCHANGED served
    /\ UNCHANGED job

(* findChunkRequest: the entries of the ID are gone through, the chunk is  *)
(* kept in the one for it, and all are erased when none is without.        *)
ChunkResponse(a, p) ==
    /\ p \in awaited[a] /\ Type[a] = "GET_CHUNK"
    /\ awaited' = [awaited EXCEPT ![a] = @ \ {p}]
    /\ LET map == MapOf(a)
           same == Equal(table[map], Own(a))
           others == {e \in same : e.ptr # p}
           marked == others \cup {[e EXCEPT !.got = TRUE] : e \in same \ others}
       IN  /\ same # {}
           /\ IF \A e \in others : e.got
              THEN Serve(a, Parent[a], [table EXCEPT ![map] = @ \ same])
              ELSE /\ table' = [table EXCEPT ![map] = (@ \ same) \cup marked]
                   /\ UNCHANGED served
    /\ UNCHANGED job

ServerStep ==
    /\ side = "server"
    /\ \E a \in Asks :
        \/ Begin(a) \/ Send(a)
        \/ \E p \in Peers : InsertPeer(a, p) \/ Response(a, p) \/ ChunkResponse(a, p)
    /\ UNCHANGED <<side, registrationVars, clientVars, ackVars>>

-----------------------------------------------------------------------------
(* Registrations while a server recovers.                                  *)

(* The worker reads whether the server recovers, and lets go of the lock.  *)
ReadRecovering(p) ==
    /\ registering[p] = "new"
    /\ Cardinality({q \in Peers : registering[q] \in {"hold", "answer"}}) < Cardinality(Workers)
    /\ registering' = [registering EXCEPT ![p] = IF recovering THEN "hold" ELSE "answer"]
    /\ UNCHANGED <<recovering, held>>

(* insertServerPeerRegistration, or the answer.                            *)
Register(p) ==
    /\ \/ /\ registering[p] = "hold"
          /\ held' = Append(held, p)
          /\ registering' = [registering EXCEPT ![p] = "held"]
       \/ /\ registering[p] = "answer"
          /\ registering' = [registering EXCEPT ![p] = "answered"]
          /\ UNCHANGED held
    /\ UNCHANGED recovering

(* The reconstruction is reported: eraseServerPeerRegistration, last first, *)
(* until there are none.                                                   *)
Recovered ==
    /\ recovering
    /\ Cardinality({q \in Peers : registering[q] \in {"hold", "answer"}}) < Cardinality(Workers)
    /\ recovering' = FALSE
    /\ held' = <<>>
    /\ registering' = [p \in Peers |->
                        IF \E i \in DOMAIN held : held[i] = p THEN "new" ELSE registering[p]]

RegistrationStep ==
    /\ side = "registrations"
    /\ Recovered \/ \E p \in Peers : ReadRecovering(p) \/ Register(p)
    /\ UNCHANGED <<side, serverVars, clientVars, ackVars>>

-----------------------------------------------------------------------------
(* Latencies at a client.                                                  *)

Timespec(t) == [sec |-> t \div Giga, nsec |-> t % Giga]

Tick == clock < MaxTime /\ clock' = clock + 1 /\ UNCHANGED <<stats, waiting, measured>>

recordRequestStartTime(r, s) ==
    stats' = [stats EXCEPT ![Op[r]] = @ \cup {[id |-> r, ptr |-> s, start |-> Timespec(clock)]}]

(* A request is sent to one of its servers, and its time recorded before.  *)
Request(r, s) ==
    /\ s \in Receivers[r]
    /\ \A w \in waiting \cup measured :
        w.request = r => Op[r] = "set" /\ w.server # s
    /\ recordRequestStartTime(r, s)
    /\ waiting' = waiting \cup {[request |-> r, server |-> s, time |-> clock]}
    /\ UNCHANGED <<clock, measured>>

(* The difference of two times, with a second borrowed.                    *)
Elapsed(from, to) ==
    IF to.nsec < from.nsec
    THEN [sec |-> to.sec - from.sec - 1, nsec |-> Giga - from.nsec + to.nsec]
    ELSE [sec |-> to.sec - from.sec, nsec |-> to.nsec - from.nsec]

(* DO_SEARCH_FOR_ID: the entry of the ID and of the socket that answers.   *)
Started(o, r, s) == {x \in stats[o] : x.id = r /\ x.ptr = s}

(* eraseRequestStartTime, and the latency kept for the server's address.   *)
Measure(w) ==
    /\ w \in waiting /\ ~ (Op[w.request] = "get" /\ w.server = Retried[w.request])
    /\ waiting' = waiting \ {w}
    /\ \E x \in Started(Op[w.request], w.request, w.server) :
        /\ stats' = [stats EXCEPT ![Op[w.request]] = @ \ {x}]
        /\ measured' = measured \cup
            {[request |-> w.request, server |-> x.ptr, took |-> clock - w.time,
              elapsed |-> Elapsed(x.start, Timespec(clock))]}
    /\ UNCHANGED clock

(* A GET that fails elsewhere is sent to the server of the key; the time   *)
(* of the first request stays.                                             *)
Retry(w) ==
    /\ w \in waiting /\ Op[w.request] = "get" /\ w.server = Retried[w.request]
    /\ recordRequestStartTime(w.request, Home[w.request])
    /\ waiting' = (waiting \ {w})
                    \cup {[request |-> w.request, server |-> Home[w.request], time |-> clock]}
    /\ UNCHANGED <<clock, measured>>

ClientStep ==
    /\ side = "client"
    /\ \/ Tick
       \/ \E r \in Requests : \E s \in Receivers[r] : Request(r, s)
       \/ \E w \in waiting : Measure(w) \/ Retry(w)
    /\ UNCHANGED <<side, serverVars, registrationVars, ackVars>>

-----------------------------------------------------------------------------
(* Acknowledgements of reverts at a client.                                *)

(* revertDelta by setState: all servers of the normal flow but the target  *)
(* are counted before any of them can answer.                              *)
DispatchToOtherServers(t) ==
    /\ counter[t] = -1
    /\ LET others == Peers \ ({t} \cup coordinated)
       IN  /\ counter' = [counter EXCEPT ![t] = Cardinality(others)]
           /\ queued' = queued \cup {[server |-> p, target |-> t] : p \in others}
    /\ coordinated' = coordinated \cup {t}
    /\ cleaning' = cleaning \cup {t}
    /\ UNCHANGED <<acks, reverting, lost, unnoticed>>

(* Pending::eraseAck, of one request and of all of a server.               *)
AckOf(e) == acks \cap {e}
AcksOf(p) == {e \in acks : e.server = p}

Counted(erased) ==
    [t \in Targets |-> counter[t] - Cardinality({e \in erased : e.target = t})]

removePending(p, added) ==
    /\ acks' = acks \ AcksOf(p)
    /\ counter' = Counted(AcksOf(p) \cup added)

(* A worker takes the event: insertAck, then the message.  One to a server *)
(* that is gone is refused, and all that waits for the server is removed,  *)
(* or it is taken, and the end of the connection is there to be read.      *)
SendRevert(e) ==
    /\ e \in queued
    /\ queued' = queued \ {e}
    /\ \/ /\ e.server \in lost
          /\ removePending(e.server, {e})
          /\ UNCHANGED <<reverting, unnoticed>>
       \/ /\ acks' = acks \cup {e}
          /\ reverting' = IF e.server \in lost THEN reverting ELSE reverting \cup {e}
          /\ unnoticed' = unnoticed \cup (lost \cap {e.server})
          /\ UNCHANGED counter
    /\ UNCHANGED <<flowVars, lost>>

(* handleDeltaAcknowledgement: an entry that is gone has been counted.     *)
HandleDeltaAcknowledgement(e) ==
    /\ e \in reverting
    /\ reverting' = reverting \ {e}
    /\ acks' = acks \ AckOf(e)
    /\ counter' = Counted(AckOf(e))
    /\ UNCHANGED <<queued, flowVars, lost, unnoticed>>

(* setState after it has let go of the locks: what waits for the server    *)
(* that is INTERMEDIATE now is removed; entries may be inserted later.     *)
SetIntermediate(p) ==
    /\ p \in cleaning
    /\ cleaning' = cleaning \ {p}
    /\ removePending(p, {})
    /\ UNCHANGED <<queued, reverting, coordinated, lost, unnoticed>>

(* The connection of a server ends, and with it what it has not answered:  *)
(* a worker reads the end, or the event loop finds it and does nothing.    *)
Disconnected(p) ==
    /\ p \notin lost \/ p \in unnoticed
    /\ lost' = lost \cup {p}
    /\ unnoticed' = unnoticed \ {p}
    /\ reverting' = {e \in reverting : e.server # p}
    /\ removePending(p, {})
    /\ UNCHANGED <<queued, flowVars>>

HungUp(p) ==
    /\ p \notin lost
    /\ lost' = lost \cup {p}
    /\ unnoticed' = unnoticed \cup {p}
    /\ reverting' = {e \in reverting : e.server # p}
    /\ UNCHANGED <<counter, queued, acks, flowVars>>

AckStep ==
    /\ side = "acks"
    /\ \/ \E t \in Targets : DispatchToOtherServers(t)
       \/ \E e \in queued : SendRevert(e)
       \/ \E e \in reverting : HandleDeltaAcknowledgement(e)
       \/ \E p \in cleaning : SetIntermediate(p)
       \/ \E p \in Peers : Disconnected(p) \/ HungUp(p)
    /\ UNCHANGED <<side, serverVars, registrationVars, clientVars>>

PendingNext == ServerStep \/ RegistrationStep \/ ClientStep \/ AckStep

Spec == PendingInit /\ [][PendingNext]_vars

-----------------------------------------------------------------------------
(* Entries are found by ID alone, so an answer takes whichever entry of    *)
(* its ID comes first; the number left is still that of the peers awaited, *)
(* each with the parent, and no other request's.  So a client's request is *)
(* answered once, after its last peer, and not before.                     *)
TablesExact ==
    \A a \in Asks :
        /\ job[a].pc = "sent" /\ Type[a] # "GET_CHUNK" =>
            /\ count(table[MapOf(a)], Own(a)) = Cardinality(awaited[a])
            /\ \A e \in Equal(table[MapOf(a)], Own(a)) : e.parent = Parent[a]
        /\ served[a] = IF job[a].pc = "sent" /\ awaited[a] = {} THEN 1 ELSE 0

(* A registration that was held back is answered once the server no longer *)
(* recovers.                                                               *)
HeldAnswered == ~ recovering => held = <<>>

(* The latency kept for a server is the time that a request to this server *)
(* took, to the nanosecond and in a normal form, although its requests to  *)
(* other servers are kept under the same ID; start times are dropped when  *)
(* their requests are answered, except for GETs that were sent again.      *)
TimesExact ==
    /\ \A m \in measured :
        /\ m.elapsed.nsec \in 0 .. Giga - 1
        /\ m.elapsed.sec * Giga + m.elapsed.nsec = m.took
    /\ \A o \in DOMAIN stats : \A x \in stats[o] :
        \/ \E w \in waiting : w.request = x.id /\ w.server = x.ptr
        \/ x.ptr = Retried[x.id]

(* A target's count is of its reverts that are not yet sent or not yet     *)
(* acknowledged, whether the answer, a message that cannot be sent, the    *)
(* end of the connection or the state of the server takes them off, in any *)
(* order: it is never counted down twice.  A client that has sent all of   *)
(* them is kept waiting only by a server whose end no worker has read.     *)
AcksExact ==
    \A t \in Targets :
        LET of(entries) == {e \in entries : e.target = t}
        IN  counter[t] # -1 =>
                /\ counter[t] = Cardinality(of(queued)) + Cardinality(of(acks))
                /\ queued = {} /\ reverting = {} =>
                    \A e \in of(acks) : e.server \in unnoticed
=============================================================================

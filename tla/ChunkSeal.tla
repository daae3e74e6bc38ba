------------------------------ MODULE ChunkSeal ------------------------------
(***************************************************************************)
(* Objects on their way into a stripe.  A data server packs the objects it *)
(* is sent into the chunks of a DataChunkBuffer and seals a chunk that is  *)
(* full; a parity server keeps copies of the objects (keys) until it is    *)
(* told which chunk and position they got (SEAL_CHUNK), and only then adds *)
(* them to the parity chunk.  SETs, deltas and seals reach the parity      *)
(* server in any order: packets pass through an event queue with several   *)
(* workers at either end, so messages form a set.                          *)
(*                                                                         *)
(* One data server and one parity server of one stripe list are modelled:  *)
(* parity chunks are linear in the data chunks, so the part that one data  *)
(* server contributes can be followed alone.  A value is the set of the    *)
(* operations that wrote it, and exclusive-or is symmetric difference.  A  *)
(* position stands for the offset of an object in its chunk.               *)
(***************************************************************************)
EXTENDS Integers, Sequences, FiniteSets, SequencesExt, FiniteSetsExt

CONSTANTS
    Keys,
    Size,           \* Size[k]: bytes of the object of key k
    Capacity,       \* bytes of a chunk
    Slack,          \* a chunk with no more than Slack bytes left is full
    Count,          \* chunks of the DataChunkBuffer
    MaxStripes,     \* bound: stripes that are ever started
    MaxOps,         \* bound: SETs, UPDATEs and DELETEs
    AnsweredOnly,   \* UPDATE and DELETE only after the SET was answered by all
    None            \* the key of a deleted object

ASSUME ConstantsAssumption ==
    /\ Capacity \in Nat \ {0}
    /\ Size \in [Keys -> 1..Capacity]
    /\ Slack \in 0..Capacity
    /\ Count \in Nat \ {0}
    /\ MaxStripes \in Nat /\ Count <= MaxStripes
    /\ MaxOps \in Nat
    /\ AnsweredOnly \in BOOLEAN
    /\ None \notin Keys

VARIABLES
    buffer,      \* DataChunkBuffer: chunks, sizes, stripeId, reInserted
    data,        \* data[s]: the objects of the data chunk of stripe s
    index,       \* Map::keys: where the object of a key was put
    sealed,      \* Map::sealed
    keys,        \* ParityChunkBuffer::keys, {} where there is no entry
    pending,     \* ParityChunkBuffer::pending
    parity,      \* parity[s][p]: position p of the parity chunk of stripe s
    indicator,   \* stripes whose data chunk the parity server knows as sealed
    aborted,     \* an assertion failed in the parity server
    msgs,        \* messages under way
    ops,         \* number of operations started
    reused       \* keys that were ever deleted, or set while they existed

dataVars   == <<buffer, data, index, sealed>>
parityVars == <<keys, pending, parity, indicator, aborted>>
vars == <<dataVars, parityVars, msgs, ops, reused>>

Buffers   == 1..Count
Stripes   == 1..MaxStripes
Positions == 1..Capacity
Places    == [stripe : Stripes, pos : Positions]
Values    == SUBSET (1..MaxOps)
Nowhere   == [stripe |-> 0, pos |-> 0]

NoRequest == [type |-> "none"]
Requests  == {NoRequest, [type |-> "update"], [type |-> "delete"]}
                 \cup [type : {"seal"}, place : Places]

Messages ==
    [type : {"set"}, to : {"data", "parity"}, key : Keys, op : 1..MaxOps]
        \cup [type : {"update", "chunk"}, key : Keys, place : Places, op : 1..MaxOps]
        \cup [type : {"delete", "delete chunk"}, key : Keys, op : 1..MaxOps]
        \cup [type : {"seal"}, stripe : Stripes, records : SUBSET (Keys \X Positions)]

(* Types, and no chunk is ever overfull by the sizes that the buffer keeps.*)
TypeOK ==
    /\ buffer \in [chunks : [Buffers -> Stripes], sizes : [Buffers -> 0..Capacity],
                   stripeId : 1..MaxStripes + 1, reInserted : SUBSET Stripes]
    /\ \A s \in Stripes : data[s] \in
            Seq([key : Keys \cup {None}, len : 1..Capacity, val : Values])
    /\ DOMAIN data = Stripes
    /\ index \in [Keys -> Places \cup {Nowhere}]
    /\ sealed \subseteq Stripes
    /\ keys \in [Keys -> Values]
    /\ pending \in [Keys -> Requests]
    /\ parity \in [Stripes -> [Positions -> Values]]
    /\ indicator \subseteq Stripes
    /\ aborted \in BOOLEAN
    /\ msgs \subseteq Messages
    /\ ops \in 0..MaxOps
    /\ reused \subseteq Keys

(* DataChunkBuffer::init takes the first stripes.                          *)
Init ==
    /\ buffer = [chunks |-> [i \in Buffers |-> i], sizes |-> [i \in Buffers |-> 0],
                 stripeId |-> Count + 1, reInserted |-> {}]
    /\ data = [s \in Stripes |-> <<>>]
    /\ index = [k \in Keys |-> Nowhere]
    /\ sealed = {}
    /\ keys = [k \in Keys |-> {}]
    /\ pending = [k \in Keys |-> NoRequest]
    /\ parity = [s \in Stripes |-> [p \in Positions |-> {}]]
    /\ indicator = {}
    /\ aborted = FALSE
    /\ msgs = {}
    /\ ops = 0
    /\ reused = {}

-----------------------------------------------------------------------------
(* The data server's chunks                                                *)

(* ChunkUtil::getSize counts deleted objects too.                          *)
SizeOf(chunk) == SumFunction([p \in DOMAIN chunk |-> chunk[p].len])

(* Map::findObject: the hash table compares the key it finds in the chunk, *)
(* so an entry whose object was wiped is not found.                        *)
Found(k) ==
    /\ index[k] # Nowhere
    /\ data[index[k].stripe][index[k].pos].key = k

(* The chunk with the least space left, the oldest stripe of several.      *)
Fullest(buf, S) ==
    CHOOSE i \in S : \A j \in S :
        \/ buf.sizes[i] > buf.sizes[j]
        \/ buf.sizes[i] = buf.sizes[j] /\ buf.chunks[i] <= buf.chunks[j]

Fitting(k) == {i \in Buffers : buffer.sizes[i] + Size[k] <= Capacity}

(* Mutant: the room of deleted objects counts as free.                     *)
SpaceFreed(s) == Capacity - SizeOf(SelectSeq(data[s], LAMBDA obj : obj.key # None))

Space(s) == Capacity - SizeOf(data[s])

(* Re-inserted chunks with room for k, those with the least space.  The    *)
(* code looks for them only if reInsertedChunkMaxSpace is large enough,    *)
(* which it is whenever there is one: it is raised with every chunk put in *)
(* and lowered to no less than the largest space left.                     *)
ReInserted(k) ==
    LET room == {s \in buffer.reInserted : Size[k] <= Space(s) /\ Space(s) < Capacity}
    IN  {s \in room : \A t \in room : Space(s) <= Space(t)}

(* flushAt: the buffer gets a new chunk at i.                              *)
Flushed(buf, i) ==
    [buf EXCEPT !.chunks[i] = buf.stripeId, !.sizes[i] = 0, !.stripeId = @ + 1]

(* reqSealChunk lists the objects up to the first deleted one.             *)
SealRecords(chunk) ==
    {<<chunk[p].key, p>> : p \in {q \in DOMAIN chunk :
        \A r \in 1..q : chunk[r].key # None}}

(* issueSealChunkRequest sends nothing for a chunk without such objects.   *)
SealRequests(S, chunks) ==
    {[type |-> "seal", stripe |-> s, records |-> SealRecords(chunks[s])] :
        s \in {t \in S : SealRecords(chunks[t]) # {}}}

Full(chunk) == SizeOf(chunk) + Slack >= Capacity

Object(k, op) == [key |-> k, len |-> Size[k], val |-> {op}]

(* Mutant: the place is read before the object is allocated.               *)
PutBefore(k, s, chunks) ==
    [index EXCEPT ![k] = [stripe |-> s, pos |-> Len(chunks[s]) - 1]]

(* Map::insertKey, with the offset that ChunkUtil::alloc returns.          *)
PutAt(k, s, chunks) == [index EXCEPT ![k] = [stripe |-> s, pos |-> Len(chunks[s])]]
-----------------------------------------------------------------------------
(* Requests at the data server                                             *)

About(k) == {m \in msgs : m.type # "seal" /\ m.key = k}

(* A client sends a SET to the data server and to the parity server.  A    *)
(* key is set by one client at a time.                                     *)
SetRequest(k) ==
    /\ ops < MaxOps
    /\ About(k) = {}
    /\ ops' = ops + 1
    /\ reused' = IF index[k] = Nowhere THEN reused ELSE reused \cup {k}
    /\ msgs' = msgs \cup [type : {"set"}, to : {"data", "parity"}, key : {k}, op : {ops + 1}]
    /\ UNCHANGED <<dataVars, parityVars>>

ToData(m) == m \in msgs /\ m.type = "set" /\ m.to = "data"

(* handleSetRequest refuses a key that exists.                             *)
SetExisting(m) ==
    /\ ToData(m)
    /\ Found(m.key)
    /\ msgs' = msgs \ {m}
    /\ UNCHANGED <<dataVars, parityVars, ops, reused>>

(* The bound on stripes leaves room for n more.                            *)
StripesLeft(n) == buffer.stripeId + n <= MaxStripes + 1

(* DataChunkBuffer::set, into a chunk of the buffer.  If the object fits   *)
(* in none the fullest one is flushed first, and a chunk that the object   *)
(* fills is flushed after.  The key enters the index after the buffer's    *)
(* lock is given back; in between an UPDATE or DELETE fails as it does     *)
(* before, and a second SET of the key would store a second object, which  *)
(* the model leaves out (the properties are of keys set once).             *)
SetData(m) ==
    LET k     == m.key
        flush == Fitting(k) = {}
        i     == Fullest(buffer, IF flush THEN Buffers ELSE Fitting(k))
        buf   == IF flush THEN Flushed(buffer, i) ELSE buffer
        s     == buf.chunks[i]
        added == [data EXCEPT ![s] = Append(@, Object(k, m.op))]
        sized == [buf EXCEPT !.sizes[i] = @ + Size[k]]
        full  == Full(added[s])
        out   == (IF flush THEN {buffer.chunks[i]} ELSE {}) \cup (IF full THEN {s} ELSE {})
    IN  /\ StripesLeft(2)
        /\ ToData(m) /\ ~Found(k)
        /\ ReInserted(k) = {}
        /\ buffer' = IF full THEN Flushed(sized, i) ELSE sized
        /\ data' = added
        /\ sealed' = sealed \cup out
        /\ index' = PutAt(k, s, added)
        /\ msgs' = (msgs \ {m}) \cup SealRequests(out, added)
        /\ UNCHANGED <<parityVars, ops, reused>>

(* DataChunkBuffer::set, into a sealed chunk of which an object was        *)
(* deleted.  The parity server is not told ("TODO: Fix lastDelPos.").      *)
SetReInserted(m, s) ==
    LET k     == m.key
        added == [data EXCEPT ![s] = Append(@, Object(k, m.op))]
    IN  /\ ToData(m) /\ ~Found(k)
        /\ s \in ReInserted(k)
        /\ buffer' = [buffer EXCEPT !.reInserted = IF Full(added[s]) THEN @ \ {s} ELSE @]
        /\ data' = added
        /\ index' = PutAt(k, s, added)
        /\ msgs' = msgs \ {m}
        /\ UNCHANGED <<sealed, parityVars, ops, reused>>

(* DataChunkBuffer::seal flushes every chunk, empty ones too.              *)
SealAll ==
    /\ StripesLeft(Count)
    /\ buffer' = [buffer EXCEPT
            !.chunks = [i \in Buffers |-> buffer.stripeId + i - 1],
            !.sizes = [i \in Buffers |-> 0],
            !.stripeId = @ + Count]
    /\ sealed' = sealed \cup Range(buffer.chunks)
    /\ msgs' = msgs \cup SealRequests(Range(buffer.chunks), data)
    /\ UNCHANGED <<data, index, parityVars, ops, reused>>

(* A client that waits for the answer to its SET is answered by the parity *)
(* server too.                                                             *)
Answered(k) == \A m \in About(k) : m.type # "set"

IsSealed(s) == s \notin Range(buffer.chunks)

(* handleUpdateRequest and sendModifyChunkRequest: the delta names the     *)
(* object while its chunk is in the buffer, and the place after that.      *)
UpdateData(k) ==
    LET place == index[k]
    IN  /\ ops < MaxOps
        /\ Found(k)
        /\ AnsweredOnly => Answered(k)
        /\ ops' = ops + 1
        /\ data' = [data EXCEPT ![place.stripe][place.pos].val = SymDiff(@, {ops + 1})]
        /\ msgs' = msgs \cup
                {[type |-> IF IsSealed(place.stripe) THEN "chunk" ELSE "update",
                  key |-> k, place |-> place, op |-> ops + 1]}
        /\ UNCHANGED <<buffer, index, sealed, parityVars, reused>>

(* handleDeleteRequest: the entry of the key is removed; the object that   *)
(* is wiped is the first of the chunk, as the offset is that of a second   *)
(* variable of the name keyMetadata, which is 0.  A sealed chunk is put    *)
(* with the chunks that objects may be added to.                           *)
DeleteData(k) ==
    LET s == index[k].stripe
    IN  /\ ops < MaxOps
        /\ Found(k)
        /\ AnsweredOnly => Answered(k)
        /\ ops' = ops + 1
        /\ reused' = reused \cup {k}
        /\ index' = [index EXCEPT ![k] = Nowhere]
        /\ data' = [data EXCEPT ![s][1].key = None, ![s][1].val = {}]
        /\ buffer' = [buffer EXCEPT !.reInserted = IF IsSealed(s) THEN @ \cup {s} ELSE @]
        /\ msgs' = msgs \cup
                {[type |-> IF IsSealed(s) THEN "delete chunk" ELSE "delete",
                  key |-> k, op |-> ops + 1]}
        /\ UNCHANGED <<sealed, parityVars>>
-----------------------------------------------------------------------------
(* Requests at the parity server                                           *)

(* ParityChunkBuffer::update                                               *)
Applied(place, val) == [parity EXCEPT ![place.stripe][place.pos] = SymDiff(@, val)]

(* std::unordered_map::insert keeps an entry that is there.                *)
Defer(k, request) == [pending EXCEPT ![k] = IF @ = NoRequest THEN request ELSE @]

(* Mutant: a SET that was awaited is stored as if its chunk were not       *)
(* sealed, and forgotten.                                                  *)
AwaitedDropped(k, val) ==
    /\ pending' = [pending EXCEPT ![k] = NoRequest]
    /\ UNCHANGED <<keys, parity>>

(* ParityChunkBuffer::set, of a key that a request waits for.  Only a seal *)
(* is carried out; the others are "TODO", and the object is not kept.      *)
Awaited(k, val) ==
    /\ pending' = [pending EXCEPT ![k] = NoRequest]
    /\ parity' = IF pending[k].type = "seal" THEN Applied(pending[k].place, val) ELSE parity
    /\ UNCHANGED keys

(* handleSetRequest and ParityChunkBuffer::set; an object that is in keys  *)
(* is refused.                                                             *)
SetParity(m) ==
    /\ ~aborted
    /\ m \in msgs /\ m.type = "set" /\ m.to = "parity"
    /\ \/ keys[m.key] # {} /\ UNCHANGED <<keys, pending, parity>>
       \/ /\ keys[m.key] = {} /\ pending[m.key] = NoRequest
          /\ keys' = [keys EXCEPT ![m.key] = {m.op}]
          /\ UNCHANGED <<pending, parity>>
       \/ /\ keys[m.key] = {} /\ pending[m.key] # NoRequest
          /\ Awaited(m.key, {m.op})
    /\ msgs' = msgs \ {m}
    /\ UNCHANGED <<dataVars, indicator, aborted, ops, reused>>

(* Mutant: objects that have not arrived are not waited for.               *)
DeferredNone(records, s) == pending

(* ParityChunkBuffer::seal: objects not yet received are waited for.       *)
Deferred(records, s) ==
    [k \in Keys |->
        IF pending[k] = NoRequest /\ keys[k] = {} /\ \E p \in Positions : <<k, p>> \in records
        THEN [type |-> "seal", place |->
                [stripe |-> s, pos |-> CHOOSE p \in Positions : <<k, p>> \in records]]
        ELSE pending[k]]

SealChunk(m) ==
    LET kept == {k \in Keys : \E p \in Positions : <<k, p>> \in m.records}
    IN  /\ ~aborted
        /\ m \in msgs /\ m.type = "seal"
        /\ pending' = Deferred(m.records, m.stripe)
        /\ parity' = [parity EXCEPT ![m.stripe] = [p \in Positions |->
                SymDiff(@[p], UNION {keys[r[1]] : r \in {q \in m.records : q[2] = p}})]]
        /\ keys' = [k \in Keys |-> IF k \in kept THEN {} ELSE keys[k]]
        /\ indicator' = indicator \cup {m.stripe}
        /\ msgs' = msgs \ {m}
        /\ UNCHANGED <<dataVars, aborted, ops, reused>>

(* handleUpdateRequest: the delta of an object whose chunk was not sealed  *)
(* when it was sent.  If the object is no longer, or not yet, in keys the  *)
(* lock is released and the delta goes to the parity chunk.                *)
UpdateKeyValue(m) ==
    /\ ~aborted
    /\ m \in msgs /\ m.type = "update"
    /\ \/ /\ keys[m.key] # {}
          /\ keys' = [keys EXCEPT ![m.key] = SymDiff(@, {m.op})]
          /\ msgs' = msgs \ {m}
          /\ UNCHANGED pending
       \/ /\ keys[m.key] = {}
          /\ pending' = Defer(m.key, [type |-> "update"])
          /\ msgs' = (msgs \ {m}) \cup {[m EXCEPT !.type = "chunk"]}
          /\ UNCHANGED keys
    /\ UNCHANGED <<dataVars, parity, indicator, aborted, ops, reused>>

(* handleUpdateChunkRequest                                                *)
UpdateChunk(m) ==
    /\ ~aborted
    /\ m \in msgs /\ m.type = "chunk"
    /\ parity' = Applied(m.place, {m.op})
    /\ msgs' = msgs \ {m}
    /\ UNCHANGED <<dataVars, keys, pending, indicator, aborted, ops, reused>>

(* handleDeleteRequest and ParityChunkBuffer::deleteKey                    *)
DeleteParity(m) ==
    /\ ~aborted
    /\ m \in msgs /\ m.type = "delete"
    /\ \/ /\ keys[m.key] # {}
          /\ keys' = [keys EXCEPT ![m.key] = {}]
          /\ UNCHANGED pending
       \/ /\ keys[m.key] = {}
          /\ pending' = Defer(m.key, [type |-> "delete"])
          /\ UNCHANGED keys
    /\ msgs' = msgs \ {m}
    /\ UNCHANGED <<dataVars, parity, indicator, aborted, ops, reused>>

(* handleDeleteChunkRequest: update with isDelete ends in assert( false ). *)
DeleteChunk(m) ==
    /\ ~aborted
    /\ m \in msgs /\ m.type = "delete chunk"
    /\ aborted' = TRUE
    /\ msgs' = msgs \ {m}
    /\ UNCHANGED <<dataVars, keys, pending, parity, indicator, ops, reused>>

ParityStep(m) ==
    \/ SetParity(m)
    \/ SealChunk(m)
    \/ UpdateKeyValue(m)
    \/ UpdateChunk(m)
    \/ DeleteParity(m)
    \/ DeleteChunk(m)

Next ==
    \/ \E k \in Keys : SetRequest(k) \/ UpdateData(k) \/ DeleteData(k)
    \/ \E m \in msgs : SetExisting(m) \/ SetData(m) \/ \E s \in Stripes : SetReInserted(m, s)
    \/ SealAll
    \/ \E m \in msgs : ParityStep(m)

Spec == Init /\ [][Next]_vars
-----------------------------------------------------------------------------
(* Properties                                                              *)

(* The sizes that decide where an object goes are those of the chunks, and *)
(* no chunk, re-inserted ones included, holds more than its capacity.      *)
SizesExact ==
    /\ \A i \in Buffers : buffer.sizes[i] = SizeOf(data[buffer.chunks[i]])
    /\ \A s \in Stripes : SizeOf(data[s]) <= Capacity

(* What a key's object holds, and what is still under way for it to the    *)
(* parity server.                                                          *)
ValueOf(k) == data[index[k].stripe][index[k].pos].val
InFlight(k) == {m.op : m \in {n \in About(k) :
                    \/ n.type \in {"update", "chunk"}
                    \/ n.type = "set" /\ n.to = "parity"}}
Kept == {k \in Keys \ reused : Found(k)}

(* No write is lost or applied twice at the parity server, however SETs,   *)
(* deltas and seals overtake each other: what it has in the parity chunk   *)
(* and among the unsealed objects, with what is under way, is the value.   *)
DeltasConserved ==
    \A k \in Kept :
        ValueOf(k) = SymDiff(SymDiff(parity[index[k].stripe][index[k].pos], keys[k]),
                             InFlight(k))

HoleFree(s) == \A p \in DOMAIN data[s] : data[s][p].key # None

(* Once all messages are handled, every object can be rebuilt: from the    *)
(* copy in keys while its chunk is in the buffer, from the parity chunk    *)
(* once it is sealed.                                                      *)
Rebuildable ==
    msgs = {} /\ ~aborted =>
        \A k \in Kept : LET s == index[k].stripe IN
            /\ ~IsSealed(s) => keys[k] = ValueOf(k)
            /\ IsSealed(s) /\ HoleFree(s) =>
                    s \in indicator /\ keys[k] = {} /\ parity[s][index[k].pos] = ValueOf(k)
=============================================================================

----------------------------- MODULE CuckooHash -----------------------------
(***************************************************************************)
(* The index of a server: a hash table in which every object may lie in    *)
(* either of two buckets.  When both are full, the insertion searches a    *)
(* path of objects, each to be moved to its other bucket, that ends at an  *)
(* empty slot, and then moves them from the end of the path backwards.     *)
(* The slots on the path are chosen at random and may be chosen twice, so  *)
(* that the path does not hold any more while objects are moved.           *)
(*                                                                         *)
(* Objects stand for the pointers in the table.  Where an object may lie   *)
(* is told by its hash: its first bucket and the tag that leads from one   *)
(* bucket to the other.  (common/hash/cuckoo_hash.cc, server/ds/map.cc)    *)
(***************************************************************************)
EXTENDS Integers, Sequences, SequencesExt, FiniteSets, FiniteSetsExt

CONSTANTS
    Objects,
    LargeParts,   \* parts of large objects, the first ones too
    Buckets,
    BucketSize,   \* slots of a bucket, 4 in the code
    MaxCuckoo,    \* length of a path and number of moves tried, 500 in the code
    First,        \* First[x]: indexHash of the hash of x
    Jump,         \* Jump[x][b]: altIndex of bucket b by the tag of x
    Kick,         \* Kick[x][b]: altIndex by the tag that cpSearch computes for x, for
                  \* every large part from the bytes before its key
    PlainHome,    \* PlainHome[x]: indexHash of the key of x without the split offset
    Empty         \* no object

\* The hash of a large part takes three more bytes: insert and find take those after
\* the key, its offset, except for a first part, and cpSearch takes those before it.
ASSUME CuckooAssumption ==
    /\ BucketSize \in Nat \ {0}
    /\ MaxCuckoo \in Nat
    /\ LargeParts \subseteq Objects
    /\ First \in [Objects -> Buckets] /\ PlainHome \in [Objects -> Buckets]
    /\ Jump \in [Objects -> [Buckets -> Buckets]]
    /\ Kick \in [Objects -> [Buckets -> Buckets]]
    /\ \A x \in Objects, b \in Buckets : Jump[x][Jump[x][b]] = b
    /\ \A x \in Objects \ LargeParts : Kick[x] = Jump[x] /\ PlainHome[x] = First[x]
    /\ Empty \notin Objects

VARIABLES
    buckets,     \* buckets[b][j]
    cp,          \* the cuckoo path: sequence of [bucket, slot, ptr]
    inserting,   \* the object of the insertion in progress, or Empty
    moving,      \* the path has been found and objects are moved
    kickCount,
    present,     \* objects inserted with success and not deleted since
    asserted     \* no assertion has failed so far

tableVars == <<buckets, cp, inserting, moving, kickCount, present, asserted>>

Slots == 1 .. BucketSize

TableInit ==
    /\ buckets = [b \in Buckets |-> [j \in Slots |-> Empty]]
    /\ cp = <<>>
    /\ inserting = Empty
    /\ moving = FALSE
    /\ kickCount = 0
    /\ present = {}
    /\ asserted = TRUE

FreeSlots(b) == {j \in Slots : buckets[b][j] = Empty}

\* find compares the keys of all objects in the first and the other bucket.
\* Key::equal tells parts of large objects from others.  It compares up to a zero byte
\* (strncmp): objects here are keys, and parts, that differ before one.
find(x) == \E b \in {First[x], Jump[x][First[x]]}, j \in Slots : buckets[b][j] = x

\* tryAdd takes the first free slot.
tryAdd(x, b) == buckets' = [buckets EXCEPT ![b][Min(FreeSlots(b))] = x]

-----------------------------------------------------------------------------
(***************************************************************************)
(* insert, with cuckoo, cpSearch and cpBackmove step by step               *)
(***************************************************************************)

\* The beginning of insert; home is the bucket that the hash of its caller names.
\* With a width of one the path begins at the second bucket.
insert(x, home) ==
    LET other == Jump[x][home]
    IN  IF FreeSlots(home) # {} \/ FreeSlots(other) # {}
        THEN /\ tryAdd(x, IF FreeSlots(home) # {} THEN home ELSE other)
             /\ present' = present \cup {x}
             /\ UNCHANGED <<cp, inserting, moving, kickCount, asserted>>
        ELSE /\ cp' = <<[bucket |-> other, slot |-> 0, ptr |-> Empty]>>
             /\ inserting' = x
             /\ kickCount' = 0
             /\ UNCHANGED <<buckets, moving, present, asserted>>

\* Map::insertKey, which DataChunkBuffer::set calls for a key that is not found
\* (ServerWorker::handleSetRequest).
insertKey(x) ==
    /\ inserting = Empty /\ x \notin present
    /\ insert(x, First[x])

\* Map::setChunk inserts the objects of a chunk that was rebuilt; it does not tell
\* insert that an object is large.
setChunk(x) ==
    /\ inserting = Empty /\ x \notin present
    /\ insert(x, PlainHome[x])

Tip == cp[Len(cp)]

\* Where the object that makes room moves to.
NextOnPath(x, b) == Kick[x][b]

\* One round of cpSearch: it ends at a bucket with room, or goes on by any object.
cpSearch ==
    /\ inserting # Empty /\ ~moving
    /\ kickCount < MaxCuckoo /\ Len(cp) < MaxCuckoo
    /\ IF FreeSlots(Tip.bucket) # {}
       THEN /\ cp' = [cp EXCEPT ![Len(cp)].slot = Min(FreeSlots(Tip.bucket))]
            /\ moving' = TRUE
            /\ UNCHANGED kickCount
       ELSE /\ \E j \in Slots :
                 LET x == buckets[Tip.bucket][j]
                 IN  cp' = Append([cp EXCEPT ![Len(cp)].slot = j, ![Len(cp)].ptr = x],
                                  [bucket |-> NextOnPath(x, Tip.bucket), slot |-> 0, ptr |-> Empty])
            /\ kickCount' = kickCount + 1
            /\ UNCHANGED moving
    /\ UNCHANGED <<buckets, inserting, present, asserted>>

\* cpSearch gives up: insert returns false and the object is not in the table.
cpSearchFails ==
    /\ inserting # Empty /\ ~moving
    /\ ~(kickCount < MaxCuckoo /\ Len(cp) < MaxCuckoo)
    /\ inserting' = Empty /\ cp' = <<>>
    /\ UNCHANGED <<buckets, moving, kickCount, present, asserted>>

\* A mutant: objects are moved although the path has changed.
StillThereAlways(from) == TRUE

\* The object is still where the search saw it.
StillThere(from) == buckets[from.bucket][from.slot] = from.ptr

\* One round of cpBackmove.  Where the path does not hold any more the search is
\* taken up again from the bucket before.
cpBackmove ==
    /\ moving /\ Len(cp) > 1
    /\ LET from == cp[Len(cp) - 1]
       IN  IF StillThere(from)
           THEN /\ asserted' = (asserted /\ buckets[Tip.bucket][Tip.slot] = Empty)
                /\ buckets' = [[buckets EXCEPT ![Tip.bucket][Tip.slot] = buckets[from.bucket][from.slot]]
                                 EXCEPT ![from.bucket][from.slot] = Empty]
                /\ UNCHANGED moving
           ELSE /\ moving' = FALSE
                /\ UNCHANGED <<buckets, asserted>>
    /\ cp' = Front(cp)
    /\ UNCHANGED <<inserting, kickCount, present>>

\* The first object of the path has moved away and the new one takes its place.
cuckoo ==
    /\ moving /\ Len(cp) = 1
    /\ IF FreeSlots(Tip.bucket) # {}
       THEN tryAdd(inserting, Tip.bucket) /\ present' = present \cup {inserting}
       ELSE UNCHANGED <<buckets, present>>
    /\ inserting' = Empty /\ cp' = <<>> /\ moving' = FALSE
    /\ UNCHANGED <<kickCount, asserted>>

-----------------------------------------------------------------------------
(***************************************************************************)
(* Deletion                                                                *)
(***************************************************************************)

\* tryDel clears the first slot of a bucket with the object.
tryDel(x, b) ==
    LET at == {j \in Slots : buckets[b][j] = x}
    IN  buckets' = [buckets EXCEPT ![b][Min(at)] = Empty]

InBucket(x, b) == \E j \in Slots : buckets[b][j] = x

\* del looks into the second bucket only if the first does not have the object.
del(x) ==
    IF InBucket(x, First[x]) THEN tryDel(x, First[x]) ELSE tryDel(x, Jump[x][First[x]])

\* Map::deleteKey of an object that is found.  It looks for an object that is not large,
\* so that it finds no part of a large one, first or not.
deleteKey(x) ==
    /\ inserting = Empty /\ x \notin LargeParts
    /\ find(x)
    /\ del(x)
    /\ present' = present \ {x}
    /\ UNCHANGED <<cp, inserting, moving, kickCount, asserted>>

TableNext ==
    \/ \E x \in Objects : insertKey(x) \/ setChunk(x) \/ deleteKey(x)
    \/ cpSearch \/ cpSearchFails \/ cpBackmove \/ cuckoo

TableSpec == TableInit /\ [][TableNext]_tableVars

-----------------------------------------------------------------------------
TableTypeOK ==
    /\ buckets \in [Buckets -> [Slots -> Objects \cup {Empty}]]
    /\ cp \in Seq([bucket : Buckets, slot : 0 .. BucketSize, ptr : Objects \cup {Empty}])
    /\ inserting \in Objects \cup {Empty}
    /\ moving \in BOOLEAN
    /\ kickCount \in 0 .. MaxCuckoo
    /\ present \subseteq Objects
    /\ asserted \in BOOLEAN

\* Objects are found exactly when they were inserted and not deleted since, also in
\* the middle of an insertion that moves others; each lies in one slot, and no move
\* overwrites an object (the assertion in cpBackmove).
FoundExact ==
    /\ \A x \in Objects : find(x) <=> x \in present
    /\ \A x \in Objects : Cardinality({p \in Buckets \X Slots : buckets[p[1]][p[2]] = x}) <= 1
    /\ asserted
=============================================================================

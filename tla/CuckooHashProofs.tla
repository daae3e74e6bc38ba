-------------------------- MODULE CuckooHashProofs --------------------------
(***************************************************************************)
(* Proofs about CuckooHash: objects that move along a path that may cross  *)
(* itself are neither lost nor doubled.  The theorems are about tables     *)
(* without parts of large objects, first ones included: cpSearch computes  *)
(* other buckets for all of these than find does.                          *)
(***************************************************************************)
EXTENDS CuckooHash, FiniteSetTheorems, SequenceTheorems, WellFoundedInduction, TLAPS

(* Where find looks for an object.                                         *)
Homes(x) == {First[x], Jump[x][First[x]]}

(* No object lies in two slots.                                            *)
OneSlot ==
    \A b, c \in Buckets, i, j \in Slots :
        buckets[b][i] = buckets[c][j] /\ buckets[b][i] # Empty => b = c /\ i = j

(* What lies in the table was inserted, and lies where find looks.         *)
AtHome ==
    \A b \in Buckets, j \in Slots :
        buckets[b][j] # Empty => buckets[b][j] \in present /\ b \in Homes(buckets[b][j])

(* What was inserted lies somewhere.                                       *)
Kept == \A x \in present : \E b \in Buckets, j \in Slots : buckets[b][j] = x

(* Every step of the path leads by an object from a bucket to the other    *)
(* one that the tag of the object names.                                   *)
Linked ==
    \A n \in 1 .. Len(cp) - 1 :
        /\ cp[n].slot \in Slots
        /\ cp[n].ptr \in Objects
        /\ cp[n + 1].bucket = Kick[cp[n].ptr][cp[n].bucket]

(* An insertion has a path that begins at a bucket of its object.  While   *)
(* objects are moved the path ends at an empty slot.                       *)
PathSound ==
    /\ inserting = Empty <=> cp = <<>>
    /\ inserting # Empty => inserting \notin present /\ cp[1].bucket \in Homes(inserting)
    /\ moving => /\ inserting # Empty
                 /\ Tip.slot \in Slots
                 /\ buckets[Tip.bucket][Tip.slot] = Empty

TableInv == TableTypeOK /\ OneSlot /\ AtHome /\ Kept /\ Linked /\ PathSound /\ asserted

(* The first free slot of a bucket with room is a free slot.               *)
LEMMA FirstFree ==
    ASSUME NEW S \in SUBSET Slots, S # {}
    PROVE  Min(S) \in S
  <1>0. S \in SUBSET Nat
    BY CuckooAssumption DEF Slots
  <1>1. PICK x \in S : \A y \in S : ~(<<y, x>> \in OpToRel(<, Nat))
    BY <1>0, NatLessThanWellFounded, WFMin
  <1>2. \A y \in S : x <= y
    <2> TAKE y \in S
    <2>1. x \in Nat /\ y \in Nat BY <1>0
    <2>2. ~(y < x) BY <1>1, <2>1 DEF OpToRel
    <2> QED BY <2>1, <2>2
  <1> QED BY <1>1, <1>2 DEF Min

(* The other bucket of an object in one of its buckets is one of its       *)
(* buckets.                                                                *)
LEMMA JumpHome ==
    ASSUME NEW x \in Objects, NEW b \in Homes(x)
    PROVE  b \in Buckets /\ Jump[x][b] \in Homes(x)
  BY CuckooAssumption DEF Homes

(* An object that is not in the table is put into an empty slot of one of  *)
(* its buckets.                                                            *)
LEMMA AddedSound ==
    ASSUME TableInv, NEW x \in Objects, x \notin present,
           NEW b \in Homes(x), NEW j \in Slots, buckets[b][j] = Empty,
           buckets' = [buckets EXCEPT ![b][j] = x],
           present' = present \cup {x}
    PROVE  /\ buckets' \in [Buckets -> [Slots -> Objects \cup {Empty}]]
           /\ present' \subseteq Objects
           /\ OneSlot' /\ AtHome' /\ Kept'
  <1>1. b \in Buckets
    BY JumpHome
  <1>2. /\ buckets \in [Buckets -> [Slots -> Objects \cup {Empty}]]
        /\ present \subseteq Objects /\ Empty \notin Objects
    BY CuckooAssumption DEF TableInv, TableTypeOK
  <1>3. \A c \in Buckets, i \in Slots :
            buckets'[c][i] = IF c = b /\ i = j THEN x ELSE buckets[c][i]
    BY <1>1, <1>2
  <1>4. \A c \in Buckets, i \in Slots : buckets[c][i] # x
    BY <1>2 DEF TableInv, AtHome
  <1>5. OneSlot'
    <2> SUFFICES ASSUME NEW d \in Buckets, NEW c \in Buckets, NEW i \in Slots, NEW k \in Slots,
                        buckets'[d][i] = buckets'[c][k], buckets'[d][i] # Empty
                 PROVE  d = c /\ i = k
      BY DEF OneSlot, Slots
    <2> QED BY <1>3, <1>4 DEF TableInv, OneSlot
  <1>6. AtHome'
    <2> SUFFICES ASSUME NEW c \in Buckets, NEW i \in Slots, buckets'[c][i] # Empty
                 PROVE  buckets'[c][i] \in present' /\ c \in Homes(buckets'[c][i])
      BY DEF AtHome, Slots, Homes
    <2> QED BY <1>3 DEF TableInv, AtHome
  <1>7. Kept'
    <2> SUFFICES ASSUME NEW y \in present' PROVE \E c \in Buckets, i \in Slots : buckets'[c][i] = y
      BY DEF Kept, Slots
    <2>1. CASE y = x
      BY <2>1, <1>1, <1>3
    <2>2. CASE y # x
      <3>1. PICK c \in Buckets, i \in Slots : buckets[c][i] = y
        BY <2>2 DEF TableInv, Kept
      <3>2. buckets[c][i] # Empty
        BY <3>1, <2>2, <1>2
      <3> QED BY <1>3, <3>1, <3>2
    <2> QED BY <2>1, <2>2
  <1>8. buckets' \in [Buckets -> [Slots -> Objects \cup {Empty}]]
    BY <1>1, <1>2
  <1> QED BY <1>2, <1>5, <1>6, <1>7, <1>8

(* An object moves from its slot to an empty slot of one of its buckets.   *)
LEMMA MovedSound ==
    ASSUME TableInv, NEW b \in Buckets, NEW i \in Slots, NEW c \in Buckets, NEW j \in Slots,
           NEW x \in Objects, buckets[b][i] = x, c \in Homes(x), buckets[c][j] = Empty,
           \A d \in Buckets, k \in Slots :
               buckets'[d][k] = IF d = b /\ k = i THEN Empty
                                ELSE IF d = c /\ k = j THEN x ELSE buckets[d][k],
           present' = present
    PROVE  OneSlot' /\ AtHome' /\ Kept' /\ buckets'[b][i] = Empty
  <1>3. x # Empty /\ x \in present /\ ~(c = b /\ j = i)
    BY CuckooAssumption DEF TableInv, AtHome
  <1>4. \A d \in Buckets, k \in Slots : buckets[d][k] = x => d = b /\ k = i
    BY <1>3 DEF TableInv, OneSlot
  <1>5. OneSlot'
    <2> SUFFICES ASSUME NEW d \in Buckets, NEW e \in Buckets, NEW l \in Slots, NEW k \in Slots,
                        buckets'[d][l] = buckets'[e][k], buckets'[d][l] # Empty
                 PROVE  d = e /\ l = k
      BY DEF OneSlot, Slots
    <2> QED BY <1>3, <1>4 DEF TableInv, OneSlot
  <1>6. AtHome'
    <2> SUFFICES ASSUME NEW d \in Buckets, NEW k \in Slots, buckets'[d][k] # Empty
                 PROVE  buckets'[d][k] \in present' /\ d \in Homes(buckets'[d][k])
      BY DEF AtHome, Slots, Homes
    <2> QED BY <1>3 DEF TableInv, AtHome
  <1>7. Kept'
    <2> SUFFICES ASSUME NEW y \in present' PROVE \E d \in Buckets, k \in Slots : buckets'[d][k] = y
      BY DEF Kept, Slots
    <2>0. y # Empty
      BY CuckooAssumption DEF TableInv, TableTypeOK
    <2>1. PICK d \in Buckets, k \in Slots : buckets[d][k] = y
      BY DEF TableInv, Kept
    <2>2. CASE y = x
      <3>1. buckets'[c][j] = x
        BY <1>3
      <3> QED BY <2>2, <3>1
    <2>3. CASE y # x
      <3>1. buckets'[d][k] = y
        BY <2>0, <2>1, <2>3
      <3> QED BY <3>1
    <2> QED BY <2>2, <2>3
  <1> QED BY <1>5, <1>6, <1>7

(* An object is taken out of its slot.                                     *)
LEMMA RemovedSound ==
    ASSUME TableInv, NEW b \in Buckets, NEW j \in Slots, buckets[b][j] # Empty,
           buckets' = [buckets EXCEPT ![b][j] = Empty],
           present' = present \ {buckets[b][j]}
    PROVE  /\ buckets' \in [Buckets -> [Slots -> Objects \cup {Empty}]]
           /\ OneSlot' /\ AtHome' /\ Kept'
  <1>2. buckets \in [Buckets -> [Slots -> Objects \cup {Empty}]]
    BY DEF TableInv, TableTypeOK
  <1>3. \A c \in Buckets, i \in Slots :
            buckets'[c][i] = IF c = b /\ i = j THEN Empty ELSE buckets[c][i]
    BY <1>2
  <1>4. \A d \in Buckets, k \in Slots : buckets[d][k] = buckets[b][j] => d = b /\ k = j
    BY DEF TableInv, OneSlot
  <1>5. OneSlot'
    <2> SUFFICES ASSUME NEW d \in Buckets, NEW e \in Buckets, NEW l \in Slots, NEW k \in Slots,
                        buckets'[d][l] = buckets'[e][k], buckets'[d][l] # Empty
                 PROVE  d = e /\ l = k
      BY DEF OneSlot, Slots
    <2> QED BY <1>3 DEF TableInv, OneSlot
  <1>6. AtHome'
    <2> SUFFICES ASSUME NEW d \in Buckets, NEW k \in Slots, buckets'[d][k] # Empty
                 PROVE  buckets'[d][k] \in present' /\ d \in Homes(buckets'[d][k])
      BY DEF AtHome, Slots, Homes
    <2> QED BY <1>3, <1>4 DEF TableInv, AtHome
  <1>7. Kept'
    <2> SUFFICES ASSUME NEW y \in present' PROVE \E d \in Buckets, k \in Slots : buckets'[d][k] = y
      BY DEF Kept, Slots
    <2>1. PICK d \in Buckets, k \in Slots : buckets[d][k] = y
      BY DEF TableInv, Kept
    <2> QED BY <2>1, <1>3
  <1>8. buckets' \in [Buckets -> [Slots -> Objects \cup {Empty}]]
    BY <1>2
  <1> QED BY <1>5, <1>6, <1>7, <1>8

(* Steps that leave the table alone.                                       *)
LEMMA TableKept ==
    ASSUME TableInv, UNCHANGED <<buckets, present, asserted>>
    PROVE  OneSlot' /\ AtHome' /\ Kept' /\ asserted'
  BY DEF TableInv, OneSlot, AtHome, Kept, Slots, Homes

(* Between insertions the path is empty.                                   *)
LEMMA IdlePath ==
    ASSUME TableInv, inserting = Empty, UNCHANGED <<cp, inserting, moving>>
    PROVE  Linked' /\ PathSound'
  <1>1. cp = <<>> /\ ~moving
    BY DEF TableInv, PathSound
  <1>2. Linked'
    BY <1>1 DEF Linked
  <1> QED BY <1>1, <1>2 DEF TableInv, PathSound

(* insert, whose caller passes a bucket of the object.                     *)
LEMMA InsertSound ==
    ASSUME TableInv, NEW x \in Objects, x \notin present, inserting = Empty,
           NEW home \in Homes(x), insert(x, home)
    PROVE  TableInv'
  <1> DEFINE other == Jump[x][home]
  <1>1. home \in Buckets /\ other \in Buckets /\ other \in Homes(x)
    <2>1. other \in Homes(x)
      BY JumpHome
    <2> QED BY <2>1, JumpHome
  <1>2. CASE FreeSlots(home) # {} \/ FreeSlots(other) # {}
    <2> DEFINE b == IF FreeSlots(home) # {} THEN home ELSE other
    <2> DEFINE j == Min(FreeSlots(b))
    <2>1. b \in Homes(x) /\ FreeSlots(b) # {}
      BY <1>1, <1>2
    <2>2. j \in FreeSlots(b)
      <3>1. FreeSlots(b) \in SUBSET Slots
        BY DEF FreeSlots
      <3> QED BY <2>1, <3>1, FirstFree
    <2>3. j \in Slots /\ buckets[b][j] = Empty
      BY <2>2 DEF FreeSlots
    <2>4. /\ buckets' = [buckets EXCEPT ![b][j] = x]
          /\ present' = present \cup {x}
          /\ UNCHANGED <<cp, inserting, moving, kickCount, asserted>>
      BY <1>2 DEF insert, tryAdd
    <2> HIDE DEF b, j
    <2>5. /\ buckets' \in [Buckets -> [Slots -> Objects \cup {Empty}]]
          /\ present' \subseteq Objects
          /\ OneSlot' /\ AtHome' /\ Kept'
      BY <2>1, <2>3, <2>4, AddedSound
    <2>6. Linked' /\ PathSound'
      BY <2>4, IdlePath
    <2>7. TableTypeOK'
      BY <2>4, <2>5 DEF TableInv, TableTypeOK, Slots
    <2> QED BY <2>4, <2>5, <2>6, <2>7 DEF TableInv
  <1>3. CASE ~(FreeSlots(home) # {} \/ FreeSlots(other) # {})
    <2> DEFINE start == [bucket |-> other, slot |-> 0, ptr |-> Empty]
    <2>1. /\ cp' = <<start>> /\ inserting' = x /\ kickCount' = 0
          /\ UNCHANGED <<buckets, moving, present, asserted>>
      BY <1>3 DEF insert
    <2>2. start \in [bucket : Buckets, slot : 0 .. BucketSize, ptr : Objects \cup {Empty}]
      BY <1>1, CuckooAssumption
    <2>3. cp' \in Seq([bucket : Buckets, slot : 0 .. BucketSize, ptr : Objects \cup {Empty}])
          /\ Len(cp') = 1 /\ cp'[1] = start /\ cp' # <<>>
      BY <2>1, <2>2
    <2>4. TableTypeOK'
      BY <2>1, <2>3, CuckooAssumption DEF TableInv, TableTypeOK, Slots
    <2>5. Linked'
      BY <2>3 DEF Linked
    <2>6. ~moving /\ x # Empty /\ start.bucket = other
      BY CuckooAssumption DEF TableInv, PathSound
    <2>7. PathSound'
      <3>1. inserting' # Empty /\ cp' # <<>> /\ ~moving'
        BY <2>1, <2>3, <2>6
      <3>2. inserting' \notin present' /\ cp'[1].bucket \in Homes(inserting')
        BY <2>1, <2>3, <2>6, <1>1
      <3> QED BY <3>1, <3>2 DEF PathSound, Homes
    <2> QED BY <2>1, <2>4, <2>5, <2>7, TableKept DEF TableInv
  <1> QED BY <1>2, <1>3

(* Records of a path.                                                      *)
Steps == [bucket : Buckets, slot : 0 .. BucketSize, ptr : Objects \cup {Empty}]

(* During an insertion the path has a last step.                           *)
LEMMA PathTyped ==
    ASSUME TableInv, inserting # Empty
    PROVE  /\ cp \in Seq(Steps) /\ Len(cp) \in Nat \ {0}
           /\ \A k \in 1 .. Len(cp) : cp[k] \in Steps
           /\ Len(cp) \in 1 .. Len(cp) /\ 1 \in 1 .. Len(cp)
  <1>1. cp \in Seq(Steps) /\ cp # <<>>
    BY DEF TableInv, TableTypeOK, PathSound, Steps
  <1> HIDE DEF Steps
  <1>2. Len(cp) \in Nat \ {0}
    BY <1>1
  <1> QED BY <1>1, <1>2

(* The path ends at a bucket with room.                                    *)
LEMMA PathEnds ==
    ASSUME TableInv, cpSearch, FreeSlots(Tip.bucket) # {}
    PROVE  TableInv'
  <1> DEFINE n == Len(cp)
  <1> DEFINE j == Min(FreeSlots(Tip.bucket))
  <1>1. cp \in Seq(Steps) /\ n \in Nat \ {0} /\ cp[n] \in Steps /\ inserting # Empty
    BY PathTyped DEF cpSearch
  <1>2. j \in Slots /\ buckets[Tip.bucket][j] = Empty
    <2>1. FreeSlots(Tip.bucket) \in SUBSET Slots
      BY DEF FreeSlots
    <2>2. j \in FreeSlots(Tip.bucket)
      BY <2>1, FirstFree
    <2> QED BY <2>2 DEF FreeSlots
  <1>3. /\ cp' = [cp EXCEPT ![n].slot = j]
        /\ moving' = TRUE
        /\ UNCHANGED <<kickCount, buckets, inserting, present, asserted>>
    BY DEF cpSearch
  <1> HIDE DEF j
  <1>4. j \in 0 .. BucketSize
    BY <1>2, CuckooAssumption DEF Slots
  <1>5. [cp[n] EXCEPT !.slot = j] \in Steps
    BY <1>1, <1>4 DEF Steps
  <1>6. cp' = [cp EXCEPT ![n] = [cp[n] EXCEPT !.slot = j]]
    BY <1>3
  <1>7. /\ cp' \in Seq(Steps) /\ Len(cp') = n
        /\ \A k \in 1 .. n : cp'[k] = IF k = n THEN [cp[n] EXCEPT !.slot = j] ELSE cp[k]
    BY <1>1, <1>5, <1>6
  <1>8. /\ cp'[n].slot = j /\ cp'[n].bucket = cp[n].bucket
        /\ \A k \in 1 .. n : cp'[k].bucket = cp[k].bucket
    BY <1>1, <1>7 DEF Steps
  <1>9. Linked'
    <2> SUFFICES ASSUME NEW k \in 1 .. n - 1
                 PROVE  /\ cp'[k].slot \in Slots
                        /\ cp'[k].ptr \in Objects
                        /\ cp'[k + 1].bucket = Kick[cp'[k].ptr][cp'[k].bucket]
      BY <1>7 DEF Linked, Slots
    <2>1. k \in 1 .. n /\ k + 1 \in 1 .. n /\ k # n
      BY <1>1
    <2>2. cp'[k] = cp[k] /\ cp'[k + 1].bucket = cp[k + 1].bucket
      BY <1>7, <1>8, <2>1
    <2> QED BY <2>2 DEF TableInv, Linked
  <1>10. PathSound'
    <2>1. cp' # <<>> /\ cp'[1].bucket = cp[1].bucket
      BY <1>1, <1>7, <1>8
    <2>2. inserting' # Empty /\ inserting' \notin present' /\ cp'[1].bucket \in Homes(inserting')
      BY <1>1, <1>3, <2>1 DEF TableInv, PathSound
    <2>3. Tip'.slot = j /\ Tip'.bucket = Tip.bucket
      BY <1>7, <1>8 DEF Tip
    <2>4. Tip'.slot \in Slots /\ buckets'[Tip'.bucket][Tip'.slot] = Empty
      BY <1>2, <1>3, <2>3
    <2> QED BY <2>1, <2>2, <2>4 DEF PathSound, Slots, Homes
  <1>11. TableTypeOK'
    BY <1>3, <1>7 DEF TableInv, TableTypeOK, Slots, Steps
  <1> QED BY <1>3, <1>9, <1>10, <1>11, TableKept DEF TableInv

(* The path goes on by an object of a full bucket.                         *)
LEMMA PathGrows ==
    ASSUME TableInv, cpSearch, FreeSlots(Tip.bucket) = {}
    PROVE  TableInv'
  <1> DEFINE n == Len(cp)
  <1>1. cp \in Seq(Steps) /\ n \in Nat \ {0} /\ cp[n] \in Steps /\ inserting # Empty /\ ~moving
    BY PathTyped DEF cpSearch
  <1>2. PICK j \in Slots :
           LET x == buckets[Tip.bucket][j]
           IN  cp' = Append([cp EXCEPT ![n].slot = j, ![n].ptr = x],
                            [bucket |-> NextOnPath(x, Tip.bucket), slot |-> 0, ptr |-> Empty])
    BY DEF cpSearch
  <1>3. /\ kickCount' = kickCount + 1 /\ kickCount < MaxCuckoo
        /\ UNCHANGED <<moving, buckets, inserting, present, asserted>>
    BY DEF cpSearch
  <1> DEFINE x == buckets[Tip.bucket][j]
  <1> DEFINE last == [cp[n] EXCEPT !.slot = j, !.ptr = x]
  <1> DEFINE next == [bucket |-> Kick[x][cp[n].bucket], slot |-> 0, ptr |-> Empty]
  <1>4. cp[n].bucket \in Buckets /\ Tip.bucket = cp[n].bucket
    BY <1>1 DEF Steps, Tip
  <1>5. x \in Objects
    <2>1. buckets[Tip.bucket][j] # Empty
      BY DEF FreeSlots
    <2> QED BY <2>1, <1>4 DEF TableInv, TableTypeOK
  <1>6. last \in Steps /\ last.slot = j /\ last.ptr = x /\ last.bucket = cp[n].bucket
    <2>1. j \in 0 .. BucketSize
      BY CuckooAssumption DEF Slots
    <2> QED BY <1>1, <1>5, <2>1 DEF Steps
  <1>7. next \in Steps /\ next.bucket = Kick[x][cp[n].bucket]
    BY <1>4, <1>5, CuckooAssumption DEF Steps
  <1>8. cp' = Append([cp EXCEPT ![n] = last], next)
    <2>1. [cp EXCEPT ![n].slot = j, ![n].ptr = x] = [cp EXCEPT ![n] = last]
      BY <1>1
    <2> QED BY <1>2, <1>4, <2>1 DEF NextOnPath
  <1> HIDE DEF x, last, next
  <1>9. /\ cp' \in Seq(Steps) /\ Len(cp') = n + 1 /\ cp'[n + 1] = next
        /\ \A k \in 1 .. n : cp'[k] = IF k = n THEN last ELSE cp[k]
    <2> DEFINE mid == [cp EXCEPT ![n] = last]
    <2>1. /\ mid \in Seq(Steps) /\ Len(mid) = n
          /\ \A k \in 1 .. n : mid[k] = IF k = n THEN last ELSE cp[k]
      BY <1>1, <1>6
    <2>2. cp' = Append(mid, next)
      BY <1>8
    <2> HIDE DEF mid
    <2> QED BY <1>1, <1>7, <2>1, <2>2
  <1>10. Linked'
    <2> SUFFICES ASSUME NEW k \in 1 .. n
                 PROVE  /\ cp'[k].slot \in Slots
                        /\ cp'[k].ptr \in Objects
                        /\ cp'[k + 1].bucket = Kick[cp'[k].ptr][cp'[k].bucket]
      BY <1>1, <1>9 DEF Linked, Slots
    <2>1. CASE k = n
      BY <2>1, <1>1, <1>5, <1>6, <1>7, <1>9
    <2>2. CASE k # n
      <3>1. k \in 1 .. n - 1 /\ k + 1 \in 1 .. n
        BY <1>1, <2>2
      <3>2. cp'[k] = cp[k] /\ cp'[k + 1].bucket = cp[k + 1].bucket
        BY <1>6, <1>9, <2>2, <3>1
      <3> QED BY <3>1, <3>2 DEF TableInv, Linked
    <2> QED BY <2>1, <2>2
  <1>11. PathSound'
    <2>1. cp' # <<>> /\ cp'[1].bucket = cp[1].bucket
      BY <1>1, <1>6, <1>9
    <2>2. inserting' # Empty /\ inserting' \notin present' /\ cp'[1].bucket \in Homes(inserting') /\ ~moving'
      BY <1>1, <1>3, <2>1 DEF TableInv, PathSound
    <2> QED BY <2>1, <2>2 DEF PathSound, Homes
  <1>12. kickCount' \in 0 .. MaxCuckoo
    <2>1. kickCount \in Nat /\ MaxCuckoo \in Nat
      BY CuckooAssumption DEF TableInv, TableTypeOK
    <2> QED BY <1>3, <2>1
  <1>13. TableTypeOK'
    BY <1>3, <1>9, <1>12 DEF TableInv, TableTypeOK, Slots, Steps
  <1> QED BY <1>3, <1>10, <1>11, <1>13, TableKept DEF TableInv

(* The search is given up.                                                 *)
LEMMA SearchFails ==
    ASSUME TableInv, cpSearchFails
    PROVE  TableInv'
  <1>1. /\ inserting' = Empty /\ cp' = <<>> /\ ~moving
        /\ UNCHANGED <<buckets, moving, kickCount, present, asserted>>
    BY DEF cpSearchFails
  <1>2. TableTypeOK'
    BY <1>1 DEF TableInv, TableTypeOK, Slots
  <1>3. Linked' /\ PathSound'
    BY <1>1 DEF Linked, PathSound
  <1> QED BY <1>1, <1>2, <1>3, TableKept DEF TableInv

(* One step of the path is taken back, with or without a move.             *)
LEMMA BackmoveSound ==
    ASSUME LargeParts = {}, TableInv, cpBackmove
    PROVE  TableInv'
  <1> DEFINE n == Len(cp)
  <1> DEFINE from == cp[n - 1]
  <1>1. /\ moving /\ n > 1 /\ cp' = Front(cp)
        /\ UNCHANGED <<inserting, kickCount, present>>
    BY DEF cpBackmove
  <1>2. /\ inserting # Empty /\ Tip.slot \in Slots /\ buckets[Tip.bucket][Tip.slot] = Empty
        /\ cp[1].bucket \in Homes(inserting) /\ inserting \notin present
    BY <1>1 DEF TableInv, PathSound
  <1>3. /\ cp \in Seq(Steps) /\ n \in Nat /\ n - 1 \in 1 .. n /\ n - 1 \in 1 .. n - 1
        /\ (n - 1) + 1 = n /\ from \in Steps /\ Tip \in Steps /\ Tip = cp[n]
    BY <1>1, <1>2, PathTyped DEF Tip
  <1>4. /\ cp' \in Seq(Steps) /\ Len(cp') = n - 1
        /\ \A k \in 1 .. n - 1 : cp'[k] = cp[k]
    BY <1>1, <1>3 DEF Front
  <1>5. /\ from.slot \in Slots /\ from.ptr \in Objects /\ from.bucket \in Buckets
        /\ Tip.bucket = Kick[from.ptr][from.bucket] /\ Tip.bucket \in Buckets
    BY <1>3 DEF TableInv, Linked, Steps
  <1>6. Linked'
    <2> SUFFICES ASSUME NEW k \in 1 .. (n - 1) - 1
                 PROVE  /\ cp'[k].slot \in Slots
                        /\ cp'[k].ptr \in Objects
                        /\ cp'[k + 1].bucket = Kick[cp'[k].ptr][cp'[k].bucket]
      BY <1>4 DEF Linked, Slots
    <2>1. k \in 1 .. n - 1 /\ k + 1 \in 1 .. n - 1
      BY <1>3
    <2>2. cp'[k] = cp[k] /\ cp'[k + 1] = cp[k + 1]
      BY <1>4, <2>1
    <2> QED BY <2>1, <2>2 DEF TableInv, Linked
  <1>7. cp' # <<>> /\ cp'[1].bucket = cp[1].bucket /\ Tip' = from
    <2>1. 1 \in 1 .. n - 1 /\ n - 1 # 0
      BY <1>1, <1>3
    <2>2. Tip' = cp'[n - 1]
      BY <1>4 DEF Tip
    <2> QED BY <1>3, <1>4, <2>1, <2>2
  <1>8. ASSUME ~moving' \/ buckets'[from.bucket][from.slot] = Empty PROVE PathSound'
    <2>1. inserting' # Empty /\ cp' # <<>> /\ inserting' \notin present' /\ cp'[1].bucket \in Homes(inserting')
      BY <1>1, <1>2, <1>7
    <2>2. moving' => Tip'.slot \in Slots /\ buckets'[Tip'.bucket][Tip'.slot] = Empty
      BY <1>5, <1>7, <1>8
    <2> QED BY <2>1, <2>2 DEF PathSound, Slots, Homes
  <1>9. CASE StillThere(from)
    <2> DEFINE x == from.ptr
    <2>1. /\ asserted' = (asserted /\ buckets[Tip.bucket][Tip.slot] = Empty)
          /\ buckets' = [[buckets EXCEPT ![Tip.bucket][Tip.slot] = buckets[from.bucket][from.slot]]
                           EXCEPT ![from.bucket][from.slot] = Empty]
          /\ moving' = moving
      BY <1>9 DEF cpBackmove
    <2>2. buckets[from.bucket][from.slot] = x
      BY <1>9 DEF StillThere
    <2>3. x # Empty /\ from.bucket \in Homes(x)
      BY <1>5, <2>2, CuckooAssumption DEF TableInv, AtHome
    <2>4. Tip.bucket \in Homes(x)
      <3>1. Kick[x] = Jump[x]
        BY <1>5, CuckooAssumption
      <3> QED BY <1>5, <2>3, <3>1, JumpHome
    <2>5. TableTypeOK
      BY DEF TableInv
    <2> DEFINE b == from.bucket
               i == from.slot
               c == Tip.bucket
               j == Tip.slot
    <2>6. /\ buckets' \in [Buckets -> [Slots -> Objects \cup {Empty}]]
          /\ \A d \in Buckets, k \in Slots :
                  buckets'[d][k] = IF d = b /\ k = i THEN Empty
                                   ELSE IF d = c /\ k = j THEN buckets[b][i] ELSE buckets[d][k]
      <3>1. /\ b \in Buckets /\ i \in Slots /\ c \in Buckets /\ j \in Slots
            /\ buckets' = [[buckets EXCEPT ![c][j] = buckets[b][i]] EXCEPT ![b][i] = Empty]
        BY <1>2, <1>5, <2>1
      <3> HIDE DEF b, i, c, j
      <3> DEFINE mid == [buckets EXCEPT ![c][j] = buckets[b][i]]
      <3>2. buckets \in [Buckets -> [Slots -> Objects \cup {Empty}]]
        BY <2>5 DEF TableTypeOK
      <3>3. mid \in [Buckets -> [Slots -> Objects \cup {Empty}]]
        BY <3>1, <3>2
      <3>4. \A d \in Buckets, k \in Slots :
                mid[d][k] = IF d = c /\ k = j THEN buckets[b][i] ELSE buckets[d][k]
        BY <3>1, <3>2
      <3>5. buckets' = [mid EXCEPT ![b][i] = Empty]
        BY <3>1
      <3> HIDE DEF mid
      <3>6. \A d \in Buckets, k \in Slots :
                buckets'[d][k] = IF d = b /\ k = i THEN Empty ELSE mid[d][k]
        BY <3>1, <3>3, <3>5
      <3>7. buckets' \in [Buckets -> [Slots -> Objects \cup {Empty}]]
        <4>1. [mid[b] EXCEPT ![i] = Empty] \in [Slots -> Objects \cup {Empty}]
          BY <3>1, <3>3
        <4>2. buckets' = [mid EXCEPT ![b] = [mid[b] EXCEPT ![i] = Empty]]
          BY <3>5
        <4>3. \A g \in [Slots -> Objects \cup {Empty}] :
                  [mid EXCEPT ![b] = g] \in [Buckets -> [Slots -> Objects \cup {Empty}]]
          BY <3>1, <3>3
        <4> QED BY <4>1, <4>2, <4>3
      <3> QED BY <3>4, <3>6, <3>7
    <2>7. OneSlot' /\ AtHome' /\ Kept' /\ buckets'[b][i] = Empty
      <3>1. /\ b \in Buckets /\ i \in Slots /\ c \in Buckets /\ j \in Slots /\ x \in Objects
            /\ buckets[b][i] = x /\ c \in Homes(x) /\ buckets[c][j] = Empty /\ present' = present
        BY <1>1, <1>2, <1>5, <2>2, <2>4
      <3> HIDE DEF b, i, c, j, x
      <3> QED BY <2>6, <3>1, MovedSound
    <2>8. PathSound'
      BY <1>8, <2>7
    <2>9. asserted'
      BY <1>2, <2>1 DEF TableInv
    <2>10. TableTypeOK'
      BY <1>1, <1>4, <2>1, <2>5, <2>6, <2>9 DEF TableTypeOK, Slots, Steps
    <2> QED BY <1>6, <2>7, <2>8, <2>9, <2>10 DEF TableInv
  <1>10. CASE ~StillThere(from)
    <2>1. ~moving' /\ UNCHANGED <<buckets, asserted>> /\ moving' = FALSE
      BY <1>10 DEF cpBackmove
    <2>2. PathSound'
      BY <1>8, <2>1
    <2>3. TableTypeOK'
      BY <1>1, <1>4, <2>1 DEF TableInv, TableTypeOK, Slots, Steps
    <2> QED BY <1>1, <1>6, <2>1, <2>2, <2>3, TableKept DEF TableInv
  <1> QED BY <1>9, <1>10

(* The new object takes the place at the beginning of the path.            *)
LEMMA CuckooSound ==
    ASSUME TableInv, cuckoo
    PROVE  TableInv'
  <1> DEFINE b == Tip.bucket
  <1> DEFINE x == inserting
  <1>1. /\ moving /\ Len(cp) = 1 /\ inserting' = Empty /\ cp' = <<>> /\ moving' = FALSE
        /\ UNCHANGED <<kickCount, asserted>>
    BY DEF cuckoo
  <1>2. x \in Objects /\ x \notin present /\ b \in Homes(x)
    BY <1>1 DEF TableInv, TableTypeOK, PathSound, Tip
  <1>3. Linked' /\ PathSound'
    BY <1>1 DEF Linked, PathSound
  <1>6. cp' \in Seq(Steps)
    BY <1>1
  <1>4. CASE FreeSlots(b) # {}
    <2> DEFINE j == Min(FreeSlots(b))
    <2>1. buckets' = [buckets EXCEPT ![b][j] = x] /\ present' = present \cup {x}
      BY <1>4 DEF cuckoo, tryAdd
    <2>2. j \in Slots /\ buckets[b][j] = Empty
      <3>1. FreeSlots(b) \in SUBSET Slots
        BY DEF FreeSlots
      <3>2. j \in FreeSlots(b)
        BY <1>4, <3>1, FirstFree
      <3> QED BY <3>2 DEF FreeSlots
    <2> HIDE DEF b, j, x
    <2>3. /\ buckets' \in [Buckets -> [Slots -> Objects \cup {Empty}]]
          /\ present' \subseteq Objects
          /\ OneSlot' /\ AtHome' /\ Kept'
      BY <1>2, <2>1, <2>2, AddedSound
    <2>4. TableTypeOK'
      BY <1>1, <1>6, <2>3 DEF TableInv, TableTypeOK, Slots, Steps
    <2> QED BY <1>1, <1>3, <2>3, <2>4 DEF TableInv
  <1>5. CASE FreeSlots(b) = {}
    <2>1. UNCHANGED <<buckets, present>>
      BY <1>5 DEF cuckoo
    <2>2. TableTypeOK'
      BY <1>1, <1>6, <2>1 DEF TableInv, TableTypeOK, Slots, Steps
    <2> QED BY <1>1, <1>3, <2>1, <2>2, TableKept DEF TableInv
  <1> QED BY <1>4, <1>5

(* An object that is found is deleted.                                     *)
LEMMA DeleteSound ==
    ASSUME TableInv, NEW x \in Objects, deleteKey(x)
    PROVE  TableInv'
  <1>1. /\ inserting = Empty /\ find(x) /\ del(x) /\ present' = present \ {x}
        /\ UNCHANGED <<cp, inserting, moving, kickCount, asserted>>
    BY DEF deleteKey
  <1>2. PICK b \in Homes(x) : InBucket(x, b) /\ tryDel(x, b)
    BY <1>1 DEF find, del, InBucket, Homes
  <1> DEFINE j == Min({i \in Slots : buckets[b][i] = x})
  <1>3. j \in Slots /\ buckets[b][j] = x
    <2>1. {i \in Slots : buckets[b][i] = x} \in SUBSET Slots /\ {i \in Slots : buckets[b][i] = x} # {}
      BY <1>2 DEF InBucket
    <2>2. j \in {i \in Slots : buckets[b][i] = x}
      BY <2>1, FirstFree
    <2> QED BY <2>2
  <1>4. buckets' = [buckets EXCEPT ![b][j] = Empty] /\ b \in Buckets
    BY <1>2, JumpHome DEF tryDel
  <1> HIDE DEF j
  <1>5. x # Empty
    BY CuckooAssumption
  <1>6. /\ buckets' \in [Buckets -> [Slots -> Objects \cup {Empty}]]
        /\ OneSlot' /\ AtHome' /\ Kept'
    BY <1>1, <1>3, <1>4, <1>5, RemovedSound
  <1>7. Linked' /\ PathSound'
    BY <1>1, IdlePath
  <1>8. TableTypeOK'
    BY <1>1, <1>6 DEF TableInv, TableTypeOK, Slots
  <1> QED BY <1>1, <1>6, <1>7, <1>8 DEF TableInv

(* The invariant says what FoundExact says.                                *)
LEMMA FoundByInvariant ==
    ASSUME TableInv
    PROVE  FoundExact
  <1>1. ASSUME NEW x \in Objects PROVE find(x) <=> x \in present
    <2>0. x # Empty /\ First[x] \in Buckets /\ Jump[x][First[x]] \in Buckets
      BY CuckooAssumption
    <2>1. ASSUME find(x) PROVE x \in present
      BY <2>0, <2>1 DEF find, TableInv, AtHome
    <2>2. ASSUME x \in present PROVE find(x)
      <3>1. PICK b \in Buckets, j \in Slots : buckets[b][j] = x
        BY <2>2 DEF TableInv, Kept
      <3>2. b \in Homes(x)
        BY <2>0, <3>1 DEF TableInv, AtHome
      <3> QED BY <3>1, <3>2 DEF find, Homes
    <2> QED BY <2>1, <2>2
  <1>2. ASSUME NEW x \in Objects
        PROVE  Cardinality({p \in Buckets \X Slots : buckets[p[1]][p[2]] = x}) <= 1
    <2> DEFINE S == {p \in Buckets \X Slots : buckets[p[1]][p[2]] = x}
    <2>1. CASE S = {}
      <3>1. Cardinality(S) = 0
        BY <2>1, FS_EmptySet
      <3> QED BY <3>1
    <2>2. CASE S # {}
      <3>1. PICK p : p \in S
        BY <2>2
      <3>2. \A q \in S : q = p
        <4> TAKE q \in S
        <4>1. /\ p = <<p[1], p[2]>> /\ p[1] \in Buckets /\ p[2] \in Slots /\ buckets[p[1]][p[2]] = x
              /\ q = <<q[1], q[2]>> /\ q[1] \in Buckets /\ q[2] \in Slots /\ buckets[q[1]][q[2]] = x
          BY <3>1
        <4>2. x # Empty
          BY CuckooAssumption
        <4>3. p[1] = q[1] /\ p[2] = q[2]
          BY <4>1, <4>2 DEF TableInv, OneSlot
        <4> QED BY <4>1, <4>3
      <3>3. S = {p}
        BY <3>1, <3>2
      <3>4. Cardinality(S) = 1
        BY <3>3, FS_Singleton
      <3> QED BY <3>4
    <2> QED BY <2>1, <2>2
  <1> QED BY <1>1, <1>2 DEF FoundExact, TableInv

(* The invariant holds of an empty table and is kept by every step.        *)
LEMMA TableInvInit == TableInit => TableInv
  <1> SUFFICES ASSUME TableInit PROVE TableInv
    OBVIOUS
  <1>1. \A b \in Buckets, j \in Slots : buckets[b][j] = Empty
    BY DEF TableInit
  <1>2. TableTypeOK
    <2>1. cp \in Seq(Steps) /\ kickCount \in 0 .. MaxCuckoo
      BY CuckooAssumption DEF TableInit
    <2>2. buckets \in [Buckets -> [Slots -> Objects \cup {Empty}]]
      BY DEF TableInit
    <2> QED BY <2>1, <2>2 DEF TableInit, TableTypeOK, Steps
  <1>3. OneSlot /\ AtHome
    BY <1>1 DEF OneSlot, AtHome
  <1>4. Kept /\ Linked /\ PathSound /\ asserted
    BY DEF TableInit, Kept, Linked, PathSound
  <1> QED BY <1>2, <1>3, <1>4 DEF TableInv

LEMMA TableInvStep ==
    ASSUME LargeParts = {}, TableInv, [TableNext]_tableVars
    PROVE  TableInv'
  <1>1. ASSUME NEW x \in Objects, insertKey(x) PROVE TableInv'
    <2>1. First[x] \in Homes(x)
      BY DEF Homes
    <2> QED BY <1>1, <2>1, InsertSound DEF insertKey
  <1>2. ASSUME NEW x \in Objects, setChunk(x) PROVE TableInv'
    <2>1. PlainHome[x] \in Homes(x)
      BY CuckooAssumption DEF Homes
    <2> QED BY <1>2, <2>1, InsertSound DEF setChunk
  <1>3. ASSUME NEW x \in Objects, deleteKey(x) PROVE TableInv'
    BY <1>3, DeleteSound
  <1>4. CASE cpSearch
    BY <1>4, PathEnds, PathGrows
  <1>5. CASE cpSearchFails
    BY <1>5, SearchFails
  <1>6. CASE cpBackmove
    BY <1>6, BackmoveSound
  <1>7. CASE cuckoo
    BY <1>7, CuckooSound
  <1>8. CASE UNCHANGED tableVars
    <2>1. TableTypeOK'
      BY <1>8 DEF TableInv, TableTypeOK, Slots, tableVars
    <2>2. Linked' /\ PathSound'
      BY <1>8 DEF TableInv, Linked, PathSound, Slots, tableVars, Tip, Homes
    <2> QED BY <1>8, <2>1, <2>2, TableKept DEF TableInv, tableVars
  <1> QED BY <1>1, <1>2, <1>3, <1>4, <1>5, <1>6, <1>7, <1>8 DEF TableNext

(* For every number of objects, buckets and slots, and every hash: when no *)
(* object is a part of a large one, first or later, an object is found     *)
(* exactly when it was inserted and not deleted since, in one slot, also   *)
(* while cpBackmove moves others along a path that crosses itself, and the *)
(* assertion of cpBackmove, that no object is overwritten, holds.          *)
THEOREM IndexExact ==
    ASSUME LargeParts = {}
    PROVE  TableSpec => []FoundExact
  <1>1. TableInv /\ [TableNext]_tableVars => TableInv'
    BY TableInvStep
  <1>2. TableInv => FoundExact
    BY FoundByInvariant
  <1> QED BY <1>1, <1>2, TableInvInit, PTL DEF TableSpec
=============================================================================

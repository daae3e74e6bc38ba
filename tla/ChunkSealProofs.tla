-------------------------- MODULE ChunkSealProofs --------------------------
(***************************************************************************)
(* Proofs about ChunkSeal: chunks are never overfull, the parity server    *)
(* has every write exactly once, and every object can be rebuilt once all  *)
(* messages are handled, in whatever order SETs, deltas and seals arrive.  *)
(***************************************************************************)
EXTENDS ChunkSeal, SumLemmas

(* An object of a chunk; a wiped one has the key None.                     *)
Objects == [key : Keys \cup {None}, len : 1 .. Capacity, val : Values]
Place(s, p) == [stripe |-> s, pos |-> p]

-----------------------------------------------------------------------------
(* Sizes of chunks                                                         *)

(* The positions of a chunk are finitely many.                             *)
LEMMA DomainFinite == \A n \in Nat : IsFiniteSet(1 .. n) /\ Cardinality(1 .. n) = n
  BY FS_Interval

(* The size of a chunk is a number, and no object takes less than one      *)
(* unit of it.                                                             *)
LEMMA SizeType ==
    ASSUME NEW chunk \in Seq(Objects)
    PROVE  SizeOf(chunk) \in Nat /\ Len(chunk) <= SizeOf(chunk)
  <1> DEFINE S == DOMAIN chunk
             f == [p \in S |-> chunk[p].len]
             g == [p \in S |-> chunk[p].len - 1]
  <1>1. S = 1 .. Len(chunk) /\ Len(chunk) \in Nat OBVIOUS
  <1>2. IsFiniteSet(S) /\ Cardinality(S) = Len(chunk) BY <1>1, DomainFinite
  <1>3. \A p \in S : chunk[p] \in Objects BY <1>1
  <1>4. \A p \in S : f[p] \in Nat /\ g[p] \in Nat /\ f[p] = g[p] + 1
    <2> TAKE p \in S
    <2>1. chunk[p].len \in 1 .. Capacity BY <1>3 DEF Objects
    <2>2. Capacity \in Nat BY ConstantsAssumption
    <2>3. chunk[p].len \in Nat /\ chunk[p].len - 1 \in Nat BY <2>1, <2>2
    <2> QED BY <2>3
  <1>5. SizeOf(chunk) = SumFunctionOnSet(f, S) BY DEF SizeOf, SumFunction
  <1> HIDE DEF f, g, S
  <1>6. SumFunctionOnSet(g, S) \in Nat /\ SumFunctionOnSet(f, S) \in Nat BY <1>2, <1>4, SumType
  <1>7. SumFunctionOnSet(f, S) = SumFunctionOnSet(g, S) + Cardinality(S)
    <2>1. \A p \in S : g[p] \in Int /\ f[p] = IF p \in S THEN g[p] + 1 ELSE g[p] BY <1>4
    <2>2. S \in SUBSET S OBVIOUS
    <2> QED BY <1>2, <2>1, <2>2, SumRaise
  <1> QED BY <1>1, <1>2, <1>5, <1>6, <1>7

(* Chunks with objects of the same lengths are of the same size: UPDATE    *)
(* and DELETE leave the size alone.                                        *)
LEMMA SizeSame ==
    ASSUME NEW a \in Seq(Objects), NEW b \in Seq(Objects), Len(a) = Len(b),
           \A p \in DOMAIN a : a[p].len = b[p].len
    PROVE  SizeOf(a) = SizeOf(b)
  <1> DEFINE S == DOMAIN a
             f == [p \in S |-> a[p].len]
             g == [p \in S |-> b[p].len]
  <1>1. DOMAIN b = S /\ IsFiniteSet(S) BY DomainFinite
  <1>2. SizeOf(a) = SumFunctionOnSet(f, S) BY DEF SizeOf, SumFunction
  <1>3. SizeOf(b) = SumFunctionOnSet(g, S) BY <1>1 DEF SizeOf, SumFunction
  <1>4. \A p \in S : f[p] = g[p] OBVIOUS
  <1> HIDE DEF f, g, S
  <1> QED BY <1>1, <1>2, <1>3, <1>4, SumSame

(* A chunk that was just allocated has size 0.                             *)
LEMMA SizeEmpty == SizeOf(<<>>) = 0
  <1>1. DOMAIN <<>> = {} OBVIOUS
  <1> QED BY <1>1, SumEmpty DEF SizeOf, SumFunction

(* An object added to a chunk adds its length.                             *)
LEMMA SizeAppend ==
    ASSUME NEW chunk \in Seq(Objects), NEW obj \in Objects
    PROVE  SizeOf(Append(chunk, obj)) = SizeOf(chunk) + obj.len
  <1> DEFINE n == Len(chunk)
             S == 1 .. n
             more == Append(chunk, obj)
             f == [p \in S |-> chunk[p].len]
             g == [p \in 1 .. n + 1 |-> more[p].len]
  <1>1. /\ n \in Nat /\ DOMAIN chunk = S /\ DOMAIN more = 1 .. n + 1
        /\ more[n + 1] = obj /\ \A p \in S : more[p] = chunk[p]
    OBVIOUS
  <1>2. 1 .. n + 1 = S \cup {n + 1} /\ n + 1 \notin S /\ IsFiniteSet(S) BY <1>1, DomainFinite
  <1>3. SizeOf(chunk) = SumFunctionOnSet(f, S) BY <1>1 DEF SizeOf, SumFunction
  <1>4. SizeOf(more) = SumFunctionOnSet(g, S \cup {n + 1}) BY <1>1, <1>2 DEF SizeOf, SumFunction
  <1>5. \A p \in S \cup {n + 1} : g[p] \in Int
    <2>1. \A p \in 1 .. n + 1 : more[p] \in Objects BY <1>1
    <2>2. \A x \in Objects : x.len \in Int
      <3>1. Capacity \in Nat BY ConstantsAssumption
      <3> QED BY <3>1 DEF Objects
    <2> QED BY <1>2, <2>1, <2>2
  <1>6. g[n + 1] = obj.len /\ \A p \in S : g[p] = f[p] BY <1>1, <1>2
  <1>7. SumFunctionOnSet(f, S) \in Nat
    <2>1. \A p \in S : f[p] \in Nat
      <3>1. \A p \in S : chunk[p] \in Objects BY <1>1
      <3>2. Capacity \in Nat BY ConstantsAssumption
      <3> QED BY <3>1, <3>2 DEF Objects
    <2> HIDE DEF f, S
    <2> QED BY <1>2, <2>1, SumType
  <1> HIDE DEF f, g, S, more, n
  <1>8. SumFunctionOnSet(g, S \cup {n + 1}) = g[n + 1] + SumFunctionOnSet(g, S) BY <1>2, <1>5, SumInsert
  <1>9. SumFunctionOnSet(g, S) = SumFunctionOnSet(f, S) BY <1>2, <1>6, SumSame
  <1>10. obj.len \in Nat
    <2>1. Capacity \in Nat BY ConstantsAssumption
    <2> QED BY <2>1 DEF Objects
  <1> QED BY <1>3, <1>4, <1>6, <1>7, <1>8, <1>9, <1>10 DEF more

(* There is a chunk with the least space, and of these one with the oldest *)
(* stripe.                                                                 *)
LEMMA LeastExists ==
    ASSUME NEW S, S # {}, NEW f, \A x \in S : f[x] \in Nat
    PROVE  \E x \in S : \A y \in S : f[x] <= f[y]
  <1> DEFINE Good == {n \in Nat : (\E x \in S : f[x] <= n) => \E x \in S : \A y \in S : f[x] <= f[y]}
  <1>1. 0 \in Good
    <2> SUFFICES ASSUME NEW x \in S, f[x] <= 0 PROVE \E z \in S : \A y \in S : f[z] <= f[y] OBVIOUS
    <2>1. f[x] = 0 OBVIOUS
    <2> QED BY <2>1
  <1>2. ASSUME NEW n \in Nat, n \in Good PROVE n + 1 \in Good
    <2> SUFFICES ASSUME NEW x \in S, f[x] <= n + 1 PROVE \E z \in S : \A y \in S : f[z] <= f[y] OBVIOUS
    <2>1. CASE \E z \in S : f[z] <= n BY <1>2, <2>1
    <2>2. CASE \A z \in S : ~(f[z] <= n)
      <3>1. \A z \in S : f[z] >= n + 1 BY <2>2
      <3>2. f[x] = n + 1 BY <3>1
      <3> QED BY <3>1, <3>2
    <2> QED BY <2>1, <2>2
  <1> HIDE DEF Good
  <1>3. Nat \subseteq Good BY <1>1, <1>2, NumbersInduction
  <1>4. PICK x \in S : TRUE OBVIOUS
  <1>5. f[x] \in Good BY <1>3
  <1> QED BY <1>5 DEF Good

(* The chunk that DataChunkBuffer::set flushes is one of the buffer's.     *)
LEMMA FullestIn ==
    ASSUME NEW buf, NEW S, S # {},
           \A i \in S : buf.sizes[i] \in 0 .. Capacity /\ buf.chunks[i] \in Nat
    PROVE  Fullest(buf, S) \in S
  <1> DEFINE fuller(i, j) == \/ buf.sizes[i] > buf.sizes[j]
                             \/ buf.sizes[i] = buf.sizes[j] /\ buf.chunks[i] <= buf.chunks[j]
             space == [i \in S |-> Capacity - buf.sizes[i]]
             T == {i \in S : \A j \in S : space[i] <= space[j]}
             age == [i \in T |-> buf.chunks[i]]
  <1>0. Capacity \in Nat BY ConstantsAssumption
  <1>1. \A i \in S : space[i] \in Nat BY <1>0
  <1>2. \E i \in S : \A j \in S : space[i] <= space[j]
    <2> HIDE DEF space
    <2> QED BY <1>1, LeastExists
  <1>3. T # {} BY <1>2
  <1>4. \A i \in T : age[i] \in Nat OBVIOUS
  <1>5. PICK i \in T : \A j \in T : age[i] <= age[j]
    <2> HIDE DEF age, T
    <2> QED BY <1>3, <1>4, LeastExists
  <1>6. \A j \in S : fuller(i, j)
    <2> TAKE j \in S
    <2>1. buf.sizes[i] \in Nat /\ buf.sizes[j] \in Nat BY <1>0
    <2>2. Capacity - buf.sizes[i] <= Capacity - buf.sizes[j] BY <1>5
    <2>3. buf.sizes[i] >= buf.sizes[j] BY <1>0, <2>1, <2>2
    <2>4. CASE buf.sizes[i] = buf.sizes[j]
      <3>1. j \in T BY <2>4, <1>5
      <3> QED BY <1>5, <2>4, <3>1
    <2> QED BY <2>1, <2>3, <2>4
  <1>7. i \in S OBVIOUS
  <1>8. \E x \in S : \A j \in S : fuller(x, j)
    <2> HIDE DEF fuller, T, age, space
    <2> QED BY <1>6, <1>7
  <1> QED BY <1>8 DEF Fullest
-----------------------------------------------------------------------------
(* The buffer of the data server                                           *)

(* The data server's buffer (DataChunkBuffer).                             *)
BufferType == [chunks : [Buffers -> Stripes], sizes : [Buffers -> 0 .. Capacity],
               stripeId : 1 .. MaxStripes + 1, reInserted : SUBSET Stripes]

(* Each place of the buffer has a stripe of its own, whose size it knows;  *)
(* stripes not yet started are empty.                                      *)
Consistent(buf, chunks) ==
    /\ buf \in BufferType
    /\ \A i, j \in Buffers : buf.chunks[i] = buf.chunks[j] => i = j
    /\ \A i \in Buffers : buf.chunks[i] < buf.stripeId
    /\ \A i \in Buffers : buf.sizes[i] = SizeOf(chunks[buf.chunks[i]])
    /\ \A s \in Stripes : s >= buf.stripeId => chunks[s] = <<>>

(* A stripe that was started and has left the buffer.                      *)
ClosedIn(buf, s) == s < buf.stripeId /\ \A i \in Buffers : buf.chunks[i] # s
Closed(s) == ClosedIn(buffer, s)

(* The bounds are numbers.                                                 *)
LEMMA Bounds == Capacity \in Nat /\ MaxStripes \in Nat /\ Count \in Nat /\ MaxOps \in Nat
  BY ConstantsAssumption

(* Flushing the chunk at i starts the next stripe there and closes the     *)
(* old one.                                                                *)
LEMMA FlushedConsistent ==
    ASSUME NEW buf, NEW chunks, Consistent(buf, chunks), NEW i \in Buffers, buf.stripeId <= MaxStripes
    PROVE  LET new == Flushed(buf, i)
           IN  /\ Consistent(new, chunks)
               /\ new.chunks[i] = buf.stripeId /\ new.sizes[i] = 0
               /\ \A j \in Buffers : j # i => new.chunks[j] = buf.chunks[j]
               /\ new.stripeId = buf.stripeId + 1 /\ new.reInserted = buf.reInserted
               /\ \A s \in Stripes : ClosedIn(new, s) <=> ClosedIn(buf, s) \/ s = buf.chunks[i]
  <1> DEFINE new == Flushed(buf, i)
             n == buf.stripeId
  <1>0. /\ buf.chunks \in [Buffers -> Stripes] /\ buf.sizes \in [Buffers -> 0 .. Capacity]
        /\ buf.reInserted \in SUBSET Stripes
    BY DEF Consistent, BufferType
  <1>1. n \in Nat /\ n \in Stripes /\ n + 1 \in 1 .. MaxStripes + 1
    <2>1. n \in 1 .. MaxStripes + 1 BY DEF Consistent, BufferType
    <2> QED BY <2>1, Bounds DEF Stripes
  <1>2. /\ new.chunks = [buf.chunks EXCEPT ![i] = n] /\ new.sizes = [buf.sizes EXCEPT ![i] = 0]
        /\ new.stripeId = n + 1 /\ new.reInserted = buf.reInserted
        /\ new = [chunks |-> new.chunks, sizes |-> new.sizes, stripeId |-> new.stripeId,
                  reInserted |-> new.reInserted]
    <2>1. buf \in BufferType BY DEF Consistent
    <2>2. buf = [chunks |-> buf.chunks, sizes |-> buf.sizes, stripeId |-> n,
                 reInserted |-> buf.reInserted]
      BY <2>1 DEF BufferType
    <2> DEFINE b1 == [buf EXCEPT !.chunks[i] = n]
               b2 == [b1 EXCEPT !.sizes[i] = 0]
               b3 == [b2 EXCEPT !.stripeId = n + 1]
    <2>3. b1 = [chunks |-> [buf.chunks EXCEPT ![i] = n], sizes |-> buf.sizes, stripeId |-> n,
                reInserted |-> buf.reInserted]
      BY <2>2
    <2>4. b2 = [chunks |-> [buf.chunks EXCEPT ![i] = n], sizes |-> [buf.sizes EXCEPT ![i] = 0],
                stripeId |-> n, reInserted |-> buf.reInserted]
      <3> HIDE DEF b1
      <3> QED BY <2>3
    <2>5. b3 = [chunks |-> [buf.chunks EXCEPT ![i] = n], sizes |-> [buf.sizes EXCEPT ![i] = 0],
                stripeId |-> n + 1, reInserted |-> buf.reInserted]
      <3> HIDE DEF b2
      <3> QED BY <2>4
    <2>6. new = b3 BY <2>2, <2>3, <2>4 DEF Flushed
    <2> HIDE DEF new, b3
    <2> QED BY <2>5, <2>6
  <1>3. /\ new.chunks[i] = n /\ new.sizes[i] = 0
        /\ \A j \in Buffers : j # i => new.chunks[j] = buf.chunks[j] /\ new.sizes[j] = buf.sizes[j]
    BY <1>0, <1>2
  <1>4. new \in BufferType
    <2>1. 0 \in 0 .. Capacity BY Bounds
    <2>2. new.chunks \in [Buffers -> Stripes] BY <1>0, <1>1, <1>2
    <2>3. new.sizes \in [Buffers -> 0 .. Capacity] BY <1>0, <1>2, <2>1
    <2>4. new.stripeId \in 1 .. MaxStripes + 1 /\ new.reInserted \in SUBSET Stripes BY <1>0, <1>1, <1>2
    <2> HIDE DEF new
    <2> QED BY <1>2, <2>2, <2>3, <2>4 DEF BufferType
  <1>5. \A j \in Buffers : buf.chunks[j] \in Nat /\ buf.chunks[j] < n
    BY <1>0, Bounds DEF Consistent, Stripes
  <1> HIDE DEF new, n
  <1>6. \A j, l \in Buffers : new.chunks[j] = new.chunks[l] => j = l
    <2> SUFFICES ASSUME NEW j \in Buffers, NEW l \in Buffers, new.chunks[j] = new.chunks[l] PROVE j = l
      OBVIOUS
    <2>1. \A x \in Buffers : buf.chunks[x] # n BY <1>1, <1>5
    <2>2. buf.chunks[j] = buf.chunks[l] => j = l BY DEF Consistent
    <2> QED BY <1>3, <2>1, <2>2
  <1>7. \A j \in Buffers : new.chunks[j] < new.stripeId
    <2> TAKE j \in Buffers
    <2>1. CASE j = i BY <1>1, <1>2, <1>3, <2>1
    <2>2. CASE j # i BY <1>1, <1>2, <1>3, <1>5, <2>2
    <2> QED BY <2>1, <2>2
  <1>8. \A j \in Buffers : new.sizes[j] = SizeOf(chunks[new.chunks[j]])
    <2> TAKE j \in Buffers
    <2>1. chunks[n] = <<>> BY <1>1 DEF Consistent, n
    <2>2. CASE j = i BY <1>3, <2>1, <2>2, SizeEmpty
    <2>3. CASE j # i BY <1>3, <2>3 DEF Consistent
    <2> QED BY <2>2, <2>3
  <1>9. \A s \in Stripes : s >= new.stripeId => chunks[s] = <<>>
    <2> TAKE s \in Stripes
    <2>1. s \in Nat BY Bounds DEF Stripes
    <2>2. s >= n + 1 => s >= n BY <1>1, <2>1
    <2> QED BY <1>2, <2>2 DEF Consistent, n
  <1>10. ASSUME NEW s \in Stripes PROVE ClosedIn(new, s) <=> ClosedIn(buf, s) \/ s = buf.chunks[i]
    <2>0. s \in Nat /\ buf.chunks[i] \in Nat /\ buf.chunks[i] < n BY <1>5, Bounds DEF Stripes
    <2>1. CASE s = buf.chunks[i]
      <3>1. s < n + 1 /\ s # n BY <1>1, <2>0, <2>1
      <3>2. \A j \in Buffers : new.chunks[j] # s
        <4> TAKE j \in Buffers
        <4>1. j # i => buf.chunks[j] # s BY <2>1 DEF Consistent
        <4> QED BY <1>3, <3>1, <4>1
      <3> QED BY <1>2, <2>1, <3>1, <3>2 DEF ClosedIn
    <2>2. CASE s # buf.chunks[i]
      <3>1. ClosedIn(buf, s) => ClosedIn(new, s)
        <4> SUFFICES ASSUME ClosedIn(buf, s) PROVE ClosedIn(new, s) OBVIOUS
        <4>1. s < n + 1 /\ s # n BY <1>1, <2>0 DEF ClosedIn, n
        <4> QED BY <1>2, <1>3, <4>1 DEF ClosedIn
      <3>2. ClosedIn(new, s) => ClosedIn(buf, s)
        <4> SUFFICES ASSUME ClosedIn(new, s) PROVE ClosedIn(buf, s) OBVIOUS
        <4>1. s < n + 1 /\ s # n BY <1>2, <1>3 DEF ClosedIn
        <4>2. s < n BY <1>1, <2>0, <4>1
        <4> QED BY <1>3, <2>2, <4>2 DEF ClosedIn, n
      <3> QED BY <2>2, <3>1, <3>2
    <2> QED BY <2>1, <2>2
  <1>11. Consistent(new, chunks) BY <1>4, <1>6, <1>7, <1>8, <1>9 DEF Consistent
  <1> QED BY <1>2, <1>3, <1>10, <1>11 DEF new, n

(* An object is put into the chunk at i, and its size is added.            *)
LEMMA SizedConsistent ==
    ASSUME NEW buf, NEW chunks, DOMAIN chunks = Stripes, \A s \in Stripes : chunks[s] \in Seq(Objects),
           Consistent(buf, chunks), NEW i \in Buffers, NEW obj \in Objects,
           buf.sizes[i] + obj.len <= Capacity
    PROVE  LET new == [buf EXCEPT !.sizes[i] = @ + obj.len]
               more == [chunks EXCEPT ![buf.chunks[i]] = Append(@, obj)]
           IN  /\ Consistent(new, more)
               /\ new.chunks = buf.chunks /\ new.stripeId = buf.stripeId
               /\ new.reInserted = buf.reInserted
               /\ \A s \in Stripes : ClosedIn(new, s) <=> ClosedIn(buf, s)
  <1> DEFINE size == buf.sizes[i] + obj.len
             new == [buf EXCEPT !.sizes[i] = @ + obj.len]
             x == buf.chunks[i]
             more == [chunks EXCEPT ![x] = Append(@, obj)]
  <1>0. /\ buf.chunks \in [Buffers -> Stripes] /\ buf.sizes \in [Buffers -> 0 .. Capacity]
        /\ x \in Stripes
    BY DEF Consistent, BufferType
  <1>1. /\ new.chunks = buf.chunks /\ new.sizes = [buf.sizes EXCEPT ![i] = size]
        /\ new.stripeId = buf.stripeId /\ new.reInserted = buf.reInserted
        /\ new = [chunks |-> new.chunks, sizes |-> new.sizes, stripeId |-> new.stripeId,
                  reInserted |-> new.reInserted]
    <2>1. buf \in BufferType BY DEF Consistent
    <2>2. buf = [chunks |-> buf.chunks, sizes |-> buf.sizes, stripeId |-> buf.stripeId,
                 reInserted |-> buf.reInserted]
      BY <2>1 DEF BufferType
    <2>3. new = [chunks |-> buf.chunks, sizes |-> [buf.sizes EXCEPT ![i] = size],
                 stripeId |-> buf.stripeId, reInserted |-> buf.reInserted]
      BY <2>2
    <2> HIDE DEF new
    <2> QED BY <2>3
  <1>2. size \in 0 .. Capacity
    <2>1. obj.len \in 1 .. Capacity BY DEF Objects
    <2>2. buf.sizes[i] \in 0 .. Capacity BY <1>0
    <2> QED BY <2>1, <2>2, Bounds
  <1>3. more[x] = Append(chunks[x], obj) /\ \A s \in Stripes : s # x => more[s] = chunks[s] BY <1>0
  <1>4. SizeOf(more[x]) = size
    <2>1. buf.sizes[i] = SizeOf(chunks[x]) BY DEF Consistent
    <2> QED BY <1>0, <1>3, <2>1, SizeAppend
  <1> HIDE DEF new, more, size
  <1>5. new \in BufferType
    <2>1. new.sizes \in [Buffers -> 0 .. Capacity] BY <1>0, <1>1, <1>2
    <2> QED BY <1>1, <2>1 DEF Consistent, BufferType
  <1>6. \A j \in Buffers : new.sizes[j] = SizeOf(more[new.chunks[j]])
    <2> TAKE j \in Buffers
    <2>1. CASE j = i BY <1>0, <1>1, <1>4, <2>1
    <2>2. CASE j # i
      <3>1. buf.chunks[j] # x /\ buf.chunks[j] \in Stripes BY <1>0, <2>2 DEF Consistent
      <3>2. more[buf.chunks[j]] = chunks[buf.chunks[j]] BY <1>3, <3>1
      <3>3. new.sizes[j] = buf.sizes[j] BY <1>0, <1>1, <2>2
      <3> QED BY <1>1, <3>2, <3>3 DEF Consistent
    <2> QED BY <2>1, <2>2
  <1>7. \A s \in Stripes : s >= new.stripeId => more[s] = <<>>
    <2> SUFFICES ASSUME NEW s \in Stripes, s >= buf.stripeId PROVE more[s] = <<>> BY <1>1
    <2>1. s \in Nat /\ x \in Nat BY <1>0, Bounds DEF Stripes
    <2>2. x < buf.stripeId /\ buf.stripeId \in Nat BY Bounds DEF Consistent, BufferType
    <2>3. s # x BY <2>1, <2>2
    <2> QED BY <1>3, <2>3 DEF Consistent
  <1>8. \A s \in Stripes : ClosedIn(new, s) <=> ClosedIn(buf, s) BY <1>1 DEF ClosedIn
  <1>9. Consistent(new, more) BY <1>1, <1>5, <1>6, <1>7 DEF Consistent
  <1> QED BY <1>1, <1>8, <1>9 DEF new, more
-----------------------------------------------------------------------------
(* Types, sizes and the index of the data server                           *)

(* Each stripe has a chunk of objects.                                     *)
DataType == DOMAIN data = Stripes /\ \A s \in Stripes : data[s] \in Seq(Objects)

(* A place is that of k's object, which may have been wiped.               *)
Owns(k, place) ==
    /\ place.pos \in DOMAIN data[place.stripe]
    /\ data[place.stripe][place.pos].key \in {k, None}

(* The index gives each key a place of its own object.                     *)
IndexOwned == \A k \in Keys : index[k] # Nowhere => Owns(k, index[k])

(* Chunks that objects are added to again have left the buffer and begin   *)
(* with a wiped object.                                                    *)
Reopened ==
    \A s \in buffer.reInserted : Closed(s) /\ data[s] # <<>> /\ data[s][1].key = None

(* The invariant of the data server.                                       *)
StoreInv == TypeOK /\ SizesExact /\ Consistent(buffer, data) /\ Reopened /\ IndexOwned

(* What a message of each type has.                                        *)
LEMMA MessageKinds ==
    ASSUME NEW m \in Messages
    PROVE  /\ m.type \in {"set", "update", "chunk", "delete", "delete chunk", "seal"}
           /\ m.type # "seal" => m.key \in Keys /\ m.op \in 1 .. MaxOps
           /\ m.type = "set" => m.to \in {"data", "parity"}
           /\ m.type \in {"update", "chunk"} => m.place \in Places
           /\ m.type = "seal" => m.stripe \in Stripes /\ m.records \in SUBSET (Keys \X Positions)
  BY DEF Messages

(* The parts of the type invariant that the data server's steps use.       *)
LEMMA StoreTypes ==
    ASSUME TypeOK
    PROVE  /\ DataType /\ index \in [Keys -> Places \cup {Nowhere}]
           /\ buffer \in BufferType
           /\ \A k \in Keys : index[k] # Nowhere => index[k].stripe \in Stripes /\ index[k].pos \in Positions
           /\ \A m \in msgs : m \in Messages
  BY DEF TypeOK, DataType, Objects, BufferType, Places

(* A chunk is sealed when the buffer does not have it.                     *)
LEMMA SealedIs ==
    ASSUME TypeOK, NEW s
    PROVE  IsSealed(s) <=> \A i \in Buffers : buffer.chunks[i] # s
  <1>1. buffer.chunks \in [Buffers -> Stripes] BY DEF TypeOK
  <1> QED BY <1>1 DEF IsSealed, Range

(* A chunk that has objects was started.                                   *)
LEMMA StartedIs ==
    ASSUME StoreInv, NEW s \in Stripes, data[s] # <<>>
    PROVE  Closed(s) <=> IsSealed(s)
  <1>1. s \in Nat /\ buffer.stripeId \in Nat BY Bounds DEF StoreInv, TypeOK, Stripes
  <1>2. ~(s >= buffer.stripeId) BY DEF StoreInv, Consistent
  <1>3. s < buffer.stripeId BY <1>1, <1>2
  <1> QED BY <1>3, SealedIs DEF Closed, ClosedIn, StoreInv

(* An object of k is put at the end of the chunk of s.                     *)
Appended(k, op, s) ==
    /\ DataType'
    /\ \A t \in Stripes : SizeOf(data'[t]) <= Capacity
    /\ Len(data[s]) + 1 \in Positions
    /\ DOMAIN data'[s] = 1 .. Len(data[s]) + 1
    /\ data'[s][Len(data[s]) + 1] = Object(k, op)
    /\ \A p \in DOMAIN data[s] : p \in DOMAIN data'[s] /\ data'[s][p] = data[s][p]
    /\ \A t \in Stripes : t # s => data'[t] = data[t]
    /\ Len(data[s]) + 1 \notin DOMAIN data[s] /\ Len(data[s]) \in Nat

(* An object that fits is added at the end of its chunk, and nothing else  *)
(* changes.                                                                *)
LEMMA AppendEffect ==
    ASSUME StoreInv, NEW k \in Keys, NEW op \in 1 .. MaxOps, NEW s \in Stripes,
           SizeOf(data[s]) + Size[k] <= Capacity,
           data' = [data EXCEPT ![s] = Append(@, Object(k, op))]
    PROVE  Appended(k, op, s)
  <1>0. DataType BY StoreTypes DEF StoreInv
  <1>1. Object(k, op) \in Objects /\ Object(k, op).len = Size[k]
    BY ConstantsAssumption DEF Object, Objects, Values
  <1>2. data[s] \in Seq(Objects) BY <1>0 DEF DataType
  <1>3. data'[s] = Append(data[s], Object(k, op)) /\ \A t \in Stripes : t # s => data'[t] = data[t]
    BY <1>0 DEF DataType
  <1>4. /\ data'[s] \in Seq(Objects) /\ Len(data'[s]) = Len(data[s]) + 1
        /\ data'[s][Len(data[s]) + 1] = Object(k, op) /\ Len(data[s]) \in Nat
        /\ DOMAIN data'[s] = 1 .. Len(data[s]) + 1 /\ DOMAIN data[s] = 1 .. Len(data[s])
        /\ \A p \in DOMAIN data[s] : data'[s][p] = data[s][p]
    BY <1>1, <1>2, <1>3
  <1>5. SizeOf(data'[s]) = SizeOf(data[s]) + Size[k] BY <1>1, <1>2, <1>3, SizeAppend
  <1>6. Len(data[s]) + 1 \in Positions
    <2>1. Len(data'[s]) <= SizeOf(data'[s]) /\ SizeOf(data'[s]) \in Nat BY <1>4, SizeType
    <2>2. SizeOf(data'[s]) <= Capacity BY <1>5
    <2> QED BY <1>4, <2>1, <2>2, Bounds DEF Positions
  <1>7. DataType' BY <1>0, <1>3, <1>4 DEF DataType
  <1>8. \A t \in Stripes : SizeOf(data'[t]) <= Capacity BY <1>3, <1>5 DEF StoreInv, SizesExact
  <1>9. Len(data[s]) + 1 \notin DOMAIN data[s] BY <1>4
  <1>10. \A p \in DOMAIN data[s] : p \in DOMAIN data'[s] /\ data'[s][p] = data[s][p] BY <1>4
  <1> QED BY <1>3, <1>4, <1>6, <1>7, <1>8, <1>9, <1>10 DEF Appended

(* What a SET does at the data server: the object is put at the end of the *)
(* chunk of s, and the chunks of out leave the buffer.                     *)
Packed(m, s, out) ==
    /\ ToData(m) /\ ~Found(m.key)
    /\ SizeOf(data[s]) + Size[m.key] <= Capacity
    /\ data' = [data EXCEPT ![s] = Append(@, Object(m.key, m.op))]
    /\ index' = [index EXCEPT ![m.key] = Place(s, Len(data[s]) + 1)]
    /\ msgs' = (msgs \ {m}) \cup SealRequests(out, data')
    /\ UNCHANGED <<parityVars, ops, reused>>
    /\ \A t \in Stripes : Closed(t)' <=> Closed(t) \/ t \in out
    /\ ~Closed(s) \/ s \in buffer.reInserted
    /\ Consistent(buffer, data)'
    /\ buffer'.reInserted \subseteq buffer.reInserted
    /\ sealed' \subseteq Stripes

(* The SET that finds room in the buffer, flushing a chunk if it must,     *)
(* packs its object.                                                       *)
LEMMA SetDataPacks ==
    ASSUME StoreInv, NEW m \in msgs, SetData(m)
    PROVE  \E s \in Stripes, out \in SUBSET Stripes : Packed(m, s, out)
  <1> DEFINE k == m.key
             flush == Fitting(k) = {}
             i == Fullest(buffer, IF flush THEN Buffers ELSE Fitting(k))
             buf == IF flush THEN Flushed(buffer, i) ELSE buffer
             s == buf.chunks[i]
             obj == Object(k, m.op)
             added == [data EXCEPT ![s] = Append(@, obj)]
             sized == [buf EXCEPT !.sizes[i] = @ + Size[k]]
             full == Full(added[s])
             out == (IF flush THEN {buffer.chunks[i]} ELSE {}) \cup (IF full THEN {s} ELSE {})
  <1>1. k \in Keys /\ m.op \in 1 .. MaxOps /\ ToData(m) /\ ~Found(k)
    BY MessageKinds, StoreTypes DEF SetData, ToData, StoreInv
  <1>2. obj \in Objects /\ obj.len = Size[k] /\ Size[k] \in 1 .. Capacity
    BY <1>1, ConstantsAssumption DEF Object, Objects, Values
  <1>3. DataType /\ buffer \in BufferType /\ Consistent(buffer, data) BY StoreTypes DEF StoreInv
  <1>4. buffer.chunks \in [Buffers -> Stripes] /\ buffer.sizes \in [Buffers -> 0 .. Capacity]
    BY <1>3 DEF BufferType
  <1>5. buffer.stripeId \in Nat /\ buffer.stripeId + 1 <= MaxStripes
    <2>1. buffer.stripeId \in 1 .. MaxStripes + 1 BY <1>3 DEF BufferType
    <2>2. buffer.stripeId + 2 <= MaxStripes + 1 BY DEF SetData, StripesLeft
    <2> QED BY <2>1, <2>2, Bounds
  <1>6. i \in Buffers /\ (~flush => i \in Fitting(k))
    <2>1. \A j \in Buffers : buffer.sizes[j] \in 0 .. Capacity /\ buffer.chunks[j] \in Nat
      BY <1>4, Bounds DEF Stripes
    <2>2. Buffers # {} BY ConstantsAssumption DEF Buffers
    <2>3. Fitting(k) \subseteq Buffers BY DEF Fitting
    <2>4. ASSUME NEW S \in SUBSET Buffers, S # {} PROVE Fullest(buffer, S) \in S BY <2>1, <2>4, FullestIn
    <2> QED BY <2>2, <2>3, <2>4
  <1> HIDE DEF i
  <1>7. /\ Consistent(buf, data) /\ buf.sizes[i] + Size[k] <= Capacity
        /\ buf.stripeId \in Nat /\ buf.stripeId <= MaxStripes /\ buf.reInserted = buffer.reInserted
        /\ \A t \in Stripes : ClosedIn(buf, t) <=> Closed(t) \/ t \in IF flush THEN {buffer.chunks[i]} ELSE {}
    <2>0. buffer.stripeId <= MaxStripes BY <1>5, Bounds
    <2>1. CASE flush
      <3>1. buf = Flushed(buffer, i) BY <2>1
      <3>2. /\ Consistent(buf, data) /\ buf.sizes[i] = 0 /\ buf.stripeId = buffer.stripeId + 1
            /\ buf.reInserted = buffer.reInserted
            /\ \A t \in Stripes : ClosedIn(buf, t) <=> ClosedIn(buffer, t) \/ t = buffer.chunks[i]
        BY <1>3, <1>6, <2>0, <3>1, FlushedConsistent
      <3> HIDE DEF buf, flush
      <3>3. 0 + Size[k] <= Capacity BY <1>2, Bounds
      <3>4. buf.sizes[i] + Size[k] <= Capacity BY <3>2, <3>3
      <3>5. buf.stripeId \in Nat /\ buf.stripeId <= MaxStripes BY <1>5, <3>2
      <3> QED BY <2>1, <3>2, <3>4, <3>5 DEF Closed
    <2>2. CASE ~flush
      <3>1. buf = buffer BY <2>2
      <3>2. buffer.sizes[i] + Size[k] <= Capacity BY <1>6, <2>2 DEF Fitting
      <3> HIDE DEF buf, flush
      <3> QED BY <1>3, <1>5, <2>0, <2>2, <3>1, <3>2 DEF Closed
    <2> QED BY <2>1, <2>2
  <1> HIDE DEF buf
  <1>8. s \in Stripes /\ s < buf.stripeId /\ ~ClosedIn(buf, s)
    BY <1>6, <1>7 DEF Consistent, BufferType, ClosedIn
  <1>9. /\ Consistent(sized, added) /\ sized.chunks = buf.chunks /\ sized.stripeId = buf.stripeId
        /\ sized.reInserted = buf.reInserted
        /\ \A t \in Stripes : ClosedIn(sized, t) <=> ClosedIn(buf, t)
    <2>1. DOMAIN data = Stripes /\ \A t \in Stripes : data[t] \in Seq(Objects) BY <1>3 DEF DataType
    <2>2. buf.sizes[i] + obj.len <= Capacity BY <1>2, <1>7
    <2>3. sized = [buf EXCEPT !.sizes[i] = @ + obj.len] BY <1>2
    <2>4. added = [data EXCEPT ![buf.chunks[i]] = Append(@, obj)] OBVIOUS
    <2> HIDE DEF obj, sized, added
    <2>5. LET new == [buf EXCEPT !.sizes[i] = @ + obj.len]
              more == [data EXCEPT ![buf.chunks[i]] = Append(@, obj)]
          IN  /\ Consistent(new, more)
              /\ new.chunks = buf.chunks /\ new.stripeId = buf.stripeId
              /\ new.reInserted = buf.reInserted
              /\ \A t \in Stripes : ClosedIn(new, t) <=> ClosedIn(buf, t)
      BY <1>2, <1>6, <1>7, <2>1, <2>2, SizedConsistent
    <2> QED BY <2>3, <2>4, <2>5
  <1> HIDE DEF sized, added, full
  <1>10. /\ data' = added /\ index' = PutAt(k, s, added)
         /\ buffer' = (IF full THEN Flushed(sized, i) ELSE sized)
         /\ msgs' = (msgs \ {m}) \cup SealRequests(out, added)
         /\ sealed' = sealed \cup out
         /\ UNCHANGED <<parityVars, ops, reused>>
    BY DEF SetData, i, buf, sized, added, full
  <1>11. /\ Consistent(buffer', added) /\ buffer'.reInserted = buffer.reInserted
         /\ \A t \in Stripes : ClosedIn(buffer', t) <=> ClosedIn(sized, t) \/ (full /\ t = s)
    <2>1. CASE full
      <3>1. sized.stripeId <= MaxStripes BY <1>7, <1>9
      <3>2. buffer' = Flushed(sized, i) BY <1>10, <2>1
      <3> QED BY <1>6, <1>7, <1>9, <2>1, <3>1, <3>2, FlushedConsistent
    <2>2. CASE ~full BY <1>7, <1>9, <1>10, <2>2
    <2> QED BY <2>1, <2>2
  <1>12. \A t \in Stripes : Closed(t)' <=> Closed(t) \/ t \in out
    BY <1>7, <1>9, <1>11 DEF Closed
  <1>13. ~Closed(s) BY <1>7, <1>8
  <1>14. SizeOf(data[s]) + Size[k] <= Capacity
    <2>1. buf.sizes[i] = SizeOf(data[s]) BY <1>6, <1>7 DEF Consistent
    <2> QED BY <1>7, <2>1
  <1>15. added = [data EXCEPT ![s] = Append(@, Object(m.key, m.op))] BY DEF added
  <1>16. index' = [index EXCEPT ![m.key] = Place(s, Len(data[s]) + 1)]
    <2>1. added[s] = Append(data[s], obj) BY <1>3, <1>8 DEF added, DataType
    <2>2. Len(added[s]) = Len(data[s]) + 1 BY <1>2, <1>3, <1>8, <2>1 DEF DataType
    <2> QED BY <1>10, <2>2 DEF PutAt, Place
  <1>17. out \in SUBSET Stripes BY <1>4, <1>6, <1>8
  <1>18. sealed' \subseteq Stripes BY <1>10, <1>17 DEF StoreInv, TypeOK
  <1> HIDE DEF out, s
  <1>19. Packed(m, s, out)
    BY <1>1, <1>10, <1>11, <1>12, <1>13, <1>14, <1>15, <1>16, <1>18 DEF Packed
  <1> QED BY <1>8, <1>17, <1>19

(* The SET that goes to a chunk with a wiped object packs its object, and  *)
(* flushes nothing.                                                        *)
LEMMA SetReInsertedPacks ==
    ASSUME StoreInv, NEW m \in msgs, NEW s \in Stripes, SetReInserted(m, s)
    PROVE  Packed(m, s, {})
  <1> DEFINE k == m.key
             obj == Object(k, m.op)
             added == [data EXCEPT ![s] = Append(@, obj)]
  <1>1. k \in Keys /\ m.op \in 1 .. MaxOps /\ ToData(m) /\ ~Found(k)
    BY MessageKinds, StoreTypes DEF SetReInserted, ToData, StoreInv
  <1>2. obj \in Objects /\ obj.len = Size[k] /\ Size[k] \in 1 .. Capacity
    BY <1>1, ConstantsAssumption DEF Object, Objects, Values
  <1>3. DataType /\ buffer \in BufferType /\ Consistent(buffer, data) BY StoreTypes DEF StoreInv
  <1>4. s \in buffer.reInserted /\ Size[k] <= Space(s) BY DEF SetReInserted, ReInserted
  <1>5. SizeOf(data[s]) + Size[k] <= Capacity
    <2>1. SizeOf(data[s]) \in Nat BY <1>3, SizeType DEF DataType
    <2>2. Size[k] <= Capacity - SizeOf(data[s]) BY <1>4 DEF Space
    <2> QED BY <1>2, <2>1, <2>2, Bounds
  <1>6. Closed(s) BY <1>4 DEF StoreInv, Reopened
  <1>7. added[s] = Append(data[s], obj) /\ \A t \in Stripes : t # s => added[t] = data[t]
    BY <1>3 DEF DataType
  <1>8. data' = added /\ index' = PutAt(k, s, added) /\ msgs' = msgs \ {m}
        /\ UNCHANGED <<sealed, parityVars, ops, reused>>
    BY DEF SetReInserted
  <1>9. index' = [index EXCEPT ![m.key] = Place(s, Len(data[s]) + 1)]
    <2>1. Len(added[s]) = Len(data[s]) + 1 BY <1>2, <1>3, <1>7 DEF DataType
    <2> QED BY <1>8, <2>1 DEF PutAt, Place
  <1>10. /\ buffer' \in BufferType /\ buffer'.chunks = buffer.chunks /\ buffer'.sizes = buffer.sizes
         /\ buffer'.stripeId = buffer.stripeId /\ buffer'.reInserted \subseteq buffer.reInserted
    <2>1. buffer' = [buffer EXCEPT !.reInserted = buffer.reInserted \ {s}] \/ buffer' = buffer
      <3>1. buffer' = [buffer EXCEPT !.reInserted = IF Full(added[s]) THEN @ \ {s} ELSE @]
        BY DEF SetReInserted
      <3>2. buffer = [buffer EXCEPT !.reInserted = buffer.reInserted] BY <1>3 DEF BufferType
      <3> QED BY <3>1, <3>2
    <2>2. CASE buffer' = [buffer EXCEPT !.reInserted = buffer.reInserted \ {s}]
      BY <1>3, <2>2 DEF BufferType
    <2> QED BY <1>3, <2>1, <2>2
  <1>11. \A t \in Stripes : Closed(t)' <=> Closed(t) BY <1>10 DEF Closed, ClosedIn
  <1>12. Consistent(buffer, data)'
    <2>1. \A i \in Buffers : data'[buffer.chunks[i]] = data[buffer.chunks[i]]
      <3> TAKE i \in Buffers
      <3>1. buffer.chunks[i] # s BY <1>6 DEF Closed, ClosedIn
      <3>2. buffer.chunks[i] \in Stripes BY <1>3 DEF BufferType
      <3> QED BY <1>7, <1>8, <3>1, <3>2
    <2>2. \A t \in Stripes : t >= buffer.stripeId => data'[t] = <<>>
      <3> SUFFICES ASSUME NEW t \in Stripes, t >= buffer.stripeId PROVE data'[t] = <<>> OBVIOUS
      <3>1. t \in Nat /\ s \in Nat /\ buffer.stripeId \in Nat BY <1>3, Bounds DEF BufferType, Stripes
      <3>2. s < buffer.stripeId BY <1>6 DEF Closed, ClosedIn
      <3>3. t # s BY <3>1, <3>2
      <3> QED BY <1>3, <1>7, <1>8, <3>3 DEF Consistent
    <2> QED BY <1>3, <1>10, <2>1, <2>2 DEF Consistent
  <1>13. sealed' \subseteq Stripes BY <1>8 DEF StoreInv, TypeOK
  <1>14. SealRequests({}, data') = {} BY DEF SealRequests
  <1> HIDE DEF added
  <1>15. data' = [data EXCEPT ![s] = Append(@, Object(m.key, m.op))] BY <1>8 DEF added
  <1>16. msgs' = (msgs \ {m}) \cup SealRequests({}, data') BY <1>8, <1>14
  <1>17. \A t \in Stripes : Closed(t)' <=> Closed(t) \/ t \in {} BY <1>11
  <1> QED BY <1>1, <1>4, <1>5, <1>8, <1>9, <1>10, <1>12, <1>13, <1>15, <1>16, <1>17 DEF Packed

(* Every chunk leaves the buffer.                                          *)
LEMMA SealAllEffect ==
    ASSUME StoreInv, SealAll
    PROVE  /\ Range(buffer.chunks) \subseteq Stripes
           /\ \A t \in Stripes : Closed(t)' <=> Closed(t) \/ t \in Range(buffer.chunks)
           /\ Consistent(buffer, data)' /\ buffer'.reInserted = buffer.reInserted
           /\ UNCHANGED data
  <1> DEFINE n == buffer.stripeId
             chunks == [i \in Buffers |-> n + i - 1]
             sizes == [i \in Buffers |-> 0]
  <1>1. buffer \in BufferType /\ Consistent(buffer, data) BY StoreTypes DEF StoreInv
  <1>2. n \in Nat \ {0} /\ n + Count <= MaxStripes + 1
    <2>1. n \in 1 .. MaxStripes + 1 BY <1>1 DEF BufferType
    <2>2. n + Count <= MaxStripes + 1 BY DEF SealAll, StripesLeft
    <2> QED BY <2>1, <2>2, Bounds
  <1>3. /\ buffer'.chunks = chunks /\ buffer'.sizes = sizes /\ buffer'.stripeId = n + Count
        /\ buffer'.reInserted = buffer.reInserted
        /\ buffer' = [chunks |-> chunks, sizes |-> sizes, stripeId |-> n + Count,
                      reInserted |-> buffer.reInserted]
    <2>1. buffer = [chunks |-> buffer.chunks, sizes |-> buffer.sizes, stripeId |-> n,
                    reInserted |-> buffer.reInserted]
      BY <1>1 DEF BufferType
    <2>2. buffer' = [buffer EXCEPT !.chunks = chunks, !.sizes = sizes, !.stripeId = n + Count]
      BY DEF SealAll
    <2> HIDE DEF chunks, sizes, n
    <2> QED BY <2>1, <2>2
  <1>4. /\ \A i \in Buffers : n + i - 1 \in Stripes /\ n + i - 1 >= n /\ n + i - 1 < n + Count
        /\ \A i, j \in Buffers : n + i - 1 = n + j - 1 => i = j
        /\ \A i \in Buffers : chunks[i] = n + i - 1
    BY <1>2, Bounds DEF Buffers, Stripes
  <1>5. buffer' \in BufferType
    <2>1. chunks \in [Buffers -> Stripes] BY <1>4
    <2>2. sizes \in [Buffers -> 0 .. Capacity] BY Bounds
    <2>3. n + Count \in 1 .. MaxStripes + 1 BY <1>2, Bounds
    <2>4. buffer.reInserted \in SUBSET Stripes BY <1>1 DEF BufferType
    <2> HIDE DEF chunks, sizes, n
    <2> QED BY <1>3, <2>1, <2>2, <2>3, <2>4 DEF BufferType
  <1>6. UNCHANGED data BY DEF SealAll
  <1>7. Consistent(buffer, data)'
    <2>1. \A i \in Buffers : buffer'.sizes[i] = SizeOf(data[buffer'.chunks[i]])
      <3> TAKE i \in Buffers
      <3>1. data[chunks[i]] = <<>> BY <1>1, <1>4 DEF Consistent
      <3> QED BY <1>3, <3>1, SizeEmpty
    <2>2. \A t \in Stripes : t >= n + Count => data[t] = <<>>
      <3> TAKE t \in Stripes
      <3>1. t \in Nat BY Bounds DEF Stripes
      <3>2. t >= n + Count => t >= n BY <1>2, <3>1, Bounds
      <3> QED BY <1>1, <3>2 DEF Consistent
    <2>3. \A i \in Buffers : buffer'.chunks[i] < buffer'.stripeId BY <1>3, <1>4
    <2>4. \A i, j \in Buffers : buffer'.chunks[i] = buffer'.chunks[j] => i = j BY <1>3, <1>4
    <2> QED BY <1>3, <1>5, <1>6, <2>1, <2>2, <2>3, <2>4 DEF Consistent
  <1>8. Range(buffer.chunks) = {buffer.chunks[i] : i \in Buffers} BY <1>1 DEF BufferType, Range
  <1>9. ASSUME NEW t \in Stripes PROVE Closed(t)' <=> Closed(t) \/ t \in Range(buffer.chunks)
    <2>0. t \in Nat BY Bounds DEF Stripes
    <2>1. CASE t < n
      <3>1. t < n + Count /\ \A i \in Buffers : chunks[i] # t BY <1>2, <1>4, <2>0, <2>1, Bounds
      <3> QED BY <1>3, <1>8, <2>1, <3>1 DEF Closed, ClosedIn
    <2>2. CASE ~(t < n)
      <3>1. t \notin Range(buffer.chunks) BY <1>1, <1>8, <2>2 DEF Consistent
      <3>2. t < n + Count => \E i \in Buffers : chunks[i] = t
        <4> SUFFICES ASSUME t < n + Count PROVE \E i \in Buffers : chunks[i] = t OBVIOUS
        <4>1. t - n + 1 \in Buffers /\ n + (t - n + 1) - 1 = t BY <1>2, <2>0, <2>2, Bounds DEF Buffers
        <4> QED BY <1>4, <4>1
      <3> QED BY <1>3, <2>2, <3>1, <3>2 DEF Closed, ClosedIn
    <2> QED BY <2>1, <2>2
  <1>10. Range(buffer.chunks) \subseteq Stripes BY <1>1, <1>8 DEF BufferType
  <1> QED BY <1>3, <1>6, <1>7, <1>9, <1>10

(* What a seal request lists.                                              *)
LEMMA SealRecordsAre ==
    ASSUME NEW chunk \in Seq(Objects), SizeOf(chunk) <= Capacity
    PROVE  /\ \A r \in SealRecords(chunk) :
                /\ r \in Keys \X Positions
                /\ r[2] \in DOMAIN chunk /\ chunk[r[2]].key = r[1]
           /\ (\A q \in DOMAIN chunk : chunk[q].key # None) =>
                \A p \in DOMAIN chunk : <<chunk[p].key, p>> \in SealRecords(chunk)
  <1>1. Len(chunk) <= SizeOf(chunk) /\ SizeOf(chunk) \in Nat BY SizeType
  <1>2. DOMAIN chunk = 1 .. Len(chunk) /\ Len(chunk) \in Nat OBVIOUS
  <1>3. DOMAIN chunk \subseteq Positions BY <1>1, <1>2, Bounds DEF Positions
  <1>4. ASSUME NEW r \in SealRecords(chunk)
        PROVE  r \in Keys \X Positions /\ r[2] \in DOMAIN chunk /\ chunk[r[2]].key = r[1]
    <2>1. PICK p \in DOMAIN chunk : r = <<chunk[p].key, p>> /\ \A q \in 1 .. p : chunk[q].key # None
      BY DEF SealRecords
    <2>2. p \in 1 .. p BY <1>2
    <2>3. chunk[p] \in Objects /\ chunk[p].key # None BY <1>2, <2>1, <2>2
    <2>4. chunk[p].key \in Keys BY <2>3 DEF Objects
    <2> QED BY <1>3, <2>1, <2>4
  <1>5. ASSUME \A q \in DOMAIN chunk : chunk[q].key # None, NEW p \in DOMAIN chunk
        PROVE  <<chunk[p].key, p>> \in SealRecords(chunk)
    <2>1. 1 .. p \subseteq DOMAIN chunk BY <1>2
    <2> QED BY <1>5, <2>1 DEF SealRecords
  <1> QED BY <1>4, <1>5

(* Each chunk that leaves the buffer with an object is announced, with     *)
(* the objects it has.                                                     *)
LEMMA SealRequestsAre ==
    ASSUME NEW out \in SUBSET Stripes, NEW chunks,
           \A s \in Stripes : chunks[s] \in Seq(Objects) /\ SizeOf(chunks[s]) <= Capacity
    PROVE  /\ \A n \in SealRequests(out, chunks) :
                /\ n \in Messages /\ n.type = "seal" /\ n.stripe \in out
                /\ n.records = SealRecords(chunks[n.stripe])
           /\ \A s \in out : SealRecords(chunks[s]) # {} =>
                \E n \in SealRequests(out, chunks) :
                    n.type = "seal" /\ n.stripe = s /\ n.records = SealRecords(chunks[s])
  <1>1. ASSUME NEW n \in SealRequests(out, chunks)
        PROVE  /\ n \in Messages /\ n.type = "seal" /\ n.stripe \in out
               /\ n.records = SealRecords(chunks[n.stripe])
    <2>1. PICK s \in out : n = [type |-> "seal", stripe |-> s, records |-> SealRecords(chunks[s])]
      BY DEF SealRequests
    <2>2. SealRecords(chunks[s]) \subseteq Keys \X Positions BY SealRecordsAre
    <2>3. n \in [type : {"seal"}, stripe : Stripes, records : SUBSET (Keys \X Positions)] BY <2>1, <2>2
    <2> QED BY <2>1, <2>3 DEF Messages
  <1>2. ASSUME NEW s \in out, SealRecords(chunks[s]) # {}
        PROVE  \E n \in SealRequests(out, chunks) :
                    n.type = "seal" /\ n.stripe = s /\ n.records = SealRecords(chunks[s])
    <2> DEFINE n == [type |-> "seal", stripe |-> s, records |-> SealRecords(chunks[s])]
    <2>1. n \in SealRequests(out, chunks) BY <1>2 DEF SealRequests
    <2>2. n.type = "seal" /\ n.stripe = s /\ n.records = SealRecords(chunks[s]) OBVIOUS
    <2> QED BY <2>1, <2>2
  <1> QED BY <1>1, <1>2

(* One object is written or wiped in its place.                            *)
LEMMA ChangeEffect ==
    ASSUME StoreInv, NEW s \in Stripes, NEW p \in DOMAIN data[s], NEW obj \in Objects,
           obj.len = data[s][p].len, data' = [data EXCEPT ![s][p] = obj]
    PROVE  /\ DataType'
           /\ \A t \in Stripes : /\ SizeOf(data'[t]) = SizeOf(data[t])
                                 /\ DOMAIN data'[t] = DOMAIN data[t]
                                 /\ data'[t] = <<>> <=> data[t] = <<>>
           /\ data'[s][p] = obj
           /\ \A t \in Stripes : \A q \in DOMAIN data[t] : <<t, q>> # <<s, p>> => data'[t][q] = data[t][q]
  <1>0. DOMAIN data = Stripes /\ \A t \in Stripes : data[t] \in Seq(Objects)
    BY StoreTypes DEF StoreInv, DataType
  <1> DEFINE new == [data[s] EXCEPT ![p] = obj]
  <1>1. data'[s] = new /\ (\A t \in Stripes : t # s => data'[t] = data[t]) /\ DOMAIN data' = Stripes BY <1>0
  <1>2. data[s] \in Seq(Objects) BY <1>0
  <1>3. /\ new \in Seq(Objects) /\ Len(new) = Len(data[s]) /\ DOMAIN new = DOMAIN data[s]
        /\ new[p] = obj /\ \A q \in DOMAIN data[s] : q # p => new[q] = data[s][q]
    BY <1>2
  <1>4. \A q \in DOMAIN data[s] : data[s][q].len = new[q].len BY <1>3
  <1>5. SizeOf(new) = SizeOf(data[s])
    <2> HIDE DEF new
    <2> QED BY <1>2, <1>3, <1>4, SizeSame
  <1>6. new # <<>> /\ data[s] # <<>> BY <1>2, <1>3
  <1> HIDE DEF new
  <1>7. DataType' BY <1>0, <1>1, <1>3 DEF DataType
  <1> QED BY <1>1, <1>3, <1>5, <1>6, <1>7

(* UPDATE changes the value of the object in its place.                    *)
LEMMA UpdateEffect ==
    ASSUME StoreInv, NEW k \in Keys, Found(k), NEW op \in 1 .. MaxOps,
           data' = [data EXCEPT ![index[k].stripe][index[k].pos].val = SymDiff(@, {op})]
    PROVE  LET s == index[k].stripe
               p == index[k].pos
               obj == [data[s][p] EXCEPT !.val = SymDiff(data[s][p].val, {op})]
           IN  /\ s \in Stripes /\ p \in DOMAIN data[s]
               /\ obj \in Objects /\ obj.len = data[s][p].len /\ obj.key = data[s][p].key
               /\ obj.val = SymDiff(data[s][p].val, {op})
               /\ data' = [data EXCEPT ![s][p] = obj]
  <1> DEFINE s == index[k].stripe
             p == index[k].pos
             val == SymDiff(data[s][p].val, {op})
             obj == [data[s][p] EXCEPT !.val = val]
  <1>1. index[k] # Nowhere BY DEF Found
  <1>2. s \in Stripes BY <1>1, StoreTypes DEF StoreInv
  <1>3. p \in DOMAIN data[s] BY <1>1 DEF StoreInv, IndexOwned, Owns
  <1>4. data[s] \in Seq(Objects) BY <1>2, StoreTypes DEF StoreInv, DataType
  <1>5. data[s][p] \in Objects BY <1>3, <1>4
  <1>6. val \in Values BY <1>5 DEF Objects, Values, SymDiff
  <1> HIDE DEF val
  <1>7. obj \in Objects /\ obj.len = data[s][p].len /\ obj.key = data[s][p].key /\ obj.val = val
    BY <1>5, <1>6 DEF Objects
  <1>8. data' = [data EXCEPT ![s][p] = obj] BY <1>5 DEF val
  <1> QED BY <1>2, <1>3, <1>7, <1>8 DEF val

(* DELETE wipes the object in its place, and the place remains.            *)
LEMMA DeleteEffect ==
    ASSUME StoreInv, NEW k \in Keys, Found(k),
           data' = [data EXCEPT ![index[k].stripe][1].key = None, ![index[k].stripe][1].val = {}]
    PROVE  LET s == index[k].stripe
               obj == [data[s][1] EXCEPT !.key = None, !.val = {}]
           IN  /\ s \in Stripes /\ 1 \in DOMAIN data[s] /\ data[s] # <<>>
               /\ obj \in Objects /\ obj.len = data[s][1].len /\ obj.key = None
               /\ data' = [data EXCEPT ![s][1] = obj]
  <1> DEFINE s == index[k].stripe
             obj == [data[s][1] EXCEPT !.key = None, !.val = {}]
  <1>1. index[k] # Nowhere BY DEF Found
  <1>2. s \in Stripes BY <1>1, StoreTypes DEF StoreInv
  <1>3. index[k].pos \in DOMAIN data[s] BY <1>1 DEF StoreInv, IndexOwned, Owns
  <1>4. data[s] \in Seq(Objects) /\ DOMAIN data = Stripes BY <1>2, StoreTypes DEF StoreInv, DataType
  <1>5. 1 \in DOMAIN data[s] /\ data[s] # <<>> BY <1>3, <1>4
  <1>6. data[s][1] \in Objects BY <1>4, <1>5
  <1>7. obj \in Objects /\ obj.len = data[s][1].len /\ obj.key = None BY <1>6 DEF Objects, Values
  <1>8. data' = [data EXCEPT ![s][1] = obj]
    <2> DEFINE d1 == [data EXCEPT ![s][1].key = None]
    <2>1. d1 = [data EXCEPT ![s] = [data[s] EXCEPT ![1] = [data[s][1] EXCEPT !.key = None]]] OBVIOUS
    <2>2. /\ DOMAIN d1 = Stripes /\ d1[s] = [data[s] EXCEPT ![1] = [data[s][1] EXCEPT !.key = None]]
          /\ \A t \in Stripes : t # s => d1[t] = data[t]
          /\ d1[s][1] = [data[s][1] EXCEPT !.key = None]
      BY <1>2, <1>4, <1>5, <2>1
    <2>3. data' = [d1 EXCEPT ![s] = [d1[s] EXCEPT ![1] = [d1[s][1] EXCEPT !.val = {}]]] OBVIOUS
    <2>4. [d1[s][1] EXCEPT !.val = {}] = obj BY <1>6, <2>2 DEF Objects
    <2> HIDE DEF d1, obj
    <2>5. [d1[s] EXCEPT ![1] = obj] = [data[s] EXCEPT ![1] = obj] BY <1>4, <1>5, <2>2
    <2>6. data' = [d1 EXCEPT ![s] = [data[s] EXCEPT ![1] = obj]] BY <2>3, <2>4, <2>5
    <2> QED BY <1>2, <1>4, <2>2, <2>6
  <1> QED BY <1>2, <1>5, <1>7, <1>8
-----------------------------------------------------------------------------
(* The steps keep types, sizes and the index                               *)

(* The types of what the parity server and the network have.               *)
RestType ==
    /\ keys \in [Keys -> Values] /\ pending \in [Keys -> Requests]
    /\ parity \in [Stripes -> [Positions -> Values]]
    /\ indicator \subseteq Stripes /\ aborted \in BOOLEAN
    /\ msgs \subseteq Messages /\ ops \in 0 .. MaxOps /\ reused \subseteq Keys

(* The type invariant in the parts that one server changes.                *)
LEMMA TypeParts ==
    /\ TypeOK <=> /\ buffer \in BufferType /\ DataType /\ sealed \subseteq Stripes
                  /\ index \in [Keys -> Places \cup {Nowhere}] /\ RestType
    /\ TypeOK' <=> /\ buffer' \in BufferType /\ DataType' /\ sealed' \subseteq Stripes
                   /\ index' \in [Keys -> Places \cup {Nowhere}] /\ RestType'
  BY DEF TypeOK, BufferType, DataType, Objects, RestType

(* The steps of the parity server keep the types and leave the data        *)
(* server alone.                                                           *)
LEMMA ParityTypes ==
    ASSUME TypeOK, NEW m \in msgs, ParityStep(m)
    PROVE  RestType' /\ UNCHANGED <<dataVars, ops, reused>>
  <1>0. RestType /\ m \in Messages BY StoreTypes, TypeParts
  <1>1. UNCHANGED <<dataVars, ops, reused>>
    BY DEF ParityStep, SetParity, SealChunk, UpdateKeyValue, UpdateChunk, DeleteParity, DeleteChunk
  <1>2. \A a, b \in Values : SymDiff(a, b) \in Values BY DEF Values, SymDiff
  <1>3. \A op \in 1 .. MaxOps : {op} \in Values BY DEF Values
  <1>4. ASSUME NEW place \in Places, NEW val \in Values PROVE Applied(place, val) \in [Stripes -> [Positions -> Values]]
    <2>1. place.stripe \in Stripes /\ place.pos \in Positions BY DEF Places
    <2>2. parity[place.stripe] \in [Positions -> Values] BY <1>0, <2>1 DEF RestType
    <2>3. SymDiff(parity[place.stripe][place.pos], val) \in Values BY <1>2, <2>1, <2>2
    <2> QED BY <1>0, <2>1, <2>2, <2>3 DEF Applied, RestType
  <1>5. {} \in Values /\ NoRequest \in Requests /\ [type |-> "update"] \in Requests /\ [type |-> "delete"] \in Requests
    BY DEF Values, Requests
  <1>6. \A request \in Requests : request.type = "seal" => request.place \in Places
    BY DEF Requests, NoRequest
  <1>7. CASE SetParity(m)
    <2>1. m.key \in Keys /\ m.op \in 1 .. MaxOps BY <1>0, <1>7, MessageKinds DEF SetParity
    <2>2. keys' \in [Keys -> Values] BY <1>0, <1>3, <1>7, <2>1 DEF SetParity, Awaited, RestType
    <2>3. pending' \in [Keys -> Requests] BY <1>0, <1>5, <1>7 DEF SetParity, Awaited, RestType
    <2>4. parity' \in [Stripes -> [Positions -> Values]]
      <3>1. pending[m.key].type = "seal" => pending[m.key].place \in Places BY <1>0, <1>6, <2>1 DEF RestType
      <3>2. \/ parity' = parity
            \/ pending[m.key].type = "seal" /\ parity' = Applied(pending[m.key].place, {m.op})
        BY <1>7 DEF SetParity, Awaited
      <3>3. {m.op} \in Values BY <1>3, <2>1
      <3>4. CASE pending[m.key].type = "seal" /\ parity' = Applied(pending[m.key].place, {m.op})
        <4>1. pending[m.key].place \in Places BY <3>1, <3>4
        <4>2. Applied(pending[m.key].place, {m.op}) \in [Stripes -> [Positions -> Values]]
          BY <1>4, <3>3, <4>1
        <4> QED BY <3>4, <4>2
      <3>5. CASE parity' = parity BY <1>0, <3>5 DEF RestType
      <3> QED BY <3>2, <3>4, <3>5
    <2>5. UNCHANGED <<indicator, aborted, ops, reused>> /\ msgs' \subseteq msgs BY <1>7 DEF SetParity
    <2> QED BY <1>0, <1>1, <2>2, <2>3, <2>4, <2>5 DEF RestType
  <1>8. CASE SealChunk(m)
    <2>1. m.stripe \in Stripes /\ m.records \in SUBSET (Keys \X Positions)
      BY <1>0, <1>8, MessageKinds DEF SealChunk
    <2>2. keys' \in [Keys -> Values] BY <1>0, <1>5, <1>8 DEF SealChunk, RestType
    <2>3. pending' \in [Keys -> Requests]
      <3>1. ASSUME NEW k \in Keys, \E p \in Positions : <<k, p>> \in m.records
            PROVE  [type |-> "seal", place |-> [stripe |-> m.stripe,
                        pos |-> CHOOSE p \in Positions : <<k, p>> \in m.records]] \in Requests
        <4>1. (CHOOSE p \in Positions : <<k, p>> \in m.records) \in Positions BY <3>1
        <4> QED BY <2>1, <4>1 DEF Requests, Places
      <3>2. pending' = Deferred(m.records, m.stripe) BY <1>8 DEF SealChunk
      <3> QED BY <1>0, <3>1, <3>2 DEF Deferred, RestType
    <2>4. parity' \in [Stripes -> [Positions -> Values]]
      <3> DEFINE row == [p \in Positions |-> SymDiff(parity[m.stripe][p],
                            UNION {keys[r[1]] : r \in {q \in m.records : q[2] = p}})]
      <3>1. parity' = [parity EXCEPT ![m.stripe] = row] BY <1>8 DEF SealChunk
      <3>2. row \in [Positions -> Values]
        <4> SUFFICES ASSUME NEW p \in Positions
                     PROVE  SymDiff(parity[m.stripe][p],
                                UNION {keys[r[1]] : r \in {q \in m.records : q[2] = p}}) \in Values
          OBVIOUS
        <4>1. \A r \in m.records : r[1] \in Keys BY <2>1
        <4>2. UNION {keys[r[1]] : r \in {q \in m.records : q[2] = p}} \in Values
          BY <1>0, <4>1 DEF RestType, Values
        <4>3. parity[m.stripe][p] \in Values BY <1>0, <2>1 DEF RestType
        <4> QED BY <1>2, <4>2, <4>3
      <3> HIDE DEF row
      <3> QED BY <1>0, <3>1, <3>2 DEF RestType
    <2>5. UNCHANGED <<aborted, ops, reused>> /\ msgs' \subseteq msgs /\ indicator' \subseteq Stripes
      BY <1>0, <1>8, <2>1 DEF SealChunk, RestType
    <2>6. aborted' \in BOOLEAN /\ ops' \in 0 .. MaxOps /\ reused' \subseteq Keys
      BY <1>0, <2>5, Zenon DEF RestType
    <2>7. msgs' \subseteq Messages BY <1>0, <2>5 DEF RestType
    <2> QED BY <1>1, <2>2, <2>3, <2>4, <2>5, <2>6, <2>7 DEF RestType
  <1>9. CASE UpdateKeyValue(m)
    <2>1. m.type = "update" BY <1>9 DEF UpdateKeyValue
    <2>2. m \in [type : {"update", "chunk"}, key : Keys, place : Places, op : 1 .. MaxOps]
      BY <1>0, <2>1 DEF Messages
    <2>3. [m EXCEPT !.type = "chunk"] \in Messages BY <2>2 DEF Messages
    <2>4. m.key \in Keys /\ m.op \in 1 .. MaxOps BY <2>2
    <2>5. keys' \in [Keys -> Values]
      <3>1. SymDiff(keys[m.key], {m.op}) \in Values BY <1>0, <1>2, <1>3, <2>4 DEF RestType
      <3> QED BY <1>0, <1>9, <3>1 DEF UpdateKeyValue, RestType
    <2>6. pending' \in [Keys -> Requests] BY <1>0, <1>5, <1>9, <2>4 DEF UpdateKeyValue, Defer, RestType
    <2>7. msgs' \subseteq Messages BY <1>0, <1>9, <2>3 DEF UpdateKeyValue, RestType
    <2> QED BY <1>0, <1>9, <2>5, <2>6, <2>7 DEF UpdateKeyValue, RestType
  <1>10. CASE UpdateChunk(m)
    <2>1. m.place \in Places /\ m.op \in 1 .. MaxOps BY <1>0, <1>10, MessageKinds DEF UpdateChunk
    <2>2. parity' \in [Stripes -> [Positions -> Values]] BY <1>3, <1>4, <1>10, <2>1 DEF UpdateChunk
    <2> QED BY <1>0, <1>10, <2>2 DEF UpdateChunk, RestType
  <1>11. CASE DeleteParity(m)
    <2>1. m.key \in Keys BY <1>0, <1>11, MessageKinds DEF DeleteParity
    <2>2. keys' \in [Keys -> Values] BY <1>0, <1>5, <1>11 DEF DeleteParity, RestType
    <2>3. pending' \in [Keys -> Requests] BY <1>0, <1>5, <1>11, <2>1 DEF DeleteParity, Defer, RestType
    <2> QED BY <1>0, <1>11, <2>2, <2>3 DEF DeleteParity, RestType
  <1>12. CASE DeleteChunk(m) BY <1>0, <1>12 DEF DeleteChunk, RestType
  <1> QED BY <1>1, <1>7, <1>8, <1>9, <1>10, <1>11, <1>12 DEF ParityStep

(* Chunks grow and objects are wiped; what owns a place keeps it.          *)
Grown ==
    \A s \in Stripes : \A p \in DOMAIN data[s] :
        p \in DOMAIN data'[s] /\ data'[s][p].key \in {data[s][p].key, None}

(* A SET keeps the data server's invariant.                                *)
LEMMA PackedStore ==
    ASSUME StoreInv, NEW m \in msgs, NEW s \in Stripes, NEW out \in SUBSET Stripes, Packed(m, s, out)
    PROVE  StoreInv' /\ Grown
  <1> DEFINE k == m.key
             p == Len(data[s]) + 1
  <1>0. TypeOK /\ RestType /\ DataType /\ index \in [Keys -> Places \cup {Nowhere}]
    BY TypeParts DEF StoreInv
  <1>1. k \in Keys /\ m.op \in 1 .. MaxOps BY <1>0, MessageKinds, StoreTypes DEF Packed, ToData
  <1>2. /\ DataType' /\ (\A t \in Stripes : SizeOf(data'[t]) <= Capacity) /\ p \in Positions
        /\ DOMAIN data'[s] = 1 .. p /\ data'[s][p] = Object(k, m.op)
        /\ \A q \in DOMAIN data[s] : q \in DOMAIN data'[s] /\ data'[s][q] = data[s][q]
        /\ \A t \in Stripes : t # s => data'[t] = data[t]
        /\ Len(data[s]) \in Nat
    <2>1. /\ SizeOf(data[s]) + Size[k] <= Capacity
          /\ data' = [data EXCEPT ![s] = Append(@, Object(k, m.op))]
      BY DEF Packed
    <2> HIDE DEF k
    <2>2. Appended(k, m.op, s) BY <1>1, <2>1, AppendEffect
    <2> QED BY <2>2 DEF Appended
  <1>3. Grown BY <1>2 DEF Grown
  <1>4. index' = [index EXCEPT ![k] = Place(s, p)] BY DEF Packed
  <1>5. Place(s, p) \in Places /\ Place(s, p).stripe = s /\ Place(s, p).pos = p
    BY <1>2 DEF Place, Places
  <1>6. index' \in [Keys -> Places \cup {Nowhere}] BY <1>0, <1>4, <1>5
  <1>7. \A n \in SealRequests(out, data') : n \in Messages
    <2>1. \A t \in Stripes : data'[t] \in Seq(Objects) /\ SizeOf(data'[t]) <= Capacity
      BY <1>2 DEF DataType
    <2> QED BY <2>1, SealRequestsAre
  <1>8. RestType' BY <1>0, <1>7 DEF Packed, RestType, parityVars
  <1>9. Consistent(buffer, data)' /\ buffer' \in BufferType /\ sealed' \subseteq Stripes
    BY DEF Packed, Consistent
  <1>10. TypeOK' BY <1>2, <1>6, <1>8, <1>9, TypeParts
  <1>11. SizesExact' BY <1>2, <1>9 DEF SizesExact, Consistent
  <1>12. Reopened'
    <2> SUFFICES ASSUME NEW t \in buffer'.reInserted
                 PROVE  Closed(t)' /\ data'[t] # <<>> /\ data'[t][1].key = None
      BY DEF Reopened
    <2>1. t \in buffer.reInserted /\ t \in Stripes
      BY StoreTypes DEF Packed, BufferType, StoreInv
    <2>2. Closed(t) /\ data[t] # <<>> /\ data[t][1].key = None BY <2>1 DEF StoreInv, Reopened
    <2>3. Closed(t)' BY <2>1, <2>2 DEF Packed
    <2>4. 1 \in DOMAIN data[t] BY <1>0, <2>1, <2>2 DEF DataType
    <2>5. 1 \in DOMAIN data'[t] /\ data'[t][1] = data[t][1] BY <1>2, <2>1, <2>4
    <2> QED BY <2>2, <2>3, <2>5
  <1>13. IndexOwned'
    <2> SUFFICES ASSUME NEW x \in Keys, index'[x] # Nowhere PROVE Owns(x, index[x])' BY DEF IndexOwned
    <2>1. CASE x = k
      <3>1. index'[x] = Place(s, p) BY <1>0, <1>4, <2>1
      <3>2. p \in DOMAIN data'[s] BY <1>2
      <3> QED BY <1>2, <1>5, <2>1, <3>1, <3>2 DEF Owns, Object
    <2>2. CASE x # k
      <3>1. index'[x] = index[x] BY <1>0, <1>4, <2>2
      <3>2. Owns(x, index[x]) /\ index[x].stripe \in Stripes
        BY <1>0, <3>1, StoreTypes DEF StoreInv, IndexOwned
      <3> QED BY <1>3, <3>1, <3>2 DEF Owns, Grown
    <2> QED BY <2>1, <2>2
  <1> QED BY <1>3, <1>9, <1>10, <1>11, <1>12, <1>13 DEF StoreInv

(* So does a step that leaves the data server alone.                       *)
LEMMA StoreKept ==
    ASSUME StoreInv, UNCHANGED dataVars, RestType'
    PROVE  StoreInv' /\ Grown
  <1>1. buffer' = buffer /\ data' = data /\ index' = index /\ sealed' = sealed BY DEF dataVars
  <1>2. TypeOK'
    <2>1. buffer \in BufferType /\ DataType /\ sealed \subseteq Stripes /\ index \in [Keys -> Places \cup {Nowhere}]
      BY TypeParts DEF StoreInv
    <2>2. DataType' BY <1>1, <2>1 DEF DataType
    <2> QED BY <1>1, <2>1, <2>2, TypeParts
  <1>3. SizesExact' BY <1>1 DEF StoreInv, SizesExact
  <1>4. Consistent(buffer, data)' BY <1>1 DEF StoreInv, Consistent
  <1>5. Reopened' BY <1>1 DEF StoreInv, Reopened, Closed
  <1>6. IndexOwned' BY <1>1 DEF StoreInv, IndexOwned, Owns
  <1> QED BY <1>1, <1>2, <1>3, <1>4, <1>5, <1>6 DEF StoreInv, Grown

(* One object is written or wiped, and its chunk may be put with those     *)
(* that objects are added to again.                                        *)
LEMMA ChangedStore ==
    ASSUME StoreInv, NEW s \in Stripes, NEW p \in DOMAIN data[s], NEW obj \in Objects,
           obj.len = data[s][p].len, obj.key \in {data[s][p].key, None},
           data' = [data EXCEPT ![s][p] = obj],
           index' \in [Keys -> Places \cup {Nowhere}], \A x \in Keys : index'[x] \in {index[x], Nowhere},
           buffer' \in BufferType, buffer'.chunks = buffer.chunks, buffer'.sizes = buffer.sizes,
           buffer'.stripeId = buffer.stripeId,
           \A t \in buffer'.reInserted : t \in buffer.reInserted \/ (t = s /\ p = 1 /\ obj.key = None /\ Closed(s)),
           sealed' = sealed, RestType'
    PROVE  StoreInv' /\ Grown
  <1>1. /\ DataType'
        /\ \A t \in Stripes : /\ SizeOf(data'[t]) = SizeOf(data[t])
                              /\ DOMAIN data'[t] = DOMAIN data[t]
                              /\ data'[t] = <<>> <=> data[t] = <<>>
        /\ data'[s][p] = obj
        /\ \A t \in Stripes : \A q \in DOMAIN data[t] : <<t, q>> # <<s, p>> => data'[t][q] = data[t][q]
    BY ChangeEffect
  <1>2. Grown
    <2> SUFFICES ASSUME NEW t \in Stripes, NEW q \in DOMAIN data[t]
                 PROVE  q \in DOMAIN data'[t] /\ data'[t][q].key \in {data[t][q].key, None}
      BY DEF Grown
    <2>1. CASE t = s /\ q = p BY <1>1, <2>1
    <2>2. CASE ~(t = s /\ q = p)
      <3>1. data'[t][q] = data[t][q] BY <1>1, <2>2
      <3> QED BY <1>1, <3>1
    <2> QED BY <2>1, <2>2
  <1>3. TypeOK' BY <1>1, TypeParts DEF StoreInv
  <1>4. buffer \in BufferType /\ buffer.chunks \in [Buffers -> Stripes]
    BY StoreTypes DEF StoreInv, BufferType
  <1>5. SizesExact' BY <1>1, <1>4 DEF StoreInv, SizesExact
  <1>6. Consistent(buffer, data)' BY <1>1, <1>4 DEF StoreInv, Consistent
  <1>7. Reopened'
    <2> SUFFICES ASSUME NEW t \in buffer'.reInserted
                 PROVE  Closed(t)' /\ data'[t] # <<>> /\ data'[t][1].key = None
      BY DEF Reopened
    <2>0. t \in Stripes BY DEF BufferType
    <2>1. \A x : Closed(x)' <=> Closed(x) BY DEF Closed, ClosedIn
    <2>2. CASE t \in buffer.reInserted
      <3>1. Closed(t) /\ data[t] # <<>> /\ data[t][1].key = None BY <2>2 DEF StoreInv, Reopened
      <3>2. data[t] \in Seq(Objects) BY <2>0, StoreTypes DEF StoreInv, DataType
      <3>3. 1 \in DOMAIN data[t] BY <3>1, <3>2
      <3>4. data'[t][1].key = None BY <1>2, <2>0, <3>1, <3>3 DEF Grown
      <3> QED BY <1>1, <2>0, <2>1, <3>1, <3>4
    <2>3. CASE t \notin buffer.reInserted
      <3>1. t = s /\ p = 1 /\ obj.key = None /\ Closed(s) BY <2>3
      <3>2. data[s] \in Seq(Objects) BY StoreTypes DEF StoreInv, DataType
      <3>3. data[s] # <<>> BY <3>2
      <3> QED BY <1>1, <2>1, <3>1, <3>3
    <2> QED BY <2>2, <2>3
  <1>8. IndexOwned'
    <2> SUFFICES ASSUME NEW x \in Keys, index'[x] # Nowhere PROVE Owns(x, index[x])' BY DEF IndexOwned
    <2>1. index'[x] = index[x] OBVIOUS
    <2>2. Owns(x, index[x]) /\ index[x].stripe \in Stripes BY <2>1, StoreTypes DEF StoreInv, IndexOwned
    <2> QED BY <1>2, <2>1, <2>2 DEF Owns, Grown
  <1> QED BY <1>2, <1>3, <1>5, <1>6, <1>7, <1>8 DEF StoreInv

(* The number of the next write is within the bound.                       *)
LEMMA NextOp == ASSUME ops \in 0 .. MaxOps, ops < MaxOps PROVE ops + 1 \in 1 .. MaxOps /\ ops + 1 \in 0 .. MaxOps
  BY Bounds

(* UPDATE keeps the data server's invariant.                               *)
LEMMA UpdateStore ==
    ASSUME StoreInv, NEW k \in Keys, UpdateData(k)
    PROVE  StoreInv' /\ Grown
  <1> DEFINE s == index[k].stripe
             p == index[k].pos
             obj == [data[s][p] EXCEPT !.val = SymDiff(data[s][p].val, {ops + 1})]
             type == IF IsSealed(s) THEN "chunk" ELSE "update"
             n == [type |-> type, key |-> k, place |-> index[k], op |-> ops + 1]
  <1>0. TypeOK /\ RestType BY TypeParts DEF StoreInv
  <1>1. ops + 1 \in 1 .. MaxOps /\ ops' = ops + 1 /\ ops' \in 0 .. MaxOps BY <1>0, NextOp DEF UpdateData, RestType
  <1>2. Found(k) /\ index[k] \in Places BY <1>0, StoreTypes DEF UpdateData, Found
  <1>3. LET a == index[k].stripe
            b == index[k].pos
            c == [data[a][b] EXCEPT !.val = SymDiff(data[a][b].val, {ops + 1})]
        IN  /\ a \in Stripes /\ b \in DOMAIN data[a]
            /\ c \in Objects /\ c.len = data[a][b].len /\ c.key = data[a][b].key
            /\ c.val = SymDiff(data[a][b].val, {ops + 1})
            /\ data' = [data EXCEPT ![a][b] = c]
    <2>1. data' = [data EXCEPT ![index[k].stripe][index[k].pos].val = SymDiff(@, {ops + 1})]
      BY DEF UpdateData
    <2> QED BY <1>1, <1>2, <2>1, UpdateEffect
  <1>4. /\ s \in Stripes /\ p \in DOMAIN data[s] /\ obj \in Objects /\ obj.len = data[s][p].len
        /\ obj.key = data[s][p].key /\ data' = [data EXCEPT ![s][p] = obj]
    BY <1>3
  <1>5. n \in Messages
    <2>1. type \in {"update", "chunk"} OBVIOUS
    <2> HIDE DEF type
    <2> QED BY <1>1, <1>2, <2>1 DEF Messages
  <1>6. msgs' = msgs \cup {n} /\ UNCHANGED <<buffer, index, sealed, parityVars, reused>> BY DEF UpdateData
  <1>7. RestType' BY <1>0, <1>1, <1>5, <1>6 DEF RestType, parityVars
  <1>8. buffer \in BufferType /\ index \in [Keys -> Places \cup {Nowhere}] BY <1>0, StoreTypes
  <1> HIDE DEF s, p, obj, n
  <1> QED BY <1>4, <1>6, <1>7, <1>8, ChangedStore

(* DELETE keeps it.                                                        *)
LEMMA DeleteStore ==
    ASSUME StoreInv, NEW k \in Keys, DeleteData(k)
    PROVE  StoreInv' /\ Grown
  <1> DEFINE s == index[k].stripe
             obj == [data[s][1] EXCEPT !.key = None, !.val = {}]
             type == IF IsSealed(s) THEN "delete chunk" ELSE "delete"
             n == [type |-> type, key |-> k, op |-> ops + 1]
             again == IF IsSealed(s) THEN buffer.reInserted \cup {s} ELSE buffer.reInserted
  <1>0. TypeOK /\ RestType BY TypeParts DEF StoreInv
  <1>1. ops + 1 \in 1 .. MaxOps /\ ops' = ops + 1 /\ ops' \in 0 .. MaxOps BY <1>0, NextOp DEF DeleteData, RestType
  <1>2. Found(k) BY DEF DeleteData
  <1>3. LET a == index[k].stripe
            c == [data[a][1] EXCEPT !.key = None, !.val = {}]
        IN  /\ a \in Stripes /\ 1 \in DOMAIN data[a] /\ data[a] # <<>>
            /\ c \in Objects /\ c.len = data[a][1].len /\ c.key = None
            /\ data' = [data EXCEPT ![a][1] = c]
    <2>1. data' = [data EXCEPT ![index[k].stripe][1].key = None, ![index[k].stripe][1].val = {}]
      BY DEF DeleteData
    <2> QED BY <1>2, <2>1, DeleteEffect
  <1>4. /\ s \in Stripes /\ 1 \in DOMAIN data[s] /\ data[s] # <<>> /\ obj \in Objects
        /\ obj.len = data[s][1].len /\ obj.key = None /\ data' = [data EXCEPT ![s][1] = obj]
    BY <1>3
  <1>5. n \in Messages
    <2>1. type \in {"delete", "delete chunk"} OBVIOUS
    <2> HIDE DEF type
    <2> QED BY <1>1, <2>1 DEF Messages
  <1>6. /\ msgs' = msgs \cup {n} /\ sealed' = sealed /\ UNCHANGED parityVars
        /\ reused' = reused \cup {k} /\ index' = [index EXCEPT ![k] = Nowhere]
        /\ buffer' = [buffer EXCEPT !.reInserted = again]
    BY DEF DeleteData
  <1>7. RestType' BY <1>0, <1>1, <1>5, <1>6 DEF RestType, parityVars
  <1>8. buffer \in BufferType /\ index \in [Keys -> Places \cup {Nowhere}] BY <1>0, StoreTypes
  <1>9. IsSealed(s) => Closed(s) BY <1>4, StartedIs
  <1>10. index' \in [Keys -> Places \cup {Nowhere}] /\ \A x \in Keys : index'[x] \in {index[x], Nowhere}
    BY <1>6, <1>8
  <1>11. again \in SUBSET Stripes /\ \A t \in again : t \in buffer.reInserted \/ (t = s /\ Closed(s))
    BY <1>4, <1>8, <1>9 DEF BufferType
  <1> HIDE DEF s, obj, n, again
  <1>12. /\ buffer' \in BufferType /\ buffer'.chunks = buffer.chunks /\ buffer'.sizes = buffer.sizes
         /\ buffer'.stripeId = buffer.stripeId /\ buffer'.reInserted = again
    BY <1>6, <1>8, <1>11 DEF BufferType
  <1>13. \A t \in buffer'.reInserted : t \in buffer.reInserted \/ (t = s /\ 1 = 1 /\ obj.key = None /\ Closed(s))
    BY <1>4, <1>11, <1>12
  <1> QED BY <1>4, <1>6, <1>7, <1>10, <1>12, <1>13, ChangedStore

(* Sealing all chunks keeps it.                                            *)
LEMMA SealAllStore ==
    ASSUME StoreInv, SealAll
    PROVE  StoreInv' /\ Grown
  <1>0. TypeOK /\ RestType /\ DataType /\ index \in [Keys -> Places \cup {Nowhere}] /\ sealed \subseteq Stripes
    BY TypeParts DEF StoreInv
  <1>1. /\ Range(buffer.chunks) \subseteq Stripes
        /\ \A t \in Stripes : Closed(t)' <=> Closed(t) \/ t \in Range(buffer.chunks)
        /\ Consistent(buffer, data)' /\ buffer'.reInserted = buffer.reInserted /\ data' = data
    BY SealAllEffect
  <1>2. /\ index' = index /\ sealed' = sealed \cup Range(buffer.chunks) /\ UNCHANGED <<parityVars, ops, reused>>
        /\ msgs' = msgs \cup SealRequests(Range(buffer.chunks), data)
    BY DEF SealAll
  <1>3. \A n \in SealRequests(Range(buffer.chunks), data) : n \in Messages
    <2>1. \A t \in Stripes : data[t] \in Seq(Objects) /\ SizeOf(data[t]) <= Capacity
      BY <1>0 DEF DataType, StoreInv, SizesExact
    <2> QED BY <1>1, <2>1, SealRequestsAre
  <1>4. RestType' BY <1>0, <1>2, <1>3 DEF RestType, parityVars
  <1>5. DataType' BY <1>0, <1>1 DEF DataType
  <1>6. buffer' \in BufferType BY <1>1 DEF Consistent
  <1>7. TypeOK' BY <1>0, <1>1, <1>2, <1>4, <1>5, <1>6, TypeParts
  <1>8. SizesExact' BY <1>1 DEF StoreInv, SizesExact, Consistent
  <1>9. Reopened'
    <2> SUFFICES ASSUME NEW t \in buffer'.reInserted
                 PROVE  Closed(t)' /\ data'[t] # <<>> /\ data'[t][1].key = None
      BY DEF Reopened
    <2>1. t \in buffer.reInserted /\ t \in Stripes BY <1>1, <1>6 DEF BufferType
    <2> QED BY <1>1, <2>1 DEF StoreInv, Reopened
  <1>10. IndexOwned' BY <1>1, <1>2 DEF StoreInv, IndexOwned, Owns
  <1> QED BY <1>1, <1>7, <1>8, <1>9, <1>10 DEF StoreInv, Grown

(* The client's SET request keeps it.                                      *)
LEMMA SetRequestStore ==
    ASSUME StoreInv, NEW k \in Keys, SetRequest(k)
    PROVE  StoreInv' /\ Grown
  <1>0. TypeOK /\ RestType BY TypeParts DEF StoreInv
  <1>1. ops + 1 \in 1 .. MaxOps /\ ops' = ops + 1 /\ ops' \in 0 .. MaxOps BY <1>0, NextOp DEF SetRequest, RestType
  <1>2. [type : {"set"}, to : {"data", "parity"}, key : {k}, op : {ops + 1}] \subseteq Messages
    BY <1>1 DEF Messages
  <1>3. msgs' \subseteq Messages BY <1>0, <1>2 DEF SetRequest, RestType
  <1>4. reused' \subseteq Keys BY <1>0 DEF SetRequest, RestType
  <1>5. UNCHANGED <<dataVars, parityVars>> BY DEF SetRequest
  <1>6. RestType' BY <1>0, <1>1, <1>3, <1>4, <1>5 DEF RestType, parityVars
  <1> QED BY <1>5, <1>6, StoreKept

(* Every step keeps the data server's invariant.                           *)
LEMMA StoreStep ==
    ASSUME StoreInv, [Next]_vars
    PROVE  StoreInv' /\ Grown
  <1>0. TypeOK /\ RestType BY TypeParts DEF StoreInv
  <1>1. ASSUME NEW k \in Keys, SetRequest(k) \/ UpdateData(k) \/ DeleteData(k) PROVE StoreInv' /\ Grown
    BY <1>1, SetRequestStore, UpdateStore, DeleteStore
  <1>2. ASSUME NEW m \in msgs, SetExisting(m) PROVE StoreInv' /\ Grown
    <2>1. RestType' /\ UNCHANGED dataVars BY <1>0, <1>2 DEF SetExisting, RestType, parityVars
    <2> QED BY <2>1, StoreKept
  <1>3. ASSUME NEW m \in msgs, SetData(m) PROVE StoreInv' /\ Grown
    BY <1>3, SetDataPacks, PackedStore
  <1>4. ASSUME NEW m \in msgs, NEW s \in Stripes, SetReInserted(m, s) PROVE StoreInv' /\ Grown
    <2>1. Packed(m, s, {}) BY <1>4, SetReInsertedPacks
    <2> QED BY <2>1, PackedStore
  <1>5. ASSUME SealAll PROVE StoreInv' /\ Grown BY <1>5, SealAllStore
  <1>6. ASSUME NEW m \in msgs, ParityStep(m) PROVE StoreInv' /\ Grown
    <2>1. RestType' /\ UNCHANGED dataVars BY <1>0, <1>6, ParityTypes
    <2> QED BY <2>1, StoreKept
  <1>7. ASSUME UNCHANGED vars PROVE StoreInv' /\ Grown
    <2>1. RestType' /\ UNCHANGED dataVars BY <1>0, <1>7 DEF vars, RestType, parityVars
    <2> QED BY <2>1, StoreKept
  <1> QED BY <1>1, <1>2, <1>3, <1>4, <1>5, <1>6, <1>7 DEF Next

(* The data server's invariant holds initially.                            *)
LEMMA StoreInit == ASSUME Init PROVE StoreInv
  <1>1. /\ buffer = [chunks |-> [i \in Buffers |-> i], sizes |-> [i \in Buffers |-> 0],
                     stripeId |-> Count + 1, reInserted |-> {}]
        /\ data = [s \in Stripes |-> <<>>] /\ index = [k \in Keys |-> Nowhere]
    BY DEF Init
  <1>2. Count \in Nat \ {0} /\ Count <= MaxStripes BY ConstantsAssumption
  <1>3. buffer.chunks = [i \in Buffers |-> i] /\ buffer.sizes = [i \in Buffers |-> 0] /\ buffer.stripeId = Count + 1 /\ buffer.reInserted = {}
    BY <1>1
  <1>4. buffer \in BufferType
    <2>1. [i \in Buffers |-> i] \in [Buffers -> Stripes] BY <1>2, Bounds DEF Buffers, Stripes
    <2>2. [i \in Buffers |-> 0] \in [Buffers -> 0 .. Capacity] BY Bounds
    <2>3. Count + 1 \in 1 .. MaxStripes + 1 BY <1>2, Bounds
    <2> QED BY <1>1, <2>1, <2>2, <2>3 DEF BufferType
  <1>5. DataType BY <1>1 DEF DataType
  <1>6. RestType
    <2>1. 0 \in 0 .. MaxOps BY Bounds
    <2> QED BY <2>1 DEF Init, RestType, Values, Requests
  <1>7. TypeOK BY <1>1, <1>4, <1>5, <1>6, TypeParts DEF Init
  <1>8. \A s \in Stripes : SizeOf(data[s]) = 0 BY <1>1, SizeEmpty
  <1>9. \A i \in Buffers : buffer.chunks[i] = i /\ i \in Stripes /\ buffer.sizes[i] = 0 /\ i < Count + 1
    BY <1>2, <1>3, Bounds DEF Buffers, Stripes
  <1>10. SizesExact BY <1>8, <1>9, Bounds DEF SizesExact
  <1>11. Consistent(buffer, data) BY <1>1, <1>3, <1>4, <1>8, <1>9 DEF Consistent
  <1>12. Reopened /\ IndexOwned BY <1>1, <1>3 DEF Reopened, IndexOwned
  <1> QED BY <1>7, <1>10, <1>11, <1>12 DEF StoreInv

(* The sizes by which an object is placed are those of the chunks, and no  *)
(* chunk is ever overfull: not the flushed ones, and not those that        *)
(* objects are added to again after a DELETE (DataChunkBuffer::set).       *)
THEOREM ChunksSized == Spec => [](TypeOK /\ SizesExact)
  <1>1. Init => StoreInv BY StoreInit
  <1>2. StoreInv /\ [Next]_vars => StoreInv' BY StoreStep
  <1>3. StoreInv => TypeOK /\ SizesExact BY DEF StoreInv
  <1> QED BY <1>1, <1>2, <1>3, PTL DEF Spec
-----------------------------------------------------------------------------
(* Messages, and the places they speak of                                  *)

(* Deltas, seal records and waiting seals speak of the places of their     *)
(* own objects.                                                            *)
DeltasOwned == \A m \in msgs : m.type \in {"update", "chunk"} => Owns(m.key, m.place)
RecordsOwned ==
    \A m \in msgs : m.type = "seal" => \A r \in m.records : Owns(r[1], Place(m.stripe, r[2]))
AwaitedOwned == \A k \in Keys : pending[k].type = "seal" => Owns(k, pending[k].place)

(* Nothing is in the parity chunk beyond the end of the data chunk.        *)
ParityWithin == \A s \in Stripes, p \in Positions : p \notin DOMAIN data[s] => parity[s][p] = {}

(* All that speaks of a place speaks of its owner.                         *)
PlacesOwned == DeltasOwned /\ RecordsOwned /\ AwaitedOwned /\ ParityWithin

(* Writes that were not made are nowhere.                                  *)
OpsBounded ==
    /\ \A m \in msgs : m.type # "seal" => m.op <= ops
    /\ \A k \in Keys : keys[k] \subseteq 1 .. ops

(* Chunks are announced after they have left the buffer.                   *)
SealsClosed == \A m \in msgs : m.type = "seal" => Closed(m.stripe)

(* The kinds of step, with all SETs that store an object as one kind.      *)
LEMMA StepKinds ==
    ASSUME StoreInv, [Next]_vars
    PROVE  \/ \E k \in Keys : SetRequest(k) \/ UpdateData(k) \/ DeleteData(k)
           \/ \E m \in msgs : SetExisting(m) \/ ParityStep(m)
           \/ \E m \in msgs, s \in Stripes, out \in SUBSET Stripes : Packed(m, s, out)
           \/ SealAll
           \/ UNCHANGED vars
  <1>1. ASSUME NEW m \in msgs, SetData(m)
        PROVE  \E s \in Stripes, out \in SUBSET Stripes : Packed(m, s, out)
    BY <1>1, SetDataPacks
  <1>2. ASSUME NEW m \in msgs, NEW s \in Stripes, SetReInserted(m, s)
        PROVE  \E out \in SUBSET Stripes : Packed(m, s, out)
    <2>1. Packed(m, s, {}) BY <1>2, SetReInsertedPacks
    <2> QED BY <2>1
  <1> QED BY <1>1, <1>2 DEF Next

(* Chunks that have left the buffer never come back.                       *)
LEMMA ClosedKept ==
    ASSUME StoreInv, [Next]_vars, NEW t \in Stripes, Closed(t)
    PROVE  Closed(t)'
  <1>1. ASSUME NEW k \in Keys, DeleteData(k) PROVE Closed(t)'
    <2>1. buffer \in BufferType BY StoreTypes DEF StoreInv
    <2>2. buffer'.chunks = buffer.chunks /\ buffer'.stripeId = buffer.stripeId
      BY <1>1, <2>1 DEF DeleteData, BufferType
    <2> QED BY <2>2 DEF Closed, ClosedIn
  <1>2. ASSUME UNCHANGED buffer PROVE Closed(t)' BY <1>2 DEF Closed, ClosedIn
  <1>3. ASSUME NEW m \in msgs, NEW s \in Stripes, NEW out \in SUBSET Stripes, Packed(m, s, out) PROVE Closed(t)'
    BY <1>3 DEF Packed
  <1>4. ASSUME SealAll PROVE Closed(t)' BY <1>4, SealAllEffect
  <1>5. ASSUME NEW k \in Keys, SetRequest(k) \/ UpdateData(k) PROVE UNCHANGED buffer
    BY <1>5 DEF SetRequest, UpdateData, dataVars
  <1>6. ASSUME NEW m \in msgs, SetExisting(m) PROVE UNCHANGED buffer BY <1>6 DEF SetExisting, dataVars
  <1>7. ASSUME NEW m \in msgs, ParityStep(m) PROVE UNCHANGED buffer
    BY <1>7, ParityTypes DEF StoreInv, dataVars
  <1>8. ASSUME UNCHANGED vars PROVE UNCHANGED buffer BY <1>8 DEF vars, dataVars
  <1> QED BY <1>1, <1>2, <1>3, <1>4, <1>5, <1>6, <1>7, <1>8, StepKinds

(* The messages that a step can send.                                      *)
NewSeal(n) ==
    /\ n.type = "seal" /\ n.stripe \in Stripes /\ Closed(n.stripe)'
    /\ n.records = SealRecords(data'[n.stripe])

NewDelta(n) ==
    /\ n.type \in {"update", "chunk"} /\ n.op = ops'
    /\ n.key \in Keys /\ Found(n.key) /\ n.place = index[n.key]

NewKind(n) ==
    \/ n.type \in {"set", "delete", "delete chunk"} /\ n.op = ops'
    \/ NewDelta(n)
    \/ n.type = "chunk" /\ \E m \in msgs : m.type = "update" /\ m.key = n.key /\ m.place = n.place /\ m.op = n.op
    \/ NewSeal(n)

(* A seal request that is sent lists the chunk as it is after the step.    *)
LEMMA SealsNew ==
    ASSUME StoreInv, StoreInv', NEW out \in SUBSET Stripes, \A t \in out : Closed(t)',
           NEW n \in SealRequests(out, data')
    PROVE  NewSeal(n)
  <1>1. \A t \in Stripes : data'[t] \in Seq(Objects) /\ SizeOf(data'[t]) <= Capacity
    BY TypeParts DEF StoreInv, DataType, SizesExact
  <1>2. n.type = "seal" /\ n.stripe \in out /\ n.records = SealRecords(data'[n.stripe])
    BY <1>1, SealRequestsAre
  <1> QED BY <1>2 DEF NewSeal

(* What a message that a step sends can be.                                *)
LEMMA MessagesNew ==
    ASSUME StoreInv, [Next]_vars, NEW n \in msgs', n \notin msgs
    PROVE  NewKind(n)
  <1>0. StoreInv' BY StoreStep
  <1>1. ASSUME NEW k \in Keys, SetRequest(k) PROVE NewKind(n)
    <2>1. n \in [type : {"set"}, to : {"data", "parity"}, key : {k}, op : {ops + 1}] /\ ops' = ops + 1
      BY <1>1 DEF SetRequest
    <2> QED BY <2>1 DEF NewKind
  <1>2. ASSUME NEW k \in Keys, UpdateData(k) PROVE NewKind(n)
    <2>1. /\ n = [type |-> IF IsSealed(index[k].stripe) THEN "chunk" ELSE "update",
                  key |-> k, place |-> index[k], op |-> ops + 1]
          /\ ops' = ops + 1 /\ Found(k)
      BY <1>2 DEF UpdateData
    <2>2. n.type \in {"update", "chunk"} /\ n.key = k /\ n.place = index[k] /\ n.op = ops' BY <2>1
    <2> QED BY <2>1, <2>2 DEF NewKind, NewDelta
  <1>3. ASSUME NEW k \in Keys, DeleteData(k) PROVE NewKind(n)
    <2>1. /\ n = [type |-> IF IsSealed(index[k].stripe) THEN "delete chunk" ELSE "delete",
                  key |-> k, op |-> ops + 1]
          /\ ops' = ops + 1
      BY <1>3 DEF DeleteData
    <2>2. n.type \in {"delete", "delete chunk"} /\ n.op = ops' BY <2>1
    <2> QED BY <2>2 DEF NewKind
  <1>4. ASSUME NEW m \in msgs, SetExisting(m) PROVE NewKind(n) BY <1>4 DEF SetExisting
  <1>5. ASSUME NEW m \in msgs, NEW s \in Stripes, NEW out \in SUBSET Stripes, Packed(m, s, out) PROVE NewKind(n)
    <2>1. n \in SealRequests(out, data') /\ \A t \in out : Closed(t)' BY <1>5 DEF Packed
    <2> QED BY <1>0, <2>1, SealsNew DEF NewKind
  <1>6. ASSUME SealAll PROVE NewKind(n)
    <2>1. /\ Range(buffer.chunks) \in SUBSET Stripes
          /\ \A t \in Range(buffer.chunks) : Closed(t)'
          /\ data' = data
      BY <1>6, SealAllEffect
    <2>2. n \in SealRequests(Range(buffer.chunks), data') BY <1>6, <2>1 DEF SealAll
    <2> QED BY <1>0, <2>1, <2>2, SealsNew DEF NewKind
  <1>7. ASSUME NEW m \in msgs, ParityStep(m) PROVE NewKind(n)
    <2>1. n = [m EXCEPT !.type = "chunk"] /\ m.type = "update"
      BY <1>7 DEF ParityStep, SetParity, SealChunk, UpdateKeyValue, UpdateChunk, DeleteParity, DeleteChunk
    <2>2. m \in [type : {"update", "chunk"}, key : Keys, place : Places, op : 1 .. MaxOps]
      BY <2>1, StoreTypes DEF StoreInv, Messages
    <2>3. n.type = "chunk" /\ n.key = m.key /\ n.place = m.place /\ n.op = m.op BY <2>1, <2>2
    <2> QED BY <2>1, <2>3 DEF NewKind
  <1>8. ASSUME UNCHANGED vars PROVE NewKind(n) BY <1>8 DEF vars
  <1> QED BY <1>1, <1>2, <1>3, <1>4, <1>5, <1>6, <1>7, <1>8, StepKinds

(* Writes are numbered in order.                                           *)
LEMMA OpsGrow ==
    ASSUME StoreInv, [Next]_vars
    PROVE  ops \in Nat /\ ops' \in Nat /\ ops <= ops' /\ 1 .. ops \subseteq 1 .. ops'
  <1>1. ops \in Nat BY Bounds DEF StoreInv, TypeOK
  <1>2. ops' = ops \/ ops' = ops + 1
    <2>1. ASSUME NEW m \in msgs, ParityStep(m) PROVE ops' = ops BY <2>1, ParityTypes DEF StoreInv
    <2> QED BY <2>1, StepKinds
        DEF SetRequest, UpdateData, DeleteData, SetExisting, Packed, SealAll, vars
  <1> QED BY <1>1, <1>2

(* What a seal lists is in its place.                                      *)
LEMMA NewSealOwned ==
    ASSUME StoreInv', NEW n, NewSeal(n), NEW r \in n.records
    PROVE  /\ r \in Keys \X Positions /\ r[2] \in DOMAIN data'[n.stripe]
           /\ data'[n.stripe][r[2]].key = r[1]
  <1>1. data'[n.stripe] \in Seq(Objects) /\ SizeOf(data'[n.stripe]) <= Capacity
    BY TypeParts DEF NewSeal, StoreInv, DataType, SizesExact
  <1> QED BY <1>1, SealRecordsAre DEF NewSeal

(* What the steps of the parity server do to one key.                      *)
LEMMA KeysEffect ==
    ASSUME StoreInv, NEW m \in msgs, ParityStep(m), NEW k \in Keys
    PROVE  \/ keys'[k] = keys[k] \/ keys'[k] = {}
           \/ m.type # "seal" /\ m.key = k /\ keys'[k] \in {{m.op}, SymDiff(keys[k], {m.op})}
  <1>0. keys \in [Keys -> Values] /\ m \in Messages BY StoreTypes, TypeParts DEF StoreInv, RestType
  <1>1. CASE SetParity(m) BY <1>0, <1>1 DEF SetParity, Awaited
  <1>2. CASE SealChunk(m) BY <1>0, <1>2 DEF SealChunk
  <1>3. CASE UpdateKeyValue(m) BY <1>0, <1>3 DEF UpdateKeyValue
  <1>4. CASE UpdateChunk(m) BY <1>0, <1>4 DEF UpdateChunk
  <1>5. CASE DeleteParity(m) BY <1>0, <1>5 DEF DeleteParity
  <1>6. CASE DeleteChunk(m) BY <1>0, <1>6 DEF DeleteChunk
  <1> QED BY <1>1, <1>2, <1>3, <1>4, <1>5, <1>6 DEF ParityStep

(* A seal waits for a key when the key's object has not arrived and        *)
(* nothing else waits.                                                     *)
LEMMA PendingEffect ==
    ASSUME StoreInv, NEW m \in msgs, ParityStep(m), NEW k \in Keys,
           pending'[k].type = "seal", pending'[k] # pending[k]
    PROVE  /\ m.type = "seal" /\ pending[k] = NoRequest /\ keys[k] = {}
           /\ \E p \in Positions : <<k, p>> \in m.records /\ pending'[k].place = Place(m.stripe, p)
  <1>0. pending \in [Keys -> Requests] /\ m \in Messages BY StoreTypes, TypeParts DEF StoreInv, RestType
  <1>1. CASE SetParity(m) BY <1>0, <1>1 DEF SetParity, Awaited, NoRequest
  <1>2. CASE SealChunk(m)
    <2>1. m.type = "seal" /\ pending' = Deferred(m.records, m.stripe) BY <1>2 DEF SealChunk
    <2> DEFINE p == CHOOSE q \in Positions : <<k, q>> \in m.records
    <2>2. /\ pending[k] = NoRequest /\ keys[k] = {} /\ \E q \in Positions : <<k, q>> \in m.records
          /\ pending'[k] = [type |-> "seal", place |-> [stripe |-> m.stripe, pos |-> p]]
      BY <2>1 DEF Deferred
    <2>3. p \in Positions /\ <<k, p>> \in m.records BY <2>2
    <2> HIDE DEF p
    <2> QED BY <2>1, <2>2, <2>3 DEF Place
  <1>3. CASE UpdateKeyValue(m) BY <1>0, <1>3 DEF UpdateKeyValue, Defer
  <1>4. CASE UpdateChunk(m) BY <1>0, <1>4 DEF UpdateChunk
  <1>5. CASE DeleteParity(m) BY <1>0, <1>5 DEF DeleteParity, Defer
  <1>6. CASE DeleteChunk(m) BY <1>0, <1>6 DEF DeleteChunk
  <1> QED BY <1>1, <1>2, <1>3, <1>4, <1>5, <1>6 DEF ParityStep

(* m is about the object at position p of the chunk of s.                  *)
Touches(m, s, p) ==
    \/ m.type = "set" /\ pending[m.key].type = "seal" /\ pending[m.key].place = Place(s, p)
    \/ m.type = "chunk" /\ m.place = Place(s, p)
    \/ m.type = "seal" /\ m.stripe = s /\ \E r \in m.records : r[2] = p

(* A delta is applied to one place of one parity chunk.                    *)
LEMMA AppliedIs ==
    ASSUME RestType, NEW place \in Places, NEW val, NEW s \in Stripes, NEW p \in Positions
    PROVE  /\ place # Place(s, p) => Applied(place, val)[s][p] = parity[s][p]
           /\ place = Place(s, p) => Applied(place, val)[s][p] = SymDiff(parity[s][p], val)
  <1>1. place.stripe \in Stripes /\ place.pos \in Positions /\ place = Place(place.stripe, place.pos)
    BY DEF Places, Place
  <1>2. parity \in [Stripes -> [Positions -> Values]] BY DEF RestType
  <1>3. parity[place.stripe] \in [Positions -> Values] BY <1>1, <1>2
  <1> DEFINE row == [parity[place.stripe] EXCEPT ![place.pos] = SymDiff(@, val)]
  <1>4. Applied(place, val) = [parity EXCEPT ![place.stripe] = row] BY DEF Applied
  <1>5. /\ row[place.pos] = SymDiff(parity[place.stripe][place.pos], val)
        /\ \A q \in Positions : q # place.pos => row[q] = parity[place.stripe][q]
    BY <1>1, <1>3
  <1> HIDE DEF row
  <1>6. Applied(place, val)[s] = IF s = place.stripe THEN row ELSE parity[s] BY <1>1, <1>2, <1>4
  <1>7. CASE place = Place(s, p)
    <2>1. place.stripe = s /\ place.pos = p BY <1>7 DEF Place
    <2> QED BY <1>5, <1>6, <1>7, <2>1
  <1>8. CASE place # Place(s, p)
    <2>1. place.stripe # s \/ place.pos # p BY <1>1, <1>8
    <2> QED BY <1>5, <1>6, <1>8, <2>1
  <1> QED BY <1>7, <1>8

(* A place that a message does not touch stays as it is in the parity      *)
(* chunk.                                                                  *)
LEMMA ParityEffect ==
    ASSUME StoreInv, NEW m \in msgs, ParityStep(m), NEW s \in Stripes, NEW p \in Positions, ~Touches(m, s, p)
    PROVE  parity'[s][p] = parity[s][p]
  <1>0. RestType /\ m \in Messages BY StoreTypes, TypeParts DEF StoreInv
  <1>1. parity \in [Stripes -> [Positions -> Values]] /\ pending \in [Keys -> Requests] BY <1>0 DEF RestType
  <1>2. CASE SetParity(m)
    <2>1. m.key \in Keys /\ m.type = "set" BY <1>0, <1>2, MessageKinds DEF SetParity
    <2>2. \/ parity' = parity
          \/ pending[m.key].type = "seal" /\ parity' = Applied(pending[m.key].place, {m.op})
      BY <1>2 DEF SetParity, Awaited
    <2>3. pending[m.key].type = "seal" => pending[m.key].place \in Places
      <3>1. pending[m.key] \in Requests BY <1>1, <2>1
      <3> QED BY <3>1 DEF Requests, NoRequest
    <2>4. pending[m.key].type = "seal" => pending[m.key].place # Place(s, p) BY <2>1 DEF Touches
    <2> QED BY <1>0, <2>2, <2>3, <2>4, AppliedIs
  <1>3. CASE SealChunk(m)
    <2>1. m.type = "seal" /\ m.stripe \in Stripes BY <1>0, <1>3, MessageKinds DEF SealChunk
    <2>2. parity' = [parity EXCEPT ![m.stripe] = [q \in Positions |->
                SymDiff(@[q], UNION {keys[r[1]] : r \in {x \in m.records : x[2] = q}})]]
      BY <1>3 DEF SealChunk
    <2>3. CASE s # m.stripe BY <1>1, <2>2, <2>3
    <2>4. CASE s = m.stripe
      <3>1. {x \in m.records : x[2] = p} = {} BY <2>1, <2>4 DEF Touches
      <3>2. parity'[s][p] = SymDiff(parity[s][p], UNION {keys[r[1]] : r \in {x \in m.records : x[2] = p}})
        BY <1>1, <2>1, <2>2, <2>4
      <3>3. UNION {keys[r[1]] : r \in {x \in m.records : x[2] = p}} = {} BY <3>1
      <3>4. \A v : SymDiff(v, {}) = v BY DEF SymDiff
      <3> QED BY <3>2, <3>3, <3>4
    <2> QED BY <2>3, <2>4
  <1>4. CASE UpdateKeyValue(m) BY <1>4 DEF UpdateKeyValue
  <1>5. CASE UpdateChunk(m)
    <2>1. m.type = "chunk" /\ m.place \in Places BY <1>0, <1>5, MessageKinds DEF UpdateChunk
    <2>2. m.place # Place(s, p) BY <2>1 DEF Touches
    <2>3. parity' = Applied(m.place, {m.op}) BY <1>5 DEF UpdateChunk
    <2> QED BY <1>0, <2>1, <2>2, <2>3, AppliedIs
  <1>6. CASE DeleteParity(m) BY <1>6 DEF DeleteParity
  <1>7. CASE DeleteChunk(m) BY <1>7 DEF DeleteChunk
  <1> QED BY <1>2, <1>3, <1>4, <1>5, <1>6, <1>7 DEF ParityStep

(* What is touched is in the data chunk, and is its own object.            *)
LEMMA TouchesOwned ==
    ASSUME StoreInv, PlacesOwned, NEW m \in msgs, NEW s \in Stripes, NEW p \in Positions, Touches(m, s, p)
    PROVE  /\ p \in DOMAIN data[s]
           /\ \/ m.type \in {"set", "chunk"} /\ data[s][p].key \in {m.key, None}
              \/ m.type = "seal" /\ \E r \in m.records : r[2] = p /\ data[s][p].key \in {r[1], None}
  <1>0. m \in Messages BY StoreTypes DEF StoreInv
  <1>1. Place(s, p).stripe = s /\ Place(s, p).pos = p BY DEF Place
  <1>2. CASE m.type = "set" /\ pending[m.key].type = "seal" /\ pending[m.key].place = Place(s, p)
    <2>1. m.key \in Keys BY <1>0, <1>2, MessageKinds
    <2>2. Owns(m.key, Place(s, p)) BY <1>2, <2>1 DEF PlacesOwned, AwaitedOwned
    <2> QED BY <1>1, <1>2, <2>2 DEF Owns
  <1>3. CASE m.type = "chunk" /\ m.place = Place(s, p)
    <2>1. Owns(m.key, Place(s, p)) BY <1>3 DEF PlacesOwned, DeltasOwned
    <2> QED BY <1>1, <1>3, <2>1 DEF Owns
  <1>4. CASE m.type = "seal" /\ m.stripe = s /\ \E r \in m.records : r[2] = p
    <2>1. PICK r \in m.records : r[2] = p BY <1>4
    <2>2. Owns(r[1], Place(s, p)) BY <1>4, <2>1 DEF PlacesOwned, RecordsOwned
    <2> QED BY <1>1, <1>4, <2>1, <2>2 DEF Owns
  <1> QED BY <1>2, <1>3, <1>4 DEF Touches

(* Messages keep speaking of places of their own objects.                  *)
LEMMA PlacesStep ==
    ASSUME StoreInv, PlacesOwned, [Next]_vars
    PROVE  PlacesOwned'
  <1>0. StoreInv' /\ Grown BY StoreStep
  <1>a. ASSUME NEW x, NEW place \in Places, Owns(x, place)
        PROVE  place.pos \in DOMAIN data'[place.stripe] /\ data'[place.stripe][place.pos].key \in {x, None}
    <2>1. place.stripe \in Stripes BY DEF Places
    <2> QED BY <1>0, <1>a, <2>1 DEF Grown, Owns
  <1>b. \A m \in msgs : m \in Messages BY StoreTypes DEF StoreInv
  <1>1. DeltasOwned'
    <2> SUFFICES ASSUME NEW n \in msgs', n.type \in {"update", "chunk"}
                 PROVE  n.place.pos \in DOMAIN data'[n.place.stripe] /\ data'[n.place.stripe][n.place.pos].key \in {n.key, None}
      BY DEF DeltasOwned, Owns
    <2>1. CASE n \in msgs
      <3>1. Owns(n.key, n.place) BY <2>1 DEF PlacesOwned, DeltasOwned
      <3>2. n.place \in Places BY <1>b, <2>1, MessageKinds
      <3> QED BY <1>a, <3>1, <3>2
    <2>2. CASE n \notin msgs
      <3>1. NewKind(n) BY <2>2, MessagesNew
      <3>2. CASE NewDelta(n)
        <4>1. index[n.key] # Nowhere /\ n.key \in Keys /\ n.place = index[n.key] BY <3>2 DEF NewDelta, Found
        <4>2. Owns(n.key, n.place) /\ n.place \in Places
          BY <4>1, StoreTypes DEF StoreInv, IndexOwned
        <4> QED BY <1>a, <4>2
      <3>3. CASE \E m \in msgs : m.type = "update" /\ m.key = n.key /\ m.place = n.place /\ m.op = n.op
        <4>1. PICK m \in msgs : m.type = "update" /\ m.key = n.key /\ m.place = n.place BY <3>3
        <4>2. Owns(n.key, n.place) BY <4>1 DEF PlacesOwned, DeltasOwned
        <4>3. n.place \in Places BY <1>b, <4>1, MessageKinds
        <4> QED BY <1>a, <4>2, <4>3
      <3> QED BY <3>1, <3>2, <3>3 DEF NewKind, NewSeal
    <2> QED BY <2>1, <2>2
  <1>2. RecordsOwned'
    <2> SUFFICES ASSUME NEW n \in msgs', n.type = "seal", NEW r \in n.records
                 PROVE  r[2] \in DOMAIN data'[n.stripe] /\ data'[n.stripe][r[2]].key \in {r[1], None}
      BY DEF RecordsOwned, Owns, Place
    <2>1. CASE n \in msgs
      <3>1. Owns(r[1], Place(n.stripe, r[2])) BY <2>1 DEF PlacesOwned, RecordsOwned
      <3>2. n.stripe \in Stripes /\ r[2] \in Positions BY <1>b, <2>1, MessageKinds
      <3>3. Place(n.stripe, r[2]) \in Places BY <3>2 DEF Place, Places
      <3>4. Place(n.stripe, r[2]).stripe = n.stripe /\ Place(n.stripe, r[2]).pos = r[2] BY DEF Place
      <3> QED BY <1>a, <3>1, <3>3, <3>4
    <2>2. CASE n \notin msgs
      <3>1. NewSeal(n) BY <2>2, MessagesNew DEF NewKind, NewDelta
      <3> QED BY <1>0, <3>1, NewSealOwned
    <2> QED BY <2>1, <2>2
  <1>3. AwaitedOwned'
    <2> SUFFICES ASSUME NEW k \in Keys, pending'[k].type = "seal"
                 PROVE  LET place == pending'[k].place
                        IN  place.pos \in DOMAIN data'[place.stripe] /\ data'[place.stripe][place.pos].key \in {k, None}
      BY DEF AwaitedOwned, Owns
    <2>1. CASE pending'[k] = pending[k]
      <3>1. Owns(k, pending[k].place) BY <2>1 DEF PlacesOwned, AwaitedOwned
      <3>2. pending[k] \in Requests BY TypeParts DEF StoreInv, RestType
      <3>3. pending[k].place \in Places BY <2>1, <3>2 DEF Requests, NoRequest
      <3> QED BY <1>a, <2>1, <3>1, <3>3
    <2>2. CASE pending'[k] # pending[k]
      <3>1. PICK m \in msgs : ParityStep(m)
        BY <2>2, StepKinds DEF SetRequest, UpdateData, DeleteData, SetExisting, Packed, SealAll, vars, parityVars
      <3>2. PICK p \in Positions : m.type = "seal" /\ <<k, p>> \in m.records /\ pending'[k].place = Place(m.stripe, p)
        BY <2>2, <3>1, PendingEffect
      <3>3. m.stripe \in Stripes BY <1>b, <3>2, MessageKinds
      <3>4. Owns(k, Place(m.stripe, p)) BY <3>2 DEF PlacesOwned, RecordsOwned
      <3>5. Place(m.stripe, p) \in Places BY <3>3 DEF Place, Places
      <3> QED BY <1>a, <3>2, <3>4, <3>5
    <2> QED BY <2>1, <2>2
  <1>4. ParityWithin'
    <2> SUFFICES ASSUME NEW s \in Stripes, NEW p \in Positions, p \notin DOMAIN data'[s]
                 PROVE  parity'[s][p] = {}
      BY DEF ParityWithin
    <2>1. p \notin DOMAIN data[s] BY <1>0 DEF Grown
    <2>2. parity[s][p] = {} BY <2>1 DEF PlacesOwned, ParityWithin
    <2>3. CASE parity' = parity BY <2>2, <2>3
    <2>4. CASE parity' # parity
      <3>1. PICK m \in msgs : ParityStep(m)
        BY <2>4, StepKinds DEF SetRequest, UpdateData, DeleteData, SetExisting, Packed, SealAll, vars, parityVars
      <3>2. ~Touches(m, s, p) BY <2>1, TouchesOwned
      <3> QED BY <2>2, <3>1, <3>2, ParityEffect
    <2> QED BY <2>3, <2>4
  <1> QED BY <1>1, <1>2, <1>3, <1>4 DEF PlacesOwned

(* Only writes that were made are in messages, in keys and in chunks.      *)
LEMMA OpsStep ==
    ASSUME StoreInv, OpsBounded, [Next]_vars
    PROVE  OpsBounded'
  <1>0. ops \in Nat /\ ops' \in Nat /\ ops <= ops' /\ 1 .. ops \subseteq 1 .. ops' BY OpsGrow
  <1>1. ASSUME NEW n \in msgs, n.type # "seal" PROVE n.op <= ops' /\ n.op \in 1 .. ops
    <2>1. n.op <= ops BY <1>1 DEF OpsBounded
    <2>2. n.op \in 1 .. MaxOps BY <1>1, MessageKinds, StoreTypes DEF StoreInv
    <2> QED BY <1>0, <2>1, <2>2, Bounds
  <1>2. ASSUME NEW n \in msgs', n.type # "seal" PROVE n.op <= ops'
    <2>1. CASE n \in msgs BY <1>1, <1>2, <2>1
    <2>2. CASE n \notin msgs
      <3>1. NewKind(n) BY <2>2, MessagesNew
      <3>2. n.op = ops' \/ \E m \in msgs : m.type = "update" /\ m.op = n.op
        BY <1>2, <3>1 DEF NewKind, NewDelta, NewSeal
      <3> QED BY <1>0, <1>1, <3>2
    <2> QED BY <2>1, <2>2
  <1>3. ASSUME NEW k \in Keys PROVE keys'[k] \subseteq 1 .. ops'
    <2>1. keys[k] \subseteq 1 .. ops BY DEF OpsBounded
    <2>2. CASE keys'[k] = keys[k] BY <1>0, <2>1, <2>2
    <2>3. CASE keys'[k] # keys[k]
      <3>1. PICK m \in msgs : ParityStep(m)
        BY <2>3, StepKinds DEF SetRequest, UpdateData, DeleteData, SetExisting, Packed, SealAll, vars, parityVars
      <3>2. \/ keys'[k] = {}
            \/ m.type # "seal" /\ keys'[k] \in {{m.op}, SymDiff(keys[k], {m.op})}
        BY <2>3, <3>1, KeysEffect
      <3>3. m.type # "seal" => m.op \in 1 .. ops BY <1>1
      <3>4. keys'[k] \subseteq 1 .. ops BY <2>1, <3>2, <3>3 DEF SymDiff
      <3> QED BY <1>0, <3>4
    <2> QED BY <2>2, <2>3
  <1> QED BY <1>2, <1>3 DEF OpsBounded

(* Seal requests are for chunks that have left the buffer.                 *)
LEMMA SealsStep ==
    ASSUME StoreInv, SealsClosed, [Next]_vars
    PROVE  SealsClosed'
  <1> SUFFICES ASSUME NEW n \in msgs', n.type = "seal" PROVE Closed(n.stripe)' BY DEF SealsClosed
  <1>1. CASE n \in msgs
    <2>1. n.stripe \in Stripes BY <1>1, MessageKinds, StoreTypes DEF StoreInv
    <2> QED BY <1>1, <2>1, ClosedKept DEF SealsClosed
  <1>2. CASE n \notin msgs BY <1>2, MessagesNew DEF NewKind, NewDelta, NewSeal
  <1> QED BY <1>1, <1>2
-----------------------------------------------------------------------------
(* One key that is set once                                                *)

(* m is the SET on its way to that server.                                 *)
SetTo(m, to) == m.type = "set" /\ m.to = to

(* Messages whose write the parity server does not have yet.               *)
Counted(k) == {n \in About(k) : n.type \in {"update", "chunk"} \/ SetTo(n, "parity")}

(* The part of the parity chunk that belongs to k.                         *)
Cell(k) == parity[index[k].stripe][index[k].pos]

(* The two messages of the SET, and what else there is before and after    *)
(* each of them arrives.                                                   *)
Once(k) ==
    /\ \A m \in About(k) : m.type \in {"set", "update", "chunk"}
    /\ \A m, n \in About(k) : m.type = "set" /\ n.type = "set" /\ m.to = n.to => m = n
    /\ pending[k].type # "delete"
    /\ \A m \in About(k) : SetTo(m, "data") =>
            index[k] = Nowhere /\ SymDiff(keys[k], InFlight(k)) = {m.op}
    /\ index[k] = Nowhere =>
            /\ pending[k] = NoRequest
            /\ \A m \in About(k) : m.type = "set"
            /\ keys[k] # {} \/ About(k) # {} => \E m \in About(k) : SetTo(m, "data")
    /\ \A m \in About(k) : SetTo(m, "parity") =>
            /\ keys[k] = {}
            /\ pending[k].type \in {"none", "seal"}
            /\ \A n \in About(k) : n.type = "set"

(* Everything that speaks of a place of k speaks of the same place.        *)
Single(k) ==
    /\ \A s \in Stripes : \A p \in DOMAIN data[s] : data[s][p].key = k => index[k] = Place(s, p)
    /\ \A m \in About(k) : m.type \in {"update", "chunk"} => m.place = index[k]
    /\ \A m \in msgs : m.type = "seal" =>
            \A p \in Positions : <<k, p>> \in m.records => index[k] = Place(m.stripe, p)
    /\ pending[k].type = "seal" => pending[k].place = index[k]

(* Each write under way is in one message, and not in keys yet.            *)
Fresh(k) ==
    /\ \A m, n \in Counted(k) : m.op = n.op => m = n
    /\ \A m \in Counted(k) : m.op \notin keys[k]

(* What the parity server has and what is under way is the value of the    *)
(* object.                                                                 *)
Conserved(k) ==
    Found(k) => ValueOf(k) = SymDiff(SymDiff(Cell(k), keys[k]), InFlight(k))

(* Before its chunk is sealed the object is in keys, or on its way there.  *)
InKeys(k) ==
    /\ pending[k].type # "seal"
    /\ \A m \in About(k) : m.type # "chunk"
    /\ Cell(k) = {}
    /\ keys[k] # {} \/ \E m \in About(k) : SetTo(m, "parity")

(* After that a seal that lists it is on its way, or was handled.          *)
Announced(k) ==
    \E m \in msgs : m.type = "seal" /\ m.stripe = index[k].stripe /\ <<k, index[k].pos>> \in m.records

Moved(k) ==
    /\ index[k].stripe \in indicator /\ keys[k] = {}
    /\ \A m \in About(k) : SetTo(m, "parity") => pending[k].type = "seal"

(* Where the parity server has the object, or will have it.                *)
Where(k) ==
    Found(k) =>
        /\ ~Closed(index[k].stripe) => InKeys(k)
        /\ Closed(index[k].stripe) /\ HoleFree(index[k].stripe) => Announced(k) \/ Moved(k)

(* What holds of a key that is set once.                                   *)
KeyInv(k) == Once(k) /\ Single(k) /\ Fresh(k) /\ Conserved(k) /\ Where(k)

(* Nothing happens to k.                                                   *)
Aside(k) ==
    /\ About(k)' = About(k) /\ keys'[k] = keys[k] /\ pending'[k] = pending[k]
    /\ index'[k] = index[k]
    /\ Found(k)' => Found(k) /\ ValueOf(k)' = ValueOf(k) /\ Cell(k)' = Cell(k)

(* The seal request m lists k.                                             *)
Lists(m, k) == \E p \in Positions : <<k, p>> \in m.records

(* The steps, as k sees them.                                              *)
KeyStep(k) ==
    \/ Aside(k)
    \/ SetRequest(k)
    \/ UpdateData(k)
    \/ \E m \in About(k) :
            \/ \E s \in Stripes, out \in SUBSET Stripes : Packed(m, s, out)
            \/ SetParity(m) \/ UpdateKeyValue(m) \/ UpdateChunk(m)
    \/ \E m \in msgs : SealChunk(m) /\ Lists(m, k)

(* The messages about a key when one is handled.                           *)
LEMMA AboutRemoved ==
    ASSUME NEW m, NEW S, msgs' = (msgs \ {m}) \cup S, \A n \in S : n.type = "seal", NEW k
    PROVE  About(k)' = About(k) \ {m}
  BY DEF About

(* The messages about a key when those about one key are sent.             *)
LEMMA AboutAdded ==
    ASSUME NEW S, NEW x, msgs' = msgs \cup S, \A n \in S : n.type # "seal" /\ n.key = x, NEW k
    PROVE  About(k)' = IF k = x THEN About(k) \cup S ELSE About(k)
  BY DEF About

(* The value of a key when the data server does nothing.                   *)
LEMMA DataSame ==
    ASSUME UNCHANGED <<data, index>>, NEW k
    PROVE  (Found(k)' <=> Found(k)) /\ ValueOf(k)' = ValueOf(k)
  BY DEF Found, ValueOf

(* An object other than k's is written or wiped.                           *)
LEMMA ChangeAside ==
    ASSUME StoreInv, NEW k \in Keys, NEW s \in Stripes, NEW p \in DOMAIN data[s], NEW obj \in Objects,
           obj.len = data[s][p].len, obj.key # k, data' = [data EXCEPT ![s][p] = obj],
           index'[k] = index[k], Found(k)'
    PROVE  Found(k) /\ ValueOf(k)' = ValueOf(k)
  <1>1. index[k] # Nowhere /\ data'[index[k].stripe][index[k].pos].key = k BY DEF Found
  <1>2. index[k].stripe \in Stripes /\ index[k].pos \in DOMAIN data[index[k].stripe]
    BY <1>1, StoreTypes DEF StoreInv, IndexOwned, Owns
  <1>3. /\ DataType'
        /\ \A t \in Stripes : /\ SizeOf(data'[t]) = SizeOf(data[t])
                              /\ DOMAIN data'[t] = DOMAIN data[t]
                              /\ data'[t] = <<>> <=> data[t] = <<>>
        /\ data'[s][p] = obj
        /\ \A t \in Stripes : \A q \in DOMAIN data[t] : <<t, q>> # <<s, p>> => data'[t][q] = data[t][q]
    BY ChangeEffect
  <1>4. <<index[k].stripe, index[k].pos>> # <<s, p>> BY <1>1, <1>3
  <1>5. data'[index[k].stripe][index[k].pos] = data[index[k].stripe][index[k].pos] BY <1>2, <1>3, <1>4
  <1> QED BY <1>1, <1>5 DEF Found, ValueOf

(* An UPDATE of another key does not touch k.                              *)
LEMMA UpdateAside ==
    ASSUME StoreInv, NEW x \in Keys, UpdateData(x), NEW k \in Keys, k # x
    PROVE  Aside(k)
  <1> DEFINE n == [type |-> IF IsSealed(index[x].stripe) THEN "chunk" ELSE "update",
                   key |-> x, place |-> index[x], op |-> ops + 1]
             s == index[x].stripe
             p == index[x].pos
             obj == [data[s][p] EXCEPT !.val = SymDiff(data[s][p].val, {ops + 1})]
  <1>1. msgs' = msgs \cup {n} /\ index' = index /\ keys' = keys /\ pending' = pending /\ parity' = parity
    BY DEF UpdateData, parityVars
  <1>2. n.type # "seal" /\ n.key = x OBVIOUS
  <1>3. About(k)' = About(k)
    <2> DEFINE S == {n}
    <2>1. msgs' = msgs \cup S /\ \A l \in S : l.type # "seal" /\ l.key = x BY <1>1, <1>2
    <2> HIDE DEF S
    <2> QED BY <2>1, AboutAdded
  <1>4. ops + 1 \in 1 .. MaxOps BY TypeParts, NextOp DEF UpdateData, RestType, StoreInv
  <1>5. Found(x) BY DEF UpdateData
  <1>6. LET a == index[x].stripe
            b == index[x].pos
            c == [data[a][b] EXCEPT !.val = SymDiff(data[a][b].val, {ops + 1})]
        IN  /\ a \in Stripes /\ b \in DOMAIN data[a]
            /\ c \in Objects /\ c.len = data[a][b].len /\ c.key = data[a][b].key
            /\ c.val = SymDiff(data[a][b].val, {ops + 1})
            /\ data' = [data EXCEPT ![a][b] = c]
    <2>1. data' = [data EXCEPT ![index[x].stripe][index[x].pos].val = SymDiff(@, {ops + 1})]
      BY DEF UpdateData
    <2> QED BY <1>4, <1>5, <2>1, UpdateEffect
  <1>7. /\ s \in Stripes /\ p \in DOMAIN data[s] /\ obj \in Objects /\ obj.len = data[s][p].len
        /\ obj.key = data[s][p].key /\ data' = [data EXCEPT ![s][p] = obj]
    BY <1>6
  <1>8. obj.key # k BY <1>5, <1>7 DEF Found
  <1>9. Found(k)' => Found(k) /\ ValueOf(k)' = ValueOf(k)
    <2> HIDE DEF s, p, obj
    <2> QED BY <1>1, <1>7, <1>8, ChangeAside
  <1>10. Cell(k)' = Cell(k) BY <1>1 DEF Cell
  <1> QED BY <1>1, <1>3, <1>9, <1>10 DEF Aside

(* A DELETE of another key does not touch k.                               *)
LEMMA DeleteAside ==
    ASSUME StoreInv, NEW x \in Keys, DeleteData(x), NEW k \in Keys, k # x
    PROVE  Aside(k)
  <1> DEFINE n == [type |-> IF IsSealed(index[x].stripe) THEN "delete chunk" ELSE "delete",
                   key |-> x, op |-> ops + 1]
             s == index[x].stripe
             obj == [data[s][1] EXCEPT !.key = None, !.val = {}]
  <1>1. msgs' = msgs \cup {n} /\ index' = [index EXCEPT ![x] = Nowhere] /\ UNCHANGED parityVars
    BY DEF DeleteData
  <1>2. n.type # "seal" /\ n.key = x OBVIOUS
  <1>3. About(k)' = About(k)
    <2> DEFINE S == {n}
    <2>1. msgs' = msgs \cup S /\ \A l \in S : l.type # "seal" /\ l.key = x BY <1>1, <1>2
    <2> HIDE DEF S
    <2> QED BY <2>1, AboutAdded
  <1>4. index'[k] = index[k] BY <1>1, StoreTypes DEF StoreInv
  <1>5. Found(x) BY DEF DeleteData
  <1>6. LET a == index[x].stripe
            c == [data[a][1] EXCEPT !.key = None, !.val = {}]
        IN  /\ a \in Stripes /\ 1 \in DOMAIN data[a] /\ data[a] # <<>>
            /\ c \in Objects /\ c.len = data[a][1].len /\ c.key = None
            /\ data' = [data EXCEPT ![a][1] = c]
    <2>1. data' = [data EXCEPT ![index[x].stripe][1].key = None, ![index[x].stripe][1].val = {}]
      BY DEF DeleteData
    <2> QED BY <1>5, <2>1, DeleteEffect
  <1>7. /\ s \in Stripes /\ 1 \in DOMAIN data[s] /\ obj \in Objects
        /\ obj.len = data[s][1].len /\ obj.key = None /\ data' = [data EXCEPT ![s][1] = obj]
    BY <1>6
  <1>8. obj.key # k BY <1>7, ConstantsAssumption
  <1>9. Found(k)' => Found(k) /\ ValueOf(k)' = ValueOf(k)
    <2> HIDE DEF s, obj
    <2> QED BY <1>4, <1>7, <1>8, ChangeAside
  <1>10. Cell(k)' = Cell(k) BY <1>1, <1>4 DEF Cell, parityVars
  <1> QED BY <1>1, <1>3, <1>4, <1>9, <1>10 DEF Aside, parityVars

(* What Packed means for the chunks.                                       *)
LEMMA PackedAppends ==
    ASSUME StoreInv, NEW m \in msgs, NEW s \in Stripes, NEW out \in SUBSET Stripes, Packed(m, s, out)
    PROVE  /\ m.key \in Keys /\ m.op \in 1 .. MaxOps /\ Appended(m.key, m.op, s)
           /\ \A k : About(k)' = About(k) \ {m}
           /\ m \in About(m.key) /\ SetTo(m, "data")
  <1>1. m.key \in Keys /\ m.op \in 1 .. MaxOps /\ m.type = "set" /\ m.to = "data"
    BY MessageKinds, StoreTypes DEF StoreInv, Packed, ToData
  <1>2. /\ SizeOf(data[s]) + Size[m.key] <= Capacity
        /\ data' = [data EXCEPT ![s] = Append(@, Object(m.key, m.op))]
    BY DEF Packed
  <1>3. Appended(m.key, m.op, s)
    <2> DEFINE k == m.key
               op == m.op
    <2>1. k \in Keys /\ op \in 1 .. MaxOps BY <1>1
    <2>2. /\ SizeOf(data[s]) + Size[k] <= Capacity
          /\ data' = [data EXCEPT ![s] = Append(@, Object(k, op))]
      BY <1>2
    <2> HIDE DEF k, op
    <2>3. Appended(k, op, s) BY <2>1, <2>2, AppendEffect
    <2> QED BY <2>3 DEF k, op
  <1>4. ASSUME NEW k PROVE About(k)' = About(k) \ {m}
    <2> DEFINE S == SealRequests(out, data')
    <2>1. msgs' = (msgs \ {m}) \cup S BY DEF Packed
    <2>2. \A n \in S : n.type = "seal" BY DEF SealRequests
    <2> HIDE DEF S
    <2> QED BY <2>1, <2>2, AboutRemoved
  <1> QED BY <1>1, <1>3, <1>4 DEF SetTo, About

(* A SET of another key does not touch k.                                  *)
LEMMA PackedAside ==
    ASSUME StoreInv, NEW m \in msgs, NEW s \in Stripes, NEW out \in SUBSET Stripes, Packed(m, s, out),
           NEW k \in Keys, k # m.key
    PROVE  Aside(k)
  <1>1. Appended(m.key, m.op, s) /\ About(k)' = About(k) \ {m} BY PackedAppends
  <1>2. About(k)' = About(k) BY <1>1 DEF About
  <1>3. keys' = keys /\ pending' = pending /\ parity' = parity BY DEF Packed, parityVars
  <1>4. index'[k] = index[k] BY StoreTypes DEF Packed, StoreInv
  <1>5. Cell(k)' = Cell(k) BY <1>3, <1>4 DEF Cell
  <1>6. ASSUME index[k] # Nowhere
        PROVE  data'[index[k].stripe][index[k].pos] = data[index[k].stripe][index[k].pos]
    <2>1. index[k].stripe \in Stripes /\ index[k].pos \in DOMAIN data[index[k].stripe]
      BY <1>6, StoreTypes DEF StoreInv, IndexOwned, Owns
    <2> QED BY <1>1, <2>1 DEF Appended
  <1> QED BY <1>2, <1>3, <1>4, <1>5, <1>6 DEF Aside, Found, ValueOf

(* Nor does a step of the parity server for other keys.                    *)
LEMMA ParityAside ==
    ASSUME StoreInv, PlacesOwned, NEW m \in msgs, ParityStep(m), NEW k \in Keys,
           m.type # "seal" => m.key # k, m.type = "seal" => ~Lists(m, k)
    PROVE  Aside(k)
  <1>0. RestType /\ m \in Messages /\ UNCHANGED <<data, index>>
    BY StoreTypes, TypeParts, ParityTypes DEF StoreInv, dataVars
  <1>1. About(k)' = About(k)
    <2>0. m \notin About(k) BY DEF About
    <2>1. CASE msgs' = msgs \ {m} BY <2>0, <2>1 DEF About
    <2>2. CASE msgs' # msgs \ {m}
      <3>1. m.type = "update" /\ msgs' = (msgs \ {m}) \cup {[m EXCEPT !.type = "chunk"]}
        BY <2>2 DEF ParityStep, SetParity, SealChunk, UpdateKeyValue, UpdateChunk, DeleteParity, DeleteChunk
      <3>2. m \in [type : {"update", "chunk"}, key : Keys, place : Places, op : 1 .. MaxOps]
        BY <1>0, <3>1 DEF Messages
      <3>3. [m EXCEPT !.type = "chunk"].key # k BY <3>1, <3>2
      <3> QED BY <2>0, <3>1, <3>3 DEF About
    <2> QED BY <2>1, <2>2
  <1>2. keys'[k] = keys[k] /\ pending'[k] = pending[k]
    <2>0. keys \in [Keys -> Values] /\ pending \in [Keys -> Requests] BY <1>0 DEF RestType
    <2>1. CASE SetParity(m) BY <2>0, <2>1 DEF SetParity, Awaited
    <2>2. CASE SealChunk(m)
      <3>1. m.type = "seal" BY <2>2 DEF SealChunk
      <3>2. ~\E p \in Positions : <<k, p>> \in m.records BY <3>1 DEF Lists
      <3> QED BY <2>0, <2>2, <3>2 DEF SealChunk, Deferred
    <2>3. CASE UpdateKeyValue(m) BY <2>0, <2>3 DEF UpdateKeyValue, Defer
    <2>4. CASE UpdateChunk(m) BY <2>4 DEF UpdateChunk
    <2>5. CASE DeleteParity(m) BY <2>0, <2>5 DEF DeleteParity, Defer
    <2>6. CASE DeleteChunk(m) BY <2>6 DEF DeleteChunk
    <2> QED BY <2>1, <2>2, <2>3, <2>4, <2>5, <2>6 DEF ParityStep
  <1>3. ASSUME Found(k) PROVE Cell(k)' = Cell(k)
    <2> DEFINE s == index[k].stripe
               p == index[k].pos
    <2>1. s \in Stripes /\ p \in Positions /\ data[s][p].key = k
      BY <1>3, StoreTypes DEF StoreInv, Found
    <2>2. k # None BY ConstantsAssumption
    <2> HIDE DEF s, p
    <2>3. ~Touches(m, s, p)
      <3> SUFFICES ASSUME Touches(m, s, p) PROVE FALSE OBVIOUS
      <3>1. \/ m.type \in {"set", "chunk"} /\ data[s][p].key \in {m.key, None}
            \/ m.type = "seal" /\ \E r \in m.records : r[2] = p /\ data[s][p].key \in {r[1], None}
        BY <2>1, TouchesOwned
      <3>2. PICK r \in m.records : m.type = "seal" /\ r[2] = p /\ r[1] = k BY <2>1, <2>2, <3>1
      <3>3. r \in Keys \X Positions BY <1>0, <3>2, MessageKinds
      <3>4. r = <<k, p>> BY <3>2, <3>3
      <3> QED BY <2>1, <3>2, <3>4 DEF Lists
    <2>4. parity'[s][p] = parity[s][p] BY <2>1, <2>3, ParityEffect
    <2> QED BY <1>0, <2>4 DEF Cell, s, p
  <1> QED BY <1>0, <1>1, <1>2, <1>3, DataSame DEF Aside

(* A key that was set twice stays so.                                      *)
LEMMA ReusedKept == ASSUME [Next]_vars, StoreInv PROVE reused \subseteq reused'
  <1>1. ASSUME NEW m \in msgs, ParityStep(m) PROVE reused' = reused BY <1>1, ParityTypes DEF StoreInv
  <1> QED BY <1>1, StepKinds DEF SetRequest, UpdateData, DeleteData, SetExisting, Packed, SealAll, vars

(* Every step leaves k alone or is one of the forms that act on it.        *)
LEMMA KeySteps ==
    ASSUME StoreInv, PlacesOwned, [Next]_vars, NEW k \in Keys, k \notin reused', Once(k)
    PROVE  KeyStep(k)
  <1>1. ASSUME NEW x \in Keys, SetRequest(x) PROVE KeyStep(k)
    <2>1. CASE x = k BY <1>1, <2>1 DEF KeyStep
    <2>2. CASE x # k
      <3> DEFINE S == [type : {"set"}, to : {"data", "parity"}, key : {x}, op : {ops + 1}]
      <3>1. msgs' = msgs \cup S /\ \A n \in S : n.type # "seal" /\ n.key = x BY <1>1 DEF SetRequest
      <3> HIDE DEF S
      <3>2. About(k)' = About(k) BY <2>2, <3>1, AboutAdded
      <3>3. UNCHANGED <<data, index>> /\ keys' = keys /\ pending' = pending /\ parity' = parity
        BY <1>1 DEF SetRequest, dataVars, parityVars
      <3>4. Cell(k)' = Cell(k) BY <3>3 DEF Cell
      <3>5. Aside(k) BY <3>2, <3>3, <3>4, DataSame DEF Aside
      <3> QED BY <3>5 DEF KeyStep
    <2> QED BY <2>1, <2>2
  <1>2. ASSUME NEW x \in Keys, UpdateData(x) PROVE KeyStep(k) BY <1>2, UpdateAside DEF KeyStep
  <1>3. ASSUME NEW x \in Keys, DeleteData(x) PROVE KeyStep(k)
    <2>1. x # k BY <1>3 DEF DeleteData
    <2> QED BY <1>3, <2>1, DeleteAside DEF KeyStep
  <1>4. ASSUME NEW m \in msgs, SetExisting(m) PROVE KeyStep(k)
    <2>1. SetTo(m, "data") /\ Found(m.key) /\ m.type # "seal" BY <1>4 DEF SetExisting, ToData, SetTo
    <2>2. m.key # k
      <3> SUFFICES ASSUME m.key = k PROVE FALSE OBVIOUS
      <3>1. m \in About(k) BY <2>1 DEF About
      <3> QED BY <2>1, <3>1 DEF Once, Found
    <2>3. About(k)' = About(k) BY <1>4, <2>2 DEF SetExisting, About
    <2>4. UNCHANGED <<data, index>> /\ keys' = keys /\ pending' = pending /\ parity' = parity
      BY <1>4 DEF SetExisting, dataVars, parityVars
    <2>5. Cell(k)' = Cell(k) BY <2>4 DEF Cell
    <2>6. Aside(k) BY <2>3, <2>4, <2>5, DataSame DEF Aside
    <2> QED BY <2>6 DEF KeyStep
  <1>5. ASSUME NEW m \in msgs, NEW s \in Stripes, NEW out \in SUBSET Stripes, Packed(m, s, out) PROVE KeyStep(k)
    <2>1. m \in About(m.key) BY <1>5, PackedAppends
    <2> QED BY <1>5, <2>1, PackedAside DEF KeyStep
  <1>6. ASSUME SealAll PROVE KeyStep(k)
    <2>1. \A n \in SealRequests(Range(buffer.chunks), data) : n.type = "seal" BY DEF SealRequests
    <2>2. About(k)' = About(k) BY <1>6, <2>1 DEF SealAll, About
    <2>3. UNCHANGED <<data, index>> /\ keys' = keys /\ pending' = pending /\ parity' = parity
      BY <1>6 DEF SealAll, parityVars
    <2>4. Cell(k)' = Cell(k) BY <2>3 DEF Cell
    <2>5. Aside(k) BY <2>2, <2>3, <2>4, DataSame DEF Aside
    <2> QED BY <2>5 DEF KeyStep
  <1>7. ASSUME NEW m \in msgs, ParityStep(m) PROVE KeyStep(k)
    <2>1. CASE m.type = "seal"
      <3>1. SealChunk(m)
        BY <1>7, <2>1 DEF ParityStep, SetParity, UpdateKeyValue, UpdateChunk, DeleteParity, DeleteChunk
      <3> QED BY <1>7, <2>1, <3>1, ParityAside DEF KeyStep
    <2>2. CASE m.type # "seal" /\ m.key # k BY <1>7, <2>2, ParityAside DEF KeyStep
    <2>3. CASE m.type # "seal" /\ m.key = k
      <3>1. m \in About(k) BY <2>3 DEF About
      <3>2. m.type \in {"set", "update", "chunk"} BY <3>1 DEF Once
      <3>3. SetParity(m) \/ UpdateKeyValue(m) \/ UpdateChunk(m)
        BY <1>7, <3>2 DEF ParityStep, SealChunk, DeleteParity, DeleteChunk
      <3> QED BY <3>1, <3>3 DEF KeyStep
    <2> QED BY <2>1, <2>2, <2>3
  <1>8. ASSUME UNCHANGED vars PROVE KeyStep(k)
    <2>1. UNCHANGED <<data, index>> /\ keys' = keys /\ pending' = pending /\ parity' = parity /\ msgs' = msgs
      BY <1>8 DEF vars, dataVars, parityVars
    <2>2. Cell(k)' = Cell(k) /\ About(k)' = About(k) BY <2>1 DEF Cell, About
    <2>3. Aside(k) BY <2>1, <2>2, DataSame DEF Aside
    <2> QED BY <2>3 DEF KeyStep
  <1> QED BY <1>1, <1>2, <1>3, <1>4, <1>5, <1>6, <1>7, <1>8, StepKinds

(* Writes under way                                                        *)
LEMMA InFlightIs ==
    ASSUME NEW k
    PROVE  /\ InFlight(k) = {m.op : m \in Counted(k)}
           /\ InFlight(k)' = {m.op : m \in Counted(k)'}
  BY DEF InFlight, Counted, SetTo

(* The write of a message that is handled is no longer under way.          *)
LEMMA InFlightArrived ==
    ASSUME NEW k, Fresh(k), NEW m \in Counted(k), Counted(k)' = Counted(k) \ {m}
    PROVE  InFlight(k)' = SymDiff(InFlight(k), {m.op}) /\ InFlight(k)' = InFlight(k) \ {m.op} /\ m.op \in InFlight(k)
  <1>1. \A v : v \in InFlight(k) <=> \E n \in Counted(k) : n.op = v BY InFlightIs
  <1>2. \A v : v \in InFlight(k)' <=> \E n \in Counted(k) : n # m /\ n.op = v BY InFlightIs
  <1>3. \A n \in Counted(k) : n.op = m.op => n = m BY DEF Fresh
  <1>4. m.op \in InFlight(k) BY <1>1
  <1>5. InFlight(k)' = InFlight(k) \ {m.op} BY <1>1, <1>2, <1>3
  <1> QED BY <1>4, <1>5 DEF SymDiff

(* The write of a message that is sent is under way.                       *)
LEMMA InFlightSent ==
    ASSUME NEW k, NEW n, Counted(k)' = Counted(k) \cup {n}, \A m \in Counted(k) : m.op # n.op
    PROVE  InFlight(k)' = SymDiff(InFlight(k), {n.op})
  <1>1. \A v : v \in InFlight(k) <=> \E m \in Counted(k) : m.op = v BY InFlightIs
  <1>2. \A v : v \in InFlight(k)' <=> v = n.op \/ \E m \in Counted(k) : m.op = v BY InFlightIs
  <1>3. n.op \notin InFlight(k) BY <1>1
  <1>4. InFlight(k)' = InFlight(k) \cup {n.op} BY <1>1, <1>2
  <1> QED BY <1>3, <1>4 DEF SymDiff

(* The writes under way depend on the counted messages only.               *)
LEMMA InFlightSame ==
    ASSUME NEW k, Counted(k)' = Counted(k)
    PROVE  InFlight(k)' = InFlight(k)
  BY InFlightIs

(* A delta that is redirected to the chunk is still under way.             *)
LEMMA InFlightSwapped ==
    ASSUME NEW k, NEW m \in Counted(k), NEW n, n.op = m.op, Counted(k)' = (Counted(k) \ {m}) \cup {n}
    PROVE  InFlight(k)' = InFlight(k)
  <1>1. \A v : v \in InFlight(k) <=> \E l \in Counted(k) : l.op = v BY InFlightIs
  <1>2. \A v : v \in InFlight(k)' <=> v = n.op \/ \E l \in Counted(k) : l # m /\ l.op = v BY InFlightIs
  <1>3. \A v : v \in InFlight(k)' <=> v \in InFlight(k) BY <1>1, <1>2
  <1> QED BY <1>3

(* Exclusive-or                                                            *)
LEMMA XorEmpty == \A a : SymDiff(a, {}) = a /\ SymDiff({}, a) = a
  BY DEF SymDiff

(* A write made and sent changes both sides alike.                         *)
LEMMA XorSent == \A a, b, c, d : SymDiff(SymDiff(SymDiff(a, b), c), d) = SymDiff(SymDiff(a, b), SymDiff(c, d))
  BY DEF SymDiff

(* A write that moves from the network to keys changes nothing.            *)
LEMMA XorToKeys == \A a, b, c, d : SymDiff(SymDiff(a, b), c) = SymDiff(SymDiff(a, SymDiff(b, d)), SymDiff(c, d))
  BY DEF SymDiff

(* A write that moves from the network to the parity chunk changes         *)
(* nothing.                                                                *)
LEMMA XorToParity == \A a, b, c, d : SymDiff(SymDiff(a, b), c) = SymDiff(SymDiff(SymDiff(a, d), b), SymDiff(c, d))
  BY DEF SymDiff

(* A delta for the place of k is applied to k's part of the parity chunk.  *)
LEMMA CellApplied ==
    ASSUME StoreInv, NEW k \in Keys, index[k] # Nowhere, index' = index, NEW val,
           parity' = Applied(index[k], val)
    PROVE  Cell(k)' = SymDiff(Cell(k), val)
  <1>1. index[k].stripe \in Stripes /\ index[k].pos \in Positions /\ index[k] \in Places
    BY StoreTypes DEF StoreInv
  <1>2. index[k] = Place(index[k].stripe, index[k].pos) BY <1>1 DEF Place, Places
  <1>3. RestType BY TypeParts DEF StoreInv
  <1> QED BY <1>1, <1>2, <1>3, AppliedIs DEF Cell

(* What the SET at the parity server does to its key.                      *)
LEMMA SetParityEffect ==
    ASSUME StoreInv, NEW k \in Keys, NEW m \in About(k), SetParity(m)
    PROVE  /\ SetTo(m, "parity") /\ m \in Counted(k) /\ About(k)' = About(k) \ {m}
           /\ UNCHANGED <<data, index>>
           /\ \/ /\ keys[k] # {} /\ keys'[k] = keys[k] /\ pending'[k] = pending[k] /\ parity' = parity
              \/ /\ keys[k] = {} /\ pending[k] = NoRequest
                 /\ keys'[k] = {m.op} /\ pending'[k] = NoRequest /\ parity' = parity
              \/ /\ keys[k] = {} /\ pending[k] # NoRequest
                 /\ keys'[k] = {} /\ pending'[k] = NoRequest
                 /\ parity' = IF pending[k].type = "seal" THEN Applied(pending[k].place, {m.op}) ELSE parity
  <1>0. keys \in [Keys -> Values] /\ pending \in [Keys -> Requests] BY TypeParts DEF StoreInv, RestType
  <1>1. m.key = k /\ m \in msgs /\ m.type # "seal" BY DEF About
  <1>2. SetTo(m, "parity") /\ m \in Counted(k) BY DEF SetParity, SetTo, Counted
  <1>3. msgs' = msgs \ {m} /\ UNCHANGED <<data, index>> BY DEF SetParity, dataVars
  <1>4. About(k)' = About(k) \ {m} BY <1>3 DEF About
  <1> QED BY <1>0, <1>1, <1>2, <1>3, <1>4 DEF SetParity, Awaited

(* What the delta of an object in an unsealed chunk does to its key.       *)
LEMMA UpdateKeyEffect ==
    ASSUME StoreInv, NEW k \in Keys, NEW m \in About(k), UpdateKeyValue(m)
    PROVE  /\ m.type = "update" /\ m \in Counted(k) /\ UNCHANGED <<data, index, parity>>
           /\ \/ /\ keys[k] # {} /\ keys'[k] = SymDiff(keys[k], {m.op}) /\ pending'[k] = pending[k]
                 /\ About(k)' = About(k) \ {m}
              \/ /\ keys[k] = {} /\ keys'[k] = {}
                 /\ pending'[k] = IF pending[k] = NoRequest THEN [type |-> "update"] ELSE pending[k]
                 /\ \E n : /\ n.type = "chunk" /\ n.op = m.op /\ n.place = m.place
                           /\ About(k)' = (About(k) \ {m}) \cup {n}
  <1>0. keys \in [Keys -> Values] /\ pending \in [Keys -> Requests] BY TypeParts DEF StoreInv, RestType
  <1>1. m.key = k /\ m \in msgs /\ m.type = "update" BY DEF About, UpdateKeyValue
  <1>2. m \in Counted(k) BY <1>1 DEF Counted
  <1>3. UNCHANGED <<data, index, parity>> BY DEF UpdateKeyValue, dataVars
  <1>4. CASE keys[k] # {}
    <2>1. keys' = [keys EXCEPT ![k] = SymDiff(keys[k], {m.op})] /\ pending' = pending /\ msgs' = msgs \ {m}
      BY <1>1, <1>4 DEF UpdateKeyValue
    <2>2. About(k)' = About(k) \ {m} BY <2>1 DEF About
    <2> QED BY <1>0, <1>1, <1>2, <1>3, <1>4, <2>1, <2>2
  <1>5. CASE keys[k] = {}
    <2> DEFINE n == [m EXCEPT !.type = "chunk"]
    <2>1. keys' = keys /\ pending' = Defer(k, [type |-> "update"]) /\ msgs' = (msgs \ {m}) \cup {n}
      BY <1>1, <1>5 DEF UpdateKeyValue
    <2>2. m \in [type : {"update", "chunk"}, key : Keys, place : Places, op : 1 .. MaxOps]
      BY <1>1, StoreTypes DEF StoreInv, Messages
    <2>3. n.type = "chunk" /\ n.op = m.op /\ n.place = m.place /\ n.key = k BY <1>1, <2>2
    <2> HIDE DEF n
    <2>4. About(k)' = (About(k) \ {m}) \cup {n} BY <2>1, <2>3 DEF About
    <2>5. pending'[k] = IF pending[k] = NoRequest THEN [type |-> "update"] ELSE pending[k]
      BY <1>0, <2>1 DEF Defer
    <2> QED BY <1>1, <1>2, <1>3, <1>5, <2>1, <2>3, <2>4, <2>5
  <1> QED BY <1>4, <1>5

(* What the delta of an object in a sealed chunk does to its key.          *)
LEMMA UpdateChunkEffect ==
    ASSUME StoreInv, NEW k \in Keys, NEW m \in About(k), UpdateChunk(m)
    PROVE  /\ m.type = "chunk" /\ m \in Counted(k) /\ About(k)' = About(k) \ {m}
           /\ UNCHANGED <<data, index, keys, pending>> /\ parity' = Applied(m.place, {m.op})
  BY DEF UpdateChunk, About, Counted, dataVars

(* What a seal request does to a key that it lists.                        *)
LEMMA SealEffect ==
    ASSUME StoreInv, PlacesOwned, NEW k \in Keys, Single(k), NEW m \in msgs, SealChunk(m), Lists(m, k)
    PROVE  /\ m.type = "seal" /\ index[k] # Nowhere /\ index[k].stripe = m.stripe
           /\ <<k, index[k].pos>> \in m.records
           /\ UNCHANGED <<data, index>> /\ About(k)' = About(k) /\ keys'[k] = {}
           /\ indicator' = indicator \cup {m.stripe}
           /\ IF pending[k] = NoRequest /\ keys[k] = {}
              THEN pending'[k].type = "seal" /\ pending'[k].place = index[k]
              ELSE pending'[k] = pending[k]
           /\ Found(k) => Cell(k)' = SymDiff(Cell(k), keys[k])
  <1>0. keys \in [Keys -> Values] /\ parity \in [Stripes -> [Positions -> Values]] BY TypeParts DEF StoreInv, RestType
  <1>1. m.type = "seal" /\ msgs' = msgs \ {m} /\ UNCHANGED <<data, index>> /\ indicator' = indicator \cup {m.stripe}
    BY DEF SealChunk, dataVars
  <1>2. m.stripe \in Stripes /\ m.records \in SUBSET (Keys \X Positions)
    BY <1>1, MessageKinds, StoreTypes DEF StoreInv
  <1>3. About(k)' = About(k) BY <1>1 DEF About
  <1>4. keys'[k] = {} BY DEF SealChunk, Lists
  <1>5. PICK p \in Positions : <<k, p>> \in m.records BY DEF Lists
  <1>6. \A q \in Positions : <<k, q>> \in m.records => index[k] = Place(m.stripe, q) BY <1>1 DEF Single
  <1>7. index[k] = Place(m.stripe, p) /\ index[k].stripe = m.stripe /\ index[k].pos = p BY <1>5, <1>6 DEF Place
  <1>8. index[k] # Nowhere
    <2>1. m.stripe # 0 BY <1>2, Bounds DEF Stripes
    <2> QED BY <1>7, <2>1 DEF Nowhere
  <1>9. IF pending[k] = NoRequest /\ keys[k] = {}
        THEN pending'[k].type = "seal" /\ pending'[k].place = index[k]
        ELSE pending'[k] = pending[k]
    <2> DEFINE q == CHOOSE x \in Positions : <<k, x>> \in m.records
    <2>1. q \in Positions /\ <<k, q>> \in m.records BY <1>5
    <2>2. pending' = Deferred(m.records, m.stripe) BY DEF SealChunk
    <2>3. pending'[k] = IF pending[k] = NoRequest /\ keys[k] = {}
                        THEN [type |-> "seal", place |-> [stripe |-> m.stripe, pos |-> q]]
                        ELSE pending[k]
      BY <1>5, <2>2 DEF Deferred
    <2> HIDE DEF q
    <2>4. index[k] = [stripe |-> m.stripe, pos |-> q] BY <1>6, <2>1 DEF Place
    <2> QED BY <2>3, <2>4
  <1>10. ASSUME Found(k) PROVE Cell(k)' = SymDiff(Cell(k), keys[k])
    <2> DEFINE s == m.stripe
               R == {x \in m.records : x[2] = p}
    <2>1. parity' = [parity EXCEPT ![s] = [x \in Positions |->
                SymDiff(@[x], UNION {keys[r[1]] : r \in {y \in m.records : y[2] = x}})]]
      BY DEF SealChunk
    <2>2. parity'[s][p] = SymDiff(parity[s][p], UNION {keys[r[1]] : r \in R}) BY <1>0, <1>2, <2>1
    <2>3. data[s][p].key = k /\ k # None BY <1>7, <1>10, ConstantsAssumption DEF Found
    <2>4. <<k, p>> \in R BY <1>5
    <2>5. \A r \in R : r[1] = k
      <3> TAKE r \in R
      <3>1. Owns(r[1], Place(s, p)) BY <1>1 DEF PlacesOwned, RecordsOwned
      <3> QED BY <2>3, <3>1 DEF Owns, Place
    <2> HIDE DEF R
    <2>6. UNION {keys[r[1]] : r \in R} = keys[k] BY <2>4, <2>5
    <2> QED BY <1>1, <1>7, <2>2, <2>6 DEF Cell
  <1> QED BY <1>1, <1>3, <1>4, <1>5, <1>7, <1>8, <1>9, <1>10

(* What the client's SET does to a key that was not set before.            *)
LEMMA SetRequestEffect ==
    ASSUME StoreInv, NEW k \in Keys, SetRequest(k), k \notin reused', Once(k)
    PROVE  /\ index[k] = Nowhere /\ keys[k] = {} /\ pending[k] = NoRequest /\ About(k) = {}
           /\ UNCHANGED <<data, index, keys, pending, parity>>
           /\ \A m \in About(k)' : m.type = "set" /\ m.to \in {"data", "parity"} /\ m.op = ops + 1
           /\ \E m \in About(k)' : SetTo(m, "data")
           /\ \A m, n \in About(k)' : m.to = n.to => m = n
           /\ InFlight(k)' = {ops + 1}
  <1> DEFINE S == [type : {"set"}, to : {"data", "parity"}, key : {k}, op : {ops + 1}]
             d == [type |-> "set", to |-> "data", key |-> k, op |-> ops + 1]
             q == [type |-> "set", to |-> "parity", key |-> k, op |-> ops + 1]
  <1>1. index[k] = Nowhere /\ About(k) = {} BY DEF SetRequest
  <1>2. pending[k] = NoRequest /\ keys[k] = {} BY <1>1 DEF Once
  <1>3. UNCHANGED <<data, index, keys, pending, parity>> BY DEF SetRequest, dataVars, parityVars
  <1>4. msgs' = msgs \cup S /\ \A n \in S : n.type # "seal" /\ n.key = k BY DEF SetRequest
  <1>5. \A n \in S : /\ n.type = "set" /\ n.to \in {"data", "parity"} /\ n.key = k /\ n.op = ops + 1
                     /\ n = [type |-> "set", to |-> n.to, key |-> k, op |-> ops + 1]
    OBVIOUS
  <1>6. d \in S /\ q \in S /\ d.type = "set" /\ d.to = "data" /\ q.type = "set" /\ q.to = "parity" OBVIOUS
  <1> HIDE DEF S, d, q
  <1>7. About(k)' = S
    <2>1. About(k)' = IF k = k THEN About(k) \cup S ELSE About(k) BY <1>4, AboutAdded
    <2> QED BY <1>1, <2>1
  <1>8. \A m, n \in S : m.to = n.to => m = n BY <1>5
  <1>9. Counted(k)' = {n \in S : SetTo(n, "parity")} BY <1>5, <1>7 DEF Counted
  <1>10. InFlight(k)' = {ops + 1}
    <2>1. q \in Counted(k)' BY <1>6, <1>9 DEF SetTo
    <2>2. \A n \in Counted(k)' : n.op = ops + 1 BY <1>5, <1>9
    <2> QED BY <2>1, <2>2, InFlightIs
  <1> QED BY <1>1, <1>2, <1>3, <1>5, <1>6, <1>7, <1>8, <1>10 DEF SetTo

(* What an UPDATE does to its key, when the SET was answered.              *)
LEMMA UpdateDataEffect ==
    ASSUME StoreInv, OpsBounded, NEW k \in Keys, UpdateData(k), AnsweredOnly
    PROVE  \E n : /\ n.type = (IF Closed(index[k].stripe) THEN "chunk" ELSE "update")
                  /\ n.place = index[k] /\ n.op = ops + 1
                  /\ About(k)' = About(k) \cup {n} /\ Counted(k)' = Counted(k) \cup {n}
                  /\ \A m \in About(k) : m.type # "set"
                  /\ \A m \in Counted(k) : m.op # n.op
                  /\ n.op \notin keys[k]
                  /\ index[k] # Nowhere /\ Found(k)
                  /\ UNCHANGED <<index, keys, pending, parity>>
                  /\ ValueOf(k)' = SymDiff(ValueOf(k), {n.op})
                  /\ InFlight(k)' = SymDiff(InFlight(k), {n.op})
  <1> DEFINE n == [type |-> IF IsSealed(index[k].stripe) THEN "chunk" ELSE "update",
                   key |-> k, place |-> index[k], op |-> ops + 1]
             s == index[k].stripe
             p == index[k].pos
             obj == [data[s][p] EXCEPT !.val = SymDiff(data[s][p].val, {ops + 1})]
  <1>1. msgs' = msgs \cup {n} /\ UNCHANGED <<index, keys, pending, parity>> /\ Found(k) /\ Answered(k)
    BY DEF UpdateData, parityVars
  <1>2. /\ n.type = (IF IsSealed(index[k].stripe) THEN "chunk" ELSE "update")
        /\ n.key = k /\ n.place = index[k] /\ n.op = ops + 1
    OBVIOUS
  <1>3. index[k] # Nowhere BY <1>1 DEF Found
  <1>4. \A m \in About(k) : m.type # "set" BY <1>1 DEF Answered
  <1>5. ops \in Nat /\ ops + 1 \in 1 .. MaxOps BY TypeParts, NextOp, Bounds DEF UpdateData, RestType, StoreInv
  <1>6. \A m \in Counted(k) : m.op # ops + 1
    <2> TAKE m \in Counted(k)
    <2>1. m \in msgs /\ m.type # "seal" BY DEF Counted, About
    <2>2. m.op <= ops BY <2>1 DEF OpsBounded
    <2>3. m.op \in 1 .. MaxOps BY <2>1, MessageKinds, StoreTypes DEF StoreInv
    <2> QED BY <1>5, <2>2, <2>3, Bounds
  <1>7. ops + 1 \notin keys[k]
    <2>1. keys[k] \subseteq 1 .. ops BY DEF OpsBounded
    <2>2. ops + 1 \notin 1 .. ops BY <1>5
    <2> QED BY <2>1, <2>2
  <1>8. LET a == index[k].stripe
            b == index[k].pos
            c == [data[a][b] EXCEPT !.val = SymDiff(data[a][b].val, {ops + 1})]
        IN  /\ a \in Stripes /\ b \in DOMAIN data[a]
            /\ c \in Objects /\ c.len = data[a][b].len /\ c.key = data[a][b].key
            /\ c.val = SymDiff(data[a][b].val, {ops + 1})
            /\ data' = [data EXCEPT ![a][b] = c]
    <2>1. data' = [data EXCEPT ![index[k].stripe][index[k].pos].val = SymDiff(@, {ops + 1})]
      BY DEF UpdateData
    <2> QED BY <1>1, <1>5, <2>1, UpdateEffect
  <1>9. /\ s \in Stripes /\ p \in DOMAIN data[s] /\ obj \in Objects /\ obj.len = data[s][p].len
        /\ obj.val = SymDiff(data[s][p].val, {ops + 1}) /\ data' = [data EXCEPT ![s][p] = obj]
    BY <1>8
  <1>10. Closed(s) <=> IsSealed(s)
    <2>1. data[s] \in Seq(Objects) BY <1>9, StoreTypes DEF StoreInv, DataType
    <2>2. data[s] # <<>> BY <1>9, <2>1
    <2> QED BY <1>9, <2>2, StartedIs
  <1>11. ValueOf(k)' = SymDiff(ValueOf(k), {ops + 1})
    <2> HIDE DEF s, p, obj
    <2>1. /\ DataType'
          /\ \A t \in Stripes : /\ SizeOf(data'[t]) = SizeOf(data[t])
                                /\ DOMAIN data'[t] = DOMAIN data[t]
                                /\ data'[t] = <<>> <=> data[t] = <<>>
          /\ data'[s][p] = obj
          /\ \A t \in Stripes : \A q \in DOMAIN data[t] : <<t, q>> # <<s, p>> => data'[t][q] = data[t][q]
      BY <1>9, ChangeEffect
    <2> QED BY <1>1, <1>9, <2>1 DEF ValueOf, s, p
  <1>12. About(k)' = About(k) \cup {n}
    <2> DEFINE S == {n}
    <2>1. msgs' = msgs \cup S /\ \A l \in S : l.type # "seal" /\ l.key = k BY <1>1, <1>2
    <2> HIDE DEF S
    <2>2. About(k)' = About(k) \cup S BY <2>1, AboutAdded
    <2> QED BY <2>2 DEF S
  <1>13. n.type = (IF Closed(s) THEN "chunk" ELSE "update") BY <1>2, <1>10
  <1> HIDE DEF n
  <1>14. Counted(k)' = Counted(k) \cup {n}
    <2>1. n.type \in {"update", "chunk"} BY <1>13
    <2> QED BY <1>12, <2>1 DEF Counted
  <1>15. InFlight(k)' = SymDiff(InFlight(k), {n.op}) BY <1>2, <1>6, <1>14, InFlightSent
  <1> QED BY <1>1, <1>2, <1>3, <1>4, <1>6, <1>7, <1>11, <1>12, <1>13, <1>14, <1>15

(* What the SET at the data server does to its key.                        *)
LEMMA PackedEffect ==
    ASSUME StoreInv, PlacesOwned, NEW k \in Keys, Once(k), NEW m \in About(k),
           NEW s \in Stripes, NEW out \in SUBSET Stripes, Packed(m, s, out)
    PROVE  LET p == Len(data[s]) + 1 IN
           /\ SetTo(m, "data") /\ m.key = k /\ index[k] = Nowhere /\ About(k)' = About(k) \ {m}
           /\ UNCHANGED <<keys, pending, parity>>
           /\ index'[k] = Place(s, p) /\ index'[k] # Nowhere /\ index'[k].stripe = s /\ index'[k].pos = p
           /\ p \in DOMAIN data'[s] /\ p \notin DOMAIN data[s] /\ data'[s][p] = Object(k, m.op)
           /\ Found(k)' /\ ValueOf(k)' = {m.op} /\ Cell(k)' = {}
           /\ Counted(k)' = Counted(k) /\ InFlight(k)' = InFlight(k)
           /\ SymDiff(keys[k], InFlight(k)) = {m.op}
  <1> DEFINE p == Len(data[s]) + 1
  <1>0. m \in msgs /\ m.key = k BY DEF About
  <1>1. SetTo(m, "data") /\ Appended(k, m.op, s) /\ About(k)' = About(k) \ {m}
    BY <1>0, PackedAppends
  <1>2. index[k] = Nowhere /\ SymDiff(keys[k], InFlight(k)) = {m.op} BY <1>1 DEF Once
  <1>3. UNCHANGED <<keys, pending, parity>> BY DEF Packed, parityVars
  <1>4. index'[k] = Place(s, p) BY <1>0, StoreTypes DEF Packed, StoreInv
  <1>5. index'[k].stripe = s /\ index'[k].pos = p BY <1>4 DEF Place
  <1>6. index'[k] # Nowhere
    <2>1. s # 0 BY Bounds DEF Stripes
    <2> QED BY <1>5, <2>1 DEF Nowhere
  <1>7. /\ p \in Positions /\ p \in DOMAIN data'[s] /\ p \notin DOMAIN data[s]
        /\ data'[s][p] = Object(k, m.op)
    BY <1>1 DEF Appended
  <1>8. Found(k)' /\ ValueOf(k)' = {m.op} BY <1>5, <1>6, <1>7 DEF Found, ValueOf, Object
  <1>9. Cell(k)' = {} BY <1>3, <1>5, <1>7 DEF Cell, PlacesOwned, ParityWithin
  <1>10. Counted(k)' = Counted(k) BY <1>1 DEF Counted, SetTo
  <1>11. InFlight(k)' = InFlight(k) BY <1>10, InFlightSame
  <1> QED BY <1>0, <1>1, <1>2, <1>3, <1>4, <1>5, <1>6, <1>7, <1>8, <1>9, <1>10, <1>11

(* What holds of a key that is set once holds after every step.            *)
KeyAssumed(k) ==
    /\ StoreInv /\ PlacesOwned /\ OpsBounded /\ SealsClosed
    /\ k \in Keys /\ k \notin reused'
    /\ Once(k) /\ Single(k) /\ Fresh(k) /\ AnsweredOnly

(* The writes under way when no message about k comes or goes.             *)
LEMMA CountedKept == ASSUME NEW k, About(k)' = About(k) PROVE Counted(k)' = Counted(k) /\ InFlight(k)' = InFlight(k)
  <1>1. Counted(k)' = Counted(k) BY DEF Counted
  <1> QED BY <1>1, InFlightSame

(* The writes under way when a counted message is handled.                 *)
LEMMA CountedRemoved ==
    ASSUME NEW k, NEW m \in Counted(k), About(k)' = About(k) \ {m}
    PROVE  Counted(k)' = Counted(k) \ {m}
  BY DEF Counted

(* The SET of a key stays its only one.                                    *)
LEMMA OnceStep ==
    ASSUME NEW k, KeyAssumed(k), KeyStep(k)
    PROVE  Once(k)'
  <1> USE DEF KeyAssumed
  <1>1. CASE Aside(k)
    <2>1. About(k)' = About(k) /\ keys'[k] = keys[k] /\ pending'[k] = pending[k] /\ index'[k] = index[k]
      BY <1>1 DEF Aside
    <2>2. InFlight(k)' = InFlight(k) BY <2>1, CountedKept
    <2> QED BY <2>1, <2>2 DEF Once
  <1>2. CASE SetRequest(k)
    <2>1. /\ index[k] = Nowhere /\ keys[k] = {} /\ pending[k] = NoRequest
          /\ UNCHANGED <<data, index, keys, pending, parity>>
          /\ \A m \in About(k)' : m.type = "set" /\ m.to \in {"data", "parity"} /\ m.op = ops + 1
          /\ \E m \in About(k)' : SetTo(m, "data")
          /\ \A m, n \in About(k)' : m.to = n.to => m = n
          /\ InFlight(k)' = {ops + 1}
      BY <1>2, SetRequestEffect
    <2>2. pending'[k].type = "none" BY <2>1 DEF NoRequest
    <2>3. SymDiff(keys'[k], InFlight(k)') = {ops + 1} BY <2>1, XorEmpty
    <2> QED BY <2>1, <2>2, <2>3 DEF Once
  <1>3. CASE UpdateData(k)
    <2>1. PICK n : /\ n.type = (IF Closed(index[k].stripe) THEN "chunk" ELSE "update")
                   /\ About(k)' = About(k) \cup {n}
                   /\ \A m \in About(k) : m.type # "set"
                   /\ index[k] # Nowhere /\ UNCHANGED <<index, keys, pending, parity>>
      BY <1>3, UpdateDataEffect
    <2>2. \A m \in About(k)' : m.type \in {"update", "chunk"} BY <2>1 DEF Once
    <2>3. \A m \in About(k)' : m.type # "set" BY <2>2
    <2> QED BY <2>1, <2>2, <2>3 DEF Once, SetTo
  <1>4. CASE \E m \in About(k) : \E s \in Stripes, out \in SUBSET Stripes : Packed(m, s, out)
    <2>1. PICK m \in About(k), s \in Stripes, out \in SUBSET Stripes : Packed(m, s, out) BY <1>4
    <2>2. /\ SetTo(m, "data") /\ index[k] = Nowhere /\ About(k)' = About(k) \ {m}
          /\ keys' = keys /\ pending' = pending /\ index'[k] # Nowhere
      BY <2>1, PackedEffect
    <2>3. \A n \in About(k)' : n \in About(k) /\ ~SetTo(n, "data") BY <2>2 DEF Once, SetTo
    <2> QED BY <2>2, <2>3 DEF Once
  <1>5. CASE \E m \in About(k) : SetParity(m)
    <2>1. PICK m \in About(k) : SetParity(m) BY <1>5
    <2>2. /\ SetTo(m, "parity") /\ m \in Counted(k) /\ About(k)' = About(k) \ {m} /\ index' = index
          /\ \/ keys[k] = {} /\ pending[k] = NoRequest /\ keys'[k] = {m.op} /\ pending'[k] = NoRequest
             \/ keys[k] = {} /\ pending[k] # NoRequest /\ keys'[k] = {} /\ pending'[k] = NoRequest
      <3>1. keys[k] = {} BY <2>1, SetParityEffect DEF Once
      <3> QED BY <2>1, <3>1, SetParityEffect
    <2>3. \A n \in About(k)' : n \in About(k) /\ ~SetTo(n, "parity") BY <2>2 DEF Once, SetTo
    <2>4. ASSUME NEW d \in About(k)', SetTo(d, "data")
          PROVE  index'[k] = Nowhere /\ SymDiff(keys'[k], InFlight(k)') = {d.op}
      <3>1. d \in About(k) /\ index[k] = Nowhere /\ SymDiff(keys[k], InFlight(k)) = {d.op}
        BY <2>3, <2>4 DEF Once
      <3>2. pending[k] = NoRequest BY <3>1 DEF Once
      <3>3. keys[k] = {} /\ keys'[k] = {m.op} BY <2>2, <3>2
      <3>4. InFlight(k) = {d.op} BY <3>1, <3>3, XorEmpty
      <3>5. InFlight(k)' = InFlight(k) \ {m.op} /\ m.op \in InFlight(k)
        BY <2>2, CountedRemoved, InFlightArrived
      <3>6. m.op = d.op /\ InFlight(k)' = {} BY <3>4, <3>5
      <3> QED BY <2>2, <3>1, <3>3, <3>6, XorEmpty
    <2>5. ASSUME index'[k] = Nowhere
          PROVE  /\ pending'[k] = NoRequest /\ \A n \in About(k)' : n.type = "set"
                 /\ \E n \in About(k)' : SetTo(n, "data")
      <3>1. index[k] = Nowhere /\ pending'[k] = NoRequest BY <2>2, <2>5
      <3>2. PICK d \in About(k) : SetTo(d, "data") BY <2>1, <3>1 DEF Once
      <3>3. d # m BY <2>2, <3>2 DEF SetTo
      <3> QED BY <2>2, <2>3, <3>1, <3>2, <3>3 DEF Once
    <2>6. pending'[k].type = "none" BY <2>2 DEF NoRequest
    <2>7. /\ \A n \in About(k)' : n.type \in {"set", "update", "chunk"}
          /\ \A n, l \in About(k)' : n.type = "set" /\ l.type = "set" /\ n.to = l.to => n = l
      BY <2>3 DEF Once
    <2> QED BY <2>3, <2>4, <2>5, <2>6, <2>7 DEF Once
  <1>6. ASSUME NEW m \in About(k), m.type \in {"update", "chunk"}
        PROVE  /\ index[k] # Nowhere
               /\ \A n \in About(k) : ~SetTo(n, "data") /\ ~SetTo(n, "parity")
    <2>1. m.type # "set" BY <1>6
    <2>2. index[k] # Nowhere BY <1>6, <2>1 DEF Once
    <2> QED BY <1>6, <2>1, <2>2 DEF Once
  <1>7. CASE \E m \in About(k) : UpdateKeyValue(m)
    <2>1. PICK m \in About(k) : UpdateKeyValue(m) BY <1>7
    <2>2. /\ m.type = "update" /\ index' = index
          /\ \A n \in About(k)' : n \in About(k) \/ n.type = "chunk"
          /\ pending'[k] = pending[k] \/ pending'[k] = [type |-> "update"]
      <3>1. CASE keys[k] # {} BY <2>1, <3>1, UpdateKeyEffect
      <3>2. CASE keys[k] = {}
        <4>1. PICK n : n.type = "chunk" /\ About(k)' = (About(k) \ {m}) \cup {n}
          BY <2>1, <3>2, UpdateKeyEffect
        <4>2. pending'[k] = pending[k] \/ pending'[k] = [type |-> "update"]
          BY <2>1, <3>2, UpdateKeyEffect
        <4>3. m.type = "update" /\ index' = index BY <2>1, UpdateKeyEffect
        <4> QED BY <4>1, <4>2, <4>3
      <3> QED BY <3>1, <3>2
    <2>3. index[k] # Nowhere /\ \A n \in About(k) : ~SetTo(n, "data") /\ ~SetTo(n, "parity") BY <1>6, <2>2
    <2>4. \A n \in About(k)' : ~SetTo(n, "data") /\ ~SetTo(n, "parity") BY <2>2, <2>3 DEF SetTo
    <2>5. pending'[k].type # "delete" BY <2>2 DEF Once
    <2>6. \A n \in About(k)' : n.type \in {"set", "update", "chunk"} BY <2>2 DEF Once
    <2>7. \A n, l \in About(k)' : n.type = "set" /\ l.type = "set" /\ n.to = l.to => n = l
      BY <2>2 DEF Once
    <2> QED BY <2>2, <2>3, <2>4, <2>5, <2>6, <2>7 DEF Once
  <1>8. CASE \E m \in About(k) : UpdateChunk(m)
    <2>1. PICK m \in About(k) : UpdateChunk(m) BY <1>8
    <2>2. m.type = "chunk" /\ About(k)' = About(k) \ {m} /\ index' = index /\ keys' = keys /\ pending' = pending
      BY <2>1, UpdateChunkEffect
    <2>3. index[k] # Nowhere /\ \A n \in About(k) : ~SetTo(n, "data") /\ ~SetTo(n, "parity") BY <1>6, <2>2
    <2> QED BY <2>2, <2>3 DEF Once
  <1>9. CASE \E m \in msgs : SealChunk(m) /\ Lists(m, k)
    <2>1. PICK m \in msgs : SealChunk(m) /\ Lists(m, k) BY <1>9
    <2>2. /\ index[k] # Nowhere /\ index' = index /\ About(k)' = About(k) /\ keys'[k] = {}
          /\ pending'[k].type = "seal" \/ pending'[k] = pending[k]
      BY <2>1, SealEffect
    <2> QED BY <2>2 DEF Once
  <1> QED BY <1>1, <1>2, <1>3, <1>4, <1>5, <1>7, <1>8, <1>9 DEF KeyStep

(* No write is sent twice.                                                 *)
LEMMA FreshStep ==
    ASSUME NEW k, KeyAssumed(k), KeyStep(k)
    PROVE  Fresh(k)'
  <1> USE DEF KeyAssumed
  <1>1. CASE Aside(k)
    <2>1. Counted(k)' = Counted(k) /\ keys'[k] = keys[k] BY <1>1, CountedKept DEF Aside
    <2> QED BY <2>1 DEF Fresh
  <1>2. CASE SetRequest(k)
    <2>1. /\ keys'[k] = {} /\ \A m \in About(k)' : m.type = "set"
          /\ \A m, n \in About(k)' : m.to = n.to => m = n
      BY <1>2, SetRequestEffect
    <2>2. \A m \in Counted(k)' : m \in About(k)' /\ m.to = "parity" BY <2>1 DEF Counted, SetTo
    <2> QED BY <2>1, <2>2 DEF Fresh
  <1>3. CASE UpdateData(k)
    <2>1. PICK n : /\ Counted(k)' = Counted(k) \cup {n} /\ \A m \in Counted(k) : m.op # n.op
                   /\ n.op \notin keys[k] /\ keys' = keys
      BY <1>3, UpdateDataEffect
    <2> QED BY <2>1 DEF Fresh
  <1>4. CASE \E m \in About(k) : \E s \in Stripes, out \in SUBSET Stripes : Packed(m, s, out)
    <2>1. Counted(k)' = Counted(k) /\ keys' = keys BY <1>4, PackedEffect
    <2> QED BY <2>1 DEF Fresh
  <1>5. CASE \E m \in About(k) : SetParity(m)
    <2>1. PICK m \in About(k) : SetParity(m) BY <1>5
    <2>2. m \in Counted(k) /\ About(k)' = About(k) \ {m} /\ keys'[k] \in {keys[k], {m.op}}
      BY <2>1, SetParityEffect
    <2>3. Counted(k)' = Counted(k) \ {m} BY <2>2, CountedRemoved
    <2> QED BY <2>2, <2>3 DEF Fresh
  <1>6. CASE \E m \in About(k) : UpdateKeyValue(m)
    <2>1. PICK m \in About(k) : UpdateKeyValue(m) BY <1>6
    <2>2. CASE keys[k] # {}
      <3>1. m \in Counted(k) /\ About(k)' = About(k) \ {m} /\ keys'[k] = SymDiff(keys[k], {m.op})
        BY <2>1, <2>2, UpdateKeyEffect
      <3>2. Counted(k)' = Counted(k) \ {m} BY <3>1, CountedRemoved
      <3> QED BY <3>1, <3>2 DEF Fresh, SymDiff
    <2>3. CASE keys[k] = {}
      <3>1. PICK n : /\ m \in Counted(k) /\ keys'[k] = {} /\ n.type = "chunk" /\ n.op = m.op
                     /\ About(k)' = (About(k) \ {m}) \cup {n}
        BY <2>1, <2>3, UpdateKeyEffect
      <3>2. Counted(k)' = (Counted(k) \ {m}) \cup {n} BY <3>1 DEF Counted
      <3> QED BY <3>1, <3>2 DEF Fresh
    <2> QED BY <2>2, <2>3
  <1>7. CASE \E m \in About(k) : UpdateChunk(m)
    <2>1. PICK m \in About(k) : m \in Counted(k) /\ About(k)' = About(k) \ {m} /\ keys' = keys
      BY <1>7, UpdateChunkEffect
    <2>2. Counted(k)' = Counted(k) \ {m} BY <2>1, CountedRemoved
    <2> QED BY <2>1, <2>2 DEF Fresh
  <1>8. CASE \E m \in msgs : SealChunk(m) /\ Lists(m, k)
    <2>1. About(k)' = About(k) /\ keys'[k] = {} BY <1>8, SealEffect
    <2>2. Counted(k)' = Counted(k) BY <2>1, CountedKept
    <2> QED BY <2>1, <2>2 DEF Fresh
  <1> QED BY <1>1, <1>2, <1>3, <1>4, <1>5, <1>6, <1>7, <1>8 DEF KeyStep

(* The writes in keys, in the parity chunk and under way add up to the     *)
(* object's value after every step.                                        *)
LEMMA ConservedStep ==
    ASSUME NEW k, KeyAssumed(k), KeyStep(k), Conserved(k)
    PROVE  Conserved(k)'
  <1> USE DEF KeyAssumed
  <1> SUFFICES ASSUME Found(k)' PROVE ValueOf(k)' = SymDiff(SymDiff(Cell(k)', keys'[k]), InFlight(k)')
    BY DEF Conserved
  <1>1. CASE Aside(k)
    <2>1. About(k)' = About(k) /\ keys'[k] = keys[k] /\ Found(k) /\ ValueOf(k)' = ValueOf(k) /\ Cell(k)' = Cell(k)
      BY <1>1 DEF Aside
    <2>2. InFlight(k)' = InFlight(k) BY <2>1, CountedKept
    <2> QED BY <2>1, <2>2 DEF Conserved
  <1>2. CASE SetRequest(k)
    <2>1. index'[k] = Nowhere BY <1>2, SetRequestEffect
    <2> QED BY <2>1 DEF Found
  <1>3. CASE UpdateData(k)
    <2>1. PICK n : /\ Found(k) /\ UNCHANGED <<index, keys, pending, parity>>
                   /\ ValueOf(k)' = SymDiff(ValueOf(k), {n.op})
                   /\ InFlight(k)' = SymDiff(InFlight(k), {n.op})
      BY <1>3, UpdateDataEffect
    <2>2. Cell(k)' = Cell(k) BY <2>1 DEF Cell
    <2> QED BY <2>1, <2>2, XorSent DEF Conserved
  <1>4. CASE \E m \in About(k) : \E s \in Stripes, out \in SUBSET Stripes : Packed(m, s, out)
    <2>1. PICK m \in About(k) : /\ ValueOf(k)' = {m.op} /\ Cell(k)' = {} /\ keys' = keys
                                /\ InFlight(k)' = InFlight(k) /\ SymDiff(keys[k], InFlight(k)) = {m.op}
      BY <1>4, PackedEffect
    <2> QED BY <2>1, XorEmpty
  <1>5. CASE \E m \in About(k) : SetParity(m)
    <2>1. PICK m \in About(k) : SetParity(m) BY <1>5
    <2>2. /\ SetTo(m, "parity") /\ m \in Counted(k) /\ About(k)' = About(k) \ {m} /\ UNCHANGED <<data, index>>
      BY <2>1, SetParityEffect
    <2>3. keys[k] = {} /\ pending[k].type \in {"none", "seal"} BY <2>2 DEF Once
    <2>4. Found(k) /\ ValueOf(k)' = ValueOf(k) /\ index[k] # Nowhere BY <2>2, DataSame DEF Found
    <2>5. InFlight(k)' = SymDiff(InFlight(k), {m.op}) BY <2>2, CountedRemoved, InFlightArrived
    <2>6. ValueOf(k) = SymDiff(SymDiff(Cell(k), {}), InFlight(k)) BY <2>3, <2>4 DEF Conserved
    <2>7. CASE pending[k] = NoRequest
      <3>1. keys'[k] = {m.op} /\ parity' = parity BY <2>1, <2>3, <2>7, SetParityEffect
      <3>2. Cell(k)' = Cell(k) BY <2>2, <3>1 DEF Cell
      <3>3. keys'[k] = SymDiff({}, {m.op}) BY <3>1, XorEmpty
      <3> QED BY <2>4, <2>5, <2>6, <3>2, <3>3, XorToKeys
    <2>8. CASE pending[k] # NoRequest
      <3>1. pending[k].type = "seal"
        <4>1. pending[k] \in Requests BY TypeParts DEF StoreInv, RestType
        <4> QED BY <2>3, <2>8, <4>1 DEF Requests, NoRequest
      <3>2. keys'[k] = {} /\ parity' = Applied(pending[k].place, {m.op}) BY <2>1, <2>3, <2>8, <3>1, SetParityEffect
      <3>3. pending[k].place = index[k] BY <3>1 DEF Single
      <3>4. Cell(k)' = SymDiff(Cell(k), {m.op}) BY <2>2, <2>4, <3>2, <3>3, CellApplied
      <3> QED BY <2>4, <2>5, <2>6, <3>2, <3>4, XorToParity
    <2> QED BY <2>7, <2>8
  <1>6. CASE \E m \in About(k) : UpdateKeyValue(m)
    <2>1. PICK m \in About(k) : UpdateKeyValue(m) BY <1>6
    <2>2. m \in Counted(k) /\ UNCHANGED <<data, index, parity>> BY <2>1, UpdateKeyEffect
    <2>3. Found(k) /\ ValueOf(k)' = ValueOf(k) /\ Cell(k)' = Cell(k) BY <2>2, DataSame DEF Cell
    <2>4. ValueOf(k) = SymDiff(SymDiff(Cell(k), keys[k]), InFlight(k)) BY <2>3 DEF Conserved
    <2>5. CASE keys[k] # {}
      <3>1. About(k)' = About(k) \ {m} /\ keys'[k] = SymDiff(keys[k], {m.op}) BY <2>1, <2>5, UpdateKeyEffect
      <3>2. InFlight(k)' = SymDiff(InFlight(k), {m.op}) BY <2>2, <3>1, CountedRemoved, InFlightArrived
      <3> QED BY <2>3, <2>4, <3>1, <3>2, XorToKeys
    <2>6. CASE keys[k] = {}
      <3>1. PICK n : /\ keys'[k] = {} /\ n.type = "chunk" /\ n.op = m.op
                     /\ About(k)' = (About(k) \ {m}) \cup {n}
        BY <2>1, <2>6, UpdateKeyEffect
      <3>2. Counted(k)' = (Counted(k) \ {m}) \cup {n} BY <3>1 DEF Counted
      <3>3. InFlight(k)' = InFlight(k) BY <2>2, <3>1, <3>2, InFlightSwapped
      <3> QED BY <2>3, <2>4, <2>6, <3>1, <3>3
    <2> QED BY <2>5, <2>6
  <1>7. CASE \E m \in About(k) : UpdateChunk(m)
    <2>1. PICK m \in About(k) : UpdateChunk(m) BY <1>7
    <2>2. /\ m.type = "chunk" /\ m \in Counted(k) /\ About(k)' = About(k) \ {m}
          /\ UNCHANGED <<data, index, keys, pending>> /\ parity' = Applied(m.place, {m.op})
      BY <2>1, UpdateChunkEffect
    <2>3. Found(k) /\ ValueOf(k)' = ValueOf(k) /\ index[k] # Nowhere BY <2>2, DataSame DEF Found
    <2>4. ValueOf(k) = SymDiff(SymDiff(Cell(k), keys[k]), InFlight(k)) BY <2>3 DEF Conserved
    <2>5. m.place = index[k] BY <2>2 DEF Single
    <2>6. Cell(k)' = SymDiff(Cell(k), {m.op}) BY <2>2, <2>3, <2>5, CellApplied
    <2>7. InFlight(k)' = SymDiff(InFlight(k), {m.op}) BY <2>2, CountedRemoved, InFlightArrived
    <2> QED BY <2>2, <2>3, <2>4, <2>6, <2>7, XorToParity
  <1>8. CASE \E m \in msgs : SealChunk(m) /\ Lists(m, k)
    <2>1. /\ UNCHANGED <<data, index>> /\ About(k)' = About(k) /\ keys'[k] = {}
          /\ Found(k) => Cell(k)' = SymDiff(Cell(k), keys[k])
      BY <1>8, SealEffect
    <2>2. Found(k) /\ ValueOf(k)' = ValueOf(k) BY <2>1, DataSame
    <2>3. InFlight(k)' = InFlight(k) BY <2>1, CountedKept
    <2> QED BY <2>1, <2>2, <2>3, XorEmpty DEF Conserved
  <1> QED BY <1>1, <1>2, <1>3, <1>4, <1>5, <1>6, <1>7, <1>8 DEF KeyStep

(* A place is not Nowhere.                                                 *)
LEMMA PlaceSomewhere == ASSUME NEW s \in Stripes, NEW p PROVE Place(s, p) # Nowhere
  <1>1. s # 0 BY Bounds DEF Stripes
  <1>2. Place(s, p).stripe = s /\ Nowhere.stripe = 0 BY DEF Place, Nowhere
  <1> QED BY <1>1, <1>2

(* The index finds the object of k wherever it is.                         *)
LEMMA PlaceKept ==
    ASSUME NEW k, KeyAssumed(k), [Next]_vars,
           NEW s \in Stripes, NEW p \in DOMAIN data'[s], data'[s][p].key = k
    PROVE  index'[k] = Place(s, p)
  <1> USE DEF KeyAssumed
  <1>0. k # None /\ (p \in DOMAIN data[s] /\ data[s][p].key = k => index[k] = Place(s, p))
    BY ConstantsAssumption DEF Single
  <1>1. CASE data' = data /\ index' = index BY <1>0, <1>1
  <1>2. ASSUME NEW x \in Keys, UpdateData(x) PROVE index'[k] = Place(s, p)
    <2> DEFINE a == index[x].stripe
               b == index[x].pos
               obj == [data[a][b] EXCEPT !.val = SymDiff(data[a][b].val, {ops + 1})]
    <2>1. ops + 1 \in 1 .. MaxOps /\ Found(x) /\ index' = index
      BY <1>2, TypeParts, NextOp DEF UpdateData, RestType, StoreInv
    <2>2. data' = [data EXCEPT ![index[x].stripe][index[x].pos].val = SymDiff(@, {ops + 1})]
      BY <1>2 DEF UpdateData
    <2>3. LET c == index[x].stripe
              d == index[x].pos
              o == [data[c][d] EXCEPT !.val = SymDiff(data[c][d].val, {ops + 1})]
          IN  /\ c \in Stripes /\ d \in DOMAIN data[c]
              /\ o \in Objects /\ o.len = data[c][d].len /\ o.key = data[c][d].key
              /\ o.val = SymDiff(data[c][d].val, {ops + 1})
              /\ data' = [data EXCEPT ![c][d] = o]
      BY <2>1, <2>2, UpdateEffect
    <2>4. /\ a \in Stripes /\ b \in DOMAIN data[a] /\ obj \in Objects /\ obj.len = data[a][b].len
          /\ obj.key = data[a][b].key /\ data' = [data EXCEPT ![a][b] = obj]
      BY <2>3
    <2> HIDE DEF a, b, obj
    <2>5. /\ DataType'
          /\ \A t \in Stripes : /\ SizeOf(data'[t]) = SizeOf(data[t])
                                /\ DOMAIN data'[t] = DOMAIN data[t]
                                /\ data'[t] = <<>> <=> data[t] = <<>>
          /\ data'[a][b] = obj
          /\ \A t \in Stripes : \A q \in DOMAIN data[t] : <<t, q>> # <<a, b>> => data'[t][q] = data[t][q]
      BY <2>4, ChangeEffect
    <2>6. p \in DOMAIN data[s] BY <2>5
    <2>7. data[s][p].key = k
      <3>1. CASE s = a /\ p = b BY <2>4, <2>5, <3>1
      <3>2. CASE <<s, p>> # <<a, b>> BY <2>5, <2>6, <3>2
      <3> QED BY <3>1, <3>2
    <2> QED BY <1>0, <2>1, <2>6, <2>7
  <1>3. ASSUME NEW x \in Keys, DeleteData(x) PROVE index'[k] = Place(s, p)
    <2>0. reused' = reused \cup {x} /\ Found(x) /\ k \notin reused' BY <1>3 DEF DeleteData
    <2>1. x # k /\ Found(x) BY <2>0
    <2>2. index'[k] = index[k] BY <1>3, <2>1, StoreTypes DEF DeleteData, StoreInv
    <2>3. Grown BY StoreStep
    <2> DEFINE a == index[x].stripe
               obj == [data[a][1] EXCEPT !.key = None, !.val = {}]
    <2>4. data' = [data EXCEPT ![index[x].stripe][1].key = None, ![index[x].stripe][1].val = {}]
      BY <1>3 DEF DeleteData
    <2>5. LET c == index[x].stripe
              o == [data[c][1] EXCEPT !.key = None, !.val = {}]
          IN  /\ c \in Stripes /\ 1 \in DOMAIN data[c] /\ data[c] # <<>>
              /\ o \in Objects /\ o.len = data[c][1].len /\ o.key = None
              /\ data' = [data EXCEPT ![c][1] = o]
      BY <2>1, <2>4, DeleteEffect
    <2>6. /\ a \in Stripes /\ 1 \in DOMAIN data[a] /\ obj \in Objects
          /\ obj.len = data[a][1].len /\ obj.key = None /\ data' = [data EXCEPT ![a][1] = obj]
      BY <2>5
    <2> DEFINE b == 1
    <2>10. /\ a \in Stripes /\ b \in DOMAIN data[a] /\ obj \in Objects /\ obj.len = data[a][b].len
           /\ data' = [data EXCEPT ![a][b] = obj]
      BY <2>6
    <2> HIDE DEF a, obj, b
    <2>11. StoreInv OBVIOUS
    <2> HIDE DEF KeyAssumed
    <2>7. /\ DataType'
          /\ \A t \in Stripes : /\ SizeOf(data'[t]) = SizeOf(data[t])
                                /\ DOMAIN data'[t] = DOMAIN data[t]
                                /\ data'[t] = <<>> <=> data[t] = <<>>
          /\ data'[a][b] = obj
          /\ \A t \in Stripes : \A q \in DOMAIN data[t] : <<t, q>> # <<a, b>> => data'[t][q] = data[t][q]
      BY <2>10, <2>11, ChangeEffect
    <2> USE DEF KeyAssumed
    <2>8. p \in DOMAIN data[s] BY <2>7
    <2>9. data[s][p].key = k BY <1>0, <2>3, <2>8 DEF Grown
    <2> QED BY <1>0, <2>2, <2>8, <2>9
  <1>4. ASSUME NEW m \in msgs, NEW a \in Stripes, NEW out \in SUBSET Stripes, Packed(m, a, out)
        PROVE  index'[k] = Place(s, p)
    <2>1. m.key \in Keys /\ Appended(m.key, m.op, a) BY <1>4, PackedAppends
    <2> DEFINE q == Len(data[a]) + 1
    <2>2. /\ data'[a][q] = Object(m.key, m.op) /\ DOMAIN data'[a] = 1 .. q
          /\ \A x \in DOMAIN data[a] : data'[a][x] = data[a][x]
          /\ \A t \in Stripes : t # a => data'[t] = data[t]
      BY <2>1 DEF Appended
    <2>3. DOMAIN data[a] = 1 .. Len(data[a]) /\ Len(data[a]) \in Nat
      <3>1. data[a] \in Seq(Objects) BY StoreTypes DEF StoreInv, DataType
      <3> QED BY <3>1
    <2>4. (s = a /\ p = q) \/ (p \in DOMAIN data[s] /\ data'[s][p] = data[s][p])
      <3>1. CASE s = a
        <4>1. p \in 1 .. q BY <2>2, <3>1
        <4>2. p = q \/ p \in DOMAIN data[a] BY <2>3, <4>1
        <4> QED BY <2>2, <3>1, <4>2
      <3>2. CASE s # a BY <2>2, <3>2
      <3> QED BY <3>1, <3>2
    <2>5. CASE m.key = k
      <3>1. m \in About(k) BY <1>4, <2>5, PackedAppends
      <3>2. index[k] = Nowhere /\ index'[k] = Place(a, q) BY <1>4, <3>1, PackedEffect
      <3>3. ~(p \in DOMAIN data[s] /\ data[s][p].key = k) BY <1>0, <3>2, PlaceSomewhere
      <3> QED BY <2>4, <3>2, <3>3
    <2>6. CASE m.key # k
      <3>1. index'[k] = index[k] BY <1>4, <2>6, PackedAside DEF Aside
      <3>2. ~(s = a /\ p = q) BY <2>2, <2>6 DEF Object
      <3> QED BY <1>0, <2>4, <3>1, <3>2
    <2> QED BY <2>5, <2>6
  <1>5. ASSUME NEW m \in msgs, ParityStep(m) PROVE data' = data /\ index' = index
    BY <1>5, ParityTypes DEF StoreInv, dataVars
  <1>6. ASSUME NEW x \in Keys, SetRequest(x) PROVE data' = data /\ index' = index
    BY <1>6 DEF SetRequest, dataVars
  <1>7. ASSUME NEW m \in msgs, SetExisting(m) PROVE data' = data /\ index' = index
    BY <1>7 DEF SetExisting, dataVars
  <1>8. ASSUME SealAll PROVE data' = data /\ index' = index BY <1>8 DEF SealAll
  <1>9. ASSUME UNCHANGED vars PROVE data' = data /\ index' = index BY <1>9 DEF vars, dataVars
  <1> QED BY <1>1, <1>2, <1>3, <1>4, <1>5, <1>6, <1>7, <1>8, <1>9, StepKinds

(* The place of a key is fixed when its object is stored, until it is      *)
(* deleted or set again.                                                   *)
LEMMA IndexKept ==
    ASSUME NEW k, KeyAssumed(k), KeyStep(k)
    PROVE  index'[k] = index[k] \/ index[k] = Nowhere
  <1> USE DEF KeyAssumed
  <1>1. CASE Aside(k) BY <1>1 DEF Aside
  <1>2. CASE SetRequest(k) BY <1>2, SetRequestEffect
  <1>3. CASE UpdateData(k) BY <1>3 DEF UpdateData
  <1>4. CASE \E m \in About(k) : \E s \in Stripes, out \in SUBSET Stripes : Packed(m, s, out)
    BY <1>4, PackedEffect
  <1>5. CASE \E m \in About(k) : SetParity(m) BY <1>5, SetParityEffect
  <1>6. CASE \E m \in About(k) : UpdateKeyValue(m) BY <1>6, UpdateKeyEffect
  <1>7. CASE \E m \in About(k) : UpdateChunk(m) BY <1>7, UpdateChunkEffect
  <1>8. CASE \E m \in msgs : SealChunk(m) /\ Lists(m, k) BY <1>8, SealEffect
  <1> QED BY <1>1, <1>2, <1>3, <1>4, <1>5, <1>6, <1>7, <1>8 DEF KeyStep

(* All that speaks of a place of k keeps speaking of the same place.       *)
LEMMA SingleStep ==
    ASSUME NEW k, KeyAssumed(k), KeyStep(k), [Next]_vars
    PROVE  Single(k)'
  <1> USE DEF KeyAssumed
  <1>0. StoreInv' BY StoreStep
  <1>1. \A s \in Stripes : \A p \in DOMAIN data'[s] : data'[s][p].key = k => index'[k] = Place(s, p)
    BY PlaceKept
  <1>2. ASSUME NEW n \in About(k)', n.type \in {"update", "chunk"} PROVE n.place = index'[k]
    <2>0. \A m \in About(k) : m.type \in {"update", "chunk"} => m.place = index[k] BY DEF Single
    <2>1. CASE Aside(k) BY <1>2, <2>0, <2>1 DEF Aside
    <2>2. CASE SetRequest(k)
      <3>1. n.type = "set" BY <1>2, <2>2, SetRequestEffect
      <3> QED BY <1>2, <3>1
    <2>3. CASE UpdateData(k)
      <3>1. PICK l : l.place = index[k] /\ About(k)' = About(k) \cup {l} /\ index' = index
        BY <2>3, UpdateDataEffect
      <3> QED BY <1>2, <2>0, <3>1
    <2>4. CASE \E m \in About(k) : \E s \in Stripes, out \in SUBSET Stripes : Packed(m, s, out)
      <3>1. index[k] = Nowhere /\ n \in About(k) BY <1>2, <2>4, PackedEffect
      <3>2. n.type = "set" BY <3>1 DEF Once
      <3> QED BY <1>2, <3>2
    <2>5. CASE \E m \in About(k) : SetParity(m)
      <3>1. n \in About(k) /\ index' = index BY <1>2, <2>5, SetParityEffect
      <3> QED BY <1>2, <2>0, <3>1
    <2>6. CASE \E m \in About(k) : UpdateKeyValue(m)
      <3>1. PICK m \in About(k) : UpdateKeyValue(m) BY <2>6
      <3>2. m.type = "update" /\ index' = index BY <3>1, UpdateKeyEffect
      <3>3. m.place = index[k] BY <2>0, <3>2
      <3>4. CASE keys[k] # {}
        <4>1. About(k)' = About(k) \ {m} BY <3>1, <3>4, UpdateKeyEffect
        <4> QED BY <1>2, <2>0, <3>2, <4>1
      <3>5. CASE keys[k] = {}
        <4>1. PICK l : l.place = m.place /\ About(k)' = (About(k) \ {m}) \cup {l} BY <3>1, <3>5, UpdateKeyEffect
        <4> QED BY <1>2, <2>0, <3>2, <3>3, <4>1
      <3> QED BY <3>4, <3>5
    <2>7. CASE \E m \in About(k) : UpdateChunk(m)
      <3>1. n \in About(k) /\ index' = index BY <1>2, <2>7, UpdateChunkEffect
      <3> QED BY <1>2, <2>0, <3>1
    <2>8. CASE \E m \in msgs : SealChunk(m) /\ Lists(m, k)
      <3>1. n \in About(k) /\ index' = index BY <1>2, <2>8, SealEffect
      <3> QED BY <1>2, <2>0, <3>1
    <2> QED BY <2>1, <2>2, <2>3, <2>4, <2>5, <2>6, <2>7, <2>8 DEF KeyStep
  <1>3. ASSUME NEW n \in msgs', n.type = "seal", NEW p \in Positions, <<k, p>> \in n.records
        PROVE  index'[k] = Place(n.stripe, p)
    <2>1. CASE n \in msgs
      <3>1. index[k] = Place(n.stripe, p) BY <1>3, <2>1 DEF Single
      <3>2. n.stripe \in Stripes BY <1>3, <2>1, MessageKinds, StoreTypes DEF StoreInv
      <3> QED BY <3>1, <3>2, IndexKept, PlaceSomewhere
    <2>2. CASE n \notin msgs
      <3>1. NewSeal(n) BY <1>3, <2>2, MessagesNew DEF NewKind, NewDelta
      <3> DEFINE r == <<k, p>>
      <3>2. r \in n.records /\ r[1] = k /\ r[2] = p BY <1>3
      <3> HIDE DEF r
      <3>3. p \in DOMAIN data'[n.stripe] /\ data'[n.stripe][p].key = k BY <1>0, <3>1, <3>2, NewSealOwned
      <3>4. n.stripe \in Stripes BY <3>1 DEF NewSeal
      <3> QED BY <1>1, <3>3, <3>4
    <2> QED BY <2>1, <2>2
  <1>4. ASSUME pending'[k].type = "seal" PROVE pending'[k].place = index'[k]
    <2>1. CASE pending'[k] = pending[k]
      <3>1. pending[k].place = index[k] BY <1>4, <2>1 DEF Single
      <3>2. index[k] # Nowhere
        <4>1. pending[k] # NoRequest BY <1>4, <2>1 DEF NoRequest
        <4> QED BY <4>1 DEF Once
      <3> QED BY <2>1, <3>1, <3>2, IndexKept
    <2>2. CASE pending'[k] # pending[k]
      <3>1. PICK m \in msgs : ParityStep(m)
        BY <2>2, StepKinds DEF SetRequest, UpdateData, DeleteData, SetExisting, Packed, SealAll, vars, parityVars
      <3>2. PICK p \in Positions : m.type = "seal" /\ <<k, p>> \in m.records /\ pending'[k].place = Place(m.stripe, p)
        BY <1>4, <2>2, <3>1, PendingEffect
      <3>3. index[k] = Place(m.stripe, p) BY <3>2 DEF Single
      <3>4. index' = index BY <3>1, ParityTypes DEF StoreInv, dataVars
      <3> QED BY <3>2, <3>3, <3>4
    <2> QED BY <2>1, <2>2
  <1> QED BY <1>1, <1>2, <1>3, <1>4 DEF Single

(* Seal requests are sent, and leave when they are handled.                *)
LEMMA SealsPersist ==
    ASSUME StoreInv, [Next]_vars, NEW n \in msgs, n.type = "seal", n \notin msgs'
    PROVE  SealChunk(n)
  <1>1. ASSUME NEW m \in msgs, SetExisting(m) PROVE FALSE
    <2>1. m.type = "set" /\ msgs' = msgs \ {m} BY <1>1 DEF SetExisting, ToData
    <2>2. m # n BY <2>1
    <2> QED BY <2>1, <2>2
  <1>2. ASSUME NEW m \in msgs, NEW s \in Stripes, NEW out \in SUBSET Stripes, Packed(m, s, out) PROVE FALSE
    <2>1. m.type = "set" /\ msgs \ {m} \subseteq msgs' BY <1>2 DEF Packed, ToData
    <2>2. m # n BY <2>1
    <2> QED BY <2>1, <2>2
  <1>3. ASSUME NEW m \in msgs, ParityStep(m) PROVE SealChunk(n)
    <2>1. msgs \ {m} \subseteq msgs'
      BY <1>3 DEF ParityStep, SetParity, SealChunk, UpdateKeyValue, UpdateChunk, DeleteParity, DeleteChunk
    <2>2. m = n BY <2>1
    <2> QED BY <1>3, <2>2 DEF ParityStep, SetParity, UpdateKeyValue, UpdateChunk, DeleteParity, DeleteChunk
  <1>4. ASSUME SealAll \/ (\E k \in Keys : SetRequest(k) \/ UpdateData(k) \/ DeleteData(k)) \/ UNCHANGED vars
        PROVE  FALSE
    BY <1>4 DEF SealAll, SetRequest, UpdateData, DeleteData, vars
  <1> QED BY <1>1, <1>2, <1>3, <1>4, StepKinds

(* The parity server does not forget that a chunk was sealed.              *)
LEMMA IndicatorKept == ASSUME StoreInv, [Next]_vars PROVE indicator \subseteq indicator'
  <1>1. ASSUME NEW m \in msgs, ParityStep(m) PROVE indicator \subseteq indicator'
    BY <1>1 DEF ParityStep, SetParity, SealChunk, UpdateKeyValue, UpdateChunk, DeleteParity, DeleteChunk
  <1> QED BY <1>1, StepKinds DEF SetRequest, UpdateData, DeleteData, SetExisting, Packed, SealAll, vars, parityVars

(* The request that seals the chunk of k lists k, when the chunk has no    *)
(* hole.                                                                   *)
LEMMA SealAnnounces ==
    ASSUME StoreInv', NEW k \in Keys, Found(k)', HoleFree(index[k].stripe)',
           NEW out \in SUBSET Stripes, index'[k].stripe \in out, SealRequests(out, data') \subseteq msgs'
    PROVE  Announced(k)'
  <1> DEFINE s == index'[k].stripe
             p == index'[k].pos
  <1>1. s \in Stripes /\ p \in DOMAIN data'[s] /\ data'[s][p].key = k
    <2>1. index'[k] # Nowhere /\ data'[s][p].key = k BY DEF Found
    <2>2. p \in DOMAIN data'[s] BY <2>1 DEF StoreInv, IndexOwned, Owns
    <2> QED BY <2>1, <2>2
  <1>2. \A t \in Stripes : data'[t] \in Seq(Objects) /\ SizeOf(data'[t]) <= Capacity
    BY TypeParts DEF StoreInv, DataType, SizesExact
  <1>3. \A q \in DOMAIN data'[s] : data'[s][q].key # None BY DEF HoleFree
  <1> DEFINE chunk == data'[s]
  <1>4. <<chunk[p].key, p>> \in SealRecords(chunk)
    <2>1. chunk \in Seq(Objects) /\ SizeOf(chunk) <= Capacity BY <1>1, <1>2
    <2>2. p \in DOMAIN chunk /\ \A q \in DOMAIN chunk : chunk[q].key # None BY <1>1, <1>3
    <2> HIDE DEF chunk, p
    <2> QED BY <2>1, <2>2, SealRecordsAre
  <1>5. <<k, p>> \in SealRecords(data'[s]) BY <1>1, <1>4
  <1>6. PICK n \in SealRequests(out, data') : n.type = "seal" /\ n.stripe = s /\ n.records = SealRecords(data'[s])
    <2>1. SealRecords(data'[s]) # {} BY <1>5
    <2> DEFINE m == [type |-> "seal", stripe |-> s, records |-> SealRecords(data'[s])]
    <2>2. m \in SealRequests(out, data') BY <2>1 DEF SealRequests
    <2>3. m.type = "seal" /\ m.stripe = s /\ m.records = SealRecords(data'[s]) OBVIOUS
    <2> HIDE DEF m
    <2> QED BY <2>2, <2>3
  <1>7. n \in msgs' BY <1>6
  <1> QED BY <1>5, <1>6, <1>7 DEF Announced

(* A chunk that leaves the buffer is announced; one that had left it       *)
(* before has a hole, if an object was added.                              *)
LEMMA SealSent ==
    ASSUME NEW k, KeyAssumed(k), [Next]_vars,
           Found(k)', Closed(index[k].stripe)', HoleFree(index[k].stripe)'
    PROVE  \/ Announced(k)'
           \/ /\ Found(k) /\ index'[k] = index[k]
              /\ Closed(index[k].stripe) /\ HoleFree(index[k].stripe)
  <1> USE DEF KeyAssumed
  <1>0. StoreInv' /\ Grown BY StoreStep
  <1> DEFINE s == index'[k].stripe
             Before == /\ Found(k) /\ index'[k] = index[k]
                       /\ Closed(index[k].stripe) /\ HoleFree(index[k].stripe)
  <1>1. s \in Stripes
    <2>1. index'[k] # Nowhere BY DEF Found
    <2>2. index' \in [Keys -> Places \cup {Nowhere}] BY <1>0, TypeParts DEF StoreInv
    <2>3. index'[k] \in Places BY <2>1, <2>2
    <2> QED BY <2>3 DEF Places
  <1>2. HoleFree(s) /\ ClosedIn(buffer', s)
    <2>1. HoleFree(index[k].stripe)' => \A p \in DOMAIN data'[s] : data'[s][p].key # None BY DEF HoleFree
    <2>2. \A p \in DOMAIN data[s] : data[s][p].key # None
      <3> TAKE p \in DOMAIN data[s]
      <3>1. p \in DOMAIN data'[s] /\ data'[s][p].key \in {data[s][p].key, None} BY <1>0, <1>1 DEF Grown
      <3> QED BY <2>1, <3>1
    <2> QED BY <2>2 DEF HoleFree, Closed
  <1>3. ASSUME NEW m \in msgs, NEW a \in Stripes, NEW out \in SUBSET Stripes, Packed(m, a, out)
        PROVE  Announced(k)' \/ Before
    <2>1. SealRequests(out, data') \subseteq msgs' BY <1>3 DEF Packed
    <2>2. CASE s \in out BY <1>0, <2>1, <2>2, SealAnnounces
    <2>3. CASE s \notin out
      <3>1. Closed(s) BY <1>1, <1>2, <1>3, <2>3 DEF Packed, Closed
      <3>2. CASE m.key = k
        <4>1. m \in About(k) BY <1>3, <3>2, PackedAppends
        <4>2. s = a BY <1>3, <4>1, PackedEffect
        <4>3. a \in buffer.reInserted BY <1>3, <3>1, <4>2 DEF Packed
        <4>4. data[a] # <<>> /\ data[a][1].key = None BY <4>3 DEF StoreInv, Reopened
        <4>5. data[a] \in Seq(Objects) BY StoreTypes DEF StoreInv, DataType
        <4>6. 1 \in DOMAIN data[a] BY <4>4, <4>5
        <4> QED BY <1>2, <4>2, <4>4, <4>6 DEF HoleFree
      <3>3. CASE m.key # k
        <4>1. Found(k) /\ index'[k] = index[k] BY <1>3, <3>3, PackedAside DEF Aside
        <4> QED BY <1>2, <3>1, <4>1
      <3> QED BY <3>2, <3>3
    <2> QED BY <2>2, <2>3
  <1>4. ASSUME SealAll PROVE Announced(k)' \/ Before
    <2> DEFINE out == Range(buffer.chunks)
    <2>1. /\ out \in SUBSET Stripes /\ \A t \in Stripes : Closed(t)' <=> Closed(t) \/ t \in out
          /\ data' = data
      BY <1>4, SealAllEffect
    <2>2. index' = index /\ SealRequests(out, data') \subseteq msgs' BY <1>4, <2>1 DEF SealAll
    <2> HIDE DEF out
    <2>3. CASE s \in out BY <1>0, <2>1, <2>2, <2>3, SealAnnounces
    <2>4. CASE s \notin out
      <3>1. Closed(s) BY <1>1, <1>2, <2>1, <2>4 DEF Closed
      <3>2. Found(k) BY <2>1, <2>2, DataSame
      <3> QED BY <1>2, <2>2, <3>1, <3>2
    <2> QED BY <2>3, <2>4
  <1>5. ASSUME buffer'.chunks = buffer.chunks, buffer'.stripeId = buffer.stripeId,
               index'[k] = index[k], Found(k)
        PROVE  Before
    <2>1. Closed(s) BY <1>2, <1>5 DEF Closed, ClosedIn
    <2> QED BY <1>2, <1>5, <2>1
  <1>6. ASSUME UNCHANGED dataVars PROVE Before
    <2>1. buffer' = buffer /\ index' = index /\ data' = data BY <1>6 DEF dataVars
    <2>2. Found(k) BY <2>1, DataSame
    <2> QED BY <1>5, <2>1, <2>2
  <1>7. ASSUME NEW x \in Keys, UpdateData(x) PROVE Before
    <2>1. buffer' = buffer /\ index' = index /\ Found(x) BY <1>7 DEF UpdateData
    <2>2. Found(k) BY <1>7, <2>1, UpdateAside DEF Aside
    <2> QED BY <1>5, <2>1, <2>2
  <1>8. ASSUME NEW x \in Keys, DeleteData(x) PROVE Before
    <2>1. reused' = reused \cup {x} BY <1>8 DEF DeleteData
    <2>2. x # k BY <2>1
    <2>3. Found(k) /\ index'[k] = index[k] BY <1>8, <2>2, DeleteAside DEF Aside
    <2>4. buffer \in BufferType BY StoreTypes DEF StoreInv
    <2>5. buffer'.chunks = buffer.chunks /\ buffer'.stripeId = buffer.stripeId
      BY <1>8, <2>4 DEF DeleteData, BufferType
    <2> QED BY <1>5, <2>3, <2>5
  <1>9. ASSUME NEW m \in msgs, ParityStep(m) PROVE UNCHANGED dataVars BY <1>9, ParityTypes DEF StoreInv
  <1>10. ASSUME (\E x \in Keys : SetRequest(x)) \/ (\E m \in msgs : SetExisting(m)) \/ UNCHANGED vars
         PROVE  UNCHANGED dataVars
    BY <1>10 DEF SetRequest, SetExisting, vars
  <1> QED BY <1>3, <1>4, <1>6, <1>7, <1>8, <1>9, <1>10, StepKinds

(* Before its chunk is sealed an object stays in keys or on its way        *)
(* there, and then it is announced or moved.                               *)
LEMMA WhereStep ==
    ASSUME NEW k, KeyAssumed(k), KeyStep(k), [Next]_vars, Where(k)
    PROVE  Where(k)'
  <1> USE DEF KeyAssumed
  <1> SUFFICES ASSUME Found(k)'
               PROVE  /\ ~Closed(index[k].stripe)' => InKeys(k)'
                      /\ Closed(index[k].stripe)' /\ HoleFree(index[k].stripe)' => Announced(k)' \/ Moved(k)'
    BY DEF Where
  <1>0. StoreInv' /\ index'[k] # Nowhere BY StoreStep DEF Found
  <1>1. ASSUME ~Closed(index[k].stripe)' PROVE InKeys(k)'
    <2>0. ASSUME index'[k] = index[k], Found(k) PROVE InKeys(k)
      <3>1. index[k].stripe \in Stripes BY <2>0, StoreTypes DEF StoreInv, Found
      <3>2. ~Closed(index[k].stripe)
        <4> SUFFICES ASSUME Closed(index[k].stripe) PROVE FALSE OBVIOUS
        <4> DEFINE s == index[k].stripe
        <4>1. s \in Stripes /\ Closed(s) BY <3>1
        <4> HIDE DEF s
        <4>2. ClosedIn(buffer', s) BY <4>1, ClosedKept DEF Closed
        <4> QED BY <1>1, <2>0, <4>2 DEF Closed, s
      <3> QED BY <2>0, <3>2 DEF Where
    <2>1. CASE Aside(k)
      <3>1. InKeys(k) BY <2>0, <2>1 DEF Aside
      <3> QED BY <2>1, <3>1 DEF Aside, InKeys
    <2>2. CASE SetRequest(k)
      <3>1. index'[k] = Nowhere BY <2>2, SetRequestEffect
      <3> QED BY <1>0, <3>1
    <2>3. CASE UpdateData(k)
      <3>1. PICK n : /\ n.type = (IF Closed(index[k].stripe) THEN "chunk" ELSE "update")
                     /\ About(k)' = About(k) \cup {n} /\ Found(k) /\ UNCHANGED <<index, keys, pending, parity>>
        BY <2>3, UpdateDataEffect
      <3>2. InKeys(k) BY <2>0, <3>1
      <3>3. ~Closed(index[k].stripe)
        <4> DEFINE s == index[k].stripe
        <4>1. s \in Stripes BY <1>0, <3>1, StoreTypes DEF StoreInv
        <4> HIDE DEF s
        <4>2. Closed(s) => ClosedIn(buffer', s) BY <4>1, ClosedKept DEF Closed
        <4> QED BY <1>1, <3>1, <4>2 DEF Closed, s
      <3>4. Cell(k)' = Cell(k) /\ n.type # "chunk" BY <3>1, <3>3 DEF Cell
      <3> QED BY <3>1, <3>2, <3>4 DEF InKeys
    <2>4. CASE \E m \in About(k) : \E s \in Stripes, out \in SUBSET Stripes : Packed(m, s, out)
      <3>1. PICK m \in About(k) : /\ SetTo(m, "data") /\ index[k] = Nowhere /\ About(k)' = About(k) \ {m}
                                  /\ UNCHANGED <<keys, pending, parity>> /\ Cell(k)' = {}
                                  /\ SymDiff(keys[k], InFlight(k)) = {m.op}
        BY <2>4, PackedEffect
      <3>2. pending[k] = NoRequest /\ \A n \in About(k) : n.type = "set" BY <3>1 DEF Once
      <3>3. pending'[k].type = "none" BY <3>1, <3>2 DEF NoRequest
      <3>4. keys[k] # {} \/ \E n \in About(k)' : SetTo(n, "parity")
        <4> SUFFICES ASSUME keys[k] = {} PROVE \E n \in About(k)' : SetTo(n, "parity") OBVIOUS
        <4>1. InFlight(k) = {m.op} BY <3>1, XorEmpty
        <4>2. PICK n \in Counted(k) : TRUE BY <4>1, InFlightIs
        <4>3. n \in About(k) /\ SetTo(n, "parity") BY <3>2, <4>2 DEF Counted
        <4>4. n # m BY <3>1, <4>3 DEF SetTo
        <4> QED BY <3>1, <4>3, <4>4
      <3> QED BY <3>1, <3>2, <3>3, <3>4 DEF InKeys
    <2>5. CASE \E m \in About(k) : SetParity(m)
      <3>1. PICK m \in About(k) : SetParity(m) BY <2>5
      <3>2. SetTo(m, "parity") /\ About(k)' = About(k) \ {m} /\ UNCHANGED <<data, index>>
        BY <3>1, SetParityEffect
      <3>3. InKeys(k) BY <2>0, <3>2, DataSame
      <3>4. keys[k] = {} /\ pending[k].type = "none" BY <3>2, <3>3 DEF InKeys, Once
      <3>5. pending[k] = NoRequest
        <4>1. pending[k] \in Requests BY TypeParts DEF StoreInv, RestType
        <4> QED BY <3>4, <4>1 DEF Requests, NoRequest
      <3>6. keys'[k] = {m.op} /\ pending'[k] = NoRequest /\ parity' = parity BY <3>1, <3>4, <3>5, SetParityEffect
      <3>7. Cell(k)' = Cell(k) /\ pending'[k].type = "none" BY <3>2, <3>6 DEF Cell, NoRequest
      <3> QED BY <3>2, <3>3, <3>6, <3>7 DEF InKeys
    <2>6. CASE \E m \in About(k) : UpdateKeyValue(m)
      <3>1. PICK m \in About(k) : UpdateKeyValue(m) BY <2>6
      <3>2. m.type = "update" /\ m \in Counted(k) /\ UNCHANGED <<data, index, parity>> BY <3>1, UpdateKeyEffect
      <3>3. InKeys(k) /\ Cell(k)' = Cell(k) BY <2>0, <3>2, DataSame DEF Cell
      <3>4. keys[k] # {}
        <4>1. \A n \in About(k) : ~SetTo(n, "parity") BY <3>2 DEF Once
        <4> QED BY <3>3, <4>1 DEF InKeys
      <3>5. keys'[k] = SymDiff(keys[k], {m.op}) /\ pending'[k] = pending[k] /\ About(k)' = About(k) \ {m}
        BY <3>1, <3>4, UpdateKeyEffect
      <3>6. m.op \notin keys[k] BY <3>2 DEF Fresh
      <3>7. keys'[k] # {} BY <3>5, <3>6 DEF SymDiff
      <3> QED BY <3>3, <3>5, <3>7 DEF InKeys
    <2>7. CASE \E m \in About(k) : UpdateChunk(m)
      <3>1. PICK m \in About(k) : m.type = "chunk" /\ UNCHANGED <<data, index>> BY <2>7, UpdateChunkEffect
      <3>2. InKeys(k) BY <2>0, <3>1, DataSame
      <3> QED BY <3>1, <3>2 DEF InKeys
    <2>8. CASE \E m \in msgs : SealChunk(m) /\ Lists(m, k)
      <3>1. PICK m \in msgs : m.type = "seal" /\ index[k].stripe = m.stripe /\ UNCHANGED <<data, index>>
        BY <2>8, SealEffect
      <3>2. Closed(m.stripe) /\ m.stripe \in Stripes
        BY <3>1, MessageKinds, StoreTypes DEF SealsClosed, StoreInv
      <3>3. Closed(m.stripe)' BY <3>2, ClosedKept
      <3>4. index'[k].stripe = m.stripe BY <3>1
      <3> QED BY <1>1, <3>3, <3>4 DEF Closed
    <2> QED BY <2>1, <2>2, <2>3, <2>4, <2>5, <2>6, <2>7, <2>8 DEF KeyStep
  <1>2. ASSUME Closed(index[k].stripe)', HoleFree(index[k].stripe)', ~Announced(k)' PROVE Moved(k)'
    <2>1. /\ Found(k) /\ index'[k] = index[k]
          /\ Closed(index[k].stripe) /\ HoleFree(index[k].stripe)
      BY <1>2, SealSent
    <2>2. indicator \subseteq indicator' BY IndicatorKept
    <2>3. Announced(k) \/ Moved(k) BY <2>1 DEF Where
    <2>4. CASE Announced(k)
      <3>1. PICK n \in msgs : n.type = "seal" /\ n.stripe = index[k].stripe /\ <<k, index[k].pos>> \in n.records
        BY <2>4 DEF Announced
      <3>2. n \notin msgs' BY <1>2, <2>1, <3>1 DEF Announced
      <3>3. SealChunk(n) BY <3>1, <3>2, SealsPersist
      <3>4. Lists(n, k)
        <4>1. index[k].pos \in Positions BY <2>1, StoreTypes DEF StoreInv, Found
        <4> QED BY <3>1, <4>1 DEF Lists
      <3>5. /\ About(k)' = About(k) /\ keys'[k] = {} /\ indicator' = indicator \cup {n.stripe}
            /\ IF pending[k] = NoRequest /\ keys[k] = {}
               THEN pending'[k].type = "seal" /\ pending'[k].place = index[k]
               ELSE pending'[k] = pending[k]
        BY <3>3, <3>4, SealEffect
      <3>6. ASSUME NEW m \in About(k), SetTo(m, "parity") PROVE pending'[k].type = "seal"
        <4>1. keys[k] = {} /\ pending[k].type \in {"none", "seal"} BY <3>6 DEF Once
        <4>2. pending[k] \in Requests BY TypeParts DEF StoreInv, RestType
        <4>3. pending[k].type = "none" => pending[k] = NoRequest BY <4>2 DEF Requests, NoRequest
        <4> QED BY <3>5, <4>1, <4>3
      <3> QED BY <2>1, <3>1, <3>5, <3>6 DEF Moved
    <2>5. CASE Moved(k)
      <3>0. index'[k].stripe \in indicator' BY <2>1, <2>2, <2>5 DEF Moved
      <3>1. CASE Aside(k) BY <2>5, <3>0, <3>1 DEF Moved, Aside
      <3>2. CASE SetRequest(k)
        <4>1. index[k] = Nowhere BY <3>2, SetRequestEffect
        <4> QED BY <2>1, <4>1 DEF Found
      <3>3. CASE UpdateData(k)
        <4>1. PICK n : /\ n.type = (IF Closed(index[k].stripe) THEN "chunk" ELSE "update")
                       /\ About(k)' = About(k) \cup {n} /\ UNCHANGED <<index, keys, pending, parity>>
          BY <3>3, UpdateDataEffect
        <4>2. ~SetTo(n, "parity") BY <4>1 DEF SetTo
        <4> QED BY <2>5, <3>0, <4>1, <4>2 DEF Moved
      <3>4. CASE \E m \in About(k) : \E s \in Stripes, out \in SUBSET Stripes : Packed(m, s, out)
        <4>1. index[k] = Nowhere BY <3>4, PackedEffect
        <4> QED BY <2>1, <4>1 DEF Found
      <3>5. CASE \E m \in About(k) : SetParity(m)
        <4>1. PICK m \in About(k) : SetParity(m) BY <3>5
        <4>2. SetTo(m, "parity") /\ About(k)' = About(k) \ {m} BY <4>1, SetParityEffect
        <4>3. pending[k].type = "seal" /\ keys[k] = {} BY <2>5, <4>2 DEF Moved
        <4>4. pending[k] # NoRequest BY <4>3 DEF NoRequest
        <4>5. keys'[k] = {} BY <4>1, <4>3, <4>4, SetParityEffect
        <4>6. \A n \in About(k)' : ~SetTo(n, "parity") BY <4>2 DEF Once, SetTo
        <4> QED BY <3>0, <4>5, <4>6 DEF Moved
      <3>6. CASE \E m \in About(k) : UpdateKeyValue(m)
        <4>1. PICK m \in About(k) : UpdateKeyValue(m) BY <3>6
        <4>2. keys[k] = {} /\ m.type = "update" BY <2>5, <4>1, UpdateKeyEffect DEF Moved
        <4>3. PICK n : n.type = "chunk" /\ keys'[k] = {} /\ About(k)' = (About(k) \ {m}) \cup {n}
          BY <4>1, <4>2, UpdateKeyEffect
        <4>4. \A l \in About(k) : ~SetTo(l, "parity") BY <4>2 DEF Once
        <4>5. \A l \in About(k)' : ~SetTo(l, "parity") BY <4>3, <4>4 DEF SetTo
        <4> QED BY <3>0, <4>3, <4>5 DEF Moved
      <3>7. CASE \E m \in About(k) : UpdateChunk(m)
        <4>1. PICK m \in About(k) : About(k)' = About(k) \ {m} /\ UNCHANGED <<data, index, keys, pending>>
          BY <3>7, UpdateChunkEffect
        <4> QED BY <2>5, <3>0, <4>1 DEF Moved
      <3>8. CASE \E m \in msgs : SealChunk(m) /\ Lists(m, k)
        <4>1. /\ About(k)' = About(k) /\ keys'[k] = {}
              /\ IF pending[k] = NoRequest /\ keys[k] = {}
                 THEN pending'[k].type = "seal" /\ pending'[k].place = index[k]
                 ELSE pending'[k] = pending[k]
          BY <3>8, SealEffect
        <4>2. pending[k].type = "seal" => pending'[k].type = "seal" BY <4>1
        <4> QED BY <2>5, <3>0, <4>1, <4>2 DEF Moved
      <3> QED BY <3>1, <3>2, <3>3, <3>4, <3>5, <3>6, <3>7, <3>8 DEF KeyStep
    <2> QED BY <2>3, <2>4, <2>5
  <1> QED BY <1>1, <1>2
-----------------------------------------------------------------------------
(* The parity server has every write exactly once                          *)

(* The invariant: the data server's, the messages', and that of each key   *)
(* that is set once.                                                       *)
SealInv ==
    /\ StoreInv /\ PlacesOwned /\ OpsBounded /\ SealsClosed
    /\ \A k \in Keys \ reused : KeyInv(k)

(* The invariant holds initially.                                          *)
LEMMA SealInit == ASSUME Init PROVE SealInv
  <1>1. StoreInv BY StoreInit
  <1>2. /\ msgs = {} /\ keys = [k \in Keys |-> {}] /\ pending = [k \in Keys |-> NoRequest]
        /\ parity = [s \in Stripes |-> [p \in Positions |-> {}]] /\ index = [k \in Keys |-> Nowhere]
        /\ data = [s \in Stripes |-> <<>>]
    BY DEF Init
  <1>3. NoRequest.type = "none" BY DEF NoRequest
  <1>4. PlacesOwned BY <1>2, <1>3 DEF PlacesOwned, DeltasOwned, RecordsOwned, AwaitedOwned, ParityWithin
  <1>5. OpsBounded /\ SealsClosed BY <1>2 DEF OpsBounded, SealsClosed
  <1>6. ASSUME NEW k \in Keys PROVE KeyInv(k)
    <2>1. About(k) = {} BY <1>2 DEF About
    <2>2. Counted(k) = {} BY <2>1 DEF Counted
    <2>3. keys[k] = {} /\ pending[k] = NoRequest /\ index[k] = Nowhere BY <1>2
    <2>4. Once(k) BY <1>3, <2>1, <2>3 DEF Once
    <2>5. \A s \in Stripes : DOMAIN data[s] = {} BY <1>2
    <2>6. Single(k) BY <1>2, <1>3, <2>1, <2>3, <2>5 DEF Single
    <2>7. Fresh(k) BY <2>2 DEF Fresh
    <2>8. ~Found(k) BY <2>3 DEF Found
    <2> QED BY <2>4, <2>6, <2>7, <2>8 DEF KeyInv, Conserved, Where
  <1> QED BY <1>1, <1>4, <1>5, <1>6 DEF SealInv

(* Every step keeps the invariant.                                         *)
LEMMA SealStep ==
    ASSUME AnsweredOnly, SealInv, [Next]_vars
    PROVE  SealInv'
  <1>1. StoreInv /\ PlacesOwned /\ OpsBounded /\ SealsClosed BY DEF SealInv
  <1>2. StoreInv' /\ PlacesOwned' /\ OpsBounded' /\ SealsClosed'
    BY <1>1, StoreStep, PlacesStep, OpsStep, SealsStep
  <1>3. ASSUME NEW k \in Keys, k \notin reused' PROVE KeyInv(k)'
    <2>1. k \notin reused BY <1>1, <1>3, ReusedKept
    <2>2. KeyInv(k) BY <2>1 DEF SealInv
    <2>3. Once(k) /\ Single(k) /\ Fresh(k) /\ Conserved(k) /\ Where(k) BY <2>2 DEF KeyInv
    <2>4. KeyAssumed(k) BY <1>1, <1>3, <2>3 DEF KeyAssumed
    <2>5. KeyStep(k) BY <1>1, <1>3, <2>3, KeySteps
    <2>6. Once(k)' BY <2>4, <2>5, OnceStep
    <2>7. Single(k)' BY <2>4, <2>5, SingleStep
    <2>8. Fresh(k)' BY <2>4, <2>5, FreshStep
    <2>9. Conserved(k)' BY <2>3, <2>4, <2>5, ConservedStep
    <2>10. Where(k)' BY <2>3, <2>4, <2>5, WhereStep
    <2> QED BY <2>6, <2>7, <2>8, <2>9, <2>10 DEF KeyInv
  <1> QED BY <1>2, <1>3 DEF SealInv

(* The invariant implies the two properties.                               *)
LEMMA SealImplies ==
    ASSUME SealInv
    PROVE  DeltasConserved /\ Rebuildable
  <1>1. ASSUME NEW k \in Kept
        PROVE  /\ k \in Keys /\ Found(k) /\ Conserved(k) /\ Where(k)
               /\ ValueOf(k) = SymDiff(SymDiff(Cell(k), keys[k]), InFlight(k))
    <2>1. k \in Keys \ reused /\ Found(k) BY DEF Kept
    <2>2. KeyInv(k) BY <2>1 DEF SealInv
    <2> QED BY <2>1, <2>2 DEF KeyInv, Conserved
  <1>2. DeltasConserved BY <1>1 DEF DeltasConserved, Cell
  <1>3. Rebuildable
    <2> SUFFICES ASSUME msgs = {}, NEW k \in Kept
                 PROVE  /\ ~IsSealed(index[k].stripe) => keys[k] = ValueOf(k)
                        /\ IsSealed(index[k].stripe) /\ HoleFree(index[k].stripe) =>
                                /\ index[k].stripe \in indicator /\ keys[k] = {}
                                /\ parity[index[k].stripe][index[k].pos] = ValueOf(k)
      BY DEF Rebuildable
    <2> DEFINE s == index[k].stripe
    <2>1. About(k) = {} BY DEF About
    <2>2. InFlight(k) = {}
      <3>1. Counted(k) = {} BY <2>1 DEF Counted
      <3> QED BY <3>1, InFlightIs
    <2>3. ValueOf(k) = SymDiff(Cell(k), keys[k]) BY <1>1, <2>2, XorEmpty
    <2>4. Closed(s) <=> IsSealed(s)
      <3>0. StoreInv BY DEF SealInv
      <3>1. index[k] # Nowhere BY <1>1 DEF Found
      <3>2. s \in Stripes /\ index[k].pos \in DOMAIN data[s]
        BY <1>1, <3>0, <3>1, StoreTypes DEF StoreInv, IndexOwned, Owns
      <3>3. data[s] \in Seq(Objects) BY <3>0, <3>2, StoreTypes DEF StoreInv, DataType
      <3>4. data[s] # <<>> BY <3>2, <3>3
      <3> HIDE DEF s
      <3> QED BY <3>0, <3>2, <3>4, StartedIs
    <2>5. ASSUME ~IsSealed(s) PROVE keys[k] = ValueOf(k)
      <3>1. Cell(k) = {} BY <1>1, <2>4, <2>5 DEF Where, InKeys
      <3> QED BY <2>3, <3>1, XorEmpty
    <2>6. ASSUME IsSealed(s), HoleFree(s) PROVE s \in indicator /\ keys[k] = {} /\ Cell(k) = ValueOf(k)
      <3>1. Moved(k) BY <1>1, <2>4, <2>6 DEF Where, Announced
      <3>2. s \in indicator /\ keys[k] = {} BY <3>1 DEF Moved
      <3> QED BY <2>3, <3>2, XorEmpty
    <2> QED BY <2>5, <2>6 DEF Cell
  <1> QED BY <1>2, <1>3

(* However SETs, deltas and seals overtake each other between the two      *)
(* servers, no write to an object that is set once is lost or applied      *)
(* twice at the parity server, provided that clients wait for the answers  *)
(* to their SET before they update the key.                                *)
THEOREM WritesConserved == ASSUME AnsweredOnly PROVE Spec => []DeltasConserved
  <1>1. Init => SealInv BY SealInit
  <1>2. SealInv /\ [Next]_vars => SealInv' BY SealStep
  <1>3. SealInv => DeltasConserved BY SealImplies
  <1> QED BY <1>1, <1>2, <1>3, PTL DEF Spec

(* Under the same condition every such object can be rebuilt once all      *)
(* messages are handled: from the copy in keys while its chunk is in the   *)
(* buffer, from the parity chunk when it was sealed without a hole.        *)
THEOREM ObjectsRebuildable == ASSUME AnsweredOnly PROVE Spec => []Rebuildable
  <1>1. Init => SealInv BY SealInit
  <1>2. SealInv /\ [Next]_vars => SealInv' BY SealStep
  <1>3. SealInv => Rebuildable BY SealImplies
  <1> QED BY <1>1, <1>2, <1>3, PTL DEF Spec
=============================================================================

------------------------------ MODULE XorCodes ------------------------------
(***************************************************************************)
(* Erasure codes made of exclusive-or: RAID-0, RAID-1, RAID-5, RDP and     *)
(* EVENODD.  (common/coding)                                               *)
(*                                                                         *)
(* A byte is the set of the bytes of data it is the sum of, so that        *)
(* exclusive-or is symmetric difference, and what is shown for these       *)
(* bytes holds for all data.  A chunk maps offsets to bytes; chunks of a   *)
(* stripe are numbered from 0, and parity chunks from 1 (index).  A code   *)
(* is a record of its scheme, its number n of chunks and its chunk size.   *)
(***************************************************************************)
EXTENDS Integers, Sequences, FiniteSets, SequencesExt, FiniteSetsExt

\* getDataChunkCount and getParityChunkCount.
DataChunkCount(c) ==
    CASE c.scheme = "RAID0" -> c.n
      [] c.scheme = "RAID1" -> 1
      [] c.scheme = "RAID5" -> c.n - 1
      [] c.scheme \in {"RDP", "EVENODD"} -> c.n - 2
ParityChunkCount(c) == c.n - DataChunkCount(c)

Offsets(c) == 0 .. c.size - 1
Zeros(c) == [i \in Offsets(c) |-> {}]

\* Exclusive-or of a family of bytes.
Xor(F(_), S) == MapThenFoldSet(SymDiff, {}, F, LAMBDA T : CHOOSE x \in T : TRUE, S)
bitwiseXOR(A, B) == [i \in DOMAIN A |-> SymDiff(A[i], B[i])]

\* The size of a chunk that holds objects from its beginning on, found by scanning
\* them: nothing is found in a chunk that begins with zeros.
getSize(A) == IF A[0] = {} THEN 0 ELSE 1 + Max({i \in DOMAIN A : A[i] # {}})

-----------------------------------------------------------------------------
(***************************************************************************)
(* The prime number of RDP and EVENODD and the size of a symbol            *)
(***************************************************************************)

primeList == SelectSeq([i \in 1 .. 996 |-> i + 1], LAMBDA q : \A d \in 2 .. 31 : d < q => q % d # 0)
primeCount == Len(primeList)

\* Binary search for the least prime number that is not below the bound.
RECURSIVE Narrow(_, _, _)
Narrow(bound, start, end) ==
    IF start + 1 = end
    THEN <<start, end>>
    ELSE LET mid == (start + end) \div 2
         IN  IF primeList[mid] < bound THEN Narrow(bound, mid, end) ELSE Narrow(bound, start, mid)

\* A mutant: the number of data chunks is taken for the number of columns of RDP.
getPrimeColumnless(c) ==
    LET k == DataChunkCount(c)
        r == Narrow(k, 1, primeCount)
    IN  IF primeList[r[1]] >= k THEN r[1] ELSE r[2]

\* RDP needs a column for the row parity besides the data; EVENODD cannot use 2.
getPrime(c) ==
    LET k == DataChunkCount(c)
        bound == IF c.scheme = "RDP" THEN k + 1 ELSE k
        r == Narrow(bound, 1, primeCount)
    IN  IF primeList[r[1]] >= bound /\ (c.scheme = "RDP" \/ primeList[r[1]] # 2) THEN r[1] ELSE r[2]

\* The first prime number p from there on with a chunk size of p - 1 symbols.
Prime(c) == primeList[Min({q \in getPrime(c) .. primeCount : c.size % (primeList[q] - 1) = 0})]
getSymbolSize(c) == c.size \div (Prime(c) - 1)

-----------------------------------------------------------------------------
(***************************************************************************)
(* Encoding                                                                *)
(***************************************************************************)

\* Of a symbol, the bytes that the modified range covers; no range means all.
Covered(c, cidx, sidx, startOff, endOff) ==
    LET symbolSize == getSymbolSize(c)
        symbolOff == cidx * c.size + sidx * symbolSize
        offset == IF startOff > symbolOff THEN startOff - symbolOff ELSE 0
        len == endOff - (symbolOff + offset)
    IN  IF endOff = 0 \/ endOff = startOff
        THEN 0 .. symbolSize - 1
        ELSE IF symbolOff + symbolSize < startOff \/ symbolOff > endOff
        THEN {}
        ELSE offset .. (IF len + offset > symbolSize THEN symbolSize ELSE offset + len) - 1

\* Symbols of data chunks, each the chunk and the place in it, on the diagonal pidx.
Diagonal(columns, p, pidx) == {x \in columns \X (0 .. p - 2) : (x[1] + x[2]) % p = pidx}

RAID5Encode(c, data, parity) ==
    [i \in Offsets(c) |-> SymDiff(parity[i], Xor(LAMBDA j : data[j][i], 0 .. DataChunkCount(c) - 1))]

\* The diagonals of RDP run over the row parity too; one of them has no parity.
RDPDiagonal(c, data, parity, startOff, endOff) ==
    LET k == DataChunkCount(c)
        p == Prime(c)
        symbolSize == getSymbolSize(c)
        firstParity == RAID5Encode(c, data, Zeros(c))
        column(j) == IF j < k THEN data[j] ELSE firstParity
        covered(x) == IF x[1] < k THEN Covered(c, x[1], x[2], startOff, endOff) ELSE 0 .. symbolSize - 1
    IN  [i \in Offsets(c) |->
            LET pidx == i \div symbolSize
                o == i % symbolSize
            IN  SymDiff(parity[i],
                    Xor(LAMBDA x : column(x[1])[x[2] * symbolSize + o],
                        {x \in Diagonal(0 .. k, p, pidx) : o \in covered(x)}))]

\* EVENODD adds the sum of the diagonal without parity to the parity of all others.
EVENODDDiagonal(c, data, parity, startOff, endOff) ==
    LET k == DataChunkCount(c)
        p == Prime(c)
        symbolSize == getSymbolSize(c)
        sum(pidx, o) ==
            Xor(LAMBDA x : data[x[1]][x[2] * symbolSize + o],
                {x \in Diagonal(0 .. k - 1, p, pidx) : o \in Covered(c, x[1], x[2], startOff, endOff)})
    IN  [i \in Offsets(c) |->
            LET o == i % symbolSize
            IN  SymDiff(parity[i], SymDiff(sum(i \div symbolSize, o), sum(p - 1, o)))]

\* encode of the schemes.  Parity chunks are added to what they held, except for
\* RAID-1, which copies the objects of the data chunk.
encode(c, data, parity, index, startOff, endOff) ==
    CASE c.scheme = "RAID0" -> parity
      [] c.scheme = "RAID1" -> [i \in Offsets(c) |-> IF i < getSize(data[0]) THEN data[0][i] ELSE parity[i]]
      [] c.scheme = "RAID5" \/ (c.scheme \in {"RDP", "EVENODD"} /\ index = 1) -> RAID5Encode(c, data, parity)
      [] c.scheme = "RDP" /\ index = 2 -> RDPDiagonal(c, data, parity, startOff, endOff)
      [] c.scheme = "EVENODD" /\ index = 2 -> EVENODDDiagonal(c, data, parity, startOff, endOff)
      [] OTHER -> parity

-----------------------------------------------------------------------------
(***************************************************************************)
(* Decoding.  The result is FALSE and no chunks, or TRUE and all chunks.   *)
(***************************************************************************)

NotDecoded == [ok |-> FALSE]
Decoded(chunks) == [ok |-> TRUE, chunks |-> chunks]

\* performXOR, and decode of RAID-5: a column is added up from the others.
performXOR(c, chunks, target) ==
    [chunks EXCEPT ![target] = [i \in Offsets(c) |->
        SymDiff(@[i], Xor(LAMBDA j : chunks[j][i], (0 .. DataChunkCount(c)) \ {target}))]]

\* The diagonal parity is encoded again.
EncodeDiagonal(c, chunks) ==
    LET k == DataChunkCount(c)
    IN  [chunks EXCEPT ![k + 1] = encode(c, chunks, @, 2, 0, 0)]

\* Adds a family of symbols to a symbol of a chunk.
AddSymbols(c, chunks, target, sidx, symbols) ==
    LET symbolSize == getSymbolSize(c)
    IN  [chunks EXCEPT ![target] = [i \in Offsets(c) |->
            IF i \div symbolSize = sidx
            THEN SymDiff(@[i], Xor(LAMBDA x : chunks[x[1]][x[2] * symbolSize + (i % symbolSize)], symbols))
            ELSE @[i]]]

\* One round of RDP: a symbol is repaired along its diagonal, another along its row.
RDPRound(c, state) ==
    LET k == DataChunkCount(c)
        p == Prime(c)
        d == state.didx
        s == state.sidx
        D == state.byDiagonal
        R == state.byRow
        diagonal == {<<j, (d + p - j) % p>> : j \in (0 .. k) \ {D}}
        first == AddSymbols(c, state.chunks, D, s, {x \in diagonal : x[2] # p - 1} \cup {<<k + 1, d>>})
        next == (R + s) % p
    IN  [chunks |-> AddSymbols(c, first, R, s, {<<j, s>> : j \in (0 .. k) \ {R}}),
         byDiagonal |-> IF next = p - 1 THEN R ELSE D,
         byRow |-> IF next = p - 1 THEN D ELSE R,
         didx |-> IF next = p - 1 THEN D - 1 ELSE next,
         sidx |-> IF next = p - 1 THEN (D - 1 + p - R) % p ELSE (next + p - D) % p]

Cleared(c, chunks, failed) == [j \in DOMAIN chunks |-> IF j \in failed THEN Zeros(c) ELSE chunks[j]]

\* Two columns are lost.  The first diagonal has no symbol of the other one, and
\* column 0 has no diagonal without parity.
RDPTwo(c, chunks, failed) ==
    LET p == Prime(c)
        D == IF 0 \in failed THEN 0 ELSE Max(failed)
        R == CHOOSE j \in failed : j # D
        start == [chunks |-> Cleared(c, chunks, failed), byDiagonal |-> D, byRow |-> R,
                  didx |-> R - 1, sidx |-> (R - 1 + p - D) % p]
    IN  FoldLeft(LAMBDA state, i : RDPRound(c, state), start, [i \in 1 .. p - 1 |-> i]).chunks

RDPDecode(c, chunks, failed) ==
    LET k == DataChunkCount(c)
    IN  CASE failed = {k + 1} -> EncodeDiagonal(c, chunks)
          [] Cardinality(failed) = 1 /\ failed # {k + 1} -> performXOR(c, chunks, Min(failed))
          [] Cardinality(failed) = 2 /\ k + 1 \in failed -> EncodeDiagonal(c, performXOR(c, chunks, Min(failed)))
          [] OTHER -> RDPTwo(c, chunks, failed)

\* A column and the row parity are lost: the sum S is found on the diagonal that
\* misses the column, and the column along the diagonals.
EVENODDRowLost(c, chunks, lost) ==
    LET k == DataChunkCount(c)
        p == Prime(c)
        symbolSize == getSymbolSize(c)
        others == (0 .. k - 1) \ {lost}
        parityOf(pidx) == IF pidx # p - 1 THEN {<<k + 1, pidx>>} ELSE {}
        without == (lost - 1 + p) % p
        S(o) == Xor(LAMBDA x : chunks[x[1]][x[2] * symbolSize + o],
                    {<<j, (without + p - j) % p>> : j \in others} \cup parityOf(without))
        column == [i \in Offsets(c) |->
            LET pidx == (lost + i \div symbolSize) % p
                o == i % symbolSize
                symbols == {<<j, (pidx + p - j) % p>> : j \in others}
            IN  SymDiff(S(o), Xor(LAMBDA x : chunks[x[1]][x[2] * symbolSize + o],
                                  {x \in symbols : x[2] <= p - 2} \cup parityOf(pidx)))]
        repaired == [chunks EXCEPT ![lost] = column]
    IN  [repaired EXCEPT ![k] = encode(c, repaired, @, 1, 0, 0)]

\* One round of EVENODD: a symbol of the second column is repaired along its
\* diagonal, one of the first along its row.  Column k + 2 holds the sum S.
EVENODDRound(c, f0, f1, state) ==
    LET k == DataChunkCount(c)
        p == Prime(c)
        pidx == state.pidx
        s == state.sidx
        diagonal == {<<j, (p + pidx - j) % p>> : j \in (0 .. k - 1) \ {f1}}
        first == AddSymbols(c, state.chunks, f1, s,
                     {x \in diagonal : x[2] \notin {s, p - 1}}
                         \cup (IF pidx # p - 1 THEN {<<k + 1, pidx>>} ELSE {}) \cup {<<k + 2, 0>>})
        next == (f0 + s) % p
    IN  [chunks |-> AddSymbols(c, first, f0, s, {<<j, s>> : j \in (0 .. k) \ {f0}}),
         pidx |-> next, sidx |-> (next + p - f1) % p]

\* Two columns of data are lost: S is the sum of all parity.
EVENODDTwo(c, chunks, failed) ==
    LET k == DataChunkCount(c)
        p == Prime(c)
        symbolSize == getSymbolSize(c)
        f0 == Min(failed)
        f1 == Max(failed)
        S == [i \in Offsets(c) |->
                 Xor(LAMBDA x : chunks[x[1]][x[2] * symbolSize + (i % symbolSize)], {k, k + 1} \X (0 .. p - 2))]
        pidx == (f0 - 1 + p) % p
        start == [chunks |-> [j \in 0 .. k + 2 |-> IF j = k + 2 THEN S ELSE chunks[j]],
                  pidx |-> pidx, sidx |-> (pidx + p - f1) % p]
        end == FoldLeft(LAMBDA state, i : EVENODDRound(c, f0, f1, state), start, [i \in 1 .. p - 1 |-> i])
    IN  [j \in 0 .. k + 1 |-> end.chunks[j]]

EVENODDDecode(c, all, failed) ==
    LET k == DataChunkCount(c)
        chunks == Cleared(c, all, failed)
    IN  CASE failed = {k + 1} -> EncodeDiagonal(c, chunks)
          [] Cardinality(failed) = 1 /\ failed # {k + 1} -> performXOR(c, chunks, Min(failed))
          [] Cardinality(failed) = 2 /\ k + 1 \in failed -> EncodeDiagonal(c, performXOR(c, chunks, Min(failed)))
          [] Cardinality(failed) = 2 /\ Max(failed) = k -> EVENODDRowLost(c, chunks, Min(failed))
          [] OTHER -> EVENODDTwo(c, chunks, failed)

RAID1Decode(c, chunks, failed) ==
    LET from == Min((0 .. c.n - 1) \ failed)
        size == IF from = 0 THEN getSize(chunks[from]) ELSE c.size
    IN  [j \in DOMAIN chunks |->
            IF j \in failed THEN [i \in Offsets(c) |-> IF i < size THEN chunks[from][i] ELSE chunks[j][i]] ELSE chunks[j]]

\* decode of the schemes; the chunks that failed are not marked in the bitmap.
decode(c, chunks, failed) ==
    CASE c.scheme = "RAID0" -> IF failed = {} THEN Decoded(chunks) ELSE NotDecoded
      [] c.scheme = "RAID1" -> IF failed = 0 .. c.n - 1 THEN NotDecoded ELSE Decoded(RAID1Decode(c, chunks, failed))
      [] c.scheme = "RAID5" ->
             IF Cardinality(failed) > 1 THEN NotDecoded
             ELSE Decoded(performXOR(c, chunks, IF failed = {} THEN 0 ELSE Min(failed)))
      [] c.scheme = "RDP" ->
             IF Cardinality(failed) \notin {1, 2} THEN NotDecoded ELSE Decoded(RDPDecode(c, chunks, failed))
      [] c.scheme = "EVENODD" ->
             IF Cardinality(failed) \notin {1, 2} THEN NotDecoded ELSE Decoded(EVENODDDecode(c, chunks, failed))

-----------------------------------------------------------------------------
(***************************************************************************)
(* forceSeal brings parity chunks that were read at different times to     *)
(* the same data chunks.  seal[i] is the set of data chunks that the i-th  *)
(* parity chunk knows as sealed, from 0 on; sealed what the data servers   *)
(* say; parity chunks that are not there are not in alive.                 *)
(***************************************************************************)

forceSeal(c, chunks, seal, sealed, alive) ==
    LET k == DataChunkCount(c)
        known(j) == {i \in alive : j \in seal[i]}
        \* All parity chunks agree on a data chunk and they disagree with its server.
        dropped == {j \in sealed : alive # {} /\ known(j) = {}}
        data == [j \in 0 .. k - 1 |-> IF j \in dropped THEN Zeros(c) ELSE chunks[j]]
        missing(i) == (sealed \ dropped) \ seal[i]
        only(j) == [d \in 0 .. k - 1 |-> IF d = j THEN data[j] ELSE Zeros(c)]
        \* The parity chunk is named from 0 on here.
        sealOne(i, parity, j) == bitwiseXOR(parity, encode(c, only(j), Zeros(c), i, 0, c.size))
    IN  [chunks |-> [j \in DOMAIN chunks |->
                        IF j < k THEN data[j]
                        ELSE IF j - k \notin alive THEN chunks[j]
                        ELSE FoldLeft(LAMBDA parity, d : sealOne(j - k, parity, d), chunks[j], SetToSortSeq(missing(j - k), <))],
         sealed |-> sealed \ dropped]

-----------------------------------------------------------------------------
(***************************************************************************)
(* What the codes promise                                                  *)
(***************************************************************************)

\* Chunks of bytes that differ from each other; the last bytes may be free.
DataOf(c, used) == [j \in 0 .. DataChunkCount(c) - 1 |->
                       [i \in Offsets(c) |-> IF i < used THEN {<<j, i>>} ELSE {}]]
Parity(c, data, index) == encode(c, data, Zeros(c), index, 0, 0)
Stripe(c, data) ==
    LET k == DataChunkCount(c)
    IN  [j \in 0 .. c.n - 1 |-> IF j < k THEN data[j] ELSE Parity(c, data, j - k + 1)]

Tolerated(c) ==
    CASE c.scheme = "RAID0" -> 0
      [] c.scheme = "RAID1" -> c.n - 1
      [] c.scheme = "RAID5" -> 1
      [] OTHER -> 2

\* Any tolerated loss of chunks is repaired, and a larger one is refused.  What is
\* lost has been replaced by zeros.
Repairs(c, used, failed) ==
    \A stripe \in {Stripe(c, DataOf(c, used))} :
        failed # {} => decode(c, Cleared(c, stripe, failed), failed)
                           = IF Cardinality(failed) <= Tolerated(c) THEN Decoded(stripe) ELSE NotDecoded

\* Parity to which the parity of a modified range was added is the parity of the
\* modified data (ParityChunkBuffer::update).
DeltaExact(c, j, offset, len) ==
    LET data == DataOf(c, c.size)
        delta == [i \in Offsets(c) |-> IF i \in offset .. offset + len - 1 THEN {<<c.n, i>>} ELSE {}]
        only == [d \in 0 .. DataChunkCount(c) - 1 |-> IF d = j THEN delta ELSE Zeros(c)]
        from == offset + j * c.size
    IN  \A index \in 1 .. ParityChunkCount(c) :
            bitwiseXOR(Parity(c, data, index), encode(c, only, Zeros(c), index, from, from + len))
                = Parity(c, [data EXCEPT ![j] = bitwiseXOR(@, delta)], index)

\* The binary search finds the least prime number that is large enough, and symbols
\* fill a chunk.
SymbolsExact(c) ==
    LET least == IF c.scheme = "RDP" THEN DataChunkCount(c) + 1 ELSE Max({3, DataChunkCount(c)})
    IN  /\ primeList[getPrime(c)] = Min({q \in ToSet(primeList) : q >= least})
        /\ getSymbolSize(c) * (Prime(c) - 1) = c.size

\* After forceSeal all parity chunks are the parity of the same data chunks.
SealForced(c, seal, sealed, alive) ==
    LET k == DataChunkCount(c)
        data == DataOf(c, c.size)
        part(S) == [j \in 0 .. k - 1 |-> IF j \in S THEN data[j] ELSE Zeros(c)]
        chunks == [j \in 0 .. c.n - 1 |-> IF j < k THEN part(sealed)[j] ELSE Parity(c, part(seal[j - k]), j - k + 1)]
        result == forceSeal(c, chunks, seal, sealed, alive)
    IN  alive # {} => \A i \in alive : result.chunks[k + i] = Parity(c, part(result.sealed), i + 1)
=============================================================================

---------------------------- MODULE MatrixCodes ----------------------------
(***************************************************************************)
(* Reed-Solomon and Cauchy codes, built on jerasure or, by a build option, *)
(* on ISA-L, and the arithmetic of Galois fields of 2^w elements as the    *)
(* libraries below them do it: gf_complete below jerasure, or ISA-L.       *)
(* (common/coding/rscoding.cc, cauchycoding.cc, lib/jerasure,              *)
(* lib/gf_complete, lib/isa-l-2.14.0)                                      *)
(*                                                                         *)
(* A matrix maps rows to functions on columns, both from 0 on.  A chunk of *)
(* a Reed-Solomon code is the vector of coefficients with which it sums up *)
(* the k data chunks, a chunk of a Cauchy code a sequence of w packets,    *)
(* each the set of packets of data it is the sum of; so what is shown here *)
(* holds for all data.  A code is a record of k, m, the word width w and   *)
(* the library (jerasure or isal).                                         *)
(***************************************************************************)
EXTENDS Integers, Sequences, FiniteSets, SequencesExt, FiniteSetsExt

-----------------------------------------------------------------------------
(* Galois fields: a number is the set of its bits, so that exclusive-or is *)
(* symmetric difference and a shift adds to the members.                   *)

Bits(i) == {b \in 0 .. 15 : (i \div 2^b) % 2 = 1}
One == {0}

\* A function, with its values computed once.
Tabulated(f) == CHOOSE g \in {f} : g = f
Two == {1}
Shift(a, i) == {b + i : b \in a}
Elements(w) == SUBSET (0 .. w - 1)
Upwards(n) == [i \in 1 .. n |-> i - 1]
Downwards(n) == [i \in 1 .. n |-> n - i]

\* The primitive polynomials, with their highest bit.
prim_poly(w) ==
    CASE w = 1 -> {0}
      [] w \in {2, 3, 4, 6} -> {0, 1, w}
      [] w = 5 -> {0, 2, 5}
      [] w = 7 -> {0, 3, 7}
      [] w = 8 -> {0, 2, 3, 4, 8}

\* The product with 2.
Double(w, a) == IF w - 1 \in a THEN SymDiff(Shift(a, 1), prim_poly(w)) ELSE Shift(a, 1)

\* Long multiplication, then reduction from the highest bit down.
shift_multiply(w, a, b) ==
    LET product == FoldLeft(LAMBDA p, i : IF i \in a THEN SymDiff(p, Shift(b, i)) ELSE p, {}, Upwards(w))
    IN  FoldLeft(LAMBDA p, i : IF w + i \in p THEN SymDiff(p, Shift(prim_poly(w), i)) ELSE p,
                 product, Downwards(w - 1))

\* From the highest bit of a factor down: the product is doubled, the other factor added.
bytwo_p_multiply(w, a, b) ==
    FoldLeft(LAMBDA p, i : IF i \in a THEN SymDiff(Double(w, p), b) ELSE Double(w, p), {}, Downwards(w))

\* From the lowest bit up: the other factor is doubled.
bytwo_b_multiply(w, a, b) ==
    FoldLeft(LAMBDA s, i : [prod |-> IF i \in a THEN SymDiff(s.prod, s.b) ELSE s.prod, b |-> Double(w, s.b)],
             [prod |-> {}, b |-> b], Upwards(w)).prod

\* Tables of the powers of 2 and of logarithms.
LogTables(w) ==
    LET powers == FoldLeft(LAMBDA p, i : Append(p, Double(w, Last(p))), <<One>>, Upwards(2^w - 2))
    IN  [w |-> w, exp |-> powers,
         log |-> Tabulated([a \in Elements(w) \ {{}} |-> CHOOSE i \in 0 .. 2^w - 2 : powers[i + 1] = a])]

\* Tables of products and quotients, and of products with the lower and with the
\* upper half of the bits only, from long multiplication.
Tables(w) ==
    LET units == Elements(w) \ {{}}
        low == 0 .. (w \div 2) - 1
        prod == Tabulated([x \in units \X units |-> shift_multiply(w, x[1], x[2])])
    IN  [mult |-> prod,
         div |-> Tabulated([x \in units \X units |-> CHOOSE a \in units : prod[a, x[2]] = x[1]]),
         low |-> Tabulated([x \in {y \in units \X units : y[2] \subseteq low} |-> prod[x]]),
         high |-> Tabulated([x \in {y \in units \X units : Shift(y[2], w \div 2) \subseteq 0 .. w - 1} |->
                              prod[x[1], Shift(x[2], w \div 2)]])]

Tables4 == Tables(4)

\* A table has no entry for zero: it is what the memory was cleared to.
table_multiply(t, a, b) == IF a = {} \/ b = {} THEN {} ELSE t.mult[a, b]
table_divide(t, a, b) == IF a = {} THEN {} ELSE t.div[a, b]

\* A region is multiplied with the tables of the two halves.
split_multiply(t, w, a, b) ==
    LET half == w \div 2
        low == b \cap (0 .. half - 1)
        high == Shift(b \ low, -half)
    IN  IF a = {} THEN {}
        ELSE SymDiff(IF low = {} THEN {} ELSE t.low[a, low], IF high = {} THEN {} ELSE t.high[a, high])

GF1 == [w |-> 1, exp |-> <<One>>, log |-> [a \in {One} |-> 0]]
GF2 == LogTables(2)
GF3 == LogTables(3)
GF4 == LogTables(4)
GF8 == LogTables(8)
Field(w) == CASE w = 1 -> GF1 [] w = 2 -> GF2 [] w = 3 -> GF3 [] w = 4 -> GF4 [] w = 8 -> GF8

Order(f) == 2^f.w - 1

galois_single_multiply(f, a, b) ==
    IF a = {} \/ b = {} THEN {} ELSE f.exp[((f.log[a] + f.log[b]) % Order(f)) + 1]

\* A quotient by zero is no number, and not asked for.
galois_single_divide(f, a, b) ==
    IF a = {} THEN {} ELSE f.exp[((f.log[a] - f.log[b]) % Order(f)) + 1]

\* ISA-L has tables of logarithms for w = 8.
gf_mul(a, b) ==
    IF a = {} \/ b = {} THEN {}
    ELSE LET i == GF8.log[a] + GF8.log[b] IN GF8.exp[(IF i > 254 THEN i - 255 ELSE i) + 1]
gf_inv(a) == IF a = {} THEN {} ELSE GF8.exp[((255 - GF8.log[a]) % 255) + 1]

\* The multiples of a constant by the low and by the high half of a byte: each is
\* the sum of four doublings.
gf_vect_mul_init(c) ==
    LET doubled == FoldLeft(LAMBDA s, i : Append(s, Double(8, Last(s))), <<c>>, Upwards(7))
        multiple(bits, from) == MapThenFoldSet(SymDiff, {}, LAMBDA b : doubled[from + b + 1], LAMBDA S : CHOOSE b \in S : TRUE, bits)
    IN  [low |-> [x \in Elements(4) |-> multiple(x, 0)], high |-> [x \in Elements(4) |-> multiple(x, 4)]]

-----------------------------------------------------------------------------
\* All ways to multiply agree, and division undoes multiplication.
FieldExact(w, a, b) ==
    LET f == Field(w)
        product == shift_multiply(w, a, b)
    IN  /\ product = galois_single_multiply(f, a, b)
        /\ product = bytwo_p_multiply(w, a, b)
        /\ product = bytwo_b_multiply(w, a, b)
        /\ product \in Elements(w)
        /\ b # {} => galois_single_divide(f, product, b) = a
        /\ w = 4 => /\ product = table_multiply(Tables4, a, b)
                    /\ product = split_multiply(Tables4, 4, a, b)
                    /\ b # {} => table_divide(Tables4, product, b) = a
        /\ w = 8 => /\ product = gf_mul(a, b)
                    /\ a # {} => gf_mul(a, gf_inv(a)) = One
                    /\ LET t == gf_vect_mul_init(a)
                       IN  product = SymDiff(t.low[b \cap (0 .. 3)], t.high[Shift(b \cap (4 .. 7), -4)])

-----------------------------------------------------------------------------
(* The codes *)

RECURSIVE WidthFor(_, _)
WidthFor(n, w) == IF 2^w < n THEN WidthFor(n, w + 1) ELSE w

\* The width of a word: a whole byte at least, or a divisor of the chunk size.
RSWidth(k, m) == LET w == WidthFor(k + m, 1) IN IF w < 8 THEN 8 ELSE IF w < 16 THEN 16 ELSE 32
CauchyWidth(k, m, chunkSize) ==
    Min({w \in WidthFor(k + m, 1) .. 32 : chunkSize % w = 0})

Times(f, a, vector) == Tabulated([j \in DOMAIN vector |-> galois_single_multiply(f, a, vector[j])])
Plus(x, y) == Tabulated([j \in DOMAIN x |-> SymDiff(x[j], y[j])])
Unit(k, i) == [j \in 0 .. k - 1 |-> IF j = i THEN One ELSE {}]
Zero(k) == [j \in 0 .. k - 1 |-> {}]
\* Members in increasing order.
Sorted(S) == IF S = {} THEN <<>> ELSE SelectSeq(Upwards(Max(S) + 1), LAMBDA i : i \in S)
Swap(rows, i, j) == [rows EXCEPT ![i] = rows[j], ![j] = rows[i]]

-----------------------------------------------------------------------------
(***************************************************************************)
(* Coding matrices                                                         *)
(***************************************************************************)

\* Powers of the number of the row, between two rows of the identity.
reed_sol_extended_vandermonde_matrix(f, rows, cols) ==
    [i \in 0 .. rows - 1 |->
        CASE i = 0 -> Unit(cols, 0)
          [] i = rows - 1 -> Unit(cols, cols - 1)
          [] OTHER -> LET p == FoldLeft(LAMBDA s, j : Append(s, galois_single_multiply(f, Last(s), Bits(i))), <<One>>, Upwards(cols - 1))
                      IN  [j \in 0 .. cols - 1 |-> p[j + 1]]]

\* Column i becomes a column of the identity in the first rows: a row with a pivot
\* is found, the column divided by it and added to the other columns.
VandermondeColumn(f, dist, i) ==
    LET j == Min({r \in DOMAIN dist : r >= i /\ dist[r][i] # {}})
        swapped == Swap(dist, i, j)
        pivot == swapped[i][i]
        scaled == [r \in DOMAIN dist |-> [swapped[r] EXCEPT ![i] = galois_single_divide(f, @, pivot)]]
    IN  [r \in DOMAIN dist |-> [c \in DOMAIN dist[r] |->
            IF c = i THEN scaled[r][c]
            ELSE SymDiff(scaled[r][c], galois_single_multiply(f, scaled[i][c], scaled[r][i]))]]

\* Then the first row of parity and the first column of parity are made ones.
reed_sol_big_vandermonde_distribution_matrix(f, rows, cols) ==
    LET dist == FoldLeft(LAMBDA d, i : Tabulated(VandermondeColumn(f, d, i)),
                         reed_sol_extended_vandermonde_matrix(f, rows, cols), [i \in 1 .. cols - 1 |-> i])
        ones == Tabulated([r \in DOMAIN dist |->
            IF r < cols THEN dist[r]
            ELSE [c \in DOMAIN dist[r] |-> galois_single_divide(f, dist[r][c], dist[cols][c])]])
    IN  [r \in DOMAIN dist |->
            IF r <= cols THEN ones[r] ELSE [c \in DOMAIN ones[r] |-> galois_single_divide(f, ones[r][c], ones[r][0])]]

reed_sol_vandermonde_coding_matrix(f, k, m) ==
    LET dist == reed_sol_big_vandermonde_distribution_matrix(f, k + m, k)
    IN  [i \in 0 .. m - 1 |-> dist[k + i]]

\* Ones in the w by w matrix of bits of an element, counted while it is doubled.
cauchy_n_ones(f, n) ==
    LET w == f.w
        ones == prim_poly(w) \ {w}
        step(s, i) ==
            IF w - 1 \in s.n
            THEN LET doubled == Double(w, s.n)
                     cno == s.cno - 1 + Cardinality(doubled \cap ones) - Cardinality(ones \ doubled)
                 IN  [n |-> doubled, cno |-> cno, no |-> s.no + cno]
            ELSE [n |-> Shift(s.n, 1), cno |-> s.cno, no |-> s.no + s.cno]
    IN  FoldLeft(step, [n |-> n, cno |-> Cardinality(n), no |-> Cardinality(n)], Upwards(w - 1)).no

cauchy_original_coding_matrix(f, k, m) ==
    [i \in 0 .. m - 1 |-> [j \in 0 .. k - 1 |-> galois_single_divide(f, One, SymDiff(Bits(i), Bits(m + j)))]]

RowOnes(f, row) == MapThenSumSet(LAMBDA j : cauchy_n_ones(f, row[j]), DOMAIN row)

\* Columns are divided so that the first row is ones; every other row is divided by
\* the first element that makes its bits fewest.
cauchy_improve_coding_matrix(f, k, m, matrix) ==
    LET divided == [i \in 0 .. m - 1 |-> [j \in 0 .. k - 1 |-> galois_single_divide(f, matrix[i][j], matrix[0][j])]]
        by(row, e) == [j \in DOMAIN row |-> galois_single_divide(f, row[j], e)]
        improve(row) ==
            FoldLeft(LAMBDA best, j : IF row[j] # One /\ RowOnes(f, by(row, row[j])) < RowOnes(f, best) THEN by(row, row[j]) ELSE best,
                     row, Upwards(k))
    IN  [i \in 0 .. m - 1 |-> IF i = 0 THEN divided[i] ELSE improve(divided[i])]

\* Elements by the number of their bits, for two rows of parity.
cbest(w) ==
    CASE w = 2 -> <<1, 2, 3>>
      [] w = 3 -> <<1, 2, 5, 4, 7, 3, 6>>
      [] w = 4 -> <<1, 2, 9, 4, 8, 13, 3, 6, 12, 5, 11, 15, 10, 14, 7>>

cauchy_good_general_coding_matrix(f, k, m) ==
    IF m = 2
    THEN [i \in 0 .. 1 |-> [j \in 0 .. k - 1 |-> IF i = 0 THEN One ELSE Bits(cbest(f.w)[j + 1])]]
    ELSE cauchy_improve_coding_matrix(f, k, m, cauchy_original_coding_matrix(f, k, m))

\* The coding rows of ISA-L.
gf_gen_rs_matrix(k, m) ==
    LET power(a, n) == FoldLeft(LAMBDA p, i : gf_mul(p, a), One, Upwards(n))
    IN  [i \in 0 .. m - 1 |-> [j \in 0 .. k - 1 |-> power(power(Two, i), j)]]
gf_gen_cauchy1_matrix(k, m) == [i \in 0 .. m - 1 |-> [j \in 0 .. k - 1 |-> gf_inv(SymDiff(Bits(k + i), Bits(j)))]]

-----------------------------------------------------------------------------
(***************************************************************************)
(* Inversion.  A row holds a row of the matrix, then one of the inverse.   *)
(***************************************************************************)

\* No matrix, where there is no inverse.
Singular == <<>>
Beside(matrix, k) == [i \in 0 .. k - 1 |-> [j \in 0 .. 2 * k - 1 |-> IF j < k THEN matrix[i][j] ELSE IF j - k = i THEN One ELSE {}]]
RightHalf(rows, k) == [i \in 0 .. k - 1 |-> [j \in 0 .. k - 1 |-> rows[i][k + j]]]

\* Clears column i in the rows below, or in all others, after the pivot is made one.
Eliminate(f, rows, i, others) ==
    LET j == Min({r \in DOMAIN rows : r >= i /\ rows[r][i] # {}})
        swapped == Swap(rows, i, j)
        pivotRow == Times(f, galois_single_divide(f, One, swapped[i][i]), swapped[i])
    IN  Tabulated([r \in DOMAIN rows |->
            IF r = i THEN pivotRow
            ELSE IF r \in others THEN Plus(swapped[r], Times(f, swapped[r][i], pivotRow)) ELSE swapped[r]])

Pivotless(rows, i) == \A r \in DOMAIN rows : r >= i => rows[r][i] = {}

\* First to an upper triangle, then from the last column back.
jerasure_invert_matrix(f, matrix, k) ==
    LET upper == FoldLeft(LAMBDA rows, i : IF rows = Singular THEN Singular
                                           ELSE IF Pivotless(rows, i) THEN Singular ELSE Eliminate(f, rows, i, i + 1 .. k - 1),
                          Beside(matrix, k), Upwards(k))
        clear(rows, i) == Tabulated([r \in DOMAIN rows |-> IF r < i THEN Plus(rows[r], Times(f, rows[r][i], rows[i])) ELSE rows[r]])
    IN  IF upper = Singular THEN Singular ELSE RightHalf(FoldLeft(clear, upper, Downwards(k)), k)

\* ISA-L clears a column in all other rows at once.
gf_invert_matrix(matrix, k) ==
    LET all == FoldLeft(LAMBDA rows, i : IF rows = Singular THEN Singular
                                         ELSE IF Pivotless(rows, i) THEN Singular ELSE Eliminate(GF8, rows, i, (0 .. k - 1) \ {i}),
                        Beside(matrix, k), Upwards(k))
    IN  IF all = Singular THEN Singular ELSE RightHalf(all, k)

\* A matrix of bits maps rows to the sets of columns with a one.
jerasure_invert_bitmatrix(matrix, n) ==
    LET pivot(rows, i) ==
            LET j == Min({r \in DOMAIN rows : r >= i /\ i \in rows[r]})
                swapped == Swap(rows, i, j)
            IN  Tabulated([r \in DOMAIN rows |-> IF r > i /\ i \in swapped[r] THEN SymDiff(swapped[r], swapped[i]) ELSE swapped[r]])
        upper == FoldLeft(pivot, [i \in 0 .. n - 1 |-> matrix[i] \cup {n + i}], Upwards(n))
        clear(rows, i) == Tabulated([r \in DOMAIN rows |-> IF r < i /\ i \in rows[r] THEN SymDiff(rows[r], rows[i]) ELSE rows[r]])
        inverse == FoldLeft(clear, upper, Downwards(n))
    IN  Tabulated([i \in 0 .. n - 1 |-> {c - n : c \in inverse[i] \ (0 .. n - 1)}])

-----------------------------------------------------------------------------
(***************************************************************************)
(* Reed-Solomon.  chunks maps the chunks of a stripe to vectors.           *)
(***************************************************************************)

\* The sum of chunks with the coefficients of a row.  Nothing is written for a row
\* of zeros.
jerasure_matrix_dotprod(f, row, sources, dest, chunks) ==
    IF \A i \in DOMAIN row : row[i] = {}
    THEN chunks
    ELSE Tabulated([chunks EXCEPT ![dest] = FoldLeft(LAMBDA sum, i : Plus(sum, Times(f, row[i], chunks[sources[i]])),
                                           Zero(Cardinality(DOMAIN row)), Upwards(Cardinality(DOMAIN row)))])

Identity(k) == [i \in 0 .. k - 1 |-> i]

jerasure_matrix_encode(f, k, m, matrix, chunks) ==
    FoldLeft(LAMBDA c, i : jerasure_matrix_dotprod(f, matrix[i], Identity(k), k + i, c), chunks, Upwards(m))

\* The first k chunks that are there, and the rows they were made with.
jerasure_make_decoding_matrix(f, k, matrix, erased, n) ==
    LET there == Sorted((0 .. n - 1) \ erased)
        ids == [i \in 0 .. k - 1 |-> there[i + 1]]
    IN  [ids |-> ids,
         matrix |-> jerasure_invert_matrix(f, [i \in 0 .. k - 1 |-> IF ids[i] < k THEN Unit(k, ids[i]) ELSE matrix[ids[i] - k]], k)]

\* A mutant: the last data chunk is summed up although the first parity chunk is lost.
jerasure_matrix_decodeAnyParity(f, k, m, matrix, erased, chunks) ==
    LET data == {i \in erased : i < k}
        lastdrive == IF data # {} THEN Max(data) ELSE k
        d == jerasure_make_decoding_matrix(f, k, matrix, erased, k + m)
        decoded == FoldLeft(LAMBDA c, i : jerasure_matrix_dotprod(f, d.matrix[i], d.ids, i, c),
                            chunks, Sorted({i \in data : i < lastdrive}))
        last == IF \E i \in data : i >= lastdrive
                THEN jerasure_matrix_dotprod(f, matrix[0], [i \in 0 .. k - 1 |-> IF i < lastdrive THEN i ELSE i + 1], lastdrive, decoded)
                ELSE decoded
    IN  FoldLeft(LAMBDA c, i : jerasure_matrix_dotprod(f, matrix[i], Identity(k), k + i, c),
                 last, Sorted({i \in 0 .. m - 1 : k + i \in erased}))

\* Data chunks are decoded in order, the last one as the sum with the first parity
\* chunk if that one is there; then parity is encoded.
jerasure_matrix_decode(f, k, m, matrix, erased, chunks) ==
    LET data == {i \in erased : i < k}
        lastdrive == IF data # {} /\ k \notin erased THEN Max(data) ELSE k
        d == jerasure_make_decoding_matrix(f, k, matrix, erased, k + m)
        decoded == FoldLeft(LAMBDA c, i : jerasure_matrix_dotprod(f, d.matrix[i], d.ids, i, c),
                            chunks, Sorted({i \in data : i < lastdrive}))
        last == IF \E i \in data : i >= lastdrive
                THEN jerasure_matrix_dotprod(f, matrix[0], [i \in 0 .. k - 1 |-> IF i < lastdrive THEN i ELSE i + 1], lastdrive, decoded)
                ELSE decoded
    IN  FoldLeft(LAMBDA c, i : jerasure_matrix_dotprod(f, matrix[i], Identity(k), k + i, c),
                 last, Sorted({i \in 0 .. m - 1 : k + i \in erased}))

\* ISA-L's encoding overwrites chunks with sums of others.
ec_encode_data(rows, sources, chunks, dests) ==
    [j \in DOMAIN chunks |->
        IF \E l \in DOMAIN dests : dests[l] = j
        THEN LET l == CHOOSE l \in DOMAIN dests : dests[l] = j
                 k == Cardinality(DOMAIN rows[l])
             IN  FoldLeft(LAMBDA sum, i : Plus(sum, [x \in 0 .. k - 1 |-> gf_mul(chunks[sources[i]][x], rows[l][i])]), Zero(k), Upwards(k))
        ELSE chunks[j]]

\* One data chunk's part is added to parity.
ec_encode_data_update(rows, i, delta, parity) ==
    [l \in DOMAIN rows |-> Plus(parity[l], [x \in DOMAIN delta |-> gf_mul(delta[x], rows[l][i])])]

\* What is lost is encoded from the first k chunks that are there, with rows of the
\* inverse.  The inverse has no row for a lost parity chunk: what is read in its place
\* is garbage, any row.
ISALDecode(k, m, matrix, erased, garbage, chunks) ==
    LET there == Sorted((0 .. k + m - 1) \ erased)
        alive == [i \in 0 .. k - 1 |-> there[i + 1]]
        inverse == gf_invert_matrix([i \in 0 .. k - 1 |-> IF alive[i] < k THEN Unit(k, alive[i]) ELSE matrix[alive[i] - k]], k)
        lost == Sorted(erased)
    IN  IF inverse = Singular THEN Singular
        ELSE ec_encode_data([l \in DOMAIN lost |-> IF lost[l] < k THEN inverse[lost[l]] ELSE garbage], alive, chunks, lost)
-----------------------------------------------------------------------------
(***************************************************************************)
(* Cauchy.  A coding matrix of bits has w rows for every row of parity; a  *)
(* schedule is a sequence of copies and additions of packets.              *)
(***************************************************************************)

\* Row l of an element's bits, column x: bit l of the element doubled x times.
jerasure_matrix_to_bitmatrix(f, k, m, matrix) ==
    LET w == f.w
        doubled(e) == FoldLeft(LAMBDA s, x : Append(s, galois_single_multiply(f, Last(s), Two)), <<e>>, Upwards(w - 1))
    IN  Tabulated([r \in 0 .. m * w - 1 |->
            {c \in 0 .. k * w - 1 : (r % w) \in doubled(matrix[r \div w][c \div w])[(c % w) + 1]}])

Operation(w, from, to, xor) == [from |-> <<from \div w, from % w>>, to |-> <<to \div w, to % w>>, xor |-> xor]

\* The packets of a set are summed up into a packet, the first one copied.
SumUp(k, w, columns, row) ==
    LET s == Sorted(columns)
    IN  Tabulated([i \in DOMAIN s |-> Operation(w, s[i], k * w + row, i > 1)])

\* A row is done from the data, or from a row already done if that differs in fewer
\* places: its packet is copied and the differing packets are added.
ScheduleRow(k, w, bitmatrix, row, from) ==
    IF from = -1
    THEN SumUp(k, w, bitmatrix[row], row)
    ELSE LET s == Sorted(SymDiff(bitmatrix[row], bitmatrix[from]))
         IN  <<Operation(w, k * w + from, k * w + row, FALSE)>> \o [i \in DOMAIN s |-> Operation(w, s[i], k * w + row, TRUE)]

\* The next row is the first of those with the fewest operations.
jerasure_smart_bitmatrix_to_schedule(k, w, bitmatrix) ==
    LET rows == DOMAIN bitmatrix
        best(left, diff) == Min({r \in left : \A o \in left : diff[r] <= diff[o]})
        step(s, i) ==
            LET row == best(s.left, s.diff)
                left == s.left \ {row}
                no(r) == 1 + Cardinality(SymDiff(bitmatrix[row], bitmatrix[r]))
                closer == {r \in left : no(r) < s.diff[r]}
            IN  [left |-> left,
                 diff |-> Tabulated([r \in rows |-> IF r \in closer THEN no(r) ELSE s.diff[r]]),
                 from |-> Tabulated([r \in rows |-> IF r \in closer THEN row ELSE s.from[r]]),
                 operations |-> s.operations \o ScheduleRow(k, w, bitmatrix, row, s.from[row])]
    IN  FoldLeft(step, [left |-> rows, diff |-> [r \in rows |-> Cardinality(bitmatrix[r])],
                        from |-> [r \in rows |-> -1], operations |-> <<>>],
                 Upwards(Cardinality(rows))).operations

\* ptrs names the chunk that stands at each place of the schedule.
jerasure_do_scheduled_operations(ptrs, operations, chunks) ==
    FoldLeft(LAMBDA c, op :
                 LET packet == c[ptrs[op.from[1]]][op.from[2] + 1]
                 IN  Tabulated([c EXCEPT ![ptrs[op.to[1]]][op.to[2] + 1] = IF op.xor THEN SymDiff(@, packet) ELSE packet]),
             chunks, operations)

jerasure_schedule_encode(k, m, schedule, chunks) ==
    jerasure_do_scheduled_operations(Identity(k + m), schedule, chunks)

\* The chunk at each place: a lost data chunk's is taken by the lowest parity chunk
\* that is there and not yet taken; lost data, then lost parity, come after place k.
set_up_ids_for_scheduled_decoding(k, m, erased) ==
    LET lostData == Sorted({i \in erased : i < k})
        lostParity == Sorted({i \in erased : i >= k})
        spare == Sorted({i \in k .. k + m - 1 : i \notin erased})
        after == lostData \o lostParity
    IN  [i \in 0 .. k + Len(after) - 1 |->
            IF i >= k THEN after[i - k + 1]
            ELSE IF i \notin erased THEN i
            ELSE spare[CHOOSE x \in DOMAIN lostData : lostData[x] = i]]

\* Rows of lost data come from the inverse; in the rows of lost parity, the columns
\* of lost data are replaced by the rows of these.
jerasure_generate_decoding_schedule(k, m, w, bitmatrix, erased) ==
    LET ids == set_up_ids_for_scheduled_decoding(k, m, erased)
        lost == [x \in 0 .. Cardinality(erased) - 1 |-> ids[k + x]]
        row(i, x) == IF ids[i] = i THEN {i * w + x} ELSE bitmatrix[(ids[i] - k) * w + x]
        inverse == jerasure_invert_bitmatrix([r \in 0 .. k * w - 1 |-> row(r \div w, r % w)], k * w)
        dataRow(c) == inverse[c]
        lostColumns == {c \in 0 .. k * w - 1 : (c \div w) \in erased}
        parityRow(r) ==
            LET ones == bitmatrix[r]
            IN  FoldLeft(LAMBDA b, c : SymDiff(b, dataRow(c)), ones \ lostColumns, Sorted(ones \cap lostColumns))
        real == Tabulated([r \in 0 .. Cardinality(erased) * w - 1 |->
                    LET drive == lost[r \div w]
                    IN  IF drive < k THEN dataRow(drive * w + (r % w)) ELSE parityRow((drive - k) * w + (r % w))])
    IN  jerasure_smart_bitmatrix_to_schedule(k, w, real)

jerasure_schedule_decode_lazy(k, m, w, bitmatrix, erased, chunks) ==
    jerasure_do_scheduled_operations(set_up_ids_for_scheduled_decoding(k, m, erased),
        jerasure_generate_decoding_schedule(k, m, w, bitmatrix, erased), chunks)

-----------------------------------------------------------------------------
(***************************************************************************)
(* The codes of MemEC.  A parity chunk is encoded from scratch, whatever   *)
(* the range of the data that was modified.                                *)
(***************************************************************************)

MatrixOf(c) ==
    CASE c.scheme = "RS" /\ c.library = "jerasure" -> reed_sol_vandermonde_coding_matrix(GF8, c.k, c.m)
      [] c.scheme = "RS" /\ c.library = "isal" -> gf_gen_rs_matrix(c.k, c.m)
      [] c.scheme = "Cauchy" /\ c.library = "jerasure" -> cauchy_good_general_coding_matrix(Field(c.w), c.k, c.m)
      [] c.scheme = "Cauchy" /\ c.library = "isal" -> gf_gen_cauchy1_matrix(c.k, c.m)

Packets(c) == c.scheme = "Cauchy" /\ c.library = "jerasure"

\* What a coder keeps: its code, the coding matrix and, for Cauchy codes of jerasure,
\* the matrix of bits and the schedule.
CoderOf(c, matrix, bitmatrix) ==
    [scheme |-> c.scheme, library |-> c.library, k |-> c.k, m |-> c.m, w |-> c.w,
     matrix |-> matrix, bitmatrix |-> bitmatrix,
     schedule |-> IF Packets(c) THEN jerasure_smart_bitmatrix_to_schedule(c.k, c.w, bitmatrix) ELSE <<>>]
WithBits(c, matrix) ==
    CoderOf(c, matrix, IF Packets(c) THEN jerasure_matrix_to_bitmatrix(Field(c.w), c.k, c.m, matrix) ELSE <<>>)
generateCodeMatrix(c) == WithBits(c, Tabulated(MatrixOf(c)))

\* No chunks, where too many are lost.
Refused == <<>>

\* Data chunks that differ from each other, and parity chunks of zeros.
Blank(c) ==
    [j \in 0 .. c.k + c.m - 1 |->
        IF Packets(c) THEN [x \in 1 .. c.w |-> IF j < c.k THEN {<<j, x>>} ELSE {}]
        ELSE IF j < c.k THEN Unit(c.k, j) ELSE Zero(c.k)]

\* encode and decode of a coder g.
RSEncode(g, chunks) ==
    IF g.library = "jerasure"
    THEN jerasure_matrix_encode(GF8, g.k, g.m, g.matrix, chunks)
    ELSE ec_encode_data(g.matrix, Identity(g.k), chunks, [i \in 0 .. g.m - 1 |-> g.k + i])

CauchyEncode(g, chunks) ==
    IF g.library = "jerasure"
    THEN jerasure_schedule_encode(g.k, g.m, g.schedule, chunks)
    ELSE ec_encode_data(g.matrix, Identity(g.k), chunks, [i \in 0 .. g.m - 1 |-> g.k + i])

Encode(g, chunks) == IF g.scheme = "RS" THEN RSEncode(g, chunks) ELSE CauchyEncode(g, chunks)

RSDecode(g, erased, chunks) ==
    CASE Cardinality(erased) > g.m -> Refused
      [] erased = {} -> chunks
      [] g.library = "jerasure" /\ erased # {} /\ Cardinality(erased) <= g.m ->
             jerasure_matrix_decode(GF8, g.k, g.m, g.matrix, erased, chunks)
      [] OTHER -> ISALDecode(g.k, g.m, g.matrix, erased, Zero(g.k), chunks)

CauchyDecode(g, erased, chunks) ==
    CASE Cardinality(erased) > g.m -> Refused
      [] erased = {} -> chunks
      [] g.library = "jerasure" /\ erased # {} /\ Cardinality(erased) <= g.m ->
             jerasure_schedule_decode_lazy(g.k, g.m, g.w, g.bitmatrix, erased, chunks)
      [] OTHER -> ISALDecode(g.k, g.m, g.matrix, erased, Zero(g.k), chunks)

Decode(g, erased, chunks) == IF g.scheme = "RS" THEN RSDecode(g, erased, chunks) ELSE CauchyDecode(g, erased, chunks)

-----------------------------------------------------------------------------
(***************************************************************************)
(* What the codes promise                                                  *)
(***************************************************************************)

Lost(c, stripe, erased) == [j \in DOMAIN stripe |-> IF j \in erased THEN Blank(c)[c.k] ELSE stripe[j]]
Only(c, i) == Lost(c, Blank(c), (0 .. c.k - 1) \ {i})

\* Any loss of at most m chunks is repaired and a larger one refused.  ISA-L is only
\* asked for data chunks.
LossRepaired(c, erased) ==
    c.library = "jerasure" \/ erased \subseteq 0 .. c.k - 1 =>
        \A g \in {generateCodeMatrix(c)} : \A stripe \in {Encode(g, Blank(c))} :
            Decode(g, erased, Lost(c, stripe, erased)) = IF Cardinality(erased) <= c.m THEN stripe ELSE Refused

\* The parity of a sum is the sum of the parities, so that parity of a modification
\* can be added to the parity that is there; and ISA-L's update of parity is the
\* parity of the modification.
ParityLinear(c, i) ==
    \A g \in {generateCodeMatrix(c)} :
        \A stripe \in {[chunks \in {Blank(c), Only(c, i), Lost(c, Blank(c), {i})} |-> Encode(g, chunks)]} :
            /\ \A j \in c.k .. c.k + c.m - 1 :
                   Plus(stripe[Only(c, i)][j], stripe[Lost(c, Blank(c), {i})][j]) = stripe[Blank(c)][j]
            /\ c.library = "isal" =>
                   \A l \in 0 .. c.m - 1 :
                       ec_encode_data_update(g.matrix, i, Blank(c)[i], [z \in 0 .. c.m - 1 |-> Zero(c.k)])[l]
                           = stripe[Only(c, i)][c.k + l]

\* The count of ones that the choice of a matrix rests on is the number of ones of
\* the matrix of bits.
OnesExact(w, e) ==
    LET bits == jerasure_matrix_to_bitmatrix(Field(w), 1, 1, [i \in {0} |-> [j \in {0} |-> e]])
    IN  cauchy_n_ones(Field(w), e) = MapThenSumSet(LAMBDA r : Cardinality(bits[r]), DOMAIN bits)
=============================================================================

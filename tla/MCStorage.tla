----------------------------- MODULE MCStorage -----------------------------
(* What is stored and where, one specification chosen at the start: chunk  *)
(* buffers and their parity (ChunkSeal), the index of a server             *)
(* (CuckooHash), or one input of functions: the layouts of objects, chunks *)
(* and messages (Protocol), the erasure codes (XorCodes, MatrixCodes), and *)
(* what places objects (Placement).                                        *)
EXTENDS ChunkSeal, CuckooHash, Bitwise

CONSTANTS k1, k2, k3, Large, o1, o2, o3, o4, o5, o6, o7

MCSize == [k \in Keys |-> IF k \in Large THEN 2 ELSE 1]

(* Hashes of seven objects.  All buckets are full but for one slot, and    *)
(* paths between them have cycles.                                         *)
Firsts == o1 :> 0 @@ o2 :> 0 @@ o3 :> 1 @@ o4 :> 1 @@ o5 :> 3 @@ o6 :> 3 @@ o7 :> 1
Tags == o1 :> 1 @@ o2 :> 2 @@ o3 :> 2 @@ o4 :> 3 @@ o5 :> 3 @@ o6 :> 1 @@ o7 :> 1
Jumps == [x \in Objects |-> [b \in Buckets |-> b ^^ Tags[x]]]

VARIABLES
    unit,      \* what is run
    input      \* the input of a function

Small == INSTANCE Protocol WITH ChunkSize <- 14
Middle == INSTANCE Protocol WITH ChunkSize <- 20
Wide == INSTANCE Protocol WITH ChunkSize <- 26
Xors == INSTANCE XorCodes
Linear == INSTANCE MatrixCodes
Placing == INSTANCE Placement

(* Sizes of objects of which some fit into a chunk.  A key and a value have *)
(* four bytes or more together.                                            *)
SomeSizes == {<<1, 3>>, <<1, 5>>, <<2, 2>>, <<3, 4>>}

Filled(sizes) == FoldLeft(LAMBDA sum, s : sum + Wide!MetadataSize + s[1] + s[2], 0, sizes)
Contents == {sizes \in UNION {[1 .. n -> SomeSizes] : n \in 1 .. 3} : Filled(sizes) <= 26}

(* Codes of every scheme, with several numbers of symbols in a chunk.       *)
XorCode(s, n, size) == [scheme |-> s, n |-> n, size |-> size]
SomeXorCodes ==
    {XorCode("RAID0", 3, 2), XorCode("RAID1", 3, 4), XorCode("RAID5", 4, 3),
     XorCode("RDP", 3, 4), XorCode("RDP", 5, 8), XorCode("RDP", 6, 4),
     XorCode("EVENODD", 3, 4), XorCode("EVENODD", 5, 6), XorCode("EVENODD", 7, 4)}
ManySymbols == {XorCode(s, n, 4 * 36 * 25 * 11 * 13 * 7 * 16) : s \in {"RDP", "EVENODD"}, n \in 3 .. 18}

MatrixCode(s, library, k, m, w) == [scheme |-> s, library |-> library, k |-> k, m |-> m, w |-> w]
SomeMatrixCodes ==
    {MatrixCode("RS", "jerasure", 2, 2, 8), MatrixCode("RS", "jerasure", 3, 2, 8), MatrixCode("RS", "isal", 3, 2, 8),
     MatrixCode("Cauchy", "isal", 2, 3, 8), MatrixCode("Cauchy", "jerasure", 2, 1, 2),
     MatrixCode("Cauchy", "jerasure", 3, 2, 3), MatrixCode("Cauchy", "jerasure", 3, 3, 3)}

(* Elements of GF(2^8) by their numbers.                                    *)
SomeBytes == {Linear!Bits(x) : x \in {0, 1, 2, 29, 77, 128, 244, 255}}

(* Numbers of data and parity chunks, and two orders of the servers' loads. *)
StripeSizes == {<<2, 1>>, <<2, 2>>, <<3, 2>>}
Loads(n) == {[j \in 0 .. n - 1 |-> (j * 2) % 3], [j \in 0 .. n - 1 |-> 0]}

Inputs(u) ==
    CASE u \in {"chunks", "index"} -> {0}
      [] u = "message" -> [key : 1 .. 3, value : {0, 1, 3, 8, 12, 17}, large : BOOLEAN, n : 0 .. 3, m : 0 .. 2]
      [] u = "split" -> (1 .. 5) \X (0 .. 40)
      [] u = "chunk" -> UNION {{sizes} \X (0 .. Len(sizes)) : sizes \in Contents}
      [] u = "seal" -> (1 .. 255) \X {4096, 65536}
      [] u = "xor" -> UNION {{c} \X SUBSET (0 .. c.n - 1) : c \in SomeXorCodes}
      [] u = "delta" -> UNION {{c} \X (0 .. Xors!DataChunkCount(c) - 1) \X (0 .. c.size - 1) \X (1 .. c.size)
                                   : c \in {x \in SomeXorCodes : x.scheme # "RAID1"}}
      [] u = "symbols" -> ManySymbols
      [] u = "field" -> UNION {{w} \X Linear!Elements(w) \X Linear!Elements(w) : w \in {2, 3, 4}}
                            \cup ({8} \X SomeBytes \X SomeBytes)
      [] u = "matrix" -> UNION {{c} \X SUBSET (0 .. c.k + c.m - 1) : c \in SomeMatrixCodes}
      [] u = "linear" -> UNION {{c} \X (0 .. c.k - 1) : c \in SomeMatrixCodes}
      [] u = "ones" -> UNION {{w} \X Linear!Elements(w) : w \in {2, 3, 4}}
      [] u = "bits" -> UNION {{W} \X {size} \X {{}, 0 .. 2 * size - 1, {0, 2, 3}, {1, 3}} \X {0, 1} : W \in {3, 4}, size \in {2, 5, 7}}
      [] u = "lists" -> {<<n, k, l, s>> \in (2 .. 5) \X (1 .. 4) \X {1, 2, 5} \X (2 .. 7) : k < n}
      [] u = "hash" -> [1 .. 3 -> {0, 7}] \X (0 .. 3) \X (0 .. 3)
      [] u = "redirect" ->
            UNION {{s} \X {"SET", "GET", "UPDATE"} \X (0 .. s[1] - 1)
                       \X [0 .. s[1] + s[2] - 1 -> {"normal", "coordinated", "degraded"}]
                       \X Loads(s[1] + s[2]) : s \in StripeSizes}

MCInit ==
    /\ unit \in {"chunks", "index", "message", "split", "chunk", "seal",
                "xor", "delta", "symbols", "field", "matrix", "linear", "ones",
                "bits", "lists", "hash", "redirect"}
    /\ input \in Inputs(unit)
    /\ Init
    /\ TableInit

MCNext ==
    /\ \/ unit = "chunks" /\ Next /\ UNCHANGED tableVars
       \/ unit = "index" /\ TableNext /\ UNCHANGED vars
    /\ UNCHANGED <<unit, input>>

MCSpec == MCInit /\ [][MCNext]_<<unit, input, vars, tableVars>>

(* Objects and messages are read as they were written: pieces of a split   *)
(* value cover it without a gap, a chunk is scanned back to the objects    *)
(* appended to it, and no parser finds a field at another place than its   *)
(* generator put it, or a length other than what was written.              *)
LayoutExact ==
    CASE unit = "message" -> Small!MessagesExact(input) /\ Small!HeaderExact
      [] unit = "split" -> Small!SplitExact(input[1], input[2]) /\ Middle!SplitExact(input[1], input[2])
      [] unit = "chunk" -> Wide!ChunkExact(input[1], input[2])
      [] unit = "seal" -> Small!SealFits(input[1], input[2])
      [] OTHER -> TRUE

(* A code gives back what was encoded from as many chunks as its scheme     *)
(* promises, whichever are lost; adding the parity of a delta equals the    *)
(* parity of the changed data; and the fields, matrices and schedules the   *)
(* libraries build for it agree with their definition.                      *)
CodingExact ==
    CASE unit = "xor" -> Xors!Repairs(input[1], 3, input[2])
      [] unit = "delta" -> input[3] + input[4] <= input[1].size => Xors!DeltaExact(input[1], input[2], input[3], input[4])
      [] unit = "symbols" -> Xors!SymbolsExact(input)
      [] unit = "field" -> Linear!FieldExact(input[1], input[2], input[3])
      [] unit = "matrix" -> Linear!LossRepaired(input[1], input[2])
      [] unit = "linear" -> Linear!ParityLinear(input[1], input[2])
      [] unit = "ones" -> Linear!OnesExact(input[1], input[2])
      [] OTHER -> TRUE

(* Stripe lists give every server its place once, the list of a key and the *)
(* positions of a server agree, masks keep what other entries have, and     *)
(* redirected chunks go to different servers in NORMAL state.               *)
PlacementExact ==
    CASE unit = "bits" -> Placing!BitsExact(input[1], input[2], 2, input[3] \cap (0 .. 2 * input[2] - 1), input[4])
      [] unit = "lists" -> Placing!ListsExact(input[1], input[2], input[3], input[4])
      [] unit = "hash" -> Placing!HashExact(input[1], input[2], input[3])
      [] unit = "redirect" -> Placing!RedirectExact(input[1][1], input[1][2], input[2], input[3], input[4], input[5])
      [] OTHER -> TRUE
=============================================================================

----------------------------- MODULE SumLemmas -----------------------------
(***************************************************************************)
(* Lemmas about sums of a function over a finite set, which the counters   *)
(* of the system are compared with: SumFunctionOnSet(f, S) adds the values *)
(* f[x] of the elements x of S.                                            *)
(***************************************************************************)
EXTENDS Functions, FiniteSetTheorems, WellFoundedInduction, TLAPS

(* Induction over the natural numbers, with the numbers for which a        *)
(* statement holds as a set.                                               *)
LEMMA NumbersInduction ==
    ASSUME NEW Good, 0 \in Good, \A n \in Nat : n \in Good => n + 1 \in Good
    PROVE  Nat \subseteq Good
  <1> SUFFICES ASSUME Nat \ Good # {} PROVE FALSE
    OBVIOUS
  <1>1. PICK n \in Nat \ Good : \A m \in Nat \ Good : ~(<<m, n>> \in OpToRel(<, Nat))
    BY NatLessThanWellFounded, WFMin
  <1>2. \A m \in Nat : m < n => m \in Good
    BY <1>1 DEF OpToRel
  <1>3. n # 0
    OBVIOUS
  <1>4. n - 1 \in Nat /\ n - 1 < n /\ (n - 1) + 1 = n
    BY <1>3
  <1> QED BY <1>1, <1>2, <1>4

(* Induction over the subsets of a finite set.                             *)
LEMMA SubsetsInduction ==
    ASSUME NEW U, IsFiniteSet(U), NEW Good,
           \A T \in SUBSET U : (\A V \in SUBSET T : V # T => V \in Good) => T \in Good
    PROVE  SUBSET U \subseteq Good
  <1> DEFINE Bad == (SUBSET U) \ Good
  <1> SUFFICES ASSUME Bad # {} PROVE FALSE
    OBVIOUS
  <1>1. FiniteSubsetsOf(U) = SUBSET U
    BY FS_FiniteSubsetsOfFinite
  <1>2. IsWellFoundedOn(StrictSubsetOrdering(U), FiniteSubsetsOf(U))
    BY FS_StrictSubsetOrderingWellFounded, Zenon
  <1>3. PICK T \in Bad : \A V \in Bad : ~(<<V, T>> \in StrictSubsetOrdering(U))
    <2> DEFINE R == StrictSubsetOrdering(U)
    <2> HIDE DEF R
    <2>1. IsWellFoundedOn(R, SUBSET U) BY <1>1, <1>2 DEF R
    <2>2. Bad \subseteq SUBSET U OBVIOUS
    <2> HIDE DEF Bad
    <2>3. \E T \in Bad : \A V \in Bad : ~(<<V, T>> \in R) BY <2>1, <2>2, WFMin
    <2> QED BY <2>3 DEF R
  <1>4. \A V \in SUBSET T : V # T => V \in Good
    BY <1>3 DEF StrictSubsetOrdering
  <1> QED BY <1>3, <1>4
-----------------------------------------------------------------------------
(* The element a fold takes first, and the values a fold has for all       *)
(* subsets of S: what SumFunctionOnSet is defined by.                      *)
FirstOf(T) == CHOOSE x \in T : TRUE
SumStep(f, T, sum) == IF T = {} THEN 0 ELSE f[FirstOf(T)] + sum[T \ {FirstOf(T)}]
SumsOf(f, S, sum) == sum = [T \in SUBSET S |-> SumStep(f, T, sum)]

LEMMA FirstIn == ASSUME NEW T, T # {} PROVE FirstOf(T) \in T
  BY DEF FirstOf

(* There is such a function: the sums of sets of at most n + 1 elements    *)
(* follow from those of at most n elements.                                *)
LEMMA SumsExist ==
    ASSUME NEW f, NEW S, IsFiniteSet(S)
    PROVE  \E sum : SumsOf(f, S, sum)
  <1> DEFINE Small(n) == {T \in SUBSET S : Cardinality(T) <= n}
             Good == {n \in Nat : \E sum : sum = [T \in Small(n) |-> SumStep(f, T, sum)]}
  <1>1. 0 \in Good
    <2> DEFINE sum == [T \in Small(0) |-> 0]
    <2>1. \A T \in Small(0) : T = {}
      BY FS_Subset, FS_EmptySet, FS_CardinalityType
    <2>2. sum = [T \in Small(0) |-> SumStep(f, T, sum)]
      BY <2>1 DEF SumStep
    <2> QED BY <2>2
  <1>2. ASSUME NEW n \in Nat, n \in Good PROVE n + 1 \in Good
    <2>1. PICK old : old = [T \in Small(n) |-> SumStep(f, T, old)]
      BY <1>2
    <2> DEFINE sum == [T \in Small(n + 1) |-> SumStep(f, T, old)]
    <2>2. ASSUME NEW T \in Small(n + 1), T # {}
          PROVE  /\ T \ {FirstOf(T)} \in Small(n + 1)
                 /\ T \ {FirstOf(T)} \in Small(n)
      BY <2>2, FirstIn, FS_RemoveElement, FS_Subset, FS_CardinalityType
    <2>3. \A T \in Small(n) : sum[T] = old[T]
      <3> TAKE T \in Small(n)
      <3>1. T \in Small(n + 1) BY FS_Subset, FS_CardinalityType
      <3> QED BY <2>1, <3>1
    <2>4. \A T \in Small(n + 1) : SumStep(f, T, old) = SumStep(f, T, sum)
      <3> TAKE T \in Small(n + 1)
      <3> HIDE DEF sum
      <3> QED BY <2>2, <2>3 DEF SumStep
    <2>5. sum = [T \in Small(n + 1) |-> SumStep(f, T, sum)]
      BY <2>4
    <2>6. \E t : t = [T \in Small(n + 1) |-> SumStep(f, T, t)]
      <3> HIDE DEF sum, Small
      <3> QED BY <2>5
    <2>7. n + 1 \in Nat OBVIOUS
    <2> HIDE DEF sum, Small
    <2> QED BY <2>6, <2>7
  <1>3. Nat \subseteq Good
    BY <1>1, <1>2, NumbersInduction
  <1>4. Cardinality(S) \in Good
    BY <1>3, FS_CardinalityType
  <1>5. Small(Cardinality(S)) = SUBSET S
    BY FS_Subset
  <1> QED BY <1>4, <1>5 DEF SumsOf

LEMMA SumDefined ==
    ASSUME NEW f, NEW S, IsFiniteSet(S)
    PROVE  \E sum : SumsOf(f, S, sum) /\ SumFunctionOnSet(f, S) = sum[S]
  <1> DEFINE chosen == CHOOSE sum : SumsOf(f, S, sum)
  <1>1. SumsOf(f, S, chosen)
    BY SumsExist
  <1>2. SumFunctionOnSet(f, S) = chosen[S]
    BY DEF SumFunctionOnSet, FoldFunctionOnSet, MapThenFoldSet, SumsOf, SumStep, FirstOf
  <1> QED BY <1>1, <1>2

(* The sums of two functions that agree on a set agree, whatever set the   *)
(* fold started from.                                                      *)
LEMMA SumsAgree ==
    ASSUME NEW S, IsFiniteSet(S), NEW f, NEW sum, SumsOf(f, S, sum),
           NEW U, IsFiniteSet(U), NEW g, NEW other, SumsOf(g, U, other),
           NEW V \in SUBSET (S \cap U), \A x \in V : f[x] = g[x]
    PROVE  sum[V] = other[V]
  <1> DEFINE Good == {T \in SUBSET V : sum[T] = other[T]}
  <1>1. IsFiniteSet(V)
    BY FS_Subset
  <1>2. ASSUME NEW T \in SUBSET V, \A W \in SUBSET T : W # T => W \in Good
        PROVE  sum[T] = other[T]
    <2>1. sum[T] = SumStep(f, T, sum) /\ other[T] = SumStep(g, T, other)
      BY DEF SumsOf
    <2>2. CASE T = {}
      BY <2>1, <2>2 DEF SumStep
    <2>3. CASE T # {}
      <3>1. FirstOf(T) \in T BY <2>3, FirstIn
      <3>2. sum[T \ {FirstOf(T)}] = other[T \ {FirstOf(T)}]
        BY <1>2, <3>1
      <3> QED BY <2>1, <2>3, <3>1, <3>2 DEF SumStep
    <2> QED BY <2>2, <2>3
  <1>3. \A T \in SUBSET V : (\A W \in SUBSET T : W # T => W \in Good) => T \in Good
    BY <1>2
  <1> HIDE DEF Good
  <1>4. SUBSET V \subseteq Good
    BY <1>1, <1>3, SubsetsInduction
  <1> QED BY <1>4 DEF Good
-----------------------------------------------------------------------------
(* The empty sum.                                                          *)
LEMMA SumEmpty == ASSUME NEW f PROVE SumFunctionOnSet(f, {}) = 0
  <1>1. PICK sum : SumsOf(f, {}, sum) /\ SumFunctionOnSet(f, {}) = sum[{}]
    BY SumDefined, FS_EmptySet
  <1> QED BY <1>1 DEF SumsOf, SumStep

(* Functions that agree on a set have the same sum over it.                *)
LEMMA SumSame ==
    ASSUME NEW S, IsFiniteSet(S), NEW f, NEW g, \A x \in S : f[x] = g[x]
    PROVE  SumFunctionOnSet(f, S) = SumFunctionOnSet(g, S)
  <1>1. PICK sum : SumsOf(f, S, sum) /\ SumFunctionOnSet(f, S) = sum[S]
    BY SumDefined
  <1>2. PICK other : SumsOf(g, S, other) /\ SumFunctionOnSet(g, S) = other[S]
    BY SumDefined
  <1> QED BY <1>1, <1>2, SumsAgree

(* One step of the fold.                                                   *)
LEMMA SumFirst ==
    ASSUME NEW f, NEW S, IsFiniteSet(S), S # {}
    PROVE  SumFunctionOnSet(f, S) = f[FirstOf(S)] + SumFunctionOnSet(f, S \ {FirstOf(S)})
  <1> DEFINE T == S \ {FirstOf(S)}
  <1>1. IsFiniteSet(T)
    BY FS_RemoveElement
  <1>2. PICK sum : SumsOf(f, S, sum) /\ SumFunctionOnSet(f, S) = sum[S]
    BY SumDefined
  <1>3. PICK rest : SumsOf(f, T, rest) /\ SumFunctionOnSet(f, T) = rest[T]
    BY <1>1, SumDefined
  <1>4. sum[T] = rest[T]
    BY <1>1, <1>2, <1>3, SumsAgree
  <1>5. sum[S] = f[FirstOf(S)] + sum[T]
    BY <1>2 DEF SumsOf, SumStep
  <1> QED BY <1>2, <1>3, <1>4, <1>5

(* The sum of integers is an integer, that of natural numbers a natural    *)
(* number.                                                                 *)
LEMMA SumType ==
    ASSUME NEW Type \in {Nat, Int}, NEW f, NEW S, IsFiniteSet(S), \A x \in S : f[x] \in Type
    PROVE  SumFunctionOnSet(f, S) \in Type
  <1> DEFINE Good == {T \in SUBSET S : SumFunctionOnSet(f, T) \in Type}
  <1>1. ASSUME NEW T \in SUBSET S, \A W \in SUBSET T : W # T => W \in Good
        PROVE  T \in Good
    <2>1. CASE T = {}
      BY <2>1, SumEmpty
    <2>2. CASE T # {}
      <3>1. FirstOf(T) \in T BY <2>2, FirstIn
      <3>2. SumFunctionOnSet(f, T \ {FirstOf(T)}) \in Type
        BY <1>1, <3>1
      <3>3. IsFiniteSet(T) BY FS_Subset
      <3>4. SumFunctionOnSet(f, T) = f[FirstOf(T)] + SumFunctionOnSet(f, T \ {FirstOf(T)})
        BY <2>2, <3>3, SumFirst
      <3>5. f[FirstOf(T)] \in Type BY <3>1
      <3>6. SumFunctionOnSet(f, T) \in Type BY <3>2, <3>4, <3>5
      <3> QED BY <3>6
    <2> QED BY <2>1, <2>2
  <1> HIDE DEF Good
  <1>2. SUBSET S \subseteq Good
    BY <1>1, SubsetsInduction
  <1> QED BY <1>2 DEF Good

(* Any element may be taken out first.                                     *)
LEMMA SumRemove ==
    ASSUME NEW f, NEW S, IsFiniteSet(S), \A x \in S : f[x] \in Int, NEW x \in S
    PROVE  SumFunctionOnSet(f, S) = f[x] + SumFunctionOnSet(f, S \ {x})
  <1> DEFINE Sum(T) == SumFunctionOnSet(f, T)
             Good == {T \in SUBSET S : \A y \in T : Sum(T) = f[y] + Sum(T \ {y})}
  <1>1. \A T \in SUBSET S : IsFiniteSet(T) /\ Sum(T) \in Int
    BY FS_Subset, SumType
  <1>2. ASSUME NEW T \in SUBSET S, \A W \in SUBSET T : W # T => W \in Good,
               NEW y \in T
        PROVE  Sum(T) = f[y] + Sum(T \ {y})
    <2> DEFINE z == FirstOf(T)
    <2>1. z \in T BY FirstIn
    <2>2. Sum(T) = f[z] + Sum(T \ {z}) BY <1>1, SumFirst
    <2>3. CASE y = z BY <2>2, <2>3
    <2>4. CASE y # z
      <3> HIDE DEF z, Sum
      <3> DEFINE V == (T \ {z}) \ {y}
                 W == (T \ {y}) \ {z}
      <3>1. T \ {z} \in Good /\ T \ {y} \in Good BY <1>2, <2>1
      <3>2. Sum(T \ {z}) = f[y] + Sum(V) BY <2>4, <3>1
      <3>3. Sum(T \ {y}) = f[z] + Sum(W) BY <2>1, <2>4, <3>1
      <3>4. V = W OBVIOUS
      <3>5. f[y] \in Int /\ f[z] \in Int BY <2>1
      <3>6. V \in SUBSET S OBVIOUS
      <3> HIDE DEF V, W
      <3>7. Sum(V) \in Int BY <1>1, <3>6
      <3> QED BY <2>2, <3>2, <3>3, <3>4, <3>5, <3>7
    <2> QED BY <2>3, <2>4
  <1>3. \A T \in SUBSET S : (\A W \in SUBSET T : W # T => W \in Good) => T \in Good
    BY <1>2
  <1> HIDE DEF Good
  <1>4. SUBSET S \subseteq Good
    BY <1>3, SubsetsInduction
  <1> QED BY <1>4 DEF Good

(* Adding an element.                                                      *)
LEMMA SumInsert ==
    ASSUME NEW f, NEW S, IsFiniteSet(S), NEW x, x \notin S, \A y \in S \cup {x} : f[y] \in Int
    PROVE  SumFunctionOnSet(f, S \cup {x}) = f[x] + SumFunctionOnSet(f, S)
  <1>1. IsFiniteSet(S \cup {x}) BY FS_AddElement
  <1>2. (S \cup {x}) \ {x} = S OBVIOUS
  <1> QED BY <1>1, <1>2, SumRemove

(* Changing the function at one element.                                   *)
LEMMA SumChange ==
    ASSUME NEW S, IsFiniteSet(S), NEW f, NEW g, NEW x \in S,
           \A y \in S : f[y] \in Int /\ g[y] \in Int,
           \A y \in S \ {x} : f[y] = g[y]
    PROVE  SumFunctionOnSet(g, S) = SumFunctionOnSet(f, S) + g[x] - f[x]
  <1>1. IsFiniteSet(S \ {x}) BY FS_RemoveElement
  <1>2. SumFunctionOnSet(f, S \ {x}) = SumFunctionOnSet(g, S \ {x})
    BY <1>1, SumSame
  <1>3. SumFunctionOnSet(f, S \ {x}) \in Int BY <1>1, SumType
  <1>4. SumFunctionOnSet(f, S) = f[x] + SumFunctionOnSet(f, S \ {x}) BY SumRemove
  <1>5. SumFunctionOnSet(g, S) = g[x] + SumFunctionOnSet(g, S \ {x}) BY SumRemove
  <1> QED BY <1>2, <1>3, <1>4, <1>5

(* A sum of zeros.                                                         *)
LEMMA SumZero ==
    ASSUME NEW S, IsFiniteSet(S), NEW f, \A x \in S : f[x] = 0
    PROVE  SumFunctionOnSet(f, S) = 0
  <1> DEFINE Good == {T \in SUBSET S : SumFunctionOnSet(f, T) = 0}
  <1>1. ASSUME NEW T \in SUBSET S, \A W \in SUBSET T : W # T => W \in Good
        PROVE  SumFunctionOnSet(f, T) = 0
    <2>1. CASE T = {} BY <2>1, SumEmpty
    <2>2. CASE T # {}
      <3>1. FirstOf(T) \in T BY <2>2, FirstIn
      <3>2. SumFunctionOnSet(f, T \ {FirstOf(T)}) = 0 BY <1>1, <3>1
      <3>3. IsFiniteSet(T) BY FS_Subset
      <3> QED BY <2>2, <3>1, <3>2, <3>3, SumFirst
    <2> QED BY <2>1, <2>2
  <1>2. \A T \in SUBSET S : (\A W \in SUBSET T : W # T => W \in Good) => T \in Good
    BY <1>1
  <1> HIDE DEF Good
  <1>3. SUBSET S \subseteq Good BY <1>2, SubsetsInduction
  <1> QED BY <1>3 DEF Good

(* Adding one at every element of a set adds its cardinality.              *)
LEMMA SumRaise ==
    ASSUME NEW S, IsFiniteSet(S), NEW P \in SUBSET S, NEW f, NEW g,
           \A x \in S : f[x] \in Int /\ g[x] = IF x \in P THEN f[x] + 1 ELSE f[x]
    PROVE  SumFunctionOnSet(g, S) = SumFunctionOnSet(f, S) + Cardinality(P)
  <1> DEFINE Raised(T) == SumFunctionOnSet(g, T) = SumFunctionOnSet(f, T) + Cardinality(T \cap P)
             Good == {T \in SUBSET S : Raised(T)}
  <1>1. ASSUME NEW T \in SUBSET S, \A W \in SUBSET T : W # T => W \in Good
        PROVE  Raised(T)
    <2>1. CASE T = {}
      <3>1. T \cap P = {} BY <2>1
      <3> QED BY <2>1, <3>1, SumEmpty, FS_EmptySet
    <2>2. CASE T # {}
      <3> DEFINE x == FirstOf(T)
                 W == T \ {x}
      <3>1. x \in T BY <2>2, FirstIn
      <3> HIDE DEF x
      <3>2. IsFiniteSet(T) /\ IsFiniteSet(W) /\ IsFiniteSet(T \cap P)
        BY FS_Subset
      <3>3. Raised(W) BY <1>1, <3>1
      <3>4. /\ SumFunctionOnSet(f, T) = f[x] + SumFunctionOnSet(f, W)
            /\ SumFunctionOnSet(g, T) = g[x] + SumFunctionOnSet(g, W)
        BY <3>1, <3>2, SumRemove
      <3>5. SumFunctionOnSet(f, W) \in Int /\ SumFunctionOnSet(g, W) \in Int
        BY <3>2, SumType
      <3>6. W \cap P = (T \cap P) \ {x} OBVIOUS
      <3>7. Cardinality(W \cap P) = IF x \in T \cap P THEN Cardinality(T \cap P) - 1 ELSE Cardinality(T \cap P)
        BY <3>2, <3>6, FS_RemoveElement
      <3>8. Cardinality(T \cap P) \in Nat BY <3>2, FS_CardinalityType
      <3>9. f[x] \in Int /\ g[x] = IF x \in P THEN f[x] + 1 ELSE f[x] BY <3>1
      <3> HIDE DEF W
      <3> QED BY <3>1, <3>3, <3>4, <3>5, <3>7, <3>8, <3>9
    <2> QED BY <2>1, <2>2
  <1>2. \A T \in SUBSET S : (\A W \in SUBSET T : W # T => W \in Good) => T \in Good
    BY <1>1
  <1> HIDE DEF Good
  <1>3. SUBSET S \subseteq Good BY <1>2, SubsetsInduction
  <1>4. Raised(S) BY <1>3 DEF Good
  <1>5. S \cap P = P OBVIOUS
  <1> QED BY <1>4, <1>5
=============================================================================

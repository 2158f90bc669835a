-------------------------------- MODULE Sums --------------------------------
(***************************************************************************)
(* Facts about SumFunctionOnSet of the community modules, which the          *)
(* specifications use to add up quantities over attempts, workers or orders.  *)
(*                                                                          *)
(* The sum over a finite set is a recursive function on its subsets that      *)
(* takes away one chosen element after the other.  Induction is over the      *)
(* strict subset relation, in the form of sets of subsets rather than of      *)
(* predicates.                                                               *)
(***************************************************************************)
EXTENDS Functions, FiniteSetTheorems, WellFoundedInduction, TLAPS

(* A set of subsets of S that has every subset whose own strict subsets it     *)
(* has, has them all.                                                        *)
LEMMA SubsetInduction ==
    ASSUME NEW S, IsFiniteSet(S), NEW G,
           \A T \in SUBSET S : (\A U \in SUBSET T : U # T => U \in G) => T \in G
    PROVE  \A T \in SUBSET S : T \in G
  <1> DEFINE Bad == {T \in SUBSET S : T \notin G}
  <1> SUFFICES ASSUME Bad # {} PROVE FALSE
    OBVIOUS
  <1>1. IsWellFoundedOn(StrictSubsetOrdering(S), SUBSET S)
    <2>1. IsWellFoundedOn(StrictSubsetOrdering(S), FiniteSubsetsOf(S))
      BY FS_StrictSubsetOrderingWellFounded
    <2>2. FiniteSubsetsOf(S) = SUBSET S
      BY FS_FiniteSubsetsOfFinite
    <2> QED
      BY <2>1, <2>2
  <1>2. PICK T \in Bad : \A U \in Bad : <<U, T>> \notin StrictSubsetOrdering(S)
    <2>1. Bad \subseteq SUBSET S
      OBVIOUS
    <2> HIDE DEF Bad
    <2> QED
      BY <1>1, <2>1, WFMin
  <1>3. \A U \in SUBSET T : U # T => U \in G
    BY <1>2 DEF StrictSubsetOrdering
  <1> QED
    BY <1>2, <1>3

(* The recursion that defines the sum.                                        *)
Pick(s) == CHOOSE x \in s : TRUE

AddsUp(f, S, g) ==
    g = [s \in SUBSET S |-> IF s = {} THEN 0 ELSE f[Pick(s)] + g[s \ {Pick(s)}]]

Running(f, S) == CHOOSE g : AddsUp(f, S, g)

LEMMA SumIsRunning == \A f, S : SumFunctionOnSet(f, S) = Running(f, S)[S]
  BY DEF SumFunctionOnSet, FoldFunctionOnSet, MapThenFoldSet, AddsUp, Pick, Running

LEMMA PickIsElement == \A s : s # {} => Pick(s) \in s
  BY DEF Pick

LEMMA AddsUpAt ==
    ASSUME NEW f, NEW S, NEW g, AddsUp(f, S, g), NEW s \in SUBSET S
    PROVE  g[s] = IF s = {} THEN 0 ELSE f[Pick(s)] + g[s \ {Pick(s)}]
  BY DEF AddsUp

\* Two such functions agree where both are defined.
LEMMA AddsUpUnique ==
    ASSUME NEW f, NEW S, NEW T, IsFiniteSet(S), T \subseteq S,
           NEW g, AddsUp(f, S, g), NEW h, AddsUp(f, T, h)
    PROVE  h[T] = g[T]
  <1> DEFINE G == {U \in SUBSET T : h[U] = g[U]}
  <1>1. IsFiniteSet(T)
    BY FS_Subset
  <1>2. ASSUME NEW U \in SUBSET T, \A V \in SUBSET U : V # U => V \in G PROVE U \in G
    <2>1. CASE U = {}
      BY <2>1, AddsUpAt
    <2>2. CASE U # {}
      <3>1. Pick(U) \in U
        BY <2>2, PickIsElement
      <3>2. U \ {Pick(U)} \in G
        BY <1>2, <3>1
      <3>3. h[U] = f[Pick(U)] + h[U \ {Pick(U)}] /\ g[U] = f[Pick(U)] + g[U \ {Pick(U)}]
        BY <2>2, AddsUpAt
      <3> QED
        BY <3>2, <3>3
    <2> QED
      BY <2>1, <2>2
  <1>3. T \in G
    <2> HIDE DEF G
    <2> QED
      BY <1>1, <1>2, SubsetInduction
  <1> QED
    BY <1>3

\* There is one for every finite set.
LEMMA AddsUpExists ==
    ASSUME NEW f, NEW S, IsFiniteSet(S)
    PROVE  AddsUp(f, S, Running(f, S))
  <1> DEFINE G == {T \in SUBSET S : AddsUp(f, T, Running(f, T))}
             Total(U) == Running(f, U)[U]
  <1>1. ASSUME NEW T \in SUBSET S, \A U \in SUBSET T : U # T => U \in G PROVE T \in G
    <2> DEFINE g == [s \in SUBSET T |-> IF s = {} THEN 0 ELSE f[Pick(s)] + Total(s \ {Pick(s)})]
    <2>1. ASSUME NEW U \in SUBSET T, U # T PROVE g[U] = Total(U)
      <3>1. AddsUp(f, U, Running(f, U)) /\ IsFiniteSet(U)
        BY <1>1, <2>1, FS_Subset
      <3>2. CASE U = {}
        BY <3>1, <3>2, AddsUpAt
      <3>3. CASE U # {}
        <4> DEFINE V == U \ {Pick(U)}
        <4>1. V \in SUBSET T /\ V # T /\ V \subseteq U
          BY <2>1
        <4>2. AddsUp(f, V, Running(f, V))
          BY <1>1, <4>1
        <4>3. Total(V) = Running(f, U)[V]
          <5> HIDE DEF V
          <5> QED
            BY <3>1, <4>1, <4>2, AddsUpUnique
        <4>4. Total(U) = f[Pick(U)] + Running(f, U)[V]
          BY <3>1, <3>3, AddsUpAt
        <4>5. g[U] = f[Pick(U)] + Total(V)
          BY <2>1, <3>3
        <4> QED
          BY <4>3, <4>4, <4>5
      <3> QED
        BY <3>2, <3>3
    <2>2. ASSUME NEW s \in SUBSET T, s # {} PROVE g[s \ {Pick(s)}] = Total(s \ {Pick(s)})
      <3>1. s \ {Pick(s)} \in SUBSET T /\ s \ {Pick(s)} # T
        BY <2>2, PickIsElement
      <3> HIDE DEF g, Total
      <3> QED
        BY <2>1, <3>1
    <2>3. AddsUp(f, T, g)
      <3> HIDE DEF Total
      <3>1. g = [s \in SUBSET T |-> IF s = {} THEN 0 ELSE f[Pick(s)] + g[s \ {Pick(s)}]]
        BY <2>2
      <3> QED
        BY <3>1 DEF AddsUp
    <2> QED
      BY <2>3 DEF Running
  <1>2. S \in G
    <2> HIDE DEF G
    <2> QED
      BY <1>1, SubsetInduction
  <1> QED
    BY <1>2

LEMMA SumOfEmpty == \A f : SumFunctionOnSet(f, {}) = 0
  BY SumIsRunning, AddsUpExists, AddsUpAt, FS_EmptySet

LEMMA SumStep ==
    ASSUME NEW f, NEW S, IsFiniteSet(S), S # {}
    PROVE  /\ Pick(S) \in S
           /\ SumFunctionOnSet(f, S) = f[Pick(S)] + SumFunctionOnSet(f, S \ {Pick(S)})
  <1> DEFINE T == S \ {Pick(S)}
  <1>1. Pick(S) \in S /\ IsFiniteSet(T) /\ T \subseteq S
    BY PickIsElement, FS_RemoveElement
  <1>2. AddsUp(f, S, Running(f, S)) /\ AddsUp(f, T, Running(f, T))
    <2> HIDE DEF T
    <2> QED
      BY <1>1, AddsUpExists
  <1>3. Running(f, S)[S] = f[Pick(S)] + Running(f, S)[T]
    BY <1>2, AddsUpAt
  <1>4. Running(f, T)[T] = Running(f, S)[T]
    <2> HIDE DEF T
    <2> QED
      BY <1>1, <1>2, AddsUpUnique
  <1> QED
    BY <1>1, <1>3, <1>4, SumIsRunning

(* Sums of natural numbers.                                                   *)
LEMMA SumIsNatural ==
    ASSUME NEW f, NEW S, IsFiniteSet(S), \A x \in S : f[x] \in Nat
    PROVE  SumFunctionOnSet(f, S) \in Nat
  <1> DEFINE G == {T \in SUBSET S : SumFunctionOnSet(f, T) \in Nat}
  <1>1. ASSUME NEW T \in SUBSET S, \A U \in SUBSET T : U # T => U \in G PROVE T \in G
    <2>1. CASE T = {}
      BY <2>1, SumOfEmpty
    <2>2. CASE T # {}
      <3>1. IsFiniteSet(T)
        BY FS_Subset
      <3>2. /\ Pick(T) \in T
            /\ SumFunctionOnSet(f, T) = f[Pick(T)] + SumFunctionOnSet(f, T \ {Pick(T)})
        BY <2>2, <3>1, SumStep
      <3>3. T \ {Pick(T)} \in G
        BY <1>1, <3>2
      <3> QED
        BY <3>2, <3>3
    <2> QED
      BY <2>1, <2>2
  <1>2. S \in G
    <2> HIDE DEF G
    <2> QED
      BY <1>1, SubsetInduction
  <1> QED
    BY <1>2

\* Any element may be taken out first.
LEMMA SumTakeOut ==
    ASSUME NEW f, NEW S, IsFiniteSet(S), \A x \in S : f[x] \in Nat, NEW x \in S
    PROVE  SumFunctionOnSet(f, S) = f[x] + SumFunctionOnSet(f, S \ {x})
  <1> DEFINE Sum(T) == SumFunctionOnSet(f, T)
             G == {T \in SUBSET S : \A y \in T : Sum(T) = f[y] + Sum(T \ {y})}
  <1>n. ASSUME NEW T \in SUBSET S PROVE IsFiniteSet(T) /\ Sum(T) \in Nat
    <2>1. IsFiniteSet(T)
      BY FS_Subset
    <2> QED
      BY <2>1, SumIsNatural
  <1>1. ASSUME NEW T \in SUBSET S, \A U \in SUBSET T : U # T => U \in G,
               NEW y \in T
        PROVE  Sum(T) = f[y] + Sum(T \ {y})
    <2> DEFINE p == Pick(T)
    <2>1. p \in T /\ Sum(T) = f[p] + Sum(T \ {p})
      BY <1>n, SumStep
    <2>2. CASE y # p
      <3>1. T \ {p} \in G /\ T \ {y} \in G
        BY <1>1, <2>1
      <3>2. /\ Sum(T \ {p}) = f[y] + Sum((T \ {p}) \ {y})
            /\ Sum(T \ {y}) = f[p] + Sum((T \ {y}) \ {p})
        BY <2>1, <2>2, <3>1
      <3>3. Sum((T \ {y}) \ {p}) = Sum((T \ {p}) \ {y})
        <4>1. (T \ {y}) \ {p} = (T \ {p}) \ {y}
          OBVIOUS
        <4> QED
          BY <4>1
      <3>4. f[p] \in Nat /\ f[y] \in Nat /\ Sum((T \ {p}) \ {y}) \in Nat
        BY <1>n, <2>1
      <3>5. Sum(T) = f[p] + (f[y] + Sum((T \ {p}) \ {y}))
        BY <2>1, <3>2
      <3>6. f[y] + Sum(T \ {y}) = f[y] + (f[p] + Sum((T \ {p}) \ {y}))
        BY <3>2, <3>3
      <3> HIDE DEF Sum, p
      <3> QED
        BY <3>4, <3>5, <3>6
    <2> QED
      BY <2>1, <2>2
  <1>2. S \in G
    <2>1. ASSUME NEW T \in SUBSET S, \A U \in SUBSET T : U # T => U \in G PROVE T \in G
      BY <1>1, <2>1
    <2> HIDE DEF G
    <2> QED
      BY <2>1, SubsetInduction
  <1> QED
    BY <1>2

\* Terms that are no smaller make no smaller sum.
LEMMA SumMonotone ==
    ASSUME NEW S, IsFiniteSet(S), NEW f, NEW g,
           \A x \in S : f[x] \in Nat /\ g[x] \in Nat /\ f[x] <= g[x]
    PROVE  SumFunctionOnSet(f, S) <= SumFunctionOnSet(g, S)
  <1> DEFINE F(T) == SumFunctionOnSet(f, T)
             H(T) == SumFunctionOnSet(g, T)
             G == {T \in SUBSET S : F(T) <= H(T)}
  <1>1. ASSUME NEW T \in SUBSET S, \A U \in SUBSET T : U # T => U \in G PROVE T \in G
    <2>1. CASE T = {}
      BY <2>1, SumOfEmpty
    <2>2. CASE T # {}
      <3> DEFINE p == Pick(T)
      <3>1. IsFiniteSet(T)
        BY FS_Subset
      <3>2. p \in T /\ F(T) = f[p] + F(T \ {p}) /\ H(T) = g[p] + H(T \ {p})
        BY <2>2, <3>1, SumStep
      <3>3. F(T \ {p}) <= H(T \ {p})
        BY <1>1, <3>2
      <3>4. F(T \ {p}) \in Nat /\ H(T \ {p}) \in Nat
        <4>1. IsFiniteSet(T \ {p}) /\ T \ {p} \subseteq S
          BY <3>1, FS_RemoveElement
        <4> QED
          BY <4>1, SumIsNatural
      <3>5. f[p] \in Nat /\ g[p] \in Nat /\ f[p] <= g[p]
        BY <3>2
      <3>6. F(T) <= H(T)
        <4> HIDE DEF F, H, p
        <4> QED
          BY <3>2, <3>3, <3>4, <3>5
      <3> QED
        BY <3>6
    <2> QED
      BY <2>1, <2>2
  <1>2. S \in G
    <2> HIDE DEF G
    <2> QED
      BY <1>1, SubsetInduction
  <1> QED
    BY <1>2

\* Equal terms make equal sums.
LEMMA SumSame ==
    ASSUME NEW S, IsFiniteSet(S), NEW f, NEW g,
           \A x \in S : f[x] \in Nat /\ g[x] = f[x]
    PROVE  SumFunctionOnSet(f, S) = SumFunctionOnSet(g, S)
  <1>1. \A x \in S : f[x] \in Nat /\ g[x] \in Nat /\ f[x] <= g[x] /\ g[x] <= f[x]
    OBVIOUS
  <1>2. /\ SumFunctionOnSet(f, S) \in Nat /\ SumFunctionOnSet(g, S) \in Nat
    BY <1>1, SumIsNatural
  <1>3. /\ SumFunctionOnSet(f, S) <= SumFunctionOnSet(g, S)
        /\ SumFunctionOnSet(g, S) <= SumFunctionOnSet(f, S)
    BY <1>1, SumMonotone
  <1> QED
    BY <1>2, <1>3

\* Terms that are all zero.
LEMMA SumOfZeros ==
    ASSUME NEW S, IsFiniteSet(S), NEW f, \A x \in S : f[x] = 0
    PROVE  SumFunctionOnSet(f, S) = 0
  <1> DEFINE G == {T \in SUBSET S : SumFunctionOnSet(f, T) = 0}
  <1>1. ASSUME NEW T \in SUBSET S, \A U \in SUBSET T : U # T => U \in G PROVE T \in G
    <2>1. CASE T = {}
      BY <2>1, SumOfEmpty
    <2>2. CASE T # {}
      <3>1. IsFiniteSet(T)
        BY FS_Subset
      <3>2. /\ Pick(T) \in T
            /\ SumFunctionOnSet(f, T) = f[Pick(T)] + SumFunctionOnSet(f, T \ {Pick(T)})
        BY <2>2, <3>1, SumStep
      <3>3. T \ {Pick(T)} \in G
        BY <1>1, <3>2
      <3> QED
        BY <3>2, <3>3
    <2> QED
      BY <2>1, <2>2
  <1>2. S \in G
    <2> HIDE DEF G
    <2> QED
      BY <1>1, SubsetInduction
  <1> QED
    BY <1>2

\* One term changes, and the sum by as much.
LEMMA SumChange ==
    ASSUME NEW S, IsFiniteSet(S), NEW x \in S, NEW f, NEW g,
           \A y \in S : f[y] \in Nat /\ g[y] \in Nat,
           \A y \in S \ {x} : g[y] = f[y]
    PROVE  SumFunctionOnSet(g, S) + f[x] = SumFunctionOnSet(f, S) + g[x]
  <1>1. IsFiniteSet(S \ {x})
    BY FS_RemoveElement
  <1>2. SumFunctionOnSet(f, S \ {x}) = SumFunctionOnSet(g, S \ {x})
    BY <1>1, SumSame
  <1>3. SumFunctionOnSet(f, S \ {x}) \in Nat
    BY <1>1, SumIsNatural
  <1>4. /\ SumFunctionOnSet(f, S) = f[x] + SumFunctionOnSet(f, S \ {x})
        /\ SumFunctionOnSet(g, S) = g[x] + SumFunctionOnSet(g, S \ {x})
    BY SumTakeOut
  <1> QED
    BY <1>2, <1>3, <1>4

\* Terms that are sums of two.
LEMMA SumOfSums ==
    ASSUME NEW S, IsFiniteSet(S), NEW f, NEW g, NEW h,
           \A x \in S : f[x] \in Nat /\ g[x] \in Nat /\ h[x] = f[x] + g[x]
    PROVE  SumFunctionOnSet(h, S) = SumFunctionOnSet(f, S) + SumFunctionOnSet(g, S)
  <1> DEFINE F(T) == SumFunctionOnSet(f, T)
             I(T) == SumFunctionOnSet(g, T)
             H(T) == SumFunctionOnSet(h, T)
             G == {T \in SUBSET S : H(T) = F(T) + I(T)}
  <1>1. ASSUME NEW T \in SUBSET S, \A U \in SUBSET T : U # T => U \in G PROVE T \in G
    <2>1. CASE T = {}
      BY <2>1, SumOfEmpty
    <2>2. CASE T # {}
      <3> DEFINE p == Pick(T)
      <3>1. IsFiniteSet(T)
        BY FS_Subset
      <3>2. p \in T /\ F(T) = f[p] + F(T \ {p}) /\ I(T) = g[p] + I(T \ {p})
            /\ H(T) = h[p] + H(T \ {p})
        BY <2>2, <3>1, SumStep
      <3>3. H(T \ {p}) = F(T \ {p}) + I(T \ {p})
        BY <1>1, <3>2
      <3>4. F(T \ {p}) \in Nat /\ I(T \ {p}) \in Nat
        <4>1. IsFiniteSet(T \ {p}) /\ T \ {p} \subseteq S
          BY <3>1, FS_RemoveElement
        <4> QED
          BY <4>1, SumIsNatural
      <3>5. f[p] \in Nat /\ g[p] \in Nat /\ h[p] = f[p] + g[p]
        BY <3>2
      <3>6. H(T) = F(T) + I(T)
        <4> HIDE DEF F, I, H, p
        <4> QED
          BY <3>2, <3>3, <3>4, <3>5
      <3> QED
        BY <3>6
    <2> QED
      BY <2>1, <2>2
  <1>2. S \in G
    <2> HIDE DEF G
    <2> QED
      BY <1>1, SubsetInduction
  <1> QED
    BY <1>2

\* Terms that are zero need not be added.
LEMMA SumSupport ==
    ASSUME NEW S, IsFiniteSet(S), NEW R \in SUBSET S, NEW f,
           \A x \in S : f[x] \in Nat, \A x \in S \ R : f[x] = 0
    PROVE  SumFunctionOnSet(f, S) = SumFunctionOnSet(f, R)
  <1> DEFINE G == {T \in SUBSET S : SumFunctionOnSet(f, T) = SumFunctionOnSet(f, T \intersect R)}
  <1>1. ASSUME NEW T \in SUBSET S, \A U \in SUBSET T : U # T => U \in G PROVE T \in G
    <2> DEFINE Q == T \intersect R
    <2>0. IsFiniteSet(T) /\ IsFiniteSet(Q)
      BY FS_Subset
    <2>1. CASE T = Q
      BY <2>1
    <2>2. CASE T # Q
      <3>1. PICK x \in T : x \notin R
        BY <2>2
      <3>2. SumFunctionOnSet(f, T) = f[x] + SumFunctionOnSet(f, T \ {x})
        BY <2>0, <3>1, SumTakeOut
      <3>3. SumFunctionOnSet(f, T \ {x}) = SumFunctionOnSet(f, (T \ {x}) \intersect R)
        BY <1>1, <3>1
      <3>4. (T \ {x}) \intersect R = Q
        BY <3>1
      <3>5. SumFunctionOnSet(f, Q) \in Nat
        BY <2>0, SumIsNatural
      <3>6. f[x] = 0
        BY <3>1
      <3> HIDE DEF Q
      <3>7. SumFunctionOnSet(f, T) = SumFunctionOnSet(f, Q)
        BY <3>2, <3>3, <3>4, <3>5, <3>6
      <3> QED
        BY <3>7 DEF Q
    <2> QED
      BY <2>1, <2>2
  <1>2. S \in G
    <2> HIDE DEF G
    <2> QED
      BY <1>1, SubsetInduction
  <1>3. S \intersect R = R
    OBVIOUS
  <1> QED
    BY <1>2, <1>3

\* So many terms, none of them more than k.
LEMMA SumAtMost ==
    ASSUME NEW S, IsFiniteSet(S), NEW k \in Nat, NEW f, \A x \in S : f[x] \in 0..k
    PROVE  SumFunctionOnSet(f, S) <= Cardinality(S) * k
  <1> DEFINE F(T) == SumFunctionOnSet(f, T)
             G == {T \in SUBSET S : F(T) <= Cardinality(T) * k}
  <1>1. ASSUME NEW T \in SUBSET S, \A U \in SUBSET T : U # T => U \in G PROVE T \in G
    <2>1. CASE T = {}
      BY <2>1, SumOfEmpty, FS_EmptySet
    <2>2. CASE T # {}
      <3> DEFINE p == Pick(T)
                 U == T \ {p}
      <3>1. IsFiniteSet(T)
        BY FS_Subset
      <3>2. p \in T /\ F(T) = f[p] + F(U)
        BY <2>2, <3>1, SumStep
      <3>3. F(U) <= Cardinality(U) * k
        BY <1>1, <3>2
      <3>4. F(U) \in Nat
        <4>1. IsFiniteSet(U) /\ U \subseteq S
          BY <3>1, FS_RemoveElement
        <4> QED
          BY <4>1, SumIsNatural
      <3>5. /\ Cardinality(U) = Cardinality(T) - 1
            /\ Cardinality(T) \in Nat /\ Cardinality(U) \in Nat
        BY <3>1, <3>2, FS_RemoveElement, FS_CardinalityType
      <3>6. f[p] \in Nat /\ f[p] <= k
        BY <3>2
      <3>7. F(T) <= Cardinality(T) * k
        <4> HIDE DEF F, p, U
        <4>1. Cardinality(T) * k = Cardinality(U) * k + k
          BY <3>5
        <4>2. Cardinality(U) * k \in Nat
          BY <3>5
        <4> QED
          BY <3>2, <3>3, <3>4, <3>6, <4>1, <4>2
      <3> QED
        BY <3>7
    <2> QED
      BY <2>1, <2>2
  <1>2. S \in G
    <2> HIDE DEF G
    <2> QED
      BY <1>1, SubsetInduction
  <1> QED
    BY <1>2
=============================================================================

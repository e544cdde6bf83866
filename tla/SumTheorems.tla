------------------------------ MODULE SumTheorems ------------------------------
(***************************************************************************)
(* Facts about SumFunctionOnSet over a finite set, which Ledger uses for   *)
(* the usage of a shared pool (over_duration in daemon/src/engine.rs).     *)
(*                                                                         *)
(* The sum is a recursive function over the subsets, so each fact is an    *)
(* induction.  The library's induction theorems take the formula as an     *)
(* operator; here the induction is a least counterexample instead, in the  *)
(* naturals or among the subsets of a finite set (WFMin).                  *)
(***************************************************************************)
EXTENDS Integers, FiniteSets, FiniteSetsExt, FiniteSetTheorems, WellFoundedInduction, TLAPS

------------------------------------------------------------------------------
\* Least counterexamples.

LEMMA LeastNatural ==
    ASSUME NEW S \in SUBSET Nat, S # {}
    PROVE  \E n \in S : \A m \in S : n <= m
<1>. DEFINE R == OpToRel(<, Nat)
<1>1. IsWellFoundedOn(R, Nat)
  BY NatLessThanWellFounded
<1>2. R = {ss \in Nat \X Nat : ss[1] < ss[2]}
  BY DEF OpToRel
<1>. HIDE DEF R
<1>3. PICK n \in S : \A m \in S : ~(<<m, n>> \in R)
  BY <1>1, WFMin
<1>4. ASSUME NEW m \in S PROVE n <= m
  <2>1. m < n => <<m, n>> \in R
    BY <1>2
  <2>. QED BY <2>1, <1>3
<1>. QED BY <1>4

LEMMA LeastSubset ==
    ASSUME NEW S, IsFiniteSet(S), NEW F \in SUBSET (SUBSET S), F # {}
    PROVE  \E T \in F : \A U \in F : U \subseteq T => U = T
<1>. DEFINE R == StrictSubsetOrdering(S)
<1>1. IsWellFoundedOn(R, FiniteSubsetsOf(S)) /\ FiniteSubsetsOf(S) = SUBSET S
  BY FS_StrictSubsetOrderingWellFounded, FS_FiniteSubsetsOfFinite
<1>2. R = {ss \in (SUBSET S) \X (SUBSET S) : ss[1] \subseteq ss[2] /\ ss[1] # ss[2]}
  BY DEF StrictSubsetOrdering
<1>. HIDE DEF R
<1>3. PICK T \in F : \A U \in F : ~(<<U, T>> \in R)
  BY <1>1, WFMin
<1>4. ASSUME NEW U \in F, U \subseteq T PROVE U = T
  <2>1. U # T => <<U, T>> \in R
    BY <1>2, <1>4
  <2>. QED BY <2>1, <1>3
<1>. QED BY <1>4

------------------------------------------------------------------------------
\* The recursive function under the sum.

Pick(s) == CHOOSE x \in s : TRUE

\* One step of it: g sums f over the subsets of S.
SumStep(f, g, s) == IF s = {} THEN 0 ELSE f[Pick(s)] + g[s \ {Pick(s)}]

Sums(f, S, g) == g = [s \in SUBSET S |-> SumStep(f, g, s)]

LEMMA PickIn ==
    ASSUME NEW s, s # {}
    PROVE  Pick(s) \in s
BY DEF Pick

Small(S, n) == {s \in SUBSET S : Cardinality(s) <= n}

\* A function that sums over the subsets up to some size can be extended by one size.
LEMMA SumGrows ==
    ASSUME NEW S, IsFiniteSet(S), NEW f, NEW n \in Nat, NEW g,
           g = [s \in Small(S, n) |-> SumStep(f, g, s)]
    PROVE  \E h : h = [s \in Small(S, n + 1) |-> SumStep(f, h, s)]
<1>. DEFINE h == [s \in Small(S, n + 1) |-> SumStep(f, g, s)]
<1>1. ASSUME NEW s \in SUBSET S
      PROVE  Cardinality(s) \in Nat /\ IsFiniteSet(s)
  BY FS_Subset, FS_CardinalityType
<1>2. ASSUME NEW s \in Small(S, n)
      PROVE  s \in Small(S, n + 1) /\ h[s] = g[s]
  <2>1. s \in Small(S, n + 1)
    BY <1>1 DEF Small
  <2>2. h[s] = SumStep(f, g, s)
    BY <2>1
  <2>3. g[s] = SumStep(f, g, s)
    OBVIOUS
  <2>. QED BY <2>1, <2>2, <2>3
<1>3. ASSUME NEW s \in Small(S, n + 1), s # {}
      PROVE  s \ {Pick(s)} \in Small(S, n)
  <2>1. s \in SUBSET S /\ Cardinality(s) <= n + 1 /\ Pick(s) \in s
    BY <1>3, PickIn DEF Small
  <2>2. Cardinality(s \ {Pick(s)}) = Cardinality(s) - 1
    BY <1>1, <2>1, FS_RemoveElement
  <2>. QED BY <1>1, <2>1, <2>2 DEF Small
<1>4. ASSUME NEW s \in Small(S, n + 1)
      PROVE  SumStep(f, g, s) = SumStep(f, h, s)
  <2>1. CASE s = {}
    BY <2>1 DEF SumStep
  <2>2. CASE s # {}
    <3>1. h[s \ {Pick(s)}] = g[s \ {Pick(s)}]
      BY <1>2, <1>3, <2>2
    <3>. QED BY <2>2, <3>1 DEF SumStep
  <2>. QED BY <2>1, <2>2
<1>5. h = [s \in Small(S, n + 1) |-> SumStep(f, h, s)]
  BY <1>4
<1>. QED BY <1>5

LEMMA SumsExist ==
    ASSUME NEW S, IsFiniteSet(S), NEW f
    PROVE  \E g : Sums(f, S, g)
<1>. DEFINE Good == {n \in Nat : \E g : g = [s \in Small(S, n) |-> SumStep(f, g, s)]}
            Bad == Nat \ Good
<1>1. ASSUME NEW s \in SUBSET S
      PROVE  Cardinality(s) \in Nat /\ IsFiniteSet(s)
  BY FS_Subset, FS_CardinalityType
<1>2. 0 \in Good
  <2>. DEFINE g == [s \in Small(S, 0) |-> 0]
  <2>1. ASSUME NEW s \in Small(S, 0)
        PROVE  s = {}
    BY <1>1, FS_EmptySet DEF Small
  <2>2. g = [s \in Small(S, 0) |-> SumStep(f, g, s)]
    BY <2>1 DEF SumStep
  <2>. HIDE DEF g
  <2>. QED BY <2>2
<1>3. ASSUME NEW n \in Good
      PROVE  n + 1 \in Good
  BY SumGrows
<1>4. Bad = {}
  <2>1. SUFFICES ASSUME Bad # {} PROVE FALSE
    OBVIOUS
  <2>2. PICK n \in Bad : \A m \in Bad : n <= m
    BY <2>1, LeastNatural
  <2>3. n # 0 /\ n \in Nat
    BY <1>2
  <2>4. n - 1 \in Nat /\ ~(n <= n - 1)
    BY <2>3
  <2>5. n - 1 \in Good
    BY <2>2, <2>4
  <2>6. (n - 1) + 1 \in Good
    BY <1>3, <2>5
  <2>7. (n - 1) + 1 = n
    BY <2>3
  <2>. QED BY <2>6, <2>7
<1>5. Cardinality(S) \in Good
  BY <1>1, <1>4
<1>6. Small(S, Cardinality(S)) = SUBSET S
  BY <1>1, FS_Subset DEF Small
<1>. QED BY <1>5, <1>6 DEF Sums

\* What SumFunctionOnSet is: the last of the sums of f over the subsets of S.
PartialSums(f, S, g) ==
    /\ SumFunctionOnSet(f, S) = g[S]
    /\ \A s \in SUBSET S : g[s] = SumStep(f, g, s)

LEMMA SumIs ==
    ASSUME NEW S, IsFiniteSet(S), NEW f
    PROVE  \E g : PartialSums(f, S, g)
<1>. DEFINE iter == CHOOSE g : Sums(f, S, g)
<1>1. Sums(f, S, iter)
  BY SumsExist
<1>2. SumFunctionOnSet(f, S) = iter[S]
  BY DEF SumFunctionOnSet, FoldFunctionOnSet, MapThenFoldSet, Sums, SumStep, Pick
<1>. HIDE DEF iter
<1>3. \A s \in SUBSET S : iter[s] = SumStep(f, iter, s)
  BY <1>1 DEF Sums
<1>. QED BY <1>2, <1>3 DEF PartialSums
------------------------------------------------------------------------------
\* Bounds on a sum.

LEMMA SumIsNat ==
    ASSUME NEW S, IsFiniteSet(S), NEW f, \A u \in S : f[u] \in Nat
    PROVE  SumFunctionOnSet(f, S) \in Nat
<1>0. PICK g : PartialSums(f, S, g)
  BY SumIs
<1>1. SumFunctionOnSet(f, S) = g[S] /\ \A s \in SUBSET S : g[s] = SumStep(f, g, s)
  BY <1>0 DEF PartialSums
<1>. DEFINE Bad == {s \in SUBSET S : g[s] \notin Nat}
<1>2. SUFFICES ASSUME Bad # {} PROVE FALSE
  BY <1>1
<1>3. PICK s \in Bad : \A r \in Bad : r \subseteq s => r = s
  <2>1. Bad \in SUBSET (SUBSET S)
    OBVIOUS
  <2>. HIDE DEF Bad
  <2>. QED BY <1>2, <2>1, LeastSubset
<1>4. s # {}
  BY <1>1 DEF SumStep
<1>5. Pick(s) \in s /\ s \ {Pick(s)} \in SUBSET S
  BY <1>4, PickIn
<1>6. g[s \ {Pick(s)}] \in Nat
  BY <1>3, <1>5
<1>7. g[s] = f[Pick(s)] + g[s \ {Pick(s)}]
  BY <1>1, <1>4 DEF SumStep
<1>. QED BY <1>5, <1>6, <1>7

\* What grows by at most c in each element grows by at most c for each element in sum; with
\* c = 0, a sum is monotone.
LEMMA SumGrowth ==
    ASSUME NEW S, IsFiniteSet(S), NEW c \in Nat, NEW f, NEW h,
           \A u \in S : f[u] \in Nat /\ h[u] \in Nat /\ h[u] <= f[u] + c
    PROVE  SumFunctionOnSet(h, S) <= SumFunctionOnSet(f, S) + c * Cardinality(S)
<1>0. PICK F, G : PartialSums(f, S, F) /\ PartialSums(h, S, G)
  <2>1. (\E F : PartialSums(f, S, F)) /\ (\E G : PartialSums(h, S, G))
    BY SumIs
  <2>. QED BY <2>1
<1>1. SumFunctionOnSet(f, S) = F[S] /\ \A s \in SUBSET S : F[s] = SumStep(f, F, s)
  BY <1>0 DEF PartialSums
<1>2. SumFunctionOnSet(h, S) = G[S] /\ \A s \in SUBSET S : G[s] = SumStep(h, G, s)
  BY <1>0 DEF PartialSums
<1>. DEFINE Holds(s) == /\ F[s] \in Nat /\ G[s] \in Nat
                        /\ G[s] <= F[s] + c * Cardinality(s)
            Bad == {s \in SUBSET S : ~Holds(s)}
<1>3. SUFFICES ASSUME Bad # {} PROVE FALSE
  BY <1>1, <1>2
<1>4. PICK s \in Bad : \A r \in Bad : r \subseteq s => r = s
  <2>1. Bad \in SUBSET (SUBSET S)
    OBVIOUS
  <2>. HIDE DEF Bad
  <2>. QED BY <1>3, <2>1, LeastSubset
<1>5. IsFiniteSet(s) /\ Cardinality(s) \in Nat
  BY FS_Subset, FS_CardinalityType
<1>6. s # {}
  <2>1. F[{}] = 0 /\ G[{}] = 0
    BY <1>1, <1>2 DEF SumStep
  <2>2. c * Cardinality({}) = 0
    BY FS_EmptySet
  <2>3. Holds({})
    BY <2>1, <2>2
  <2>. QED BY <2>3
<1>. DEFINE x == Pick(s)
            rest == s \ {x}
<1>7. x \in s /\ rest \in SUBSET S /\ rest \subseteq s /\ rest # s
  BY <1>6, PickIn
<1>8. Holds(rest)
  BY <1>4, <1>7
<1>9. F[s] = f[x] + F[rest] /\ G[s] = h[x] + G[rest]
  BY <1>1, <1>2, <1>6 DEF SumStep
<1>10. Cardinality(s) = Cardinality(rest) + 1 /\ Cardinality(rest) \in Nat
  <2>1. IsFiniteSet(rest)
    BY FS_Subset, <1>7
  <2>2. Cardinality(rest) = Cardinality(s) - 1
    BY <1>5, <1>7, FS_RemoveElement
  <2>. QED BY <1>5, <2>1, <2>2, FS_CardinalityType
<1>11. f[x] \in Nat /\ h[x] \in Nat /\ h[x] <= f[x] + c
  BY <1>7
<1>. HIDE DEF x, rest
<1>12. c * Cardinality(s) = c * Cardinality(rest) + c /\ c * Cardinality(rest) \in Nat
  <2>1. PICK n \in Nat : n = Cardinality(rest)
    BY <1>10
  <2>2. c * (n + 1) = c * n + c /\ c * n \in Nat
    OBVIOUS
  <2>. QED BY <1>10, <2>1, <2>2
<1>13. Holds(s)
  BY <1>8, <1>9, <1>11, <1>12
<1>. QED BY <1>13

\* A sum of elements of at most c.
LEMMA SumAtMost ==
    ASSUME NEW S, IsFiniteSet(S), NEW c \in Nat, NEW g, \A u \in S : g[u] \in 0 .. c
    PROVE  SumFunctionOnSet(g, S) <= c * Cardinality(S)
<1>. DEFINE zeros == [u \in S |-> 0]
<1>0. PICK F : PartialSums(zeros, S, F)
  BY SumIs
<1>1. SumFunctionOnSet(zeros, S) = F[S] /\ \A s \in SUBSET S : F[s] = SumStep(zeros, F, s)
  BY <1>0 DEF PartialSums
<1>2. F[S] = 0
  <2>. DEFINE Bad == {s \in SUBSET S : F[s] # 0}
  <2>1. SUFFICES ASSUME Bad # {} PROVE FALSE
    OBVIOUS
  <2>2. PICK s \in Bad : \A r \in Bad : r \subseteq s => r = s
    <3>1. Bad \in SUBSET (SUBSET S)
      OBVIOUS
    <3>. HIDE DEF Bad
    <3>. QED BY <2>1, <3>1, LeastSubset
  <2>3. s # {}
    BY <1>1 DEF SumStep
  <2>4. Pick(s) \in s /\ s \ {Pick(s)} \in SUBSET S
    BY <2>3, PickIn
  <2>5. F[s \ {Pick(s)}] = 0 /\ zeros[Pick(s)] = 0
    BY <2>2, <2>4
  <2>6. F[s] = zeros[Pick(s)] + F[s \ {Pick(s)}]
    BY <1>1, <2>3 DEF SumStep
  <2>. QED BY <2>5, <2>6
<1>3. \A u \in S : zeros[u] \in Nat /\ g[u] \in Nat /\ g[u] <= zeros[u] + c
  OBVIOUS
<1>. HIDE DEF zeros
<1>4. SumFunctionOnSet(g, S) <= SumFunctionOnSet(zeros, S) + c * Cardinality(S)
  BY <1>3, SumGrowth
<1>5. Cardinality(S) \in Nat /\ c * Cardinality(S) \in Nat
  <2>1. PICK n \in Nat : n = Cardinality(S)
    BY FS_CardinalityType
  <2>. QED BY <2>1
<1>. QED BY <1>1, <1>2, <1>4, <1>5
================================================================================

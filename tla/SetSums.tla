------------------------------- MODULE SetSums -------------------------------
(***************************************************************************)
(* What the sum of a function over a finite set is (MapThenSumSet of the   *)
(* community modules): it does not depend on the order in which the fold   *)
(* picks elements, and an element more adds its value.                     *)
(*                                                                         *)
(* Induction is over the subsets of a finite set: of those that are a      *)
(* counterexample, some subset is minimal.                                 *)
(***************************************************************************)
EXTENDS Integers, FiniteSetTheorems, WellFoundedInduction, TLAPS

\* The element that the fold takes out of s.
Pick(s) == CHOOSE x \in s : TRUE

\* g is the function that the fold of f over S defines.
IsFold(f, S, g) ==
  g = [s \in SUBSET S |-> IF s = {} THEN 0 ELSE f[Pick(s)] + g[s \ {Pick(s)}]]

\* n is the sum of f over S.
HasSum(f, S, n) == \E g : IsFold(f, S, g) /\ n = g[S]

\* The picked element is one of the set's.
LEMMA PickIn ==
  ASSUME NEW s, s # {}
  PROVE  Pick(s) \in s
BY DEF Pick

\* Of a family of subsets of a finite set one contains no other.
LEMMA MinimalSubset ==
  ASSUME NEW S, IsFiniteSet(S), NEW T \in SUBSET SUBSET S, T # {}
  PROVE  \E s \in T : \A u \in SUBSET s : u # s => u \notin T
<1>1. IsWellFoundedOn(StrictSubsetOrdering(S), SUBSET S)
  <2>1. IsWellFoundedOn(StrictSubsetOrdering(S), FiniteSubsetsOf(S))
    BY FS_StrictSubsetOrderingWellFounded
  <2>2. FiniteSubsetsOf(S) = SUBSET S
    BY FS_FiniteSubsetsOfFinite
  <2> QED
    BY <2>1, <2>2
<1>2. PICK s \in T : \A u \in T : <<u, s>> \notin StrictSubsetOrdering(S)
  BY <1>1, WFMin
<1>3. ASSUME NEW u \in SUBSET s, u # s, u \in T
      PROVE  FALSE
  <2>1. <<u, s>> \in (SUBSET S) \X (SUBSET S)
    OBVIOUS
  <2>2. <<u, s>> \in StrictSubsetOrdering(S)
    BY <1>3, <2>1 DEF StrictSubsetOrdering
  <2> QED
    BY <1>2, <1>3, <2>2
<1> QED
  BY <1>3

\* The value of a fold at a subset.
LEMMA FoldValue ==
  ASSUME NEW f, NEW S, NEW g, IsFold(f, S, g)
  PROVE  /\ g[{}] = 0
         /\ \A s \in SUBSET S :
              s # {} => g[s] = f[Pick(s)] + g[s \ {Pick(s)}]
BY DEF IsFold

\* Folds of functions that agree where both are summed agree.
LEMMA FoldUnique ==
  ASSUME NEW f, NEW S, NEW g, IsFold(f, S, g), IsFiniteSet(S),
         NEW h, NEW T, NEW k, IsFold(h, T, k), S \subseteq T,
         \A x \in S : f[x] = h[x]
  PROVE  \A s \in SUBSET S : g[s] = k[s]
<1> DEFINE Bad == {s \in SUBSET S : g[s] # k[s]}
<1> SUFFICES ASSUME Bad # {}
             PROVE  FALSE
  OBVIOUS
<1>1. PICK s \in Bad : \A u \in SUBSET s : u # s => u \notin Bad
  <2>1. Bad \in SUBSET SUBSET S
    OBVIOUS
  <2> HIDE DEF Bad
  <2> QED
    BY <2>1, MinimalSubset
<1>2. s # {}
  <2>1. g[{}] = 0 /\ k[{}] = 0
    BY FoldValue
  <2> QED
    BY <2>1
<1>3. Pick(s) \in s
  BY <1>2, PickIn
<1>4. g[s \ {Pick(s)}] = k[s \ {Pick(s)}]
  BY <1>1, <1>3
<1>5. /\ g[s] = f[Pick(s)] + g[s \ {Pick(s)}]
      /\ k[s] = h[Pick(s)] + k[s \ {Pick(s)}]
  BY <1>2, FoldValue
<1> QED
  BY <1>1, <1>3, <1>4, <1>5

\* The fold of a function over a finite set exists.
LEMMA FoldExists ==
  ASSUME NEW f, NEW S, IsFiniteSet(S)
  PROVE  \E g : IsFold(f, S, g)
<1> DEFINE Bad == {s \in SUBSET S : ~ \E g : IsFold(f, s, g)}
<1> SUFFICES ASSUME Bad # {}
             PROVE  FALSE
  OBVIOUS
<1>1. PICK s \in Bad : \A u \in SUBSET s : u # s => u \notin Bad
  <2>1. Bad \in SUBSET SUBSET S
    OBVIOUS
  <2> HIDE DEF Bad
  <2> QED
    BY <2>1, MinimalSubset
<1> DEFINE fold(t) == CHOOSE g : IsFold(f, t, g)
           sum(t) == fold(t)[t]
           whole == IF s = {} THEN 0 ELSE f[Pick(s)] + sum(s \ {Pick(s)})
           g == [t \in SUBSET s |-> IF t = s THEN whole ELSE sum(t)]
<1>2. ASSUME NEW t \in SUBSET s, t # s
      PROVE  IsFold(f, t, fold(t)) /\ IsFiniteSet(t)
  <2>1. \E h : IsFold(f, t, h)
    BY <1>1, <1>2
  <2>2. IsFiniteSet(t)
    BY FS_Subset
  <2> QED
    BY <2>1, <2>2
<1>3. ASSUME NEW t \in SUBSET s, t # s
      PROVE  sum(t) = IF t = {} THEN 0 ELSE f[Pick(t)] + sum(t \ {Pick(t)})
  <2>1. IsFold(f, t, fold(t))
    BY <1>2, <1>3
  <2> HIDE DEF fold
  <2>2. CASE t = {}
    BY <2>1, <2>2, FoldValue
  <2>3. CASE t # {}
    <3> DEFINE u == t \ {Pick(t)}
    <3>1. u \in SUBSET s /\ u # s /\ u \subseteq t
      BY <1>3, <2>3, PickIn
    <3>2. IsFold(f, u, fold(u)) /\ IsFiniteSet(u)
      BY <1>2, <3>1
    <3>3. fold(u)[u] = fold(t)[u]
      BY <2>1, <3>1, <3>2, FoldUnique
    <3>4. fold(t)[t] = f[Pick(t)] + fold(t)[u]
      BY <2>1, <2>3, FoldValue
    <3> QED
      BY <2>3, <3>3, <3>4
  <2> QED
    BY <2>2, <2>3
<1>4. \A t \in SUBSET s : t # {} => t \ {Pick(t)} \in SUBSET s /\ t \ {Pick(t)} # s
  BY PickIn
<1> HIDE DEF fold, sum
<1>5. ASSUME NEW t \in SUBSET s
      PROVE  g[t] = IF t = {} THEN 0 ELSE f[Pick(t)] + g[t \ {Pick(t)}]
  BY <1>3, <1>4
<1>6. IsFold(f, s, g)
  <2>1. g = [t \in SUBSET s |-> g[t]]
    OBVIOUS
  <2> HIDE DEF g
  <2> QED
    BY <1>5, <2>1 DEF IsFold
<1> QED
  BY <1>1, <1>6

-----------------------------------------------------------------------------
\* A fold of integers is an integer.
LEMMA FoldInt ==
  ASSUME NEW f, NEW S, NEW g, IsFold(f, S, g), IsFiniteSet(S),
         \A x \in S : f[x] \in Int
  PROVE  \A s \in SUBSET S : g[s] \in Int
<1> DEFINE Bad == {s \in SUBSET S : g[s] \notin Int}
<1> SUFFICES ASSUME Bad # {}
             PROVE  FALSE
  OBVIOUS
<1>1. PICK s \in Bad : \A u \in SUBSET s : u # s => u \notin Bad
  <2>1. Bad \in SUBSET SUBSET S
    OBVIOUS
  <2> HIDE DEF Bad
  <2> QED
    BY <2>1, MinimalSubset
<1>2. s # {}
  <2>1. g[{}] = 0
    BY FoldValue
  <2> QED
    BY <2>1
<1>3. Pick(s) \in s
  BY <1>2, PickIn
<1>4. g[s \ {Pick(s)}] \in Int
  BY <1>1, <1>3
<1>5. g[s] = f[Pick(s)] + g[s \ {Pick(s)}]
  BY <1>2, FoldValue
<1> QED
  BY <1>1, <1>3, <1>4, <1>5

\* Any element may be taken out first: the order of the fold does not matter.
LEMMA FoldRemove ==
  ASSUME NEW f, NEW S, NEW g, IsFold(f, S, g), IsFiniteSet(S),
         \A x \in S : f[x] \in Int
  PROVE  \A s \in SUBSET S : \A x \in s : g[s] = f[x] + g[s \ {x}]
<1> DEFINE Bad == {s \in SUBSET S : \E x \in s : g[s] # f[x] + g[s \ {x}]}
<1> SUFFICES ASSUME Bad # {}
             PROVE  FALSE
  OBVIOUS
<1>1. PICK s \in Bad : \A u \in SUBSET s : u # s => u \notin Bad
  <2>1. Bad \in SUBSET SUBSET S
    OBVIOUS
  <2> HIDE DEF Bad
  <2> QED
    BY <2>1, MinimalSubset
<1>2. PICK x \in s : g[s] # f[x] + g[s \ {x}]
  OBVIOUS
<1> DEFINE y == Pick(s)
           rest == (s \ {x}) \ {y}
<1>3. y \in s /\ g[s] = f[y] + g[s \ {y}]
  BY <1>2, PickIn, FoldValue
<1>4. x # y
  BY <1>2, <1>3
<1>5. g[s \ {y}] = f[x] + g[(s \ {y}) \ {x}]
  BY <1>1, <1>3, <1>4
<1>6. g[s \ {x}] = f[y] + g[rest]
  BY <1>1, <1>3, <1>4
<1>7. (s \ {y}) \ {x} = rest
  OBVIOUS
<1>8. f[x] \in Int /\ f[y] \in Int /\ g[rest] \in Int
  <2>1. rest \in SUBSET S
    OBVIOUS
  <2>2. \A t \in SUBSET S : g[t] \in Int
    BY FoldInt
  <2> QED
    BY <1>3, <2>1, <2>2
<1> HIDE DEF y, rest
<1>9. g[s] = f[y] + (f[x] + g[rest]) /\ g[s \ {x}] = f[y] + g[rest]
  BY <1>3, <1>5, <1>6, <1>7
<1> QED
  BY <1>2, <1>8, <1>9

\* In particular out of the whole set.
LEMMA FoldRemoveTop ==
  ASSUME NEW f, NEW S, NEW g, IsFold(f, S, g), IsFiniteSet(S),
         \A x \in S : f[x] \in Int,
         NEW x \in S
  PROVE  g[S] = f[x] + g[S \ {x}]
BY FoldRemove

-----------------------------------------------------------------------------
(***************************************************************************)
(* The sum.                                                                *)
(***************************************************************************)
\* A finite set has a sum.
LEMMA SumExists ==
  ASSUME NEW f, NEW S, IsFiniteSet(S)
  PROVE  \E n : HasSum(f, S, n)
BY FoldExists DEF HasSum

\* The sum of integers is an integer.
LEMMA SumInt ==
  ASSUME NEW f, NEW S, IsFiniteSet(S), \A x \in S : f[x] \in Int,
         NEW n, HasSum(f, S, n)
  PROVE  n \in Int
<1>1. PICK g : IsFold(f, S, g) /\ n = g[S]
  BY DEF HasSum
<1>2. \A s \in SUBSET S : g[s] \in Int
  BY <1>1, FoldInt
<1> QED
  BY <1>1, <1>2

\* The sum over no elements is zero.
LEMMA SumEmpty ==
  ASSUME NEW f, NEW n, HasSum(f, {}, n)
  PROVE  n = 0
BY FoldValue DEF HasSum

\* There is one sum, and it depends on the values of f in S only.
LEMMA SumUnique ==
  ASSUME NEW f, NEW h, NEW S, IsFiniteSet(S), \A x \in S : f[x] = h[x],
         NEW m, NEW n, HasSum(f, S, m), HasSum(h, S, n)
  PROVE  m = n
<1>1. PICK g : IsFold(f, S, g) /\ m = g[S]
  BY DEF HasSum
<1>2. PICK k : IsFold(h, S, k) /\ n = k[S]
  BY DEF HasSum
<1>3. \A s \in SUBSET S : g[s] = k[s]
  BY <1>1, <1>2, FoldUnique
<1> QED
  BY <1>1, <1>2, <1>3

\* An element more adds its value.
LEMMA SumAdd ==
  ASSUME NEW f, NEW h, NEW S, NEW x, IsFiniteSet(S), x \notin S,
         \A y \in S : f[y] = h[y],
         \A y \in S \cup {x} : h[y] \in Int,
         NEW m, NEW n, HasSum(f, S, m), HasSum(h, S \cup {x}, n)
  PROVE  n = m + h[x]
<1>1. PICK T : T = S \cup {x}
  OBVIOUS
<1>2. /\ S \in SUBSET T /\ T \ {x} = S /\ x \in T
      /\ \A y \in T : h[y] \in Int
  BY <1>1
<1>3. IsFiniteSet(T)
  BY <1>1, FS_AddElement
<1>4. PICK g : IsFold(f, S, g) /\ m = g[S]
  BY DEF HasSum
<1>5. PICK k : IsFold(h, T, k) /\ n = k[T]
  BY <1>1 DEF HasSum
<1>6. \A s \in SUBSET S : g[s] = k[s]
  BY <1>2, <1>4, <1>5, FoldUnique
<1>7. IsFold(h, T, k)
  BY <1>5
<1>8. k[T] = h[x] + k[T \ {x}]
  BY <1>2, <1>3, <1>7, FoldRemoveTop
<1>9. k[T] = h[x] + k[S]
  BY <1>2, <1>8
<1>10. m \in Int /\ h[x] \in Int
  <2>1. \A y \in S : f[y] \in Int
    BY <1>2
  <2> QED
    BY <1>2, <2>1, SumInt
<1> QED
  BY <1>4, <1>5, <1>6, <1>9, <1>10
==============================================================================

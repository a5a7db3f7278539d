-------------------------- MODULE PositionRulesProofs --------------------------
(***************************************************************************)
(* Theorems about the rules for a book of positions over time, for any     *)
(* books, thresholds and days that the assumptions of PositionRules allow. *)
(*                                                                         *)
(* The rules are operators, many of them folds over finite sets.  The      *)
(* module first shows what a fold and a sum satisfy, by minimal subsets    *)
(* instead of induction, and then each rule in its turn.  The covered      *)
(* calls are a greedy matching; that it meets as many short legs as there  *)
(* is room for is shown of any such matching, since the put spreads of     *)
(* BookViews are one too (DecisionsProofs).                                *)
(***************************************************************************)
EXTENDS PositionRules, FiniteSetTheorems, SequenceTheorems, WellFoundedInduction,
        TLAPS

\* A set of subsets of a finite set has a minimal one: the principle by which
\* facts about finite sets are proved here by induction.
LEMMA MinimalSet ==
  ASSUME NEW Z, NEW F, IsFiniteSet(Z), \A x \in F : x \subseteq Z, F # {}
  PROVE  \E x \in F : \A y \in F : y \subseteq x => y = x
<1>1. IsWellFoundedOn(StrictSubsetOrdering(Z), FiniteSubsetsOf(Z))
  BY FS_StrictSubsetOrderingWellFounded
<1>2. F \subseteq FiniteSubsetsOf(Z)
  BY FS_Subset DEF FiniteSubsetsOf
<1>3. PICK x \in F : \A y \in F : ~(<<y, x>> \in StrictSubsetOrdering(Z))
  BY <1>1, <1>2, WFMin
<1> QED BY <1>3 DEF StrictSubsetOrdering

-----------------------------------------------------------------------------
(* Folds over finite sets. *)

\* A fold by a function: pick is the order in which it takes the elements.
IsFold(g, Z, base, step, pick) ==
  g = [u \in SUBSET Z |->
         IF u = {} THEN base ELSE step[<<pick[u], g[u \ {pick[u]}]>>]]

\* A fold and that of a part agree on the part.
LEMMA FoldsAgree ==
  ASSUME NEW Z, IsFiniteSet(Z), NEW base, NEW step, NEW pick,
         \A v \in SUBSET Z : v # {} => pick[v] \in v,
         NEW Y \in SUBSET Z,
         NEW g, NEW h, IsFold(g, Z, base, step, pick), IsFold(h, Y, base, step, pick)
  PROVE  g[Y] = h[Y]
<1> SUFFICES \A u \in SUBSET Y : g[u] = h[u]
  OBVIOUS
<1>1. PICK F : F = {v \in SUBSET Y : g[v] # h[v]}
  OBVIOUS
<1>2. SUFFICES ASSUME F # {} PROVE FALSE
  BY <1>1
<1>3. \A v \in F : v \subseteq Z
  BY <1>1
<1>4. PICK v \in F : \A w \in F : w \subseteq v => w = v
  BY <1>2, <1>3, MinimalSet
<1>5. v \in SUBSET Z /\ v \in SUBSET Y /\ g[v] # h[v]
  BY <1>1
<1>6. CASE v = {}
  BY <1>5, <1>6 DEF IsFold
<1>7. CASE v # {}
  <2>1. PICK x : x = pick[v]
    OBVIOUS
  <2>2. x \in v
    BY <1>5, <1>7, <2>1
  <2>3. g[v] = step[<<x, g[v \ {x}]>>] /\ h[v] = step[<<x, h[v \ {x}]>>]
    BY <1>5, <1>7, <2>1 DEF IsFold
  <2>4. v \ {x} \notin F
    BY <1>4, <2>2
  <2>5. g[v \ {x}] = h[v \ {x}]
    BY <1>1, <1>5, <2>4
  <2> QED BY <1>5, <2>3, <2>5
<1> QED BY <1>6, <1>7

\* A finite set can be folded.
LEMMA FoldOfFunction ==
  ASSUME NEW Z, IsFiniteSet(Z), NEW base, NEW step, NEW pick,
         \A v \in SUBSET Z : v # {} => pick[v] \in v
  PROVE  \E g : IsFold(g, Z, base, step, pick)
<1>1. PICK F : F = {u \in SUBSET Z : ~ \E g : IsFold(g, u, base, step, pick)}
  OBVIOUS
<1>2. SUFFICES ASSUME F # {} PROVE FALSE
  BY <1>1
<1>3. PICK y \in F : \A u \in F : u \subseteq y => u = y
  <2>1. \A u \in F : u \subseteq Z
    BY <1>1
  <2> QED BY <1>2, <2>1, MinimalSet
<1>4. /\ y \subseteq Z
      /\ \A u \in SUBSET y : u # y => \E g : IsFold(g, u, base, step, pick)
  BY <1>1, <1>3
<1> DEFINE h(u) == CHOOSE g : IsFold(g, u, base, step, pick)
           k(u) == IF u = {} THEN base ELSE step[<<pick[u], h(u \ {pick[u]})[u \ {pick[u]}]>>]
<1>5. \A u \in SUBSET y : u # y => IsFold(h(u), u, base, step, pick)
  BY <1>4
<1>6. \A u \in SUBSET y : u # {} => u \ {pick[u]} \in SUBSET y /\ u \ {pick[u]} # y /\ pick[u] \in u
  BY <1>4
<1>7. ASSUME NEW u \in SUBSET y, u # y
      PROVE  h(u)[u] = k(u)
  <2>1. IsFold(h(u), u, base, step, pick)
    BY <1>5, <1>7
  <2>2. ASSUME u = {} PROVE h(u)[u] = base
    BY <2>1, <2>2 DEF IsFold
  <2>3. ASSUME u = {} PROVE k(u) = base
    <3> HIDE DEF h
    <3> QED BY <2>3
  <2>4. CASE u # {}
    <3>1. PICK x, v : x = pick[u] /\ v = u \ {x}
      OBVIOUS
    <3>2. x \in u /\ v \in SUBSET y /\ v # y /\ v \in SUBSET u
      BY <1>6, <2>4, <3>1
    <3>3. IsFold(h(v), v, base, step, pick) /\ IsFiniteSet(u)
      BY <1>4, <1>5, <3>2, FS_Subset
    <3>4. h(u)[u] = step[<<x, h(u)[v]>>]
      BY <2>1, <2>4, <3>1 DEF IsFold
    <3>5. h(u)[v] = h(v)[v]
      <4>1. \A w \in SUBSET u : w # {} => pick[w] \in w
        BY <1>4
      <4> HIDE DEF h
      <4>2. PICK a, b : a = h(u) /\ b = h(v)
        OBVIOUS
      <4>3. /\ IsFold(a, u, base, step, pick) /\ IsFold(b, v, base, step, pick)
            /\ IsFiniteSet(u) /\ v \in SUBSET u
        BY <2>1, <3>2, <3>3, <4>2
      <4>4. a[v] = b[v]
        BY <4>1, <4>3, FoldsAgree
      <4> QED BY <4>2, <4>4
    <3>6. k(u) = step[<<x, h(v)[v]>>]
      <4> HIDE DEF h
      <4> QED BY <2>4, <3>1
    <3> HIDE DEF h, k
    <3> QED BY <3>4, <3>5, <3>6
  <2> HIDE DEF h, k
  <2> QED BY <2>2, <2>3, <2>4
<1>8. IsFold([u \in SUBSET y |-> k(u)], y, base, step, pick)
  <2> HIDE DEF h
  <2>1. \A u \in SUBSET y : k(u) = IF u = {} THEN base ELSE step[<<pick[u], k(u \ {pick[u]})>>]
    <3>1. ASSUME NEW u \in SUBSET y, u # {}
          PROVE  h(u \ {pick[u]})[u \ {pick[u]}] = k(u \ {pick[u]})
      <4> HIDE DEF k
      <4> QED BY <1>6, <1>7, <3>1
    <3> QED BY <3>1
  <2>2. PICK g : g = [u \in SUBSET y |-> k(u)]
    OBVIOUS
  <2>3. \A u \in SUBSET y : g[u] = k(u)
    BY <2>2
  <2>4. \A u \in SUBSET y : k(u) = IF u = {} THEN base ELSE step[<<pick[u], g[u \ {pick[u]}]>>]
    <3> HIDE DEF k
    <3> QED BY <1>6, <2>1, <2>3
  <2>5. g = [u \in SUBSET y |-> IF u = {} THEN base ELSE step[<<pick[u], g[u \ {pick[u]}]>>]]
    <3> HIDE DEF k
    <3> QED BY <2>2, <2>4
  <2> HIDE DEF k
  <2> QED BY <2>2, <2>5 DEF IsFold
<1> QED BY <1>1, <1>3, <1>8

\* A fold by a function that stays within a type does so.
LEMMA FoldExists ==
  ASSUME NEW Z, IsFiniteSet(Z), NEW A, NEW base \in A, NEW step \in [Z \X A -> A], NEW pick,
         \A v \in SUBSET Z : v # {} => pick[v] \in v
  PROVE  \E g \in [SUBSET Z -> A] : IsFold(g, Z, base, step, pick)
<1>1. PICK g : IsFold(g, Z, base, step, pick)
  BY FoldOfFunction
<1>2. PICK F : F = {u \in SUBSET Z : g[u] \notin A}
  OBVIOUS
<1>3. ASSUME F # {} PROVE FALSE
  <2>1. \A u \in F : u \subseteq Z
    BY <1>2
  <2>2. PICK u \in F : \A v \in F : v \subseteq u => v = u
    BY <1>3, <2>1, MinimalSet
  <2>3. u # {}
    BY <1>1, <1>2 DEF IsFold
  <2>4. u \ {pick[u]} \in SUBSET Z /\ pick[u] \in Z /\ u \ {pick[u]} \notin F
    BY <2>1, <2>2, <2>3
  <2>5. g[u \ {pick[u]}] \in A
    BY <1>2, <2>4
  <2>6. g[u] = step[<<pick[u], g[u \ {pick[u]}]>>]
    BY <1>1, <2>1, <2>3 DEF IsFold
  <2> QED BY <1>2, <2>4, <2>5, <2>6
<1>4. g \in [SUBSET Z -> A]
  <2>1. \A u \in SUBSET Z : g[u] \in A
    BY <1>2, <1>3
  <2> QED BY <1>1, <2>1 DEF IsFold
<1> QED BY <1>1, <1>4

-----------------------------------------------------------------------------
(* Sums over finite sets. *)

\* The sum of the values of a function over a set.
Sum(f, Z) == MapThenSumSet(LAMBDA x : f[x], Z)

\* The recursion that a sum names.
IsSum(g, f, Z) ==
  g = [s \in SUBSET Z |->
         IF s = {} THEN 0
         ELSE f[CHOOSE x \in s : TRUE] + g[s \ {CHOOSE x \in s : TRUE}]]

\* A sum is what its recursion gives.
LEMMA SumByRecursion == \A f, Z : Sum(f, Z) = (CHOOSE g : IsSum(g, f, Z))[Z]
BY DEF Sum, MapThenSumSet, MapThenFoldSet, IsSum

\* A sum of numbers is one, nothing adds up to 0, and it takes its elements in
\* some order.
LEMMA SumRecursion ==
  ASSUME NEW Z, IsFiniteSet(Z), NEW f, \A x \in Z : f[x] \in Int
  PROVE  \E g \in [SUBSET Z -> Int] : IsSum(g, f, Z)
<1>1. PICK pick : pick = [u \in SUBSET Z |-> CHOOSE x \in u : TRUE]
  OBVIOUS
<1>2. PICK step : step = [w \in Z \X Int |-> f[w[1]] + w[2]]
  OBVIOUS
<1>3. step \in [Z \X Int -> Int]
  <2>1. \A w \in Z \X Int : f[w[1]] + w[2] \in Int
    OBVIOUS
  <2> QED BY <1>2, <2>1
<1>4. \A v \in SUBSET Z : v # {} => pick[v] \in v
  BY <1>1
<1>5. PICK g \in [SUBSET Z -> Int] : IsFold(g, Z, 0, step, pick)
  <2>1. 0 \in Int
    OBVIOUS
  <2> QED BY <1>3, <1>4, <2>1, FoldExists
<1>6. \A u \in SUBSET Z : u # {} =>
        step[<<pick[u], g[u \ {pick[u]}]>>] = f[pick[u]] + g[u \ {pick[u]}]
  <2> SUFFICES ASSUME NEW u \in SUBSET Z, u # {}
               PROVE  step[<<pick[u], g[u \ {pick[u]}]>>] = f[pick[u]] + g[u \ {pick[u]}]
    OBVIOUS
  <2>1. pick[u] \in Z /\ g[u \ {pick[u]}] \in Int
    BY <1>4, <1>5
  <2> QED BY <1>2, <2>1
<1>7. \A u \in SUBSET Z : g[u] = IF u = {} THEN 0 ELSE f[pick[u]] + g[u \ {pick[u]}]
  BY <1>5, <1>6 DEF IsFold
<1>8. \A u \in SUBSET Z : g[u] = IF u = {} THEN 0
        ELSE f[CHOOSE x \in u : TRUE] + g[u \ {CHOOSE x \in u : TRUE}]
  BY <1>1, <1>7
<1>9. IsSum(g, f, Z)
  BY <1>5, <1>8 DEF IsSum
<1> QED BY <1>5, <1>9

\* The sums of a part agree, whatever they are part of.
LEMMA SumsAgree ==
  ASSUME NEW f, NEW Z, IsFiniteSet(Z), NEW Y \in SUBSET Z,
         NEW g, NEW h, IsSum(g, f, Z), IsSum(h, f, Y)
  PROVE  g[Y] = h[Y]
<1> SUFFICES \A u \in SUBSET Y : g[u] = h[u]
  OBVIOUS
<1>1. PICK F : F = {v \in SUBSET Y : g[v] # h[v]}
  OBVIOUS
<1>2. SUFFICES ASSUME F # {} PROVE FALSE
  BY <1>1
<1>3. \A v \in F : v \subseteq Z
  BY <1>1
<1>4. PICK v \in F : \A w \in F : w \subseteq v => w = v
  BY <1>2, <1>3, MinimalSet
<1>5. v \in SUBSET Z /\ v \in SUBSET Y /\ g[v] # h[v]
  BY <1>1
<1>6. CASE v = {}
  BY <1>5, <1>6 DEF IsSum
<1>7. CASE v # {}
  <2>1. PICK x : x = (CHOOSE y \in v : TRUE)
    OBVIOUS
  <2>2. x \in v
    BY <1>7, <2>1
  <2>3. g[v] = f[x] + g[v \ {x}] /\ h[v] = f[x] + h[v \ {x}]
    BY <1>5, <1>7, <2>1 DEF IsSum
  <2>4. v \ {x} \notin F
    BY <1>4, <2>2
  <2>5. g[v \ {x}] = h[v \ {x}]
    BY <1>1, <1>5, <2>4
  <2> QED BY <1>5, <2>3, <2>5
<1> QED BY <1>6, <1>7

\* A sum is a number, 0 of nothing, and takes some element first.
LEMMA SumUnfolds ==
  ASSUME NEW Z, IsFiniteSet(Z), NEW f, \A x \in Z : f[x] \in Int
  PROVE  /\ Sum(f, Z) \in Int
         /\ Z = {} => Sum(f, Z) = 0
         /\ Z # {} => \E x \in Z : Sum(f, Z) = f[x] + Sum(f, Z \ {x})
<1>1. PICK g : g = (CHOOSE h : IsSum(h, f, Z))
  OBVIOUS
<1>2. PICK k \in [SUBSET Z -> Int] : IsSum(k, f, Z)
  BY SumRecursion
<1>3. IsSum(g, f, Z) /\ Sum(f, Z) = g[Z]
  BY <1>1, <1>2, SumByRecursion
<1>4. g[Z] = k[Z]
  BY <1>2, <1>3, SumsAgree
<1>5. CASE Z = {}
  BY <1>2, <1>3, <1>4, <1>5 DEF IsSum
<1>6. CASE Z # {}
  <2>1. PICK x : x = CHOOSE y \in Z : TRUE
    OBVIOUS
  <2>2. x \in Z /\ g[Z] = f[x] + g[Z \ {x}]
    BY <1>3, <1>6, <2>1 DEF IsSum
  <2>3. PICK Y : Y = Z \ {x}
    OBVIOUS
  <2>4. Y \in SUBSET Z /\ IsFiniteSet(Y) /\ \A y \in Y : f[y] \in Int
    BY <2>3, FS_Subset
  <2>5. PICK h : h = (CHOOSE l : IsSum(l, f, Y))
    OBVIOUS
  <2>6. \E l : IsSum(l, f, Y)
    BY <2>4, SumRecursion
  <2>7. IsSum(h, f, Y) /\ Sum(f, Y) = h[Y]
    BY <2>5, <2>6, SumByRecursion
  <2>8. g[Y] = h[Y]
    BY <1>3, <2>4, <2>7, SumsAgree
  <2>9. Sum(f, Z) = f[x] + Sum(f, Z \ {x})
    BY <1>3, <2>2, <2>3, <2>7, <2>8
  <2>10. Sum(f, Z) \in Int
    BY <1>2, <1>3, <1>4
  <2> QED BY <1>6, <2>2, <2>9, <2>10
<1> QED BY <1>5, <1>6

\* A sum of integers is an integer.
LEMMA SumType ==
  ASSUME NEW Z, IsFiniteSet(Z), NEW f, \A x \in Z : f[x] \in Int
  PROVE  Sum(f, Z) \in Int
BY SumUnfolds

\* A sum takes its elements in any order.
LEMMA SumSplit ==
  ASSUME NEW Z, IsFiniteSet(Z), NEW f, \A x \in Z : f[x] \in Int, NEW z \in Z
  PROVE  Sum(f, Z) = f[z] + Sum(f, Z \ {z})
<1>1. PICK F : F = {v \in SUBSET Z : \E x \in v : Sum(f, v) # f[x] + Sum(f, v \ {x})}
  OBVIOUS
<1>2. SUFFICES ASSUME F # {} PROVE FALSE
  BY <1>1
<1>3. PICK v \in F : \A u \in F : u \subseteq v => u = v
  <2>1. \A u \in F : u \subseteq Z
    BY <1>1
  <2> QED BY <1>2, <2>1, MinimalSet
<1>4. v \in SUBSET Z /\ IsFiniteSet(v) /\ \A x \in v : f[x] \in Int
  BY <1>1, FS_Subset
<1>5. PICK x \in v : Sum(f, v) # f[x] + Sum(f, v \ {x})
  BY <1>1
<1>6. PICK y \in v : Sum(f, v) = f[y] + Sum(f, v \ {y})
  BY <1>4, SumUnfolds
<1>7. x # y
  BY <1>5, <1>6
<1>8. /\ Sum(f, v \ {y}) = f[x] + Sum(f, (v \ {y}) \ {x})
      /\ Sum(f, v \ {x}) = f[y] + Sum(f, (v \ {x}) \ {y})
  <2>1. v \ {y} \notin F /\ v \ {x} \notin F
    BY <1>3
  <2>2. v \ {y} \in SUBSET Z /\ v \ {x} \in SUBSET Z /\ x \in v \ {y} /\ y \in v \ {x}
    BY <1>4, <1>7
  <2> QED BY <1>1, <2>1, <2>2
<1>9. PICK r : r = Sum(f, (v \ {y}) \ {x})
  OBVIOUS
<1>10. (v \ {x}) \ {y} = (v \ {y}) \ {x}
  OBVIOUS
<1>11. r \in Int /\ f[x] \in Int /\ f[y] \in Int
  <2>1. PICK w : w = (v \ {y}) \ {x}
    OBVIOUS
  <2>2. w \in SUBSET v /\ IsFiniteSet(w) /\ \A q \in w : f[q] \in Int
    BY <1>4, <2>1, FS_Subset
  <2> QED BY <1>4, <1>9, <2>1, <2>2, SumType
<1>12. Sum(f, v \ {y}) = f[x] + r /\ Sum(f, v \ {x}) = f[y] + r
  BY <1>8, <1>9, <1>10
<1>13. Sum(f, v) = f[y] + (f[x] + r)
  BY <1>6, <1>12
<1>14. f[y] + (f[x] + r) = f[x] + (f[y] + r)
  BY <1>11
<1> QED BY <1>5, <1>12, <1>13, <1>14

\* Equal terms have equal sums.
LEMMA SumEqual ==
  ASSUME NEW Z, NEW f, NEW h, \A x \in Z : f[x] = h[x], IsFiniteSet(Z),
         \A x \in Z : f[x] \in Int
  PROVE  Sum(f, Z) = Sum(h, Z)
<1>1. PICK F : F = {v \in SUBSET Z : Sum(f, v) # Sum(h, v)}
  OBVIOUS
<1>2. SUFFICES ASSUME F # {} PROVE FALSE
  BY <1>1
<1>3. PICK v \in F : \A u \in F : u \subseteq v => u = v
  <2>1. \A u \in F : u \subseteq Z
    BY <1>1
  <2> QED BY <1>2, <2>1, MinimalSet
<1>4. /\ v \in SUBSET Z /\ IsFiniteSet(v)
      /\ \A x \in v : f[x] \in Int /\ h[x] \in Int
  BY <1>1, FS_Subset
<1>5. CASE v = {}
  <2>1. Sum(f, v) = 0 /\ Sum(h, v) = 0
    BY <1>4, <1>5, SumUnfolds
  <2> QED BY <1>1, <2>1
<1>6. CASE v # {}
  <2>1. PICK x \in v : TRUE
    BY <1>6
  <2>2. Sum(f, v) = f[x] + Sum(f, v \ {x}) /\ Sum(h, v) = h[x] + Sum(h, v \ {x})
    BY <1>4, SumSplit
  <2>3. v \ {x} \notin F
    BY <1>3
  <2>4. Sum(f, v \ {x}) = Sum(h, v \ {x}) /\ f[x] = h[x]
    BY <1>1, <1>4, <2>3
  <2> QED BY <1>1, <2>2, <2>4
<1> QED BY <1>5, <1>6

\* The sum over two sets that share nothing.
LEMMA SumUnion ==
  ASSUME NEW Y, NEW Z, IsFiniteSet(Z), IsFiniteSet(Y), Y \intersect Z = {},
         NEW f, \A x \in Y \union Z : f[x] \in Int
  PROVE  Sum(f, Y \union Z) = Sum(f, Y) + Sum(f, Z)
<1>1. PICK F : F = {v \in SUBSET Y : Sum(f, v \union Z) # Sum(f, v) + Sum(f, Z)}
  OBVIOUS
<1>2. SUFFICES ASSUME F # {} PROVE FALSE
  BY <1>1
<1>3. PICK v \in F : \A u \in F : u \subseteq v => u = v
  <2>1. \A u \in F : u \subseteq Y
    BY <1>1
  <2> QED BY <1>2, <2>1, MinimalSet
<1>4. /\ v \in SUBSET Y /\ IsFiniteSet(v) /\ IsFiniteSet(v \union Z)
      /\ \A x \in v \union Z : f[x] \in Int
  BY <1>1, FS_Subset, FS_Union
<1>5. CASE v = {}
  <2>1. PICK r : r = Sum(f, Z)
    OBVIOUS
  <2>2. Sum(f, v) = 0 /\ r \in Int
    BY <1>4, <1>5, <2>1, SumUnfolds, SumType
  <2>3. v \union Z = Z
    BY <1>5
  <2>4. Sum(f, v \union Z) = r
    BY <2>1, <2>3
  <2>5. 0 + r = r
    BY <2>2
  <2>6. Sum(f, v \union Z) = Sum(f, v) + Sum(f, Z)
    BY <2>1, <2>2, <2>4, <2>5
  <2> QED BY <1>1, <2>6
<1>6. CASE v # {}
  <2>1. PICK x \in v : TRUE
    BY <1>6
  <2>2. Sum(f, v) = f[x] + Sum(f, v \ {x})
    BY <1>4, SumSplit
  <2>3. Sum(f, v \union Z) = f[x] + Sum(f, (v \union Z) \ {x})
    BY <1>4, SumSplit
  <2>4. (v \union Z) \ {x} = (v \ {x}) \union Z
    BY <1>4
  <2>5. v \ {x} \notin F /\ v \ {x} \in SUBSET Y
    BY <1>3, <1>4
  <2>6. Sum(f, (v \ {x}) \union Z) = Sum(f, v \ {x}) + Sum(f, Z)
    BY <1>1, <2>5
  <2>7. Sum(f, v \ {x}) \in Int /\ Sum(f, Z) \in Int /\ f[x] \in Int
    <3>1. PICK w : w = v \ {x}
      OBVIOUS
    <3>2. IsFiniteSet(w) /\ \A q \in w : f[q] \in Int
      BY <1>4, <3>1, FS_Subset
    <3> QED BY <1>4, <3>1, <3>2, SumType
  <2>8. Sum(f, v \union Z) = f[x] + (Sum(f, v \ {x}) + Sum(f, Z))
    BY <2>3, <2>4, <2>6
  <2>9. Sum(f, v \union Z) = Sum(f, v) + Sum(f, Z)
    BY <2>2, <2>7, <2>8
  <2> QED BY <1>1, <2>9
<1> QED BY <1>5, <1>6

\* The greater the terms, the greater the sum.
LEMMA SumMonotone ==
  ASSUME NEW Z, IsFiniteSet(Z), NEW f, NEW h,
         \A x \in Z : f[x] \in Int /\ h[x] \in Int /\ f[x] <= h[x]
  PROVE  Sum(f, Z) <= Sum(h, Z)
<1>1. PICK F : F = {v \in SUBSET Z : ~(Sum(f, v) <= Sum(h, v))}
  OBVIOUS
<1>2. SUFFICES ASSUME F # {} PROVE FALSE
  BY <1>1
<1>3. PICK v \in F : \A u \in F : u \subseteq v => u = v
  <2>1. \A u \in F : u \subseteq Z
    BY <1>1
  <2> QED BY <1>2, <2>1, MinimalSet
<1>4. /\ v \in SUBSET Z /\ IsFiniteSet(v)
      /\ \A x \in v : f[x] \in Int /\ h[x] \in Int /\ f[x] <= h[x]
  BY <1>1, FS_Subset
<1>5. CASE v = {}
  <2>1. Sum(f, v) = 0 /\ Sum(h, v) = 0
    BY <1>4, <1>5, SumUnfolds
  <2> QED BY <1>1, <2>1
<1>6. CASE v # {}
  <2>1. PICK x \in v : TRUE
    BY <1>6
  <2>2. Sum(f, v) = f[x] + Sum(f, v \ {x}) /\ Sum(h, v) = h[x] + Sum(h, v \ {x})
    BY <1>4, SumSplit
  <2>3. v \ {x} \notin F
    BY <1>3
  <2>4. Sum(f, v \ {x}) <= Sum(h, v \ {x}) /\ f[x] <= h[x]
    BY <1>1, <1>4, <2>3
  <2>5. Sum(f, v \ {x}) \in Int /\ Sum(h, v \ {x}) \in Int /\ f[x] \in Int /\ h[x] \in Int
    <3>1. PICK w : w = v \ {x}
      OBVIOUS
    <3>2. IsFiniteSet(w) /\ \A q \in w : f[q] \in Int /\ h[q] \in Int
      BY <1>4, <3>1, FS_Subset
    <3> QED BY <1>4, <3>1, <3>2, SumType
  <2>6. Sum(f, v) <= Sum(h, v)
    BY <2>2, <2>4, <2>5
  <2> QED BY <1>1, <2>6
<1> QED BY <1>5, <1>6

\* A sum of nothing but zeros is zero, and one of numbers that are not negative
\* is not, and zero only if they all are.
LEMMA SumOfZeros ==
  ASSUME NEW Z, IsFiniteSet(Z), NEW f, \A x \in Z : f[x] = 0
  PROVE  Sum(f, Z) = 0
<1>1. PICK F : F = {v \in SUBSET Z : Sum(f, v) # 0}
  OBVIOUS
<1>2. SUFFICES ASSUME F # {} PROVE FALSE
  BY <1>1
<1>3. PICK v \in F : \A u \in F : u \subseteq v => u = v
  <2>1. \A u \in F : u \subseteq Z
    BY <1>1
  <2> QED BY <1>2, <2>1, MinimalSet
<1>4. v \in SUBSET Z /\ IsFiniteSet(v) /\ \A x \in v : f[x] \in Int
  BY <1>1, FS_Subset
<1>5. v # {}
  <2>1. v = {} => Sum(f, v) = 0
    BY <1>4, SumUnfolds
  <2> QED BY <1>1, <2>1
<1>6. PICK x \in v : TRUE
  BY <1>5
<1>7. Sum(f, v) = f[x] + Sum(f, v \ {x})
  BY <1>4, SumSplit
<1>8. v \ {x} \notin F
  BY <1>3
<1> QED BY <1>1, <1>4, <1>7, <1>8

\* A sum of natural numbers is one, and no less than any of them.
LEMMA SumNat ==
  ASSUME NEW Z, IsFiniteSet(Z), NEW f, \A x \in Z : f[x] \in Nat
  PROVE  /\ Sum(f, Z) \in Nat
         /\ \A x \in Z : f[x] <= Sum(f, Z)
<1>1. PICK o : o = [x \in Z |-> 0]
  OBVIOUS
<1>2. \A Y \in SUBSET Z : Sum(f, Y) \in Nat
  <2> SUFFICES ASSUME NEW Y \in SUBSET Z PROVE Sum(f, Y) \in Nat
    OBVIOUS
  <2>1. IsFiniteSet(Y)
    BY FS_Subset
  <2>2. \A x \in Y : o[x] = 0 /\ o[x] \in Int /\ f[x] \in Int /\ o[x] <= f[x]
    BY <1>1
  <2>3. Sum(o, Y) = 0
    BY <2>1, <2>2, SumOfZeros
  <2>4. Sum(o, Y) <= Sum(f, Y)
    BY <2>1, <2>2, SumMonotone
  <2>5. Sum(f, Y) \in Int
    BY <2>1, <2>2, SumType
  <2> QED BY <2>3, <2>4, <2>5
<1>3. \A x \in Z : f[x] <= Sum(f, Z)
  <2> SUFFICES ASSUME NEW x \in Z PROVE f[x] <= Sum(f, Z)
    OBVIOUS
  <2>1. Sum(f, Z) = f[x] + Sum(f, Z \ {x})
    BY SumSplit
  <2>2. Sum(f, Z \ {x}) \in Nat /\ f[x] \in Nat
    BY <1>2
  <2> QED BY <2>1, <2>2
<1> QED BY <1>2, <1>3

-----------------------------------------------------------------------------
(* Greatest and least elements. *)

\* Max is the element that is not below another, of however many.
LEMMA MaxOf ==
  ASSUME NEW Z, NEW x \in Z, x \in Int, \A y \in Z : y \in Int /\ y <= x
  PROVE  Max(Z) = x
<1>1. \A w \in Z : (\A y \in Z : w >= y) => w = x
  OBVIOUS
<1>2. \A y \in Z : x >= y
  OBVIOUS
<1> QED BY <1>1, <1>2 DEF Max

\* What is below everything is the least.
LEMMA MinOf ==
  ASSUME NEW Z, NEW x \in Z, x \in Int, \A y \in Z : y \in Int /\ x <= y
  PROVE  Min(Z) = x
<1>1. \A w \in Z : (\A y \in Z : w <= y) => w = x
  OBVIOUS
<1> QED BY <1>1 DEF Min

\* The greater of two.
LEMMA MaxOfTwo ==
  ASSUME NEW u \in Int, NEW v \in Int
  PROVE  Max({u, v}) = IF u >= v THEN u ELSE v
<1>1. CASE u >= v
  <2>1. u \in {u, v} /\ \A y \in {u, v} : y \in Int /\ y <= u
    BY <1>1
  <2> QED BY <1>1, <2>1, MaxOf
<1>2. CASE ~(u >= v)
  <2>1. v \in {u, v} /\ \A y \in {u, v} : y \in Int /\ y <= v
    BY <1>2
  <2> QED BY <1>2, <2>1, MaxOf
<1> QED BY <1>1, <1>2

\* The smaller of two.
LEMMA MinOfTwo ==
  ASSUME NEW u \in Int, NEW v \in Int
  PROVE  Min({u, v}) = IF u <= v THEN u ELSE v
<1>1. CASE u <= v
  <2>1. u \in {u, v} /\ \A y \in {u, v} : y \in Int /\ u <= y
    BY <1>1
  <2> QED BY <1>1, <2>1, MinOf
<1>2. CASE ~(u <= v)
  <2>1. v \in {u, v} /\ \A y \in {u, v} : y \in Int /\ v <= y
    BY <1>2
  <2> QED BY <1>2, <2>1, MinOf
<1> QED BY <1>1, <1>2

\* Of finitely many things one measures most, and one least.
LEMMA Greatest ==
  ASSUME NEW Z, IsFiniteSet(Z), Z # {}, NEW f, \A x \in Z : f[x] \in Int
  PROVE  \E x \in Z : \A y \in Z : f[y] <= f[x]
<1>1. PICK F : F = {v \in SUBSET Z : v # {} /\ ~ \E x \in v : \A y \in v : f[y] <= f[x]}
  OBVIOUS
<1>2. SUFFICES ASSUME F # {} PROVE FALSE
  BY <1>1
<1>3. PICK v \in F : \A u \in F : u \subseteq v => u = v
  <2>1. \A u \in F : u \subseteq Z
    BY <1>1
  <2> QED BY <1>2, <2>1, MinimalSet
<1>4. PICK z \in v : TRUE
  BY <1>1
<1>5. PICK w : w = v \ {z}
  OBVIOUS
<1>6. w \notin F /\ w \in SUBSET Z /\ z \in Z /\ w \subseteq v
  BY <1>1, <1>3, <1>5
<1>7. CASE w = {}
  <2>1. \A y \in v : f[y] <= f[z]
    BY <1>5, <1>6, <1>7
  <2> QED BY <1>1, <2>1
<1>8. CASE w # {}
  <2>1. PICK x \in w : \A y \in w : f[y] <= f[x]
    BY <1>1, <1>6, <1>8
  <2>2. f[x] \in Int /\ f[z] \in Int /\ \A y \in w : f[y] \in Int
    BY <1>6, <2>1
  <2>3. CASE f[z] <= f[x]
    <3>1. \A y \in v : f[y] <= f[x]
      BY <1>5, <2>1, <2>3
    <3> QED BY <1>1, <1>6, <3>1
  <2>4. CASE ~(f[z] <= f[x])
    <3>1. \A y \in v : f[y] <= f[z]
      BY <1>5, <2>1, <2>2, <2>4
    <3> QED BY <1>1, <3>1
  <2> QED BY <2>3, <2>4
<1> QED BY <1>7, <1>8

\* Some element has the least value.
LEMMA Least ==
  ASSUME NEW Z, IsFiniteSet(Z), Z # {}, NEW f, \A x \in Z : f[x] \in Int
  PROVE  \E x \in Z : \A y \in Z : f[x] <= f[y]
<1>1. PICK h : h = [x \in Z |-> - f[x]]
  OBVIOUS
<1>2. \A x \in Z : h[x] \in Int /\ h[x] = - f[x]
  BY <1>1
<1>3. PICK x \in Z : \A y \in Z : h[y] <= h[x]
  BY <1>2, Greatest
<1>4. \A y \in Z : f[x] <= f[y]
  BY <1>2, <1>3
<1> QED BY <1>4

\* So a finite set of numbers has the greatest and the least of them.
LEMMA MaxIsMember ==
  ASSUME NEW Z, IsFiniteSet(Z), Z # {}, Z \subseteq Int
  PROVE  /\ Max(Z) \in Z /\ \A y \in Z : y <= Max(Z)
         /\ Min(Z) \in Z /\ \A y \in Z : Min(Z) <= y
<1>1. PICK f : f = [x \in Z |-> x]
  OBVIOUS
<1>2. \A x \in Z : f[x] \in Int /\ f[x] = x
  BY <1>1
<1>3. PICK x \in Z : \A y \in Z : y <= x
  <2>1. PICK x \in Z : \A y \in Z : f[y] <= f[x]
    BY <1>2, Greatest
  <2> QED BY <1>2, <2>1
<1>4. PICK w \in Z : \A y \in Z : w <= y
  <2>1. PICK w \in Z : \A y \in Z : f[w] <= f[y]
    BY <1>2, Least
  <2> QED BY <1>2, <2>1
<1>5. Max(Z) = x
  BY <1>3, MaxOf
<1>6. Min(Z) = w
  BY <1>4, MinOf
<1> QED BY <1>3, <1>4, <1>5, <1>6

\* What grows makes the greatest grow.
LEMMA MaxMonotone ==
  ASSUME NEW Y, NEW Z, IsFiniteSet(Y), IsFiniteSet(Z), Y # {}, Z # {},
         Y \subseteq Int, Z \subseteq Int,
         \A y \in Y : \E z \in Z : y <= z
  PROVE  Max(Y) <= Max(Z)
<1>1. Max(Y) \in Y
  BY MaxIsMember
<1>2. PICK z \in Z : Max(Y) <= z
  BY <1>1
<1>3. z <= Max(Z) /\ Max(Z) \in Z
  BY MaxIsMember
<1>4. Max(Y) \in Int /\ z \in Int /\ Max(Z) \in Int
  BY <1>1, <1>3
<1> QED BY <1>2, <1>3, <1>4

-----------------------------------------------------------------------------
(* PositionRules: the legs the rules look at. *)

\* The nearest and the farthest leg are among those asked for.
LEMMA NearestIsMember ==
  ASSUME NEW b, NEW I, IsFiniteSet(I), I # {}, I \subseteq Nat, \A i \in I : b[i].expiry \in Nat
  PROVE  Nearest(b, I) \in I /\ Farthest(b, I) \in I
<1>1. PICK f : f = [i \in I |-> b[i].expiry]
  OBVIOUS
<1>2. ASSUME NEW i \in I PROVE f[i] = b[i].expiry /\ f[i] \in Int
  <2>1. f[i] = b[i].expiry
    BY <1>1, Zenon
  <2>2. b[i].expiry \in Nat
    OBVIOUS
  <2> QED BY <2>1, <2>2
<1>3. PICK u : u = {i \in I : \A j \in I : b[i].expiry <= b[j].expiry}
  OBVIOUS
<1>4. PICK v : v = {i \in I : \A j \in I : b[i].expiry >= b[j].expiry}
  OBVIOUS
<1>5. u # {}
  <2>1. \E i \in I : \A j \in I : f[i] <= f[j]
    BY <1>2, Least
  <2> QED BY <1>2, <1>3, <2>1
<1>6. v # {}
  <2>1. \E i \in I : \A j \in I : f[j] <= f[i]
    BY <1>2, Greatest
  <2> QED BY <1>2, <1>4, <2>1
<1>7. IsFiniteSet(u) /\ IsFiniteSet(v) /\ u \subseteq Int /\ v \subseteq Int
  <2>1. u \subseteq I /\ v \subseteq I
    BY <1>3, <1>4
  <2>2. I \subseteq Int
    OBVIOUS
  <2>3. IsFiniteSet(u) /\ IsFiniteSet(v)
    BY <2>1, FS_Subset
  <2>4. u \subseteq Int /\ v \subseteq Int
    BY <2>1, <2>2
  <2> QED BY <2>3, <2>4
<1>8. Min(u) \in u /\ Min(v) \in v
  BY <1>5, <1>6, <1>7, MaxIsMember
<1>9. Nearest(b, I) = Min(u) /\ Farthest(b, I) = Min(v)
  BY <1>3, <1>4 DEF Nearest, Farthest
<1> QED BY <1>3, <1>4, <1>8, <1>9

\* A book has finitely many legs, each at a place from 1.
LEMMA LegsFinite ==
  ASSUME NEW b \in Seq(Leg)
  PROVE  /\ DOMAIN b = 1 .. Len(b) /\ Len(b) \in Nat /\ IsFiniteSet(DOMAIN b)
         /\ \A I \in SUBSET DOMAIN b : IsFiniteSet(I) /\ I \subseteq Nat /\ 0 \notin I
         /\ \A i \in DOMAIN b : b[i] \in Leg
<1>1. DOMAIN b = 1 .. Len(b) /\ Len(b) \in Nat /\ \A i \in DOMAIN b : b[i] \in Leg
  OBVIOUS
<1>2. IsFiniteSet(DOMAIN b)
  BY <1>1, FS_Interval
<1>3. \A I \in SUBSET DOMAIN b : IsFiniteSet(I)
  BY <1>2, FS_Subset
<1>4. \A I \in SUBSET DOMAIN b : I \subseteq Nat /\ 0 \notin I
  BY <1>1
<1> QED BY <1>1, <1>2, <1>3, <1>4

\* What a leg is made of.
LEMMA LegFields ==
  ASSUME NEW l \in Leg
  PROVE  /\ l.right \in {"C", "P", ""} /\ l.qty \in Int /\ l.strike \in Nat
         /\ l.expiry \in Nat \/ l.expiry = NoDay
         /\ l.delta \in Int \/ l.delta = NoDelta
<1>1. PICK u, v : u = Nat \union {NoDay} /\ v = Deltas \union {NoDelta}
  OBVIOUS
<1>2. Leg = [right: {"C", "P", ""}, qty: Int, strike: Nat, expiry: u, delta: v,
             strategy: STRING, stamp: STRING]
  BY <1>1, Zenon DEF Leg
<1>3. /\ l.right \in {"C", "P", ""} /\ l.qty \in Int /\ l.strike \in Nat
      /\ l.expiry \in u /\ l.delta \in v
  BY <1>2
<1>4. Deltas \subseteq Int
  BY RulesAssumption
<1>5. l.expiry \in Nat \/ l.expiry = NoDay
  BY <1>1, <1>3
<1>6. l.delta \in Int \/ l.delta = NoDelta
  BY <1>1, <1>3, <1>4
<1> QED BY <1>3, <1>5, <1>6

\* The primary legs are legs of their kind, and there is one when there is any.
LEMMA PrimaryLegs ==
  ASSUME NEW b \in Seq(Leg)
  PROVE  /\ IF Calls(b) \cap Short(b) \cap Dated(b) = {} THEN PrimaryShort(b) = 0
            ELSE PrimaryShort(b) \in Calls(b) \cap Short(b) \cap Dated(b)
         /\ IF Puts(b) \cap Short(b) \cap Dated(b) = {} THEN PrimaryShortPut(b) = 0
            ELSE PrimaryShortPut(b) \in Puts(b) \cap Short(b) \cap Dated(b)
         /\ IF Calls(b) \cap Long(b) \cap Dated(b) = {} THEN PrimaryLong(b) = 0
            ELSE PrimaryLong(b) \in Calls(b) \cap Long(b) \cap Dated(b)
<1>1. \A I \in SUBSET DOMAIN b : IsFiniteSet(I) /\ I \subseteq Nat
  BY LegsFinite
<1>2. \A i \in Dated(b) : b[i].expiry \in Nat
  <2> SUFFICES ASSUME NEW i \in Dated(b) PROVE b[i].expiry \in Nat
    OBVIOUS
  <2>1. i \in DOMAIN b /\ b[i].expiry # NoDay
    BY DEF Dated
  <2>2. b[i] \in Leg
    BY <2>1, LegsFinite
  <2>3. b[i].expiry \in Nat \/ b[i].expiry = NoDay
    BY <2>2, LegFields
  <2> QED BY <2>1, <2>3
<1>3. \A I \in SUBSET Dated(b) : I # {} => Nearest(b, I) \in I /\ Farthest(b, I) \in I
  <2> SUFFICES ASSUME NEW I \in SUBSET Dated(b), I # {}
               PROVE  Nearest(b, I) \in I /\ Farthest(b, I) \in I
    OBVIOUS
  <2>1. I \in SUBSET DOMAIN b
    BY DEF Dated
  <2>2. IsFiniteSet(I) /\ I \subseteq Nat /\ \A i \in I : b[i].expiry \in Nat
    BY <1>1, <1>2, <2>1
  <2> QED BY <2>2, NearestIsMember
<1>4. PICK u : u = Calls(b) \cap Short(b) \cap Dated(b)
  OBVIOUS
<1>5. PICK v : v = Puts(b) \cap Short(b) \cap Dated(b)
  OBVIOUS
<1>6. PICK w : w = Calls(b) \cap Long(b) \cap Dated(b)
  OBVIOUS
<1>7. PrimaryShort(b) = Nearest(b, u)
  BY <1>4 DEF PrimaryShort
<1>8. PrimaryShortPut(b) = Nearest(b, v)
  BY <1>5 DEF PrimaryShortPut
<1>9. PrimaryLong(b) = Farthest(b, w)
  BY <1>6 DEF PrimaryLong
<1>10. /\ u = {} => Nearest(b, u) = 0
       /\ v = {} => Nearest(b, v) = 0
       /\ w = {} => Farthest(b, w) = 0
  BY DEF Nearest, Farthest
<1>11. /\ u # {} => Nearest(b, u) \in u
       /\ v # {} => Nearest(b, v) \in v
       /\ w # {} => Farthest(b, w) \in w
  BY <1>3, <1>4, <1>5, <1>6
<1> QED BY <1>4, <1>5, <1>6, <1>7, <1>8, <1>9, <1>10, <1>11

\* The primary legs are in the book, and are what they are called.
LEMMA PrimaryMembers ==
  ASSUME NEW b \in Seq(Leg)
  PROVE  /\ PrimaryShort(b) # 0 => PrimaryShort(b) \in DOMAIN b
                                   /\ b[PrimaryShort(b)].right = "C"
                                   /\ b[PrimaryShort(b)].qty < 0
                                   /\ b[PrimaryShort(b)].expiry \in Nat
         /\ PrimaryShortPut(b) # 0 => PrimaryShortPut(b) \in DOMAIN b
                                      /\ b[PrimaryShortPut(b)].right = "P"
                                      /\ b[PrimaryShortPut(b)].qty < 0
                                      /\ b[PrimaryShortPut(b)].expiry \in Nat
         /\ PrimaryLong(b) # 0 => PrimaryLong(b) \in DOMAIN b
                                  /\ b[PrimaryLong(b)].right = "C"
                                  /\ b[PrimaryLong(b)].qty > 0
                                  /\ b[PrimaryLong(b)].expiry \in Nat
<1>1. \A i \in DOMAIN b : b[i].expiry \in Nat \/ b[i].expiry = NoDay
  <2> SUFFICES ASSUME NEW i \in DOMAIN b PROVE b[i].expiry \in Nat \/ b[i].expiry = NoDay
    OBVIOUS
  <2>1. b[i] \in Leg
    BY LegsFinite
  <2> QED BY <2>1, LegFields
<1> QED BY <1>1, PrimaryLegs DEF Calls, Puts, Short, Long, Dated

\* The date to roll by is that of the short leg, if there is one.
LEMMA RollExpiryType ==
  ASSUME NEW b \in Seq(Leg)
  PROVE  /\ RollExpiry(b) \in Nat \/ RollExpiry(b) = NoDay
         /\ ShortLeg(b) # 0 => /\ ShortLeg(b) \in DOMAIN b /\ b[ShortLeg(b)].qty < 0
                               /\ b[ShortLeg(b)].right \in {"C", "P"}
                               /\ RollExpiry(b) = b[ShortLeg(b)].expiry
                               /\ RollExpiry(b) \in Nat
BY PrimaryMembers DEF RollExpiry, ShortLeg

\* The delta of a position is that of one of its legs, or none.
LEMMA DeltaType ==
  ASSUME NEW b \in Seq(Leg)
  PROVE  CurrentDelta(b) \in Int \/ CurrentDelta(b) = NoDelta
<1>1. \A i \in DOMAIN b : b[i].delta \in Int \/ b[i].delta = NoDelta
  <2> SUFFICES ASSUME NEW i \in DOMAIN b PROVE b[i].delta \in Int \/ b[i].delta = NoDelta
    OBVIOUS
  <2>1. b[i] \in Leg
    BY LegsFinite
  <2> QED BY <2>1, LegFields
<1> QED BY <1>1, PrimaryMembers DEF CurrentDelta

-----------------------------------------------------------------------------
(* PositionRules: what does not depend on the deltas. *)

\* Two books that differ in their deltas only.
SameButDeltas(b, c) ==
  /\ DOMAIN c = DOMAIN b
  /\ \A i \in DOMAIN b :
       /\ c[i].right = b[i].right /\ c[i].qty = b[i].qty /\ c[i].strike = b[i].strike
       /\ c[i].expiry = b[i].expiry /\ c[i].strategy = b[i].strategy

\* The rules look for the same legs whatever the deltas.
LEMMA SameLegs ==
  ASSUME NEW b, NEW c, SameButDeltas(b, c)
  PROVE  /\ Calls(c) = Calls(b) /\ Puts(c) = Puts(b) /\ Stock(c) = Stock(b)
         /\ Short(c) = Short(b) /\ Long(c) = Long(b) /\ Dated(c) = Dated(b)
         /\ \A I \in SUBSET DOMAIN b : Nearest(c, I) = Nearest(b, I)
                                       /\ Farthest(c, I) = Farthest(b, I)
<1>1. /\ Calls(c) = Calls(b) /\ Puts(c) = Puts(b) /\ Stock(c) = Stock(b)
      /\ Short(c) = Short(b) /\ Long(c) = Long(b) /\ Dated(c) = Dated(b)
  BY DEF SameButDeltas, Calls, Puts, Stock, Short, Long, Dated
<1>2. ASSUME NEW I \in SUBSET DOMAIN b
      PROVE  Nearest(c, I) = Nearest(b, I) /\ Farthest(c, I) = Farthest(b, I)
  <2>1. \A i \in I : c[i].expiry = b[i].expiry
    BY DEF SameButDeltas
  <2>2. /\ {i \in I : \A j \in I : c[i].expiry <= c[j].expiry}
           = {i \in I : \A j \in I : b[i].expiry <= b[j].expiry}
        /\ {i \in I : \A j \in I : c[i].expiry >= c[j].expiry}
           = {i \in I : \A j \in I : b[i].expiry >= b[j].expiry}
    BY <2>1
  <2> QED BY <2>2 DEF Nearest, Farthest
<1> QED BY <1>1, <1>2

\* The primary legs do not depend on the deltas.
LEMMA SamePrimaryLegs ==
  ASSUME NEW b, NEW c, SameButDeltas(b, c)
  PROVE  /\ PrimaryShort(c) = PrimaryShort(b)
         /\ PrimaryShortPut(c) = PrimaryShortPut(b)
         /\ PrimaryLong(c) = PrimaryLong(b)
<1>1. \A I : Calls(b) \cap I \cap Dated(b) \in SUBSET DOMAIN b
             /\ Puts(b) \cap I \cap Dated(b) \in SUBSET DOMAIN b
  BY DEF Dated
<1> QED BY <1>1, SameLegs DEF PrimaryShort, PrimaryShortPut, PrimaryLong

\* Nor does the strategy of a position.
LEMMA SameStrategy ==
  ASSUME NEW b, NEW c, SameButDeltas(b, c), NEW onSpy
  PROVE  Strategy(c, onSpy) = Strategy(b, onSpy)
<1>1. Labels(c) = Labels(b)
  BY DEF SameButDeltas, Labels
<1>2. \A s : Votes(c, s) = Votes(b, s)
  <2> SUFFICES ASSUME NEW s PROVE Votes(c, s) = Votes(b, s)
    OBVIOUS
  <2>1. {i \in DOMAIN c : c[i].strategy = s} = {i \in DOMAIN b : b[i].strategy = s}
    BY DEF SameButDeltas
  <2> QED BY <2>1 DEF Votes, Quantify
<1>3. Labelled(c) = Labelled(b)
  BY <1>1, <1>2 DEF Labelled
<1>4. Inferred(c, onSpy) = Inferred(b, onSpy)
  <2>1. \A i \in Dated(b) : c[i].expiry = b[i].expiry
    BY DEF SameButDeltas, Dated
  <2>2. (\A i \in Calls(b) \cap Short(b) \cap Dated(b), j \in Calls(b) \cap Long(b) \cap Dated(b) :
           c[i].expiry < c[j].expiry)
        <=> (\A i \in Calls(b) \cap Short(b) \cap Dated(b), j \in Calls(b) \cap Long(b) \cap Dated(b) :
           b[i].expiry < b[j].expiry)
    BY <2>1
  <2> QED BY <2>2, SameLegs DEF Inferred
<1> QED BY <1>1, <1>3, <1>4 DEF Strategy

\* Nor does the exemption of covered calls.
LEMMA SameExemption ==
  ASSUME NEW b \in Seq(Leg), NEW c, SameButDeltas(b, c)
  PROVE  /\ \A expiry : CoveredStrikes(c, expiry) = CoveredStrikes(b, expiry)
         /\ VerticalExempt(c) <=> VerticalExempt(b)
<1>1. /\ [i \in DOMAIN c |-> c[i].strike] = [i \in DOMAIN b |-> b[i].strike]
      /\ [i \in DOMAIN c |-> Abs(c[i].qty)] = [i \in DOMAIN b |-> Abs(b[i].qty)]
  <2>1. \A i \in DOMAIN b : Abs(c[i].qty) = Abs(b[i].qty)
    BY DEF SameButDeltas
  <2> QED BY <2>1 DEF SameButDeltas
<1>2. \A expiry :
        /\ {i \in Long(c) \cap Calls(c) : c[i].expiry = expiry}
           = {i \in Long(b) \cap Calls(b) : b[i].expiry = expiry}
        /\ {i \in Short(c) \cap Calls(c) : c[i].expiry = expiry}
           = {i \in Short(b) \cap Calls(b) : b[i].expiry = expiry}
  <2>1. \A i \in Calls(b) : c[i].expiry = b[i].expiry
    BY DEF SameButDeltas, Calls
  <2>2. Calls(c) = Calls(b) /\ Short(c) = Short(b) /\ Long(c) = Long(b)
    BY SameLegs
  <2> QED BY <2>1, <2>2
<1>3. \A expiry : CoveredStrikes(c, expiry) = CoveredStrikes(b, expiry)
  <2> SUFFICES ASSUME NEW expiry PROVE CoveredStrikes(c, expiry) = CoveredStrikes(b, expiry)
    OBVIOUS
  <2>1. /\ {i \in Long(c) \cap Calls(c) : c[i].expiry = expiry}
           = {i \in Long(b) \cap Calls(b) : b[i].expiry = expiry}
        /\ {i \in Short(c) \cap Calls(c) : c[i].expiry = expiry}
           = {i \in Short(b) \cap Calls(b) : b[i].expiry = expiry}
    BY <1>2
  <2> QED BY <1>1, <2>1, Zenon DEF CoveredStrikes
<1>4. VerticalExempt(c) <=> VerticalExempt(b)
  <2>1. PrimaryShort(c) = PrimaryShort(b)
    BY SamePrimaryLegs
  <2>2. PrimaryShort(b) # 0 => c[PrimaryShort(b)].strike = b[PrimaryShort(b)].strike
                              /\ c[PrimaryShort(b)].expiry = b[PrimaryShort(b)].expiry
    BY PrimaryMembers DEF SameButDeltas
  <2> QED BY <1>3, <2>1, <2>2 DEF VerticalExempt
<1> QED BY <1>3, <1>4

\* Nor does the date to roll by.
LEMMA SameRollExpiry ==
  ASSUME NEW b \in Seq(Leg), NEW c, SameButDeltas(b, c)
  PROVE  RollExpiry(c) = RollExpiry(b) /\ ShortLeg(c) = ShortLeg(b)
<1>1. /\ PrimaryShort(c) = PrimaryShort(b) /\ PrimaryShortPut(c) = PrimaryShortPut(b)
      /\ PrimaryLong(c) = PrimaryLong(b)
  BY SamePrimaryLegs
<1>2. \A i \in DOMAIN b : c[i].expiry = b[i].expiry
  BY DEF SameButDeltas
<1>3. \A i \in {PrimaryShort(b), PrimaryShortPut(b), PrimaryLong(b)} : i # 0 => i \in DOMAIN b
  BY PrimaryMembers
<1> QED BY <1>1, <1>2, <1>3 DEF RollExpiry, ShortLeg

-----------------------------------------------------------------------------
(* PositionRules: verdicts and urgencies grow with what they are made of. *)

\* A delta that is as it was or has moved away from 0.
Drifted(d, e) ==
  \/ e = d
  \/ d # NoDelta /\ e # NoDelta /\ Abs(e) >= Abs(d)

\* The thresholds are numbers, and no delta or day is the missing one.
LEMMA ThresholdTypes ==
  /\ DeltaWatch \in Nat /\ DeltaAct \in Nat /\ DeltaCritical \in Nat /\ DeltaHigh \in Nat
  /\ DteUrgent \in Nat /\ DteWarning \in Nat /\ DteLow \in Nat /\ DteManage \in Nat
  /\ LeapMinDte \in Nat /\ LeapRollDte \in Nat /\ LeapRollDelta \in Nat
  /\ NoDelta \notin Int /\ NoDay \notin Int
BY RulesAssumption

\* A delta that drifts away lowers neither the verdict nor the urgency.
LEMMA DeltaScoresGrow ==
  ASSUME NEW d, NEW e, d \in Int \/ d = NoDelta, e \in Int \/ e = NoDelta,
         Drifted(d, e), NEW strategy
  PROVE  /\ DeltaScore(strategy, d) \in 0 .. 3 /\ DeltaScore(strategy, e) \in 0 .. 3
         /\ DeltaScore(strategy, d) <= DeltaScore(strategy, e)
         /\ DeltaUrgency(strategy, d) \in 0 .. 3 /\ DeltaUrgency(strategy, e) \in 0 .. 3
         /\ DeltaUrgency(strategy, d) <= DeltaUrgency(strategy, e)
<1>1. /\ DeltaScore(strategy, d) \in 0 .. 3 /\ DeltaScore(strategy, e) \in 0 .. 3
      /\ DeltaUrgency(strategy, d) \in 0 .. 3 /\ DeltaUrgency(strategy, e) \in 0 .. 3
  BY DEF DeltaScore, DeltaUrgency
<1>2. CASE e = d
  BY <1>1, <1>2
<1>3. CASE d # NoDelta /\ e # NoDelta /\ Abs(e) >= Abs(d)
  <2>1. PICK u, v : u = Abs(d) /\ v = Abs(e)
    OBVIOUS
  <2>2. u \in Int /\ v \in Int /\ u <= v
    BY <1>3, <2>1 DEF Abs
  <2> QED BY <1>3, <2>1, <2>2, ThresholdTypes DEF DeltaScore, DeltaUrgency
<1> QED BY <1>2, <1>3 DEF Drifted

\* The urgency that time gives.
LEMMA TimeUrgencyType == \A expiry, day : TimeUrgency(expiry, day) \in 0 .. 3
BY DEF TimeUrgency

\* A delta that drifts away makes no roll less urgent.
LEMMA RollUrgencyGrows ==
  ASSUME NEW d, NEW e, d \in Int \/ d = NoDelta, e \in Int \/ e = NoDelta,
         Drifted(d, e), NEW strategy, NEW expiry, NEW day
  PROVE  /\ RollUrgency(strategy, d, expiry, day) \in 0 .. 3
         /\ RollUrgency(strategy, d, expiry, day) <= RollUrgency(strategy, e, expiry, day)
<1>1. PICK t, u, v : /\ t = TimeUrgency(expiry, day)
                     /\ u = DeltaUrgency(strategy, d) /\ v = DeltaUrgency(strategy, e)
  OBVIOUS
<1>2. t \in 0 .. 3 /\ u \in 0 .. 3 /\ v \in 0 .. 3 /\ u <= v
  BY <1>1, TimeUrgencyType, DeltaScoresGrow
<1>3. Max({t, u}) = (IF t >= u THEN t ELSE u) /\ Max({t, v}) = (IF t >= v THEN t ELSE v)
  BY <1>2, MaxOfTwo
<1>4. RollUrgency(strategy, d, expiry, day) = Max({t, u})
      /\ RollUrgency(strategy, e, expiry, day) = Max({t, v})
  BY <1>1 DEF RollUrgency
<1> QED BY <1>2, <1>3, <1>4

\* What a quote adds to the verdict.
LEMMA FearsType == \A q : Fears(q) \subseteq {1, 2}
BY DEF Fears

\* The reads a verdict is the greatest of.
LEMMA ScoresFinite ==
  ASSUME NEW x \in 0 .. 3, NEW y \in 0 .. 3, NEW z \in 0 .. 3, NEW q
  PROVE  /\ {x, y, z} \union Fears(q) \subseteq 0 .. 3
         /\ {x, y, z} \union Fears(q) \subseteq Int
         /\ IsFiniteSet({x, y, z} \union Fears(q))
<1>1. PICK u : u = {x, y, z} \union Fears(q)
  OBVIOUS
<1>2. u \subseteq 0 .. 3
  BY <1>1, FearsType
<1>3. u \subseteq Int
  BY <1>2
<1>4. IsFiniteSet(u)
  <2>1. 0 \in Int /\ 3 \in Int
    OBVIOUS
  <2>2. IsFiniteSet(0 .. 3)
    BY <2>1, FS_Interval
  <2> QED BY <1>2, <2>2, FS_Subset
<1> QED BY <1>1, <1>2, <1>3, <1>4

\* A delta that drifts away makes no verdict milder.
LEMMA StopScoreGrows ==
  ASSUME NEW d, NEW e, d \in Int \/ d = NoDelta, e \in Int \/ e = NoDelta,
         Drifted(d, e), NEW strategy, NEW q, NEW drawdown \in 0 .. 3, NEW broken \in BOOLEAN
  PROVE  /\ StopScore(strategy, d, q, drawdown, broken) \in 0 .. 3
         /\ StopScore(strategy, d, q, drawdown, broken)
            <= StopScore(strategy, e, q, drawdown, broken)
<1>1. PICK u, v, w : /\ u = DeltaScore(strategy, d) /\ v = DeltaScore(strategy, e)
                     /\ w = (IF broken THEN 2 ELSE 0)
  OBVIOUS
<1>2. PICK y, z : y = {u, drawdown, w} \union Fears(q) /\ z = {v, drawdown, w} \union Fears(q)
  OBVIOUS
<1>3. StopScore(strategy, d, q, drawdown, broken) = Max(y)
      /\ StopScore(strategy, e, q, drawdown, broken) = Max(z)
  BY <1>1, <1>2 DEF StopScore
<1>4. /\ y \subseteq 0 .. 3 /\ IsFiniteSet(y) /\ y # {} /\ y \subseteq Int
      /\ z \subseteq 0 .. 3 /\ IsFiniteSet(z) /\ z # {} /\ z \subseteq Int
  <2>1. u \in 0 .. 3 /\ v \in 0 .. 3
    BY <1>1, DeltaScoresGrow
  <2>2. w \in 0 .. 3
    BY <1>1
  <2> QED BY <1>2, <2>1, <2>2, ScoresFinite
<1>5. u \in Int /\ v \in Int /\ u <= v
  BY <1>1, DeltaScoresGrow
<1>6. \A i \in y : \E j \in z : i <= j
  <2> SUFFICES ASSUME NEW i \in y PROVE \E j \in z : i <= j
    OBVIOUS
  <2>1. CASE i = u
    BY <1>2, <1>5, <2>1
  <2>2. CASE i \in {drawdown, w} \union Fears(q)
    <3>1. i \in z /\ i <= i
      BY <1>2, <1>4, <2>2
    <3> QED BY <3>1
  <2> QED BY <1>2, <2>1, <2>2
<1>7. Max(y) <= Max(z)
  BY <1>4, <1>6, MaxMonotone
<1>8. Max(y) \in y
  BY <1>4, MaxIsMember
<1> QED BY <1>3, <1>4, <1>7, <1>8

\* The delta of the row drifts when those of its legs do.
LEMMA CurrentDeltaDrifts ==
  ASSUME NEW b \in Seq(Leg), NEW c \in Seq(Leg), SameButDeltas(b, c),
         \A i \in DOMAIN b : Drifted(b[i].delta, c[i].delta)
  PROVE  Drifted(CurrentDelta(b), CurrentDelta(c))
<1>1. /\ PrimaryShort(c) = PrimaryShort(b) /\ PrimaryShortPut(c) = PrimaryShortPut(b)
      /\ PrimaryLong(c) = PrimaryLong(b)
  BY SamePrimaryLegs
<1>2. \A i \in {PrimaryShort(b), PrimaryShortPut(b), PrimaryLong(b)} : i # 0 => i \in DOMAIN b
  BY PrimaryMembers
<1> QED BY <1>1, <1>2 DEF CurrentDelta, Drifted

\* So do the scans.
LEMMA ScansGrow ==
  ASSUME NEW b \in Seq(Leg), NEW c \in Seq(Leg), SameButDeltas(b, c),
         \A i \in DOMAIN b : Drifted(b[i].delta, c[i].delta),
         NEW onSpy, NEW q, NEW day
  PROVE  /\ RollAll(b, onSpy, day) <= RollAll(c, onSpy, day)
         /\ StopAll(b, onSpy, q) <= StopAll(c, onSpy, q)
         /\ \A drawdown \in 0 .. 3, broken \in BOOLEAN :
              StopOne(b, onSpy, q, drawdown, broken) <= StopOne(c, onSpy, q, drawdown, broken)
<1>1. PICK s, d, e, x : /\ s = Strategy(b, onSpy) /\ d = CurrentDelta(b)
                        /\ e = CurrentDelta(c) /\ x = RollExpiry(b)
  OBVIOUS
<1>2. /\ Strategy(c, onSpy) = s /\ RollExpiry(c) = x
      /\ VerticalExempt(c) <=> VerticalExempt(b)
  BY <1>1, SameStrategy, SameRollExpiry, SameExemption
<1>3. (d \in Int \/ d = NoDelta) /\ (e \in Int \/ e = NoDelta) /\ Drifted(d, e)
  BY <1>1, DeltaType, CurrentDeltaDrifts
<1>4. /\ RollUrgency(s, d, x, day) \in 0 .. 3
      /\ RollUrgency(s, d, x, day) <= RollUrgency(s, e, x, day)
  BY <1>3, RollUrgencyGrows
<1>5. RollAll(b, onSpy, day) <= RollAll(c, onSpy, day)
  BY <1>1, <1>2, <1>4 DEF RollAll
<1>6. \A drawdown \in 0 .. 3, broken \in BOOLEAN :
        /\ StopScore(s, d, q, drawdown, broken) \in 0 .. 3
        /\ StopScore(s, d, q, drawdown, broken) <= StopScore(s, e, q, drawdown, broken)
  BY <1>3, StopScoreGrows
<1>7. \A drawdown \in 0 .. 3, broken \in BOOLEAN :
        StopOne(b, onSpy, q, drawdown, broken) <= StopOne(c, onSpy, q, drawdown, broken)
  BY <1>1, <1>2, <1>6 DEF StopOne
<1>8. StopAll(b, onSpy, q) <= StopAll(c, onSpy, q)
  <2>1. 0 \in 0 .. 3 /\ FALSE \in BOOLEAN
    OBVIOUS
  <2>2. StopOne(b, onSpy, q, 0, FALSE) <= StopOne(c, onSpy, q, 0, FALSE)
    BY <1>7, <2>1
  <2>3. CASE s = "SPY_HEDGE" \/ VerticalExempt(b)
    <3>1. StopAll(b, onSpy, q) = 0 /\ StopAll(c, onSpy, q) = 0
      BY <1>1, <1>2, <2>3, Zenon DEF StopAll
    <3> QED BY <3>1
  <2>4. CASE ~(s = "SPY_HEDGE" \/ VerticalExempt(b))
    <3>1. /\ StopAll(b, onSpy, q) = StopOne(b, onSpy, q, 0, FALSE)
          /\ StopAll(c, onSpy, q) = StopOne(c, onSpy, q, 0, FALSE)
      BY <1>1, <1>2, <2>4, Zenon DEF StopAll
    <3> QED BY <2>2, <3>1
  <2> QED BY <2>3, <2>4
<1> QED BY <1>5, <1>7, <1>8

\* The days to an expiry fall, down to 0.
LEMMA DteFalls ==
  ASSUME NEW expiry \in Nat, NEW u \in Nat, NEW v \in Nat, u <= v
  PROVE  /\ Dte(expiry, v) <= Dte(expiry, u) /\ Dte(expiry, u) \in Nat /\ Dte(expiry, v) \in Nat
         /\ Dte(expiry, u) = IF expiry >= u THEN expiry - u ELSE 0
         /\ Dte(expiry, v) = IF expiry >= v THEN expiry - v ELSE 0
<1>1. Max({0, expiry - u}) = IF 0 >= expiry - u THEN 0 ELSE expiry - u
  BY MaxOfTwo
<1>2. Max({0, expiry - v}) = IF 0 >= expiry - v THEN 0 ELSE expiry - v
  BY MaxOfTwo
<1> QED BY <1>1, <1>2 DEF Dte

\* Waiting makes nothing less urgent.
LEMMA UrgencyGrowsWithTime ==
  ASSUME NEW expiry, expiry \in Nat \/ expiry = NoDay, NEW u \in Nat, NEW v \in Nat, u <= v
  PROVE  TimeUrgency(expiry, u) <= TimeUrgency(expiry, v)
<1>1. CASE expiry \in Nat
  <2>1. PICK x, y : x = Dte(expiry, u) /\ y = Dte(expiry, v)
    OBVIOUS
  <2>2. x \in Nat /\ y \in Nat /\ y <= x
    BY <1>1, <2>1, DteFalls
  <2> QED BY <2>1, <2>2, ThresholdTypes DEF TimeUrgency
<1>2. CASE expiry = NoDay
  BY <1>2 DEF TimeUrgency
<1> QED BY <1>1, <1>2

\* No position is less urgent to roll on a later day.
LEMMA RollGrowsWithTime ==
  ASSUME NEW b \in Seq(Leg), NEW onSpy, NEW u \in Nat, NEW v \in Nat, u <= v
  PROVE  RollAll(b, onSpy, u) <= RollAll(b, onSpy, v)
<1>1. PICK s, d, x : s = Strategy(b, onSpy) /\ d = CurrentDelta(b) /\ x = RollExpiry(b)
  OBVIOUS
<1>2. PICK y, z, w : /\ y = TimeUrgency(x, u) /\ z = TimeUrgency(x, v)
                     /\ w = DeltaUrgency(s, d)
  OBVIOUS
<1>3. y \in 0 .. 3 /\ z \in 0 .. 3 /\ w \in 0 .. 3
  <2>1. d \in Int \/ d = NoDelta
    BY <1>1, DeltaType
  <2> QED BY <1>2, <2>1, TimeUrgencyType, DeltaScoresGrow DEF Drifted
<1>4. y <= z
  BY <1>1, <1>2, RollExpiryType, UrgencyGrowsWithTime
<1>5. Max({y, w}) = (IF y >= w THEN y ELSE w) /\ Max({z, w}) = (IF z >= w THEN z ELSE w)
  BY <1>3, MaxOfTwo
<1>6. RollUrgency(s, d, x, u) = Max({y, w}) /\ RollUrgency(s, d, x, v) = Max({z, w})
  BY <1>2 DEF RollUrgency
<1>7. /\ RollUrgency(s, d, x, u) \in 0 .. 3
      /\ RollUrgency(s, d, x, u) <= RollUrgency(s, d, x, v)
  BY <1>3, <1>4, <1>5, <1>6
<1> QED BY <1>1, <1>7 DEF RollAll

\* Nor is a leg of it.
LEMMA LegsAgeAsRows ==
  ASSUME NEW l \in Leg, NEW u \in Nat, NEW v \in Nat, u <= v
  PROVE  /\ TimeManaged(l, u) => TimeManaged(l, v)
         /\ l.expiry # NoDay /\ l.expiry - v > LeapMinDte => LeapRoll(l, u) <= LeapRoll(l, v)
<1>1. CASE l.expiry = NoDay
  BY <1>1 DEF TimeManaged
<1>2. CASE l.expiry # NoDay
  <2>1. l.expiry \in Nat
    BY <1>2, LegFields
  <2>2. /\ Dte(l.expiry, v) <= Dte(l.expiry, u)
        /\ Dte(l.expiry, u) \in Nat /\ Dte(l.expiry, v) \in Nat
        /\ Dte(l.expiry, v) = IF l.expiry >= v THEN l.expiry - v ELSE 0
    BY <2>1, DteFalls
  <2>3. TimeManaged(l, u) => TimeManaged(l, v)
    BY <2>2, ThresholdTypes DEF TimeManaged
  <2>4. l.expiry - v > LeapMinDte => LeapRoll(l, u) <= LeapRoll(l, v)
    <3>1. PICK x, y : x = Dte(l.expiry, u) /\ y = Dte(l.expiry, v)
      OBVIOUS
    <3>2. /\ x \in Nat /\ y \in Nat /\ y <= x
          /\ l.expiry - v > LeapMinDte => y > LeapMinDte
      BY <2>1, <2>2, <3>1, ThresholdTypes
    <3> QED BY <1>2, <3>1, <3>2, ThresholdTypes DEF LeapRoll
  <2> QED BY <2>3, <2>4
<1> QED BY <1>1, <1>2

-----------------------------------------------------------------------------
(* The book over time. *)

\* What holds of the book in every behaviour.
BookInv == legs \in Seq(Leg) /\ today \in Nat

\* A behaviour starts with a book on a day.
LEMMA BookInit == Init => BookInv
BY RulesAssumption DEF Init, BookInv

\* A leg that is closed leaves one less, each as it was.
LEMMA RemovedLeg ==
  ASSUME NEW b \in Seq(Leg), NEW i \in DOMAIN b
  PROVE  /\ RemoveAt(b, i) \in Seq(Leg)
         /\ DOMAIN RemoveAt(b, i) # DOMAIN b
         /\ \A j \in DOMAIN RemoveAt(b, i) :
              /\ IF j < i THEN j \in DOMAIN b ELSE j + 1 \in DOMAIN b
              /\ RemoveAt(b, i)[j] = IF j < i THEN b[j] ELSE b[j + 1]
<1>1. PICK n : n = Len(b)
  OBVIOUS
<1>2. n \in Nat /\ i \in 1 .. n /\ DOMAIN b = 1 .. n
  BY <1>1
<1>3. PICK u, v : u = SubSeq(b, 1, i - 1) /\ v = SubSeq(b, i + 1, n)
  OBVIOUS
<1>4. u \in Seq(Leg) /\ Len(u) = i - 1 /\ \A j \in 1 .. i - 1 : u[j] = b[j]
  <2>1. 1 \in Int /\ i - 1 \in Int /\ \A j \in 1 .. i - 1 : b[j] \in Leg
    BY <1>2
  <2>2. /\ u \in Seq(Leg) /\ Len(u) = IF 1 <= i - 1 THEN i - 1 - 1 + 1 ELSE 0
        /\ \A j \in 1 .. i - 1 - 1 + 1 : u[j] = b[1 + j - 1]
    BY <1>3, <2>1, SubSeqProperties
  <2> QED BY <1>2, <2>2
<1>5. v \in Seq(Leg) /\ Len(v) = n - i /\ \A j \in 1 .. n - i : v[j] = b[i + j]
  <2>1. i + 1 \in Int /\ n \in Int /\ \A j \in i + 1 .. n : b[j] \in Leg
    BY <1>2
  <2>2. /\ v \in Seq(Leg) /\ Len(v) = IF i + 1 <= n THEN n - (i + 1) + 1 ELSE 0
        /\ \A j \in 1 .. n - (i + 1) + 1 : v[j] = b[i + 1 + j - 1]
    BY <1>3, <2>1, SubSeqProperties
  <2>3. n - (i + 1) + 1 = n - i /\ (i + 1 <= n \/ n - i = 0)
    BY <1>2
  <2>4. v \in Seq(Leg) /\ Len(v) = n - i
    BY <1>2, <2>2, <2>3
  <2>5. ASSUME NEW j \in 1 .. n - i PROVE v[j] = b[i + j]
    <3>1. i + 1 + j - 1 = i + j
      BY <1>2
    <3>2. v[j] = b[i + 1 + j - 1]
      BY <2>2, <2>3
    <3> QED BY <3>1, <3>2
  <2> QED BY <2>4, <2>5
<1>6. RemoveAt(b, i) = u \o v
  BY <1>1, <1>3 DEF RemoveAt
<1>7. /\ u \o v \in Seq(Leg) /\ DOMAIN (u \o v) = 1 .. n - 1
      /\ \A j \in 1 .. n - 1 : (u \o v)[j] = IF j < i THEN b[j] ELSE b[j + 1]
  <2>1. PICK w, p : w = u \o v /\ p = i - 1
    OBVIOUS
  <2>2. /\ w \in Seq(Leg) /\ Len(w) = Len(u) + Len(v)
        /\ \A j \in 1 .. Len(u) + Len(v) : w[j] = IF j <= Len(u) THEN u[j] ELSE v[j - Len(u)]
    BY <1>4, <1>5, <2>1, ConcatProperties
  <2>3. Len(u) = p /\ Len(u) + Len(v) = n - 1 /\ p \in Int
    BY <1>2, <1>4, <1>5, <2>1
  <2>4. /\ w \in Seq(Leg) /\ Len(w) = n - 1
        /\ \A j \in 1 .. n - 1 : w[j] = IF j <= p THEN u[j] ELSE v[j - p]
    BY <2>2, <2>3
  <2>5. DOMAIN w = 1 .. n - 1
    BY <2>4
  <2>6. \A j \in 1 .. n - 1 : w[j] = IF j < i THEN b[j] ELSE b[j + 1]
    <3> SUFFICES ASSUME NEW j \in 1 .. n - 1
                 PROVE  w[j] = IF j < i THEN b[j] ELSE b[j + 1]
      OBVIOUS
    <3>1. CASE j < i
      BY <1>2, <1>4, <2>1, <2>4, <3>1
    <3>2. CASE ~(j < i)
      <4>1. j - (i - 1) \in 1 .. n - i /\ i + (j - (i - 1)) = j + 1
        BY <1>2, <3>2
      <4>2. w[j] = v[j - (i - 1)]
        BY <1>2, <2>1, <2>4, <3>2
      <4> QED BY <1>5, <3>2, <4>1, <4>2
    <3> QED BY <3>1, <3>2
  <2> QED BY <2>1, <2>4, <2>5, <2>6
<1> QED BY <1>2, <1>6, <1>7

\* A sync that saves another delta changes nothing else.
LEMMA MovedDelta ==
  ASSUME NEW b \in Seq(Leg), NEW i \in DOMAIN b, NEW d \in Deltas \union {NoDelta},
         NEW c, c = [b EXCEPT ![i].delta = d]
  PROVE  c \in Seq(Leg) /\ SameButDeltas(b, c)
<1>1. DOMAIN b = 1 .. Len(b) /\ Len(b) \in Nat /\ \A j \in DOMAIN b : b[j] \in Leg
  BY LegsFinite
<1>2. PICK l : l = [b[i] EXCEPT !.delta = d]
  OBVIOUS
<1>3. b[i] \in Leg
  BY <1>1
<1>4. l \in Leg /\ l.right = b[i].right /\ l.qty = b[i].qty /\ l.strike = b[i].strike
      /\ l.expiry = b[i].expiry /\ l.strategy = b[i].strategy
  <2>1. PICK u, v : u = Nat \union {NoDay} /\ v = Deltas \union {NoDelta}
    OBVIOUS
  <2>2. Leg = [right: {"C", "P", ""}, qty: Int, strike: Nat, expiry: u, delta: v,
               strategy: STRING, stamp: STRING]
    BY <2>1, Zenon DEF Leg
  <2> QED BY <1>2, <1>3, <2>1, <2>2
<1>5. c = [b EXCEPT ![i] = l]
  BY <1>2
<1>6. DOMAIN c = DOMAIN b /\ \A j \in DOMAIN b : c[j] = IF j = i THEN l ELSE b[j]
  BY <1>5
<1>7. c \in Seq(Leg)
  <2>1. \A j \in DOMAIN b : c[j] \in Leg
    BY <1>1, <1>4, <1>6
  <2>2. c \in [1 .. Len(b) -> Leg]
    BY <1>1, <1>5, <2>1
  <2> QED BY <1>1, <2>2
<1>8. SameButDeltas(b, c)
  BY <1>4, <1>6 DEF SameButDeltas
<1> QED BY <1>7, <1>8

\* A step of the book ages it, changes the deltas or drops a leg.
LEMMA BookStep ==
  ASSUME BookInv, [Next]_vars
  PROVE  /\ BookInv'
         /\ DOMAIN legs' = DOMAIN legs => SameButDeltas(legs, legs') /\ spy' = spy
<1>0. legs \in Seq(Leg) /\ today \in Nat
  BY DEF BookInv
<1>1. legs' = legs => SameButDeltas(legs, legs')
  BY DEF SameButDeltas
<1>2. CASE DayPasses
  BY <1>0, <1>1, <1>2 DEF DayPasses, BookInv
<1>3. CASE PriceMoves
  BY <1>0, <1>1, <1>3 DEF PriceMoves, BookInv
<1>4. CASE DeltaMoves
  <2>1. PICK i \in {PrimaryShort(legs), PrimaryShortPut(legs), PrimaryLong(legs)} \ {0},
             d \in Deltas \union {NoDelta} : legs' = [legs EXCEPT ![i].delta = d]
    BY <1>4 DEF DeltaMoves
  <2>2. i \in DOMAIN legs
    BY <1>0, <2>1, PrimaryMembers
  <2>3. legs' \in Seq(Leg) /\ SameButDeltas(legs, legs')
    BY <1>0, <2>1, <2>2, MovedDelta
  <2> QED BY <1>0, <1>4, <2>3 DEF DeltaMoves, BookInv
<1>5. CASE LegCloses
  <2>1. PICK i \in DOMAIN legs : legs' = RemoveAt(legs, i)
    BY <1>5 DEF LegCloses
  <2>2. legs' \in Seq(Leg) /\ DOMAIN legs' # DOMAIN legs
    BY <1>0, <2>1, RemovedLeg
  <2> QED BY <1>0, <1>5, <2>2 DEF LegCloses, BookInv
<1>6. CASE UNCHANGED vars
  BY <1>0, <1>1, <1>6 DEF vars, BookInv
<1> QED BY <1>2, <1>3, <1>4, <1>5, <1>6 DEF Next

\* There is a book on a day at every moment.
LEMMA BookInvariant == Spec => []BookInv
<1>1. BookInv /\ [Next]_vars => BookInv'
  BY BookStep
<1> QED BY BookInit, <1>1, PTL DEF Spec

\* Neither waiting nor drift against the position makes a verdict or an urgency
\* better: PositionRules, whatever is in the book and whatever the thresholds.
THEOREM WaitingNeverHelps == Spec => NothingCalms
<1>1. ASSUME BookInv, legs' = legs, spy' = spy, today' > today, BookInv'
      PROVE  /\ RollAll(legs, spy, today') >= RollAll(legs, spy, today)
             /\ \A i \in DOMAIN legs :
                  /\ TimeManaged(legs[i], today) => TimeManaged(legs[i], today')
                  /\ legs[i].expiry # NoDay /\ legs[i].expiry - today' > LeapMinDte =>
                       LeapRoll(legs[i], today') >= LeapRoll(legs[i], today)
  <2>1. legs \in Seq(Leg) /\ today \in Nat /\ today' \in Nat /\ today <= today'
    BY <1>1 DEF BookInv
  <2>2. RollAll(legs, spy, today) <= RollAll(legs, spy, today')
    BY <2>1, RollGrowsWithTime
  <2>3. \A i \in DOMAIN legs : legs[i] \in Leg
    BY <2>1, LegsFinite
  <2>4. \A i \in DOMAIN legs :
           /\ TimeManaged(legs[i], today) => TimeManaged(legs[i], today')
           /\ legs[i].expiry # NoDay /\ legs[i].expiry - today' > LeapMinDte =>
                LeapRoll(legs[i], today) <= LeapRoll(legs[i], today')
    BY <2>1, <2>3, LegsAgeAsRows
  <2> QED BY <2>2, <2>4
<1>2. ASSUME BookInv, [Next]_vars,
             DOMAIN legs' = DOMAIN legs, today' = today, quote' = quote,
             \A i \in DOMAIN legs :
               \/ legs'[i] = legs[i]
               \/ /\ NoDelta \notin {legs[i].delta, legs'[i].delta}
                  /\ Abs(legs'[i].delta) >= Abs(legs[i].delta)
      PROVE  /\ RollAll(legs', spy, today) >= RollAll(legs, spy, today)
             /\ StopAll(legs', spy, quote) >= StopAll(legs, spy, quote)
             /\ \A d \in 0 .. 2, broken \in BOOLEAN :
                  StopOne(legs', spy, quote, d, broken)
                    >= StopOne(legs, spy, quote, d, broken)
  <2>1. legs \in Seq(Leg) /\ legs' \in Seq(Leg) /\ SameButDeltas(legs, legs')
    BY <1>2, BookStep DEF BookInv
  <2>2. \A i \in DOMAIN legs : Drifted(legs[i].delta, legs'[i].delta)
    BY <1>2 DEF Drifted
  <2>3. /\ RollAll(legs, spy, today) <= RollAll(legs', spy, today)
        /\ StopAll(legs, spy, quote) <= StopAll(legs', spy, quote)
        /\ \A d \in 0 .. 3, broken \in BOOLEAN :
             StopOne(legs, spy, quote, d, broken) <= StopOne(legs', spy, quote, d, broken)
    BY <2>1, <2>2, ScansGrow
  <2>4. \A d \in 0 .. 2 : d \in 0 .. 3
    OBVIOUS
  <2> QED BY <2>3, <2>4
<1> QED BY <1>1, <1>2, BookInvariant, PTL
        DEF Spec, NothingCalms, TimeNeverCalms, DriftNeverCalms

-----------------------------------------------------------------------------
(* PositionRules: the monitor and the scans. *)

\* A position with no label is as urgent as one of a strategy that may be short.
LEMMA UrgencyOfUnlabelled ==
  ASSUME NEW strategy, strategy \notin LongOnly, NEW d, NEW expiry, NEW day
  PROVE  RollUrgency("", d, expiry, day) = RollUrgency(strategy, d, expiry, day)
<1>1. "" \notin LongOnly
  BY DEF LongOnly
<1>2. DeltaUrgency("", d) = DeltaUrgency(strategy, d)
  BY <1>1 DEF DeltaUrgency
<1> QED BY <1>2 DEF RollUrgency

\* The monitor and the scans say the same of every book.
LEMMA ViewsOfBook ==
  ASSUME BookInv
  PROVE  ViewsAgree
<1>1. PICK s, d, x, stop, roll, exempt :
        /\ s = Strategy(legs, spy) /\ d = CurrentDelta(legs) /\ x = RollExpiry(legs)
        /\ stop = StopOne(legs, spy, quote, 0, FALSE)
        /\ roll = RollUrgency(s, d, x, today) /\ exempt = VerticalExempt(legs)
  OBVIOUS
<1>2. legs \in Seq(Leg) /\ today \in Nat
  BY DEF BookInv
<1>3. d \in Int \/ d = NoDelta
  BY <1>1, <1>2, DeltaType
<1>4. stop \in 0 .. 3 /\ roll \in 0 .. 3
  <2>1. Drifted(d, d) /\ 0 \in 0 .. 3 /\ FALSE \in BOOLEAN
    BY DEF Drifted
  <2>2. stop = StopScore(s, d, quote, 0, FALSE)
    BY <1>1 DEF StopOne
  <2> QED BY <1>1, <1>3, <2>1, <2>2, StopScoreGrows, RollUrgencyGrows
<1>5. ~MonitorSkips(legs, spy) => s \notin LongOnly /\ s # "SPY_HEDGE"
  BY <1>1 DEF MonitorSkips, LongOnly
<1>6. /\ ~exempt /\ s \notin LongOnly => RollAll(legs, spy, today) = roll
      /\ exempt \/ s \in LongOnly => RollAll(legs, spy, today) = 0
  <2>1. /\ ~VerticalExempt(legs) /\ s \notin LongOnly => RollAll(legs, spy, today) = roll
        /\ VerticalExempt(legs) \/ s \in LongOnly => RollAll(legs, spy, today) = 0
    BY <1>1, Zenon DEF RollAll
  <2> QED BY <1>1, <2>1
<1>7. /\ ~exempt /\ s # "SPY_HEDGE" => StopAll(legs, spy, quote) = stop
      /\ exempt \/ s = "SPY_HEDGE" => StopAll(legs, spy, quote) = 0
  <2>1. /\ ~VerticalExempt(legs) /\ s # "SPY_HEDGE" => StopAll(legs, spy, quote) = stop
        /\ VerticalExempt(legs) \/ s = "SPY_HEDGE" => StopAll(legs, spy, quote) = 0
    BY <1>1, Zenon DEF StopAll
  <2> QED BY <1>1, <2>1
<1>8. legs # << >> /\ ~MonitorSkips(legs, spy) =>
        (MonitorNeed(legs, spy, quote, today) # "none" <=> stop >= 2 \/ roll >= 2)
  <2> SUFFICES ASSUME legs # << >>, ~MonitorSkips(legs, spy)
               PROVE  MonitorNeed(legs, spy, quote, today) # "none" <=> stop >= 2 \/ roll >= 2
    OBVIOUS
  <2>1. RollUrgency("", CurrentDelta(legs), RollExpiry(legs), today) = roll
    BY <1>1, <1>5, UrgencyOfUnlabelled
  <2>2. MonitorNeed(legs, spy, quote, today) =
          IF stop = 3 THEN "critical" ELSE IF stop = 2 THEN "warn"
          ELSE IF roll = 3 THEN "critical" ELSE IF roll = 2 THEN "warn" ELSE "none"
    BY <1>1, <2>1, Zenon DEF MonitorNeed
  <2> QED BY <1>4, <2>2
<1>9. MonitorSkips(legs, spy) => MonitorNeed(legs, spy, quote, today) = "none"
  BY Zenon DEF MonitorNeed
<1>10. legs # << >> /\ MonitorNeed(legs, spy, quote, today) # "none" /\ ~exempt =>
         StopAll(legs, spy, quote) >= 2 \/ RollAll(legs, spy, today) >= 2
  BY <1>5, <1>6, <1>7, <1>8, <1>9
<1>11. /\ legs # << >> /\ ~MonitorSkips(legs, spy)
       /\ StopAll(legs, spy, quote) >= 2 \/ RollAll(legs, spy, today) >= 2
       => MonitorNeed(legs, spy, quote, today) # "none"
  <2> SUFFICES ASSUME legs # << >>, ~MonitorSkips(legs, spy),
                      StopAll(legs, spy, quote) >= 2 \/ RollAll(legs, spy, today) >= 2
               PROVE  stop >= 2 \/ roll >= 2
    BY <1>8
  <2>1. exempt => ~(0 >= 2)
    OBVIOUS
  <2>2. CASE exempt = TRUE
    BY <1>6, <1>7, <2>2
  <2>3. CASE ~exempt
    BY <1>5, <1>6, <1>7, <2>3
  <2> QED BY <1>1, <2>2, <2>3 DEF VerticalExempt
<1>12. ShortLeg(legs) # 0 /\ TimeUrgency(RollExpiry(legs), today) >= 2
       => TimeManaged(legs[ShortLeg(legs)], today)
  <2> SUFFICES ASSUME ShortLeg(legs) # 0, TimeUrgency(x, today) >= 2
               PROVE  TimeManaged(legs[ShortLeg(legs)], today)
    BY <1>1
  <2>1. PICK l : l = legs[ShortLeg(legs)]
    OBVIOUS
  <2>2. l.qty < 0 /\ l.right \in {"C", "P"} /\ l.expiry = x /\ x \in Nat /\ x # NoDay
    BY <1>1, <1>2, <2>1, RollExpiryType, ThresholdTypes
  <2>3. PICK n : n = Dte(x, today)
    OBVIOUS
  <2>4. n \in Nat
    BY <1>2, <2>2, <2>3, DteFalls
  <2>5. n <= DteUrgent \/ n <= DteWarning
    BY <2>3 DEF TimeUrgency
  <2>6. n <= DteManage
    BY <2>4, <2>5, ThresholdTypes, DueAssumption
  <2> QED BY <2>1, <2>2, <2>3, <2>6 DEF TimeManaged
<1> QED BY <1>1, <1>10, <1>11, <1>12, Zenon DEF ViewsAgree

-----------------------------------------------------------------------------
(* Greedy matching.  PositionRules covers short calls and BookViews pairs     *)
(* short puts by the same loop, each short leg taking what it needs of the    *)
(* long legs it may use; what follows is of that loop, whatever the legs.     *)

\* One number of a function becomes smaller.
IsLess(g, f, l, n) == g = [f EXCEPT ![l] = @ - n]

\* And its sum by as much.
LEMMA SumLess ==
  ASSUME NEW L, NEW A, A \subseteq L, IsFiniteSet(A), NEW f \in [L -> Nat], NEW l \in L,
         NEW n \in Nat, n <= f[l], NEW g, IsLess(g, f, l, n)
  PROVE  /\ g \in [L -> Nat] /\ \A j \in L : g[j] = IF j = l THEN f[l] - n ELSE f[j]
         /\ l \in A => Sum(g, A) = Sum(f, A) - n
         /\ l \notin A => Sum(g, A) = Sum(f, A)
<1>1. g \in [L -> Nat] /\ \A j \in L : g[j] = IF j = l THEN f[l] - n ELSE f[j]
  <2>1. f[l] - n \in Nat
    OBVIOUS
  <2> QED BY <2>1 DEF IsLess
<1>2. \A j \in A : f[j] \in Int /\ g[j] \in Int
  BY <1>1
<1>3. Sum(f, A) \in Int
  BY <1>2, SumType
<1>4. CASE l \in A
  <2>1. Sum(f, A) = f[l] + Sum(f, A \ {l}) /\ Sum(g, A) = g[l] + Sum(g, A \ {l})
    BY <1>2, <1>4, SumSplit
  <2>2. PICK Y : Y = A \ {l}
    OBVIOUS
  <2>3. IsFiniteSet(Y) /\ (\A j \in Y : f[j] = g[j]) /\ \A j \in Y : f[j] \in Int
    BY <1>1, <1>2, <2>2, FS_Subset
  <2>4. Sum(f, Y) = Sum(g, Y) /\ Sum(f, Y) \in Int
    BY <2>3, SumEqual, SumType
  <2>5. g[l] = f[l] - n /\ f[l] \in Int
    BY <1>1
  <2> QED BY <1>1, <1>4, <2>1, <2>2, <2>4, <2>5
<1>5. CASE l \notin A
  <2>1. \A j \in A : f[j] = g[j]
    BY <1>1, <1>5
  <2>2. Sum(f, A) = Sum(g, A)
    BY <1>2, <2>1, SumEqual
  <2> QED BY <1>1, <1>3, <1>5, <2>2
<1> QED BY <1>4, <1>5

\* A short leg of n contracts that has gone through the long legs of J, of those
\* of L, and may use those of A: need are still to be taken, and what it took is
\* no longer left.
Taken(L, before, n, A, J, after, need) ==
  /\ after \in [L -> Nat] /\ need \in 0 .. n
  /\ \A l \in L : after[l] <= before[l] /\ (l \notin A => after[l] = before[l])
  /\ Sum(after, A) + n = Sum(before, A) + need
  /\ need = 0 \/ \A l \in A : l \in J => after[l] = 0

\* What it takes of one more.
TakenOf(A, l, left, need) ==
  IF l \in A THEN IF left[l] <= need THEN left[l] ELSE need ELSE 0

\* Before the first long leg nothing has been taken.
LEMMA NothingTaken ==
  ASSUME NEW L, NEW A, A \subseteq L, IsFiniteSet(A), NEW before \in [L -> Nat], NEW n \in Nat
  PROVE  Taken(L, before, n, A, {}, before, n)
BY DEF Taken

\* One long leg more gives what it can and what is still needed.
LEMMA TakesOneMore ==
  ASSUME NEW L, NEW A, A \subseteq L, IsFiniteSet(A), NEW before \in [L -> Nat], NEW n \in Nat,
         NEW J, NEW left, NEW need, Taken(L, before, n, A, J, left, need), NEW l \in L,
         NEW t, t = TakenOf(A, l, left, need), NEW after, IsLess(after, left, l, t)
  PROVE  /\ Taken(L, before, n, A, J \union {l}, after, need - t)
         /\ t \in Nat /\ (t # 0 => l \in A)
<1>1. /\ left \in [L -> Nat] /\ need \in 0 .. n
      /\ \A j \in L : left[j] <= before[j] /\ (j \notin A => left[j] = before[j])
      /\ Sum(left, A) + n = Sum(before, A) + need
      /\ need = 0 \/ \A j \in A : j \in J => left[j] = 0
  BY DEF Taken
<1>2. need \in Nat /\ left[l] \in Nat /\ need <= n
  BY <1>1
<1>3. /\ t \in Nat /\ t <= left[l] /\ t <= need /\ (l \notin A => t = 0)
      /\ l \in A => t = left[l] \/ t = need
  BY <1>2 DEF TakenOf
<1>4. /\ after \in [L -> Nat] /\ \A j \in L : after[j] = IF j = l THEN left[l] - t ELSE left[j]
      /\ l \in A => Sum(after, A) = Sum(left, A) - t
      /\ l \notin A => Sum(after, A) = Sum(left, A)
  <2>1. left \in [L -> Nat] /\ t \in Nat /\ t <= left[l]
    BY <1>1, <1>3
  <2>2. after \in [L -> Nat]
    BY <2>1, SumLess
  <2>3. \A j \in L : after[j] = IF j = l THEN left[l] - t ELSE left[j]
    BY <2>1, SumLess
  <2>4. l \in A => Sum(after, A) = Sum(left, A) - t
    BY <2>1, SumLess
  <2>5. l \notin A => Sum(after, A) = Sum(left, A)
    <3> SUFFICES ASSUME l \notin A PROVE Sum(left, A) = Sum(after, A)
      OBVIOUS
    <3>1. (\A j \in A : left[j] = after[j]) /\ \A j \in A : left[j] \in Int
      BY <2>1, <2>3
    <3> QED BY <3>1, SumEqual
  <2> QED BY <2>2, <2>3, <2>4, <2>5
<1>5. Sum(left, A) \in Int /\ Sum(before, A) \in Int
  <2>1. (\A j \in A : left[j] \in Int) /\ \A j \in A : before[j] \in Int
    BY <1>1
  <2> QED BY <2>1, SumType
<1>6. Sum(after, A) = Sum(left, A) - t
  BY <1>3, <1>4, <1>5
<1>7. need - t \in 0 .. n
  BY <1>2, <1>3
<1>8. \A j \in L : after[j] <= before[j] /\ (j \notin A => after[j] = before[j])
  <2> SUFFICES ASSUME NEW j \in L
               PROVE  after[j] <= before[j] /\ (j \notin A => after[j] = before[j])
    OBVIOUS
  <2>1. left[j] \in Nat /\ before[j] \in Nat /\ left[j] <= before[j]
    BY <1>1
  <2>2. CASE j = l
    BY <1>1, <1>3, <1>4, <2>1, <2>2
  <2>3. CASE j # l
    BY <1>1, <1>4, <2>1, <2>3
  <2> QED BY <2>2, <2>3
<1>9. Sum(after, A) + n = Sum(before, A) + (need - t)
  BY <1>1, <1>2, <1>3, <1>5, <1>6
<1>10. need - t = 0 \/ \A j \in A : j \in J \union {l} => after[j] = 0
  <2>1. CASE t = need
    BY <1>2, <2>1
  <2>2. CASE t # need
    <3>1. need # 0
      BY <1>2, <1>3, <2>2
    <3>2. \A j \in A : j \in J => left[j] = 0
      BY <1>1, <3>1
    <3>3. l \in A => left[l] - t = 0
      BY <1>2, <1>3, <2>2
    <3> QED BY <1>4, <3>2, <3>3
  <2> QED BY <2>1, <2>2
<1> QED BY <1>3, <1>4, <1>7, <1>8, <1>9, <1>10 DEF Taken

\* What a short leg took is missing from every set of long legs that holds all it
\* may use.
LEMMA TakenFromMore ==
  ASSUME NEW L, IsFiniteSet(L), NEW A, NEW B1, A \subseteq B1, B1 \subseteq L,
         NEW before \in [L -> Nat], NEW n \in Nat,
         NEW J, NEW after, NEW need, Taken(L, before, n, A, J, after, need)
  PROVE  Sum(after, B1) + n = Sum(before, B1) + need
<1>1. PICK Y : Y = B1 \ A
  OBVIOUS
<1>2. IsFiniteSet(A) /\ IsFiniteSet(Y) /\ A \intersect Y = {} /\ B1 = A \union Y /\ Y \subseteq L
      /\ A \subseteq L
  <2>1. A \subseteq L /\ Y \subseteq L
    BY <1>1
  <2> QED BY <1>1, <2>1, FS_Subset
<1>3. /\ after \in [L -> Nat] /\ need \in 0 .. n
      /\ \A j \in L : j \notin A => after[j] = before[j]
      /\ Sum(after, A) + n = Sum(before, A) + need
  BY DEF Taken
<1>4. /\ \A j \in A \union Y : before[j] \in Int
      /\ \A j \in A \union Y : after[j] \in Int
  BY <1>2, <1>3
<1>5. Sum(before, B1) = Sum(before, A) + Sum(before, Y)
  BY <1>2, <1>4, SumUnion
<1>6. Sum(after, B1) = Sum(after, A) + Sum(after, Y)
  BY <1>2, <1>4, SumUnion
<1>7. (\A j \in Y : before[j] = after[j]) /\ \A j \in Y : before[j] \in Int
  BY <1>1, <1>2, <1>3, <1>4
<1>8. Sum(before, Y) = Sum(after, Y) /\ Sum(before, Y) \in Int
  BY <1>2, <1>7, SumEqual, SumType
<1>9. Sum(before, A) \in Int /\ Sum(after, A) \in Int
  <2>1. (\A j \in A : before[j] \in Int) /\ \A j \in A : after[j] \in Int
    BY <1>4
  <2> QED BY <1>2, <2>1, SumType
<1> QED BY <1>3, <1>5, <1>6, <1>8, <1>9

\* Short legs Z of n contracts each, and the long legs L, of q contracts, each may
\* use: the higher its key, the more.
IsMarket(L, q, n, A, Z, key) ==
  /\ IsFiniteSet(L) /\ IsFiniteSet(Z) /\ q \in [L -> Nat] /\ n \in [Z -> Nat]
  /\ A \in [Z -> SUBSET L] /\ key \in [Z -> Int]
  /\ \A r, s \in Z : key[r] <= key[s] => A[r] \subseteq A[s]

\* What is left, and which short legs are met, after the short legs of a set have
\* taken what they need, the one with the highest key last.
IsMatching(left, met, L, q, n, A, Z, key) ==
  /\ left \in [SUBSET Z -> [L -> Nat]] /\ left[{}] = q /\ met[{}] = {}
  /\ \A u \in SUBSET Z : u # {} => \E h \in u, need \in Nat :
       /\ \A s \in u : key[s] <= key[h]
       /\ Taken(L, left[u \ {h}], n[h], A[h], L, left[u], need)
       /\ met[u] = met[u \ {h}] \union {s \in {h} : need = 0}

\* The last step of the loop, as it is used below.
LEMMA LastStep ==
  ASSUME NEW L, NEW q, NEW n, NEW A, NEW Z, NEW key, IsMarket(L, q, n, A, Z, key),
         NEW left, NEW met, IsMatching(left, met, L, q, n, A, Z, key),
         NEW u \in SUBSET Z, u # {}
  PROVE  \E h \in u, need \in Nat, v \in SUBSET Z :
           /\ v = u \ {h} /\ h \notin v /\ h \in Z /\ u = v \union {h} /\ v # u /\ v \subseteq u
           /\ IsFiniteSet(u) /\ IsFiniteSet(v)
           /\ \A s \in u : key[s] <= key[h]
           /\ Taken(L, left[v], n[h], A[h], L, left[u], need)
           /\ met[u] = met[v] \union {s \in {h} : need = 0}
           /\ left[v] \in [L -> Nat] /\ left[u] \in [L -> Nat]
           /\ n[h] \in Nat /\ A[h] \subseteq L /\ need <= n[h]
<1>1. PICK h \in u, need \in Nat :
        /\ \A s \in u : key[s] <= key[h]
        /\ Taken(L, left[u \ {h}], n[h], A[h], L, left[u], need)
        /\ met[u] = met[u \ {h}] \union {s \in {h} : need = 0}
  BY DEF IsMatching
<1>2. PICK v : v = u \ {h}
  OBVIOUS
<1>3. /\ v \in SUBSET Z /\ h \notin v /\ h \in Z /\ u = v \union {h} /\ v # u /\ v \subseteq u
  BY <1>2
<1>4. IsFiniteSet(u) /\ IsFiniteSet(v)
  <2>1. IsFiniteSet(Z)
    BY DEF IsMarket
  <2> QED BY <1>3, <2>1, FS_Subset
<1>5. left[v] \in [L -> Nat] /\ left[u] \in [L -> Nat]
  BY <1>3 DEF IsMatching
<1>6. n[h] \in Nat /\ A[h] \subseteq L
  BY <1>3 DEF IsMarket
<1>7. Taken(L, left[v], n[h], A[h], L, left[u], need)
  BY <1>1, <1>2
<1>8. need <= n[h]
  BY <1>6, <1>7 DEF Taken
<1> QED BY <1>1, <1>2, <1>3, <1>4, <1>5, <1>6, <1>7, <1>8

\* Only short legs that have had their turn are met.
LEMMA MetMembers ==
  ASSUME NEW L, NEW q, NEW n, NEW A, NEW Z, NEW key, IsMarket(L, q, n, A, Z, key),
         NEW left, NEW met, IsMatching(left, met, L, q, n, A, Z, key)
  PROVE  \A u \in SUBSET Z : met[u] \subseteq u
<1>1. PICK F : F = {u \in SUBSET Z : ~(met[u] \subseteq u)}
  OBVIOUS
<1>2. SUFFICES ASSUME F # {} PROVE FALSE
  BY <1>1
<1>3. PICK u \in F : \A y \in F : y \subseteq u => y = u
  <2>1. IsFiniteSet(Z)
    BY DEF IsMarket
  <2>2. \A y \in F : y \subseteq Z
    BY <1>1
  <2> QED BY <1>2, <2>1, <2>2, MinimalSet
<1>4. u # {}
  BY <1>1 DEF IsMatching
<1>5. PICK h \in u, need \in Nat, v \in SUBSET Z :
        /\ v # u /\ v \subseteq u /\ h \notin v /\ h \in Z
        /\ Taken(L, left[v], n[h], A[h], L, left[u], need)
        /\ met[u] = met[v] \union {s \in {h} : need = 0}
  <2>1. u \in SUBSET Z
    BY <1>1
  <2> QED BY <1>4, <2>1, LastStep
<1>6. v \notin F
  BY <1>3, <1>5
<1> QED BY <1>1, <1>5, <1>6

\* What the short legs that are met need was there: no contract is used twice.
LEMMA MetNoMore ==
  ASSUME NEW L, NEW q, NEW n, NEW A, NEW Z, NEW key, IsMarket(L, q, n, A, Z, key),
         NEW left, NEW met, IsMatching(left, met, L, q, n, A, Z, key),
         NEW U \in SUBSET Z, NEW K, K \subseteq L, \A s \in U : A[s] \subseteq K
  PROVE  Sum(n, met[U]) + Sum(left[U], K) <= Sum(q, K)
<1>1. PICK F : F = {u \in SUBSET U : ~(Sum(n, met[u]) + Sum(left[u], K) <= Sum(q, K))}
  OBVIOUS
<1>2. SUFFICES ASSUME F # {} PROVE FALSE
  BY <1>1
<1>0. IsFiniteSet(Z) /\ IsFiniteSet(U) /\ IsFiniteSet(L) /\ IsFiniteSet(K)
  <2>1. IsFiniteSet(Z) /\ IsFiniteSet(L)
    BY DEF IsMarket
  <2> QED BY <2>1, FS_Subset
<1>3. PICK u \in F : \A y \in F : y \subseteq u => y = u
  <2>1. \A y \in F : y \subseteq U
    BY <1>1
  <2> QED BY <1>0, <1>2, <2>1, MinimalSet
<1>4. \A y \in SUBSET Z : Sum(left[y], K) \in Int /\ Sum(n, met[y]) \in Int
  <2> SUFFICES ASSUME NEW y \in SUBSET Z
               PROVE  Sum(left[y], K) \in Int /\ Sum(n, met[y]) \in Int
    OBVIOUS
  <2>1. \A l \in K : left[y][l] \in Int
    BY DEF IsMatching
  <2>2. met[y] \subseteq Z
    BY MetMembers
  <2>3. IsFiniteSet(met[y]) /\ \A s \in met[y] : n[s] \in Int
    BY <1>0, <2>2, FS_Subset DEF IsMarket
  <2> QED BY <1>0, <2>1, <2>3, SumType
<1>5. u # {}
  <2>1. left[{}] = q /\ met[{}] = {}
    BY DEF IsMatching
  <2>2. Sum(n, {}) = 0
    BY FS_EmptySet, SumUnfolds
  <2>3. Sum(q, K) \in Int
    BY <1>4, <2>1
  <2>4. Sum(n, met[{}]) + Sum(left[{}], K) <= Sum(q, K)
    BY <2>1, <2>2, <2>3
  <2> QED BY <1>1, <2>4
<1>6. PICK h \in u, need \in Nat, v \in SUBSET Z :
        /\ v # u /\ v \subseteq u /\ h \notin v /\ h \in Z
        /\ Taken(L, left[v], n[h], A[h], L, left[u], need)
        /\ met[u] = met[v] \union {s \in {h} : need = 0}
        /\ left[v] \in [L -> Nat] /\ n[h] \in Nat /\ need <= n[h]
  BY <1>1, <1>5, LastStep
<1>7. v \notin F /\ u \in SUBSET U
  BY <1>1, <1>3, <1>6
<1>8. Sum(n, met[v]) + Sum(left[v], K) <= Sum(q, K)
  BY <1>1, <1>6, <1>7
<1>9. Sum(left[u], K) + n[h] = Sum(left[v], K) + need
  <2>1. A[h] \subseteq K
    BY <1>6, <1>7
  <2> QED BY <1>0, <1>6, <2>1, TakenFromMore
<1>10. need = 0 => Sum(n, met[u]) = n[h] + Sum(n, met[v])
  <2> SUFFICES ASSUME need = 0 PROVE Sum(n, met[u]) = n[h] + Sum(n, met[v])
    OBVIOUS
  <2>1. met[u] = met[v] \union {h} /\ met[v] \subseteq v
    BY <1>6, MetMembers
  <2>2. met[u] \subseteq Z /\ h \in met[u] /\ met[u] \ {h} = met[v]
    BY <1>6, <2>1
  <2>3. IsFiniteSet(met[u]) /\ \A s \in met[u] : n[s] \in Int
    BY <1>0, <2>2, FS_Subset DEF IsMarket
  <2> QED BY <2>2, <2>3, SumSplit
<1>11. need # 0 => met[u] = met[v]
  BY <1>6
<1>12. u \in SUBSET Z
  BY <1>7
<1>13. Sum(q, K) \in Int
  <2>1. \A l \in K : q[l] \in Int
    BY DEF IsMarket
  <2> QED BY <1>0, <2>1, SumType
<1>14. Sum(n, met[u]) + Sum(left[u], K) <= Sum(q, K)
  <2>1. v \in SUBSET Z
    BY <1>6
  <2>2. PICK mu, lu, mv, lv, sq :
          /\ mu = Sum(n, met[u]) /\ lu = Sum(left[u], K)
          /\ mv = Sum(n, met[v]) /\ lv = Sum(left[v], K) /\ sq = Sum(q, K)
    OBVIOUS
  <2>3. mu \in Int /\ lu \in Int /\ mv \in Int /\ lv \in Int /\ sq \in Int
    BY <1>4, <1>12, <1>13, <2>1, <2>2
  <2>4. need \in Nat /\ n[h] \in Nat /\ need <= n[h]
    BY <1>6
  <2>5. mv + lv <= sq /\ lu + n[h] = lv + need
    BY <1>8, <1>9, <2>2
  <2>6. mu + lu <= sq
    <3>1. CASE need = 0
      <4>1. mu = n[h] + mv
        BY <1>10, <2>2, <3>1
      <4> QED BY <2>3, <2>4, <2>5, <3>1, <4>1
    <3>2. CASE need # 0
      <4>1. mu = mv
        BY <1>11, <2>2, <3>2
      <4> QED BY <2>3, <2>4, <2>5, <4>1
    <3> QED BY <3>1, <3>2
  <2> QED BY <2>2, <2>6
<1> QED BY <1>1, <1>14

\* A part of a sum of naturals is no greater than the sum.
LEMMA SumOfPart ==
  ASSUME NEW Z, IsFiniteSet(Z), NEW f, \A x \in Z : f[x] \in Nat, NEW Y \in SUBSET Z
  PROVE  Sum(f, Y) <= Sum(f, Z)
<1>1. PICK X : X = Z \ Y
  OBVIOUS
<1>2. IsFiniteSet(Y) /\ IsFiniteSet(X) /\ Y \intersect X = {} /\ Z = Y \union X
  BY <1>1, FS_Subset
<1>3. (\A x \in Y : f[x] \in Nat) /\ (\A x \in X : f[x] \in Nat)
      /\ \A x \in Y \union X : f[x] \in Int
  BY <1>1
<1>4. Sum(f, Y \union X) = Sum(f, Y) + Sum(f, X)
  BY <1>2, <1>3, SumUnion
<1>5. Sum(f, Y) \in Nat
  BY <1>2, <1>3, SumNat
<1>6. Sum(f, X) \in Nat
  BY <1>2, <1>3, SumNat
<1> QED BY <1>2, <1>4, <1>5, <1>6

\* The short legs of U are all met, and use what they need of every set of long
\* legs that holds all they may use.
AllMet(U, left, met, L, q, n, A) ==
  /\ met[U] = U
  /\ \A K \in SUBSET L : (\A s \in U : A[s] \subseteq K) => Sum(n, U) + Sum(left[U], K) = Sum(q, K)

\* The short legs of U fit in the long ones: what each of them and those below it
\* need is no more than it may use.
Fits(U, q, n, A, key) ==
  \A s \in U : Sum(n, {r \in U : key[r] <= key[s]}) <= Sum(q, A[s])

\* Short legs that fit are all met: taking the most demanding last wastes nothing.
LEMMA MetAll ==
  ASSUME NEW L, NEW q, NEW n, NEW A, NEW Z, NEW key, IsMarket(L, q, n, A, Z, key),
         NEW left, NEW met, IsMatching(left, met, L, q, n, A, Z, key),
         NEW U \in SUBSET Z, Fits(U, q, n, A, key)
  PROVE  AllMet(U, left, met, L, q, n, A)
<1>1. PICK F : F = {u \in SUBSET U : ~AllMet(u, left, met, L, q, n, A)}
  OBVIOUS
<1>2. SUFFICES ASSUME F # {} PROVE FALSE
  BY <1>1
<1>3. /\ IsFiniteSet(Z) /\ IsFiniteSet(L) /\ q \in [L -> Nat] /\ n \in [Z -> Nat]
      /\ A \in [Z -> SUBSET L] /\ key \in [Z -> Int]
      /\ \A r, s \in Z : key[r] <= key[s] => A[r] \subseteq A[s]
  BY DEF IsMarket
<1>4. IsFiniteSet(U)
  BY <1>3, FS_Subset
<1>5. PICK u \in F : \A y \in F : y \subseteq u => y = u
  <2>1. \A y \in F : y \subseteq U
    BY <1>1
  <2> QED BY <1>2, <1>4, <2>1, MinimalSet
<1>6. u \in SUBSET U /\ u \in SUBSET Z
  BY <1>1
<1>7. u # {}
  <2>1. left[{}] = q /\ met[{}] = {}
    BY DEF IsMatching
  <2>2. Sum(n, {}) = 0
    BY FS_EmptySet, SumUnfolds
  <2>3. \A K \in SUBSET L : Sum(q, K) \in Int
    BY <1>3, FS_Subset, SumType
  <2>4. \A K \in SUBSET L : Sum(n, {}) + Sum(left[{}], K) = Sum(q, K)
    BY <2>1, <2>2, <2>3
  <2>5. AllMet({}, left, met, L, q, n, A)
    BY <2>1, <2>4 DEF AllMet
  <2> QED BY <1>1, <2>5
<1>8. PICK h \in u, need \in Nat, v \in SUBSET Z :
        /\ v # u /\ v \subseteq u /\ h \notin v /\ h \in Z /\ u = v \union {h} /\ v = u \ {h}
        /\ IsFiniteSet(u) /\ IsFiniteSet(v)
        /\ \A s \in u : key[s] <= key[h]
        /\ Taken(L, left[v], n[h], A[h], L, left[u], need)
        /\ met[u] = met[v] \union {s \in {h} : need = 0}
        /\ left[v] \in [L -> Nat] /\ left[u] \in [L -> Nat] /\ n[h] \in Nat /\ A[h] \subseteq L
        /\ need <= n[h]
  BY <1>6, <1>7, LastStep
<1>9. v \notin F /\ v \in SUBSET U
  BY <1>5, <1>6, <1>8
<1>10. AllMet(v, left, met, L, q, n, A)
  BY <1>1, <1>9
<1>11. /\ \A s \in u : n[s] \in Nat
       /\ \A s \in v : n[s] \in Nat
  BY <1>3, <1>6, <1>8
<1>12. Sum(n, u) = n[h] + Sum(n, v)
  <2>1. \A s \in u : n[s] \in Int
    BY <1>11
  <2> QED BY <1>8, <2>1, SumSplit
<1>13. Sum(n, v) \in Int /\ Sum(n, u) \in Int
  <2>1. (\A s \in u : n[s] \in Int) /\ \A s \in v : n[s] \in Int
    BY <1>11
  <2> QED BY <1>8, <2>1, SumType
<1>14. \A K \in SUBSET L : /\ Sum(left[u], K) \in Int /\ Sum(left[v], K) \in Int /\ Sum(q, K) \in Int
                           /\ A[h] \subseteq K => Sum(left[u], K) + n[h] = Sum(left[v], K) + need
  <2> SUFFICES ASSUME NEW K \in SUBSET L
               PROVE  /\ Sum(left[u], K) \in Int /\ Sum(left[v], K) \in Int /\ Sum(q, K) \in Int
                      /\ A[h] \subseteq K => Sum(left[u], K) + n[h] = Sum(left[v], K) + need
    OBVIOUS
  <2>1. IsFiniteSet(K)
    BY <1>3, FS_Subset
  <2>2. (\A l \in K : left[u][l] \in Int) /\ (\A l \in K : left[v][l] \in Int) /\ \A l \in K : q[l] \in Int
    <3>1. left[u] \in [L -> Nat] /\ left[v] \in [L -> Nat] /\ q \in [L -> Nat]
      BY <1>3, <1>8
    <3>2. (\A l \in L : left[u][l] \in Nat) /\ (\A l \in L : left[v][l] \in Nat) /\ \A l \in L : q[l] \in Nat
      BY <3>1
    <3> QED BY <3>2
  <2>3. Sum(left[u], K) \in Int
    BY <2>1, <2>2, SumType
  <2>4. Sum(left[v], K) \in Int
    BY <2>1, <2>2, SumType
  <2>5. Sum(q, K) \in Int
    BY <2>1, <2>2, SumType
  <2>6. A[h] \subseteq K => Sum(left[u], K) + n[h] = Sum(left[v], K) + need
    <3> SUFFICES ASSUME A[h] \subseteq K PROVE Sum(left[u], K) + n[h] = Sum(left[v], K) + need
      OBVIOUS
    <3>1. IsFiniteSet(L) /\ left[v] \in [L -> Nat] /\ n[h] \in Nat /\ K \subseteq L
          /\ Taken(L, left[v], n[h], A[h], L, left[u], need)
      BY <1>3, <1>8
    <3> QED BY <3>1, TakenFromMore
  <2> QED BY <2>3, <2>4, <2>5, <2>6
<1>15. need = 0
  <2>1. SUFFICES ASSUME need # 0 PROVE FALSE
    OBVIOUS
  <2>2. \A l \in A[h] : left[u][l] = 0
    BY <1>8, <2>1 DEF Taken
  <2>3. Sum(left[u], A[h]) = 0
    <3>1. IsFiniteSet(A[h])
      BY <1>3, <1>8, FS_Subset
    <3> QED BY <2>2, <3>1, SumOfZeros
  <2>4. Sum(n, v) + Sum(left[v], A[h]) = Sum(q, A[h])
    <3>1. \A s \in v : A[s] \subseteq A[h]
      BY <1>3, <1>8
    <3> QED BY <1>8, <1>10, <3>1 DEF AllMet
  <2>5. Sum(n, u) <= Sum(q, A[h])
    <3>1. PICK Y : Y = {r \in U : key[r] <= key[h]}
      OBVIOUS
    <3>2. Sum(n, Y) <= Sum(q, A[h])
      BY <1>6, <3>1 DEF Fits
    <3>3. IsFiniteSet(Y) /\ (\A s \in Y : n[s] \in Nat) /\ u \in SUBSET Y
      BY <1>3, <1>4, <1>6, <1>8, <3>1, FS_Subset
    <3>4. Sum(n, u) <= Sum(n, Y)
      BY <3>3, SumOfPart
    <3>5. Sum(n, Y) \in Int /\ Sum(q, A[h]) \in Int
      BY <1>8, <1>14, <3>3, SumNat
    <3> QED BY <1>13, <3>2, <3>4, <3>5
  <2>6. PICK nu, nv, lu, lv, sq : /\ nu = Sum(n, u) /\ nv = Sum(n, v)
          /\ lu = Sum(left[u], A[h]) /\ lv = Sum(left[v], A[h]) /\ sq = Sum(q, A[h])
    OBVIOUS
  <2>7. nu \in Int /\ nv \in Int /\ lu \in Int /\ lv \in Int /\ sq \in Int /\ lu + n[h] = lv + need
    BY <1>8, <1>13, <1>14, <2>6
  <2>8. lu = 0 /\ nv + lv = sq /\ nu <= sq /\ nu = n[h] + nv
    BY <1>12, <2>3, <2>4, <2>5, <2>6
  <2>9. need \in Nat /\ n[h] \in Nat
    BY <1>8
  <2> QED BY <2>1, <2>7, <2>8, <2>9
<1>16. met[u] = u
  <2>1. met[v] = v
    BY <1>10 DEF AllMet
  <2> QED BY <1>8, <1>15, <2>1
<1>17. \A K \in SUBSET L : (\A s \in u : A[s] \subseteq K) => Sum(n, u) + Sum(left[u], K) = Sum(q, K)
  <2> SUFFICES ASSUME NEW K \in SUBSET L, \A s \in u : A[s] \subseteq K
               PROVE  Sum(n, u) + Sum(left[u], K) = Sum(q, K)
    OBVIOUS
  <2>1. Sum(n, v) + Sum(left[v], K) = Sum(q, K)
    BY <1>8, <1>10 DEF AllMet
  <2>2. Sum(left[u], K) + n[h] = Sum(left[v], K) + need
    BY <1>8, <1>14
  <2>3. PICK nu, nv, nh, lu, lv, sq : /\ nu = Sum(n, u) /\ nv = Sum(n, v) /\ nh = n[h]
          /\ lu = Sum(left[u], K) /\ lv = Sum(left[v], K) /\ sq = Sum(q, K)
    OBVIOUS
  <2>4. /\ nu \in Int /\ nv \in Int
        /\ lu \in Int /\ lv \in Int /\ sq \in Int
        /\ nh \in Int
    <3>1. nu \in Int /\ nv \in Int
      BY <1>13, <2>3
    <3>2. lu \in Int /\ lv \in Int /\ sq \in Int
      BY <1>14, <2>3
    <3>3. nh \in Int
      BY <1>8, <2>3
    <3> QED BY <3>1, <3>2, <3>3
  <2>5. nv + lv = sq /\ lu + nh = lv + 0 /\ nu = nh + nv
    BY <1>12, <1>15, <2>1, <2>2, <2>3
  <2>6. nu + lu = sq
    BY <2>4, <2>5
  <2> QED BY <2>3, <2>6
<1>18. AllMet(u, left, met, L, q, n, A)
  BY <1>16, <1>17 DEF AllMet
<1> QED BY <1>1, <1>18

\* Who is met among the short legs with the lowest keys does not depend on those
\* that come after them.
LEMMA MetPrefix ==
  ASSUME NEW L, NEW q, NEW n, NEW A, NEW Z, NEW key, IsMarket(L, q, n, A, Z, key),
         NEW left, NEW met, IsMatching(left, met, L, q, n, A, Z, key),
         NEW k \in Int, NEW U \in SUBSET Z, \A r \in Z : r \in U <=> key[r] <= k
  PROVE  met[Z] \intersect U = met[U]
<1>1. PICK F : F = {u \in SUBSET Z : U \subseteq u /\ met[u] \intersect U # met[U]}
  OBVIOUS
<1>2. SUFFICES ASSUME F # {} PROVE FALSE
  <2>1. U \subseteq Z
    OBVIOUS
  <2> QED BY <1>1, <2>1
<1>3. IsFiniteSet(Z) /\ key \in [Z -> Int]
  BY DEF IsMarket
<1>4. PICK u \in F : \A y \in F : y \subseteq u => y = u
  <2>1. \A y \in F : y \subseteq Z
    BY <1>1
  <2> QED BY <1>2, <1>3, <2>1, MinimalSet
<1>5. u \in SUBSET Z /\ U \subseteq u /\ met[u] \intersect U # met[U]
  BY <1>1
<1>6. u # U
  <2>1. met[u] \subseteq u
    BY <1>5, MetMembers
  <2> QED BY <1>5, <2>1
<1>7. u # {}
  BY <1>5, <1>6
<1>8. PICK h \in u, need \in Nat, v \in SUBSET Z :
        /\ v # u /\ v \subseteq u /\ h \notin v /\ h \in Z /\ u = v \union {h}
        /\ \A s \in u : key[s] <= key[h]
        /\ Taken(L, left[v], n[h], A[h], L, left[u], need)
        /\ met[u] = met[v] \union {s \in {h} : need = 0}
  BY <1>5, <1>7, LastStep
<1>9. h \notin U
  <2>1. SUFFICES ASSUME h \in U PROVE FALSE
    OBVIOUS
  <2>2. PICK s \in u : s \notin U
    BY <1>5, <1>6
  <2>3. s \in Z /\ key[s] \in Int /\ key[h] \in Int
    BY <1>3, <1>5, <1>8, <2>2
  <2>4. key[s] <= key[h] /\ key[h] <= k /\ ~(key[s] <= k)
    BY <1>8, <2>1, <2>2, <2>3
  <2> QED BY <2>3, <2>4
<1>10. U \subseteq v
  BY <1>5, <1>8, <1>9
<1>11. v \notin F
  BY <1>4, <1>8
<1>12. met[v] \intersect U = met[U]
  BY <1>1, <1>8, <1>10, <1>11
<1> QED BY <1>5, <1>8, <1>9, <1>12

\* The contracts that the short legs met need were there, all of them at once.
LEMMA MetCovered ==
  ASSUME NEW L, NEW q, NEW n, NEW A, NEW Z, NEW key, IsMarket(L, q, n, A, Z, key),
         NEW left, NEW met, IsMatching(left, met, L, q, n, A, Z, key)
  PROVE  Fits(met[Z], q, n, A, key)
<1> SUFFICES ASSUME NEW s \in met[Z]
             PROVE  Sum(n, {r \in met[Z] : key[r] <= key[s]}) <= Sum(q, A[s])
  BY DEF Fits
<1>1. /\ IsFiniteSet(Z) /\ IsFiniteSet(L) /\ q \in [L -> Nat] /\ n \in [Z -> Nat]
      /\ A \in [Z -> SUBSET L] /\ key \in [Z -> Int]
      /\ \A x, y \in Z : key[x] <= key[y] => A[x] \subseteq A[y]
  BY DEF IsMarket
<1>2. met[Z] \subseteq Z /\ s \in Z /\ key[s] \in Int /\ A[s] \subseteq L
  <2>1. met[Z] \subseteq Z
    BY MetMembers
  <2> QED BY <1>1, <2>1
<1>3. PICK U : U = {r \in Z : key[r] <= key[s]}
  OBVIOUS
<1>4. met[Z] \intersect U = met[U]
  <2>1. PICK k \in Int : k = key[s]
    BY <1>2
  <2>2. U \in SUBSET Z /\ \A r \in Z : r \in U <=> key[r] <= k
    BY <1>3, <2>1
  <2> QED BY <2>2, MetPrefix
<1>5. met[U] = {r \in met[Z] : key[r] <= key[s]}
  BY <1>2, <1>3, <1>4
<1>6. U \in SUBSET Z /\ \A r \in U : A[r] \subseteq A[s]
  BY <1>1, <1>2, <1>3
<1>7. Sum(n, met[U]) + Sum(left[U], A[s]) <= Sum(q, A[s])
  BY <1>2, <1>6, MetNoMore
<1>8. left[U] \in [L -> Nat]
  BY <1>6 DEF IsMatching
<1>9. Sum(left[U], A[s]) \in Nat
  <2>1. IsFiniteSet(A[s]) /\ \A l \in A[s] : left[U][l] \in Nat
    BY <1>1, <1>2, <1>8, FS_Subset
  <2> QED BY <2>1, SumNat
<1>10. Sum(n, met[U]) \in Int
  <2>1. met[U] \subseteq Z
    BY <1>2, <1>4
  <2>2. IsFiniteSet(met[U]) /\ \A r \in met[U] : n[r] \in Int
    BY <1>1, <2>1, FS_Subset
  <2> QED BY <2>2, SumType
<1>11. Sum(q, A[s]) \in Int
  <2>1. IsFiniteSet(A[s]) /\ \A l \in A[s] : q[l] \in Int
    BY <1>1, <1>2, FS_Subset
  <2> QED BY <2>1, SumType
<1>12. Sum(n, met[U]) <= Sum(q, A[s])
  BY <1>7, <1>9, <1>10, <1>11
<1> QED BY <1>5, <1>12

\* A short leg is met when it and those below it fit.
LEMMA MetWhenFits ==
  ASSUME NEW L, NEW q, NEW n, NEW A, NEW Z, NEW key, IsMarket(L, q, n, A, Z, key),
         NEW left, NEW met, IsMatching(left, met, L, q, n, A, Z, key),
         NEW k \in Int, NEW U \in SUBSET Z, \A r \in Z : r \in U <=> key[r] <= k, Fits(U, q, n, A, key)
  PROVE  U \subseteq met[Z]
<1>1. U \in SUBSET Z
  OBVIOUS
<1>2. AllMet(U, left, met, L, q, n, A)
  BY <1>1, MetAll
<1>3. met[U] = U
  BY <1>2 DEF AllMet
<1>4. met[Z] \intersect U = met[U]
  BY MetPrefix
<1> QED BY <1>3, <1>4

-----------------------------------------------------------------------------
(* The short calls of PositionRules.                                          *)

\* The fold by which a short call of n contracts takes from the long calls.
IsTaking(g, strike, s, n, before, longs) ==
  g = [J \in SUBSET longs |->
         IF J = {} THEN [need |-> n, left |-> before]
         ELSE TakeFrom(strike, s, g[J \ {Highest(strike, J)}], Highest(strike, J))]

\* What it has come to in the end.
IsTaken(after, need, strike, s, n, before, longs) ==
  \E g : /\ g = (CHOOSE h : IsTaking(h, strike, s, n, before, longs))
         /\ after = g[longs].left /\ need = g[longs].need

\* What a short call takes is what the recursion over the long ones gives.
LEMMA CoverShortByRecursion ==
  ASSUME NEW strike, NEW size, NEW longs, NEW acc, NEW s
  PROVE  \E after, need : /\ IsTaken(after, need, strike, s, size[s], acc.left, longs)
           /\ CoverShort(strike, size, longs, acc, s) =
                [left |-> after,
                 covered |-> IF need = 0 THEN acc.covered \union {strike[s]} ELSE acc.covered]
<1>1. PICK g : g = (CHOOSE h : IsTaking(h, strike, s, size[s], acc.left, longs))
  OBVIOUS
<1>2. CoverShort(strike, size, longs, acc, s) =
        [left |-> g[longs].left,
         covered |-> IF g[longs].need = 0 THEN acc.covered \union {strike[s]} ELSE acc.covered]
  BY <1>1 DEF CoverShort, MapThenFoldSet, IsTaking
<1> QED BY <1>1, <1>2 DEF IsTaken

\* The highest of some legs is one of them.
LEMMA HighestOf ==
  ASSUME NEW I, IsFiniteSet(I), I # {}, NEW strike, \A i \in I : strike[i] \in Int
  PROVE  Highest(strike, I) \in I /\ \A i \in I : strike[i] <= strike[Highest(strike, I)]
<1>1. PICK F : F = {{j \in I : strike[j] >= strike[i]} : i \in I}
  OBVIOUS
<1>2. F # {} /\ \A x \in F : x \subseteq I
  BY <1>1
<1>3. PICK x \in F : \A y \in F : y \subseteq x => y = x
  BY <1>2, MinimalSet
<1>4. PICK i \in I : x = {j \in I : strike[j] >= strike[i]}
  BY <1>1
<1>5. ASSUME NEW j \in I PROVE strike[j] <= strike[i]
  <2>1. SUFFICES ASSUME strike[j] > strike[i] PROVE FALSE
    BY strike[i] \in Int, strike[j] \in Int
  <2>2. PICK y : y = {m \in I : strike[m] >= strike[j]}
    OBVIOUS
  <2>3. y \in F
    BY <1>1, <2>2
  <2>4. y \subseteq x
    BY <1>4, <2>1, <2>2
  <2>5. i \in x /\ i \notin y
    BY <1>4, <2>1, <2>2
  <2> QED BY <1>3, <2>3, <2>4, <2>5
<1>6. \E m \in I : \A j \in I : strike[j] <= strike[m]
  BY <1>5
<1>7. PICK m : m = Highest(strike, I)
  OBVIOUS
<1>8. m \in I /\ \A j \in I : strike[j] <= strike[m]
  BY <1>6, <1>7 DEF Highest
<1> QED BY <1>7, <1>8

\* The long call l gives t contracts.
Gives(longs, strike, s, left, need, l, t) ==
  \E after : /\ TakeFrom(strike, s, [need |-> need, left |-> left], l) =
                  [need |-> need - t, left |-> after]
             /\ IsLess(after, left, l, t) /\ after \in [longs -> Int]

\* One long call gives what is needed of it.
LEMMA TakeFromGives ==
  ASSUME NEW longs, NEW A, NEW strike, NEW s, NEW l \in longs, l \in A <=> strike[l] < strike[s],
         NEW left \in [longs -> Int], NEW need \in Int, NEW t, t = TakenOf(A, l, left, need)
  PROVE  t \in Int /\ Gives(longs, strike, s, left, need, l, t)
<1>1. left[l] \in Int
  OBVIOUS
<1>2. t \in Int
  BY <1>1 DEF TakenOf
<1>3. Min({left[l], need}) = IF left[l] <= need THEN left[l] ELSE need
  BY <1>1, MinOfTwo
<1>4. t = IF strike[l] < strike[s] THEN Min({left[l], need}) ELSE 0
  BY <1>3 DEF TakenOf
<1>5. TakeFrom(strike, s, [need |-> need, left |-> left], l) =
        [need |-> need - t, left |-> [left EXCEPT ![l] = @ - t]]
  BY <1>4 DEF TakeFrom
<1>6. PICK after : after = [left EXCEPT ![l] = @ - t]
  OBVIOUS
<1>7. after \in [longs -> Int]
  BY <1>1, <1>2, <1>6
<1> QED BY <1>2, <1>5, <1>6, <1>7 DEF IsLess, Gives

\* There is such a recursion.
LEMMA TakingExists ==
  ASSUME NEW longs, IsFiniteSet(longs), NEW strike, \A l \in longs : strike[l] \in Int,
         NEW s, NEW n \in Int, NEW before \in [longs -> Int]
  PROVE  \E g : IsTaking(g, strike, s, n, before, longs)
<1>1. PICK R : R = [need : Int, left : [longs -> Int]]
  OBVIOUS
<1>2. PICK base : base = [need |-> n, left |-> before]
  OBVIOUS
<1>3. base \in R
  BY <1>1, <1>2
<1>4. PICK pick : pick = [u \in SUBSET longs |-> Highest(strike, u)]
  OBVIOUS
<1>5. \A u \in SUBSET longs : u # {} => pick[u] \in u
  <2> SUFFICES ASSUME NEW u \in SUBSET longs, u # {} PROVE Highest(strike, u) \in u
    BY <1>4
  <2>1. IsFiniteSet(u)
    BY FS_Subset
  <2> QED BY <2>1, HighestOf
<1>6. PICK step : step = [w \in longs \X R |-> TakeFrom(strike, s, w[2], w[1])]
  OBVIOUS
<1>7. \A l \in longs, r \in R : TakeFrom(strike, s, r, l) \in R
  <2> SUFFICES ASSUME NEW l \in longs, NEW r \in R PROVE TakeFrom(strike, s, r, l) \in R
    OBVIOUS
  <2>1. PICK left \in [longs -> Int], need \in Int : r = [need |-> need, left |-> left]
    BY <1>1
  <2>2. PICK A : A = {m \in longs : strike[m] < strike[s]}
    OBVIOUS
  <2>3. l \in A <=> strike[l] < strike[s]
    BY <2>2
  <2>4. PICK t : t = TakenOf(A, l, left, need)
    OBVIOUS
  <2>5. t \in Int
    BY <2>3, <2>4, TakeFromGives
  <2>6. PICK after : /\ TakeFrom(strike, s, [need |-> need, left |-> left], l) =
                          [need |-> need - t, left |-> after]
                     /\ IsLess(after, left, l, t) /\ after \in [longs -> Int]
    <3>1. Gives(longs, strike, s, left, need, l, t)
      BY <2>3, <2>4, TakeFromGives
    <3> QED BY <3>1 DEF Gives
  <2>7. need - t \in Int
    BY <2>5
  <2>8. [need |-> need - t, left |-> after] \in R
    BY <1>1, <2>6, <2>7
  <2> QED BY <2>1, <2>6, <2>8
<1>8. step \in [longs \X R -> R]
  <2>1. \A w \in longs \X R : TakeFrom(strike, s, w[2], w[1]) \in R
    BY <1>7
  <2> QED BY <1>6, <2>1
<1>9. PICK g \in [SUBSET longs -> R] : IsFold(g, longs, base, step, pick)
  BY <1>3, <1>5, <1>8, FoldExists
<1>10. \A u \in SUBSET longs : u # {} =>
         step[<<pick[u], g[u \ {pick[u]}]>>] = TakeFrom(strike, s, g[u \ {pick[u]}], pick[u])
  <2> SUFFICES ASSUME NEW u \in SUBSET longs, u # {}
               PROVE  step[<<pick[u], g[u \ {pick[u]}]>>] = TakeFrom(strike, s, g[u \ {pick[u]}], pick[u])
    OBVIOUS
  <2>1. pick[u] \in longs /\ g[u \ {pick[u]}] \in R
    BY <1>5
  <2> QED BY <1>6, <2>1
<1>11. \A u \in SUBSET longs :
         g[u] = IF u = {} THEN base ELSE TakeFrom(strike, s, g[u \ {pick[u]}], pick[u])
  BY <1>9, <1>10 DEF IsFold
<1>12. \A u \in SUBSET longs :
         g[u] = IF u = {} THEN [need |-> n, left |-> before]
                ELSE TakeFrom(strike, s, g[u \ {Highest(strike, u)}], Highest(strike, u))
  BY <1>2, <1>4, <1>11
<1>13. IsTaking(g, strike, s, n, before, longs)
  BY <1>9, <1>12 DEF IsTaking
<1> QED BY <1>13

\* A short call takes what it needs from the long calls below it.
LEMMA ShortTakes ==
  ASSUME NEW longs, IsFiniteSet(longs), NEW strike, \A l \in longs : strike[l] \in Int,
         NEW s, NEW n \in Nat, NEW before \in [longs -> Nat],
         NEW A \in SUBSET longs, \A l \in longs : l \in A <=> strike[l] < strike[s],
         NEW after, NEW need, IsTaken(after, need, strike, s, n, before, longs)
  PROVE  Taken(longs, before, n, A, longs, after, need)
<1>1. PICK g : /\ g = (CHOOSE h : IsTaking(h, strike, s, n, before, longs))
               /\ after = g[longs].left /\ need = g[longs].need
  BY DEF IsTaken
<1>2. IsTaking(g, strike, s, n, before, longs)
  <2>1. n \in Int /\ before \in [longs -> Int]
    OBVIOUS
  <2>2. \E h : IsTaking(h, strike, s, n, before, longs)
    BY <2>1, TakingExists
  <2> QED BY <1>1, <2>2
<1>3. PICK F : F = {J \in SUBSET longs :
         ~ \E left, more : /\ g[J] = [need |-> more, left |-> left]
                           /\ Taken(longs, before, n, A, J, left, more)}
  OBVIOUS
<1>4. ASSUME F # {} PROVE FALSE
  <2>1. \A J \in F : J \subseteq longs
    BY <1>3
  <2>2. PICK J \in F : \A I \in F : I \subseteq J => I = J
    BY <1>4, <2>1, MinimalSet
  <2>3. IsFiniteSet(J) /\ IsFiniteSet(A) /\ J \in SUBSET longs
    BY <2>1, FS_Subset
  <2>4. J # {}
    <3>1. g[{}] = [need |-> n, left |-> before]
      BY <1>2 DEF IsTaking
    <3>2. Taken(longs, before, n, A, {}, before, n)
      BY <2>3, NothingTaken
    <3> QED BY <1>3, <3>1, <3>2
  <2>5. PICK l : l = Highest(strike, J)
    OBVIOUS
  <2>6. l \in J /\ l \in longs
    <3>1. \A j \in J : strike[j] \in Int
      BY <2>3
    <3> QED BY <2>3, <2>4, <2>5, <3>1, HighestOf
  <2>7. PICK I : I = J \ {l}
    OBVIOUS
  <2>8. I \in SUBSET longs /\ I \notin F /\ J = I \union {l}
    BY <2>2, <2>3, <2>6, <2>7
  <2>9. PICK left, more : /\ g[I] = [need |-> more, left |-> left]
                          /\ Taken(longs, before, n, A, I, left, more)
    BY <1>3, <2>8
  <2>10. g[J] = TakeFrom(strike, s, [need |-> more, left |-> left], l)
    BY <1>2, <2>3, <2>4, <2>5, <2>7, <2>9 DEF IsTaking
  <2>11. left \in [longs -> Int] /\ more \in Int
    BY <2>9 DEF Taken
  <2>12. PICK t : t = TakenOf(A, l, left, more)
    OBVIOUS
  <2>13. l \in A <=> strike[l] < strike[s]
    BY <2>6
  <2>14. PICK rest : /\ g[J] = [need |-> more - t, left |-> rest] /\ IsLess(rest, left, l, t)
    <3>1. Gives(longs, strike, s, left, more, l, t)
      BY <2>6, <2>11, <2>12, <2>13, TakeFromGives
    <3> QED BY <2>10, <3>1 DEF Gives
  <2>15. Taken(longs, before, n, A, J, rest, more - t)
    <3>1. Taken(longs, before, n, A, I \union {l}, rest, more - t)
      BY <2>3, <2>6, <2>9, <2>12, <2>14, TakesOneMore
    <3> QED BY <2>8, <3>1
  <2> QED BY <1>3, <2>14, <2>15
<1>5. PICK left, more : /\ g[longs] = [need |-> more, left |-> left]
                        /\ Taken(longs, before, n, A, longs, left, more)
  BY <1>3, <1>4
<1> QED BY <1>1, <1>5

\* Long and short calls, with their strikes and how many contracts they are of.
AreCalls(strike, size, longs, shorts) ==
  /\ IsFiniteSet(longs) /\ IsFiniteSet(shorts)
  /\ \A l \in longs : strike[l] \in Int /\ size[l] \in Nat
  /\ \A s \in shorts : strike[s] \in Int /\ size[s] \in Nat

\* The long calls that may cover a short one.
Below(strike, longs, s) == {l \in longs : strike[l] < strike[s]}

\* What one short call does to what is left and to the strikes that are covered.
Covers(strike, size, longs, before, strikes, s) ==
  \E after, need :
    /\ Taken(longs, before, size[s], Below(strike, longs, s), longs, after, need)
    /\ CoverShort(strike, size, longs, [left |-> before, covered |-> strikes], s) =
         [left |-> after, covered |-> IF need = 0 THEN strikes \union {strike[s]} ELSE strikes]

\* A short call takes of the long ones below it, and is covered when that
\* is enough.
LEMMA CoverShortCovers ==
  ASSUME NEW strike, NEW size, NEW longs, NEW shorts, AreCalls(strike, size, longs, shorts),
         NEW before \in [longs -> Nat], NEW strikes, NEW s \in shorts
  PROVE  Covers(strike, size, longs, before, strikes, s)
<1>1. PICK acc : acc = [left |-> before, covered |-> strikes]
  OBVIOUS
<1>2. acc.left = before /\ acc.covered = strikes
  BY <1>1
<1>3. PICK after, need : /\ IsTaken(after, need, strike, s, size[s], acc.left, longs)
        /\ CoverShort(strike, size, longs, acc, s) =
             [left |-> after,
              covered |-> IF need = 0 THEN acc.covered \union {strike[s]} ELSE acc.covered]
  BY CoverShortByRecursion
<1>4. PICK A : A = Below(strike, longs, s)
  OBVIOUS
<1>5. A \in SUBSET longs /\ \A l \in longs : l \in A <=> strike[l] < strike[s]
  BY <1>4 DEF Below
<1>6. IsFiniteSet(longs) /\ (\A l \in longs : strike[l] \in Int) /\ size[s] \in Nat
  BY DEF AreCalls
<1>7. PICK n \in Nat : n = size[s]
  BY <1>6
<1>8. Taken(longs, before, n, A, longs, after, need)
  BY <1>2, <1>3, <1>5, <1>6, <1>7, ShortTakes
<1> QED BY <1>1, <1>2, <1>3, <1>4, <1>7, <1>8 DEF Covers

\* The fold over the short calls.
IsCovering(g, strike, size, longs, shorts) ==
  g = [u \in SUBSET shorts |->
         IF u = {} THEN [left |-> [l \in longs |-> size[l]], covered |-> {}]
         ELSE CoverShort(strike, size, longs, g[u \ {Highest(strike, u)}], Highest(strike, u))]

\* The covered strikes are what the recursion over the short calls gives.
LEMMA CoverByRecursion ==
  ASSUME NEW strike, NEW size, NEW longs, NEW shorts
  PROVE  Cover(strike, size, longs, shorts) =
           (CHOOSE g : IsCovering(g, strike, size, longs, shorts))[shorts].covered
BY DEF Cover, MapThenFoldSet, IsCovering

\* There is such a recursion.
LEMMA CoveringExists ==
  ASSUME NEW strike, NEW size, NEW longs, NEW shorts, AreCalls(strike, size, longs, shorts)
  PROVE  \E g : IsCovering(g, strike, size, longs, shorts)
<1>1. PICK R : R = [left : [longs -> Nat], covered : SUBSET {strike[s] : s \in shorts}]
  OBVIOUS
<1>2. PICK base : base = [left |-> [l \in longs |-> size[l]], covered |-> {}]
  OBVIOUS
<1>3. base \in R
  BY <1>1, <1>2 DEF AreCalls
<1>4. PICK pick : pick = [u \in SUBSET shorts |-> Highest(strike, u)]
  OBVIOUS
<1>5. \A u \in SUBSET shorts : u # {} => pick[u] \in u
  <2> SUFFICES ASSUME NEW u \in SUBSET shorts, u # {} PROVE Highest(strike, u) \in u
    BY <1>4
  <2>1. IsFiniteSet(u) /\ \A i \in u : strike[i] \in Int
    BY FS_Subset DEF AreCalls
  <2> QED BY <2>1, HighestOf
<1>6. PICK step : step = [w \in shorts \X R |-> CoverShort(strike, size, longs, w[2], w[1])]
  OBVIOUS
<1>7. \A s \in shorts, r \in R : CoverShort(strike, size, longs, r, s) \in R
  <2> SUFFICES ASSUME NEW s \in shorts, NEW r \in R PROVE CoverShort(strike, size, longs, r, s) \in R
    OBVIOUS
  <2>1. PICK before \in [longs -> Nat], strikes \in SUBSET {strike[x] : x \in shorts} :
          r = [left |-> before, covered |-> strikes]
    BY <1>1
  <2>2. Covers(strike, size, longs, before, strikes, s)
    BY CoverShortCovers
  <2>3. PICK after, need :
          /\ Taken(longs, before, size[s], Below(strike, longs, s), longs, after, need)
          /\ CoverShort(strike, size, longs, r, s) =
               [left |-> after, covered |-> IF need = 0 THEN strikes \union {strike[s]} ELSE strikes]
    BY <2>1, <2>2 DEF Covers
  <2>4. after \in [longs -> Nat]
    BY <2>3 DEF Taken
  <2>5. PICK more : more = IF need = 0 THEN strikes \union {strike[s]} ELSE strikes
    OBVIOUS
  <2>6. more \in SUBSET {strike[x] : x \in shorts}
    BY <2>1, <2>5
  <2>7. [left |-> after, covered |-> more] \in R
    BY <1>1, <2>4, <2>6
  <2> QED BY <2>3, <2>5, <2>7
<1>8. step \in [shorts \X R -> R]
  <2>1. \A w \in shorts \X R : CoverShort(strike, size, longs, w[2], w[1]) \in R
    BY <1>7
  <2> QED BY <1>6, <2>1
<1>9. PICK g \in [SUBSET shorts -> R] : IsFold(g, shorts, base, step, pick)
  <2>1. IsFiniteSet(shorts)
    BY DEF AreCalls
  <2> QED BY <1>3, <1>5, <1>8, <2>1, FoldExists
<1>10. \A u \in SUBSET shorts : u # {} =>
         step[<<pick[u], g[u \ {pick[u]}]>>] = CoverShort(strike, size, longs, g[u \ {pick[u]}], pick[u])
  <2> SUFFICES ASSUME NEW u \in SUBSET shorts, u # {}
               PROVE  step[<<pick[u], g[u \ {pick[u]}]>>]
                        = CoverShort(strike, size, longs, g[u \ {pick[u]}], pick[u])
    OBVIOUS
  <2>1. pick[u] \in shorts /\ g[u \ {pick[u]}] \in R
    BY <1>5
  <2> QED BY <1>6, <2>1
<1>11. \A u \in SUBSET shorts :
         g[u] = IF u = {} THEN base
                ELSE CoverShort(strike, size, longs, g[u \ {pick[u]}], pick[u])
  BY <1>9, <1>10 DEF IsFold
<1>12. \A u \in SUBSET shorts :
         g[u] = IF u = {} THEN [left |-> [l \in longs |-> size[l]], covered |-> {}]
                ELSE CoverShort(strike, size, longs, g[u \ {Highest(strike, u)}], Highest(strike, u))
  BY <1>2, <1>4, <1>11
<1>13. IsCovering(g, strike, size, longs, shorts)
  BY <1>9, <1>12 DEF IsCovering
<1> QED BY <1>13

\* What is left and covered after the short calls of u.
IsCovered(g, longs, strike, u) ==
  \E before \in [longs -> Nat], strikes \in SUBSET {strike[s] : s \in u} :
    g[u] = [left |-> before, covered |-> strikes]

\* The fold over the short calls is a matching, and what is covered are the strikes
\* of those that it meets.
CoversMet(strike, size, longs, shorts, q, n, A, key) ==
  \E left, met : /\ IsMatching(left, met, longs, q, n, A, shorts, key)
                 /\ Cover(strike, size, longs, shorts) = {strike[s] : s \in met[shorts]}

\* Covering the short calls is greedy matching, from the highest strike down.
LEMMA CoverMatches ==
  ASSUME NEW strike, NEW size, NEW longs, NEW shorts, AreCalls(strike, size, longs, shorts),
         \A r, s \in shorts : strike[r] = strike[s] => r = s,
         NEW q, q = [l \in longs |-> size[l]], NEW n, n = [s \in shorts |-> size[s]],
         NEW A, A = [s \in shorts |-> Below(strike, longs, s)],
         NEW key, key = [s \in shorts |-> strike[s]]
  PROVE  /\ IsMarket(longs, q, n, A, shorts, key)
         /\ CoversMet(strike, size, longs, shorts, q, n, A, key)
<1>1. /\ IsFiniteSet(longs) /\ IsFiniteSet(shorts)
      /\ \A l \in longs : strike[l] \in Int /\ size[l] \in Nat
      /\ \A s \in shorts : strike[s] \in Int /\ size[s] \in Nat
  BY DEF AreCalls
<1>2. IsMarket(longs, q, n, A, shorts, key)
  <2>1. q \in [longs -> Nat] /\ n \in [shorts -> Nat] /\ key \in [shorts -> Int]
    BY <1>1
  <2>2. A \in [shorts -> SUBSET longs]
    BY DEF Below
  <2>3. \A r, s \in shorts : key[r] <= key[s] => A[r] \subseteq A[s]
    BY <1>1 DEF Below
  <2> QED BY <1>1, <2>1, <2>2, <2>3 DEF IsMarket
<1>3. PICK g : g = (CHOOSE h : IsCovering(h, strike, size, longs, shorts))
  OBVIOUS
<1>4. IsCovering(g, strike, size, longs, shorts)
  <2>1. \E h : IsCovering(h, strike, size, longs, shorts)
    BY CoveringExists
  <2> QED BY <1>3, <2>1
<1>5. Cover(strike, size, longs, shorts) = g[shorts].covered
  BY <1>3, CoverByRecursion
<1>6. \A u \in SUBSET shorts : u # {} =>
        /\ Highest(strike, u) \in u /\ \A s \in u : strike[s] <= strike[Highest(strike, u)]
        /\ g[u] = CoverShort(strike, size, longs, g[u \ {Highest(strike, u)}], Highest(strike, u))
  <2> SUFFICES ASSUME NEW u \in SUBSET shorts, u # {}
               PROVE  /\ Highest(strike, u) \in u /\ \A s \in u : strike[s] <= strike[Highest(strike, u)]
                      /\ g[u] = CoverShort(strike, size, longs, g[u \ {Highest(strike, u)}], Highest(strike, u))
    OBVIOUS
  <2>1. IsFiniteSet(u) /\ \A i \in u : strike[i] \in Int
    BY <1>1, FS_Subset
  <2>2. Highest(strike, u) \in u /\ \A s \in u : strike[s] <= strike[Highest(strike, u)]
    BY <2>1, HighestOf
  <2>3. g[u] = CoverShort(strike, size, longs, g[u \ {Highest(strike, u)}], Highest(strike, u))
    BY <1>4 DEF IsCovering
  <2> QED BY <2>2, <2>3
<1>7. g[{}] = [left |-> q, covered |-> {}]
  BY <1>4 DEF IsCovering
<1>8. \A u \in SUBSET shorts : IsCovered(g, longs, strike, u)
  <2>1. PICK F : F = {u \in SUBSET shorts : ~IsCovered(g, longs, strike, u)}
    OBVIOUS
  <2>2. SUFFICES ASSUME F # {} PROVE FALSE
    BY <2>1
  <2>3. PICK u \in F : \A y \in F : y \subseteq u => y = u
    <3>1. \A y \in F : y \subseteq shorts
      BY <2>1
    <3> QED BY <1>1, <2>2, <3>1, MinimalSet
  <2>4. u # {}
    <3>1. q \in [longs -> Nat]
      BY <1>1
    <3>2. IsCovered(g, longs, strike, {})
      BY <1>7, <3>1 DEF IsCovered
    <3> QED BY <2>1, <3>2
  <2>5. PICK h, v : h = Highest(strike, u) /\ v = u \ {h}
    OBVIOUS
  <2>6. /\ u \in SUBSET shorts /\ h \in u /\ h \in shorts /\ v \in SUBSET shorts /\ v \notin F
        /\ g[u] = CoverShort(strike, size, longs, g[v], h) /\ v \subseteq u
    BY <1>6, <2>1, <2>3, <2>4, <2>5
  <2>7. PICK before \in [longs -> Nat], strikes \in SUBSET {strike[s] : s \in v} :
          g[v] = [left |-> before, covered |-> strikes]
    BY <2>1, <2>6 DEF IsCovered
  <2>8. Covers(strike, size, longs, before, strikes, h)
    BY <2>6, CoverShortCovers
  <2>9. PICK after, need :
          /\ Taken(longs, before, size[h], Below(strike, longs, h), longs, after, need)
          /\ g[u] = [left |-> after,
                     covered |-> IF need = 0 THEN strikes \union {strike[h]} ELSE strikes]
    BY <2>6, <2>7, <2>8 DEF Covers
  <2>10. after \in [longs -> Nat]
    BY <2>9 DEF Taken
  <2>11. PICK more : more = IF need = 0 THEN strikes \union {strike[h]} ELSE strikes
    OBVIOUS
  <2>12. more \in SUBSET {strike[s] : s \in u}
    BY <2>6, <2>7, <2>11
  <2>13. IsCovered(g, longs, strike, u)
    BY <2>9, <2>10, <2>11, <2>12 DEF IsCovered
  <2> QED BY <2>1, <2>3, <2>13
<1>9. PICK left, met : /\ left = [u \in SUBSET shorts |-> g[u].left]
                       /\ met = [u \in SUBSET shorts |-> {s \in u : strike[s] \in g[u].covered}]
  OBVIOUS
<1>10. left \in [SUBSET shorts -> [longs -> Nat]]
  <2>1. \A u \in SUBSET shorts : g[u].left \in [longs -> Nat]
    <3> SUFFICES ASSUME NEW u \in SUBSET shorts PROVE g[u].left \in [longs -> Nat]
      OBVIOUS
    <3>1. IsCovered(g, longs, strike, u)
      BY <1>8
    <3>2. PICK before \in [longs -> Nat] : \E strikes : g[u] = [left |-> before, covered |-> strikes]
      BY <3>1 DEF IsCovered
    <3> QED BY <3>2
  <2> QED BY <1>9, <2>1
<1>11. left[{}] = q /\ met[{}] = {}
  BY <1>7, <1>9
<1>12. ASSUME NEW u \in SUBSET shorts, u # {}
       PROVE  \E h \in u, need \in Nat :
                /\ \A s \in u : key[s] <= key[h]
                /\ Taken(longs, left[u \ {h}], n[h], A[h], longs, left[u], need)
                /\ met[u] = met[u \ {h}] \union {s \in {h} : need = 0}
  <2>1. PICK h, v : h = Highest(strike, u) /\ v = u \ {h}
    OBVIOUS
  <2>2. /\ h \in u /\ h \in shorts /\ v \in SUBSET shorts /\ u = v \union {h} /\ h \notin v
        /\ g[u] = CoverShort(strike, size, longs, g[v], h)
        /\ \A s \in u : strike[s] <= strike[h]
    BY <1>6, <1>12, <2>1
  <2>3. PICK before \in [longs -> Nat], strikes \in SUBSET {strike[s] : s \in v} :
          g[v] = [left |-> before, covered |-> strikes]
    BY <1>8, <2>2 DEF IsCovered
  <2>4. Covers(strike, size, longs, before, strikes, h)
    BY <2>2, CoverShortCovers
  <2>5. PICK after, need :
          /\ Taken(longs, before, size[h], Below(strike, longs, h), longs, after, need)
          /\ g[u] = [left |-> after,
                     covered |-> IF need = 0 THEN strikes \union {strike[h]} ELSE strikes]
    BY <2>2, <2>3, <2>4 DEF Covers
  <2>6. left[v] = before /\ left[u] = after /\ n[h] = size[h] /\ A[h] = Below(strike, longs, h)
    BY <1>9, <2>2, <2>3, <2>5
  <2>7. Taken(longs, left[v], n[h], A[h], longs, left[u], need)
    BY <2>5, <2>6
  <2>8. need \in Nat
    <3>1. n[h] \in Nat
      BY <1>1, <2>2
    <3> QED BY <2>7, <3>1 DEF Taken
  <2>9. \A s \in u : key[s] <= key[h]
    BY <2>2
  <2>10. met[v] = {s \in v : strike[s] \in strikes}
    BY <1>9, <2>2, <2>3
  <2>11. strike[h] \notin strikes /\ \A s \in v : strike[s] # strike[h]
    BY <2>2, <2>3
  <2>12. met[u] = met[v] \union {s \in {h} : need = 0}
    <3>1. CASE need = 0
      <4>1. met[u] = {s \in u : strike[s] \in strikes \union {strike[h]}}
        BY <1>9, <2>5, <3>1
      <4> QED BY <2>2, <2>10, <2>11, <3>1, <4>1
    <3>2. CASE need # 0
      <4>1. met[u] = {s \in u : strike[s] \in strikes}
        BY <1>9, <2>5, <3>2
      <4> QED BY <2>2, <2>10, <2>11, <3>2, <4>1
    <3> QED BY <3>1, <3>2
  <2> QED BY <2>1, <2>2, <2>7, <2>8, <2>9, <2>12
<1>13. IsMatching(left, met, longs, q, n, A, shorts, key)
  BY <1>10, <1>11, <1>12 DEF IsMatching
<1>14. Cover(strike, size, longs, shorts) = {strike[s] : s \in met[shorts]}
  <2>1. PICK before \in [longs -> Nat], strikes \in SUBSET {strike[s] : s \in shorts} :
          g[shorts] = [left |-> before, covered |-> strikes]
    <3>1. shorts \in SUBSET shorts
      OBVIOUS
    <3>2. IsCovered(g, longs, strike, shorts)
      BY <1>8, <3>1
    <3> QED BY <3>2 DEF IsCovered
  <2>2. met[shorts] = {s \in shorts : strike[s] \in strikes}
    BY <1>9, <2>1
  <2>3. Cover(strike, size, longs, shorts) = strikes
    BY <1>5, <2>1
  <2> QED BY <2>1, <2>2, <2>3
<1> QED BY <1>2, <1>13, <1>14 DEF CoversMet

\* Every book of a behaviour has one leg for a contract.
LEMMA ContractsInit == Init => OneLegEach(legs)
BY ContractsAssumption DEF Init

\* A step keeps to one leg for each contract.
LEMMA ContractsStep ==
  ASSUME BookInv, OneLegEach(legs), [Next]_vars
  PROVE  OneLegEach(legs')
<1>0. legs \in Seq(Leg)
  BY DEF BookInv
<1>1. SameButDeltas(legs, legs') => OneLegEach(legs')
  BY DEF SameButDeltas, OneLegEach
<1>2. CASE DOMAIN legs' = DOMAIN legs
  BY <1>1, <1>2, BookStep
<1>3. CASE LegCloses
  <2>1. PICK i \in DOMAIN legs : legs' = RemoveAt(legs, i)
    BY <1>3 DEF LegCloses
  <2>2. \A j \in DOMAIN legs' :
          /\ IF j < i THEN j \in DOMAIN legs ELSE j + 1 \in DOMAIN legs
          /\ legs'[j] = IF j < i THEN legs[j] ELSE legs[j + 1]
    BY <1>0, <2>1, RemovedLeg
  <2>3. i \in Nat /\ \A j \in DOMAIN legs' : j \in Nat
    <3>1. legs' \in Seq(Leg)
      BY <1>0, <2>1, RemovedLeg
    <3> QED BY <1>0, <3>1
  <2>4. PICK at : at = [j \in DOMAIN legs' |-> IF j < i THEN j ELSE j + 1]
    OBVIOUS
  <2>5. \A j \in DOMAIN legs' : at[j] \in DOMAIN legs /\ legs'[j] = legs[at[j]]
    BY <2>2, <2>4
  <2>6. \A j, m \in DOMAIN legs' : at[j] = at[m] => j = m
    BY <2>3, <2>4
  <2>7. \A j, m \in DOMAIN legs' :
          /\ legs'[j].right # "" /\ legs'[j].right = legs'[m].right
          /\ legs'[j].strike = legs'[m].strike /\ legs'[j].expiry = legs'[m].expiry
          => j = m
    <3> SUFFICES ASSUME NEW j \in DOMAIN legs', NEW m \in DOMAIN legs',
                        legs'[j].right # "" /\ legs'[j].right = legs'[m].right,
                        legs'[j].strike = legs'[m].strike /\ legs'[j].expiry = legs'[m].expiry
                 PROVE  at[j] = at[m]
      BY <2>6
    <3>1. PICK x, y \in DOMAIN legs : x = at[j] /\ y = at[m] /\ legs'[j] = legs[x] /\ legs'[m] = legs[y]
      BY <2>5
    <3> QED BY <3>1 DEF OneLegEach
  <2> QED BY <2>7 DEF OneLegEach
<1>4. CASE ~LegCloses /\ DOMAIN legs' # DOMAIN legs
  <2>1. legs' # legs
    BY <1>4
  <2>2. DeltaMoves
    BY <1>4, <2>1 DEF Next, DayPasses, PriceMoves, vars
  <2>3. DOMAIN legs' = DOMAIN legs
    BY <2>2 DEF DeltaMoves
  <2> QED BY <1>4, <2>3
<1> QED BY <1>2, <1>3, <1>4

\* There is one leg for each contract at every moment.
LEMMA ContractsInvariant == Spec => []OneLegEach(legs)
<1>1. BookInv /\ OneLegEach(legs) /\ [Next]_vars => OneLegEach(legs)'
  <2>1. ASSUME BookInv, OneLegEach(legs), [Next]_vars
        PROVE  OneLegEach(legs')
    BY <2>1, ContractsStep
  <2> QED BY <2>1 DEF OneLegEach
<1> QED BY BookInvariant, ContractsInit, <1>1, PTL DEF Spec

\* The sums of PositionRules are those of this module.
LEMMA OwedSum ==
  ASSUME NEW b, NEW Z, NEW f, \A i \in Z : f[i] = Abs(b[i].qty)
  PROVE  MapThenSumSet(LAMBDA i : Abs(b[i].qty), Z) = Sum(f, Z)
<1> DEFINE Adds(g) ==
      g = [s \in SUBSET Z |->
             IF s = {} THEN 0
             ELSE Abs(b[CHOOSE z \in s : TRUE].qty) + g[s \ {CHOOSE z \in s : TRUE}]]
<1>1. MapThenSumSet(LAMBDA i : Abs(b[i].qty), Z) = (CHOOSE g : Adds(g))[Z]
  BY DEF MapThenSumSet, MapThenFoldSet
<1>2. \A g : Adds(g) <=> IsSum(g, f, Z)
  <2>1. \A s \in SUBSET Z : s # {} => f[CHOOSE z \in s : TRUE] = Abs(b[CHOOSE z \in s : TRUE].qty)
    OBVIOUS
  <2> QED BY <2>1 DEF IsSum
<1> HIDE DEF Adds
<1> QED BY <1>1, <1>2, SumByRecursion

\* The contracts held, too.
LEMMA HeldSum ==
  ASSUME NEW b, NEW Z, NEW f, \A i \in Z : f[i] = b[i].qty
  PROVE  MapThenSumSet(LAMBDA i : b[i].qty, Z) = Sum(f, Z)
<1> DEFINE Adds(g) ==
      g = [s \in SUBSET Z |->
             IF s = {} THEN 0
             ELSE b[CHOOSE z \in s : TRUE].qty + g[s \ {CHOOSE z \in s : TRUE}]]
<1>1. MapThenSumSet(LAMBDA i : b[i].qty, Z) = (CHOOSE g : Adds(g))[Z]
  BY DEF MapThenSumSet, MapThenFoldSet
<1>2. \A g : Adds(g) <=> IsSum(g, f, Z)
  <2>1. \A s \in SUBSET Z : s # {} => f[CHOOSE z \in s : TRUE] = b[CHOOSE z \in s : TRUE].qty
    OBVIOUS
  <2> QED BY <2>1 DEF IsSum
<1> HIDE DEF Adds
<1> QED BY <1>1, <1>2, SumByRecursion

\* The strikes that PositionRules covers are those of a matching.
LEMMA ExemptionIsSound ==
  ASSUME NEW b \in Seq(Leg), OneLegEach(b), PrimaryShort(b) # 0,
         NEW p, p = PrimaryShort(b), NEW exp, exp = b[p].expiry,
         NEW upTo, upTo = {b[i].strike : i \in {j \in Calls(b) \cap Short(b) :
                             b[j].expiry = exp /\ b[j].strike <= b[p].strike}}
  PROVE  /\ Coverable(b, exp, CoveredStrikes(b, exp))
         /\ Coverable(b, exp, upTo) => VerticalExempt(b)
<1>1. /\ IsFiniteSet(DOMAIN b)
      /\ \A i \in DOMAIN b : b[i].strike \in Nat /\ b[i].qty \in Int
  <2>1. ASSUME NEW i \in DOMAIN b PROVE b[i].strike \in Nat /\ b[i].qty \in Int
    <3>1. b[i] \in Leg
      BY LegsFinite
    <3> QED BY <3>1, LegFields
  <2> QED BY <2>1, LegsFinite
<1>2. p \in DOMAIN b /\ b[p].right = "C" /\ b[p].qty < 0
  BY PrimaryMembers
<1>3. PICK longs, shorts : /\ longs = {i \in Long(b) \cap Calls(b) : b[i].expiry = exp}
                           /\ shorts = {i \in Short(b) \cap Calls(b) : b[i].expiry = exp}
  OBVIOUS
<1>4. PICK strike, size : /\ strike = [i \in DOMAIN b |-> b[i].strike]
                          /\ size = [i \in DOMAIN b |-> Abs(b[i].qty)]
  OBVIOUS
<1>5. /\ longs \in SUBSET DOMAIN b /\ shorts \in SUBSET DOMAIN b /\ p \in shorts
      /\ \A i \in longs : b[i].qty > 0 /\ b[i].right = "C" /\ b[i].expiry = exp
      /\ \A i \in shorts : b[i].qty < 0 /\ b[i].right = "C" /\ b[i].expiry = exp
  BY <1>2, <1>3 DEF Long, Short, Calls
<1>6. \A i \in DOMAIN b : strike[i] = b[i].strike /\ strike[i] \in Int
                          /\ size[i] = Abs(b[i].qty) /\ size[i] \in Nat
  BY <1>1, <1>4 DEF Abs
<1>7. \A i \in longs : size[i] = b[i].qty
  BY <1>1, <1>5, <1>6 DEF Abs
<1>8. AreCalls(strike, size, longs, shorts)
  <2>1. IsFiniteSet(longs) /\ IsFiniteSet(shorts)
    BY <1>1, <1>5, FS_Subset
  <2> QED BY <1>5, <1>6, <2>1 DEF AreCalls
<1>9. \A r, s \in shorts : strike[r] = strike[s] => r = s
  BY <1>5, <1>6 DEF OneLegEach
<1>10. PICK q, n, A, key : /\ q = [l \in longs |-> size[l]] /\ n = [s \in shorts |-> size[s]]
         /\ A = [s \in shorts |-> Below(strike, longs, s)] /\ key = [s \in shorts |-> strike[s]]
  OBVIOUS
<1>11. IsMarket(longs, q, n, A, shorts, key)
  BY <1>8, <1>9, <1>10, CoverMatches
<1>12. CoversMet(strike, size, longs, shorts, q, n, A, key)
  BY <1>8, <1>9, <1>10, CoverMatches
<1>13. PICK left, met : /\ IsMatching(left, met, longs, q, n, A, shorts, key)
                        /\ Cover(strike, size, longs, shorts) = {strike[s] : s \in met[shorts]}
  BY <1>12 DEF CoversMet
<1>14. CoveredStrikes(b, exp) = {strike[s] : s \in met[shorts]}
  <2>1. CoveredStrikes(b, exp) = Cover(strike, size, longs, shorts)
    BY <1>3, <1>4, Zenon DEF CoveredStrikes
  <2> QED BY <1>13, <2>1
<1>15. met[shorts] \subseteq shorts
  BY <1>11, <1>13, MetMembers
<1>16. ASSUME NEW s \in shorts
       PROVE  Held(b, exp, strike[s]) = Sum(q, A[s])
  <2>1. A[s] = {i \in Calls(b) \cap Long(b) : b[i].expiry = exp /\ b[i].strike < strike[s]}
    BY <1>3, <1>5, <1>6, <1>10 DEF Below
  <2>2. \A i \in A[s] : q[i] = b[i].qty
    BY <1>7, <1>10 DEF Below
  <2>3. MapThenSumSet(LAMBDA i : b[i].qty, A[s]) = Sum(q, A[s])
    BY <2>2, HeldSum
  <2> QED BY <2>1, <2>3 DEF Held
<1>17. ASSUME NEW K, NEW U \in SUBSET shorts, \A i \in shorts : i \in U <=> strike[i] \in K,
              NEW s \in shorts
       PROVE  Owed(b, exp, K, strike[s]) = Sum(n, {r \in U : key[r] <= key[s]})
  <2>1. PICK Y : Y = {r \in U : key[r] <= key[s]}
    OBVIOUS
  <2>2. Y = {i \in Calls(b) \cap Short(b) : /\ b[i].expiry = exp
                                           /\ b[i].strike \in K /\ b[i].strike <= strike[s]}
    <3>1. \A i \in shorts : key[i] = b[i].strike /\ strike[i] = b[i].strike
      BY <1>5, <1>6, <1>10
    <3> QED BY <1>3, <1>17, <2>1, <3>1
  <2>3. \A i \in Y : n[i] = Abs(b[i].qty)
    BY <1>5, <1>6, <1>10, <2>1
  <2>4. MapThenSumSet(LAMBDA i : Abs(b[i].qty), Y) = Sum(n, Y)
    BY <2>3, OwedSum
  <2> QED BY <2>1, <2>2, <2>4 DEF Owed
<1>18. Coverable(b, exp, CoveredStrikes(b, exp))
  <2> SUFFICES ASSUME NEW s \in met[shorts]
               PROVE  Owed(b, exp, CoveredStrikes(b, exp), strike[s]) <= Held(b, exp, strike[s])
    BY <1>14 DEF Coverable
  <2>1. Fits(met[shorts], q, n, A, key)
    BY <1>11, <1>13, MetCovered
  <2>2. Sum(n, {r \in met[shorts] : key[r] <= key[s]}) <= Sum(q, A[s])
    BY <2>1 DEF Fits
  <2>3. s \in shorts /\ \A i \in shorts : i \in met[shorts] <=> strike[i] \in CoveredStrikes(b, exp)
    BY <1>9, <1>14, <1>15
  <2>4. Owed(b, exp, CoveredStrikes(b, exp), strike[s])
          = Sum(n, {r \in met[shorts] : key[r] <= key[s]})
    <3>1. PICK K, U : K = CoveredStrikes(b, exp) /\ U = met[shorts]
      OBVIOUS
    <3>2. U \in SUBSET shorts /\ (\A i \in shorts : i \in U <=> strike[i] \in K) /\ s \in shorts
      BY <1>15, <2>3, <3>1
    <3>3. Owed(b, exp, K, strike[s]) = Sum(n, {r \in U : key[r] <= key[s]})
      BY <1>17, <3>2
    <3> QED BY <3>1, <3>3
  <2>5. Held(b, exp, strike[s]) = Sum(q, A[s])
    BY <1>16, <2>3
  <2> QED BY <2>2, <2>4, <2>5
<1>19. ASSUME Coverable(b, exp, upTo) PROVE VerticalExempt(b)
  <2>1. PICK U : U = {r \in shorts : key[r] <= key[p]}
    OBVIOUS
  <2>2. \A r \in shorts : key[r] = strike[r] /\ strike[r] \in Int /\ strike[r] = b[r].strike
    BY <1>5, <1>6, <1>10
  <2>3. upTo = {strike[i] : i \in U}
    <3>1. U = {j \in Calls(b) \cap Short(b) : b[j].expiry = exp /\ b[j].strike <= b[p].strike}
      BY <1>3, <1>5, <2>1, <2>2
    <3>2. \A i \in U : strike[i] = b[i].strike
      BY <2>1, <2>2
    <3> QED BY <3>1, <3>2
  <2>4. Fits(U, q, n, A, key)
    <3> SUFFICES ASSUME NEW s \in U
                 PROVE  Sum(n, {r \in U : key[r] <= key[s]}) <= Sum(q, A[s])
      BY DEF Fits
    <3>1. s \in shorts /\ strike[s] \in upTo /\ U \in SUBSET shorts
          /\ \A i \in shorts : i \in U <=> strike[i] \in upTo
      BY <1>9, <2>1, <2>3
    <3>2. Owed(b, exp, upTo, strike[s]) <= Held(b, exp, strike[s])
      BY <1>19, <3>1 DEF Coverable
    <3>3. Owed(b, exp, upTo, strike[s]) = Sum(n, {r \in U : key[r] <= key[s]})
      BY <1>17, <3>1
    <3>4. Held(b, exp, strike[s]) = Sum(q, A[s])
      BY <1>16, <3>1
    <3> QED BY <3>2, <3>3, <3>4
  <2>5. PICK k \in Int : k = key[p]
    BY <1>5, <2>2
  <2>6. U \in SUBSET shorts /\ \A r \in shorts : r \in U <=> key[r] <= k
    BY <2>1, <2>5
  <2>7. U \subseteq met[shorts]
    BY <1>11, <1>13, <2>4, <2>6, MetWhenFits
  <2>8. p \in U
    BY <1>5, <2>1, <2>2
  <2>9. b[p].strike \in CoveredStrikes(b, exp)
    BY <1>5, <1>14, <2>2, <2>7, <2>8
  <2> QED BY <2>9 DEF VerticalExempt
<1> QED BY <1>18, <1>19

\* An exempt row is not shown as critical gamma.
LEMMA ExemptIsNotCritical ==
  ASSUME NEW b, NEW onSpy, VerticalExempt(b)
  PROVE  AlertState(b, onSpy) # "critical_gamma"
<1>1. PICK base : AlertState(b, onSpy) = IF base = "critical_gamma" THEN "watch" ELSE base
  BY DEF AlertState
<1> QED BY <1>1

\* The allocation of long calls to short ones is sound and, as far as the primary
\* short call goes, complete: no long contract covers two short ones, and a row
\* that could be exempt is.
THEOREM ExemptionIsRight == Spec => []ExemptIffCovered
<1>1. ASSUME BookInv, OneLegEach(legs) PROVE ExemptIffCovered
  <2>1. SUFFICES ASSUME PrimaryShort(legs) # 0
                 PROVE  ExemptIffCovered
    BY DEF ExemptIffCovered
  <2>2. PICK p, exp, upTo : /\ p = PrimaryShort(legs) /\ exp = legs[p].expiry
          /\ upTo = {legs[i].strike : i \in {j \in Calls(legs) \cap Short(legs) :
                       legs[j].expiry = exp /\ legs[j].strike <= legs[p].strike}}
    OBVIOUS
  <2>3. legs \in Seq(Leg)
    BY <1>1 DEF BookInv
  <2>4. Coverable(legs, exp, CoveredStrikes(legs, exp))
    BY <1>1, <2>1, <2>2, <2>3, ExemptionIsSound
  <2>5. Coverable(legs, exp, upTo) => VerticalExempt(legs)
    BY <1>1, <2>1, <2>2, <2>3, ExemptionIsSound
  <2>6. VerticalExempt(legs) => AlertState(legs, spy) # "critical_gamma"
    BY ExemptIsNotCritical
  <2> QED BY <2>2, <2>4, <2>5, <2>6 DEF ExemptIffCovered
<1> QED BY <1>1, BookInvariant, ContractsInvariant, PTL

================================================================================

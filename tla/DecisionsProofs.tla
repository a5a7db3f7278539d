---------------------------- MODULE DecisionsProofs ----------------------------
(***************************************************************************)
(* Theorems about the decisions that Decisions puts side by side: what     *)
(* PositionRulesProofs shows of the rules for a book, and each of the      *)
(* other decisions, for every input that its scope looks at.               *)
(***************************************************************************)
EXTENDS Decisions, PositionRulesProofs

-----------------------------------------------------------------------------
(* The rules for a book. *)

\* Every behaviour of the decisions is one of the rules.
LEMMA RulesOfDecisions == AllSpec => Spec
<1>1. AllInit => Init
  BY DEF AllInit
<1>2. [AllNext]_<<scope, given, vars>> => [Next]_vars
  BY DEF AllNext, Look
<1> QED BY <1>1, <1>2, PTL DEF AllSpec, Spec

\* So what is shown of the rules holds of the decisions: nothing calms by waiting
\* or drift, and a row is exempt if and only if it is covered.
THEOREM RulesHold == AllSpec => NothingCalms /\ []ExemptIffCovered
BY RulesOfDecisions, WaitingNeverHelps, ExemptionIsRight, PTL

-----------------------------------------------------------------------------
(* The inputs that are looked at. *)

\* What is given is an input of the scope.
GivenInv == given = Nothing \/ given \in Inputs

\* What is given is of the scope of the behaviour.
LEMMA GivenInvariant == AllSpec => []GivenInv
<1>1. AllInit => GivenInv
  BY DEF AllInit, GivenInv
<1>2. GivenInv /\ [AllNext]_<<scope, given, vars>> => GivenInv'
  <2> SUFFICES ASSUME GivenInv, [AllNext]_<<scope, given, vars>> PROVE GivenInv'
    OBVIOUS
  <2>1. scope' = scope
    BY DEF AllNext, Look
  <2>2. Inputs' = Inputs
    BY <2>1 DEF Inputs
  <2>3. given' = given \/ given' \in Inputs
    BY DEF AllNext, Look
  <2> QED BY <2>2, <2>3 DEF GivenInv
<1> QED BY <1>1, <1>2, PTL DEF AllSpec

\* What is given, scope by scope.
LEMMA GivenInputs ==
  ASSUME GivenInv
  PROVE  /\ Given("gates") => given \in GateReads
         /\ Given("selection") => given \in Situations
         /\ Given("strikes") => given \in Tables
         /\ Given("hedge") => given \in PutsHeld
         /\ Given("statistics") => given \in Pnls
         /\ Given("regime") => given \in RegimeReads
<1>1. /\ scope = "gates" => Inputs = GateReads
      /\ scope = "selection" => Inputs = Situations
      /\ scope = "strikes" => Inputs = Tables
      /\ scope = "hedge" => Inputs = PutsHeld
      /\ scope = "statistics" => Inputs = Pnls
      /\ scope = "regime" => Inputs = RegimeReads
  BY DEF Inputs
<1> QED BY <1>1 DEF GivenInv, Given

-----------------------------------------------------------------------------
(* StrategySelection. *)

\* The strategies.
Known == {"pcs", "csp", "pmcc", "iron_condor", "diagonal"}

\* The strategies of the selector, no two at one place.
LEMMA KnownStrategies ==
  /\ ToSet(S!Strategies) = Known /\ S!ToSet(S!Strategies) = Known
  /\ IsFiniteSet(Known)
  /\ \A id \in Known : S!Place(id) \in Int
  /\ \A id, other \in Known : S!Place(id) = S!Place(other) => id = other
<1>1. DOMAIN S!Strategies = 1 .. 5
  BY DEF S!Strategies
<1>2. /\ S!Strategies[1] = "pcs" /\ S!Strategies[2] = "csp" /\ S!Strategies[3] = "pmcc"
      /\ S!Strategies[4] = "iron_condor" /\ S!Strategies[5] = "diagonal"
  BY DEF S!Strategies
<1>3. ToSet(S!Strategies) = Known /\ S!ToSet(S!Strategies) = Known
  BY <1>1, <1>2 DEF ToSet, S!ToSet, Known
<1>4. \A id \in Known : \E i \in 1 .. 5 : S!Strategies[i] = id
  BY <1>2 DEF Known
<1>5. \A id \in Known : S!Place(id) \in 1 .. 5 /\ S!Strategies[S!Place(id)] = id
  BY <1>1, <1>4 DEF S!Place
<1>6. IsFiniteSet(Known)
  <2>1. \A u, v : IsFiniteSet({u, v})
    <3> SUFFICES ASSUME NEW u, NEW v PROVE IsFiniteSet({u, v})
      OBVIOUS
    <3>1. IsFiniteSet({u}) /\ IsFiniteSet({v})
      BY FS_Singleton
    <3>2. {u, v} = {u} \union {v}
      OBVIOUS
    <3> QED BY <3>1, <3>2, FS_Union
  <2>2. PICK x, y, z : x = {"pcs", "csp"} /\ y = {"pmcc", "iron_condor"}
                       /\ z = {"diagonal", "diagonal"}
    OBVIOUS
  <2>3. IsFiniteSet(x) /\ IsFiniteSet(y) /\ IsFiniteSet(z)
    BY <2>1, <2>2
  <2>4. IsFiniteSet((x \union y) \union z)
    BY <2>3, FS_Union
  <2>5. (x \union y) \union z = Known
    BY <2>2 DEF Known
  <2> QED BY <2>4, <2>5
<1> QED BY <1>3, <1>5, <1>6

\* The numbers that make up a score.
LEMMA ScoreParts ==
  ASSUME NEW s \in Situations
  PROVE  /\ s.days \in Int \/ s.days = Nothing
         /\ s.ivr \in Int /\ s.below \in {TRUE, FALSE, Nothing}
         /\ \A id \in Known : s.yield[id] \in Int /\ s.credit[id] \in Int
         /\ S!Days(s) \in Int
<1>1. PICK u, v, w : /\ u = Horizon \union {Nothing}
                     /\ v = [ToSet(S!Strategies) -> {0, 1}]
                     /\ w = {[id \in ToSet(S!Strategies) |-> IF id \in best THEN 2 ELSE 1] :
                               best \in {{}, {"csp", "diagonal"}, {"pcs"}}}
  OBVIOUS
<1>2. Situations =
        [days : u, ivr : {10, 24, 31, 41, 60}, regime : {"bullish", "neutral", "bearish"},
         below : {TRUE, FALSE, Nothing}, conc : {Nothing}, credit : v, yield : w]
  BY <1>1, Zenon DEF Situations
<1>3. /\ s.days \in u /\ s.ivr \in {10, 24, 31, 41, 60} /\ s.below \in {TRUE, FALSE, Nothing}
      /\ s.credit \in v /\ s.yield \in w
  BY <1>2
<1>4. s.days \in Int \/ s.days = Nothing
  BY <1>1, <1>3 DEF Horizon
<1>5. \A id \in Known : s.credit[id] \in Int
  BY <1>1, <1>3, KnownStrategies
<1>6. \A id \in Known : s.yield[id] \in Int
  <2>1. PICK best : s.yield = [id \in ToSet(S!Strategies) |-> IF id \in best THEN 2 ELSE 1]
    BY <1>1, <1>3
  <2> QED BY <2>1, KnownStrategies
<1>7. S!Days(s) \in Int
  BY <1>4 DEF S!Days
<1>8. s.ivr \in Int /\ s.below \in {TRUE, FALSE, Nothing}
  <2>1. \A n \in {10, 24, 31, 41, 60} : n \in Int
    OBVIOUS
  <2> QED BY <1>3, <2>1
<1> QED BY <1>4, <1>5, <1>6, <1>7, <1>8

\* The greater and the smaller of two, as the selector has them.
LEMMA SMaxMin ==
  ASSUME NEW u \in Int, NEW v \in Int
  PROVE  /\ S!Max({u, v}) = IF u >= v THEN u ELSE v
         /\ S!Min({u, v}) = IF u <= v THEN u ELSE v
<1>1. S!Max({u, v}) = Max({u, v}) /\ S!Min({u, v}) = Min({u, v})
  BY DEF S!Max, S!Min, Max, Min
<1> QED BY <1>1, MaxOfTwo, MinOfTwo

\* What the volatility and the regime give, and what near earnings take away.
Fit(s, id) ==
  (IF s.ivr >= S!IdealIvr(id) THEN 2 ELSE IF 4 * s.ivr >= 3 * S!IdealIvr(id) THEN 1 ELSE 0)
  + (IF S!Bias(id) = s.regime THEN 2 ELSE IF s.regime = "neutral" THEN 1 ELSE 0)
Penalty(s) == IF S!Days(s) <= 7 THEN 2 ELSE IF S!Days(s) <= 14 THEN 1 ELSE 0
Clip(n) == IF n < 0 THEN 0 ELSE IF n > 5 THEN 5 ELSE n

\* The score of a strategy in a regime, clipped to 0 .. 5.
LEMMA RegimeScoreIs ==
  ASSUME NEW s, NEW id
  PROVE  /\ Fit(s, id) \in Int /\ Penalty(s) \in 0 .. 2
         /\ S!RegimeScore(s, id) = Clip(Fit(s, id) - Penalty(s))
<1>1. PICK u, v : u = Fit(s, id) /\ v = Penalty(s)
  OBVIOUS
<1>2. u \in Int /\ v \in 0 .. 2
  <2>1. \A x \in {0, 1, 2}, y \in {0, 1, 2} : x + y \in Int
    OBVIOUS
  <2>2. u \in Int
    BY <1>1, <2>1, Zenon DEF Fit
  <2>3. v \in 0 .. 2
    BY <1>1 DEF Penalty
  <2> QED BY <2>2, <2>3
<1>3. S!Max({0, u - v}) = (IF 0 >= u - v THEN 0 ELSE u - v) /\ S!Max({0, u - v}) \in Int
  BY <1>2, SMaxMin
<1>4. PICK w : w = S!Max({0, u - v})
  OBVIOUS
<1>5. S!Min({5, w}) = IF 5 <= w THEN 5 ELSE w
  <2>1. 5 \in Int /\ w \in Int
    BY <1>3, <1>4
  <2> QED BY <2>1, SMaxMin
<1>6. S!RegimeScore(s, id) = S!Min({5, w})
  BY <1>1, <1>4, Zenon DEF S!RegimeScore, Fit, Penalty
<1> QED BY <1>1, <1>2, <1>3, <1>4, <1>5, <1>6 DEF Clip

\* The weekly trend takes 2 from a bullish strategy, and never below 0.
LEMMA ScoreIs ==
  ASSUME NEW s, NEW id
  PROVE  /\ S!RegimeScore(s, id) \in 0 .. 5 /\ S!Score(s, id) \in 0 .. 5
         /\ S!Score(s, id) = IF S!TrendActive(s) /\ S!Bias(id) = "bullish"
                             THEN IF S!RegimeScore(s, id) <= 2 THEN 0
                                  ELSE S!RegimeScore(s, id) - 2
                             ELSE S!RegimeScore(s, id)
<1>1. PICK u : u = S!RegimeScore(s, id)
  OBVIOUS
<1>2. u \in 0 .. 5
  BY <1>1, RegimeScoreIs DEF Clip
<1>3. S!Max({0, u - 2}) = IF 0 >= u - 2 THEN 0 ELSE u - 2
  BY <1>2, SMaxMin
<1>4. S!Score(s, id) = IF S!TrendActive(s) /\ S!Bias(id) = "bullish" THEN S!Max({0, u - 2}) ELSE u
  BY <1>1, Zenon DEF S!Score
<1> QED BY <1>1, <1>2, <1>3, <1>4

\* The ranking is a strict order: irreflexive and transitive.
LEMMA AboveIsAnOrder ==
  ASSUME NEW s \in Situations, NEW u \in Known
  PROVE  /\ ~S!Above(s, u, u)
         /\ \A v, w \in Known : S!Above(s, u, v) /\ S!Above(s, v, w) => S!Above(s, u, w)
<1>1. \A v \in Known : S!Score(s, v) \in Int /\ s.yield[v] \in Int /\ S!Place(v) \in Int
  <2> SUFFICES ASSUME NEW v \in Known
               PROVE  S!Score(s, v) \in Int /\ s.yield[v] \in Int /\ S!Place(v) \in Int
    OBVIOUS
  <2>1. S!Score(s, v) \in 0 .. 5
    BY ScoreIs
  <2>2. s.yield[v] \in Int
    BY ScoreParts
  <2>3. S!Place(v) \in Int
    BY KnownStrategies
  <2> QED BY <2>1, <2>2, <2>3
<1>2. ~S!Above(s, u, u)
  BY <1>1 DEF S!Above
<1>3. ASSUME NEW v \in Known, NEW w \in Known, S!Above(s, u, v), S!Above(s, v, w)
      PROVE  S!Above(s, u, w)
  BY <1>1, <1>3 DEF S!Above
<1> QED BY <1>2, <1>3

\* Who is above another has fewer strategies above it.
LEMMA RanksFollowAbove ==
  ASSUME NEW s \in Situations, NEW u \in Known, NEW v \in Known
  PROVE  /\ S!Rank(s, u) \in Nat
         /\ S!Above(s, u, v) => S!Rank(s, u) < S!Rank(s, v)
<1>1. PICK y, z : y = {a \in Known : S!Above(s, a, u)} /\ z = {a \in Known : S!Above(s, a, v)}
  OBVIOUS
<1>2. IsFiniteSet(Known) /\ IsFiniteSet(y) /\ IsFiniteSet(z)
  <2>1. IsFiniteSet(Known)
    BY KnownStrategies
  <2>2. y \subseteq Known /\ z \subseteq Known
    BY <1>1
  <2> QED BY <2>1, <2>2, FS_Subset
<1>3. S!Rank(s, u) = Cardinality(y) /\ S!Rank(s, v) = Cardinality(z)
  <2>1. \A x : S!Cardinality(x) = Cardinality(x)
    BY DEF S!Cardinality, Cardinality
  <2> QED BY <1>1, <2>1, KnownStrategies DEF S!Rank
<1>4. Cardinality(y) \in Nat /\ Cardinality(z) \in Nat
  BY <1>2, FS_CardinalityType
<1>5. ASSUME S!Above(s, u, v) PROVE Cardinality(y) < Cardinality(z)
  <2>1. y \subseteq z
    BY <1>1, <1>5, AboveIsAnOrder
  <2>2. u \in z /\ u \notin y
    BY <1>1, <1>5, AboveIsAnOrder
  <2>3. Cardinality(y) <= Cardinality(z) /\ Cardinality(y) # Cardinality(z)
    BY <1>2, <2>1, <2>2, FS_Subset
  <2> QED BY <1>4, <2>3
<1> QED BY <1>3, <1>4, <1>5

\* The recommendation is the best of what is eligible.
LEMMA RecommendedIsBest ==
  ASSUME NEW s \in Situations, NEW open, open = {id \in Known : S!Eligible(s, id)}
  PROVE  IF open = {} THEN S!Recommended(s) = "none"
         ELSE /\ S!Recommended(s) \in open
              /\ \A id \in open \ {S!Recommended(s)} : ~S!Above(s, id, S!Recommended(s))
<1>1. S!Recommended(s) = IF open = {} THEN "none"
        ELSE CHOOSE id \in open : \A other \in open : S!Rank(s, id) <= S!Rank(s, other)
  BY KnownStrategies DEF S!Recommended
<1>2. CASE open = {}
  BY <1>1, <1>2
<1>3. CASE open # {}
  <2>1. PICK f : f = [id \in open |-> S!Rank(s, id)]
    OBVIOUS
  <2>2. open \subseteq Known /\ \A id \in open : f[id] = S!Rank(s, id) /\ f[id] \in Int
    BY <2>1, RanksFollowAbove
  <2>3. IsFiniteSet(open)
    <3>1. IsFiniteSet(Known)
      BY KnownStrategies
    <3> QED BY <2>2, <3>1, FS_Subset
  <2>4. \E id \in open : \A other \in open : f[id] <= f[other]
    BY <1>3, <2>2, <2>3, Least
  <2>5. PICK r : r = S!Recommended(s)
    OBVIOUS
  <2>6. r \in open /\ \A other \in open : S!Rank(s, r) <= S!Rank(s, other)
    BY <1>1, <1>3, <2>2, <2>4, <2>5
  <2>7. \A id \in open : ~S!Above(s, id, r)
    <3> SUFFICES ASSUME NEW id \in open, S!Above(s, id, r) PROVE FALSE
      OBVIOUS
    <3>1. S!Rank(s, id) < S!Rank(s, r) /\ S!Rank(s, id) \in Nat /\ S!Rank(s, r) \in Nat
      BY <2>2, <2>6, RanksFollowAbove
    <3> QED BY <2>6, <3>1
  <2> QED BY <1>3, <2>5, <2>6, <2>7
<1> QED BY <1>2, <1>3

\* With the earnings nearer no strategy is scored higher or becomes eligible.
LEMMA NearerIsWorse ==
  ASSUME NEW s \in Situations, NEW d \in Horizon, d <= S!Days(s), NEW id \in Known,
         NEW near, near = [s EXCEPT !.days = d]
  PROVE  /\ S!Score(near, id) <= S!Score(s, id)
         /\ S!Eligible(near, id) => S!Eligible(s, id)
<1>1. d \in Int /\ d # Nothing
  BY NamesAssumption DEF Horizon
<1>2. /\ near.days = d /\ near.ivr = s.ivr /\ near.regime = s.regime
      /\ near.below = s.below /\ near.credit = s.credit
  <2>1. DOMAIN s = {"days", "ivr", "regime", "below", "conc", "credit", "yield"}
    BY DEF Situations
  <2> QED BY <2>1
<1>3. S!Days(near) = d /\ S!Days(s) \in Int
  <2>1. S!Days(near) = d
    BY <1>1, <1>2 DEF S!Days
  <2> QED BY <2>1, ScoreParts
<1>4. Fit(near, id) = Fit(s, id) /\ (S!TrendActive(near) <=> S!TrendActive(s))
  BY <1>2 DEF Fit, S!TrendActive
<1>5. Penalty(s) <= Penalty(near) /\ Penalty(s) \in 0 .. 2 /\ Penalty(near) \in 0 .. 2
  BY <1>1, <1>3 DEF Penalty
<1>6. S!RegimeScore(near, id) <= S!RegimeScore(s, id)
  <2>1. PICK u, v, w : u = Fit(s, id) /\ v = Penalty(s) /\ w = Penalty(near)
    OBVIOUS
  <2>2. u \in Int /\ v \in Int /\ w \in Int /\ v <= w
    BY <1>5, <2>1, RegimeScoreIs
  <2>3. Clip(u - w) <= Clip(u - v)
    BY <2>2 DEF Clip
  <2> QED BY <1>4, <2>1, <2>3, RegimeScoreIs
<1>7. S!Score(near, id) <= S!Score(s, id)
  <2>1. PICK u, v : u = S!RegimeScore(s, id) /\ v = S!RegimeScore(near, id)
    OBVIOUS
  <2>2. u \in 0 .. 5 /\ v \in 0 .. 5 /\ v <= u
    BY <1>6, <2>1, ScoreIs
  <2>3. /\ S!Score(s, id) = IF S!TrendActive(s) /\ S!Bias(id) = "bullish"
                            THEN IF u <= 2 THEN 0 ELSE u - 2 ELSE u
        /\ S!Score(near, id) = IF S!TrendActive(s) /\ S!Bias(id) = "bullish"
                               THEN IF v <= 2 THEN 0 ELSE v - 2 ELSE v
    BY <1>4, <2>1, ScoreIs
  <2> QED BY <2>2, <2>3
<1>8. S!EarningsSafe(near, id) => S!EarningsSafe(s, id)
  BY <1>1, <1>3 DEF S!EarningsSafe
<1>9. S!Eligible(near, id) => S!Eligible(s, id)
  BY <1>2, <1>4, <1>8 DEF S!Eligible, S!GateReason
<1> QED BY <1>7, <1>9

\* What is recommended is sound in every situation.
LEMMA EverySituationIsSound ==
  ASSUME NEW s \in Situations
  PROVE  S!Sound(s, 10, Horizon)
<1>1. PICK open, r : open = {id \in Known : S!Eligible(s, id)} /\ r = S!Recommended(s)
  OBVIOUS
<1>2. IF open = {} THEN r = "none"
      ELSE r \in open /\ \A id \in open \ {r} : ~S!Above(s, id, r)
  BY <1>1, RecommendedIsBest
<1>3. S!Days(s) <= 10 => r = "none"
  <2> SUFFICES ASSUME S!Days(s) <= 10 PROVE open = {}
    BY <1>2
  <2>1. S!Days(s) \in Int
    BY ScoreParts
  <2>2. \A id \in Known : ~S!EarningsSafe(s, id)
    BY <2>1 DEF S!EarningsSafe
  <2> QED BY <1>1, <2>2 DEF S!Eligible, S!GateReason
<1>4. S!TrendActive(s) => r \in {"none", "iron_condor"}
  <2>1. \A id \in open : S!TrendActive(s) => id = "iron_condor"
    BY <1>1 DEF S!Eligible, S!GateReason, S!Bias
  <2> QED BY <1>2, <2>1
<1>5. \A d \in Horizon, id \in Known :
        d <= S!Days(s) =>
          /\ S!Score([s EXCEPT !.days = d], id) <= S!Score(s, id)
          /\ S!Eligible([s EXCEPT !.days = d], id) => S!Eligible(s, id)
  BY NearerIsWorse
<1>6. S!ToSet(S!Strategies) = Known
  BY KnownStrategies
<1> QED BY <1>1, <1>2, <1>3, <1>4, <1>5, <1>6, Zenon DEF S!Sound

\* The selector recommends the best of what is eligible, nothing near earnings,
\* nothing bullish under the weekly average, and is never bolder when the
\* earnings are nearer.
THEOREM SelectorIsSound == AllSpec => []SelectionSound
<1>1. GivenInv => SelectionSound
  BY GivenInputs, EverySituationIsSound DEF SelectionSound
<1> QED BY <1>1, GivenInvariant, PTL

-----------------------------------------------------------------------------
(* OptionMath: the searches. *)

\* One round of a bisection.
Halved(short, w) ==
  IF (w[1] + w[2]) \div 2 \in short THEN <<(w[1] + w[2]) \div 2, w[2]>>
  ELSE <<w[1], (w[1] + w[2]) \div 2>>

\* The recursion that the rounds name.
IsHalving(g, low, high, short) ==
  g = [u \in SUBSET (1 .. 5) |->
         IF u = {} THEN <<low, high>> ELSE Halved(short, g[u \ {M!Max(u)}])]

\* The bisection is what its recursion over the rounds gives.
LEMMA BisectByRecursion ==
  ASSUME NEW low, NEW high, NEW short, NEW w,
         w = (CHOOSE g : IsHalving(g, low, high, short))[1 .. 5]
  PROVE  M!Bisect(low, high, short) = (w[1] + w[2]) \div 2
<1>1. DOMAIN [i \in 1 .. 5 |-> i] = 1 .. 5
  OBVIOUS
<1> QED BY <1>1, Zenon DEF M!Bisect, M!FoldLeft, M!MapThenFoldSet, IsHalving, Halved

\* Five rounds, one after the other, find a strike.
AreRounds(g, low, high, short, found) ==
  /\ g[0] = <<low, high>>
  /\ \A i \in 1 .. 5 : g[i] = Halved(short, g[i - 1])
  /\ found = (g[5][1] + g[5][2]) \div 2

\* The rounds that the bisection takes.
LEMMA FiveRounds ==
  ASSUME NEW low \in Int, NEW high \in Int, NEW short
  PROVE  \E g : AreRounds(g, low, high, short, M!Bisect(low, high, short))
<1>1. PICK A, Z : A = Int \X Int /\ Z = 1 .. 5
  OBVIOUS
<1>2. PICK pick, step : /\ pick = [u \in SUBSET Z |-> M!Max(u)]
                        /\ step = [w \in Z \X A |-> Halved(short, w[2])]
  OBVIOUS
<1>3. \A u \in SUBSET Z : /\ IsFiniteSet(u) /\ u \subseteq Int
                          /\ u # {} => pick[u] \in u /\ pick[u] = Max(u)
  <2> SUFFICES ASSUME NEW u \in SUBSET Z
               PROVE  /\ IsFiniteSet(u) /\ u \subseteq Int
                      /\ u # {} => pick[u] \in u /\ pick[u] = Max(u)
    OBVIOUS
  <2>1. IsFiniteSet(1 .. 5)
    <3>1. 1 \in Int /\ 5 \in Int
      OBVIOUS
    <3> QED BY <3>1, FS_Interval
  <2>2. IsFiniteSet(u) /\ u \subseteq Int
    <3>1. u \subseteq 1 .. 5
      BY <1>1
    <3>2. IsFiniteSet(u)
      BY <2>1, <3>1, FS_Subset
    <3>3. u \subseteq Int
      BY <3>1
    <3> QED BY <3>2, <3>3
  <2>3. u # {} => Max(u) \in u
    BY <2>2, MaxIsMember
  <2>4. M!Max(u) = Max(u)
    BY DEF M!Max, Max
  <2> QED BY <1>2, <2>2, <2>3, <2>4
<1>4. \A w \in A : Halved(short, w) \in A
  BY <1>1 DEF Halved
<1>5. step \in [Z \X A -> A]
  BY <1>2, <1>4
<1>6. PICK f \in [SUBSET Z -> A] : IsFold(f, Z, <<low, high>>, step, pick)
  <2>1. <<low, high>> \in A /\ IsFiniteSet(Z)
    BY <1>1, <1>3
  <2> QED BY <1>3, <1>5, <2>1, FoldExists
<1>7. \A u \in SUBSET Z : f[u] = IF u = {} THEN <<low, high>>
                                 ELSE Halved(short, f[u \ {M!Max(u)}])
  <2> SUFFICES ASSUME NEW u \in SUBSET Z, u # {}
               PROVE  f[u] = Halved(short, f[u \ {M!Max(u)}])
    BY <1>6 DEF IsFold
  <2>1. pick[u] = M!Max(u) /\ pick[u] \in Z /\ f[u \ {pick[u]}] \in A
    BY <1>2, <1>3, <1>6
  <2>2. f[u] = step[<<pick[u], f[u \ {pick[u]}]>>]
    BY <1>6 DEF IsFold
  <2>3. step[<<pick[u], f[u \ {pick[u]}]>>] = Halved(short, f[u \ {pick[u]}])
    BY <1>2, <2>1
  <2> QED BY <2>1, <2>2, <2>3
<1>8. IsHalving(f, low, high, short)
  BY <1>1, <1>6, <1>7 DEF IsHalving
<1>9. PICK h : h = CHOOSE g : IsHalving(g, low, high, short)
  OBVIOUS
<1>10. IsHalving(h, low, high, short)
  BY <1>8, <1>9
<1>11. PICK g : g = [i \in 0 .. 5 |-> h[1 .. i]]
  OBVIOUS
<1>12. g[0] = <<low, high>>
  <2>1. 1 .. 0 = {}
    OBVIOUS
  <2>2. h[{}] = <<low, high>>
    BY <1>10 DEF IsHalving
  <2> QED BY <1>11, <2>1, <2>2
<1>13. \A i \in 1 .. 5 : g[i] = Halved(short, g[i - 1])
  <2> SUFFICES ASSUME NEW i \in 1 .. 5 PROVE g[i] = Halved(short, g[i - 1])
    OBVIOUS
  <2>1. 1 .. i \in SUBSET (1 .. 5) /\ 1 .. i # {} /\ (1 .. i) \ {i} = 1 .. i - 1
    OBVIOUS
  <2>2. M!Max(1 .. i) = i
    <3>1. i \in 1 .. i /\ i \in Int /\ \A y \in 1 .. i : y \in Int /\ y <= i
      OBVIOUS
    <3>2. Max(1 .. i) = i
      BY <3>1, MaxOf
    <3> QED BY <3>2 DEF M!Max, Max
  <2>3. h[1 .. i] = Halved(short, h[1 .. i - 1])
    BY <1>10, <2>1, <2>2 DEF IsHalving
  <2>4. g[i] = h[1 .. i] /\ g[i - 1] = h[1 .. i - 1]
    BY <1>11
  <2> QED BY <2>3, <2>4
<1>14. M!Bisect(low, high, short) = (g[5][1] + g[5][2]) \div 2
  <2>1. PICK w : w = h[1 .. 5]
    OBVIOUS
  <2>2. M!Bisect(low, high, short) = (w[1] + w[2]) \div 2
    BY <1>9, <2>1, BisectByRecursion
  <2>3. g[5] = w
    BY <1>11, <2>1
  <2> QED BY <2>2, <2>3
<1> QED BY <1>12, <1>13, <1>14 DEF AreRounds

\* A strike where the search goes past short, or a bound.
Crossing(k, low, high, short) ==
  /\ k \in low .. high - 1
  /\ k = low \/ k \in short
  /\ k + 1 = high \/ k + 1 \notin short

\* What a round keeps of its two ends, which are at most width apart.
Bracket(w, low, high, short, width) ==
  /\ w \in Int \X Int
  /\ low <= w[1] /\ w[1] <= w[2] /\ w[2] <= high /\ w[2] - w[1] <= width
  /\ w[1] = low \/ w[1] \in short
  /\ w[1] < w[2] => w[2] = high \/ w[2] \notin short
  /\ w[1] = w[2] => Crossing(w[1], low, high, short)

\* A round halves the bracket and keeps the crossing in it.
LEMMA RoundKeepsBracket ==
  ASSUME NEW low \in Int, NEW high \in Int, NEW short, NEW width \in Nat, NEW w,
         Bracket(w, low, high, short, width),
         NEW half \in Nat, width <= 2 * half, half >= 1
  PROVE  Bracket(Halved(short, w), low, high, short, half)
<1>1. PICK lo, hi, mid : lo = w[1] /\ hi = w[2] /\ mid = (lo + hi) \div 2
  OBVIOUS
<1>2. w = <<lo, hi>> /\ lo \in Int /\ hi \in Int
  BY <1>1 DEF Bracket
<1>3. /\ low <= lo /\ lo <= hi /\ hi <= high /\ hi - lo <= width
      /\ lo = low \/ lo \in short
      /\ lo < hi => hi = high \/ hi \notin short
      /\ lo = hi => Crossing(lo, low, high, short)
  BY <1>1 DEF Bracket
<1>4. /\ mid \in Int /\ lo <= mid /\ mid <= hi
      /\ lo < hi => mid < hi
      /\ lo + hi <= 2 * mid + 1 /\ 2 * mid <= lo + hi
  BY <1>1, <1>2, <1>3
<1>5. CASE mid \in short
  <2>1. Halved(short, w) = <<mid, hi>>
    BY <1>1, <1>5 DEF Halved
  <2>2. hi - mid <= half
    BY <1>2, <1>3, <1>4
  <2>3. mid = hi => Crossing(mid, low, high, short)
    BY <1>2, <1>3, <1>4
  <2> QED BY <1>2, <1>3, <1>4, <1>5, <2>1, <2>2, <2>3 DEF Bracket
<1>6. CASE mid \notin short
  <2>1. Halved(short, w) = <<lo, mid>>
    BY <1>1, <1>6 DEF Halved
  <2>2. mid - lo <= half
    BY <1>2, <1>3, <1>4
  <2>3. lo = mid => Crossing(lo, low, high, short)
    <3>1. CASE lo = hi
      BY <1>3, <3>1
    <3>2. CASE lo # hi
      <4> SUFFICES ASSUME lo = mid PROVE Crossing(lo, low, high, short)
        OBVIOUS
      <4>1. hi = lo + 1
        BY <1>2, <1>3, <1>4, <3>2
      <4>2. lo = low
        BY <1>3, <1>6
      <4> QED BY <1>2, <1>3, <4>1, <4>2 DEF Crossing
    <3> QED BY <3>1, <3>2
  <2> QED BY <1>2, <1>3, <1>4, <1>6, <2>1, <2>2, <2>3 DEF Bracket
<1> QED BY <1>5, <1>6

\* So five rounds between bounds no more than 32 apart find a crossing.
LEMMA BisectFindsCrossing ==
  ASSUME NEW low \in Int, NEW high \in Int, NEW short, low < high, high - low <= 32
  PROVE  Crossing(M!Bisect(low, high, short), low, high, short)
<1>0. PICK g : AreRounds(g, low, high, short, M!Bisect(low, high, short))
  BY FiveRounds
<1>1. /\ g[0] = <<low, high>>
      /\ \A i \in 1 .. 5 : g[i] = Halved(short, g[i - 1])
      /\ M!Bisect(low, high, short) = (g[5][1] + g[5][2]) \div 2
  BY <1>0 DEF AreRounds
<1>2. Bracket(g[0], low, high, short, 32)
  BY <1>1 DEF Bracket
<1>3. /\ g[1] = Halved(short, g[0]) /\ g[2] = Halved(short, g[1]) /\ g[3] = Halved(short, g[2])
      /\ g[4] = Halved(short, g[3]) /\ g[5] = Halved(short, g[4])
  BY <1>1
<1>4. Bracket(g[1], low, high, short, 16)
  BY <1>2, <1>3, RoundKeepsBracket
<1>5. Bracket(g[2], low, high, short, 8)
  BY <1>3, <1>4, RoundKeepsBracket
<1>6. Bracket(g[3], low, high, short, 4)
  BY <1>3, <1>5, RoundKeepsBracket
<1>7. Bracket(g[4], low, high, short, 2)
  BY <1>3, <1>6, RoundKeepsBracket
<1>8. Bracket(g[5], low, high, short, 1)
  BY <1>3, <1>7, RoundKeepsBracket
<1>9. PICK lo, hi : lo = g[5][1] /\ hi = g[5][2]
  OBVIOUS
<1>10. /\ lo \in Int /\ hi \in Int /\ low <= lo /\ lo <= hi /\ hi <= high /\ hi - lo <= 1
       /\ lo = low \/ lo \in short
       /\ lo < hi => hi = high \/ hi \notin short
       /\ lo = hi => Crossing(lo, low, high, short)
  BY <1>8, <1>9 DEF Bracket
<1>11. (lo + hi) \div 2 = lo
  BY <1>10
<1>12. Crossing(lo, low, high, short)
  BY <1>10 DEF Crossing
<1> QED BY <1>1, <1>9, <1>11, <1>12

\* The strike of a strategy is rounded by at most a dollar or two.
LEMMA RoundedIsNear ==
  ASSUME NEW k \in Int
  PROVE  M!Abs(M!Rounded(k, 3) - k) <= 3 \div 2
<1>1. PICK j : j = (k + 1) \div 3
  OBVIOUS
<1>2. j \in Int /\ 3 * j <= k + 1 /\ k + 1 <= 3 * j + 2
  BY <1>1
<1>3. 3 \div 2 = 1
  OBVIOUS
<1>4. M!Rounded(k, 3) = 3 * j
  BY <1>1, <1>3 DEF M!Rounded
<1>5. M!Abs(3 * j - k) <= 1
  BY <1>2 DEF M!Abs
<1> QED BY <1>3, <1>4, <1>5

\* The searches find a strike that meets the target, whatever the table.
LEMMA SearchesMeet ==
  ASSUME NEW call, NEW target
  PROVE  M!FoundStrikesMeet(call, Spot, target)
<1>1. Spot \div 2 = 4 /\ 2 * Spot = 16 /\ Spot = 8
  BY DEF Spot
<1>2. \A k, low, high, right :
        Crossing(k, low, high, M!TooLow(call, target, right))
        => M!Meets(call, right, k, target, low, high)
  BY DEF Crossing, M!Meets
<1>3. \A right \in {"C", "P"} :
        \E k \in 4 .. 16 :
          /\ M!Meets(call, right, k, target, 4, 16)
          /\ M!Abs(M!TargetStrike(call, Spot, target, right) - k) <= 3 \div 2
  <2> SUFFICES ASSUME NEW right \in {"C", "P"}
               PROVE  \E k \in 4 .. 16 :
                        /\ M!Meets(call, right, k, target, 4, 16)
                        /\ M!Abs(M!TargetStrike(call, Spot, target, right) - k) <= 3 \div 2
    OBVIOUS
  <2>1. PICK short, k : /\ short = M!TooLow(call, target, right)
                        /\ k = M!Bisect(4, 16, short)
    OBVIOUS
  <2>2. Crossing(k, 4, 16, short)
    <3>1. 4 \in Int /\ 16 \in Int /\ 4 < 16 /\ 16 - 4 <= 32
      OBVIOUS
    <3> QED BY <2>1, <3>1, BisectFindsCrossing
  <2>3. k \in 4 .. 16 /\ k \in Int
    BY <2>2 DEF Crossing
  <2>4. M!TargetStrike(call, Spot, target, right) = M!Rounded(k, 3)
    BY <1>1, <2>1 DEF M!TargetStrike
  <2>5. M!Abs(M!Rounded(k, 3) - k) <= 3 \div 2
    BY <2>3, RoundedIsNear
  <2>6. M!Meets(call, right, k, target, 4, 16)
    BY <1>2, <2>1, <2>2
  <2> QED BY <2>3, <2>4, <2>5, <2>6
<1>4. M!Meets(call, "P", M!CollarPut(call, Spot, target), target, 4, 8)
  <2>1. PICK short, k : /\ short = M!TooLow(call, target, "P")
                        /\ k = M!Bisect(4, 8, short)
    OBVIOUS
  <2>2. Crossing(k, 4, 8, short)
    <3>1. 4 \in Int /\ 8 \in Int /\ 4 < 8 /\ 8 - 4 <= 32
      OBVIOUS
    <3> QED BY <2>1, <3>1, BisectFindsCrossing
  <2>3. M!CollarPut(call, Spot, target) = k
    BY <1>1, <2>1 DEF M!CollarPut
  <2> QED BY <1>2, <2>1, <2>2, <2>3
<1> QED BY <1>1, <1>3, <1>4 DEF M!FoundStrikesMeet

\* The selector and the collar find the strike at which the delta crosses their
\* target, whatever the table of the deltas.
THEOREM SearchesFindTheirStrike == AllSpec => []StrikesMeetTheirDelta
<1>1. GivenInv => StrikesMeetTheirDelta
  BY SearchesMeet DEF StrikesMeetTheirDelta
<1> QED BY <1>1, GivenInvariant, PTL

-----------------------------------------------------------------------------
(* PreTradeGates. *)

\* What the files say, field by field.
LEMMA GateFields ==
  ASSUME NEW m \in GateReads
  PROVE  /\ m.cached = Nothing \/ \E pct \in Int : m.cached = [t \in {t1} |-> pct]
         /\ m.netLiq \in Nat
         /\ m.vix = Nothing \/ m.vix \in Int
         /\ m.dash = << >> \/ m.dash = [vix_high |-> 29]
         /\ m.legs \in LegBooks
         /\ \A t \in {t1, t2} : m.calendar[t] \in Int \/ m.calendar[t] = Nothing
<1>1. PICK date \in EarningsDays, excluded \in Exclusions, held \in LegBooks,
           share \in Concentrations, vix \in {Nothing, 29, 30}, dash \in Dashboards,
           macro \in {Nothing, "clear", "defer"} :
        m = GateRead(date, excluded, held, share, vix, dash, macro)
  BY DEF GateReads
<1>2. /\ m.calendar = [t \in {t1, t2} |-> IF t = t1 THEN date ELSE Nothing]
      /\ m.legs = held /\ m.cached = share[1] /\ m.netLiq = share[2]
      /\ m.vix = vix /\ m.dash = dash
  BY <1>1 DEF GateRead
<1>3. /\ share[1] = Nothing \/ \E pct \in Int : share[1] = [t \in {t1} |-> pct]
      /\ share[2] \in Nat
  <2>1. CASE share \in {<<[t \in {t1} |-> pct], 0>> : pct \in {19, 20, 24, 25}}
    <3>1. PICK pct \in {19, 20, 24, 25} : share = <<[t \in {t1} |-> pct], 0>>
      BY <2>1
    <3>2. pct \in Int
      OBVIOUS
    <3> QED BY <3>1, <3>2
  <2>2. CASE share \in {<<Nothing, netLiq>> : netLiq \in {0, 10000}}
    BY <2>2
  <2> QED BY <2>1, <2>2 DEF Concentrations
<1>5. vix = Nothing \/ vix \in Int
  OBVIOUS
<1>6. \A t \in {t1, t2} : m.calendar[t] \in Int \/ m.calendar[t] = Nothing
  <2>1. date = Nothing \/ date \in Int
    BY DEF EarningsDays
  <2> QED BY <1>2, <2>1
<1> QED BY <1>2, <1>3, <1>5, <1>6 DEF Dashboards

\* The sum of a gate is one of Sum.
LEMMA GateSum ==
  \A f, Z : P!MapThenSumSet(LAMBDA i : f[i], Z) = Sum(f, Z)
BY DEF Sum, MapThenSumSet, MapThenFoldSet, P!MapThenSumSet, P!MapThenFoldSet

\* The book of the gates has at most one leg, whose numbers are numbers.
LEMMA GateLegs ==
  ASSUME NEW m \in GateReads, NEW t
  PROVE  /\ IsFiniteSet(P!LegsOf(m, t))
         /\ \A i \in P!LegsOf(m, t) : m.legs[i].mv \in Int /\ m.legs[i].pct \in Int
<1>1. PICK b : b = m.legs
  OBVIOUS
<1>2. b \in LegBooks
  BY <1>1, GateFields
<1>3. \/ b = << >>
      \/ \E s \in {"PMCC", "CC"}, d \in {2, 3}, mv \in {199, 200} :
           b = <<[ticker |-> t1, strategy |-> s, dte |-> d, mv |-> mv, pct |-> 20]>>
  BY <1>2 DEF LegBooks
<1>4. DOMAIN b \subseteq {1} /\ \A i \in DOMAIN b : b[i].mv \in Int /\ b[i].pct \in Int
  <2>1. CASE b = << >>
    BY <2>1
  <2>2. CASE b # << >>
    <3>1. PICK s \in {"PMCC", "CC"}, d \in {2, 3}, mv \in {199, 200} :
            b = <<[ticker |-> t1, strategy |-> s, dte |-> d, mv |-> mv, pct |-> 20]>>
      BY <1>3, <2>2
    <3>2. DOMAIN b = {1} /\ b[1].mv = mv /\ b[1].pct = 20
      BY <3>1
    <3> QED BY <3>2
  <2> QED BY <2>1, <2>2
<1>5. P!LegsOf(m, t) \subseteq {1}
  BY <1>1, <1>4 DEF P!LegsOf
<1>6. IsFiniteSet({1})
  BY FS_Singleton
<1>7. IsFiniteSet(P!LegsOf(m, t))
  BY <1>5, <1>6, FS_Subset
<1> QED BY <1>1, <1>4, <1>7 DEF P!LegsOf

\* The numbers the gates compare are numbers.
LEMMA GateNumbers ==
  ASSUME NEW m \in GateReads, NEW t \in {t1, t2}
  PROVE  /\ P!Concentration(m, t) \in Int
         /\ P!Limit(m, "concentration_limit_pct") \in Int
         /\ P!Limit(m, "vix_high") \in Int
         /\ P!Vix(m) \in Int
<1>1. P!Limit(m, "concentration_limit_pct") \in Int /\ P!Limit(m, "vix_high") \in Int
  <2>1. PICK dash : dash = m.dash
    OBVIOUS
  <2>2. dash = << >> \/ dash = [vix_high |-> 29]
    BY <2>1, GateFields
  <2>3. /\ GateDefault["concentration_limit_pct"] \in Int /\ GateDefault["vix_high"] \in Int
    BY DEF GateDefault
  <2>4. \A k \in DOMAIN dash : dash[k] \in Int
    <3>1. CASE dash = << >>
      BY <3>1
    <3>2. CASE dash = [vix_high |-> 29]
      BY <3>2
    <3> QED BY <2>2, <3>1, <3>2
  <2> QED BY <2>1, <2>3, <2>4 DEF P!Limit
<1>2. P!Vix(m) \in Int
  <2>1. PICK v : v = m.vix
    OBVIOUS
  <2>2. v = Nothing \/ v \in Int
    BY <2>1, GateFields
  <2> QED BY <2>1, <2>2 DEF P!Vix
<1>3. PICK x, y, Z : /\ Z = P!LegsOf(m, t)
                     /\ x = [i \in Z |-> m.legs[i].mv] /\ y = [i \in Z |-> m.legs[i].pct]
  OBVIOUS
<1>4. Sum(x, Z) \in Int /\ Sum(y, Z) \in Int
  <2>1. \A i \in Z : x[i] \in Int /\ y[i] \in Int
    BY <1>3, GateLegs
  <2>2. IsFiniteSet(Z)
    BY <1>3, GateLegs
  <2> QED BY <2>1, <2>2, SumType
<1>5. P!MapThenSumSet(LAMBDA i : m.legs[i].mv, Z) = Sum(x, Z)
  <2> DEFINE Adds(g) ==
        g = [s \in SUBSET Z |->
               IF s = {} THEN 0
               ELSE m.legs[CHOOSE z \in s : TRUE].mv + g[s \ {CHOOSE z \in s : TRUE}]]
  <2>1. P!MapThenSumSet(LAMBDA i : m.legs[i].mv, Z) = (CHOOSE g : Adds(g))[Z]
    BY DEF P!MapThenSumSet, P!MapThenFoldSet
  <2>2. \A g : Adds(g) <=> IsSum(g, x, Z)
    <3>1. \A s \in SUBSET Z : s # {} => x[CHOOSE z \in s : TRUE] = m.legs[CHOOSE z \in s : TRUE].mv
      BY <1>3
    <3> QED BY <3>1 DEF IsSum
  <2> HIDE DEF Adds
  <2> QED BY <2>1, <2>2, SumByRecursion
<1>6. P!MapThenSumSet(LAMBDA i : m.legs[i].pct, Z) = Sum(y, Z)
  <2> DEFINE Adds(g) ==
        g = [s \in SUBSET Z |->
               IF s = {} THEN 0
               ELSE m.legs[CHOOSE z \in s : TRUE].pct + g[s \ {CHOOSE z \in s : TRUE}]]
  <2>1. P!MapThenSumSet(LAMBDA i : m.legs[i].pct, Z) = (CHOOSE g : Adds(g))[Z]
    BY DEF P!MapThenSumSet, P!MapThenFoldSet
  <2>2. \A g : Adds(g) <=> IsSum(g, y, Z)
    <3>1. \A s \in SUBSET Z : s # {} => y[CHOOSE z \in s : TRUE] = m.legs[CHOOSE z \in s : TRUE].pct
      BY <1>3
    <3> QED BY <3>1 DEF IsSum
  <2> HIDE DEF Adds
  <2> QED BY <2>1, <2>2, SumByRecursion
<1>7. P!Concentration(m, t) \in Int
  <2>1. CASE m.cached # Nothing
    <3>1. PICK pct \in Int : m.cached = [u \in {t1} |-> pct]
      BY <2>1, GateFields
    <3> QED BY <2>1, <3>1 DEF P!Concentration
  <2>2. CASE m.cached = Nothing /\ m.netLiq = 0
    BY <1>3, <1>4, <1>6, <2>2 DEF P!Concentration
  <2>3. CASE m.cached = Nothing /\ m.netLiq # 0
    <3>1. PICK a, w : a = Sum(x, Z) /\ w = m.netLiq
      OBVIOUS
    <3>2. a \in Int /\ w \in Nat /\ w > 0
      <4>1. m.netLiq \in Nat
        BY GateFields
      <4> QED BY <1>4, <2>3, <3>1, <4>1
    <3> QED BY <1>3, <1>5, <2>3, <3>1, <3>2 DEF P!Concentration, P!Tenths
  <2> QED BY <2>1, <2>2, <2>3
<1> QED BY <1>1, <1>2, <1>7

\* The three copies of the rule for an entry answer alike.
LEMMA GatesAgree ==
  ASSUME NEW m \in GateReads, NEW t \in {t1, t2}
  PROVE  P!CopiesAgree(m, t)
<1>1. PICK e, c, v, l1, l2, leap :
        /\ e = P!EarningsState(P!DaysToEarnings(m, t)) /\ c = P!Concentration(m, t)
        /\ v = P!Vix(m) /\ l1 = P!Limit(m, "concentration_limit_pct")
        /\ l2 = P!Limit(m, "vix_high")
        /\ leap = (P!HasLeap(m, t)
                   /\ P!Near(m, t, P!Limit(m, "leap_earnings_blackout_days")))
  OBVIOUS
<1>2. c \in Int /\ v \in Int /\ l1 \in Int /\ l2 \in Int
  BY <1>1, GateNumbers
<1>3. (~(c < l1) <=> c >= l1) /\ (~(v < l2) <=> v >= l2)
  BY <1>2
<1>4. \A g : g \in P!HardFailures(m, t) <=>
        \/ g = "excluded" /\ t \in m.excluded
        \/ g = "earnings_blackout" /\ e = "blackout"
        \/ g = "concentration" /\ ~(c < l1)
        \/ g = "vix" /\ ~(v < l2)
        \/ g = "leap_blackout" /\ leap
  BY <1>1 DEF P!HardFailures
<1>5. \A g : g \in P!RowFailures(m, t) <=>
        \/ g = "excluded" /\ t \in m.excluded
        \/ g = "earnings_blackout" /\ e = "blackout"
        \/ g = "concentration" /\ c >= l1
        \/ g = "vix" /\ v >= l2
        \/ g = "leap_blackout" /\ leap
  BY <1>1 DEF P!RowFailures
<1>6. P!HardFailures(m, t) = P!RowFailures(m, t)
  BY <1>3, <1>4, <1>5, Zenon
<1>7. P!CanTrade(m, t) <=> P!HardFailures(m, t) = {}
  <2>1. P!CanTrade(m, t) <=> /\ t \notin m.excluded /\ e # "blackout" /\ c < l1 /\ v < l2
                             /\ ~leap
    BY <1>1, Zenon DEF P!CanTrade
  <2>2. P!HardFailures(m, t) = {} <=> \A g : g \notin P!HardFailures(m, t)
    OBVIOUS
  <2> QED BY <1>4, <2>1, <2>2
<1>8. "earnings_unverified" \notin P!CautionFlags(m, t)
  <2>1. DOMAIN P!Advisories(m, t) =
          {"macro_defer", "vix_term", "ex_div", "vrp", "concentration", "trend"}
    BY DEF P!Advisories
  <2> QED BY <2>1 DEF P!CautionFlags
<1>9. e = "unverified" <=> P!DaysToEarnings(m, t) = Nothing
  BY <1>1 DEF P!EarningsState
<1>10. P!RowCaution(m, t) = P!CautionFlags(m, t)
         \union {f \in {"earnings_unverified"} : P!DaysToEarnings(m, t) = Nothing}
  BY <1>1, <1>9 DEF P!RowCaution
<1>11. P!RowCaution(m, t) \ P!CautionFlags(m, t)
       = {f \in {"earnings_unverified"} : P!DaysToEarnings(m, t) = Nothing}
  BY <1>8, <1>10
<1>12. P!CautionFlags(m, t) \subseteq P!RowCaution(m, t)
  BY <1>10
<1> QED BY <1>6, <1>7, <1>11, <1>12, Zenon DEF P!CopiesAgree

-----------------------------------------------------------------------------
(* TradeStats. *)

\* The sums and the counts of the statistics are those of this module.
LEMMA StatisticsSum ==
  \A f, Z : T!Total(f, Z) = Sum(f, Z) /\ T!Cardinality(Z) = Cardinality(Z)
<1>1. \A f, Z : T!Total(f, Z) = Sum(f, Z)
  BY DEF T!Total, Sum, MapThenSumSet, MapThenFoldSet, T!MapThenSumSet, T!MapThenFoldSet
<1>2. \A Z : T!Cardinality(Z) = Cardinality(Z)
  BY DEF T!Cardinality, Cardinality
<1> QED BY <1>1, <1>2

\* A change of a leg of up to two contracts is read the same from the fill and
\* from the snapshots.
LEMMA FillsAndDiffs ==
  ASSUME NEW before \in -2 .. 2, NEW after \in -2 .. 2
  PROVE  T!FillsMatchDiffs(before, after)
<1>1. PICK signed : signed = after - before
  OBVIOUS
<1>2. before \in Int /\ after \in Int /\ after - signed = before
  BY <1>1
<1>3. before * after < 0 <=> before # 0 /\ after # 0 /\ (after > 0) # (before > 0)
  <2>1. before \in {-2, -1, 0, 1, 2} /\ after \in {-2, -1, 0, 1, 2}
    OBVIOUS
  <2>2. CASE before = -2
    BY <2>1, <2>2
  <2>3. CASE before = -1
    BY <2>1, <2>3
  <2>4. CASE before = 0
    BY <2>1, <2>4
  <2>5. CASE before = 1
    BY <2>1, <2>5
  <2>6. CASE before = 2
    BY <2>1, <2>6
  <2> QED BY <2>1, <2>2, <2>3, <2>4, <2>5, <2>6
<1>4. PICK kind, b, a : /\ kind = T!ClassifyFill(after - before, after)
                        /\ b = T!Size(before) /\ a = T!Size(after)
  OBVIOUS
<1>5. /\ b = IF before < 0 THEN -before ELSE before
      /\ a = IF after < 0 THEN -after ELSE after
  BY <1>4 DEF T!Size
<1>6. kind = IF before = 0 /\ after # 0 THEN "OPEN"
             ELSE IF after = 0 /\ before # 0 THEN "CLOSE"
             ELSE IF before # 0 /\ after # 0 /\ (after > 0) # (before > 0) THEN "REVERSE"
             ELSE IF a > b THEN "OPEN" ELSE IF a < b THEN "CLOSE" ELSE "FLAT"
  BY <1>1, <1>2, <1>4 DEF T!ClassifyFill
<1>7. CASE before = 0 /\ after # 0
  <2>1. kind = "OPEN" /\ a > b
    BY <1>2, <1>5, <1>6, <1>7
  <2> QED BY <1>2, <1>3, <1>4, <1>5, <1>7, <2>1 DEF T!FillsMatchDiffs, T!IsOpened, T!IsClosed
<1>8. CASE after = 0 /\ before # 0
  <2>1. kind = "CLOSE" /\ a < b
    BY <1>2, <1>5, <1>6, <1>8
  <2> QED BY <1>2, <1>3, <1>4, <1>5, <1>8, <2>1 DEF T!FillsMatchDiffs, T!IsOpened, T!IsClosed
<1>9. CASE before # 0 /\ after # 0 /\ (after > 0) # (before > 0)
  <2>1. kind = "REVERSE"
    BY <1>6, <1>9
  <2> QED BY <1>3, <1>4, <1>9, <2>1 DEF T!FillsMatchDiffs
<1>10. CASE before # 0 /\ after # 0 /\ (after > 0) = (before > 0)
  <2>1. ~(before * after < 0)
    BY <1>3, <1>10
  <2>2. before # after => a > b \/ a < b
    BY <1>2, <1>5, <1>10
  <2>3. kind = IF a > b THEN "OPEN" ELSE IF a < b THEN "CLOSE" ELSE "FLAT"
    BY <1>2, <1>5, <1>6, <1>10
  <2>4. /\ a > b => kind = "OPEN" /\ ~(a < b)
        /\ a < b => kind = "CLOSE" /\ ~(a > b)
    BY <1>2, <1>5, <2>3
  <2> QED BY <1>4, <1>10, <2>1, <2>2, <2>4 DEF T!FillsMatchDiffs, T!IsOpened, T!IsClosed
<1>11. before = 0 /\ after = 0 => T!FillsMatchDiffs(before, after)
  BY DEF T!FillsMatchDiffs
<1> QED BY <1>7, <1>8, <1>9, <1>10, <1>11

\* What is printed of numbers: the counts add up with those of nothing, and what
\* was won and lost adds up to the total.
LEMMA FiguresOf ==
  ASSUME NEW Z, IsFiniteSet(Z), NEW p \in [Z -> Int]
  PROVE  /\ T!Figures(p) = [closed |-> Cardinality(Z), wins |-> Cardinality(T!Won(p)),
                            losses |-> Cardinality(T!Lost(p)), total |-> Sum(p, Z),
                            grossWin |-> Sum(p, T!Won(p)), grossLoss |-> - Sum(p, T!Lost(p))]
         /\ T!Won(p) \subseteq Z /\ T!Lost(p) \subseteq Z
         /\ Sum(p, Z) = Sum(p, T!Won(p)) + Sum(p, T!Lost(p))
<1>1. PICK won, lost, flat : /\ won = T!Won(p) /\ lost = T!Lost(p)
                             /\ flat = {i \in Z : p[i] = 0}
  OBVIOUS
<1>2. DOMAIN p = Z
  OBVIOUS
<1>3. /\ won = {i \in Z : p[i] > 0} /\ lost = {i \in Z : p[i] < 0}
  BY <1>1, <1>2 DEF T!Won, T!Lost
<1>4. T!Figures(p) = [closed |-> Cardinality(Z), wins |-> Cardinality(won),
                      losses |-> Cardinality(lost), total |-> Sum(p, Z),
                      grossWin |-> Sum(p, won), grossLoss |-> - Sum(p, lost)]
  BY <1>1, <1>2, StatisticsSum DEF T!Figures
<1>5. /\ IsFiniteSet(won) /\ IsFiniteSet(lost) /\ IsFiniteSet(flat)
      /\ won \subseteq Z /\ lost \subseteq Z /\ flat \subseteq Z
  <2>1. won \subseteq Z /\ lost \subseteq Z /\ flat \subseteq Z
    BY <1>1, <1>3
  <2> QED BY <2>1, FS_Subset
<1>6. Z = won \union (lost \union flat)
  BY <1>1, <1>3
<1>7. won \intersect (lost \union flat) = {} /\ lost \intersect flat = {}
  BY <1>1, <1>3
<1>8. \A i \in Z : p[i] \in Int
  OBVIOUS
<1>9. PICK rest : rest = lost \union flat
  OBVIOUS
<1>10. IsFiniteSet(rest) /\ rest \subseteq Z
  BY <1>5, <1>9, FS_Union
<1>11. Sum(p, Z) = Sum(p, won) + Sum(p, rest)
  <2>1. \A i \in won \union rest : p[i] \in Int
    BY <1>5, <1>8, <1>10
  <2>2. Sum(p, won \union rest) = Sum(p, won) + Sum(p, rest)
    BY <1>5, <1>7, <1>9, <1>10, <2>1, SumUnion
  <2> QED BY <1>6, <1>9, <2>2
<1>12. Sum(p, rest) = Sum(p, lost) + Sum(p, flat)
  <2>1. \A i \in lost \union flat : p[i] \in Int
    BY <1>5, <1>8
  <2> QED BY <1>5, <1>7, <1>9, <2>1, SumUnion
<1>13. Sum(p, flat) = 0
  BY <1>1, <1>5, SumOfZeros
<1>14. Sum(p, won) \in Int /\ Sum(p, lost) \in Int
  BY <1>5, <1>8, SumType
<1>15. Sum(p, Z) = Sum(p, won) + Sum(p, lost)
  BY <1>11, <1>12, <1>13, <1>14
<1> QED BY <1>1, <1>4, <1>5, <1>15

\* The two summaries agree but for the count of the trades whose P&L is no number.
LEMMA SummariesOfTrades ==
  ASSUME NEW pnl \in Pnls
  PROVE  T!SummariesAgree(pnl)
<1>1. PICK Z, Q, N, R, p, q :
        /\ Z = 1 .. 4 /\ Q = {j \in Z : pnl[j] \notin {None, Nothing}}
        /\ N = {j \in Z : pnl[j] = Nothing} /\ R = {j \in Z : pnl[j] # None}
        /\ p = [i \in R |-> IF pnl[i] = Nothing THEN 0 ELSE pnl[i]]
        /\ q = [i \in Q |-> pnl[i]]
  OBVIOUS
<1>2. DOMAIN pnl = Z /\ IsFiniteSet(Z)
  <2>1. DOMAIN pnl = Z
    BY <1>1 DEF Pnls
  <2>2. 1 \in Int /\ 4 \in Int
    OBVIOUS
  <2>3. IsFiniteSet(1 .. 4)
    BY <2>2, FS_Interval
  <2> QED BY <1>1, <2>1, <2>3
<1>3. \A j \in Z : pnl[j] \in Int \/ pnl[j] = None \/ pnl[j] = Nothing
  <2>1. \A n \in {-3, -1, 0, 2, None, Nothing} : n \in Int \/ n = None \/ n = Nothing
    OBVIOUS
  <2>2. \A j \in 1 .. 4 : pnl[j] \in {-3, -1, 0, 2, None, Nothing}
    BY DEF Pnls
  <2> QED BY <1>1, <2>1, <2>2
<1>4. T!RoutePnls(pnl) = p /\ T!ReportPnls(pnl) = q
  BY <1>1, <1>2 DEF T!RoutePnls, T!ReportPnls
<1>5. R = Q \union N /\ Q \intersect N = {}
  BY <1>1, <1>3, NamesAssumption
<1>6. IsFiniteSet(Q) /\ IsFiniteSet(N) /\ IsFiniteSet(R)
  <2>1. Q \subseteq Z /\ N \subseteq Z /\ R \subseteq Z
    BY <1>1
  <2> QED BY <1>2, <2>1, FS_Subset
<1>7. p \in [R -> Int] /\ q \in [Q -> Int]
  BY <1>1, <1>3
<1>8. /\ \A i \in Q : p[i] = q[i]
      /\ \A i \in N : p[i] = 0
  BY <1>1, <1>3, <1>5, NamesAssumption
<1>9. T!Won(p) = T!Won(q) /\ T!Lost(p) = T!Lost(q)
  <2>1. DOMAIN p = R /\ DOMAIN q = Q
    BY <1>7
  <2> QED BY <1>5, <1>8, <2>1 DEF T!Won, T!Lost
<1>10. PICK won, lost : won = T!Won(q) /\ lost = T!Lost(q)
  OBVIOUS
<1>11. /\ T!Figures(p) = [closed |-> Cardinality(R), wins |-> Cardinality(won),
                          losses |-> Cardinality(lost), total |-> Sum(p, R),
                          grossWin |-> Sum(p, won), grossLoss |-> - Sum(p, lost)]
       /\ Sum(p, R) = Sum(p, won) + Sum(p, lost)
  BY <1>6, <1>7, <1>9, <1>10, FiguresOf
<1>12. /\ T!Figures(q) = [closed |-> Cardinality(Q), wins |-> Cardinality(won),
                          losses |-> Cardinality(lost), total |-> Sum(q, Q),
                          grossWin |-> Sum(q, won), grossLoss |-> - Sum(q, lost)]
       /\ Sum(q, Q) = Sum(q, won) + Sum(q, lost)
       /\ won \subseteq Q /\ lost \subseteq Q
  BY <1>6, <1>7, <1>10, FiguresOf
<1>13. Sum(p, won) = Sum(q, won) /\ Sum(p, lost) = Sum(q, lost)
  <2>1. IsFiniteSet(won) /\ IsFiniteSet(lost)
    BY <1>6, <1>12, FS_Subset
  <2>2. /\ \A i \in won : p[i] = q[i] /\ p[i] \in Int
        /\ \A i \in lost : p[i] = q[i] /\ p[i] \in Int
    BY <1>5, <1>7, <1>8, <1>12
  <2> QED BY <2>1, <2>2, SumEqual
<1>14. Sum(p, R) = Sum(q, Q)
  BY <1>11, <1>12, <1>13
<1>15. Cardinality(R) = Cardinality(Q) + Cardinality(N)
  <2>1. PICK a, b : a = Cardinality(Q) /\ b = Cardinality(N)
    OBVIOUS
  <2>2. a \in Nat /\ b \in Nat
    BY <1>6, <2>1, FS_CardinalityType
  <2>3. Cardinality(Q \union N) = Cardinality(Q) + Cardinality(N) - Cardinality(Q \intersect N)
    BY <1>6, FS_Union
  <2>4. Cardinality({}) = 0
    BY FS_EmptySet
  <2>5. Cardinality(R) = a + b - 0
    BY <1>5, <2>1, <2>3, <2>4
  <2> QED BY <2>1, <2>2, <2>5
<1>16. N = {i \in DOMAIN pnl : pnl[i] = Nothing}
  BY <1>1, <1>2
<1>17. T!Figures(p) = [T!Figures(q) EXCEPT !.closed = @ + T!Cardinality(N)]
  BY <1>11, <1>12, <1>13, <1>14, <1>15, StatisticsSum
<1>18. T!Figures(p).total = T!Figures(p).grossWin - T!Figures(p).grossLoss
  <2>1. PICK a, b : a = Sum(p, won) /\ b = Sum(p, lost)
    OBVIOUS
  <2>2. a \in Int /\ b \in Int
    <3>1. IsFiniteSet(won) /\ IsFiniteSet(lost)
      BY <1>6, <1>12, FS_Subset
    <3>2. /\ \A i \in won : p[i] \in Int
          /\ \A i \in lost : p[i] \in Int
      BY <1>5, <1>7, <1>12
    <3> QED BY <2>1, <3>1, <3>2, SumType
  <2>3. a + b = a - (-b)
    BY <2>2
  <2> QED BY <1>11, <2>1, <2>3
<1> QED BY <1>4, <1>16, <1>17, <1>18 DEF T!SummariesAgree, T!RouteSummary, T!ReportStats

-----------------------------------------------------------------------------
(* MarketRegime. *)

\* The price is a number, and so is its distance to the floor.
LEMMA FloorIsNear ==
  ASSUME NEW q \in RegimeReads, q.floors # {}
  PROVE  G!FloorGap(q) \in Int
<1>1. PICK c : c = G!Price(q)
  OBVIOUS
<1>2. c \in Int
  <2>1. q.gexPrice \in {0, 98, 102} /\ q.dpPrice \in {0, 100} /\ q.driftPrice \in {0}
    BY DEF RegimeReads
  <2>2. q.gexPrice \in Int /\ q.dpPrice \in Int /\ q.driftPrice \in Int
    BY <2>1
  <2> QED BY <1>1, <2>2 DEF G!Price
<1>3. PICK F : F = q.floors
  OBVIOUS
<1>4. PICK p \in {90, 95, 99, 104} : F = {[price |-> p, notional |-> 600]}
  <2>1. F \in {{}} \union {{[price |-> p, notional |-> 600]} : p \in {90, 95, 99, 104}}
    BY <1>3 DEF RegimeReads
  <2> QED BY <1>3, <2>1
<1>5. PICK r \in F : r = [price |-> p, notional |-> 600]
  BY <1>4
<1>6. r.price \in Int
  <2>1. \A n \in {90, 95, 99, 104} : n \in Int
    OBVIOUS
  <2> QED BY <1>5, <2>1
<1>7. G!NearestFloor(q) = CHOOSE f \in F : \A g \in F : G!Abs(f.price - c) <= G!Abs(g.price - c)
  BY <1>1, <1>3 DEF G!NearestFloor
<1>8. PICK a : a = G!Abs(r.price - c)
  OBVIOUS
<1>9. a \in Int
  BY <1>2, <1>6, <1>8 DEF G!Abs
<1>10. \A g \in F : G!Abs(r.price - c) <= G!Abs(g.price - c)
  BY <1>4, <1>5, <1>8, <1>9
<1>11. G!NearestFloor(q) \in F
  BY <1>4, <1>5, <1>7, <1>10
<1>12. G!NearestFloor(q) = r
  BY <1>4, <1>5, <1>11
<1> QED BY <1>1, <1>2, <1>6, <1>12 DEF G!FloorGap

\* At most one signal of a source: of weight n, or none, and n is 0.
IsGroup(X, source, n) == X = {<<source, n>>} \/ (X = {} /\ n = 0)

\* Signals and their weights, those of a source and those of the others.
Weighs(f, X) == \A s \in X : f[s] = s[2]
IsFrom(X, source) == \A s \in X : s[1] = source
NoneFrom(X, source) == \A s \in X : s[1] # source
AreNumbers(f, X) == \A s \in X : f[s] \in Int

\* The sum of one signal, or of none.
LEMMA GroupSum ==
  ASSUME NEW source, NEW n \in Int, NEW X, IsGroup(X, source, n), NEW f, Weighs(f, X)
  PROVE  /\ IsFiniteSet(X) /\ Sum(f, X) = n
         /\ IsFrom(X, source) /\ AreNumbers(f, X)
<1> USE DEF IsGroup, Weighs, IsFrom, AreNumbers
<1>1. CASE X = {} /\ n = 0
  <2>1. IsFiniteSet(X)
    BY <1>1, FS_EmptySet
  <2> QED BY <1>1, <2>1, SumUnfolds
<1>2. CASE X = {<<source, n>>}
  <2>1. IsFiniteSet(X)
    BY <1>2, FS_Singleton
  <2>2. PICK x : x = <<source, n>>
    OBVIOUS
  <2>3. f[x] = n /\ x[1] = source /\ X = {x}
    BY <1>2, <2>2
  <2>4. Sum(f, X) = f[x] + Sum(f, X \ {x})
    BY <2>1, <2>3, SumSplit
  <2>5. X \ {x} = {} /\ IsFiniteSet({})
    BY <2>3, FS_EmptySet
  <2>6. Sum(f, {}) = 0
    BY <2>5, SumUnfolds
  <2>7. Sum(f, X) = n + 0
    BY <2>3, <2>4, <2>5, <2>6
  <2> QED BY <2>1, <2>3, <2>7
<1> QED BY <1>1, <1>2

\* Signals of one more source add what they weigh.
LEMMA GroupAdds ==
  ASSUME NEW Y, IsFiniteSet(Y), NEW source, NoneFrom(Y, source),
         NEW f, AreNumbers(f, Y), NEW n \in Int, NEW X, IsGroup(X, source, n), Weighs(f, X)
  PROVE  /\ IsFiniteSet(Y \union X) /\ AreNumbers(f, Y \union X)
         /\ Sum(f, Y \union X) = Sum(f, Y) + n
<1>1. IsFiniteSet(X) /\ Sum(f, X) = n /\ IsFrom(X, source) /\ AreNumbers(f, X)
  BY GroupSum
<1>2. Y \intersect X = {}
  BY <1>1 DEF IsFrom, NoneFrom
<1>3. \A s \in Y \union X : f[s] \in Int
  BY <1>1 DEF AreNumbers
<1>4. Sum(f, Y \union X) = Sum(f, Y) + Sum(f, X)
  BY <1>1, <1>2, <1>3, SumUnion
<1>5. IsFiniteSet(Y \union X)
  BY <1>1, FS_Union
<1> QED BY <1>1, <1>3, <1>4, <1>5 DEF AreNumbers

\* The signals listed to the user add up to the score.
LEMMA SignalsAddUp ==
  ASSUME NEW q \in RegimeReads
  PROVE  /\ G!MapThenSumSet(LAMBDA s : s[2], G!Signals(q)) = G!Score(q)
         /\ G!Score(q) \in Int
<1>1. PICK gamma, bare, gap, n1, n2, n3, n4, n5, n6 :
        /\ gamma = G!Gamma(q) /\ bare = (q.floors = {} \/ G!Price(q) = 0) /\ gap = G!FloorGap(q)
        /\ n1 = (IF gamma = "positive" THEN 2 ELSE IF gamma = "negative" THEN -2 ELSE 0)
        /\ n2 = (IF bare \/ gap \notin -4 .. 4 THEN 0 ELSE IF gap > 0 THEN 1 ELSE -1)
        /\ n3 = (IF q.drift = "bullish" THEN 1 ELSE IF q.drift = "bearish" THEN -1 ELSE 0)
        /\ n4 = (IF q.macro = "bullish" THEN 1 ELSE IF q.macro = "bearish" THEN -1 ELSE 0)
        /\ n5 = (IF q.term = "contango" THEN 1 ELSE IF q.term = "backwardation" THEN -2 ELSE 0)
        /\ n6 = (IF gamma = "positive" /\ q.drift = "bearish" THEN -1 ELSE 0)
  OBVIOUS
<1>2. /\ n1 \in Int /\ n2 \in Int /\ n3 \in Int /\ n4 \in Int /\ n5 \in Int /\ n6 \in Int
  BY <1>1
<1>3. ~bare => gap \in Int
  BY <1>1, FloorIsNear
<1>4. G!Score(q) = n1 + n2 + n3 + n4 + n5 + n6
  <2>1. PICK a, c, d, e :
          /\ a = (CASE gamma = "positive" -> IF q.drift = "bearish" THEN 1 ELSE 2
                    [] gamma = "negative" -> -2 [] OTHER -> 0)
          /\ c = (CASE q.drift = "bullish" -> 1 [] q.drift = "bearish" -> -1 [] OTHER -> 0)
          /\ d = (CASE q.macro = "bullish" -> 1 [] q.macro = "bearish" -> -1 [] OTHER -> 0)
          /\ e = (CASE q.term = "contango" -> 1 [] q.term = "backwardation" -> -2 [] OTHER -> 0)
    OBVIOUS
  <2>2. G!Score(q) = a + n2 + c + d + e
    BY <1>1, <2>1 DEF G!Score
  <2>3. a = n1 + n6
    BY <1>1, <2>1
  <2>4. c = n3 /\ d = n4 /\ e = n5
    BY <1>1, <2>1
  <2> QED BY <1>2, <2>2, <2>3, <2>4
<1>5. PICK E1 : E1 = G!Signal("GEX", 2, gamma = "positive")
                     \union G!Signal("GEX", -2, gamma = "negative")
  OBVIOUS
<1>23. PICK E2 : E2 = IF bare THEN {}
                      ELSE G!Signal("DarkPool", 1, 0 < gap /\ gap < 5)
                           \union G!Signal("DarkPool", -1, -5 < gap /\ gap <= 0)
  BY Zenon
<1>24. PICK E3 : E3 = G!Signal("NetDrift", 1, q.drift = "bullish")
                      \union G!Signal("NetDrift", -1, q.drift = "bearish")
  OBVIOUS
<1>25. PICK E4 : E4 = G!Signal("Macro", 1, q.macro = "bullish")
                      \union G!Signal("Macro", -1, q.macro = "bearish")
  OBVIOUS
<1>26. PICK E5 : E5 = G!Signal("VIXTerm", 1, q.term = "contango")
                      \union G!Signal("VIXTerm", -2, q.term = "backwardation")
  OBVIOUS
<1>27. PICK E6 : E6 = G!Signal("Divergence", -1, gamma = "positive" /\ q.drift = "bearish")
  BY Zenon
<1>21. PICK Z : Z = ((((E1 \union E2) \union E3) \union E4) \union E5) \union E6
  OBVIOUS
<1>22. PICK f : f = [s \in Z |-> s[2]]
  OBVIOUS
<1>6. /\ IsGroup(E1, "GEX", n1) /\ IsGroup(E2, "DarkPool", n2) /\ IsGroup(E3, "NetDrift", n3)
      /\ IsGroup(E4, "Macro", n4) /\ IsGroup(E5, "VIXTerm", n5)
      /\ IsGroup(E6, "Divergence", n6)
  <2> USE DEF G!Signal, IsGroup
  <2>1. IsGroup(E1, "GEX", n1)
    BY <1>1, <1>5
  <2>2. IsGroup(E2, "DarkPool", n2)
    <3>1. CASE bare
      BY <1>1, <1>23, <3>1
    <3>2. CASE ~bare
      <4>1. /\ gap \in Int /\ E2 = G!Signal("DarkPool", 1, 0 < gap /\ gap < 5)
                                   \union G!Signal("DarkPool", -1, -5 < gap /\ gap <= 0)
            /\ n2 = IF gap \notin -4 .. 4 THEN 0 ELSE IF gap > 0 THEN 1 ELSE -1
        BY <1>1, <1>3, <1>23, <3>2
      <4> QED BY <4>1
    <3> QED BY <1>1, <3>1, <3>2
  <2>3. IsGroup(E3, "NetDrift", n3)
    BY <1>1, <1>24
  <2>4. IsGroup(E4, "Macro", n4)
    BY <1>1, <1>25
  <2>5. IsGroup(E5, "VIXTerm", n5)
    BY <1>1, <1>26
  <2>6. IsGroup(E6, "Divergence", n6)
    BY <1>1, <1>27
  <2> QED BY <2>1, <2>2, <2>3, <2>4, <2>5, <2>6
<1>7. G!Signals(q) = Z
  <2>1. G!Signals(q) =
          G!Signal("GEX", 2, gamma = "positive") \union G!Signal("GEX", -2, gamma = "negative")
          \union E2
          \union G!Signal("NetDrift", 1, q.drift = "bullish")
          \union G!Signal("NetDrift", -1, q.drift = "bearish")
          \union G!Signal("Macro", 1, q.macro = "bullish")
          \union G!Signal("Macro", -1, q.macro = "bearish")
          \union G!Signal("VIXTerm", 1, q.term = "contango")
          \union G!Signal("VIXTerm", -2, q.term = "backwardation") \union E6
    BY <1>1, <1>23, <1>27 DEF G!Signals
  <2> QED BY <1>5, <1>21, <1>24, <1>25, <1>26, <2>1
<1>8. Weighs(f, E1) /\ Weighs(f, E2) /\ Weighs(f, E3) /\ Weighs(f, E4) /\ Weighs(f, E5) /\ Weighs(f, E6)
  <2>1. \A s \in Z : f[s] = s[2]
    BY <1>22
  <2>2. E1 \subseteq Z /\ E2 \subseteq Z /\ E3 \subseteq Z /\ E4 \subseteq Z /\ E5 \subseteq Z /\ E6 \subseteq Z
    BY <1>21
  <2> QED BY <2>1, <2>2 DEF Weighs
<1>9. /\ IsFrom(E1, "GEX") /\ IsFrom(E2, "DarkPool") /\ IsFrom(E3, "NetDrift")
      /\ IsFrom(E4, "Macro") /\ IsFrom(E5, "VIXTerm")
  BY <1>2, <1>6, <1>8, GroupSum
<1>10. IsFiniteSet(E1) /\ AreNumbers(f, E1) /\ Sum(f, E1) = n1
  BY <1>2, <1>6, <1>8, GroupSum
<1>11. PICK Y2 : Y2 = E1 \union E2
  OBVIOUS
<1>12. IsFiniteSet(Y2) /\ AreNumbers(f, Y2) /\ Sum(f, Y2) = n1 + n2
  <2>1. NoneFrom(E1, "DarkPool")
    BY <1>9 DEF IsFrom, NoneFrom
  <2>2. IsGroup(E2, "DarkPool", n2) /\ Weighs(f, E2) /\ n2 \in Int
    BY <1>2, <1>6, <1>8
  <2> QED BY <1>10, <1>11, <2>1, <2>2, GroupAdds
<1>13. PICK Y3 : Y3 = Y2 \union E3
  OBVIOUS
<1>14. IsFiniteSet(Y3) /\ AreNumbers(f, Y3) /\ Sum(f, Y3) = (n1 + n2) + n3
  <2>1. NoneFrom(Y2, "NetDrift")
    BY <1>9, <1>11 DEF IsFrom, NoneFrom
  <2> QED BY <1>2, <1>6, <1>8, <1>12, <1>13, <2>1, GroupAdds
<1>15. PICK Y4 : Y4 = Y3 \union E4
  OBVIOUS
<1>16. IsFiniteSet(Y4) /\ AreNumbers(f, Y4) /\ Sum(f, Y4) = ((n1 + n2) + n3) + n4
  <2>1. NoneFrom(Y3, "Macro")
    BY <1>9, <1>11, <1>13 DEF IsFrom, NoneFrom
  <2> QED BY <1>2, <1>6, <1>8, <1>14, <1>15, <2>1, GroupAdds
<1>17. PICK Y5 : Y5 = Y4 \union E5
  OBVIOUS
<1>18. IsFiniteSet(Y5) /\ AreNumbers(f, Y5) /\ Sum(f, Y5) = (((n1 + n2) + n3) + n4) + n5
  <2>1. NoneFrom(Y4, "VIXTerm")
    BY <1>9, <1>11, <1>13, <1>15 DEF IsFrom, NoneFrom
  <2> QED BY <1>2, <1>6, <1>8, <1>16, <1>17, <2>1, GroupAdds
<1>19. Sum(f, Z) = ((((n1 + n2) + n3) + n4) + n5) + n6
  <2>1. NoneFrom(Y5, "Divergence")
    BY <1>9, <1>11, <1>13, <1>15, <1>17 DEF IsFrom, NoneFrom
  <2>2. Z = Y5 \union E6
    BY <1>21, <1>11, <1>13, <1>15, <1>17
  <2> QED BY <1>2, <1>6, <1>8, <1>18, <2>1, <2>2, GroupAdds
<1>20. G!MapThenSumSet(LAMBDA s : s[2], Z) = Sum(f, Z)
  <2> DEFINE Adds(g) ==
        g = [u \in SUBSET Z |->
               IF u = {} THEN 0
               ELSE (CHOOSE z \in u : TRUE)[2] + g[u \ {CHOOSE z \in u : TRUE}]]
  <2>1. G!MapThenSumSet(LAMBDA s : s[2], Z) = (CHOOSE g : Adds(g))[Z]
    BY DEF G!MapThenSumSet, G!MapThenFoldSet
  <2>2. \A g : Adds(g) <=> IsSum(g, f, Z)
    <3>1. \A u \in SUBSET Z : u # {} => f[CHOOSE z \in u : TRUE] = (CHOOSE z \in u : TRUE)[2]
      BY <1>22
    <3> QED BY <3>1 DEF IsSum
  <2> HIDE DEF Adds
  <2> QED BY <2>1, <2>2, SumByRecursion
<1> QED BY <1>2, <1>4, <1>7, <1>19, <1>20

\* The gate of the briefing and the regime agree on the sign of the score.
LEMMA RegimeExplained ==
  ASSUME NEW q \in RegimeReads
  PROVE  G!Explained(q)
<1>1. PICK s : s = G!Score(q)
  OBVIOUS
<1>2. s \in Int
  BY <1>1, SignalsAddUp
<1>3. G!GateLabel(q) = IF s > 0 THEN "bullish" ELSE IF s < 0 THEN "bearish" ELSE "neutral"
  BY <1>1 DEF G!GateLabel
<1>4. G!Overall(q) =
        CASE s >= 3 -> "Strongly Bullish" [] s = 2 -> "Bullish" [] s = 1 -> "Mildly Bullish"
          [] s = 0 -> "Neutral" [] s = -1 -> "Mildly Bearish" [] s = -2 -> "Bearish"
          [] OTHER -> "Strongly Bearish"
  BY <1>1 DEF G!Overall
<1>5. PICK o, label, word :
        /\ o = G!Overall(q) /\ label = G!GateLabel(q)
        /\ word = CASE o \in {"Strongly Bullish", "Bullish", "Mildly Bullish"} -> "bullish"
                    [] o = "Neutral" -> "neutral" [] OTHER -> "bearish"
  OBVIOUS
<1>6. /\ s >= 3 => o = "Strongly Bullish"
      /\ s = 2 => o = "Bullish"
      /\ s = 1 => o = "Mildly Bullish"
      /\ s = 0 => o = "Neutral"
      /\ s = -1 => o = "Mildly Bearish"
      /\ s = -2 => o = "Bearish"
      /\ s < -2 => o = "Strongly Bearish"
  <2>1. o = CASE s >= 3 -> "Strongly Bullish" [] s = 2 -> "Bullish" [] s = 1 -> "Mildly Bullish"
             [] s = 0 -> "Neutral" [] s = -1 -> "Mildly Bearish" [] s = -2 -> "Bearish"
             [] OTHER -> "Strongly Bearish"
    BY <1>4, <1>5
  <2>2. s >= 3 => ~(s = 2) /\ ~(s = 1) /\ ~(s = 0) /\ ~(s = -1) /\ ~(s = -2)
    BY <1>2
  <2>3. s < -2 => ~(s >= 3) /\ ~(s = 2) /\ ~(s = 1) /\ ~(s = 0) /\ ~(s = -1) /\ ~(s = -2)
    BY <1>2
  <2>4. s >= 3 => o = "Strongly Bullish"
    BY <2>1, <2>2
  <2>5. s = 2 => o = "Bullish"
    BY <2>1
  <2>6. s = 1 => o = "Mildly Bullish"
    <3>1. s = 1 => ~(s >= 3) /\ ~(s = 2) /\ ~(s = 0) /\ ~(s = -1) /\ ~(s = -2)
      BY <1>2
    <3> QED BY <2>1, <3>1, Zenon
  <2>7. s = 0 => o = "Neutral"
    BY <2>1
  <2>8. s = -1 => o = "Mildly Bearish"
    <3>1. s = -1 => ~(s >= 3) /\ ~(s = 2) /\ ~(s = 1) /\ ~(s = 0) /\ ~(s = -2)
      BY <1>2
    <3> QED BY <2>1, <3>1, Zenon
  <2>9. s = -2 => o = "Bearish"
    BY <2>1
  <2>10. s < -2 => o = "Strongly Bearish"
    BY <2>1, <2>3
  <2> QED BY <2>4, <2>5, <2>6, <2>7, <2>8, <2>9, <2>10
<1>7. s >= 3 \/ s = 2 \/ s = 1 \/ s = 0 \/ s = -1 \/ s = -2 \/ s < -2
  BY <1>2
<1>8. /\ s > 0 => o = "Strongly Bullish" \/ o = "Bullish" \/ o = "Mildly Bullish"
      /\ s < 0 => o = "Mildly Bearish" \/ o = "Bearish" \/ o = "Strongly Bearish"
  <2>1. /\ s > 0 => s >= 3 \/ s = 2 \/ s = 1
        /\ s < 0 => s = -1 \/ s = -2 \/ s < -2
    BY <1>2
  <2> QED BY <1>6, <2>1, Zenon
<1>9. /\ s > 0 => word = "bullish"
      /\ s = 0 => word = "neutral"
      /\ s < 0 => word = "bearish"
  BY <1>5, <1>6, <1>8
<1>10. /\ s > 0 => label = "bullish"
       /\ s = 0 => label = "neutral"
       /\ s < 0 => label = "bearish"
  <2>1. label = IF s > 0 THEN "bullish" ELSE IF s < 0 THEN "bearish" ELSE "neutral"
    BY <1>3, <1>5
  <2>2. /\ s < 0 => ~(s > 0)
        /\ s = 0 => ~(s > 0) /\ ~(s < 0)
    BY <1>2
  <2> QED BY <2>1, <2>2, Zenon
<1>11. label = word
  BY <1>2, <1>9, <1>10
<1> QED BY <1>5, <1>11, SignalsAddUp DEF G!Explained

-----------------------------------------------------------------------------
(* What is written more than once. *)

\* What the code writes more than once says the same each time: the gates, the
\* views of a position, the summaries of the trades and the score of the market.
THEOREM CopiesSayTheSame == AllSpec => []CopiesAgree
<1>1. BookInv /\ GivenInv => CopiesAgree
  <2> SUFFICES ASSUME BookInv, GivenInv PROVE CopiesAgree
    OBVIOUS
  <2>1. Given("gates") => \A t \in {t1, t2} : P!CopiesAgree(given, t)
    BY GivenInputs, GatesAgree
  <2>2. Given("statistics") => T!SummariesAgree(given)
    BY GivenInputs, SummariesOfTrades
  <2>3. Given("regime") => G!Explained(given)
    BY GivenInputs, RegimeExplained
  <2> QED BY <2>1, <2>2, <2>3, ViewsOfBook, FillsAndDiffs DEF CopiesAgree
<1> QED BY <1>1, RulesOfDecisions, BookInvariant, GivenInvariant, PTL

-----------------------------------------------------------------------------
(* The put spreads of BookViews.                                              *)

\* Products of numbers are numbers, and distribute over differences.
LEMMA Distributes ==
  /\ \A i, j, k \in Int : /\ i * (j - k) = i * j - i * k
                          /\ (i - j) * k = i * k - j * k
                          /\ i * j \in Int
  /\ \A i, j \in Nat : i * j \in Nat
  /\ \A k \in Int : 0 * k = 0 /\ \A i \in Int : (-i) * k = -(i * k)
<1>1. \A i, j \in Int : i * j \in Int
  OBVIOUS
<1>2. \A i, j, k \in Int : i * (j - k) = i * j - i * k
  OBVIOUS
<1>3. \A i, j, k \in Int : (i - j) * k = i * k - j * k
  OBVIOUS
<1>4. \A i, j \in Nat : i * j \in Nat
  OBVIOUS
<1>5. \A k \in Int : 0 * k = 0
  OBVIOUS
<1>6. \A k, i \in Int : (-i) * k = -(i * k)
  OBVIOUS
<1> QED BY <1>1, <1>2, <1>3, <1>4, <1>5, <1>6

\* The long puts that are left are worth what is left of each times its strike.
Value(f, L) == Sum([l \in L |-> f[l] * l.strike], L)

\* What is left is worth something, or nothing when nothing is left.
LEMMA ValueType ==
  ASSUME NEW L, IsFiniteSet(L), \A l \in L : l.strike \in Nat, NEW f \in [L -> Nat]
  PROVE  /\ Value(f, L) \in Nat
         /\ (\A l \in L : f[l] = 0) => Value(f, L) = 0
<1>1. PICK x : x = [l \in L |-> f[l] * l.strike]
  OBVIOUS
<1>2. \A l \in L : x[l] \in Nat
  <2> SUFFICES ASSUME NEW l \in L PROVE f[l] * l.strike \in Nat
    BY <1>1
  <2>1. f[l] \in Nat /\ l.strike \in Nat
    OBVIOUS
  <2> QED BY <2>1, Distributes
<1>3. Sum(x, L) \in Nat
  BY <1>2, SumNat
<1>4. ASSUME \A l \in L : f[l] = 0 PROVE Sum(x, L) = 0
  <2>1. \A l \in L : x[l] = 0
    BY <1>1, <1>4
  <2> QED BY <2>1, SumOfZeros
<1> QED BY <1>1, <1>3, <1>4 DEF Value

\* What is left is worth less by the strike of what is taken.
LEMMA ValueLess ==
  ASSUME NEW L, IsFiniteSet(L), \A l \in L : l.strike \in Nat, NEW f \in [L -> Nat], NEW l \in L,
         NEW t \in Nat, NEW g \in [L -> Nat], IsLess(g, f, l, t)
  PROVE  Value(g, L) = Value(f, L) - t * l.strike
<1>1. PICK x, y : x = [m \in L |-> f[m] * m.strike] /\ y = [m \in L |-> g[m] * m.strike]
  OBVIOUS
<1>2. \A m \in L : x[m] \in Int /\ y[m] \in Int
  <2> SUFFICES ASSUME NEW m \in L PROVE f[m] * m.strike \in Int /\ g[m] * m.strike \in Int
    BY <1>1
  <2>1. f[m] \in Int /\ g[m] \in Int /\ m.strike \in Int
    OBVIOUS
  <2> QED BY <2>1, Distributes
<1>3. Sum(x, L) = x[l] + Sum(x, L \ {l})
  BY <1>2, SumSplit
<1>4. Sum(y, L) = y[l] + Sum(y, L \ {l})
  BY <1>2, SumSplit
<1>5. PICK Y : Y = L \ {l}
  OBVIOUS
<1>6. IsFiniteSet(Y) /\ (\A m \in Y : x[m] = y[m]) /\ \A m \in Y : x[m] \in Int
  <2>1. \A m \in Y : g[m] = f[m]
    BY <1>5 DEF IsLess
  <2> QED BY <1>1, <1>2, <1>5, <2>1, FS_Subset
<1>7. Sum(x, Y) = Sum(y, Y) /\ Sum(x, Y) \in Int
  BY <1>6, SumEqual, SumType
<1>8. y[l] = x[l] - t * l.strike
  <2>1. g[l] = f[l] - t
    BY DEF IsLess
  <2>2. f[l] \in Int /\ t \in Int /\ l.strike \in Int
    OBVIOUS
  <2>3. (f[l] - t) * l.strike = f[l] * l.strike - t * l.strike
    BY <2>2, Distributes
  <2> QED BY <1>1, <2>1, <2>3
<1>9. x[l] \in Int /\ t * l.strike \in Int
  <2>1. t \in Int /\ l.strike \in Int
    OBVIOUS
  <2> QED BY <1>2, <2>1, Distributes
<1>10. Sum(y, L) = Sum(x, L) - t * l.strike
  BY <1>3, <1>4, <1>5, <1>7, <1>8, <1>9
<1> QED BY <1>1, <1>10 DEF Value

\* The lowest of some puts is one of them.
LEMMA LowestOf ==
  ASSUME NEW I, IsFiniteSet(I), I # {}, \A i \in I : i.strike \in Nat
  PROVE  V!Lowest(I) \in I /\ \A i \in I : V!Lowest(I).strike <= i.strike
<1>1. PICK f : f = [i \in I |-> 0 - i.strike]
  OBVIOUS
<1>2. \A i \in I : f[i] \in Int
  BY <1>1
<1>3. PICK m : m = Highest(f, I)
  OBVIOUS
<1>4. m \in I /\ \A i \in I : f[i] <= f[m]
  BY <1>2, <1>3, HighestOf
<1>5. \A i \in I : m.strike <= i.strike
  BY <1>1, <1>4
<1>6. \E l \in I : \A i \in I : l.strike <= i.strike
  BY <1>4, <1>5
<1>7. PICK l : l = V!Lowest(I)
  OBVIOUS
<1>8. l \in I /\ \A i \in I : l.strike <= i.strike
  BY <1>6, <1>7 DEF V!Lowest
<1> QED BY <1>7, <1>8

\* The long put l gives t contracts to the short put s, and is paid for them.
PutGives(longs, s, left, need, paid, l, t) ==
  \E after, more :
    /\ V!TakeFrom(s, [need |-> need, left |-> left, pays |-> paid], l) =
         [need |-> need - t, left |-> after, pays |-> more]
    /\ IsLess(after, left, l, t) /\ after \in [longs -> Int]
    /\ more = paid + t * (l.strike - s.strike) /\ more \in Int

\* A long put that is taken pays the difference of the strikes.
LEMMA TakeFromPays ==
  ASSUME NEW longs, NEW A, NEW s, s.strike \in Nat,
         NEW l \in longs, l.strike \in Nat, l \in A <=> l.strike > s.strike,
         NEW left \in [longs -> Int], NEW need \in Int, NEW paid \in Int,
         NEW t, t = TakenOf(A, l, left, need)
  PROVE  t \in Int /\ PutGives(longs, s, left, need, paid, l, t)
<1>1. left[l] \in Int
  OBVIOUS
<1>2. t \in Int
  BY <1>1 DEF TakenOf
<1>3. V!Min({left[l], need}) = IF left[l] <= need THEN left[l] ELSE need
  <2>1. Min({left[l], need}) = IF left[l] <= need THEN left[l] ELSE need
    BY <1>1, MinOfTwo
  <2> QED BY <2>1 DEF V!Min, Min
<1>4. t = IF l.strike > s.strike THEN V!Min({left[l], need}) ELSE 0
  BY <1>3 DEF TakenOf
<1>5. PICK after, more : /\ after = [left EXCEPT ![l] = @ - t]
                         /\ more = paid + t * (l.strike - s.strike)
  OBVIOUS
<1>6. V!TakeFrom(s, [need |-> need, left |-> left, pays |-> paid], l) =
        [need |-> need - t, left |-> after, pays |-> more]
  BY <1>4, <1>5 DEF V!TakeFrom
<1>7. after \in [longs -> Int]
  BY <1>1, <1>2, <1>5
<1>8. more \in Int
  <2>1. l.strike - s.strike \in Int
    OBVIOUS
  <2>2. t * (l.strike - s.strike) \in Int
    BY <1>2, <2>1, Distributes
  <2> QED BY <1>5, <2>2
<1> QED BY <1>2, <1>5, <1>6, <1>7, <1>8 DEF IsLess, PutGives

\* The fold by which a short put of n contracts takes from the long puts.
IsPairing(g, s, n, before, paid, longs) ==
  g = [J \in SUBSET longs |->
         IF J = {} THEN [need |-> n, left |-> before, pays |-> paid]
         ELSE V!TakeFrom(s, g[J \ {V!Lowest(J)}], V!Lowest(J))]

\* What the recursion leaves, pays and still needs.
IsPaired(after, pays, need, s, n, before, paid, longs) ==
  \E g : /\ g = (CHOOSE h : IsPairing(h, s, n, before, paid, longs))
         /\ after = g[longs].left /\ pays = g[longs].pays /\ need = g[longs].need

\* What a short put takes is what the recursion over the long ones gives.
LEMMA PairShortByRecursion ==
  ASSUME NEW longs, NEW acc, NEW s
  PROVE  \E after, pays, need : /\ IsPaired(after, pays, need, s, -s.qty, acc.left, acc.pays, longs)
                                /\ V!PairShort(longs, acc, s) = [left |-> after, pays |-> pays]
<1>1. PICK g : g = (CHOOSE h : IsPairing(h, s, -s.qty, acc.left, acc.pays, longs))
  OBVIOUS
<1>2. V!PairShort(longs, acc, s) = [left |-> g[longs].left, pays |-> g[longs].pays]
  BY <1>1 DEF V!PairShort, V!MapThenFoldSet, IsPairing
<1> QED BY <1>1, <1>2 DEF IsPaired

\* There is such a recursion.
LEMMA PairingExists ==
  ASSUME NEW longs, IsFiniteSet(longs), \A l \in longs : l.strike \in Nat,
         NEW s, s.strike \in Nat, NEW n \in Int, NEW before \in [longs -> Int], NEW paid \in Int
  PROVE  \E g : IsPairing(g, s, n, before, paid, longs)
<1>1. PICK R : R = [need : Int, left : [longs -> Int], pays : Int]
  OBVIOUS
<1>2. PICK base : base = [need |-> n, left |-> before, pays |-> paid]
  OBVIOUS
<1>3. base \in R
  BY <1>1, <1>2
<1>4. PICK pick : pick = [u \in SUBSET longs |-> V!Lowest(u)]
  OBVIOUS
<1>5. \A u \in SUBSET longs : u # {} => pick[u] \in u
  <2> SUFFICES ASSUME NEW u \in SUBSET longs, u # {} PROVE V!Lowest(u) \in u
    BY <1>4
  <2>1. IsFiniteSet(u) /\ \A i \in u : i.strike \in Nat
    BY FS_Subset
  <2> QED BY <2>1, LowestOf
<1>6. PICK step : step = [w \in longs \X R |-> V!TakeFrom(s, w[2], w[1])]
  OBVIOUS
<1>7. \A l \in longs, r \in R : V!TakeFrom(s, r, l) \in R
  <2> SUFFICES ASSUME NEW l \in longs, NEW r \in R PROVE V!TakeFrom(s, r, l) \in R
    OBVIOUS
  <2>1. PICK left \in [longs -> Int], need \in Int, had \in Int :
          r = [need |-> need, left |-> left, pays |-> had]
    BY <1>1
  <2>2. PICK A : A = {m \in longs : m.strike > s.strike}
    OBVIOUS
  <2>3. l \in A <=> l.strike > s.strike
    BY <2>2
  <2>4. PICK t : t = TakenOf(A, l, left, need)
    OBVIOUS
  <2>5. t \in Int
    BY <2>3, <2>4, TakeFromPays
  <2>6. PutGives(longs, s, left, need, had, l, t)
    BY <2>3, <2>4, TakeFromPays
  <2>7. PICK after, more :
          /\ V!TakeFrom(s, [need |-> need, left |-> left, pays |-> had], l) =
               [need |-> need - t, left |-> after, pays |-> more]
          /\ after \in [longs -> Int] /\ more \in Int
    BY <2>6 DEF PutGives
  <2>8. need - t \in Int
    BY <2>5
  <2>9. [need |-> need - t, left |-> after, pays |-> more] \in R
    BY <1>1, <2>7, <2>8
  <2> QED BY <2>1, <2>7, <2>9
<1>8. step \in [longs \X R -> R]
  <2>1. \A w \in longs \X R : V!TakeFrom(s, w[2], w[1]) \in R
    BY <1>7
  <2> QED BY <1>6, <2>1
<1>9. PICK g \in [SUBSET longs -> R] : IsFold(g, longs, base, step, pick)
  BY <1>3, <1>5, <1>8, FoldExists
<1>10. \A u \in SUBSET longs : u # {} =>
         step[<<pick[u], g[u \ {pick[u]}]>>] = V!TakeFrom(s, g[u \ {pick[u]}], pick[u])
  <2> SUFFICES ASSUME NEW u \in SUBSET longs, u # {}
               PROVE  step[<<pick[u], g[u \ {pick[u]}]>>] = V!TakeFrom(s, g[u \ {pick[u]}], pick[u])
    OBVIOUS
  <2>1. pick[u] \in longs /\ g[u \ {pick[u]}] \in R
    BY <1>5
  <2> QED BY <1>6, <2>1
<1>11. \A u \in SUBSET longs :
         g[u] = IF u = {} THEN base ELSE V!TakeFrom(s, g[u \ {pick[u]}], pick[u])
  BY <1>9, <1>10 DEF IsFold
<1>12. \A u \in SUBSET longs :
         g[u] = IF u = {} THEN [need |-> n, left |-> before, pays |-> paid]
                ELSE V!TakeFrom(s, g[u \ {V!Lowest(u)}], V!Lowest(u))
  BY <1>2, <1>4, <1>11
<1>13. IsPairing(g, s, n, before, paid, longs)
  BY <1>9, <1>12 DEF IsPairing
<1> QED BY <1>13

\* The payout so far: what was taken is paid what it is above the short put.
Paid(longs, k, n, before, paid, after, need, pays) ==
  /\ pays \in Nat /\ paid <= pays
  /\ pays + Value(after, longs) - need * k = paid + Value(before, longs) - n * k

\* One long put more keeps the account of a short one.
LEMMA PaysForMore ==
  ASSUME NEW longs, IsFiniteSet(longs), \A l \in longs : l.strike \in Nat,
         NEW k \in Nat, NEW n \in Nat, NEW before \in [longs -> Nat], NEW paid \in Nat,
         NEW left \in [longs -> Nat], NEW need \in Nat, NEW pays,
         Paid(longs, k, n, before, paid, left, need, pays),
         NEW l \in longs, NEW t \in Nat, t # 0 => l.strike > k,
         NEW after \in [longs -> Nat], IsLess(after, left, l, t),
         NEW more, more = pays + t * (l.strike - k)
  PROVE  Paid(longs, k, n, before, paid, after, need - t, more)
<1>1. /\ pays \in Nat /\ paid <= pays
      /\ pays + Value(left, longs) - need * k = paid + Value(before, longs) - n * k
  BY DEF Paid
<1>2. Value(after, longs) = Value(left, longs) - t * l.strike
  BY ValueLess
<1>3. Value(left, longs) \in Int /\ Value(before, longs) \in Int
  <2>1. Value(left, longs) \in Nat
    BY ValueType
  <2>2. Value(before, longs) \in Nat
    BY ValueType
  <2> QED BY <2>1, <2>2
<1>4. l.strike \in Int /\ k \in Int /\ t \in Int /\ need \in Int /\ n \in Int
  OBVIOUS
<1>5. t * (l.strike - k) = t * l.strike - t * k
  BY <1>4, Distributes
<1>6. (need - t) * k = need * k - t * k
  BY <1>4, Distributes
<1>7. t * l.strike \in Int /\ t * k \in Int /\ need * k \in Int /\ n * k \in Int
  BY <1>4, Distributes
<1>8. t * (l.strike - k) \in Nat
  <2>1. CASE t = 0
    <3>1. l.strike - k \in Int
      OBVIOUS
    <3>2. t * (l.strike - k) = 0
      BY <2>1, <3>1, Distributes
    <3> QED BY <3>2
  <2>2. CASE t # 0
    <3>1. l.strike - k \in Nat
      BY <2>2
    <3> QED BY <3>1, Distributes
  <2> QED BY <2>1, <2>2
<1>9. more \in Nat /\ paid <= more
  BY <1>1, <1>8
<1>10. PICK va, vl, vb, tl, tk, nk, mk : /\ va = Value(after, longs) /\ vl = Value(left, longs)
         /\ vb = Value(before, longs) /\ tl = t * l.strike /\ tk = t * k /\ nk = need * k /\ mk = n * k
  OBVIOUS
<1>11. /\ vl \in Int /\ vb \in Int /\ tl \in Int /\ tk \in Int /\ nk \in Int /\ mk \in Int
       /\ pays \in Int /\ paid \in Int
  BY <1>1, <1>3, <1>7, <1>10
<1>12. va = vl - tl /\ more = pays + (tl - tk) /\ pays + vl - nk = paid + vb - mk
  BY <1>1, <1>2, <1>5, <1>10
<1>13. more + va - (nk - tk) = paid + vb - mk
  BY <1>11, <1>12
<1>14. (need - t) * k = nk - tk
  BY <1>6, <1>10
<1> QED BY <1>9, <1>10, <1>13, <1>14 DEF Paid

\* A short put takes what it needs from the long puts above it, and is paid for it.
LEMMA PutTakes ==
  ASSUME NEW longs, IsFiniteSet(longs), \A l \in longs : l.strike \in Nat,
         NEW s, s.strike \in Nat, NEW n \in Nat, NEW before \in [longs -> Nat], NEW paid \in Nat,
         NEW A \in SUBSET longs, \A l \in longs : l \in A <=> l.strike > s.strike,
         NEW after, NEW pays, NEW need, IsPaired(after, pays, need, s, n, before, paid, longs)
  PROVE  /\ Taken(longs, before, n, A, longs, after, need)
         /\ Paid(longs, s.strike, n, before, paid, after, need, pays)
<1>1. PICK g : /\ g = (CHOOSE h : IsPairing(h, s, n, before, paid, longs))
               /\ after = g[longs].left /\ pays = g[longs].pays /\ need = g[longs].need
  BY DEF IsPaired
<1>2. IsPairing(g, s, n, before, paid, longs)
  <2>1. n \in Int /\ before \in [longs -> Int] /\ paid \in Int
    OBVIOUS
  <2>2. \E h : IsPairing(h, s, n, before, paid, longs)
    BY <2>1, PairingExists
  <2> QED BY <1>1, <2>2
<1>3. PICK F : F = {J \in SUBSET longs :
         ~ \E left, more, had : /\ g[J] = [need |-> more, left |-> left, pays |-> had]
                                /\ Taken(longs, before, n, A, J, left, more)
                                /\ Paid(longs, s.strike, n, before, paid, left, more, had)}
  OBVIOUS
<1>4. ASSUME F # {} PROVE FALSE
  <2>1. \A J \in F : J \subseteq longs
    BY <1>3
  <2>2. PICK J \in F : \A I \in F : I \subseteq J => I = J
    BY <1>4, <2>1, MinimalSet
  <2>3. IsFiniteSet(J) /\ IsFiniteSet(A) /\ J \in SUBSET longs
    BY <2>1, FS_Subset
  <2>4. J # {}
    <3>1. g[{}] = [need |-> n, left |-> before, pays |-> paid]
      BY <1>2 DEF IsPairing
    <3>2. Taken(longs, before, n, A, {}, before, n)
      BY <2>3, NothingTaken
    <3>3. Paid(longs, s.strike, n, before, paid, before, n, paid)
      BY DEF Paid
    <3> QED BY <1>3, <3>1, <3>2, <3>3
  <2>5. PICK l : l = V!Lowest(J)
    OBVIOUS
  <2>6. l \in J /\ l \in longs /\ l.strike \in Nat
    <3>1. \A j \in J : j.strike \in Nat
      BY <2>3
    <3>2. l \in J
      BY <2>3, <2>4, <2>5, <3>1, LowestOf
    <3> QED BY <2>3, <3>2
  <2>7. PICK I : I = J \ {l}
    OBVIOUS
  <2>8. I \in SUBSET longs /\ I \notin F /\ J = I \union {l}
    BY <2>2, <2>3, <2>6, <2>7
  <2>9. PICK left, more, had : /\ g[I] = [need |-> more, left |-> left, pays |-> had]
                               /\ Taken(longs, before, n, A, I, left, more)
                               /\ Paid(longs, s.strike, n, before, paid, left, more, had)
    BY <1>3, <2>8
  <2>10. g[J] = V!TakeFrom(s, [need |-> more, left |-> left, pays |-> had], l)
    BY <1>2, <2>3, <2>4, <2>5, <2>7, <2>9 DEF IsPairing
  <2>11. left \in [longs -> Nat] /\ more \in Nat
    BY <2>9 DEF Taken
  <2>12. left \in [longs -> Int] /\ more \in Int /\ had \in Int
    BY <2>9, <2>11 DEF Paid
  <2>13. PICK t : t = TakenOf(A, l, left, more)
    OBVIOUS
  <2>14. l \in A <=> l.strike > s.strike
    BY <2>6
  <2>15. PutGives(longs, s, left, more, had, l, t)
    BY <2>6, <2>12, <2>13, <2>14, TakeFromPays
  <2>16. PICK rest, now : /\ g[J] = [need |-> more - t, left |-> rest, pays |-> now]
                          /\ IsLess(rest, left, l, t) /\ now = had + t * (l.strike - s.strike)
    BY <2>10, <2>15 DEF PutGives
  <2>17. Taken(longs, before, n, A, I \union {l}, rest, more - t)
    BY <2>3, <2>6, <2>9, <2>13, <2>16, TakesOneMore
  <2>18. t \in Nat /\ (t # 0 => l \in A)
    <3>1. left[l] \in Nat
      BY <2>6, <2>11
    <3> QED BY <2>11, <2>13, <3>1 DEF TakenOf
  <2>19. rest \in [longs -> Nat]
    BY <2>17 DEF Taken
  <2>20. t # 0 => l.strike > s.strike
    BY <2>14, <2>18
  <2>21. Paid(longs, s.strike, n, before, paid, rest, more - t, now)
    BY <2>6, <2>9, <2>11, <2>16, <2>18, <2>19, <2>20, PaysForMore
  <2> QED BY <1>3, <2>8, <2>16, <2>17, <2>21
<1>5. PICK left, more, had : /\ g[longs] = [need |-> more, left |-> left, pays |-> had]
                             /\ Taken(longs, before, n, A, longs, left, more)
                             /\ Paid(longs, s.strike, n, before, paid, left, more, had)
  BY <1>3, <1>4
<1> QED BY <1>1, <1>5

\* Long and short puts of one expiry, one of each strike.
AreSpreads(longs, shorts) ==
  /\ IsFiniteSet(longs) /\ IsFiniteSet(shorts)
  /\ \A l \in longs : l.strike \in Nat /\ l.qty \in Nat
  /\ \A s \in shorts : s.strike \in Nat /\ -s.qty \in Nat
  /\ \A r, s \in shorts : r.strike = s.strike => r = s

\* The long puts that may be paired with a short one.
Above(longs, s) == {l \in longs : l.strike > s.strike}

\* What one short put does to what is left and to the payout.
Pairs(longs, before, paid, s) ==
  \E after, need, pays :
    /\ Taken(longs, before, -s.qty, Above(longs, s), longs, after, need)
    /\ Paid(longs, s.strike, -s.qty, before, paid, after, need, pays)
    /\ V!PairShort(longs, [left |-> before, pays |-> paid], s) = [left |-> after, pays |-> pays]

\* A short put takes of the long ones above it, and its account is right.
LEMMA PairShortPairs ==
  ASSUME NEW longs, NEW shorts, AreSpreads(longs, shorts),
         NEW before \in [longs -> Nat], NEW paid \in Nat, NEW s \in shorts
  PROVE  Pairs(longs, before, paid, s)
<1>1. PICK acc : acc = [left |-> before, pays |-> paid]
  OBVIOUS
<1>2. acc.left = before /\ acc.pays = paid
  BY <1>1
<1>3. PICK after, pays, need :
        /\ IsPaired(after, pays, need, s, -s.qty, acc.left, acc.pays, longs)
        /\ V!PairShort(longs, acc, s) = [left |-> after, pays |-> pays]
  BY PairShortByRecursion
<1>4. PICK A : A = Above(longs, s)
  OBVIOUS
<1>5. A \in SUBSET longs /\ \A l \in longs : l \in A <=> l.strike > s.strike
  BY <1>4 DEF Above
<1>6. /\ IsFiniteSet(longs) /\ \A l \in longs : l.strike \in Nat
      /\ s.strike \in Nat /\ -s.qty \in Nat
  BY DEF AreSpreads
<1>7. PICK n \in Nat : n = -s.qty
  BY <1>6
<1>8. IsPaired(after, pays, need, s, n, before, paid, longs)
  BY <1>2, <1>3, <1>7
<1>9. Taken(longs, before, n, A, longs, after, need)
  BY <1>5, <1>6, <1>8, PutTakes
<1>10. Paid(longs, s.strike, n, before, paid, after, need, pays)
  BY <1>5, <1>6, <1>8, PutTakes
<1> QED BY <1>1, <1>3, <1>4, <1>7, <1>9, <1>10 DEF Pairs

\* The fold over the short puts.
IsPayout(g, longs, shorts) ==
  g = [u \in SUBSET shorts |->
         IF u = {} THEN [left |-> [l \in longs |-> l.qty], pays |-> 0]
         ELSE V!PairShort(longs, g[u \ {V!Lowest(u)}], V!Lowest(u))]

\* The payout is what the recursion over the short puts gives.
LEMMA PayoutByRecursion ==
  ASSUME NEW puts, NEW longs, longs = {l \in puts : l.qty > 0},
         NEW shorts, shorts = {l \in puts : l.qty < 0}
  PROVE  V!Payout(puts) = (CHOOSE g : IsPayout(g, longs, shorts))[shorts].pays
BY DEF V!Payout, V!MapThenFoldSet, IsPayout

\* There is such a recursion.
LEMMA PayoutExists ==
  ASSUME NEW longs, NEW shorts, AreSpreads(longs, shorts)
  PROVE  \E g : IsPayout(g, longs, shorts)
<1>1. PICK R : R = [left : [longs -> Nat], pays : Nat]
  OBVIOUS
<1>2. PICK base : base = [left |-> [l \in longs |-> l.qty], pays |-> 0]
  OBVIOUS
<1>3. base \in R
  BY <1>1, <1>2 DEF AreSpreads
<1>4. PICK pick : pick = [u \in SUBSET shorts |-> V!Lowest(u)]
  OBVIOUS
<1>5. \A u \in SUBSET shorts : u # {} => pick[u] \in u
  <2> SUFFICES ASSUME NEW u \in SUBSET shorts, u # {} PROVE V!Lowest(u) \in u
    BY <1>4
  <2>1. IsFiniteSet(u) /\ \A i \in u : i.strike \in Nat
    BY FS_Subset DEF AreSpreads
  <2> QED BY <2>1, LowestOf
<1>6. PICK step : step = [w \in shorts \X R |-> V!PairShort(longs, w[2], w[1])]
  OBVIOUS
<1>7. \A s \in shorts, r \in R : V!PairShort(longs, r, s) \in R
  <2> SUFFICES ASSUME NEW s \in shorts, NEW r \in R PROVE V!PairShort(longs, r, s) \in R
    OBVIOUS
  <2>1. PICK before \in [longs -> Nat], paid \in Nat : r = [left |-> before, pays |-> paid]
    BY <1>1
  <2>2. Pairs(longs, before, paid, s)
    BY PairShortPairs
  <2>3. PICK after, need, pays :
          /\ Taken(longs, before, -s.qty, Above(longs, s), longs, after, need)
          /\ Paid(longs, s.strike, -s.qty, before, paid, after, need, pays)
          /\ V!PairShort(longs, r, s) = [left |-> after, pays |-> pays]
    BY <2>1, <2>2 DEF Pairs
  <2>4. after \in [longs -> Nat] /\ pays \in Nat
    BY <2>3 DEF Taken, Paid
  <2>5. [left |-> after, pays |-> pays] \in R
    BY <1>1, <2>4
  <2> QED BY <2>3, <2>5
<1>8. step \in [shorts \X R -> R]
  <2>1. \A w \in shorts \X R : V!PairShort(longs, w[2], w[1]) \in R
    BY <1>7
  <2> QED BY <1>6, <2>1
<1>9. PICK g \in [SUBSET shorts -> R] : IsFold(g, shorts, base, step, pick)
  <2>1. IsFiniteSet(shorts)
    BY DEF AreSpreads
  <2> QED BY <1>3, <1>5, <1>8, <2>1, FoldExists
<1>10. \A u \in SUBSET shorts : u # {} =>
         step[<<pick[u], g[u \ {pick[u]}]>>] = V!PairShort(longs, g[u \ {pick[u]}], pick[u])
  <2> SUFFICES ASSUME NEW u \in SUBSET shorts, u # {}
               PROVE  step[<<pick[u], g[u \ {pick[u]}]>>] = V!PairShort(longs, g[u \ {pick[u]}], pick[u])
    OBVIOUS
  <2>1. pick[u] \in shorts /\ g[u \ {pick[u]}] \in R
    BY <1>5
  <2> QED BY <1>6, <2>1
<1>11. \A u \in SUBSET shorts :
         g[u] = IF u = {} THEN base ELSE V!PairShort(longs, g[u \ {pick[u]}], pick[u])
  BY <1>9, <1>10 DEF IsFold
<1>12. \A u \in SUBSET shorts :
         g[u] = IF u = {} THEN [left |-> [l \in longs |-> l.qty], pays |-> 0]
                ELSE V!PairShort(longs, g[u \ {V!Lowest(u)}], V!Lowest(u))
  BY <1>2, <1>4, <1>11
<1>13. IsPayout(g, longs, shorts)
  BY <1>9, <1>12 DEF IsPayout
<1> QED BY <1>13

\* A matching, but for who is met, and what is paid on the way.
IsSpread(left, pays, longs, q, n, A, shorts, key) ==
  /\ left \in [SUBSET shorts -> [longs -> Nat]] /\ left[{}] = q
  /\ pays \in [SUBSET shorts -> Nat] /\ pays[{}] = 0
  /\ \A u \in SUBSET shorts : u # {} => \E h \in u, need \in Nat :
       /\ \A s \in u : key[s] <= key[h]
       /\ Taken(longs, left[u \ {h}], n[h], A[h], longs, left[u], need)
       /\ Paid(longs, h.strike, n[h], left[u \ {h}], pays[u \ {h}], left[u], need, pays[u])

\* Puts with their contracts, what they may use and the order they come in.
AreOrdered(longs, shorts, q, n, A, key) ==
  /\ q = [l \in longs |-> l.qty] /\ n = [s \in shorts |-> -s.qty]
  /\ A = [s \in shorts |-> Above(longs, s)] /\ key = [s \in shorts |-> 0 - s.strike]

\* The payout is that of such a matching.
SpreadPays(paid, longs, shorts, q, n, A, key) ==
  \E left, pays : IsSpread(left, pays, longs, q, n, A, shorts, key) /\ paid = pays[shorts]

\* What is left and paid after some of the short puts.
IsPart(g, longs, u) ==
  \E before \in [longs -> Nat], paid \in Nat : g[u] = [left |-> before, pays |-> paid]

\* The payout is that of greedy matching, from the lowest strike up.
LEMMA PayoutOfSpreads ==
  ASSUME NEW puts, NEW longs, longs = {l \in puts : l.qty > 0},
         NEW shorts, shorts = {l \in puts : l.qty < 0}, AreSpreads(longs, shorts),
         NEW q, NEW n, NEW A, NEW key, AreOrdered(longs, shorts, q, n, A, key)
  PROVE  /\ IsMarket(longs, q, n, A, shorts, key)
         /\ SpreadPays(V!Payout(puts), longs, shorts, q, n, A, key)
<1>1. /\ IsFiniteSet(longs) /\ IsFiniteSet(shorts)
      /\ \A l \in longs : l.strike \in Nat /\ l.qty \in Nat
      /\ \A s \in shorts : s.strike \in Nat /\ -s.qty \in Nat
  BY DEF AreSpreads
<1>2. /\ q = [l \in longs |-> l.qty] /\ n = [s \in shorts |-> -s.qty]
      /\ A = [s \in shorts |-> Above(longs, s)] /\ key = [s \in shorts |-> 0 - s.strike]
  BY DEF AreOrdered
<1>3. IsMarket(longs, q, n, A, shorts, key)
  <2>1. q \in [longs -> Nat] /\ n \in [shorts -> Nat] /\ key \in [shorts -> Int]
    BY <1>1, <1>2
  <2>2. A \in [shorts -> SUBSET longs]
    BY <1>2 DEF Above
  <2>3. \A r, s \in shorts : key[r] <= key[s] => A[r] \subseteq A[s]
    <3> SUFFICES ASSUME NEW r \in shorts, NEW s \in shorts, key[r] <= key[s]
                 PROVE  Above(longs, r) \subseteq Above(longs, s)
      BY <1>2
    <3>1. s.strike <= r.strike
      BY <1>1, <1>2
    <3> QED BY <1>1, <3>1 DEF Above
  <2> QED BY <1>1, <2>1, <2>2, <2>3 DEF IsMarket
<1>4. PICK g : g = (CHOOSE h : IsPayout(h, longs, shorts))
  OBVIOUS
<1>5. IsPayout(g, longs, shorts)
  <2>1. \E h : IsPayout(h, longs, shorts)
    BY PayoutExists
  <2> QED BY <1>4, <2>1
<1>6. V!Payout(puts) = g[shorts].pays
  BY <1>4, PayoutByRecursion
<1>7. \A u \in SUBSET shorts : u # {} =>
        /\ V!Lowest(u) \in u /\ \A s \in u : V!Lowest(u).strike <= s.strike
        /\ g[u] = V!PairShort(longs, g[u \ {V!Lowest(u)}], V!Lowest(u))
  <2> SUFFICES ASSUME NEW u \in SUBSET shorts, u # {}
               PROVE  /\ V!Lowest(u) \in u /\ \A s \in u : V!Lowest(u).strike <= s.strike
                      /\ g[u] = V!PairShort(longs, g[u \ {V!Lowest(u)}], V!Lowest(u))
    OBVIOUS
  <2>1. IsFiniteSet(u) /\ \A i \in u : i.strike \in Nat
    BY <1>1, FS_Subset
  <2>2. V!Lowest(u) \in u /\ \A s \in u : V!Lowest(u).strike <= s.strike
    BY <2>1, LowestOf
  <2>3. g[u] = V!PairShort(longs, g[u \ {V!Lowest(u)}], V!Lowest(u))
    BY <1>5 DEF IsPayout
  <2> QED BY <2>2, <2>3
<1>8. g[{}] = [left |-> q, pays |-> 0]
  BY <1>2, <1>5 DEF IsPayout
<1>9. \A u \in SUBSET shorts : IsPart(g, longs, u)
  <2>1. PICK F : F = {u \in SUBSET shorts : ~IsPart(g, longs, u)}
    OBVIOUS
  <2>2. SUFFICES ASSUME F # {} PROVE FALSE
    BY <2>1
  <2>3. PICK u \in F : \A y \in F : y \subseteq u => y = u
    <3>1. \A y \in F : y \subseteq shorts
      BY <2>1
    <3> QED BY <1>1, <2>2, <3>1, MinimalSet
  <2>4. u # {}
    <3>1. q \in [longs -> Nat] /\ 0 \in Nat
      BY <1>1, <1>2
    <3>2. IsPart(g, longs, {})
      BY <1>8, <3>1 DEF IsPart
    <3> QED BY <2>1, <3>2
  <2>5. PICK h, v : h = V!Lowest(u) /\ v = u \ {h}
    OBVIOUS
  <2>6. /\ u \in SUBSET shorts /\ h \in u /\ h \in shorts /\ v \in SUBSET shorts /\ v \notin F
        /\ g[u] = V!PairShort(longs, g[v], h)
    BY <1>7, <2>1, <2>3, <2>4, <2>5
  <2>7. IsPart(g, longs, v)
    BY <2>1, <2>6
  <2>8. PICK before \in [longs -> Nat], paid \in Nat : g[v] = [left |-> before, pays |-> paid]
    BY <2>7 DEF IsPart
  <2>9. Pairs(longs, before, paid, h)
    BY <2>6, PairShortPairs
  <2>10. PICK after, need, now :
           /\ Taken(longs, before, -h.qty, Above(longs, h), longs, after, need)
           /\ Paid(longs, h.strike, -h.qty, before, paid, after, need, now)
           /\ g[u] = [left |-> after, pays |-> now]
    BY <2>6, <2>8, <2>9 DEF Pairs
  <2>11. after \in [longs -> Nat] /\ now \in Nat
    BY <2>10 DEF Taken, Paid
  <2>12. IsPart(g, longs, u)
    BY <2>10, <2>11 DEF IsPart
  <2> QED BY <2>1, <2>3, <2>12
<1>10. PICK left, pays : /\ left = [u \in SUBSET shorts |-> g[u].left]
                         /\ pays = [u \in SUBSET shorts |-> g[u].pays]
  OBVIOUS
<1>11. \A u \in SUBSET shorts : g[u].left \in [longs -> Nat] /\ g[u].pays \in Nat
  <2> SUFFICES ASSUME NEW u \in SUBSET shorts PROVE g[u].left \in [longs -> Nat] /\ g[u].pays \in Nat
    OBVIOUS
  <2>1. IsPart(g, longs, u)
    BY <1>9
  <2>2. PICK before \in [longs -> Nat], paid \in Nat : g[u] = [left |-> before, pays |-> paid]
    BY <2>1 DEF IsPart
  <2> QED BY <2>2
<1>12. left \in [SUBSET shorts -> [longs -> Nat]] /\ pays \in [SUBSET shorts -> Nat]
  BY <1>10, <1>11
<1>13. left[{}] = q /\ pays[{}] = 0
  BY <1>8, <1>10
<1>14. ASSUME NEW u \in SUBSET shorts, u # {}
       PROVE  \E h \in u, need \in Nat :
                /\ \A s \in u : key[s] <= key[h]
                /\ Taken(longs, left[u \ {h}], n[h], A[h], longs, left[u], need)
                /\ Paid(longs, h.strike, n[h], left[u \ {h}], pays[u \ {h}], left[u], need, pays[u])
  <2>1. PICK h, v : h = V!Lowest(u) /\ v = u \ {h}
    OBVIOUS
  <2>2. /\ h \in u /\ h \in shorts /\ v \in SUBSET shorts
        /\ g[u] = V!PairShort(longs, g[v], h)
        /\ \A s \in u : h.strike <= s.strike
    BY <1>7, <1>14, <2>1
  <2>3. IsPart(g, longs, v)
    BY <1>9, <2>2
  <2>4. PICK before \in [longs -> Nat], paid \in Nat : g[v] = [left |-> before, pays |-> paid]
    BY <2>3 DEF IsPart
  <2>5. Pairs(longs, before, paid, h)
    BY <2>2, PairShortPairs
  <2>6. PICK after, need, now :
          /\ Taken(longs, before, -h.qty, Above(longs, h), longs, after, need)
          /\ Paid(longs, h.strike, -h.qty, before, paid, after, need, now)
          /\ g[u] = [left |-> after, pays |-> now]
    BY <2>2, <2>4, <2>5 DEF Pairs
  <2>7. left[v] = before /\ left[u] = after /\ pays[v] = paid /\ pays[u] = now
    BY <1>10, <2>2, <2>4, <2>6
  <2>8. n[h] = -h.qty /\ A[h] = Above(longs, h)
    BY <1>2, <2>2
  <2>9. Taken(longs, left[v], n[h], A[h], longs, left[u], need)
    BY <2>6, <2>7, <2>8
  <2>10. Paid(longs, h.strike, n[h], left[v], pays[v], left[u], need, pays[u])
    BY <2>6, <2>7, <2>8
  <2>11. need \in Nat
    <3>1. n[h] \in Nat
      BY <1>1, <2>2, <2>8
    <3> QED BY <2>9, <3>1 DEF Taken
  <2>12. \A s \in u : key[s] <= key[h]
    <3> SUFFICES ASSUME NEW s \in u PROVE key[s] <= key[h]
      OBVIOUS
    <3>1. s \in shorts /\ h.strike <= s.strike /\ key[s] = 0 - s.strike /\ key[h] = 0 - h.strike
      BY <1>2, <2>2
    <3>2. s.strike \in Int /\ h.strike \in Int
      BY <1>1, <2>2, <3>1
    <3> QED BY <3>1, <3>2
  <2> QED BY <2>1, <2>2, <2>9, <2>10, <2>11, <2>12
<1>15. IsSpread(left, pays, longs, q, n, A, shorts, key)
  BY <1>12, <1>13, <1>14 DEF IsSpread
<1>16. V!Payout(puts) = pays[shorts]
  <2>1. shorts \in SUBSET shorts
    OBVIOUS
  <2> QED BY <1>6, <1>10, <2>1
<1> QED BY <1>3, <1>15, <1>16 DEF SpreadPays

\* Who is met can be read off what is left.
LEMMA SpreadMatches ==
  ASSUME NEW L, NEW q, NEW n, NEW A, NEW Z, NEW key, IsMarket(L, q, n, A, Z, key),
         \A r, s \in Z : key[r] = key[s] => r = s,
         NEW left, NEW pays, IsSpread(left, pays, L, q, n, A, Z, key)
  PROVE  \E met : IsMatching(left, met, L, q, n, A, Z, key)
<1>1. /\ IsFiniteSet(L) /\ IsFiniteSet(Z) /\ n \in [Z -> Nat]
      /\ A \in [Z -> SUBSET L] /\ key \in [Z -> Int]
  BY DEF IsMarket
<1>2. left \in [SUBSET Z -> [L -> Nat]] /\ left[{}] = q
  BY DEF IsSpread
<1>3. PICK want : want = [u \in SUBSET Z |-> [s \in Z |->
        Sum(left[u], A[s]) + n[s] - Sum(left[u \ {s}], A[s])]]
  OBVIOUS
<1>4. PICK upTo : upTo = [u \in SUBSET Z |-> [s \in Z |-> {r \in u : key[r] <= key[s]}]]
  OBVIOUS
<1>5. PICK met : met = [u \in SUBSET Z |-> {s \in u : want[upTo[u][s]][s] = 0}]
  OBVIOUS
<1>6. met[{}] = {}
  BY <1>5
<1>7. ASSUME NEW u \in SUBSET Z, u # {}
      PROVE  \E h \in u, need \in Nat :
               /\ \A s \in u : key[s] <= key[h]
               /\ Taken(L, left[u \ {h}], n[h], A[h], L, left[u], need)
               /\ met[u] = met[u \ {h}] \union {s \in {h} : need = 0}
  <2>1. PICK h \in u, need \in Nat :
          /\ \A s \in u : key[s] <= key[h]
          /\ Taken(L, left[u \ {h}], n[h], A[h], L, left[u], need)
    BY <1>7 DEF IsSpread
  <2>2. PICK v : v = u \ {h}
    OBVIOUS
  <2>3. h \in Z /\ v \in SUBSET Z /\ u = v \union {h} /\ h \notin v
    BY <2>2
  <2>4. want[u][h] = need
    <3>1. Sum(left[u], A[h]) + n[h] = Sum(left[v], A[h]) + need
      BY <2>1, <2>2 DEF Taken
    <3>2. IsFiniteSet(A[h]) /\ A[h] \subseteq L
      BY <1>1, <2>3, FS_Subset
    <3>3. left[u] \in [L -> Nat] /\ left[v] \in [L -> Nat] /\ n[h] \in Int
      BY <1>1, <1>2, <2>3
    <3>4. (\A l \in A[h] : left[u][l] \in Int) /\ \A l \in A[h] : left[v][l] \in Int
      BY <3>2, <3>3
    <3>5. Sum(left[u], A[h]) \in Int
      BY <3>2, <3>4, SumType
    <3>6. Sum(left[v], A[h]) \in Int
      BY <3>2, <3>4, SumType
    <3>7. want[u][h] = Sum(left[u], A[h]) + n[h] - Sum(left[v], A[h])
      BY <1>3, <2>2, <2>3
    <3> QED BY <3>1, <3>3, <3>5, <3>6, <3>7
  <2>5. upTo[u][h] = u
    BY <1>4, <2>1, <2>3
  <2>6. \A s \in v : upTo[u][s] = upTo[v][s]
    <3> SUFFICES ASSUME NEW s \in v PROVE upTo[u][s] = upTo[v][s]
      OBVIOUS
    <3>1. s \in Z /\ s # h /\ s \in u
      BY <2>3
    <3>2. key[s] \in Int /\ key[h] \in Int /\ key[s] # key[h] /\ key[s] <= key[h]
      BY <1>1, <2>1, <2>3, <3>1
    <3>3. ~(key[h] <= key[s])
      BY <3>2
    <3>4. upTo[u][s] = {r \in u : key[r] <= key[s]} /\ upTo[v][s] = {r \in v : key[r] <= key[s]}
      BY <1>4, <2>3, <3>1
    <3> QED BY <2>3, <3>3, <3>4
  <2>7. met[u] = met[v] \union {s \in {h} : need = 0}
    <3>1. met[u] = {s \in u : want[upTo[u][s]][s] = 0} /\ met[v] = {s \in v : want[upTo[v][s]][s] = 0}
      BY <1>5, <2>3
    <3>2. h \in met[u] <=> need = 0
      BY <2>3, <2>4, <2>5, <3>1
    <3>3. \A s \in v : s \in met[u] <=> s \in met[v]
      BY <2>3, <2>6, <3>1
    <3>4. met[u] \subseteq u /\ met[v] \subseteq v
      BY <3>1
    <3> QED BY <2>3, <3>2, <3>3, <3>4
  <2> QED BY <2>1, <2>2, <2>7
<1>8. IsMatching(left, met, L, q, n, A, Z, key)
  BY <1>2, <1>6, <1>7 DEF IsMatching
<1> QED BY <1>8

\* What fits, fits when there is less of it.
LEMMA FitsPart ==
  ASSUME NEW L, NEW q, NEW n, NEW A, NEW Z, NEW key, IsMarket(L, q, n, A, Z, key),
         Fits(Z, q, n, A, key), NEW u \in SUBSET Z
  PROVE  Fits(u, q, n, A, key)
<1> SUFFICES ASSUME NEW s \in u
             PROVE  Sum(n, {r \in u : key[r] <= key[s]}) <= Sum(q, A[s])
  BY DEF Fits
<1>1. /\ IsFiniteSet(L) /\ IsFiniteSet(Z) /\ n \in [Z -> Nat] /\ q \in [L -> Nat]
      /\ A \in [Z -> SUBSET L] /\ s \in Z
  BY DEF IsMarket
<1>2. PICK X, Y : X = {r \in u : key[r] <= key[s]} /\ Y = {r \in Z : key[r] <= key[s]}
  OBVIOUS
<1>3. IsFiniteSet(Y) /\ (\A x \in Y : n[x] \in Nat) /\ X \in SUBSET Y
  BY <1>1, <1>2, FS_Subset
<1>4. Sum(n, X) <= Sum(n, Y)
  BY <1>3, SumOfPart
<1>5. Sum(n, Y) <= Sum(q, A[s])
  BY <1>1, <1>2 DEF Fits
<1>6. IsFiniteSet(X) /\ (\A x \in X : n[x] \in Int) /\ \A x \in Y : n[x] \in Int
  BY <1>3, FS_Subset
<1>7. Sum(n, X) \in Int
  BY <1>6, SumType
<1>8. Sum(n, Y) \in Int
  BY <1>3, <1>6, SumType
<1>9. Sum(q, A[s]) \in Int
  <2>1. IsFiniteSet(A[s]) /\ \A l \in A[s] : q[l] \in Int
    BY <1>1, FS_Subset
  <2> QED BY <2>1, SumType
<1>10. Sum(n, X) <= Sum(q, A[s])
  BY <1>4, <1>5, <1>7, <1>8, <1>9
<1> QED BY <1>2, <1>10

\* When they all fit, nothing that is needed is missing, and what is paid is what
\* was used less what the short puts cost.
LEMMA PaidInFull ==
  ASSUME NEW L, NEW q, NEW n, NEW A, NEW Z, NEW key, IsMarket(L, q, n, A, Z, key),
         \A r, s \in Z : key[r] = key[s] => r = s, \A l \in L : l.strike \in Nat,
         \A s \in Z : s.strike \in Nat,
         NEW left, NEW pays, IsSpread(left, pays, L, q, n, A, Z, key),
         Fits(Z, q, n, A, key), NEW cost, cost = [s \in Z |-> n[s] * s.strike]
  PROVE  /\ pays[Z] + Value(left[Z], L) + Sum(cost, Z) = Value(q, L)
         /\ Sum(n, Z) + Sum(left[Z], L) = Sum(q, L)
<1>1. /\ IsFiniteSet(L) /\ IsFiniteSet(Z) /\ q \in [L -> Nat] /\ n \in [Z -> Nat]
      /\ A \in [Z -> SUBSET L] /\ key \in [Z -> Int]
  BY DEF IsMarket
<1>2. /\ left \in [SUBSET Z -> [L -> Nat]] /\ left[{}] = q
      /\ pays \in [SUBSET Z -> Nat] /\ pays[{}] = 0
  BY DEF IsSpread
<1>3. PICK met : IsMatching(left, met, L, q, n, A, Z, key)
  BY SpreadMatches
<1>4. \A u \in SUBSET Z : Sum(n, u) + Sum(left[u], L) = Sum(q, L)
  <2> SUFFICES ASSUME NEW u \in SUBSET Z PROVE Sum(n, u) + Sum(left[u], L) = Sum(q, L)
    OBVIOUS
  <2>1. Fits(u, q, n, A, key)
    BY FitsPart
  <2>2. AllMet(u, left, met, L, q, n, A)
    BY <1>3, <2>1, MetAll
  <2>3. L \in SUBSET L /\ \A s \in u : A[s] \subseteq L
    BY <1>1
  <2> QED BY <2>2, <2>3 DEF AllMet
<1>5. \A s \in Z : cost[s] \in Int
  <2> SUFFICES ASSUME NEW s \in Z PROVE n[s] * s.strike \in Int
    OBVIOUS
  <2>1. n[s] \in Int /\ s.strike \in Int
    BY <1>1
  <2> QED BY <2>1, Distributes
<1>6. PICK F : F = {u \in SUBSET Z : pays[u] + Value(left[u], L) + Sum(cost, u) # Value(q, L)}
  OBVIOUS
<1>7. ASSUME F # {} PROVE FALSE
  <2>1. \A u \in F : u \subseteq Z
    BY <1>6
  <2>2. PICK u \in F : \A y \in F : y \subseteq u => y = u
    BY <1>1, <1>7, <2>1, MinimalSet
  <2>3. u \in SUBSET Z
    BY <2>1
  <2>4. u # {}
    <3>1. Sum(cost, {}) = 0
      BY FS_EmptySet, SumUnfolds
    <3>2. Value(q, L) \in Nat
      BY <1>1, ValueType
    <3>3. pays[{}] + Value(left[{}], L) + Sum(cost, {}) = Value(q, L)
      BY <1>2, <3>1, <3>2
    <3> QED BY <1>6, <3>3
  <2>5. PICK h \in u, need \in Nat :
          /\ Taken(L, left[u \ {h}], n[h], A[h], L, left[u], need)
          /\ Paid(L, h.strike, n[h], left[u \ {h}], pays[u \ {h}], left[u], need, pays[u])
    BY <2>3, <2>4 DEF IsSpread
  <2>6. PICK v : v = u \ {h}
    OBVIOUS
  <2>7. /\ h \in Z /\ v \in SUBSET Z /\ u = v \union {h} /\ h \notin v /\ v \notin F
        /\ IsFiniteSet(u) /\ IsFiniteSet(v)
    BY <1>1, <2>2, <2>3, <2>6, FS_Subset
  <2>8. /\ Taken(L, left[v], n[h], A[h], L, left[u], need)
        /\ Paid(L, h.strike, n[h], left[v], pays[v], left[u], need, pays[u])
    BY <2>5, <2>6
  <2>9. pays[v] + Value(left[v], L) + Sum(cost, v) = Value(q, L)
    BY <1>6, <2>7
  <2>10. /\ left[u] \in [L -> Nat] /\ left[v] \in [L -> Nat] /\ n[h] \in Nat /\ A[h] \subseteq L
         /\ pays[u] \in Nat /\ pays[v] \in Nat /\ h.strike \in Int
    BY <1>1, <1>2, <2>3, <2>7
  <2>11. need = 0
    <3>1. Sum(left[u], L) + n[h] = Sum(left[v], L) + need
      BY <1>1, <2>8, <2>10, TakenFromMore
    <3>2. Sum(n, u) + Sum(left[u], L) = Sum(q, L) /\ Sum(n, v) + Sum(left[v], L) = Sum(q, L)
      BY <1>4, <2>3, <2>7
    <3>3. Sum(n, u) = n[h] + Sum(n, v)
      <4>1. \A s \in u : n[s] \in Int
        BY <1>1, <2>3
      <4> QED BY <2>6, <2>7, <4>1, SumSplit
    <3>4. Sum(n, v) \in Int
      <4>1. \A s \in v : n[s] \in Int
        BY <1>1, <2>7
      <4> QED BY <2>7, <4>1, SumType
    <3>5. (\A l \in L : left[u][l] \in Int) /\ \A l \in L : left[v][l] \in Int
      BY <2>10
    <3>6. Sum(left[u], L) \in Int
      BY <1>1, <3>5, SumType
    <3>7. Sum(left[v], L) \in Int
      BY <1>1, <3>5, SumType
    <3>8. PICK nu, nv, lu, lv, nh : /\ nu = Sum(n, u) /\ nv = Sum(n, v) /\ lu = Sum(left[u], L)
            /\ lv = Sum(left[v], L) /\ nh = n[h]
      OBVIOUS
    <3>9. nv \in Int /\ lu \in Int /\ lv \in Int /\ nh \in Int
      BY <2>10, <3>4, <3>6, <3>7, <3>8
    <3>10. lu + nh = lv + need /\ nu + lu = nv + lv /\ nu = nh + nv
      BY <3>1, <3>2, <3>3, <3>8
    <3> QED BY <3>9, <3>10
  <2>12. pays[u] + Value(left[u], L) = pays[v] + Value(left[v], L) - n[h] * h.strike
    <3>1. pays[u] + Value(left[u], L) - need * h.strike = pays[v] + Value(left[v], L) - n[h] * h.strike
      BY <2>8 DEF Paid
    <3>2. need * h.strike = 0
      BY <2>10, <2>11, Distributes
    <3>3. Value(left[u], L) \in Nat
      BY <1>1, <2>10, ValueType
    <3> QED BY <2>10, <3>1, <3>2, <3>3
  <2>13. Sum(cost, u) = n[h] * h.strike + Sum(cost, v)
    <3>1. \A s \in u : cost[s] \in Int
      BY <1>5, <2>3
    <3>2. PICK f : f = cost
      OBVIOUS
    <3>3. h \in u /\ IsFiniteSet(u) /\ v = u \ {h}
      BY <2>6, <2>7
    <3>4. \A s \in u : f[s] \in Int
      BY <3>1, <3>2
    <3>5. Sum(f, u) = f[h] + Sum(f, v)
      BY <3>3, <3>4, SumSplit
    <3>6. f[h] = n[h] * h.strike
      BY <2>7, <3>2
    <3> QED BY <3>2, <3>5, <3>6
  <2>14. Sum(cost, v) \in Int
    <3>1. \A s \in v : cost[s] \in Int
      BY <1>5, <2>7
    <3> QED BY <2>7, <3>1, SumType
  <2>15. Value(left[v], L) \in Nat
    BY <1>1, <2>10, ValueType
  <2>16. Value(left[u], L) \in Nat
    BY <1>1, <2>10, ValueType
  <2>17. n[h] * h.strike \in Int
    BY <2>10, Distributes
  <2>18. PICK pu, pv, vu, vv, c, cu, cv, w : /\ pu = pays[u] /\ pv = pays[v]
           /\ vu = Value(left[u], L) /\ vv = Value(left[v], L) /\ c = n[h] * h.strike
           /\ cu = Sum(cost, u) /\ cv = Sum(cost, v) /\ w = Value(q, L)
    OBVIOUS
  <2>19. pu \in Int /\ pv \in Int /\ vu \in Int /\ vv \in Int /\ c \in Int /\ cv \in Int
    BY <2>10, <2>14, <2>15, <2>16, <2>17, <2>18
  <2>20. pv + vv + cv = w /\ pu + vu = pv + vv - c /\ cu = c + cv
    BY <2>9, <2>12, <2>13, <2>18
  <2>21. pu + vu + cu = w
    BY <2>19, <2>20
  <2> QED BY <1>6, <2>2, <2>18, <2>21
<1>8. Z \in SUBSET Z
  OBVIOUS
<1>9. pays[Z] + Value(left[Z], L) + Sum(cost, Z) = Value(q, L)
  BY <1>6, <1>7, <1>8
<1> QED BY <1>4, <1>8, <1>9

\* The sum of the opposites is the opposite of the sum.
LEMMA SumOpposite ==
  ASSUME NEW Z, IsFiniteSet(Z), NEW f, NEW g, \A x \in Z : f[x] \in Int /\ g[x] = 0 - f[x]
  PROVE  Sum(g, Z) = 0 - Sum(f, Z)
<1>1. PICK F : F = {u \in SUBSET Z : Sum(g, u) # 0 - Sum(f, u)}
  OBVIOUS
<1>2. ASSUME F # {} PROVE FALSE
  <2>1. \A u \in F : u \subseteq Z
    BY <1>1
  <2>2. PICK u \in F : \A y \in F : y \subseteq u => y = u
    BY <1>2, <2>1, MinimalSet
  <2>3. u \in SUBSET Z /\ IsFiniteSet(u)
    BY <2>1, FS_Subset
  <2>4. (\A x \in u : f[x] \in Int) /\ \A x \in u : g[x] \in Int
    BY <2>3
  <2>5. u # {}
    <3>1. IsFiniteSet({})
      BY FS_EmptySet
    <3>2. Sum(f, {}) = 0
      BY <3>1, SumUnfolds
    <3>3. Sum(g, {}) = 0
      BY <3>1, SumUnfolds
    <3> QED BY <1>1, <3>2, <3>3
  <2>6. PICK x \in u : TRUE
    BY <2>5
  <2>7. PICK v : v = u \ {x}
    OBVIOUS
  <2>8. Sum(f, u) = f[x] + Sum(f, v)
    BY <2>3, <2>4, <2>7, SumSplit
  <2>9. Sum(g, u) = g[x] + Sum(g, v)
    BY <2>3, <2>4, <2>7, SumSplit
  <2>10. v \in SUBSET Z /\ v \notin F /\ IsFiniteSet(v) /\ \A y \in v : f[y] \in Int
    BY <2>2, <2>3, <2>4, <2>7, FS_Subset
  <2>11. Sum(g, v) = 0 - Sum(f, v)
    BY <1>1, <2>10
  <2>12. Sum(f, v) \in Int
    BY <2>10, SumType
  <2>13. f[x] \in Int /\ g[x] = 0 - f[x]
    BY <2>3
  <2>14. Sum(g, u) = 0 - Sum(f, u)
    BY <2>8, <2>9, <2>11, <2>12, <2>13
  <2> QED BY <1>1, <2>14
<1> QED BY <1>1, <1>2

\* The sums of BookViews are those of this module.
LEMMA PutSums ==
  ASSUME NEW Z, NEW f
  PROVE  /\ (\A l \in Z : f[l] = V!Abs(l.qty)) => V!Total(LAMBDA l : V!Abs(l.qty), Z) = Sum(f, Z)
         /\ (\A l \in Z : f[l] = l.qty) => V!Total(LAMBDA l : l.qty, Z) = Sum(f, Z)
         /\ (\A l \in Z : f[l] = l.qty * V!Max({0, l.strike - 0})) => V!Worth(Z, 0) = Sum(f, Z)
<1>1. ASSUME \A l \in Z : f[l] = V!Abs(l.qty)
      PROVE  V!Total(LAMBDA l : V!Abs(l.qty), Z) = Sum(f, Z)
  <2> DEFINE Adds(g) ==
        g = [s \in SUBSET Z |->
               IF s = {} THEN 0
               ELSE V!Abs((CHOOSE z \in s : TRUE).qty) + g[s \ {CHOOSE z \in s : TRUE}]]
  <2>1. V!Total(LAMBDA l : V!Abs(l.qty), Z) = (CHOOSE g : Adds(g))[Z]
    BY DEF V!Total, V!MapThenSumSet, V!MapThenFoldSet
  <2>2. \A g : Adds(g) <=> IsSum(g, f, Z)
    <3>1. \A s \in SUBSET Z : s # {} => f[CHOOSE z \in s : TRUE] = V!Abs((CHOOSE z \in s : TRUE).qty)
      BY <1>1
    <3> QED BY <3>1 DEF IsSum
  <2> HIDE DEF Adds
  <2> QED BY <2>1, <2>2, SumByRecursion
<1>2. ASSUME \A l \in Z : f[l] = l.qty
      PROVE  V!Total(LAMBDA l : l.qty, Z) = Sum(f, Z)
  <2> DEFINE Adds(g) ==
        g = [s \in SUBSET Z |->
               IF s = {} THEN 0
               ELSE (CHOOSE z \in s : TRUE).qty + g[s \ {CHOOSE z \in s : TRUE}]]
  <2>1. V!Total(LAMBDA l : l.qty, Z) = (CHOOSE g : Adds(g))[Z]
    BY DEF V!Total, V!MapThenSumSet, V!MapThenFoldSet
  <2>2. \A g : Adds(g) <=> IsSum(g, f, Z)
    <3>1. \A s \in SUBSET Z : s # {} => f[CHOOSE z \in s : TRUE] = (CHOOSE z \in s : TRUE).qty
      BY <1>2
    <3> QED BY <3>1 DEF IsSum
  <2> HIDE DEF Adds
  <2> QED BY <2>1, <2>2, SumByRecursion
<1>3. ASSUME \A l \in Z : f[l] = l.qty * V!Max({0, l.strike - 0})
      PROVE  V!Worth(Z, 0) = Sum(f, Z)
  <2> DEFINE Adds(g) ==
        g = [s \in SUBSET Z |->
               IF s = {} THEN 0
               ELSE (CHOOSE z \in s : TRUE).qty * V!Max({0, (CHOOSE z \in s : TRUE).strike - 0})
                    + g[s \ {CHOOSE z \in s : TRUE}]]
  <2>1. V!Worth(Z, 0) = (CHOOSE g : Adds(g))[Z]
    BY DEF V!Worth, V!Total, V!MapThenSumSet, V!MapThenFoldSet
  <2>2. \A g : Adds(g) <=> IsSum(g, f, Z)
    <3>1. \A s \in SUBSET Z : s # {} =>
            f[CHOOSE z \in s : TRUE]
              = (CHOOSE z \in s : TRUE).qty * V!Max({0, (CHOOSE z \in s : TRUE).strike - 0})
      BY <1>3
    <3> QED BY <3>1 DEF IsSum
  <2> HIDE DEF Adds
  <2> QED BY <2>1, <2>2, SumByRecursion
<1> QED BY <1>1, <1>2, <1>3

\* Every short put has a long one above it: they all fit.
LEMMA CoveredFits ==
  ASSUME NEW puts, NEW longs, longs = {l \in puts : l.qty > 0},
         NEW shorts, shorts = {l \in puts : l.qty < 0}, AreSpreads(longs, shorts),
         \A l \in puts : l.strike \in Nat /\ l.qty \in Int,
         NEW q, NEW n, NEW A, NEW key, AreOrdered(longs, shorts, q, n, A, key), V!Covered(puts)
  PROVE  Fits(shorts, q, n, A, key)
<1> SUFFICES ASSUME NEW s \in shorts
             PROVE  Sum(n, {r \in shorts : key[r] <= key[s]}) <= Sum(q, A[s])
  BY DEF Fits
<1>1. /\ q = [l \in longs |-> l.qty] /\ n = [r \in shorts |-> -r.qty]
      /\ A = [r \in shorts |-> Above(longs, r)] /\ key = [r \in shorts |-> 0 - r.strike]
  BY DEF AreOrdered
<1>2. PICK X, Y : /\ X = {l \in puts : l.qty > 0 /\ l.strike > s.strike}
                  /\ Y = {l \in puts : l.qty < 0 /\ l.strike >= s.strike}
  OBVIOUS
<1>3. V!Total(LAMBDA l : V!Abs(l.qty), X) >= V!Total(LAMBDA l : V!Abs(l.qty), Y)
  BY <1>2 DEF V!Covered
<1>4. X = A[s] /\ X \subseteq longs
  BY <1>1, <1>2 DEF Above
<1>5. Y = {r \in shorts : key[r] <= key[s]} /\ Y \subseteq shorts
  <2>1. \A r \in shorts : key[r] <= key[s] <=> r.strike >= s.strike
    <3> SUFFICES ASSUME NEW r \in shorts PROVE key[r] <= key[s] <=> r.strike >= s.strike
      OBVIOUS
    <3>1. r.strike \in Int /\ s.strike \in Int /\ key[r] = 0 - r.strike /\ key[s] = 0 - s.strike
      BY <1>1
    <3> QED BY <3>1
  <2> QED BY <1>2, <2>1
<1>6. \A l \in X : q[l] = V!Abs(l.qty)
  BY <1>1, <1>2, <1>4 DEF V!Abs
<1>7. \A l \in Y : n[l] = V!Abs(l.qty)
  BY <1>1, <1>2, <1>5 DEF V!Abs
<1>8. V!Total(LAMBDA l : V!Abs(l.qty), X) = Sum(q, X)
  BY <1>6, PutSums
<1>9. V!Total(LAMBDA l : V!Abs(l.qty), Y) = Sum(n, Y)
  BY <1>7, PutSums
<1>10. Sum(q, X) \in Int
  <2>1. IsFiniteSet(X) /\ \A l \in X : q[l] \in Int
    BY <1>1, <1>2, <1>4, FS_Subset DEF AreSpreads
  <2> QED BY <2>1, SumType
<1>11. Sum(n, Y) \in Int
  <2>1. IsFiniteSet(Y) /\ \A l \in Y : n[l] \in Int
    BY <1>1, <1>2, <1>5, FS_Subset DEF AreSpreads
  <2> QED BY <2>1, SumType
<1>12. Sum(n, Y) <= Sum(q, X)
  BY <1>3, <1>8, <1>9, <1>10, <1>11
<1> QED BY <1>4, <1>5, <1>12

\* The long and the short ones of some puts, and what the shorts cost at their
\* strikes.
AreSides(puts, longs, shorts) ==
  /\ IsFiniteSet(puts)
  /\ \A l \in puts : l.strike \in Nat /\ l.qty \in Int /\ l.qty # 0
  /\ longs = {l \in puts : l.qty > 0}
  /\ shorts = {l \in puts : l.qty < 0}

IsCost(cost, n, shorts) == cost = [s \in shorts |-> n[s] * s.strike]

\* What the puts are worth in all, and how many contracts are long in the end.
WorthSplits(puts, longs, shorts, q, n, cost) ==
  /\ V!Worth(puts, 0) = Value(q, longs) - Sum(cost, shorts)
  /\ V!Total(LAMBDA l : l.qty, puts) = Sum(q, longs) - Sum(n, shorts)

\* Every put is a long or a short one.
LEMMA WorthOfPuts ==
  ASSUME NEW puts, NEW longs, NEW shorts, AreSides(puts, longs, shorts),
         AreSpreads(longs, shorts),
         NEW q, NEW n, NEW A, NEW key, AreOrdered(longs, shorts, q, n, A, key),
         NEW cost, IsCost(cost, n, shorts)
  PROVE  WorthSplits(puts, longs, shorts, q, n, cost)
<1> USE DEF AreSides, IsCost
<1>1. /\ IsFiniteSet(longs) /\ IsFiniteSet(shorts) /\ longs \intersect shorts = {}
      /\ puts = longs \union shorts
      /\ q = [l \in longs |-> l.qty] /\ n = [s \in shorts |-> -s.qty]
  BY DEF AreSpreads, AreOrdered
<1>2. PICK f, g : f = [l \in puts |-> l.qty * l.strike] /\ g = [l \in puts |-> l.qty]
  OBVIOUS
<1>3. \A l \in puts : f[l] \in Int /\ g[l] \in Int /\ f[l] = l.qty * V!Max({0, l.strike - 0})
  <2> SUFFICES ASSUME NEW l \in puts
               PROVE  f[l] \in Int /\ g[l] \in Int /\ f[l] = l.qty * V!Max({0, l.strike - 0})
    OBVIOUS
  <2>1. l.qty \in Int /\ l.strike \in Int
    OBVIOUS
  <2>2. l.qty * l.strike \in Int
    BY <2>1, Distributes
  <2>3. V!Max({0, l.strike - 0}) = l.strike
    <3>1. PICK k \in Nat : k = l.strike - 0 /\ k = l.strike
      OBVIOUS
    <3>2. Max({0, k}) = k
      BY <3>1, MaxOfTwo
    <3>3. V!Max({0, k}) = k
      BY <3>2 DEF V!Max, Max
    <3> QED BY <3>1, <3>3
  <2> QED BY <1>2, <2>1, <2>2, <2>3
<1>4. V!Worth(puts, 0) = Sum(f, puts)
  BY <1>3, PutSums
<1>5. V!Total(LAMBDA l : l.qty, puts) = Sum(g, puts)
  BY <1>2, PutSums
<1>6. Sum(f, puts) = Sum(f, longs) + Sum(f, shorts)
  <2>1. \A l \in longs \union shorts : f[l] \in Int
    BY <1>1, <1>3
  <2>2. Sum(f, longs \union shorts) = Sum(f, longs) + Sum(f, shorts)
    BY <1>1, <2>1, SumUnion
  <2> QED BY <1>1, <2>2
<1>7. Sum(g, puts) = Sum(g, longs) + Sum(g, shorts)
  <2>1. \A l \in longs \union shorts : g[l] \in Int
    BY <1>1, <1>3
  <2>2. Sum(g, longs \union shorts) = Sum(g, longs) + Sum(g, shorts)
    BY <1>1, <2>1, SumUnion
  <2> QED BY <1>1, <2>2
<1>8. Sum(f, longs) = Value(q, longs) /\ Sum(f, longs) \in Int
  <2>1. PICK x : x = [l \in longs |-> q[l] * l.strike]
    OBVIOUS
  <2>2. (\A l \in longs : f[l] = x[l]) /\ \A l \in longs : f[l] \in Int
    BY <1>1, <1>2, <1>3, <2>1
  <2>3. Sum(f, longs) = Sum(x, longs)
    BY <1>1, <2>2, SumEqual
  <2>4. Sum(f, longs) \in Int
    BY <1>1, <2>2, SumType
  <2> QED BY <2>1, <2>3, <2>4 DEF Value
<1>9. Sum(g, longs) = Sum(q, longs) /\ Sum(g, longs) \in Int
  <2>1. (\A l \in longs : g[l] = q[l]) /\ \A l \in longs : g[l] \in Int
    BY <1>1, <1>2, <1>3
  <2>2. Sum(g, longs) = Sum(q, longs)
    BY <1>1, <2>1, SumEqual
  <2>3. Sum(g, longs) \in Int
    BY <1>1, <2>1, SumType
  <2> QED BY <2>2, <2>3
<1>10. Sum(f, shorts) = 0 - Sum(cost, shorts) /\ Sum(cost, shorts) \in Int
  <2>1. \A s \in shorts : cost[s] \in Int /\ f[s] = 0 - cost[s]
    <3> SUFFICES ASSUME NEW s \in shorts PROVE cost[s] \in Int /\ f[s] = 0 - cost[s]
      OBVIOUS
    <3>1. s.qty \in Int /\ s.strike \in Int /\ n[s] = -s.qty /\ cost[s] = n[s] * s.strike
          /\ f[s] = s.qty * s.strike
      BY <1>1, <1>2
    <3>2. (-s.qty) * s.strike = -(s.qty * s.strike) /\ s.qty * s.strike \in Int
      BY <3>1, Distributes
    <3> QED BY <3>1, <3>2
  <2>2. Sum(f, shorts) = 0 - Sum(cost, shorts)
    BY <1>1, <2>1, SumOpposite
  <2>3. \A s \in shorts : cost[s] \in Int
    BY <2>1
  <2>4. Sum(cost, shorts) \in Int
    BY <1>1, <2>3, SumType
  <2> QED BY <2>2, <2>4
<1>11. Sum(g, shorts) = 0 - Sum(n, shorts) /\ Sum(n, shorts) \in Int
  <2>1. \A s \in shorts : n[s] \in Int /\ g[s] = 0 - n[s]
    BY <1>1, <1>2
  <2>2. Sum(g, shorts) = 0 - Sum(n, shorts)
    BY <1>1, <2>1, SumOpposite
  <2>3. \A s \in shorts : n[s] \in Int
    BY <2>1
  <2>4. Sum(n, shorts) \in Int
    BY <1>1, <2>3, SumType
  <2> QED BY <2>2, <2>4
<1>12. V!Worth(puts, 0) = Value(q, longs) - Sum(cost, shorts)
  BY <1>4, <1>6, <1>8, <1>10
<1>13. V!Total(LAMBDA l : l.qty, puts) = Sum(q, longs) - Sum(n, shorts)
  BY <1>5, <1>7, <1>9, <1>11
<1> QED BY <1>12, <1>13 DEF WorthSplits

\* The payout of the put spreads of one expiry is what it says.
LEMMA SpreadsPay ==
  ASSUME NEW puts, IsFiniteSet(puts),
         \A l \in puts : l.strike \in Nat /\ l.qty \in Int /\ l.qty # 0,
         \A l, m \in puts : l.strike = m.strike => l = m
  PROVE  V!PaysWhatItSays(puts)
<1>1. PICK longs, shorts : longs = {l \in puts : l.qty > 0} /\ shorts = {l \in puts : l.qty < 0}
  OBVIOUS
<1>2. AreSpreads(longs, shorts)
  <2>1. IsFiniteSet(longs) /\ IsFiniteSet(shorts)
    BY <1>1, FS_Subset
  <2>2. \A l \in longs : l.strike \in Nat /\ l.qty \in Nat
    BY <1>1
  <2>3. \A s \in shorts : s.strike \in Nat /\ -s.qty \in Nat
    BY <1>1
  <2>4. \A r, s \in shorts : r.strike = s.strike => r = s
    BY <1>1
  <2> QED BY <2>1, <2>2, <2>3, <2>4 DEF AreSpreads
<1>3. PICK q, n, A, key : /\ q = [l \in longs |-> l.qty] /\ n = [s \in shorts |-> -s.qty]
        /\ A = [s \in shorts |-> Above(longs, s)] /\ key = [s \in shorts |-> 0 - s.strike]
  OBVIOUS
<1>4. AreOrdered(longs, shorts, q, n, A, key)
  BY <1>3 DEF AreOrdered
<1>5. PICK cost : cost = [s \in shorts |-> n[s] * s.strike]
  OBVIOUS
<1>6. IsMarket(longs, q, n, A, shorts, key)
  BY <1>1, <1>2, <1>4, PayoutOfSpreads
<1>7. SpreadPays(V!Payout(puts), longs, shorts, q, n, A, key)
  BY <1>1, <1>2, <1>4, PayoutOfSpreads
<1>8. PICK left, pays : /\ IsSpread(left, pays, longs, q, n, A, shorts, key)
                        /\ V!Payout(puts) = pays[shorts]
  BY <1>7 DEF SpreadPays
<1>9. left[shorts] \in [longs -> Nat] /\ pays[shorts] \in Nat
  <2>1. shorts \in SUBSET shorts
    OBVIOUS
  <2> QED BY <1>8, <2>1 DEF IsSpread
<1>10. WorthSplits(puts, longs, shorts, q, n, cost)
  <2>1. AreSides(puts, longs, shorts)
    BY <1>1 DEF AreSides
  <2>2. IsCost(cost, n, shorts)
    BY <1>5 DEF IsCost
  <2> QED BY <1>2, <1>4, <2>1, <2>2, WorthOfPuts
<1>11. V!Worth(puts, 0) = Value(q, longs) - Sum(cost, shorts)
  BY <1>10 DEF WorthSplits
<1>12. V!Total(LAMBDA l : l.qty, puts) = Sum(q, longs) - Sum(n, shorts)
  BY <1>10 DEF WorthSplits
<1>13. /\ IsFiniteSet(longs) /\ IsFiniteSet(shorts)
       /\ \A l \in longs : l.strike \in Nat
       /\ \A s \in shorts : s.strike \in Nat /\ -s.qty \in Nat
  BY <1>2 DEF AreSpreads
<1>14. Value(left[shorts], longs) \in Nat
  BY <1>9, <1>13, ValueType
<1>15. Sum(cost, shorts) \in Int
  <2>1. \A s \in shorts : cost[s] \in Int
    <3> SUFFICES ASSUME NEW s \in shorts PROVE n[s] * s.strike \in Int
      BY <1>5
    <3>1. n[s] \in Int /\ s.strike \in Int
      BY <1>3, <1>13
    <3> QED BY <3>1, Distributes
  <2> QED BY <1>13, <2>1, SumType
<1>16. ASSUME V!Covered(puts)
       PROVE  /\ V!Payout(puts) <= V!Worth(puts, 0)
              /\ V!Total(LAMBDA l : l.qty, puts) = 0 => V!Payout(puts) = V!Worth(puts, 0)
  <2>1. Fits(shorts, q, n, A, key)
    BY <1>1, <1>2, <1>4, <1>16, CoveredFits
  <2>2. \A r, s \in shorts : key[r] = key[s] => r = s
    <3> SUFFICES ASSUME NEW r \in shorts, NEW s \in shorts, key[r] = key[s] PROVE r = s
      OBVIOUS
    <3>1. r.strike \in Int /\ s.strike \in Int /\ key[r] = 0 - r.strike /\ key[s] = 0 - s.strike
      BY <1>3, <1>13
    <3>2. \A i, j \in Int : 0 - i = 0 - j => i = j
      OBVIOUS
    <3>3. r.strike = s.strike
      BY <3>1, <3>2
    <3> QED BY <1>2, <3>3 DEF AreSpreads
  <2>3. pays[shorts] + Value(left[shorts], longs) + Sum(cost, shorts) = Value(q, longs)
    BY <1>5, <1>6, <1>8, <1>13, <2>1, <2>2, PaidInFull
  <2>4. Sum(n, shorts) + Sum(left[shorts], longs) = Sum(q, longs)
    BY <1>5, <1>6, <1>8, <1>13, <2>1, <2>2, PaidInFull
  <2>5. PICK pay, v, c, w : /\ pay = pays[shorts] /\ v = Value(left[shorts], longs)
                            /\ c = Sum(cost, shorts) /\ w = V!Worth(puts, 0)
    OBVIOUS
  <2>6. pay \in Nat /\ v \in Nat /\ c \in Int
    BY <1>9, <1>14, <1>15, <2>5
  <2>7. w = (pay + v + c) - c
    BY <1>11, <2>3, <2>5
  <2>8. w = pay + v
    BY <2>6, <2>7
  <2>9. pay <= w
    BY <2>6, <2>8
  <2>10. ASSUME V!Total(LAMBDA l : l.qty, puts) = 0 PROVE v = 0
    <3>1. Sum(q, longs) - Sum(n, shorts) = 0
      BY <1>12, <2>10
    <3>2. Sum(n, shorts) \in Int
      <4>1. \A s \in shorts : n[s] \in Int
        BY <1>3, <1>13
      <4> QED BY <1>13, <4>1, SumType
    <3>3. \A l \in longs : left[shorts][l] \in Nat
      BY <1>9
    <3>4. PICK x : x = left[shorts]
      OBVIOUS
    <3>5. Sum(x, longs) \in Nat /\ \A l \in longs : x[l] <= Sum(x, longs)
      BY <1>13, <3>3, <3>4, SumNat
    <3>6. Sum(x, longs) = 0
      <4>1. PICK sn, sx, sq : sn = Sum(n, shorts) /\ sx = Sum(x, longs) /\ sq = Sum(q, longs)
        OBVIOUS
      <4>2. sn \in Int /\ sx \in Int /\ sn + sx = sq /\ sq - sn = 0
        BY <2>4, <3>1, <3>2, <3>4, <3>5, <4>1
      <4> QED BY <4>1, <4>2
    <3>7. \A l \in longs : x[l] = 0
      BY <3>3, <3>4, <3>5, <3>6
    <3>8. Value(x, longs) = 0
      BY <1>9, <1>13, <3>4, <3>7, ValueType
    <3> QED BY <2>5, <3>4, <3>8
  <2>11. V!Payout(puts) = pay
    BY <1>8, <2>5
  <2>12. V!Total(LAMBDA l : l.qty, puts) = 0 => pay = w
    BY <2>6, <2>8, <2>10
  <2> QED BY <2>5, <2>9, <2>11, <2>12
<1>17. V!Payout(puts) >= 0
  BY <1>8, <1>9
<1> QED BY <1>16, <1>17 DEF V!PaysWhatItSays

\* The hedge pays what the coverage says: spreads that are covered pay no more
\* than they are worth, just that when as many puts are long as short, and never
\* less than nothing.
THEOREM HedgesPayWhatTheySay == AllSpec => []HedgePaysWhatItSays
<1>1. ASSUME GivenInv PROVE HedgePaysWhatItSays
  <2>1. SUFFICES ASSUME Given("hedge") PROVE V!PaysWhatItSays(PutsOf(given))
    BY DEF HedgePaysWhatItSays
  <2>2. given \in PutsHeld
    BY <1>1, <2>1, GivenInputs
  <2>3. given \in [1 .. 4 -> -2 .. 2]
    BY <2>2 DEF PutsHeld
  <2>4. PICK I : I = {j \in 1 .. 4 : given[j] # 0}
    OBVIOUS
  <2>5. PICK puts : puts = {[strike |-> k, qty |-> given[k]] : k \in I}
    OBVIOUS
  <2>6. \A k \in I : k \in Nat /\ given[k] \in Int /\ given[k] # 0
    BY <2>3, <2>4
  <2>7. \A l \in puts : /\ l.strike \in Nat /\ l.qty \in Int /\ l.qty # 0
                        /\ l = [strike |-> l.strike, qty |-> given[l.strike]]
    BY <2>5, <2>6
  <2>8. \A l, m \in puts : l.strike = m.strike => l = m
    BY <2>7
  <2>9. IsFiniteSet(puts)
    <3>1. 1 \in Int /\ 4 \in Int
      OBVIOUS
    <3>2. IsFiniteSet(1 .. 4)
      BY <3>1, FS_Interval
    <3>3. IsFiniteSet(I)
      BY <2>4, <3>2, FS_Subset
    <3>4. PICK f : f = [k \in I |-> [strike |-> k, qty |-> given[k]]]
      OBVIOUS
    <3>5. f \in Surjection(I, puts)
      BY <2>5, <3>4 DEF Surjection
    <3> QED BY <3>3, <3>5, FS_Surjection
  <2>10. V!PaysWhatItSays(puts)
    BY <2>7, <2>8, <2>9, SpreadsPay
  <2> QED BY <2>4, <2>5, <2>10 DEF PutsOf
<1> QED BY <1>1, GivenInvariant, PTL

================================================================================

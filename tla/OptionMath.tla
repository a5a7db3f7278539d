----------------------------- MODULE OptionMath -----------------------------
(***************************************************************************)
(* The option arithmetic of routes/options.py and the collar of            *)
(* routes/manage.py: the search for the strike of a given delta, written   *)
(* three times, the limits and the forward P&L of a position, the          *)
(* proposals for a roll and the scenario estimate.  Prices and strikes are *)
(* integers of a unit that is finer than the distance of listed strikes.   *)
(* A search stops early once it is within 0.001 of the delta, which no     *)
(* integer delta is unless it is met.  Black-Scholes is a table: call[k] is the delta of the call   *)
(* struck at k, in percent and never rising with k, and the put's is       *)
(* call[k] - 100.  A leg is [right, strike, qty, premium, expiry].         *)
(***************************************************************************)
EXTENDS Integers, FiniteSetsExt, SequencesExt

CONSTANTS Rounds,     \* the 60 or 40 rounds of a bisection
          Tick,       \* the 5 dollars the strike of a strategy is rounded to
          GridSteps,  \* the 500 steps of the price scan
          MaxDte      \* the 60 days past the target a roll may reach

Abs(n) == IF n < 0 THEN -n ELSE n
AbsDelta(call, right, k) == IF right = "C" THEN call[k] ELSE 100 - call[k]

------------------------------------------------------------------------------
(* The three searches: lo and hi close in on the strike.                   *)

\* Rounds rounds of halving; short has the strikes that are too low.
Bisect(low, high, short) ==
  LET Halve(b, i) == LET mid == (b[1] + b[2]) \div 2
                     IN IF mid \in short THEN <<mid, b[2]>> ELSE <<b[1], mid>>
      b == FoldLeft(Halve, <<low, high>>, [i \in 1 .. Rounds |-> i])
  IN (b[1] + b[2]) \div 2

\* The strikes at which a call's delta is still above the target, or a put's
\* not above it yet: a call's delta falls, a put's rises, with the strike.
TooLow(call, target, right) ==
  {k \in DOMAIN call : IF right = "C" THEN AbsDelta(call, right, k) > target
                       ELSE AbsDelta(call, right, k) <= target}

\* Rounded to the nearest multiple of n, an odd number, so that there is one.
Rounded(k, n) == n * ((k + n \div 2) \div n)

\* The variant of the code before it was told the right of the option.
TargetStrikeInverted(call, spot, target, right) ==
  Rounded(Bisect(spot \div 2, 2 * spot,
                 {k \in DOMAIN call : AbsDelta(call, right, k) < target}), Tick)

\* target_strike_by_delta.
TargetStrike(call, spot, target, right) ==
  Rounded(Bisect(spot \div 2, 2 * spot, TooLow(call, target, right)), Tick)

\* The put of a collar, between half the spot and the spot, in whole dollars,
\* which are the unit.
CollarPut(call, spot, target) == Bisect(spot \div 2, spot, TooLow(call, target, "P"))

\* strike_at_delta of the scenario estimate moves one way for both rights.
ScenarioStrike(call, spot, target, right) ==
  Bisect((3 * spot) \div 10, (18 * spot) \div 10,
         {k \in DOMAIN call : AbsDelta(call, right, k) >= target})

\* What the estimate says of one contract of a strategy: its delta, in percent.
ScenarioDelta(call, spot, strategy, qty) ==
  LET D(k) == call[k]
      Put20 == ScenarioStrike(call, spot, 20, "P")
      Call20 == ScenarioStrike(call, spot, 20, "C")
  IN qty * CASE strategy = "COVERED_CALL" -> 100 - D(Call20)
             [] strategy = "PMCC" -> D((3 * spot) \div 4) - D(Call20)
             [] strategy = "IRON_CONDOR" -> 0
             [] strategy = "JADE_LIZARD" -> D(Put20) - 100 + D(Call20)
             [] strategy = "BULL_CALL_SPREAD" -> D(spot) - D((21 * spot) \div 20)
             [] OTHER -> D(Put20) - 100  \* a CSP, and whatever it does not know

\* A strike meets a target delta when the delta of the option crosses the target
\* between it and the next one, or when it is the bound nearest to a crossing
\* that lies outside.
Meets(call, right, k, target, low, high) ==
  LET short == TooLow(call, target, right)
  IN /\ k \in low .. high - 1
     /\ k = low \/ k \in short
     /\ k + 1 = high \/ k + 1 \notin short

\* The selector and the collar sell what they say: the strike they find is the
\* one at which the delta crosses the target, rounded.
FoundStrikesMeet(call, spot, target) ==
  /\ \A right \in {"C", "P"} :
       \E k \in spot \div 2 .. 2 * spot :
         /\ Meets(call, right, k, target, spot \div 2, 2 * spot)
         /\ Abs(TargetStrike(call, spot, target, right) - k) <= Tick \div 2
  /\ Meets(call, "P", CollarPut(call, spot, target), target, spot \div 2, spot)

\* The scenario estimate does, too.
ScenarioStrikesMeet(call, spot, target) ==
  \A right \in {"C", "P"} :
    Meets(call, right, ScenarioStrike(call, spot, target, right), target,
          (3 * spot) \div 10, (18 * spot) \div 10)

------------------------------------------------------------------------------
(* The limits of a position and its P&L on a day to come.                  *)

Intrinsic(leg, p) ==
  IF leg.right = "C" THEN Max({p - leg.strike, 0}) ELSE Max({leg.strike - p, 0})
NetPremium(legs) ==
  MapThenSumSet(LAMBDA i : legs[i].premium * legs[i].qty, DOMAIN legs)

\* P&L per share when every leg has expired.
AtExpiry(legs, p) ==
  MapThenSumSet(LAMBDA i : Intrinsic(legs[i], p) * legs[i].qty, DOMAIN legs)
  - NetPremium(legs)

\* The scanned prices: from 0.3 to 2.5 times the spot.
Scan(spot) ==
  LET lo == (3 * spot) \div 10
  IN {lo + (i * ((25 * spot) \div 10 - lo)) \div GridSteps : i \in 0 .. GridSteps}

\* A result beyond ten times the premium, or a tenth of the spot, is shown as
\* unlimited.  The code's 0.99 lets the cap itself count.
Cap(legs, spot) == Max({10 * Abs(NetPremium(legs)), spot \div 10})
MaxLoss(legs, spot) ==
  LET worst == Min({AtExpiry(legs, p) : p \in Scan(spot)})
  IN IF worst > - Cap(legs, spot) THEN worst ELSE "unlimited"
MaxProfit(legs, spot) ==
  LET best == Max({AtExpiry(legs, p) : p \in Scan(spot)})
  IN IF best < Cap(legs, spot) THEN best ELSE "unlimited"

\* P&L at price p on a day: a leg is worth time[i], any value Black-Scholes
\* gives, while it lives, and its intrinsic value from its expiry on.
ForwardPnl(legs, p, day, time) ==
  MapThenSumSet(LAMBDA i : legs[i].qty
                  * (IF legs[i].expiry > day THEN time[i] ELSE Intrinsic(legs[i], p)),
                DOMAIN legs)
  - NetPremium(legs)

------------------------------------------------------------------------------
(* The proposals for a roll.  A chain is a set of [strike, dte, mid, oi,   *)
(* delta], delta in percent, or 0 when none can be computed.               *)

RollPool(chain, right, spot, current, targetDte, minOi) ==
  {o \in chain : /\ o.dte \in 14 .. targetDte + MaxDte
                 /\ o.mid > 0 /\ o.oi >= minOi /\ o.delta > 0
                 /\ IF right = "C" THEN o.strike > spot /\ o.strike >= current
                                   ELSE o.strike < spot}
Profiles(right) == IF right = "C" THEN <<30, 20, 10>> ELSE <<25, 16, 8>>

\* How far an option is from a profile: the delta twice, and the days.  Both
\* are brought to one denominator.
Distance(o, target, targetDte) ==
  2 * Abs(o.delta - target) * targetDte + 100 * Abs(o.dte - targetDte)

\* One option per profile, the nearest, of the strikes no profile has taken.
RollProposals(pool, right, targetDte) ==
  LET Propose(taken, target) ==
        LET free == {o \in pool : \A q \in ToSet(taken) : q.strike # o.strike}
        IN IF free = {} THEN taken
           ELSE Append(taken, CHOOSE o \in free : \A q \in free :
                         Distance(o, target, targetDte) <= Distance(q, target, targetDte))
  IN FoldLeft(Propose, << >>, Profiles(right))

=============================================================================

------------------------------ MODULE Evidence ------------------------------
(***************************************************************************)
(* The betting evidence both graders keep: wealth_for and wealth_against   *)
(* of atlas/strategy_lab/grading.py and eprocess_wealth of                 *)
(* scripts/grade_options_shadow.py.  A gambler bets a fraction lambda of   *)
(* the wealth on every trade, for each lambda of a grid; the wealth is the *)
(* mean over the grid.                                                     *)
(*                                                                         *)
(* Abstraction.  A return is a whole number of denominators (-1 loses the  *)
(* capital at risk), a lambda a number of hundredths, and a wealth over n  *)
(* trades is its sum over the grid in units of 100^-n.                     *)
(***************************************************************************)
EXTENDS Integers, Sequences

CONSTANTS
  Pilot,        \* WEALTH_PILOT, in tenths
  SizedLive     \* WEALTH_LIVE, in tenths

\* both bars are above the wealth a bettor begins with
ASSUME EvidenceAssumption == Pilot \in Nat /\ SizedLive \in Nat /\ 10 < Pilot /\ Pilot <= SizedLive

Lower(a, b)  == IF a <= b THEN a ELSE b
Higher(a, b) == IF a >= b THEN a ELSE b

Cap == 2                            \* R_CAP

\* LAMBDAS_CAR, LAMBDAS_BOUNDED
Lambdas(basis) == IF basis = "car" THEN <<2, 5, 10>> ELSE <<5, 10, 20>>

\* fault: the losses of a car strategy are floored as those of a bounded one
TakenFloored(basis, r) == Lower(Higher(r, -1), Cap)

\* a car return is capped above only; a bounded one cannot lose more than -1
Taken(basis, r) == IF basis = "car" THEN Lower(r, Cap) ELSE Lower(Higher(r, -1), Cap)

\* what one trade makes of 100; the floor 1e-12 is a zero
For(basis, lambda, r)     == Higher(0, 100 + lambda * Taken(basis, r))
Against(basis, lambda, r) == Higher(0, 100 - lambda * Higher(r, -1))

\* what one trade makes of 100 that are not bet
Unstaked(basis, lambda, r) == 100

\* the sum and the product of a sequence of integers, as recursive functions,
\* which proofs can unfold
Total(f) ==
  LET upTo[k \in 0 .. Len(f)] == IF k = 0 THEN 0 ELSE upTo[k - 1] + f[k]
  IN  upTo[Len(f)]

Product(f) ==
  LET upTo[k \in 0 .. Len(f)] == IF k = 0 THEN 1 ELSE upTo[k - 1] * f[k]
  IN  upTo[Len(f)]

\* What the bets on the trades at the places make, one after the other, with
\* each lambda, summed over the grid: r holds the returns by their place.
Wealth(Bet(_, _, _), basis, r, places) ==
  LET Made(lambda) ==
        Product([k \in 1 .. Len(r) |-> IF k \in places THEN Bet(basis, lambda, r[k]) ELSE 1])
  IN  Made(Lambdas(basis)[1]) + Made(Lambdas(basis)[2]) + Made(Lambdas(basis)[3])

WealthFor(basis, r, places)     == Wealth(For, basis, r, places)
WealthAgainst(basis, r, places) == Wealth(Against, basis, r, places)

\* the wealth is at least bar tenths of what it began with
Reaches(wealth, bar, basis, r, places) == 10 * wealth >= bar * Wealth(Unstaked, basis, r, places)

\* a car loss past -1/lambda_max: the bet for the strategy goes below zero
Breach(basis, r) == basis = "car" /\ r < -10

-----------------------------------------------------------------------------
(* The wealth bet for a strategy without edge is not expected to rise      *)
(* (H0: E[R] <= 0), which is what makes a nightly look at it valid: of     *)
(* trades that lose a, or win b, as often as makes nothing, the next one   *)
(* does not raise it in the mean.                                          *)
NoEdgeNoRise(basis, r, places, Losses, Gains) ==
  LET Next(x) == WealthFor(basis, Append(r, x), places \cup {Len(r) + 1})
  IN  \A a \in Losses, b \in Gains :
        ~Breach(basis, -a) /\ (basis = "car" \/ a <= 1) =>
          b * Next(-a) + a * Next(b) <= (a + b) * 100 * WealthFor(basis, r, places)
=============================================================================

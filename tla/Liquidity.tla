------------------------------ MODULE Liquidity ------------------------------
(***************************************************************************)
(* The concentrated-liquidity arithmetic of the replay engine              *)
(* (crates/backtest/src/replay.rs, struct Position) and its regime          *)
(* estimate.  A sqrt price is a positive integer that divides Grid and a    *)
(* tick is the sqrt price itself: the code only uses that one grows with    *)
(* the other.  On that grid the amounts and values below are exact, scaled  *)
(* by the powers of Grid that the comments name; no square root is taken,   *)
(* a comparison of roots is a comparison of squares.                        *)
(***************************************************************************)
EXTENDS Integers, Sequences, FiniteSetsExt

CONSTANT Grid       \* common multiple of the sqrt prices of the model

ASSUME GridAssumption == Grid \in Nat \ {0}

Clamp(x, lo, hi) == IF x < lo THEN lo ELSE IF x > hi THEN hi ELSE x
Larger(a, b)  == IF a >= b THEN a ELSE b
Smaller(a, b) == IF a <= b THEN a ELSE b
Distance(a, b) == Larger(a, b) - Smaller(a, b)

(***************************************************************************)
(* A position: the range lower..upper, opened at price `at` with `capital`  *)
(* token0.  Its liquidity is capital over the unit value at `at`.           *)
(***************************************************************************)
\* Token amounts of one unit of liquidity (token0 scaled by Grid).
Amount0(r, s) == Grid \div Clamp(s, r.lower, r.upper) - Grid \div r.upper
Amount1(r, s) == Clamp(s, r.lower, r.upper) - r.lower

\* One token1 in token0 (scaled by Grid^2): what risk_price_token0 returns.
RiskPrice(s) == (Grid \div s) * (Grid \div s)

\* Amounts marked in token0 (scaled by Grid^2), and a unit of liquidity so marked.
Mark(a0, a1, s) == a0 * Grid + a1 * RiskPrice(s)
UnitValue(r, s) == Mark(Amount0(r, s), Amount1(r, s), s)

InRange(r, s)      == r.lower <= s /\ s <= r.upper
Value(pos, s)      == (pos.capital * UnitValue(pos, s)) \div UnitValue(pos, pos.at)
Inventory1(pos, s) == (pos.capital * Grid * Grid * Amount1(pos, s)) \div UnitValue(pos, pos.at)

\* The old holdings marked at the new price, minus what the position is then worth.
AdverseSelection(r, s0, s1) == Mark(Amount0(r, s0), Amount1(r, s0), s1) - UnitValue(r, s1)

\* centered_range: the half width is at least one tick.
CenteredRange(center, half) ==
    [lower |-> center - Larger(half, 1), upper |-> center + Larger(half, 1)]

(***************************************************************************)
(* The regime estimate over the last ticks.  With m differences d, the      *)
(* variance of rolling_tick_vol is Roughness / m^2, and the trend strength  *)
(* is |displacement| / (vol * sqrt(length)), infinite on a straight move.   *)
(***************************************************************************)
Last(w, k) == LET size == Larger(k, 2)
              IN  IF Len(w) > size THEN SubSeq(w, Len(w) - size + 1, Len(w)) ELSE w

Displacement(w) == w[Len(w)] - w[1]

\* The sum of the squared moves.
Squares(w) ==
    LET upTo[j \in 0..Len(w) - 1] ==
            IF j = 0 THEN 0 ELSE upTo[j - 1] + (w[j + 1] - w[j]) * (w[j + 1] - w[j])
    IN  upTo[Len(w) - 1]

Roughness(w) == (Len(w) - 1) * Squares(w) - Displacement(w) * Displacement(w)

\* (|displacement| * m)^2 against (e * m * vol * sqrt(length))^2.
Pull(w)    == Displacement(w) * Displacement(w) * (Len(w) - 1) * (Len(w) - 1)
Push(w, e) == e * e * Len(w) * Roughness(w)

\* trend_strength >= e, and <= e, for a threshold e > 0.
Trending(w, e) == Len(w) >= 2 /\ Displacement(w) # 0 /\ Pull(w) >= Push(w, e)
Ranging(w, e)  == \/ Len(w) < 2 \/ Displacement(w) = 0
                  \/ Roughness(w) > 0 /\ Pull(w) <= Push(w, e)

\* round(k / 2 * vol) clamped to floor..cap; half an odd number is rounded up.
VolatilityWidth(w, k, floor, cap) ==
    Max({floor} \cup {h \in floor + 1 .. cap :
            Len(w) >= 2 /\ k * k * Roughness(w) >= (2 * h - 1) * (2 * h - 1) * (Len(w) - 1) * (Len(w) - 1)})
=============================================================================

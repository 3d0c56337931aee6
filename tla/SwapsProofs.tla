----------------------------- MODULE SwapsProofs -----------------------------
(***************************************************************************)
(* Theorems about the two ends of a swap's way: the sampler and the merge   *)
(* that write a normalized stream, and the replay that reads it             *)
(* (replay-normalized-swaps runs its battery on the merged file).           *)
(* The replay engine first, for streams of any length and policies with any *)
(* fee, cost, half width, threshold, band and delay: types, regime gates,   *)
(* hedges, tail metrics and the one-way exit.  Then, for a pool of any      *)
(* length and any command lines: what the files and the merged stream hold. *)
(***************************************************************************)
EXTENDS PolicyReplay, SwapSampler, FiniteSetTheorems, SequenceTheorems, WellFoundedInduction, TLAPS

USE GridAssumption

-----------------------------------------------------------------------------
(***************************************************************************)
(* Facts about the arithmetic.                                             *)
(***************************************************************************)
LEMMA HasLeast ==
    ASSUME NEW T, T \subseteq Nat, T # {}
    PROVE  \E x \in T : \A y \in T : x <= y
<1>1. PICK x \in T : \A y \in T : <<y, x>> \notin OpToRel(<, Nat)
  BY NatLessThanWellFounded, WFMin, Zenon
<1>2. \A y \in T : ~(y < x)
  BY <1>1 DEF OpToRel
<1>. QED  BY <1>2

LEMMA DivNat ==
    ASSUME NEW a \in Nat, NEW b \in Nat \ {0}
    PROVE  a \div b \in Nat
OBVIOUS

LEMMA DivInt ==
    ASSUME NEW a \in Int, NEW b \in Nat \ {0}
    PROVE  a \div b \in Int
OBVIOUS

LEMMA ProductNat ==
    ASSUME NEW a \in Nat, NEW b \in Nat
    PROVE  a * b \in Nat
OBVIOUS

\* Ticks are sqrt prices, so a quotient of Grid and one is at least one.
LEMMA GridOver ==
    ASSUME NEW s \in 1..Grid
    PROVE  Grid \div s \in Nat \ {0} /\ \A t \in Nat : t >= s => Grid \div t \in Nat /\ Grid \div t <= Grid \div s
<1>1. Grid \div s \in Nat \ {0}
  OBVIOUS
<1>2. ASSUME NEW t \in Nat, t >= s PROVE Grid \div t \in Nat /\ Grid \div t <= Grid \div s
  <2>. DEFINE a == Grid \div t
              b == Grid \div s
  <2>1. a \in Nat /\ t * a <= Grid
    BY <1>2
  <2>2. b \in Nat /\ Grid < s * b + s
    OBVIOUS
  <2>3. s * a <= t * a
    BY <1>2, <2>1
  <2>4. s * a < s * (b + 1)
    BY <2>1, <2>2, <2>3, ProductNat
  <2>5. a < b + 1
    BY <2>1, <2>2, <2>4
  <2>. QED  BY <2>1, <2>2, <2>5
<1>. QED  BY <1>1, <1>2

\* A range around the tick where it was opened, and capital in it.
Sound(pos) ==
    /\ pos \in [lower : Int, upper : Int, at : 1..Grid, capital : Nat]
    /\ pos.lower < pos.at /\ pos.at < pos.upper

LEMMA AmountsNat ==
    ASSUME NEW pos, Sound(pos), NEW s \in 1..Grid
    PROVE  Amount0(pos, s) \in Int /\ Amount1(pos, s) \in Nat /\ UnitValue(pos, s) \in Int
<1>. DEFINE c == Clamp(s, pos.lower, pos.upper)
<1>1. c \in Nat \ {0} /\ c >= pos.lower /\ pos.upper \in Nat \ {0}
  BY DEF Sound, Clamp
<1>2. Amount1(pos, s) \in Nat
  BY <1>1 DEF Amount1, Sound
<1>3. Amount0(pos, s) \in Int
  BY <1>1 DEF Amount0
<1>4. RiskPrice(s) \in Int
  BY GridOver, ProductNat DEF RiskPrice
<1>5. Amount1(pos, s) * RiskPrice(s) \in Int
  BY <1>2, <1>4
<1>. QED  BY <1>2, <1>3, <1>5 DEF UnitValue, Mark

LEMMA OpeningValue ==
    ASSUME NEW pos, Sound(pos)
    PROVE  UnitValue(pos, pos.at) \in Nat \ {0}
<1>. DEFINE s == pos.at
<1>1. s \in 1..Grid /\ pos.upper \in Nat /\ pos.upper >= s /\ Clamp(s, pos.lower, pos.upper) = s
  BY DEF Sound, Clamp
<1>2. Amount0(pos, s) \in Nat
  BY <1>1, GridOver DEF Amount0
<1>3. Amount1(pos, s) \in Nat \ {0}
  BY <1>1 DEF Amount1, Sound
<1>4. RiskPrice(s) \in Nat \ {0}
  BY <1>1, GridOver DEF RiskPrice
<1>5. Amount1(pos, s) * RiskPrice(s) \in Nat \ {0}
  BY <1>3, <1>4
<1>6. Amount0(pos, s) * Grid \in Nat
  BY <1>2, ProductNat
<1>. QED  BY <1>5, <1>6 DEF UnitValue, Mark

LEMMA ValueInt ==
    ASSUME NEW pos, Sound(pos), NEW s \in 1..Grid
    PROVE  Value(pos, s) \in Int
<1>1. pos.capital * UnitValue(pos, s) \in Int
  BY AmountsNat DEF Sound
<1>. QED  BY <1>1, OpeningValue DEF Value

LEMMA InventoryNat ==
    ASSUME NEW pos, Sound(pos), NEW s \in 1..Grid
    PROVE  Inventory1(pos, s) \in Nat
<1>1. pos.capital * Grid * Grid * Amount1(pos, s) \in Nat
  BY AmountsNat, ProductNat DEF Sound
<1>. QED  BY <1>1, OpeningValue, DivNat DEF Inventory1

-----------------------------------------------------------------------------
(***************************************************************************)
(* The regime estimate.  Sums are integers by induction over the number of  *)
(* their terms, stated with a least counterexample.                         *)
(***************************************************************************)
LEMMA SquaresInt ==
    ASSUME NEW w \in Seq(Int), Len(w) >= 1
    PROVE  Squares(w) \in Int
<1>. DEFINE m == Len(w) - 1
            d(j) == (w[j + 1] - w[j]) * (w[j + 1] - w[j])
            Defines(f) == f = [j \in 0..m |-> IF j = 0 THEN 0 ELSE f[j - 1] + d(j)]
            Upto(k, f) == f \in [0..k -> Int] /\ f[0] = 0 /\ \A j \in 1..k : f[j] = f[j - 1] + d(j)
<1>1. m \in Nat /\ \A j \in 1..m : d(j) \in Int
  <2>1. Len(w) \in Nat /\ \A j \in 1..Len(w) : w[j] \in Int
    OBVIOUS
  <2>2. \A j \in 1..m : w[j + 1] - w[j] \in Int
    BY <2>1, SMTT(60)
  <2>. QED  BY <2>1, <2>2
<1>. HIDE DEF m, d
<1>2. \A k \in 0..m : \E f : Upto(k, f)
  <2>. DEFINE T == {k \in 0..m : ~\E f : Upto(k, f)}
  <2>. SUFFICES ASSUME T # {} PROVE FALSE
    OBVIOUS
  <2>1. T \subseteq Nat
    BY <1>1
  <2>2. PICK k \in T : \A l \in T : k <= l
    BY <2>1, HasLeast
  <2>3. CASE k = 0
    <3>1. Upto(0, [j \in 0..0 |-> 0])
      OBVIOUS
    <3>. QED  BY <2>3, <3>1
  <2>4. CASE k # 0
    <3>1. k \in Nat /\ k - 1 \in 0..m /\ k \in 1..m /\ ~(k <= k - 1)
      BY <1>1, <2>4
    <3>2. k - 1 \notin T
      BY <2>2, <3>1
    <3>3. PICK f : Upto(k - 1, f)
      BY <3>1, <3>2
    <3>. DEFINE g == [j \in 0..k |-> IF j = k THEN f[k - 1] + d(k) ELSE f[j]]
    <3>4. f[k - 1] \in Int /\ d(k) \in Int
      BY <1>1, <3>1, <3>3
    <3>5. g \in [0..k -> Int] /\ g[0] = 0 /\ \A j \in 1..k : g[j] = g[j - 1] + d(j)
      BY <3>1, <3>3, <3>4, SMTT(60)
    <3>. QED  BY <3>5
  <2>. QED  BY <2>3, <2>4
<1>3. \E f : Defines(f)
  <2>0. m \in 0..m
    BY <1>1
  <2>1. PICK f : Upto(m, f)
    BY <1>2, <2>0
  <2>2. f = [j \in 0..m |-> IF j = 0 THEN 0 ELSE f[j - 1] + d(j)]
    BY <1>1, <2>1
  <2>. QED  BY <2>2
<1>. DEFINE s == CHOOSE f : Defines(f)
<1>4. Defines(s)
  BY <1>3
<1>5. Squares(w) = s[m]
  BY DEF Squares, m, d
<1>. HIDE DEF s
<1>6. \A j \in 0..m : s[j] \in Int
  <2>. DEFINE T == {j \in 0..m : s[j] \notin Int}
  <2>. SUFFICES ASSUME T # {} PROVE FALSE
    OBVIOUS
  <2>1. T \subseteq Nat
    BY <1>1
  <2>2. PICK k \in T : \A l \in T : k <= l
    BY <2>1, HasLeast
  <2>3. s[k] = IF k = 0 THEN 0 ELSE s[k - 1] + d(k)
    BY <1>4
  <2>4. k # 0
    BY <2>3
  <2>5. k - 1 \in 0..m /\ k \in 1..m /\ ~(k <= k - 1)
    BY <1>1, <2>4
  <2>6. s[k - 1] \in Int
    BY <2>2, <2>5
  <2>. QED  BY <1>1, <2>3, <2>4, <2>5, <2>6, SMTT(60)
<1>. QED  BY <1>1, <1>5, <1>6

LEMMA EstimateInt ==
    ASSUME NEW w \in Seq(Int), Len(w) >= 1
    PROVE  Displacement(w) \in Int /\ Roughness(w) \in Int /\ Pull(w) \in Int
<1>1. Len(w) \in Nat /\ Displacement(w) \in Int
  BY DEF Displacement
<1>2. (Len(w) - 1) * Squares(w) \in Int /\ Displacement(w) * Displacement(w) \in Int
  BY <1>1, SquaresInt
<1>3. Displacement(w) * Displacement(w) * (Len(w) - 1) * (Len(w) - 1) \in Int
  BY <1>1
<1>. QED  BY <1>1, <1>2, <1>3 DEF Roughness, Pull

\* The thresholds of a gate lie apart, so that no window both trends and ranges.
LEMMA TrendingOrRanging ==
    ASSUME NEW w \in Seq(Int), Len(w) >= 1, NEW low \in Nat, NEW high \in Nat, low < high,
           Trending(w, high), Ranging(w, low)
    PROVE  FALSE
<1>. DEFINE x == Len(w) * Roughness(w)
<1>1. Len(w) >= 2 /\ Roughness(w) > 0 /\ Push(w, high) <= Pull(w) /\ Pull(w) <= Push(w, low)
  BY EstimateInt DEF Trending, Ranging, Push
<1>2. Roughness(w) \in Int /\ Pull(w) \in Int /\ Len(w) \in Nat
  BY EstimateInt
<1>3. x \in Nat \ {0}
  BY <1>1, <1>2, SMTT(60)
<1>. HIDE DEF x
<1>4. Push(w, low) = low * low * x /\ Push(w, high) = high * high * x
  BY <1>2, SMTT(60) DEF Push, x
<1>5. low * low < high * high
  BY SMT
<1>6. low * low \in Nat /\ high * high \in Nat
  BY ProductNat
<1>7. low * low * x < high * high * x
  BY <1>3, <1>5, <1>6
<1>. DEFINE a == low * low * x
            b == high * high * x
<1>8. a \in Int /\ b \in Int /\ a < b /\ b <= Pull(w) /\ Pull(w) <= a
  BY <1>1, <1>3, <1>4, <1>6, <1>7, ProductNat
<1>. HIDE DEF a, b
<1>. QED  BY <1>2, <1>8

LEMMA LastFacts ==
    ASSUME NEW w \in Seq(Int), Len(w) >= 1, NEW k \in Nat
    PROVE  Last(w, k) \in Seq(Int) /\ Len(Last(w, k)) >= 1
<1>. DEFINE size == Larger(k, 2)
<1>1. size \in Nat /\ size >= 2
  BY DEF Larger
<1>. HIDE DEF size
<1>2. CASE Len(w) > size
  <2>1. SubSeq(w, Len(w) - size + 1, Len(w)) \in Seq(Int) /\ Len(SubSeq(w, Len(w) - size + 1, Len(w))) = size
    BY <1>1, <1>2
  <2>2. Last(w, k) = SubSeq(w, Len(w) - size + 1, Len(w))
    BY <1>2 DEF Last, size
  <2>. QED  BY <1>1, <2>1, <2>2
<1>3. CASE ~(Len(w) > size)
  <2>1. Last(w, k) = w
    BY <1>3 DEF Last, size
  <2>. QED  BY <2>1
<1>. QED  BY <1>2, <1>3

LEMMA HasGreatest ==
    ASSUME NEW T, NEW m \in Nat, T \subseteq 0..m, T # {}
    PROVE  \E x \in T : \A y \in T : x >= y
<1>. DEFINE U == {m - x : x \in T}
<1>0. \A x \in T : m - x \in Nat
  OBVIOUS
<1>1. U \subseteq Nat /\ U # {}
  BY <1>0
<1>2. PICK u \in U : \A v \in U : u <= v
  BY <1>1, HasLeast
<1>3. PICK x \in T : u = m - x
  OBVIOUS
<1>4. \A y \in T : m - x <= m - y
  BY <1>2, <1>3
<1>. QED  BY <1>4

LEMMA WidthInt ==
    ASSUME NEW w, NEW k, NEW floor \in Nat, NEW cap \in Nat
    PROVE  VolatilityWidth(w, k, floor, cap) \in Nat
<1>. DEFINE T == {floor} \cup {h \in floor + 1 .. cap :
            Len(w) >= 2 /\ k * k * Roughness(w) >= (2 * h - 1) * (2 * h - 1) * (Len(w) - 1) * (Len(w) - 1)}
<1>1. T \subseteq 0..(floor + cap) /\ T # {} /\ floor + cap \in Nat
  BY SMTT(60)
<1>2. VolatilityWidth(w, k, floor, cap) = CHOOSE x \in T : \A y \in T : x >= y
  BY DEF VolatilityWidth, Max
<1>. HIDE DEF T
<1>3. \E x \in T : \A y \in T : x >= y
  BY <1>1, HasGreatest
<1>4. VolatilityWidth(w, k, floor, cap) \in T
  BY <1>2, <1>3
<1>5. T \subseteq Nat
  BY <1>1
<1>. QED  BY <1>4, <1>5

-----------------------------------------------------------------------------
(***************************************************************************)
(* The inductive invariant.  Inputs do not change; a position is sound and  *)
(* its range is kept after its end, as wide as a fixed width wants; a short *)
(* that follows the position is not negative; the books have their types.   *)
(***************************************************************************)
Inputs == stream \in Streams /\ policy \in Policies /\ n \in 0..Len(stream)

FixedWidth == ~Is({"volatility", "adaptive", "gated"})
Width      == 2 * Larger(policy.half, 1)

PositionInv ==
    /\ range \in [lower : Int, upper : Int] /\ range.lower < range.upper
    /\ position # None => Sound(position) /\ RangeOf(position) = range
    /\ FixedWidth => range.upper = range.lower + Width
    /\ parked \in Nat /\ short \in Int
    /\ DeltaHedged => short \in Nat

Tails == [peak : Int, drawdown : Nat, low : Int, riskStart : Nat \cup {None}, riskBlocks : Nat]

Books ==
    /\ ledger \in Money
    /\ stats \in [rebalances : Nat, exits : Nat, inRange : Nat]
    /\ tail \in Tails
    /\ past \in Seq([equity : Int, risky : BOOLEAN]) /\ Len(past) = n

ReplayInv == Inputs /\ PositionInv /\ Books

LEMMA Elements ==
    ASSUME NEW S, NEW s \in Seq(S)
    PROVE  Len(s) \in Nat /\ \A k \in 1..Len(s) : s[k] \in S
OBVIOUS

\* What the inputs are.
LEMMA InputFacts ==
    ASSUME Inputs
    PROVE  /\ stream \in Seq([tick : 1..Grid, block : Nat]) /\ Len(stream) \in Nat \ {0} /\ n \in Nat
           /\ \A k \in 1..Len(stream) : stream[k].tick \in 1..Grid /\ stream[k].block \in Nat
           /\ policy \in Policy /\ policy.half \in Nat /\ policy.band \in Nat
           /\ policy.delay \in Nat /\ policy.hedge \in Nat /\ policy.kind \in Kind
           /\ policy.enter \in Nat /\ policy.exit \in Nat /\ policy.exit < policy.enter
           /\ policy.floor \in Nat /\ policy.cap \in Nat /\ policy.window \in Nat
<1>1. stream \in Seq([tick : 1..Grid, block : Nat]) /\ Len(stream) > 0
  BY StreamAssumption DEF Inputs
<1>2. Len(stream) \in Nat /\ \A k \in 1..Len(stream) : stream[k] \in [tick : 1..Grid, block : Nat]
  BY <1>1, Elements
<1>3. \A k \in 1..Len(stream) : stream[k].tick \in 1..Grid /\ stream[k].block \in Nat
  BY <1>2
<1>4. policy \in Policy /\ policy.exit < policy.enter
  BY PolicyAssumption DEF Inputs
<1>5. n \in Nat
  BY <1>2 DEF Inputs
<1>6. /\ policy.half \in Nat /\ policy.band \in Nat /\ policy.delay \in Nat /\ policy.hedge \in Nat
      /\ policy.kind \in Kind /\ policy.enter \in Nat /\ policy.exit \in Nat
      /\ policy.floor \in Nat /\ policy.cap \in Nat /\ policy.window \in Nat
  BY <1>4 DEF Policy
<1>7. Len(stream) \in Nat \ {0}
  <2>1. Len(stream) \in Nat /\ Len(stream) > 0
    BY <1>1, <1>2
  <2>. QED  BY <2>1
<1>8. stream \in Seq([tick : 1..Grid, block : Nat])
  BY <1>1
<1>. QED  BY <1>3, <1>4, <1>5, <1>6, <1>7, <1>8, Zenon

\* price_after_delay returns a swap of the stream.
LEMMA FillFacts ==
    ASSUME Inputs, n < Len(stream)
    PROVE  /\ Executed(n + 1) \in 1..Len(stream) /\ Fill.tick \in 1..Grid
           /\ Swap.tick \in 1..Grid
           /\ policy.delay = 0 => Fill = Swap
<1>. DEFINE late == {k \in n + 1..Len(stream) : stream[k].block >= stream[n + 1].block + policy.delay}
<1>0. n \in Nat /\ Len(stream) \in Nat
  BY InputFacts
<1>1. n + 1 \in 1..Len(stream) /\ n + 1..Len(stream) \subseteq 1..Len(stream) /\ Len(stream) \in 1..Len(stream)
  BY <1>0
<1>2. late \subseteq Nat /\ late \subseteq 1..Len(stream)
  BY <1>1
<1>3. late # {} => \E k \in late : \A l \in late : k <= l
  BY HasLeast, <1>2
<1>4. late # {} => (CHOOSE k \in late : \A l \in late : k <= l) \in late
  BY <1>3
<1>. HIDE DEF late
<1>5. Executed(n + 1) \in {n + 1, Len(stream)} \cup {CHOOSE k \in late : \A l \in late : k <= l}
  BY Zenon DEF Executed, late
<1>6. late = {} => Executed(n + 1) \in {n + 1, Len(stream)}
  BY Zenon DEF Executed, late
<1>7. Executed(n + 1) \in 1..Len(stream)
  BY <1>1, <1>2, <1>4, <1>5, <1>6
<1>8. policy.delay = 0 => Executed(n + 1) = n + 1
  BY DEF Executed
<1>. QED  BY <1>1, <1>7, <1>8, InputFacts DEF Fill, Swap

LEMMA OpenFacts ==
    ASSUME NEW tick \in 1..Grid, NEW half \in Int, NEW capital \in Nat
    PROVE  LET pos == Open(tick, half, capital)
           IN  /\ Sound(pos) /\ pos # None
               /\ RangeOf(pos).lower < RangeOf(pos).upper
               /\ RangeOf(pos) \in [lower : Int, upper : Int]
               /\ RangeOf(pos).lower = tick - Larger(half, 1)
               /\ RangeOf(pos).upper = tick + Larger(half, 1)
               /\ RangeOf(pos).upper = RangeOf(pos).lower + 2 * Larger(half, 1)
<1>1. Larger(half, 1) \in Nat \ {0}
  BY DEF Larger
<1>2. Open(tick, half, capital) \in [lower : Int, upper : Int, at : Int, capital : Int]
  BY <1>1 DEF Open, CenteredRange
<1>. QED  BY <1>1, <1>2, NoneAssumption DEF Open, CenteredRange, Sound, RangeOf

LEMMA CostFacts ==
    ASSUME NEW v \in Int
    PROVE  /\ Slippage(v) \in Int /\ PartSlippage(v) \in Int
           /\ AfterCosts(v, Slippage(v)) \in Nat /\ AfterCosts(v, PartSlippage(v)) \in Nat
<1>1. Gas \in Nat /\ SlipPct \in Nat /\ SwapPct \in Nat
  BY MoneyAssumption
<1>2. v * SlipPct \in Int /\ v * SwapPct * SlipPct \in Int
  BY <1>1
<1>3. Slippage(v) \in Int /\ PartSlippage(v) \in Int
  BY <1>2 DEF Slippage, PartSlippage
<1>4. \A slip \in Int : AfterCosts(v, slip) \in Nat
  BY <1>1 DEF AfterCosts, Larger
<1>. QED  BY <1>3, <1>4

LEMMA WidthFacts ==
    ASSUME Inputs
    PROVE  /\ HalfWidth \in Int /\ FirstHalf \in Int
           /\ FixedWidth => HalfWidth = policy.half /\ FirstHalf = policy.half
<1>1. policy.half \in Nat /\ policy.floor \in Nat /\ policy.cap \in Nat
  BY InputFacts
<1>2. VolatilityWidth(Recent, policy.k, policy.floor, policy.cap) \in Nat
  BY <1>1, WidthInt
<1>3. Larger(policy.floor, 1) \in Int
  BY <1>1 DEF Larger
<1>. QED  BY <1>1, <1>2, <1>3 DEF HalfWidth, FirstHalf, FixedWidth, Is

LEMMA FirstFacts ==
    ASSUME Inputs
    PROVE  /\ Sound(First) /\ First # None /\ EntryRisk \in Nat
           /\ RangeOf(First) \in [lower : Int, upper : Int] /\ RangeOf(First).lower < RangeOf(First).upper
           /\ FixedWidth => RangeOf(First).upper = RangeOf(First).lower + Width
<1>1. FirstHalf \in Int /\ (FixedWidth => FirstHalf = policy.half)
  BY WidthFacts
<1>2. Len(stream) \in Nat \ {0} /\ \A k \in 1..Len(stream) : stream[k].tick \in 1..Grid
  BY InputFacts
<1>3. stream[1].tick \in 1..Grid /\ Capital \in Nat
  BY <1>2, MoneyAssumption
<1>4. /\ Sound(First) /\ First # None
      /\ RangeOf(First) \in [lower : Int, upper : Int] /\ RangeOf(First).lower < RangeOf(First).upper
      /\ RangeOf(First).upper = RangeOf(First).lower + 2 * Larger(FirstHalf, 1)
  BY <1>1, <1>3, OpenFacts, ZenonT(60) DEF First
<1>5. FixedWidth => RangeOf(First).upper = RangeOf(First).lower + Width
  BY <1>1, <1>4 DEF Width
<1>6. EntryRisk \in Nat
  BY <1>3, <1>4, InventoryNat DEF EntryRisk
<1>. QED  BY <1>4, <1>5, <1>6

LEMMA InitReplay == Init => ReplayInv
<1>. SUFFICES ASSUME Init PROVE ReplayInv
  OBVIOUS
<1>1. Inputs
  <2>1. stream \in Streams /\ policy \in Policies /\ n = 0 /\ Len(stream) > 0
    BY StreamAssumption DEF Init
  <2>2. Len(stream) \in Nat
    BY <2>1, StreamAssumption, Elements
  <2>. QED  BY <2>1, <2>2 DEF Inputs
<1>2. PositionInv
  <2>1. policy.hedge \in Nat /\ EntryRisk \in Nat
    BY <1>1, InputFacts, FirstFacts
  <2>2. policy.hedge * EntryRisk \in Nat
    BY <2>1, ProductNat
  <2>3. (policy.hedge * EntryRisk) \div 100 \in Nat
    BY <2>2
  <2>4. FirstShort \in Nat
    BY <2>1, <2>3 DEF FirstShort
  <2>. QED  BY <1>1, <2>4, FirstFacts DEF Init, PositionInv
<1>3. Books
  <2>1. Capital \in Nat
    BY MoneyAssumption
  <2>2. ledger \in Money /\ stats \in [rebalances : Nat, exits : Nat, inRange : Nat]
    BY DEF Init, Money
  <2>3. tail \in Tails
    BY <2>1 DEF Init, Tails
  <2>4. past = <<>> /\ n = 0
    BY DEF Init
  <2>. QED  BY <2>2, <2>3, <2>4 DEF Books
<1>. QED  BY <1>1, <1>2, <1>3 DEF ReplayInv

-----------------------------------------------------------------------------
(***************************************************************************)
(* Steps.  Every action ends in Settle, which books, rehedges and marks.    *)
(***************************************************************************)
Settled(pos) ==
    /\ position' = pos /\ n' = n + 1 /\ UNCHANGED <<stream, policy>>
    /\ short' = IF MustRehedge(pos) THEN RiskHeld(pos) ELSE short

LEMMA SettleIsSettled ==
    ASSUME NEW pos, NEW cash, NEW gas, NEW slip, Settle(pos, cash, gas, slip)
    PROVE  Settled(pos) /\ parked' = cash
BY DEF Settle, Settled

LEMMA NextInputs ==
    ASSUME Inputs, n < Len(stream), NEW pos, Settled(pos)
    PROVE  Inputs' /\ (FixedWidth' <=> FixedWidth) /\ (DeltaHedged' <=> DeltaHedged) /\ Width' = Width
<1>1. n + 1 \in 0..Len(stream)
  <2>1. n \in Nat /\ Len(stream) \in Nat
    BY InputFacts
  <2>. QED  BY <2>1
<1>. QED  BY <1>1 DEF Inputs, Settled, FixedWidth, DeltaHedged, Is, Width

\* The price before the swap, and the blocks since.
LEMMA PreFacts ==
    ASSUME Inputs, n < Len(stream)
    PROVE  Pre \in 1..Grid /\ Since \in Int /\ Swap.block \in Nat
<1>0. n \in Nat /\ Len(stream) \in Nat \ {0}
  BY InputFacts
<1>1. n + 1 \in 1..Len(stream) /\ 1 \in 1..Len(stream) /\ (n # 0 => n \in 1..Len(stream))
  BY <1>0
<1>2. \A k \in 1..Len(stream) : stream[k].tick \in 1..Grid /\ stream[k].block \in Nat
  BY InputFacts
<1>3. Swap.block \in Nat
  BY <1>1, <1>2 DEF Swap
<1>4. (IF n = 0 THEN stream[1].block ELSE stream[n].block) \in Nat
  BY <1>1, <1>2
<1>5. Pre \in 1..Grid
  BY <1>1, <1>2 DEF Pre
<1>. QED  BY <1>3, <1>4, <1>5, SMTT(60) DEF Since

\* The hedge after a swap, with the position the policy left.
LEMMA RehedgeFacts ==
    ASSUME Inputs, n < Len(stream), short \in Int,
           NEW pos, pos # None => Sound(pos), Settled(pos)
    PROVE  /\ RiskHeld(pos) \in Nat /\ short' \in Int /\ RehedgeCost(pos) \in Int
           /\ (DeltaHedged => short \in Nat) => (DeltaHedged => short' \in Nat)
<1>1. Swap.tick \in 1..Grid
  BY FillFacts
<1>2. RiskHeld(pos) \in Nat
  BY <1>1, InventoryNat DEF RiskHeld
<1>3. Distance(RiskHeld(pos), short) \in Int
  BY <1>2 DEF Distance, Larger, Smaller
<1>4. RiskPrice(Swap.tick) \in Nat
  BY <1>1, GridOver, ProductNat DEF RiskPrice
<1>. DEFINE v == (Distance(RiskHeld(pos), short) * RiskPrice(Swap.tick)) \div (Grid * Grid)
<1>5. Grid * Grid \in Nat \ {0}
  OBVIOUS
<1>6. Distance(RiskHeld(pos), short) * RiskPrice(Swap.tick) \in Int
  BY <1>3, <1>4
<1>7. v \in Int
  BY <1>5, <1>6, DivInt
<1>. HIDE DEF v
<1>8. Slippage(v) \in Int
  BY <1>7, CostFacts
<1>9. RehedgeCost(pos) \in Int
  BY <1>8 DEF RehedgeCost, v
<1>. QED  BY <1>2, <1>9 DEF Settled

\* What a swap books to the position it finds.
LEMMA AccruedFacts ==
    ASSUME Inputs, n < Len(stream), position # None => Sound(position), short \in Int, ledger \in Money
    PROVE  Accrued \in Money
<1>1. Pre \in 1..Grid /\ Swap.tick \in 1..Grid /\ Since \in Int
  BY PreFacts, FillFacts
<1>2. Fee \in Nat /\ RewardPct \in Nat /\ FundingPct \in Nat
  BY MoneyAssumption
<1>. DEFINE staked == IF Earns THEN Value(position, Pre) ELSE 0
            bled   == IF position = None THEN 0
                      ELSE (position.capital * AdverseSelection(position, Pre, Swap.tick))
                             \div UnitValue(position, position.at)
            p      == RiskPrice(Pre)
            q      == RiskPrice(Swap.tick)
            fee    == IF Earns THEN Fee ELSE 0
            reward == (staked * RewardPct * Since) \div 100
            hedge  == IF AnyHedge THEN (short * (p - q)) \div (Grid * Grid) ELSE 0
            fund   == IF AnyHedge THEN (FundingPct * short * q * Since) \div (100 * Grid * Grid) ELSE 0
<1>3. staked \in Int
  BY <1>1, ValueInt DEF Earns
<1>4. p \in Int /\ q \in Int
  BY <1>1, GridOver, ProductNat DEF RiskPrice
<1>5. bled \in Int
  <2>1. CASE position = None
    BY <2>1
  <2>2. CASE position # None
    <3>. DEFINE a0 == Amount0(position, Pre)
                a1 == Amount1(position, Pre)
                loss == AdverseSelection(position, Pre, Swap.tick)
    <3>1. a0 \in Int /\ a1 \in Int /\ UnitValue(position, Swap.tick) \in Int
      BY <1>1, <2>2, AmountsNat, SMTT(60)
    <3>2. Mark(a0, a1, Swap.tick) \in Int
      BY <1>4, <3>1 DEF Mark
    <3>3. loss \in Int
      BY <3>1, <3>2 DEF AdverseSelection
    <3>. HIDE DEF loss
    <3>4. position.capital * loss \in Int
      BY <2>2, <3>3 DEF Sound
    <3>5. UnitValue(position, position.at) \in Nat \ {0}
      BY <2>2, OpeningValue
    <3>6. (position.capital * loss) \div UnitValue(position, position.at) \in Int
      BY <3>4, <3>5, DivInt
    <3>. QED  BY <2>2, <3>6 DEF loss
  <2>. QED  BY <2>1, <2>2
<1>6. Grid * Grid \in Nat \ {0} /\ 100 * Grid * Grid \in Nat \ {0}
  OBVIOUS
<1>. HIDE DEF staked, bled, p, q
<1>7. reward \in Int
  BY <1>1, <1>2, <1>3
<1>8. hedge \in Int
  <2>1. short * (p - q) \in Int
    BY <1>4
  <2>. QED  BY <1>6, <2>1, DivInt
<1>9. fund \in Int
  <2>1. FundingPct * short * q * Since \in Int
    BY <1>1, <1>2, <1>4
  <2>. QED  BY <1>6, <2>1, DivInt
<1>10. fee \in Nat /\ Larger(bled, 0) \in Nat
  BY <1>2, <1>5 DEF Larger
<1>11. Accrued = [ledger EXCEPT !.fees = @ + fee, !.reward = @ + reward, !.lvr = @ + Larger(bled, 0),
                                !.hedge = @ + hedge, !.funding = @ + fund]
  BY Zenon DEF Accrued, staked, bled, p, q
<1>. HIDE DEF reward, hedge, fund, fee
<1>. DEFINE lvr == Larger(bled, 0)
<1>12. lvr \in Nat
  BY <1>10
<1>. HIDE DEF lvr
<1>13. Accrued = [fees |-> ledger.fees + fee, lvr |-> ledger.lvr + lvr, reward |-> ledger.reward + reward,
                  hedge |-> ledger.hedge + hedge, funding |-> ledger.funding + fund,
                  gas |-> ledger.gas, slip |-> ledger.slip]
  BY <1>11 DEF Money, lvr
<1>14. /\ ledger.fees + fee \in Nat /\ ledger.lvr + lvr \in Nat /\ ledger.reward + reward \in Int
       /\ ledger.hedge + hedge \in Int /\ ledger.funding + fund \in Int
       /\ ledger.gas \in Nat /\ ledger.slip \in Int
  <2>1. /\ ledger.fees \in Nat /\ ledger.lvr \in Nat /\ ledger.reward \in Int /\ ledger.hedge \in Int
        /\ ledger.funding \in Int /\ ledger.gas \in Nat /\ ledger.slip \in Int
    BY DEF Money
  <2>2. fee \in Nat
    BY <1>10
  <2>3. ledger.fees + fee \in Nat
    BY <2>1, <2>2, SMTT(60)
  <2>4. ledger.lvr + lvr \in Nat
    BY <1>12, <2>1, SMTT(60)
  <2>5. ledger.reward + reward \in Int
    BY <1>7, <2>1
  <2>6. ledger.hedge + hedge \in Int
    BY <1>8, <2>1
  <2>7. ledger.funding + fund \in Int
    BY <1>9, <2>1
  <2>. QED  BY <2>1, <2>3, <2>4, <2>5, <2>6, <2>7
<1>. QED  BY <1>13, <1>14 DEF Money

LEMMA HoldingInt ==
    ASSUME NEW pos, pos # None => Sound(pos), NEW cash \in Int, NEW s \in 1..Grid
    PROVE  Holding(pos, cash, s) \in Int
BY ValueInt DEF Holding

LEMMA EquityInt ==
    ASSUME NEW pos, pos # None => Sound(pos), NEW cash \in Int, NEW l \in Money, NEW s \in 1..Grid
    PROVE  Equity(pos, cash, l, s) \in Int
<1>1. HaircutPct \in Nat
  BY MoneyAssumption
<1>2. l.reward * (100 - HaircutPct) \in Int
  BY <1>1 DEF Money
<1>3. RewardKept(l) \in Int
  BY <1>2 DEF RewardKept
<1>4. Holding(pos, cash, s) \in Int
  BY HoldingInt
<1>5. l.fees \in Int /\ l.hedge \in Int /\ l.gas \in Int /\ l.slip \in Int /\ l.funding \in Int
  BY DEF Money
<1>. QED  BY <1>3, <1>4, <1>5 DEF Equity
\* The hedge is in its band after a swap, whatever the policy left.
LEMMA Rehedged ==
    ASSUME Inputs, n < Len(stream), DeltaHedged => short \in Nat,
           NEW pos, pos # None => Sound(pos), Settled(pos)
    PROVE  HedgeFollows'
<1>1. Swap.tick \in 1..Grid /\ EntryRisk \in Nat /\ policy.band \in Nat /\ n \in Nat
  BY FillFacts, FirstFacts, InputFacts
<1>2. RiskHeld(pos) \in Nat
  BY <1>1, InventoryNat DEF RiskHeld
<1>3. EntryRisk' = EntryRisk /\ (DeltaHedged' <=> DeltaHedged) /\ policy'.band = policy.band
  BY DEF Settled, EntryRisk, First, FirstHalf, DeltaHedged, Is
<1>4. stream'[n'].tick = Swap.tick
  BY DEF Settled, Swap
<1>5. ASSUME DeltaHedged
      PROVE  /\ Distance(RiskHeld(pos), short') * 100 <= policy.band * EntryRisk
             /\ pos = None => short' = 0
  <2>1. 0 <= policy.band * EntryRisk
    BY <1>1, ProductNat
  <2>2. CASE MustRehedge(pos)
    <3>1. short' = RiskHeld(pos)
      BY <2>2 DEF Settled
    <3>2. Distance(RiskHeld(pos), RiskHeld(pos)) = 0
      BY <1>2 DEF Distance, Larger, Smaller
    <3>3. pos = None => RiskHeld(pos) = 0
      BY DEF RiskHeld
    <3>. QED  BY <1>2, <2>1, <3>1, <3>2, <3>3
  <2>3. CASE ~MustRehedge(pos)
    <3>1. short' = short /\ short \in Nat
      BY <1>5, <2>3 DEF Settled
    <3>2. Distance(RiskHeld(pos), short) \in Int
      BY <1>2, <3>1 DEF Distance, Larger, Smaller
    <3>3. ~(Distance(RiskHeld(pos), short) * 100 > policy.band * EntryRisk) /\ ~(RiskHeld(pos) = 0 /\ short > 0)
      BY <1>5, <2>3 DEF MustRehedge
    <3>4. pos = None => RiskHeld(pos) = 0
      BY DEF RiskHeld
    <3>. DEFINE d == Distance(RiskHeld(pos), short)
                bound == policy.band * EntryRisk
    <3>5. bound \in Int /\ d \in Int /\ ~(d * 100 > bound)
      BY <1>1, <3>2, <3>3
    <3>. HIDE DEF d, bound
    <3>6. d * 100 <= bound
      BY <3>5
    <3>7. pos = None => short = 0
      BY <3>1, <3>3, <3>4
    <3>. QED  BY <3>1, <3>6, <3>7 DEF d, bound
  <2>. QED  BY <2>2, <2>3
<1>6. pos # None => RiskHeld(pos) = Inventory1(pos, Swap.tick)
  BY DEF RiskHeld
<1>7. position' = pos
  BY DEF Settled
<1>8. HedgeFollows' <=>
        (n' > 0 /\ DeltaHedged' =>
            IF position' = None THEN short' = 0
            ELSE Distance(Inventory1(position', stream'[n'].tick), short') * 100 <= policy'.band * EntryRisk')
  BY DEF HedgeFollows
<1>. QED  BY <1>3, <1>4, <1>5, <1>6, <1>7, <1>8

LEMMA TailInt ==
    ASSUME NEW eq \in Int, NEW risky \in BOOLEAN, tail \in Tails, Swap.block \in Nat
    PROVE  TailAfter(eq, risky) \in Tails
<1>. DEFINE start == IF tail.riskStart = None THEN Swap.block ELSE tail.riskStart
<1>1. start \in Nat
  BY DEF Tails
<1>2. Larger(tail.peak, eq) \in Int /\ Smaller(tail.low, eq) \in Int
  BY DEF Tails, Larger, Smaller
<1>3. Larger(tail.drawdown, Larger(tail.peak, eq) - eq) \in Nat
  BY <1>2 DEF Tails, Larger
<1>4. Larger(tail.riskBlocks, Swap.block - start) \in Nat
  BY <1>1 DEF Tails, Larger
<1>. QED  BY <1>1, <1>2, <1>3, <1>4 DEF TailAfter, Tails

LEMMA ChargedMoney ==
    ASSUME NEW l \in Money, NEW gas \in Nat, NEW slip \in Int, NEW cost \in Int
    PROVE  [l EXCEPT !.gas = @ + gas, !.slip = @ + slip + cost] \in Money
<1>1. l.gas \in Nat /\ l.slip \in Int
  BY DEF Money
<1>2. l.gas + gas \in Nat /\ l.slip + slip + cost \in Int
  BY <1>1
<1>3. \A x \in Nat, y \in Int : [l EXCEPT !.gas = x, !.slip = y] \in Money
  BY DEF Money
<1>. QED  BY <1>2, <1>3, Zenon

\* What every action ends with.
LEMMA SettleStep ==
    ASSUME ReplayInv, n < Len(stream), NEW pos, pos # None => Sound(pos),
           NEW cash \in Nat, NEW gas \in Nat, NEW slip \in Int, Settle(pos, cash, gas, slip),
           NEW a \in Nat, NEW b \in Nat, Count(a, b)
    PROVE  /\ Inputs' /\ Books' /\ HedgeFollows' /\ short' \in Int /\ (DeltaHedged' => short' \in Nat)
           /\ position' = pos /\ parked' \in Nat
           /\ (FixedWidth' <=> FixedWidth) /\ Width' = Width
<1>1. Inputs /\ short \in Int /\ (DeltaHedged => short \in Nat) /\ (position # None => Sound(position))
  BY DEF ReplayInv, PositionInv
<1>2. Settled(pos) /\ parked' = cash
  BY SettleIsSettled
<1>3. HedgeFollows'
  BY <1>1, <1>2, Rehedged
<1>4. RehedgeCost(pos) \in Int /\ short' \in Int /\ (DeltaHedged => short' \in Nat)
  BY <1>1, <1>2, RehedgeFacts
<1>5. Inputs' /\ (DeltaHedged' <=> DeltaHedged) /\ (FixedWidth' <=> FixedWidth) /\ Width' = Width
  BY <1>1, <1>2, NextInputs
<1>6. /\ Swap.tick \in 1..Grid /\ Pre \in 1..Grid /\ Swap.block \in Nat
      /\ ledger \in Money /\ tail \in Tails /\ parked \in Nat
  BY <1>1, PreFacts, FillFacts, SMTT(60) DEF ReplayInv, Books, PositionInv
<1>. DEFINE cost  == IF MustRehedge(pos) THEN RehedgeCost(pos) ELSE 0
            book  == [Accrued EXCEPT !.gas = @ + gas, !.slip = @ + slip + cost]
            risky == pos # None /\ Swap.tick > pos.upper
            eq    == Equity(pos, cash, book, Swap.tick)
<1>7. book \in Money
  <2>1. Accrued \in Money
    BY <1>1, <1>6, AccruedFacts
  <2>2. cost \in Int
    BY <1>4
  <2>. HIDE DEF cost
  <2>. QED  BY <2>1, <2>2, ChargedMoney
<1>8. /\ ledger' = book /\ tail' = TailAfter(eq, risky)
      /\ past' = Append(past, [equity |-> eq, risky |-> risky])
  BY DEF Settle
<1>. HIDE DEF book
<1>9. eq \in Int
  <2>1. cash \in Int
    OBVIOUS
  <2>. QED  BY <1>6, <1>7, <2>1, EquityInt
<1>. HIDE DEF eq
<1>11. risky \in BOOLEAN
  OBVIOUS
<1>. HIDE DEF risky
<1>12. tail' \in Tails
  BY <1>6, <1>8, <1>9, <1>11, TailInt
<1>13. past' \in Seq([equity : Int, risky : BOOLEAN]) /\ Len(past') = n'
  <2>1. past \in Seq([equity : Int, risky : BOOLEAN]) /\ Len(past) = n
    BY DEF ReplayInv, Books
  <2>2. [equity |-> eq, risky |-> risky] \in [equity : Int, risky : BOOLEAN] /\ n' = n + 1
    BY <1>2, <1>9, <1>11 DEF Settled
  <2>. QED  BY <1>8, <2>1, <2>2, SMTT(60)
<1>14. stats' \in [rebalances : Nat, exits : Nat, inRange : Nat]
  <2>1. stats.rebalances \in Nat /\ stats.exits \in Nat /\ stats.inRange \in Nat
    BY DEF ReplayInv, Books
  <2>2. stats.inRange + (IF Earns THEN 1 ELSE 0) \in Nat
    BY <2>1, SMTT(60)
  <2>3. stats.rebalances + a \in Nat /\ stats.exits + b \in Nat
    BY <2>1, SMTT(60)
  <2>. QED  BY <2>2, <2>3 DEF Count
<1>15. Books'
  BY <1>7, <1>8, <1>12, <1>13, <1>14 DEF Books, Tails, Money
<1>. QED  BY <1>2, <1>3, <1>4, <1>5, <1>15 DEF Settled

-----------------------------------------------------------------------------
\* What an action leaves of the position: none, the same one, or one around a tick.
LEMMA LeavesNone ==
    ASSUME ReplayInv, n < Len(stream), NEW cash \in Nat, NEW gas \in Nat, NEW slip \in Int,
           Settle(None, cash, gas, slip), NEW a \in Nat, NEW b \in Nat, Count(a, b), UNCHANGED range
    PROVE  ReplayInv' /\ HedgeFollows'
<1>1. /\ Inputs' /\ Books' /\ HedgeFollows' /\ short' \in Int /\ (DeltaHedged' => short' \in Nat)
      /\ position' = None /\ parked' \in Nat /\ (FixedWidth' <=> FixedWidth) /\ Width' = Width
  BY SettleStep
<1>2. PositionInv'
  BY <1>1 DEF ReplayInv, PositionInv
<1>. QED  BY <1>1, <1>2 DEF ReplayInv

LEMMA LeavesSame ==
    ASSUME ReplayInv, n < Len(stream), Settle(position, parked, 0, 0), Count(0, 0), UNCHANGED range
    PROVE  ReplayInv' /\ HedgeFollows'
<1>0. (position # None => Sound(position) /\ RangeOf(position) = range) /\ parked \in Nat
  BY DEF ReplayInv, PositionInv
<1>1. /\ Inputs' /\ Books' /\ HedgeFollows' /\ short' \in Int /\ (DeltaHedged' => short' \in Nat)
      /\ position' = position /\ parked' \in Nat /\ (FixedWidth' <=> FixedWidth) /\ Width' = Width
  BY <1>0, SettleStep
<1>2. position' # None => Sound(position') /\ RangeOf(position') = range'
  BY <1>0, <1>1
<1>3. PositionInv'
  BY <1>1, <1>2 DEF ReplayInv, PositionInv
<1>. QED  BY <1>1, <1>3 DEF ReplayInv

\* A range around a tick, when the width is fixed.
Moved(tick) == FixedWidth => 2 * range'.upper = 2 * tick + Width

LEMMA LeavesNew ==
    ASSUME ReplayInv, n < Len(stream), NEW tick \in 1..Grid, NEW val \in Int, NEW slip \in Int \cup {None},
           IF slip = None THEN val \in Nat ELSE AfterCosts(val, slip) \in Nat,
           Provide(tick, val, slip)
    PROVE  ReplayInv' /\ HedgeFollows' /\ Moved(tick)
<1>. DEFINE capital == IF slip = None THEN val ELSE AfterCosts(val, slip)
            paid    == IF slip = None THEN 0 ELSE slip
            pos     == Open(tick, HalfWidth, capital)
<1>1. capital \in Nat /\ paid \in Int /\ Gas \in Nat
  BY MoneyAssumption
<1>2. Settle(pos, 0, Gas, paid) /\ range' = RangeOf(pos) /\ Count(1, 0)
  BY DEF Provide
<1>. HIDE DEF capital, paid
<1>3. Inputs /\ HalfWidth \in Int /\ policy.half \in Nat /\ (FixedWidth => HalfWidth = policy.half)
  BY WidthFacts, InputFacts DEF ReplayInv
<1>4. /\ Sound(pos) /\ pos # None
      /\ RangeOf(pos) \in [lower : Int, upper : Int] /\ RangeOf(pos).lower < RangeOf(pos).upper
      /\ RangeOf(pos).upper = tick + Larger(HalfWidth, 1)
      /\ RangeOf(pos).upper = RangeOf(pos).lower + 2 * Larger(HalfWidth, 1)
  BY <1>1, <1>3, OpenFacts, ZenonT(60)
<1>. HIDE DEF pos
<1>5. /\ Inputs' /\ Books' /\ HedgeFollows' /\ short' \in Int /\ (DeltaHedged' => short' \in Nat)
      /\ position' = pos /\ parked' \in Nat /\ (FixedWidth' <=> FixedWidth) /\ Width' = Width
  BY <1>1, <1>2, <1>4, SettleStep
<1>6. range' \in [lower : Int, upper : Int] /\ range'.lower < range'.upper
  BY <1>2, <1>4
<1>7. FixedWidth => range'.upper = range'.lower + Width
  BY <1>2, <1>3, <1>4 DEF Width
<1>8. Sound(position') /\ RangeOf(position') = range'
  BY <1>2, <1>4, <1>5
<1>9. PositionInv'
  BY <1>5, <1>6, <1>7, <1>8 DEF PositionInv
<1>10. Moved(tick)
  <2>1. Larger(policy.half, 1) \in Nat
    BY <1>3 DEF Larger
  <2>. QED  BY <1>2, <1>3, <1>4, <2>1, SMTT(60) DEF Moved, Width
<1>. QED  BY <1>5, <1>9, <1>10 DEF ReplayInv

LEMMA NextReplay ==
    ASSUME ReplayInv, Next
    PROVE  /\ ReplayInv' /\ HedgeFollows'
           /\ \/ UNCHANGED range
              \/ Recenter /\ Moved(Fill.tick)
              \/ Resume
              \/ Return /\ Moved(Swap.tick)
<1>1. n < Len(stream)
  BY DEF Next, KeepPosition, StandDown, StopOut, Recenter, Resume, Return, StayParked, Active, Parked
<1>2. Inputs /\ parked \in Nat /\ (position # None => Sound(position))
  BY DEF ReplayInv, PositionInv
<1>3. Fill.tick \in 1..Grid /\ Swap.tick \in 1..Grid
  BY <1>1, <1>2, FillFacts
<1>4. \A val \in Int : /\ PartSlippage(val) \in Int /\ AfterCosts(val, PartSlippage(val)) \in Nat
                       /\ Slippage(val) \in Int /\ AfterCosts(val, Slippage(val)) \in Nat
  BY CostFacts
<1>5. position # None => Value(position, Fill.tick) \in Int
  BY <1>2, <1>3, ValueInt
<1>6. \A slip \in Int : slip # None
  BY NoneAssumption
<1>7. CASE KeepPosition
  BY <1>1, <1>7, LeavesSame DEF KeepPosition
<1>8. CASE StandDown \/ StopOut
  <2>1. PICK slip \in Int, a \in Nat, b \in Nat :
            /\ Liquidate(slip, a, b)
            /\ AfterCosts(Value(position, Fill.tick), slip) \in Nat
    BY <1>4, <1>5, <1>8 DEF StandDown, StopOut, Active
  <2>2. Gas \in Nat
    BY MoneyAssumption
  <2>. QED  BY <1>1, <2>1, <2>2, LeavesNone DEF Liquidate
<1>9. CASE StayParked
  <2>1. Settle(None, parked, 0, 0) /\ Count(0, 0) /\ UNCHANGED range
    BY <1>9 DEF StayParked
  <2>2. 0 \in Nat /\ 0 \in Int
    OBVIOUS
  <2>3. ReplayInv' /\ HedgeFollows'
    BY <1>1, <1>2, <2>1, <2>2, LeavesNone
  <2>. QED  BY <2>1, <2>3
<1>10. CASE Recenter
  <2>. DEFINE val == Value(position, Fill.tick)
  <2>1. val \in Int
    BY <1>5, <1>10 DEF Recenter, Active
  <2>2. Provide(Fill.tick, val, PartSlippage(val))
    BY <1>10 DEF Recenter
  <2>. HIDE DEF val
  <2>3. PartSlippage(val) \in Int /\ PartSlippage(val) # None /\ AfterCosts(val, PartSlippage(val)) \in Nat
    BY <1>4, <1>6, <2>1
  <2>. QED  BY <1>1, <1>3, <1>10, <2>1, <2>2, <2>3, LeavesNew
<1>11. CASE Resume
  <2>1. Provide(Swap.tick, parked, PartSlippage(parked))
    BY <1>11 DEF Resume
  <2>2. PartSlippage(parked) \in Int /\ PartSlippage(parked) # None
        /\ AfterCosts(parked, PartSlippage(parked)) \in Nat
    BY <1>2, <1>4, <1>6
  <2>. QED  BY <1>1, <1>2, <1>3, <1>11, <2>1, <2>2, LeavesNew
<1>12. CASE Return
  <2>1. Provide(Swap.tick, parked, None)
    BY <1>12 DEF Return
  <2>2. None \in Int \cup {None} /\ parked \in Int
    BY <1>2
  <2>. QED  BY <1>1, <1>2, <1>3, <1>12, <2>1, <2>2, LeavesNew
<1>. QED  BY <1>7, <1>8, <1>9, <1>10, <1>11, <1>12 DEF Next

-----------------------------------------------------------------------------
LEMMA StutterReplay == ReplayInv /\ UNCHANGED vars => ReplayInv'
BY DEF vars, ReplayInv, Inputs, PositionInv, Books, FixedWidth, Width, DeltaHedged, Is

LEMMA ReplayInvariant == Spec => []ReplayInv
<1>1. ReplayInv /\ [Next]_vars => ReplayInv'
  BY NextReplay, StutterReplay
<1>. QED  BY InitReplay, <1>1, PTL DEF Spec

\* For every stream and policy the replay's books keep their types: gas, fees and
\* losses are never negative and the range of an open position is never empty.
THEOREM ReplayTypes == Spec => []TypeOK
<1>1. ReplayInv => TypeOK
  <2>. SUFFICES ASSUME ReplayInv PROVE TypeOK
    OBVIOUS
  <2>1. /\ stream \in Seq([tick : 1..Grid, block : Nat]) /\ Len(stream) \in Nat \ {0}
        /\ policy \in Policy /\ policy.exit < policy.enter /\ n \in 0..Len(stream)
    BY InputFacts DEF ReplayInv, Inputs
  <2>2. position \in [lower : Int, upper : Int, at : Int, capital : Int] \cup {None}
    BY DEF ReplayInv, PositionInv, Sound
  <2>. QED  BY <2>1, <2>2, SMTT(60) DEF TypeOK, ReplayInv, PositionInv, Books, Tails
<1>. QED  BY ReplayInvariant, <1>1, PTL

\* Whatever the policy does, a dynamic hedge ends each swap within its band of the
\* risk tokens then held, and at zero without a position.
THEOREM HedgeInBand == Spec => []HedgeFollows
<1>1. Init => HedgeFollows
  BY DEF Init, HedgeFollows
<1>2. ReplayInv /\ HedgeFollows /\ [Next]_vars => HedgeFollows'
  <2>1. HedgeFollows /\ UNCHANGED vars => HedgeFollows'
    BY DEF HedgeFollows, vars, DeltaHedged, Is, EntryRisk, First, FirstHalf
  <2>. QED  BY <2>1, NextReplay
<1>. QED  BY ReplayInvariant, <1>1, <1>2, PTL DEF Spec

\* No gated policy provides liquidity after a swap that completes a trend, however
\* the steps that led to it interleave exits and re-entries.
THEOREM NoLiquidityInTrend == Spec => []NoLpInTrend
<1>1. Init => NoLpInTrend
  BY DEF Init, NoLpInTrend
<1>2. ASSUME NoLpInTrend, UNCHANGED vars PROVE NoLpInTrend'
  BY <1>2 DEF NoLpInTrend, vars, Is, DangerAt, TrendAt, RecentAt
<1>3. ASSUME ReplayInv, Next PROVE NoLpInTrend'
  <2>1. Inputs /\ n < Len(stream) /\ n \in Nat
    BY <1>3, InputFacts DEF ReplayInv, Next, KeepPosition, StandDown, StopOut, Recenter, Resume, Return,
                            StayParked, Active, Parked
  <2>2. n' = n + 1 /\ stream' = stream /\ policy' = policy
    BY <1>3 DEF Next, KeepPosition, StandDown, StopOut, Recenter, Resume, Return, StayParked,
                Liquidate, Provide, Settle
  <2>3. (TrendAt(n)' <=> TrendingNow) /\ (DangerAt(n)' <=> DangerTrend)
    BY <2>2 DEF TrendAt, DangerAt, RecentAt, TrendingNow, DangerTrend
  <2>4. ~(TrendingNow /\ RangingNow)
    <3>1. policy.exit \in Nat /\ policy.enter \in Nat /\ policy.exit < policy.enter /\ policy.window \in Nat
      BY <2>1, InputFacts
    <3>. DEFINE ticks == [j \in 1..n + 1 |-> stream[j].tick]
    <3>2. ticks \in Seq(Int) /\ Len(ticks) = n + 1
      <4>1. Len(stream) \in Nat /\ \A j \in 1..Len(stream) : stream[j].tick \in 1..Grid
        BY <2>1, InputFacts
      <4>2. \A j \in 1..n + 1 : j \in 1..Len(stream)
        BY <2>1, <4>1
      <4>3. \A j \in 1..n + 1 : stream[j].tick \in Int
        BY <4>1, <4>2
      <4>. QED  BY <2>1, <4>3
    <3>. HIDE DEF ticks
    <3>3. Last(ticks, policy.window) \in Seq(Int) /\ Len(Last(ticks, policy.window)) >= 1
      BY <2>1, <3>1, <3>2, LastFacts, SMTT(60)
    <3>4. Recent = Last(ticks, policy.window) /\ RecentAt(n + 1) = Last(ticks, policy.window)
      BY DEF Recent, RecentAt, ticks
    <3>. QED  BY <3>1, <3>3, <3>4, TrendingOrRanging DEF TrendingNow, RangingNow, TrendAt
  <2>. DEFINE Gated == Is({"gated", "trend_stop"}) /\ TrendingNow
              Danger == Is({"adaptive"}) /\ DangerTrend
  <2>5. ASSUME Gated \/ Danger PROVE position' = None
    <3>1. DangerTrend => TrendingNow
      BY DEF DangerTrend, DangerAt, TrendingNow
    <3>2. ~KeepPosition
      BY <2>5 DEF KeepPosition, LeavesTrend, LeavesDanger
    <3>3. ~Recenter
      BY <2>5, <3>1 DEF Recenter, Follows, BenignTrend, Rebalances, Is
    <3>4. ~Resume
      BY <2>4, <2>5, <3>1 DEF Resume, Is
    <3>5. ~Return
      BY <2>5, <3>1 DEF Return, Is
    <3>. QED  BY <1>3, <3>2, <3>3, <3>4, <3>5 DEF Next, StandDown, StopOut, StayParked, Liquidate, Settle
  <2>. QED  BY <2>2, <2>3, <2>5 DEF NoLpInTrend, Is
<1>4. ReplayInv /\ NoLpInTrend /\ [Next]_vars => NoLpInTrend'
  BY <1>2, <1>3
<1>. QED  BY ReplayInvariant, <1>1, <1>4, PTL DEF Spec

\* With no action delay, the hard-exit policy's range only ever moves away from the
\* risk asset.  Its recentering and its return both keep the width.
THEOREM ImmediateExitOneWay == Spec => ImmediateExitIsOneWay
<1>1. ASSUME ReplayInv, [Next]_vars, Is({"hard_exit"}), policy.delay = 0
      PROVE  range'.upper <= range.upper
  <2>0. FixedWidth
    BY <1>1 DEF FixedWidth, Is
  <2>1. /\ range.lower \in Int /\ range.upper \in Int /\ range.upper = range.lower + Width
        /\ range.lower < range.upper /\ Inputs
        /\ position # None => position.lower = range.lower /\ position.upper = range.upper
    BY <1>1 DEF ReplayInv, PositionInv, FixedWidth, Is, RangeOf
  <2>2. Width \in Int
    <3>1. policy.half \in Nat
      BY <2>1, InputFacts
    <3>. QED  BY <3>1 DEF Width, Larger
  <2>3. CASE UNCHANGED range
    BY <2>1, <2>3
  <2>4. CASE Recenter /\ Moved(Fill.tick)
    <3>1. n < Len(stream) /\ position # None
      BY <2>4 DEF Recenter, Active
    <3>2. Fill.tick = Swap.tick /\ Swap.tick \in Int
      BY <1>1, <2>1, <3>1, FillFacts
    <3>3. Swap.tick < range.lower
      BY <1>1, <2>1, <2>4, <3>1, <3>2 DEF Recenter, OutOfRange, InRange, Follows, HardExit, Is
    <3>4. 2 * range'.upper = 2 * Swap.tick + Width
      BY <2>0, <2>4, <3>2 DEF Moved
    <3>5. range'.upper \in Int
      BY <1>1, <2>4, NextReplay DEF Next, ReplayInv, PositionInv
    <3>. QED  BY <2>1, <2>2, <3>2, <3>3, <3>4, <3>5
  <2>5. CASE Resume
    BY <1>1, <2>5 DEF Resume, Is
  <2>6. CASE Return /\ Moved(Swap.tick)
    <3>1. n < Len(stream)
      BY <2>6 DEF Return, Parked
    <3>2. Swap.tick \in Int
      BY <2>1, <3>1, FillFacts
    <3>3. Swap.tick <= (range.lower + range.upper) \div 2
      BY <1>1, <2>6 DEF Return, Is
    <3>4. 2 * range'.upper = 2 * Swap.tick + Width
      BY <2>0, <2>6 DEF Moved
    <3>5. range'.upper \in Int
      BY <1>1, <2>6, NextReplay DEF Next, ReplayInv, PositionInv
    <3>. QED  BY <2>1, <2>2, <3>2, <3>3, <3>4, <3>5
  <2>7. UNCHANGED vars => UNCHANGED range
    BY DEF vars
  <2>. QED  BY <1>1, <2>3, <2>4, <2>5, <2>6, <2>7, NextReplay
<1>2. ReplayInv /\ [Next]_vars => [Is({"hard_exit"}) /\ policy.delay = 0 => range'.upper <= range.upper]_vars
  BY <1>1
<1>. QED  BY ReplayInvariant, <1>2, PTL DEF Spec, ImmediateExitIsOneWay

-----------------------------------------------------------------------------
(***************************************************************************)
(* Tail metrics.  The invariant adds what the code keeps to extend them:    *)
(* the peak is the highest equity so far, and riskStart is the block where  *)
(* the hold above the range began that is still running.                    *)
(***************************************************************************)
PeakInv == (\A a \in 0..n : EquityAt(a) <= tail.peak) /\ (\E a \in 0..n : tail.peak = EquityAt(a))

HoldInv ==
    /\ tail.riskStart = None => n = 0 \/ ~past[n].risky
    /\ tail.riskStart # None =>
          \E a \in 1..n : /\ tail.riskStart = stream[a].block /\ HeldAbove(a, n)
                          /\ a = 1 \/ ~past[a - 1].risky

TailInv == PeakInv /\ TailMatchesHistory /\ HoldInv

LEMMA InitTail == Init => TailInv
<1>. SUFFICES ASSUME Init PROVE TailInv
  OBVIOUS
<1>1. n = 0 /\ 0..n = {0} /\ 1..n = {} /\ Capital \in Int /\ Capital - Capital = 0
  BY MoneyAssumption DEF Init
<1>2. tail.peak = Capital /\ tail.drawdown = 0 /\ tail.low = Capital /\ tail.riskStart = None /\ tail.riskBlocks = 0
  BY DEF Init
<1>3. EquityAt(0) = Capital
  BY DEF EquityAt
<1>4. PeakInv
  BY <1>1, <1>2, <1>3 DEF PeakInv
<1>5. TailMatchesHistory
  BY <1>1, <1>2, <1>3 DEF TailMatchesHistory
<1>6. HoldInv
  BY <1>1, <1>2 DEF HoldInv
<1>. QED  BY <1>4, <1>5, <1>6 DEF TailInv

\* The equity of a swap, and whether the price was above the range after it.
LEMMA EquityFacts ==
    ASSUME Books, n \in Nat
    PROVE  /\ \A j \in 0..n : EquityAt(j) \in Int
           /\ \A j \in 1..n : past[j].risky \in BOOLEAN
<1>1. \A j \in 1..n : past[j] \in [equity : Int, risky : BOOLEAN]
  BY Elements DEF Books
<1>2. Capital \in Int
  BY MoneyAssumption
<1>3. ASSUME NEW j \in 0..n PROVE EquityAt(j) \in Int
  <2>1. CASE j = 0
    BY <1>2, <2>1 DEF EquityAt
  <2>2. CASE j # 0
    <3>1. j \in 1..n
      BY <2>2
    <3>2. past[j].equity \in Int
      BY <1>1, <3>1
    <3>. QED  BY <2>2, <3>2 DEF EquityAt
  <2>. QED  BY <2>1, <2>2
<1>4. ASSUME NEW j \in 1..n PROVE past[j].risky \in BOOLEAN
  BY <1>1
<1>. QED  BY <1>3, <1>4

\* How a step extends the path.
LEMMA PathStep ==
    ASSUME ReplayInv, Next
    PROVE  /\ n \in Nat /\ n < Len(stream) /\ n' = n + 1 /\ stream' = stream
           /\ \A j \in 0..n : EquityAt(j)' = EquityAt(j) /\ EquityAt(j) \in Int
           /\ \A j \in 1..n : past'[j] = past[j] /\ past[j].risky \in BOOLEAN
           /\ past'[n'].risky \in BOOLEAN /\ EquityAt(n)' \in Int
           /\ tail' = TailAfter(EquityAt(n)', past'[n'].risky)
<1>1. n \in Nat /\ n < Len(stream) /\ past \in Seq([equity : Int, risky : BOOLEAN]) /\ Len(past) = n /\ Books
  BY InputFacts DEF ReplayInv, Books, Next, KeepPosition, StandDown, StopOut, Recenter, Resume, Return,
                    StayParked, Active, Parked
<1>2. \E pos, cash, gas, slip : Settle(pos, cash, gas, slip)
  BY DEF Next, KeepPosition, StandDown, StopOut, Recenter, Resume, Return, StayParked, Liquidate, Provide
<1>3. PICK eq, risky : /\ past' = Append(past, [equity |-> eq, risky |-> risky])
                       /\ tail' = TailAfter(eq, risky) /\ n' = n + 1 /\ stream' = stream
  BY <1>2 DEF Settle
<1>4. past'[n + 1] = [equity |-> eq, risky |-> risky] /\ \A j \in 1..n : past'[j] = past[j]
  BY <1>1, <1>3
<1>5. \A j \in 0..n : EquityAt(j)' = EquityAt(j)
  BY <1>1, <1>4 DEF EquityAt
<1>6. EquityAt(n)' = eq /\ past'[n'].risky = risky
  BY <1>1, <1>3, <1>4 DEF EquityAt
<1>7. n' \in Nat /\ n + 1 \in 0..n' /\ n + 1 \in 1..n'
  BY <1>1, <1>3
<1>8. Books'
  BY NextReplay DEF ReplayInv
<1>9. eq \in Int /\ risky \in BOOLEAN
  <2>1. past' \in Seq([equity : Int, risky : BOOLEAN]) /\ Len(past') = n'
    BY <1>8 DEF Books
  <2>2. past'[n + 1] \in [equity : Int, risky : BOOLEAN]
    BY <1>7, <2>1, Elements
  <2>. QED  BY <1>4, <2>2
<1>. QED  BY <1>1, <1>3, <1>4, <1>5, <1>6, <1>9, EquityFacts

LEMMA EquityStep ==
    ASSUME ReplayInv, TailInv, Next
    PROVE  /\ PeakInv'
           /\ \A a, b \in 0..n' : a <= b => EquityAt(a)' - EquityAt(b)' <= tail'.drawdown
           /\ \E a, b \in 0..n' : a <= b /\ tail'.drawdown = EquityAt(a)' - EquityAt(b)'
           /\ \A a \in 0..n' : tail'.low <= EquityAt(a)'
           /\ \E a \in 0..n' : tail'.low = EquityAt(a)'
<1>. DEFINE eq == EquityAt(n)'
            E(a) == IF a \in 0..n THEN EquityAt(a) ELSE eq
<1>1. n \in Nat /\ n' = n + 1 /\ eq \in Int /\ \A j \in 0..n : EquityAt(j) \in Int /\ EquityAt(j)' = EquityAt(j)
  BY PathStep
<1>2. /\ n' \in 0..n' /\ n' \notin 0..n /\ (\A a \in 0..n : a \in 0..n' /\ a <= n')
      /\ \A a \in 0..n' : a \in 0..n \/ a = n'
  BY <1>1
<1>3. E(n') = eq
  BY <1>2
<1>4. ASSUME NEW a \in 0..n' PROVE EquityAt(a)' = E(a) /\ E(a) \in Int
  <2>1. CASE a \in 0..n
    BY <1>1, <2>1
  <2>2. CASE a = n'
    <3>1. EquityAt(a)' = eq
      BY <2>2 DEF EquityAt
    <3>. QED  BY <1>1, <1>3, <2>2, <3>1
  <2>. QED  BY <1>2, <2>1, <2>2
<1>5. /\ tail'.peak = Larger(tail.peak, eq) /\ tail'.low = Smaller(tail.low, eq)
      /\ tail'.drawdown = Larger(tail.drawdown, tail'.peak - eq)
  BY PathStep DEF TailAfter
<1>6. /\ (\A a \in 0..n : E(a) <= tail.peak) /\ (\E a \in 0..n : tail.peak = E(a))
      /\ (\A a, b \in 0..n : a <= b => E(a) - E(b) <= tail.drawdown)
      /\ (\E a, b \in 0..n : a <= b /\ tail.drawdown = E(a) - E(b))
      /\ (\A a \in 0..n : tail.low <= E(a)) /\ (\E a \in 0..n : tail.low = E(a))
  BY DEF TailInv, PeakInv, TailMatchesHistory
<1>7. tail.peak \in Int /\ tail.low \in Int /\ tail.drawdown \in Int /\ \A a \in 0..n : E(a) \in Int
  BY <1>1 DEF ReplayInv, Books, Tails
<1>. HIDE DEF E, eq
<1>8. /\ tail'.peak >= tail.peak /\ tail'.peak >= eq /\ tail'.peak \in {tail.peak, eq} /\ tail'.peak \in Int
      /\ tail'.low <= tail.low /\ tail'.low <= eq /\ tail'.low \in {tail.low, eq} /\ tail'.low \in Int
  BY <1>1, <1>5, <1>7 DEF Larger, Smaller
<1>9. /\ tail'.drawdown >= tail.drawdown /\ tail'.drawdown >= tail'.peak - eq
      /\ tail'.drawdown \in {tail.drawdown, tail'.peak - eq} /\ tail'.drawdown \in Int
  BY <1>1, <1>5, <1>7, <1>8 DEF Larger
<1>10. (\A a \in 0..n' : E(a) <= tail'.peak) /\ (\E a \in 0..n' : tail'.peak = E(a))
  BY <1>1, <1>2, <1>3, <1>4, <1>6, <1>7, <1>8
<1>11. (\A a \in 0..n' : tail'.low <= E(a)) /\ (\E a \in 0..n' : tail'.low = E(a))
  BY <1>1, <1>2, <1>3, <1>4, <1>6, <1>7, <1>8
<1>12. ASSUME NEW a \in 0..n', NEW b \in 0..n', a <= b PROVE E(a) - E(b) <= tail'.drawdown
  <2>1. CASE b = n'
    BY <1>1, <1>3, <1>4, <1>8, <1>9, <1>10, <2>1
  <2>2. CASE b \in 0..n
    <3>1. a \in 0..n
      BY <1>1, <1>12, <2>2
    <3>. QED  BY <1>6, <1>7, <1>9, <1>12, <2>2, <3>1
  <2>. QED  BY <1>2, <2>1, <2>2
<1>13. \E a, b \in 0..n' : a <= b /\ tail'.drawdown = E(a) - E(b)
  <2>1. CASE tail'.drawdown = tail.drawdown
    BY <1>2, <1>6, <2>1
  <2>2. CASE tail'.drawdown = tail'.peak - eq
    <3>1. PICK a \in 0..n' : tail'.peak = E(a)
      BY <1>10
    <3>2. a <= n'
      OBVIOUS
    <3>. QED  BY <1>2, <1>3, <2>2, <3>1, <3>2
  <2>. QED  BY <1>9, <2>1, <2>2
<1>. QED  BY <1>4, <1>10, <1>11, <1>12, <1>13 DEF PeakInv

LEMMA HoldStep ==
    ASSUME ReplayInv, TailInv, Next
    PROVE  /\ HoldInv'
           /\ \A a, b \in 1..n' : HeldAbove(a, b)' => stream'[b].block - stream'[a].block <= tail'.riskBlocks
           /\ \/ tail'.riskBlocks = 0
              \/ \E a, b \in 1..n' : HeldAbove(a, b)' /\ tail'.riskBlocks = stream'[b].block - stream'[a].block
<1>. DEFINE risky == past'[n'].risky
            At(j) == stream[j].block
            H(j)  == IF j = n' THEN risky ELSE past[j].risky
            Held(a, b) == a <= b /\ \A j \in a..b : H(j)
            start == IF tail.riskStart = None THEN Swap.block ELSE tail.riskStart
<1>1. /\ n \in Nat /\ n < Len(stream) /\ n' = n + 1 /\ stream' = stream /\ risky \in BOOLEAN
      /\ \A j \in 1..n : past'[j] = past[j] /\ past[j].risky \in BOOLEAN
  BY PathStep
<1>2. /\ n' \in 1..n' /\ n' \notin 1..n /\ (\A a \in 1..n : a \in 1..n' /\ a <= n' /\ a # n')
      /\ \A a \in 1..n' : a \in 1..n \/ a = n'
  BY <1>1
<1>3. \A j \in 1..n' : past'[j].risky = H(j)
  BY <1>1, <1>2
<1>4. \A a, b \in 1..n' : HeldAbove(a, b)' <=> Held(a, b)
  <2>1. \A a, b \in 1..n' : \A j \in a..b : j \in 1..n'
    BY <1>1
  <2>. QED  BY <1>3, <2>1 DEF HeldAbove
<1>5. \A a, b \in 1..n : HeldAbove(a, b) <=> Held(a, b)
  <2>1. \A a, b \in 1..n : \A j \in a..b : j \in 1..n
    BY <1>1
  <2>. QED  BY <1>2, <2>1 DEF HeldAbove
<1>6. /\ \A j \in 1..n' : At(j) \in Nat
      /\ \A j, k \in 1..n' : j <= k => At(j) <= At(k)
      /\ Swap.block = At(n')
  <2>1. Len(stream) \in Nat /\ \A j \in 1..Len(stream) : At(j) \in Nat
    BY InputFacts DEF ReplayInv
  <2>2. \A j \in 1..n' : j \in 1..Len(stream)
    BY <1>1, <2>1
  <2>3. stream \in Streams /\ DOMAIN stream = 1..Len(stream)
    BY <2>1, InputFacts DEF ReplayInv, Inputs
  <2>4. \A j, k \in 1..Len(stream) : j <= k => At(j) <= At(k)
    BY <2>3, StreamAssumption
  <2>. QED  BY <1>1, <2>1, <2>2, <2>4 DEF Swap
<1>7. /\ tail'.riskStart = IF risky THEN start ELSE None
      /\ tail'.riskBlocks = IF risky THEN Larger(tail.riskBlocks, Swap.block - start) ELSE tail.riskBlocks
  BY PathStep DEF TailAfter
<1>8. tail.riskBlocks \in Nat /\ tail.riskStart \in Nat \cup {None} /\ None \notin Nat
  BY NoneAssumption DEF ReplayInv, Books, Tails
<1>9. /\ \A a, b \in 1..n : Held(a, b) => At(b) - At(a) <= tail.riskBlocks
      /\ tail.riskBlocks = 0 \/ \E a, b \in 1..n : Held(a, b) /\ tail.riskBlocks = At(b) - At(a)
  BY <1>5 DEF TailInv, TailMatchesHistory
<1>10. /\ tail.riskStart = None => n = 0 \/ ~H(n)
       /\ tail.riskStart # None => \E a \in 1..n : tail.riskStart = At(a) /\ Held(a, n) /\ (a = 1 \/ ~H(a - 1))
  <2>1. n # 0 => n \in 1..n
    BY <1>1
  <2>2. \A a \in 1..n : a = 1 \/ a - 1 \in 1..n
    BY <1>1
  <2>3. HoldInv
    BY DEF TailInv
  <2>4. \A a \in 1..n : H(a) = past[a].risky
    BY <1>2
  <2>5. tail.riskStart = None => n = 0 \/ ~H(n)
    BY <2>1, <2>3, <2>4 DEF HoldInv
  <2>6. ASSUME tail.riskStart # None
        PROVE  \E a \in 1..n : tail.riskStart = At(a) /\ Held(a, n) /\ (a = 1 \/ ~H(a - 1))
    <3>1. PICK a \in 1..n : tail.riskStart = At(a) /\ HeldAbove(a, n) /\ (a = 1 \/ ~past[a - 1].risky)
      BY <2>3, <2>6 DEF HoldInv
    <3>2. n \in 1..n
      BY <1>1, <3>1
    <3>3. Held(a, n) /\ (a = 1 \/ ~H(a - 1))
      BY <1>5, <2>2, <2>4, <3>1, <3>2
    <3>. QED  BY <3>1, <3>3
  <2>. QED  BY <2>5, <2>6
<1>. HIDE DEF H, At, risky
\* The hold that is running begins at first.
<1>11. ASSUME risky
       PROVE  \E first \in 1..n' : start = At(first) /\ Held(first, n') /\ (first = 1 \/ ~H(first - 1))
  <2>1. H(n')
    BY <1>11 DEF H
  <2>2. CASE tail.riskStart = None
    <3>1. \A j \in n'..n' : H(j)
      BY <1>1, <2>1
    <3>2. n' = 1 \/ ~H(n' - 1)
      BY <1>1, <1>10, <2>2
    <3>. QED  BY <1>1, <1>2, <1>6, <2>2, <3>1, <3>2
  <2>3. CASE tail.riskStart # None
    <3>1. PICK a \in 1..n : tail.riskStart = At(a) /\ Held(a, n) /\ (a = 1 \/ ~H(a - 1))
      BY <1>10, <2>3
    <3>2. \A j \in a..n' : j \in a..n \/ j = n'
      BY <1>1
    <3>3. Held(a, n')
      BY <1>2, <2>1, <3>1, <3>2
    <3>. QED  BY <1>2, <2>3, <3>1, <3>3
  <2>. QED  BY <2>2, <2>3
<1>12. start \in Nat /\ (risky => tail'.riskStart # None)
  BY <1>2, <1>6, <1>7, <1>8
<1>. HIDE DEF start
<1>13. tail'.riskBlocks >= tail.riskBlocks /\ tail'.riskBlocks \in Nat
       /\ (risky => tail'.riskBlocks >= At(n') - start /\ tail'.riskBlocks \in {tail.riskBlocks, At(n') - start})
       /\ (~risky => tail'.riskBlocks = tail.riskBlocks)
  BY <1>2, <1>6, <1>7, <1>8, <1>12 DEF Larger
<1>14. HoldInv'
  <2>1. CASE risky
    <3>1. PICK first \in 1..n' : start = At(first) /\ Held(first, n') /\ (first = 1 \/ ~H(first - 1))
      BY <1>11, <2>1
    <3>2. first = 1 \/ first - 1 \in 1..n'
      BY <1>1
    <3>3. HeldAbove(first, n)'
      BY <1>2, <1>4, <3>1 DEF HeldAbove
    <3>4. first = 1 \/ ~past'[first - 1].risky
      BY <1>3, <3>1, <3>2
    <3>. QED  BY <1>1, <1>7, <1>12, <2>1, <3>1, <3>3, <3>4 DEF HoldInv, At
  <2>2. CASE ~risky
    BY <1>7, <2>2 DEF HoldInv, risky
  <2>. QED  BY <2>1, <2>2
<1>15. ASSUME NEW a \in 1..n', NEW b \in 1..n', Held(a, b) PROVE At(b) - At(a) <= tail'.riskBlocks
  <2>1. CASE b = n'
    <3>1. risky /\ a <= b
      <4>1. a <= b /\ b \in a..b
        BY <1>1, <1>15
      <4>2. H(b)
        BY <1>15, <4>1
      <4>. QED  BY <2>1, <4>1, <4>2 DEF H
    <3>2. PICK first \in 1..n' : start = At(first) /\ Held(first, n') /\ (first = 1 \/ ~H(first - 1))
      BY <1>11, <3>1
    <3>3. first <= a
      <4>. SUFFICES ASSUME a < first PROVE FALSE
        OBVIOUS
      <4>1. first - 1 \in a..b /\ first # 1
        BY <1>1, <2>1
      <4>. QED  BY <1>15, <3>2, <4>1
    <3>4. At(first) <= At(a) /\ At(first) \in Int /\ At(a) \in Int /\ At(b) \in Int
      BY <1>6, <3>3
    <3>. QED  BY <1>13, <2>1, <3>1, <3>2, <3>4
  <2>2. CASE b \in 1..n
    <3>1. a \in 1..n
      BY <1>1, <1>15, <2>2
    <3>2. At(b) - At(a) <= tail.riskBlocks /\ At(b) - At(a) \in Int
      BY <1>2, <1>6, <1>9, <1>15, <2>2, <3>1
    <3>. QED  BY <1>8, <1>13, <3>2
  <2>. QED  BY <1>2, <2>1, <2>2
<1>16. tail'.riskBlocks = 0 \/ \E a, b \in 1..n' : Held(a, b) /\ tail'.riskBlocks = At(b) - At(a)
  <2>1. CASE tail'.riskBlocks = tail.riskBlocks
    BY <1>2, <1>9, <2>1
  <2>2. CASE tail'.riskBlocks # tail.riskBlocks
    <3>1. risky /\ tail'.riskBlocks = At(n') - start
      BY <1>13, <2>2
    <3>2. PICK first \in 1..n' : start = At(first) /\ Held(first, n')
      BY <1>11, <3>1
    <3>. QED  BY <1>2, <3>1, <3>2
  <2>. QED  BY <2>1, <2>2
<1>. QED  BY <1>1, <1>4, <1>14, <1>15, <1>16 DEF At

\* Over a path of any length, the drawdown is the worst fall from an earlier high,
\* the low the lowest equity, and the one-sided time the longest hold above the
\* range: the counters the loop updates lose nothing across exits and re-entries.
THEOREM TailMetrics == Spec => []TailMatchesHistory
<1>1. ReplayInv /\ TailInv /\ [Next]_vars => TailInv'
  <2>1. ASSUME ReplayInv, TailInv, Next PROVE TailInv'
    <3>1. TailMatchesHistory'
      BY <2>1, EquityStep, HoldStep DEF TailMatchesHistory
    <3>. QED  BY <2>1, <3>1, EquityStep, HoldStep DEF TailInv
  <2>2. TailInv /\ UNCHANGED vars => TailInv'
    BY DEF vars, TailInv, PeakInv, TailMatchesHistory, HoldInv, EquityAt, HeldAbove
  <2>. QED  BY <2>1, <2>2
<1>2. TailInv => TailMatchesHistory
  BY DEF TailInv
<1>. QED  BY ReplayInvariant, InitTail, <1>1, <1>2, PTL DEF Spec

HIDE GridAssumption

-----------------------------------------------------------------------------
(***************************************************************************)
(* The sampler and the merge: rows and their order.                         *)
(***************************************************************************)
\* Rows gathered from finitely many places.
Table(rows) ==
    /\ rows \in [DOMAIN rows -> Row]
    /\ DOMAIN rows \subseteq Nat \X Nat /\ IsFiniteSet(DOMAIN rows)

LEMMA SubsetSize ==
    ASSUME NEW B, IsFiniteSet(B), NEW A, A \subseteq B
    PROVE  /\ IsFiniteSet(A) /\ Cardinality(A) \in Nat /\ Cardinality(B) \in Nat
           /\ Cardinality(A) <= Cardinality(B) /\ (Cardinality(A) = Cardinality(B) => A = B)
BY FS_Subset, FS_CardinalityType

LEMMA PushedOrder ==
    ASSUME NEW p \in Nat \X Nat, NEW q \in Nat \X Nat, NEW r \in Nat \X Nat
    PROVE  /\ ~Pushed(p, p) /\ (Pushed(p, q) => ~Pushed(q, p))
           /\ p # q => Pushed(p, q) \/ Pushed(q, p)
           /\ Pushed(p, q) /\ Pushed(q, r) => Pushed(p, r)
<1>1. /\ p = <<p[1], p[2]>> /\ q = <<q[1], q[2]>> /\ r = <<r[1], r[2]>>
      /\ {p[1], p[2], q[1], q[2], r[1], r[2]} \subseteq Nat
  OBVIOUS
<1>2. p # q => p[1] # q[1] \/ p[2] # q[2]
  BY <1>1, Zenon
<1>. QED  BY <1>1, <1>2 DEF Pushed

\* A stable sort compares any two places, one way only.
LEMMA SoonerOrder ==
    ASSUME NEW rows, Table(rows), NEW p \in DOMAIN rows, NEW q \in DOMAIN rows, NEW r \in DOMAIN rows
    PROVE  /\ ~Sooner(rows, p, p)
           /\ p # q => Sooner(rows, p, q) \/ Sooner(rows, q, p)
           /\ Sooner(rows, p, q) /\ Sooner(rows, q, r) => Sooner(rows, p, r)
           /\ Sooner(rows, p, q) => rows[p].slot <= rows[q].slot
<1>1. /\ p \in Nat \X Nat /\ q \in Nat \X Nat /\ r \in Nat \X Nat
      /\ rows[p] \in Row /\ rows[q] \in Row /\ rows[r] \in Row
  BY DEF Table
<1>2. /\ ~Pushed(p, p)
      /\ p # q => Pushed(p, q) \/ Pushed(q, p)
      /\ Pushed(p, q) /\ Pushed(q, r) => Pushed(p, r)
  BY <1>1, PushedOrder
<1>. DEFINE a == rows[p]  b == rows[q]  c == rows[r]
<1>3. /\ a.slot \in Nat /\ b.slot \in Nat /\ c.slot \in Nat
      /\ a.index \in Nat /\ b.index \in Nat /\ c.index \in Nat
      /\ a.tick \in Int /\ b.tick \in Int /\ c.tick \in Int
  BY <1>1 DEF Row
<1>. HIDE DEF a, b, c
<1>4. /\ ~Earlier(a, a)
      /\ Earlier(a, b) /\ Earlier(b, c) => Earlier(a, c)
      /\ Earlier(a, b) /\ ~Earlier(c, b) => Earlier(a, c)
      /\ ~Earlier(b, a) /\ Earlier(b, c) => Earlier(a, c)
      /\ ~Earlier(b, a) /\ ~Earlier(c, b) => ~Earlier(c, a)
      /\ Earlier(a, b) => a.slot <= b.slot
      /\ ~Earlier(b, a) => a.slot <= b.slot
      /\ ~Earlier(a, b) \/ ~Earlier(b, a)
  BY <1>3 DEF Earlier
<1>. QED  BY <1>2, <1>4, Zenon DEF Sooner, a, b, c

LEMMA InOrderFacts ==
    ASSUME NEW rows, Table(rows)
    PROVE  LET m == Cardinality(DOMAIN rows)  s == InOrder(rows)
           IN  /\ m \in Nat /\ s \in Seq(Row) /\ Len(s) = m
               /\ \A k \in 1..m : /\ PlaceOf(rows, k) \in DOMAIN rows
                                  /\ s[k].slot = rows[PlaceOf(rows, k)].slot
                                  /\ s[k].tick = rows[PlaceOf(rows, k)].tick
                                  /\ s[k].index = k - 1
               /\ \A j, k \in 1..m : j # k => PlaceOf(rows, j) # PlaceOf(rows, k)
               /\ \A p \in DOMAIN rows : \E k \in 1..m : PlaceOf(rows, k) = p
               /\ \A j, k \in 1..m : j < k => s[j].slot <= s[k].slot
<1>. DEFINE S == DOMAIN rows
            m == Cardinality(S)
            Before(p) == {q \in S : Sooner(rows, q, p)}
            rank == [p \in S |-> RankOf(rows, p)]
            at(k) == PlaceOf(rows, k)
<1>1. m \in Nat /\ IsFiniteSet(S)
  BY FS_CardinalityType DEF Table
<1>2. \A p \in S : rank[p] = Cardinality(Before(p))
  BY DEF RankOf
<1>3. \A p \in S : rank[p] \in 0..m - 1
  <2>1. TAKE p \in S
  <2>2. Before(p) \subseteq S /\ p \in S /\ p \notin Before(p)
    BY SoonerOrder
  <2>. HIDE DEF Before, S
  <2>3. Cardinality(Before(p)) \in Nat /\ Cardinality(Before(p)) <= m /\ Cardinality(Before(p)) # m
    BY <1>1, <2>2, SubsetSize
  <2>. QED  BY <1>1, <1>2, <2>3
<1>4. ASSUME NEW p \in S, NEW q \in S, Sooner(rows, q, p) PROVE rank[q] < rank[p]
  <2>1. Before(q) \cup {q} \subseteq Before(p) /\ q \notin Before(q)
    <3>1. \A r \in S : Sooner(rows, r, q) => Sooner(rows, r, p)
      BY <1>4, SoonerOrder
    <3>. QED  BY <1>4, <3>1, SoonerOrder
  <2>2. Before(p) \subseteq S /\ Before(q) \subseteq S
    OBVIOUS
  <2>. HIDE DEF Before, S
  <2>3. IsFiniteSet(Before(p)) /\ IsFiniteSet(Before(q)) /\ Cardinality(Before(q)) \in Nat
    BY <1>1, <2>2, SubsetSize
  <2>4. Cardinality(Before(q) \cup {q}) = Cardinality(Before(q)) + 1
    BY <2>1, <2>3, FS_AddElement
  <2>5. Cardinality(Before(q) \cup {q}) <= Cardinality(Before(p)) /\ Cardinality(Before(p)) \in Nat
    BY <2>1, <2>3, SubsetSize
  <2>. QED  BY <1>2, <2>3, <2>4, <2>5
<1>5. \A p, q \in S : p # q => Sooner(rows, p, q) \/ Sooner(rows, q, p)
  BY SoonerOrder
<1>6. rank \in [S -> 0..m - 1]
  <2>1. DOMAIN rank = S /\ rank = [p \in S |-> rank[p]]
    OBVIOUS
  <2>. HIDE DEF rank, m, S
  <2>. QED  BY <1>3, <2>1
<1>7. \A k \in 1..m : at(k) = CHOOSE p \in S : rank[p] = k - 1
  <2>1. TAKE k \in 1..m
  <2>2. \A p \in S : rank[p] = k - 1 <=> RankOf(rows, p) = k - 1
    OBVIOUS
  <2>. QED  BY DEF PlaceOf
<1>. HIDE DEF rank, Before, at, m, S
<1>8. \A p, q \in S : rank[p] = rank[q] => p = q
  <2>1. TAKE p, q \in S
  <2>2. rank[p] \in Int /\ rank[q] \in Int
    BY <1>1, <1>3
  <2>. QED  BY <1>4, <1>5, <2>2
<1>9. \A k \in 1..m : \E p \in S : rank[p] = k - 1
  <2>1. rank \in Injection(S, 0..m - 1)
    BY <1>6, <1>8 DEF Injection, IsInjective
  <2>2. IsFiniteSet(0..m - 1) /\ Cardinality(0..m - 1) = m
    BY <1>1, FS_Interval
  <2>3. rank \in Surjection(S, 0..m - 1)
    <3>1. Cardinality(S) = Cardinality(0..m - 1)
      BY <2>2 DEF m
    <3>. QED  BY <2>1, <2>2, <3>1, FS_Injection
  <2>4. \A k \in 1..m : k - 1 \in 0..m - 1
    BY <1>1
  <2>. QED  BY <2>3, <2>4 DEF Surjection
<1>10. \A k \in 1..m : at(k) \in S /\ rank[at(k)] = k - 1
  BY <1>7, <1>9
<1>11. \A p \in S : \E k \in 1..m : at(k) = p
  <2>1. TAKE p \in S
  <2>2. rank[p] + 1 \in 1..m /\ (rank[p] + 1) - 1 = rank[p]
    BY <1>1, <1>3
  <2>. QED  BY <1>8, <1>10, <2>2
<1>12. \A j, k \in 1..m : j # k => at(j) # at(k)
  BY <1>1, <1>10
<1>13. \A j, k \in 1..m : j < k => Sooner(rows, at(j), at(k))
  <2>1. TAKE j, k \in 1..m
  <2>2. HAVE j < k
  <2>3. at(j) \in S /\ at(k) \in S /\ at(j) # at(k) /\ rank[at(j)] = j - 1 /\ rank[at(k)] = k - 1
    BY <1>10, <1>12, <2>2
  <2>4. ~(rank[at(k)] < rank[at(j)])
    BY <2>2, <2>3
  <2>. QED  BY <1>4, <1>5, <2>3, <2>4
<1>14. InOrder(rows) = [k \in 1..m |-> [rows[at(k)] EXCEPT !.index = k - 1]]
  BY DEF InOrder, m, S, at
<1>15. \A k \in 1..m : /\ InOrder(rows)[k] \in Row
                       /\ InOrder(rows)[k].slot = rows[at(k)].slot
                       /\ InOrder(rows)[k].tick = rows[at(k)].tick
                       /\ InOrder(rows)[k].index = k - 1
  <2>1. TAKE k \in 1..m
  <2>2. rows[at(k)] \in Row /\ k - 1 \in Nat
    BY <1>1, <1>10 DEF Table, S
  <2>3. InOrder(rows)[k] = [rows[at(k)] EXCEPT !.index = k - 1]
    BY <1>14
  <2>. QED  BY <2>2, <2>3 DEF Row
<1>16. InOrder(rows) \in [1..m -> Row]
  BY <1>14, <1>15
<1>17. InOrder(rows) \in Seq(Row) /\ Len(InOrder(rows)) = m
  BY <1>1, <1>16
<1>18. \A j, k \in 1..m : j < k => InOrder(rows)[j].slot <= InOrder(rows)[k].slot
  BY <1>10, <1>13, <1>15, SoonerOrder DEF S
<1>. QED  BY <1>1, <1>10, <1>11, <1>12, <1>15, <1>17, <1>18, Zenon DEF m, S, at

LEMMA FiniteUnion ==
    ASSUME NEW f, IsFiniteSet(DOMAIN f), \A x \in DOMAIN f : IsFiniteSet(f[x])
    PROVE  IsFiniteSet(UNION {f[x] : x \in DOMAIN f})
<1>. DEFINE T == {f[x] : x \in DOMAIN f}
            g == [x \in DOMAIN f |-> f[x]]
<1>1. g \in Surjection(DOMAIN f, T)
  <2>1. g \in [DOMAIN f -> T] /\ \A t \in T : \E x \in DOMAIN f : g[x] = t
    OBVIOUS
  <2>. HIDE DEF g, T
  <2>. QED  BY <2>1 DEF Surjection
<1>2. \A t \in T : IsFiniteSet(t)
  OBVIOUS
<1>. HIDE DEF g, T
<1>3. IsFiniteSet(T)
  BY <1>1, FS_Surjection
<1>4. IsFiniteSet(UNION T)
  BY <1>2, <1>3, FS_UNION
<1>. QED  BY <1>4 DEF T

\* Places: a number, and a number of a finite set that belongs to it.
LEMMA FinitePlaces ==
    ASSUME NEW f, IsFiniteSet(DOMAIN f), DOMAIN f \subseteq Nat,
           \A k \in DOMAIN f : f[k] \subseteq Nat /\ IsFiniteSet(f[k])
    PROVE  LET P == UNION {{k} \X f[k] : k \in DOMAIN f}
           IN  /\ IsFiniteSet(P) /\ P \subseteq Nat \X Nat
               /\ \A p : p \in P <=> /\ p = <<p[1], p[2]>>
                                     /\ p[1] \in DOMAIN f /\ p[2] \in f[p[1]]
               /\ \A k \in DOMAIN f : \A l \in f[k] : <<k, l>> \in P
<1>. DEFINE U == UNION {f[k] : k \in DOMAIN f}
            P == UNION {{k} \X f[k] : k \in DOMAIN f}
<1>1. IsFiniteSet((DOMAIN f) \X U)
  <2>1. IsFiniteSet(U)
    BY FiniteUnion, Zenon
  <2>. HIDE DEF U
  <2>. QED  BY <2>1, FS_Product
<1>2. P \subseteq (DOMAIN f) \X U
  OBVIOUS
<1>3. U \subseteq Nat
  OBVIOUS
<1>4. \A p : p \in P <=> p = <<p[1], p[2]>> /\ p[1] \in DOMAIN f /\ p[2] \in f[p[1]]
  OBVIOUS
<1>5. \A k \in DOMAIN f : \A l \in f[k] : <<k, l>> \in P
  OBVIOUS
<1>. HIDE DEF U, P
<1>6. IsFiniteSet(P)
  BY <1>1, <1>2, FS_Subset
<1>7. P \subseteq Nat \X Nat
  BY <1>2, <1>3
<1>. QED  BY <1>4, <1>5, <1>6, <1>7 DEF P

\* Of the rows with one key the first is kept, and only that one.
LEMMA UniqueFacts ==
    ASSUME NEW rows, Table(rows)
    PROVE  LET u == Unique(rows)
           IN  /\ Table(u) /\ DOMAIN u \subseteq DOMAIN rows
               /\ \A p \in DOMAIN u : u[p] = rows[p]
               /\ \A p, q \in DOMAIN u : p # q => Key(u[p]) # Key(u[q])
               /\ \A p \in DOMAIN rows : \E q \in DOMAIN u : Key(u[q]) = Key(rows[p])
<1>. DEFINE S == DOMAIN rows
            D == {q \in S : IsFirst(rows, q)}
            u == Unique(rows)
<1>1. u = [p \in D |-> rows[p]]
  BY DEF Unique
<1>2. DOMAIN u = D /\ D \subseteq S /\ \A p \in D : u[p] = rows[p]
  BY <1>1
<1>3. IsFiniteSet(D) /\ D \subseteq Nat \X Nat /\ S \subseteq Nat \X Nat
  BY <1>2, FS_Subset DEF Table
<1>4. \A p \in D : rows[p] \in Row
  BY <1>2 DEF Table
<1>. HIDE DEF u
<1>5. u \in [D -> Row]
  BY <1>1, <1>4
<1>6. Table(u)
  BY <1>2, <1>3, <1>5 DEF Table
<1>7. \A p, q \in D : p # q => Key(rows[p]) # Key(rows[q])
  <2>1. TAKE p, q \in D
  <2>2. HAVE p # q
  <2>3. Pushed(p, q) \/ Pushed(q, p)
    BY <1>3, <2>2, PushedOrder
  <2>. QED  BY <2>3 DEF IsFirst
<1>8. ASSUME NEW p \in S
      PROVE  \E q \in D : Key(rows[q]) = Key(rows[p])
  <2>. DEFINE R == {q \in S : Key(rows[q]) = Key(rows[p])}
              A == {q[1] : q \in R}
  <2>1. p \in R /\ R \subseteq S /\ A \subseteq Nat /\ A # {}
    BY <1>3
  <2>2. PICK a \in A : \A b \in A : a <= b
    BY <2>1, HasLeast
  <2>. DEFINE B == {q[2] : q \in {r \in R : r[1] = a}}
  <2>3. B \subseteq Nat /\ B # {}
    BY <1>3
  <2>4. PICK b \in B : \A c \in B : b <= c
    BY <2>3, HasLeast
  <2>5. PICK q \in R : q[1] = a /\ q[2] = b
    BY <2>4
  <2>6. \A r \in R : a <= r[1] /\ (r[1] = a => b <= r[2])
    BY <2>2, <2>4
  <2>7. \A r \in R : r[1] \in Nat /\ r[2] \in Nat
    BY <1>3
  <2>8. a \in Nat /\ b \in Nat
    BY <2>1, <2>2, <2>3, <2>4
  <2>9. \A r \in R : ~Pushed(r, q)
    BY <2>5, <2>6, <2>7, <2>8 DEF Pushed
  <2>10. \A r \in S : Pushed(r, q) => Key(rows[r]) # Key(rows[q])
    BY <2>9
  <2>. QED  BY <2>5, <2>10 DEF IsFirst
<1>. QED  BY <1>2, <1>6, <1>7, <1>8, ZenonT(60) DEF u, S

\* One input, or two.
MergeInputs == {<<i>> : i \in DOMAIN files} \cup {<<i, j>> : i, j \in DOMAIN files}

LEMMA InputRowFacts ==
    ASSUME files \in Seq(File), NEW inputs \in MergeInputs
    PROVE  LET rows == InputRows(inputs)
           IN  /\ Table(rows)
               /\ \A j \in DOMAIN inputs : inputs[j] \in DOMAIN files
               /\ \A p \in DOMAIN rows :
                     /\ p[1] \in DOMAIN inputs /\ p[2] \in DOMAIN files[inputs[p[1]]].rows
                     /\ rows[p] = files[inputs[p[1]]].rows[p[2]]
               /\ \A j \in DOMAIN inputs : \A l \in DOMAIN files[inputs[j]].rows :
                     <<j, l>> \in DOMAIN rows /\ rows[<<j, l>>] = files[inputs[j]].rows[l]
<1>. DEFINE f == [j \in DOMAIN inputs |-> DOMAIN files[inputs[j]].rows]
            P == UNION {{j} \X DOMAIN files[inputs[j]].rows : j \in DOMAIN inputs}
            Q == UNION {{j} \X f[j] : j \in DOMAIN f}
            rows == InputRows(inputs)
<1>1. \A k \in DOMAIN files : files[k].rows \in Seq(Row)
  <2>1. \A k \in DOMAIN files : files[k] \in File
    OBVIOUS
  <2>. QED  BY <2>1 DEF File
<1>2. /\ DOMAIN inputs \in {1..1, 1..2}
      /\ \A j \in DOMAIN inputs : inputs[j] \in DOMAIN files
  <2>1. CASE \E i \in DOMAIN files : inputs = <<i>>
    BY <2>1
  <2>2. CASE \E i, j \in DOMAIN files : inputs = <<i, j>>
    BY <2>2
  <2>. QED  BY <2>1, <2>2 DEF MergeInputs
<1>3. DOMAIN inputs \subseteq Nat /\ IsFiniteSet(DOMAIN inputs)
  <2>1. IsFiniteSet(1..1) /\ IsFiniteSet(1..2) /\ 1..1 \subseteq Nat /\ 1..2 \subseteq Nat
    <3>1. 1 \in Int /\ 2 \in Int
      OBVIOUS
    <3>2. IsFiniteSet(1..1) /\ IsFiniteSet(1..2)
      BY <3>1, FS_Interval, Zenon
    <3>. QED  BY <3>2
  <2>. QED  BY <1>2, <2>1
<1>4. \A j \in DOMAIN inputs : f[j] \subseteq Nat /\ IsFiniteSet(f[j])
  <2>1. TAKE j \in DOMAIN inputs
  <2>2. files[inputs[j]].rows \in Seq(Row)
    BY <1>1, <1>2
  <2>3. DOMAIN files[inputs[j]].rows = 1..Len(files[inputs[j]].rows) /\ Len(files[inputs[j]].rows) \in Nat
    BY <2>2, LenProperties
  <2>4. IsFiniteSet(1..Len(files[inputs[j]].rows)) /\ 1..Len(files[inputs[j]].rows) \subseteq Nat
    <3>1. 1 \in Int /\ Len(files[inputs[j]].rows) \in Int
      BY <2>3
    <3>2. IsFiniteSet(1..Len(files[inputs[j]].rows))
      BY <3>1, FS_Interval, Zenon
    <3>. QED  BY <2>3, <3>2
  <2>5. f[j] = DOMAIN files[inputs[j]].rows
    OBVIOUS
  <2>. HIDE DEF f
  <2>. QED  BY <2>3, <2>4, <2>5
<1>5. P = Q /\ DOMAIN f = DOMAIN inputs
  OBVIOUS
<1>6. rows = [p \in P |-> files[inputs[p[1]]].rows[p[2]]]
  BY DEF InputRows
<1>7. \A j \in DOMAIN f : f[j] = DOMAIN files[inputs[j]].rows
  OBVIOUS
<1>. HIDE DEF f, P, rows
<1>8. /\ IsFiniteSet(P) /\ P \subseteq Nat \X Nat
      /\ \A p : p \in P <=> p = <<p[1], p[2]>> /\ p[1] \in DOMAIN f /\ p[2] \in f[p[1]]
      /\ \A k \in DOMAIN f : \A l \in f[k] : <<k, l>> \in P
  <2>1. IsFiniteSet(DOMAIN f) /\ DOMAIN f \subseteq Nat /\ \A k \in DOMAIN f : f[k] \subseteq Nat /\ IsFiniteSet(f[k])
    BY <1>3, <1>4, <1>5
  <2>2. Q = UNION {{k} \X f[k] : k \in DOMAIN f}
    OBVIOUS
  <2>. HIDE DEF Q
  <2>3. /\ IsFiniteSet(Q) /\ Q \subseteq Nat \X Nat
        /\ \A p : p \in Q <=> p = <<p[1], p[2]>> /\ p[1] \in DOMAIN f /\ p[2] \in f[p[1]]
        /\ \A k \in DOMAIN f : \A l \in f[k] : <<k, l>> \in Q
    BY <2>1, <2>2, FinitePlaces, ZenonT(60)
  <2>. QED  BY <1>5, <2>3, Zenon
<1>9. \A p \in P : /\ p[1] \in DOMAIN inputs /\ p[2] \in DOMAIN files[inputs[p[1]]].rows
                   /\ files[inputs[p[1]]].rows[p[2]] \in Row
  <2>1. TAKE p \in P
  <2>2. p[1] \in DOMAIN inputs /\ p[2] \in DOMAIN files[inputs[p[1]]].rows
    BY <1>5, <1>7, <1>8
  <2>3. files[inputs[p[1]]].rows \in Seq(Row)
    BY <1>1, <1>2, <2>2
  <2>. QED  BY <2>2, <2>3
<1>10. rows \in [P -> Row] /\ DOMAIN rows = P
  BY <1>6, <1>9
<1>11. \A j \in DOMAIN inputs : \A l \in DOMAIN files[inputs[j]].rows :
          <<j, l>> \in P /\ rows[<<j, l>>] = files[inputs[j]].rows[l]
  BY <1>5, <1>6, <1>7, <1>8
<1>12. \A p \in P : rows[p] = files[inputs[p[1]]].rows[p[2]]
  BY <1>6
<1>. QED  BY <1>2, <1>8, <1>9, <1>10, <1>11, <1>12, Zenon DEF rows, Table

\* What the merge writes.
LEMMA MergeFacts ==
    ASSUME files \in Seq(File), NEW inputs \in MergeInputs
    PROVE  LET m == InOrder(Unique(InputRows(inputs)))
           IN  /\ m \in Seq(Row)
               /\ \A j \in DOMAIN m : m[j].index = j - 1
               /\ \A j, k \in DOMAIN m : j < k => m[j].slot <= m[k].slot
               /\ \A j, k \in DOMAIN m : j # k => ~(m[j].slot = m[k].slot /\ m[j].tick = m[k].tick)
               /\ \E K \in SUBSET DOMAIN files :
                     Content([rows |-> m]) = UNION {Content(files[k]) : k \in K}
<1>. DEFINE rows == InputRows(inputs)
            u == Unique(rows)
            m == InOrder(u)
            total == Cardinality(DOMAIN u)
            at(k) == PlaceOf(u, k)
            K == {inputs[j] : j \in DOMAIN inputs}
<1>1. /\ Table(rows)
      /\ \A j \in DOMAIN inputs : inputs[j] \in DOMAIN files
      /\ \A p \in DOMAIN rows :
            /\ p[1] \in DOMAIN inputs /\ p[2] \in DOMAIN files[inputs[p[1]]].rows
            /\ rows[p] = files[inputs[p[1]]].rows[p[2]]
      /\ \A j \in DOMAIN inputs : \A l \in DOMAIN files[inputs[j]].rows :
            <<j, l>> \in DOMAIN rows /\ rows[<<j, l>>] = files[inputs[j]].rows[l]
  BY InputRowFacts, Zenon
<1>. HIDE DEF rows
<1>2. /\ Table(u) /\ DOMAIN u \subseteq DOMAIN rows
      /\ \A p \in DOMAIN u : u[p] = rows[p]
      /\ \A p, q \in DOMAIN u : p # q => Key(u[p]) # Key(u[q])
      /\ \A p \in DOMAIN rows : \E q \in DOMAIN u : Key(u[q]) = Key(rows[p])
  BY <1>1, UniqueFacts, Zenon
<1>. HIDE DEF u
<1>3. /\ total \in Nat /\ m \in Seq(Row) /\ Len(m) = total
      /\ \A k \in 1..total : /\ at(k) \in DOMAIN u
                         /\ m[k].slot = u[at(k)].slot /\ m[k].tick = u[at(k)].tick
                         /\ m[k].index = k - 1
      /\ \A j, k \in 1..total : j # k => at(j) # at(k)
      /\ \A p \in DOMAIN u : \E k \in 1..total : at(k) = p
      /\ \A j, k \in 1..total : j < k => m[j].slot <= m[k].slot
  BY <1>2, InOrderFacts, Zenon
<1>. HIDE DEF m, total, at
<1>4. DOMAIN m = 1..total
  BY <1>3, LenProperties
<1>5. \A j, k \in 1..total : j # k => ~(m[j].slot = m[k].slot /\ m[j].tick = m[k].tick)
  BY <1>2, <1>3 DEF Key
<1>6. K \in SUBSET DOMAIN files
  BY <1>1
<1>7. Content([rows |-> m]) = {[slot |-> m[k].slot, tick |-> m[k].tick] : k \in 1..total}
  BY <1>4, SMTT(60) DEF Content
<1>8. ASSUME NEW k \in 1..total
      PROVE  \E i \in K : [slot |-> m[k].slot, tick |-> m[k].tick] \in Content(files[i])
  <2>1. at(k) \in DOMAIN u /\ at(k) \in DOMAIN rows /\ u[at(k)] = rows[at(k)]
    BY <1>2, <1>3
  <2>. DEFINE p == at(k)
  <2>2. p[1] \in DOMAIN inputs /\ p[2] \in DOMAIN files[inputs[p[1]]].rows
    BY <1>1, <2>1
  <2>3. m[k].slot = files[inputs[p[1]]].rows[p[2]].slot /\ m[k].tick = files[inputs[p[1]]].rows[p[2]].tick
    BY <1>1, <1>3, <2>1
  <2>. HIDE DEF p
  <2>. QED  BY <2>2, <2>3 DEF Content
<1>9. ASSUME NEW i \in K, NEW x \in Content(files[i])
      PROVE  \E k \in 1..total : x = [slot |-> m[k].slot, tick |-> m[k].tick]
  <2>1. PICK j \in DOMAIN inputs : i = inputs[j]
    OBVIOUS
  <2>2. PICK l \in DOMAIN files[i].rows :
           x = [slot |-> files[i].rows[l].slot, tick |-> files[i].rows[l].tick]
    BY DEF Content
  <2>3. <<j, l>> \in DOMAIN rows /\ rows[<<j, l>>] = files[i].rows[l]
    BY <1>1, <2>1
  <2>4. PICK q \in DOMAIN u : Key(u[q]) = Key(files[i].rows[l])
    BY <1>2, <2>3
  <2>5. PICK k \in 1..total : at(k) = q
    BY <1>3
  <2>6. m[k].slot = files[i].rows[l].slot /\ m[k].tick = files[i].rows[l].tick
    BY <1>3, <2>4, <2>5 DEF Key
  <2>. QED  BY <2>2, <2>6
<1>10. Content([rows |-> m]) = UNION {Content(files[k]) : k \in K}
  <2>1. Content([rows |-> m]) \subseteq UNION {Content(files[k]) : k \in K}
    BY <1>7, <1>8
  <2>2. UNION {Content(files[k]) : k \in K} \subseteq Content([rows |-> m])
    BY <1>7, <1>9
  <2>. QED  BY <2>1, <2>2
<1>. QED  BY <1>3, <1>4, <1>5, <1>6, <1>10, Zenon DEF m, u, rows

-----------------------------------------------------------------------------
(***************************************************************************)
(* The sampler and the merge: the inductive invariant.                      *)
(***************************************************************************)
Sampled == {samples[k].sig : k \in DOMAIN samples}

\* Between processes nothing is left of a run.
IdleInv ==
    /\ pc \in {"idle", "merged"} =>
          /\ job = <<>> /\ from = 0 /\ cursor = 0 /\ page = {} /\ pages = 0 /\ samples = <<>>
          /\ errors = 0 /\ top = 0 /\ lost = {}
    /\ pc \in {"list", "tx", "write"} => job \in Jobs /\ Len(files) < MaxFiles
    /\ pc = "list" => page = {}
    /\ pc = "tx" => pages # 0
    /\ pc \in {"list", "tx"} /\ pages # 0 => cursor # 0 /\ cursor <= top
    /\ pages = 0 => page = {} /\ samples = <<>> /\ lost = {} /\ top = 0 /\ cursor = from

\* The walk is between c and t; what it has sampled (S) or not got (L) is newer than the rest
\* of the page (P), and a transaction it has passed was sampled, did not come or swaps nothing.
Walk(P, S, L, c, t) ==
    /\ P \cup S \cup L \subseteq c..t
    /\ \A sig \in P, old \in S \cup L : sig < old
    /\ S \cap L = {}
    /\ \A sig \in SigSet : c <= sig /\ sig <= t => sig \in P \cup S \cup L \/ SwapsOf[sig] = {}

WalkInv ==
    /\ from # 0 /\ top # 0 => top = from - 1
    /\ Walk(page, Sampled, lost, cursor, top)
    /\ \A k \in DOMAIN samples : samples[k].previews = Previews(samples[k].sig)

\* A file's cursor is its oldest transaction; a file that goes on from a cursor ends behind it.
FileOK(f) ==
    /\ f.next = f.oldest
    /\ f.oldest # 0 => f.oldest <= f.top /\ (f.from # 0 => f.top = f.from - 1)
    /\ f.oldest # 0 /\ f.whole =>
          /\ Cardinality(Content(f)) = Len(f.rows)
          /\ Content(f) = UNION {SwapsOf[sig] : sig \in (f.oldest .. f.top) \ f.lost}

FilesInv == \A k \in DOMAIN files : FileOK(files[k])

SamplerInv == SamplerTypeOK /\ IdleInv /\ WalkInv /\ FilesInv /\ MergeIsExact

-----------------------------------------------------------------------------
(***************************************************************************)
(* The sampler and the merge: transactions, samples and the rows of a file. *)
(***************************************************************************)
LEMMA ChainFacts ==
    ASSUME NEW sig \in SigSet
    PROVE  LET log == Chain[sig].log
           IN  /\ Chain[sig].slot \in Nat /\ log \in Seq(LogLine) /\ Len(log) \in Nat
               /\ DOMAIN log = 1..Len(log) /\ DOMAIN log \subseteq Nat /\ IsFiniteSet(DOMAIN log)
               /\ \A k \in DOMAIN log : log[k].event.tick \in Int
<1>. DEFINE log == Chain[sig].log
<1>1. Chain[sig] \in [slot : Nat, failed : BOOLEAN, moved : BOOLEAN, log : Seq(LogLine)]
  BY ChainAssumption, ElementOfSeq DEF SigSet
<1>2. Chain[sig].slot \in Nat /\ log \in Seq(LogLine)
  BY <1>1
<1>. HIDE DEF log
<1>3. Len(log) \in Nat /\ DOMAIN log = 1..Len(log)
  BY <1>2, LenProperties
<1>4. IsFiniteSet(1..Len(log))
  <2>1. 1 \in Int /\ Len(log) \in Int
    BY <1>3
  <2>. QED  BY <2>1, FS_Interval, Zenon
<1>5. \A k \in DOMAIN log : log[k] \in LogLine
  BY <1>2
<1>6. \A k \in DOMAIN log : log[k].event.tick \in Int
  BY <1>5 DEF LogLine
<1>7. DOMAIN log \subseteq Nat
  BY <1>3
<1>. QED  BY <1>2, <1>3, <1>4, <1>6, <1>7 DEF log

\* Every swap of the pool matches, and a transaction that fails, moves nothing or invokes no
\* swap has none.
LEMMA MatchFacts ==
    ASSUME NEW sig \in SigSet
    PROVE  /\ MatchedEvents[sig] \subseteq DOMAIN Chain[sig].log
           /\ SwapsOf[sig] = {[slot |-> Chain[sig].slot, tick |-> Chain[sig].log[k].event.tick] :
                                k \in MatchedEvents[sig]}
           /\ \A k \in MatchedEvents[sig] : PoolData(Chain[sig].log, k)
           /\ Chain[sig].failed \/ ~Invoked(Chain[sig].log) \/ ~Chain[sig].moved => SwapsOf[sig] = {}
<1>. DEFINE log == Chain[sig].log
            D == {l \in DOMAIN log : PoolData(log, l)}
<1>1. Len(log) \in Nat /\ DOMAIN log = 1..Len(log)
  BY ChainFacts
<1>2. \A k \in DOMAIN log : PoolData(log, k) =>
          /\ ~Chain[sig].failed /\ Chain[sig].moved
          /\ \E i \in 1..k, j \in k..Len(log) : Invocation(log, i, j)
  BY ChainAssumption
<1>3. MatchedEvents[sig] = {k \in DOMAIN log : Matches(log, k)}
  BY DEF MatchedEvents
<1>4. SwapsOf[sig] = {[slot |-> Chain[sig].slot, tick |-> log[k].event.tick] : k \in D}
  BY DEF SwapsOf
<1>. HIDE DEF log
<1>5. \A k \in DOMAIN log : Matches(log, k) <=> PoolData(log, k)
  BY <1>2 DEF Matches
<1>6. MatchedEvents[sig] = D
  BY <1>3, <1>5
<1>7. ASSUME NEW k \in D PROVE Invoked(log)
  <2>1. k \in 1..Len(log)
    BY <1>1
  <2>2. PICK i \in 1..k, j \in k..Len(log) : Invocation(log, i, j)
    BY <1>2
  <2>3. i \in DOMAIN log /\ j \in DOMAIN log
    BY <1>1, <2>1
  <2>. QED  BY <2>2, <2>3 DEF Invoked
<1>8. Chain[sig].failed \/ ~Invoked(log) \/ ~Chain[sig].moved => D = {}
  BY <1>2, <1>7
<1>. HIDE DEF D
<1>9. D \subseteq DOMAIN log /\ \A k \in D : PoolData(log, k)
  BY DEF D
<1>. QED  BY <1>4, <1>6, <1>8, <1>9 DEF log

LEMMA SampleRowFacts ==
    ASSUME NEW s \in Seq(SampleSet),
           \A k \in DOMAIN s : s[k].previews \subseteq DOMAIN Chain[s[k].sig].log
    PROVE  LET rows == SampleRows(s)
           IN  /\ Table(rows)
               /\ \A p \in DOMAIN rows :
                     /\ p = <<p[1], p[2]>> /\ p[1] \in DOMAIN s /\ p[2] \in s[p[1]].previews
                     /\ rows[p].slot = Chain[s[p[1]].sig].slot
                     /\ rows[p].tick = Chain[s[p[1]].sig].log[p[2]].event.tick
               /\ \A k \in DOMAIN s : \A l \in s[k].previews : <<k, l>> \in DOMAIN rows
<1>. DEFINE f == [k \in DOMAIN s |-> s[k].previews]
            P == UNION {{k} \X s[k].previews : k \in DOMAIN s}
            Q == UNION {{k} \X f[k] : k \in DOMAIN f}
            rows == SampleRows(s)
<1>1. /\ Len(s) \in Nat /\ DOMAIN s = 1..Len(s)
      /\ \A k \in DOMAIN s : s[k].sig \in SigSet
  <2>1. Len(s) \in Nat /\ DOMAIN s = 1..Len(s)
    BY LenProperties
  <2>2. \A k \in DOMAIN s : s[k] \in SampleSet
    OBVIOUS
  <2>. QED  BY <2>1, <2>2 DEF SampleSet
<1>2. DOMAIN s \subseteq Nat /\ IsFiniteSet(DOMAIN s)
  <2>1. 1 \in Int /\ Len(s) \in Int
    BY <1>1
  <2>2. IsFiniteSet(1..Len(s))
    BY <2>1, FS_Interval, Zenon
  <2>. QED  BY <1>1, <2>2
<1>3. \A k \in DOMAIN s : s[k].previews \subseteq Nat /\ IsFiniteSet(s[k].previews)
  BY <1>1, ChainFacts, FS_Subset
<1>4. P = Q /\ DOMAIN f = DOMAIN s /\ \A k \in DOMAIN s : f[k] = s[k].previews
  OBVIOUS
<1>5. rows = [p \in P |-> SampleRow(s, p[1], p[2])]
  BY DEF SampleRows
<1>. HIDE DEF rows, P, Q, f
<1>6. /\ IsFiniteSet(P) /\ P \subseteq Nat \X Nat
      /\ \A p : p \in P <=> p = <<p[1], p[2]>> /\ p[1] \in DOMAIN s /\ p[2] \in s[p[1]].previews
      /\ \A k \in DOMAIN s : \A l \in s[k].previews : <<k, l>> \in P
  <2>1. IsFiniteSet(DOMAIN f) /\ DOMAIN f \subseteq Nat /\ \A k \in DOMAIN f : f[k] \subseteq Nat /\ IsFiniteSet(f[k])
    BY <1>2, <1>3, <1>4
  <2>2. /\ IsFiniteSet(Q) /\ Q \subseteq Nat \X Nat
        /\ \A p : p \in Q <=> p = <<p[1], p[2]>> /\ p[1] \in DOMAIN f /\ p[2] \in f[p[1]]
        /\ \A k \in DOMAIN f : \A l \in f[k] : <<k, l>> \in Q
    BY <2>1, FinitePlaces, ZenonT(60) DEF Q
  <2>. QED  BY <1>4, <2>2
<1>7. ASSUME NEW k \in DOMAIN s, NEW l \in s[k].previews
      PROVE  /\ SampleRow(s, k, l) \in Row
             /\ SampleRow(s, k, l).slot = Chain[s[k].sig].slot
             /\ SampleRow(s, k, l).tick = Chain[s[k].sig].log[l].event.tick
  <2>1. Chain[s[k].sig].slot \in Nat /\ Chain[s[k].sig].log[l].event.tick \in Int
    BY <1>1, ChainFacts
  <2>. DEFINE C == {x \in s[k].previews : x < l}
  <2>2. Cardinality(C) \in Nat
    <3>1. C \subseteq s[k].previews
      OBVIOUS
    <3>. HIDE DEF C
    <3>. QED  BY <1>3, <3>1, SubsetSize
  <2>3. k \in Nat \ {0}
    BY <1>1
  <2>. HIDE DEF C
  <2>4. 1000 * (k - 1) + Cardinality(C) \in Nat
    BY <2>2, <2>3
  <2>. QED  BY <2>1, <2>4 DEF C, SampleRow, Row
<1>8. DOMAIN rows = P /\ \A p \in P : rows[p] = SampleRow(s, p[1], p[2])
  BY <1>5
<1>9. rows \in [P -> Row]
  BY <1>5, <1>6, <1>7
<1>10. Table(rows)
  BY <1>6, <1>8, <1>9 DEF Table
<1>11. \A p \in DOMAIN rows :
          /\ p = <<p[1], p[2]>> /\ p[1] \in DOMAIN s /\ p[2] \in s[p[1]].previews
          /\ rows[p] = SampleRow(s, p[1], p[2])
  BY <1>6, <1>8, Zenon
<1>12. \A p \in DOMAIN rows :
          /\ rows[p].slot = Chain[s[p[1]].sig].slot
          /\ rows[p].tick = Chain[s[p[1]].sig].log[p[2]].event.tick
  BY <1>7, <1>11, ZenonT(60)
<1>13. \A k \in DOMAIN s : \A l \in s[k].previews : <<k, l>> \in DOMAIN rows
  BY <1>6, <1>8
<1>. QED  BY <1>10, <1>11, <1>12, <1>13, Zenon DEF rows

\* A file's rows are the swaps of the transactions sampled, each once.
LEMMA RowsExact ==
    ASSUME NEW s \in Seq(SampleSet),
           \A k \in DOMAIN s : s[k].previews = MatchedEvents[s[k].sig],
           \A j, k \in DOMAIN s : j # k => s[j].sig # s[k].sig
    PROVE  LET m == Rows(s)
               C == {[slot |-> m[j].slot, tick |-> m[j].tick] : j \in DOMAIN m}
           IN  /\ m \in Seq(Row)
               /\ Cardinality(C) = Len(m)
               /\ C = UNION {SwapsOf[s[k].sig] : k \in DOMAIN s}
<1>. DEFINE rows == SampleRows(s)
            m == Rows(s)
            total == Cardinality(DOMAIN rows)
            at(k) == PlaceOf(rows, k)
            C == {[slot |-> m[j].slot, tick |-> m[j].tick] : j \in DOMAIN m}
            g == [j \in 1..total |-> [slot |-> m[j].slot, tick |-> m[j].tick]]
            Swap_(sig, l) == [slot |-> Chain[sig].slot, tick |-> Chain[sig].log[l].event.tick]
<1>1. \A k \in DOMAIN s : s[k].sig \in SigSet
  <2>1. \A k \in DOMAIN s : s[k] \in SampleSet
    OBVIOUS
  <2>. QED  BY <2>1 DEF SampleSet
<1>2. \A k \in DOMAIN s : /\ s[k].previews \subseteq DOMAIN Chain[s[k].sig].log
                          /\ SwapsOf[s[k].sig] = {Swap_(s[k].sig, l) : l \in s[k].previews}
                          /\ \A l \in s[k].previews : PoolData(Chain[s[k].sig].log, l)
  BY <1>1, MatchFacts
<1>3. /\ Table(rows)
      /\ \A p \in DOMAIN rows :
            /\ p = <<p[1], p[2]>> /\ p[1] \in DOMAIN s /\ p[2] \in s[p[1]].previews
            /\ rows[p].slot = Chain[s[p[1]].sig].slot
            /\ rows[p].tick = Chain[s[p[1]].sig].log[p[2]].event.tick
      /\ \A k \in DOMAIN s : \A l \in s[k].previews : <<k, l>> \in DOMAIN rows
  BY <1>2, SampleRowFacts, Zenon
<1>. HIDE DEF rows
<1>4. m = InOrder(rows)
  BY DEF Rows, rows
<1>. HIDE DEF m
<1>5. /\ total \in Nat /\ m \in Seq(Row) /\ Len(m) = total
      /\ \A k \in 1..total : /\ at(k) \in DOMAIN rows
                         /\ m[k].slot = rows[at(k)].slot /\ m[k].tick = rows[at(k)].tick
      /\ \A j, k \in 1..total : j # k => at(j) # at(k)
      /\ \A p \in DOMAIN rows : \E k \in 1..total : at(k) = p
  BY <1>3, <1>4, InOrderFacts, Zenon
<1>. HIDE DEF total, at
<1>6. DOMAIN m = 1..total
  BY <1>5, LenProperties
<1>7. \A j \in 1..total : LET k == at(j)[1]  l == at(j)[2]
                      IN  /\ at(j) = <<k, l>> /\ k \in DOMAIN s /\ l \in s[k].previews
                          /\ [slot |-> m[j].slot, tick |-> m[j].tick] = Swap_(s[k].sig, l)
  <2>1. TAKE j \in 1..total
  <2>2. at(j) \in DOMAIN rows /\ m[j].slot = rows[at(j)].slot /\ m[j].tick = rows[at(j)].tick
    BY <1>5
  <2>3. /\ at(j) = <<at(j)[1], at(j)[2]>> /\ at(j)[1] \in DOMAIN s /\ at(j)[2] \in s[at(j)[1]].previews
        /\ rows[at(j)].slot = Chain[s[at(j)[1]].sig].slot
        /\ rows[at(j)].tick = Chain[s[at(j)[1]].sig].log[at(j)[2]].event.tick
    BY <1>3, <2>2
  <2>. QED  BY <2>2, <2>3, Zenon
<1>8. ASSUME NEW j \in 1..total, NEW i \in 1..total, i # j PROVE g[i] # g[j]
  <2>. DEFINE k == at(j)[1]  l == at(j)[2]  c == at(i)[1]  d == at(i)[2]
  <2>1. /\ at(j) = <<k, l>> /\ k \in DOMAIN s /\ l \in s[k].previews
        /\ g[j] = Swap_(s[k].sig, l)
    BY <1>7, Zenon
  <2>2. /\ at(i) = <<c, d>> /\ c \in DOMAIN s /\ d \in s[c].previews
        /\ g[i] = Swap_(s[c].sig, d)
    BY <1>7, Zenon
  <2>3. <<k, l>> # <<c, d>>
    <3>1. at(i) # at(j)
      BY <1>5, <1>8
    <3>. QED  BY <2>1, <2>2, <3>1, Zenon
  <2>. HIDE DEF k, l, c, d, g
  <2>4. <<s[k].sig, l>> # <<s[c].sig, d>>
    BY <2>1, <2>2, <2>3
  <2>5. /\ s[k].sig \in SigSet /\ l \in DOMAIN Chain[s[k].sig].log /\ PoolData(Chain[s[k].sig].log, l)
        /\ s[c].sig \in SigSet /\ d \in DOMAIN Chain[s[c].sig].log /\ PoolData(Chain[s[c].sig].log, d)
    BY <1>1, <1>2, <2>1, <2>2
  <2>6. Chain[s[k].sig].slot = Chain[s[c].sig].slot =>
           Chain[s[k].sig].log[l].event.tick # Chain[s[c].sig].log[d].event.tick
    BY <2>4, <2>5, ChainAssumption, ZenonT(60)
  <2>. QED  BY <2>1, <2>2, <2>6, SMTT(60)
<1>9. C = {g[j] : j \in 1..total} /\ DOMAIN g = 1..total
  BY <1>6
<1>10. Cardinality(C) = total
  <2>1. g \in Surjection(1..total, C)
    <3>1. g \in [1..total -> C] /\ \A t \in C : \E x \in 1..total : g[x] = t
      BY <1>9
    <3>. HIDE DEF g, C
    <3>. QED  BY <3>1 DEF Surjection
  <2>. HIDE DEF C, g
  <2>2. g \in Injection(1..total, C)
    BY <1>8, <2>1 DEF Injection, IsInjective, Surjection
  <2>3. IsFiniteSet(1..total) /\ Cardinality(1..total) = total
    BY <1>5, FS_Interval
  <2>. QED  BY <2>1, <2>2, <2>3, FS_Surjection
<1>11. C = UNION {SwapsOf[s[k].sig] : k \in DOMAIN s}
  <2>1. ASSUME NEW x \in C PROVE \E k \in DOMAIN s : x \in SwapsOf[s[k].sig]
    <3>1. PICK j \in 1..total : x = [slot |-> m[j].slot, tick |-> m[j].tick]
      BY <1>6
    <3>. DEFINE k == at(j)[1]  l == at(j)[2]
    <3>2. k \in DOMAIN s /\ l \in s[k].previews /\ x = Swap_(s[k].sig, l)
      BY <1>7, <3>1, Zenon
    <3>. HIDE DEF k, l
    <3>. QED  BY <1>2, <3>2
  <2>2. ASSUME NEW k \in DOMAIN s, NEW x \in SwapsOf[s[k].sig] PROVE x \in C
    <3>1. PICK l \in s[k].previews : x = Swap_(s[k].sig, l)
      BY <1>2
    <3>2. PICK j \in 1..total : at(j) = <<k, l>>
      BY <1>3, <1>5
    <3>3. at(j)[1] = k /\ at(j)[2] = l
      BY <3>2
    <3>4. [slot |-> m[j].slot, tick |-> m[j].tick] = Swap_(s[k].sig, l)
      BY <1>7, <3>3, Zenon
    <3>. QED  BY <1>6, <3>1, <3>4
  <2>. HIDE DEF C
  <2>. QED  BY <2>1, <2>2
<1>. QED  BY <1>5, <1>10, <1>11, Zenon DEF m, C

-----------------------------------------------------------------------------
(***************************************************************************)
(* The sampler and the merge: the walk.                                     *)
(***************************************************************************)
LEMMA SigFacts ==
    /\ Len(Chain) \in Nat /\ SigSet = 1..Len(Chain) /\ SigSet \subseteq Nat \ {0}
    /\ \A S : S \subseteq SigSet => IsFiniteSet(S) /\ Cardinality(S) \in Nat
<1>1. Len(Chain) \in Nat
  BY ChainAssumption, LenProperties
<1>2. SigSet = 1..Len(Chain) /\ SigSet \subseteq Nat \ {0}
  BY <1>1 DEF SigSet
<1>3. IsFiniteSet(1..Len(Chain))
  <2>1. 1 \in Int /\ Len(Chain) \in Int
    BY <1>1
  <2>. QED  BY <2>1, FS_Interval, Zenon
<1>. QED  BY <1>1, <1>2, <1>3, SubsetSize

\* The newest transaction of the page is passed.
LEMMA WalkPasses ==
    ASSUME NEW P \in SUBSET SigSet, NEW S \in SUBSET SigSet, NEW L \in SUBSET SigSet,
           NEW c \in Nat, NEW t \in Nat, NEW sig \in P, \A other \in P : other <= sig, Walk(P, S, L, c, t)
    PROVE  /\ Walk(P \ {sig}, S, L \cup {sig}, c, t)
           /\ Walk(P \ {sig}, S \cup {sig}, L, c, t)
           /\ SwapsOf[sig] = {} => Walk(P \ {sig}, S, L, c, t)
           /\ sig \notin S \cup L /\ \A old \in S \cup L : sig < old
<1>1. P \cup S \cup L \subseteq Nat
  BY SigFacts
<1>2. sig \notin S \cup L /\ \A old \in S \cup L : sig < old
  BY <1>1 DEF Walk
<1>3. \A other \in P \ {sig} : other < sig
  BY <1>1
<1>. QED  BY <1>1, <1>2, <1>3 DEF Walk

\* The next page goes on where the walk stands.
LEMMA ListedFacts ==
    ASSUME SamplerTypeOK, job \in Jobs, Listed # {}
    PROVE  LET newest == IF cursor = 0 THEN height ELSE cursor - 1
           IN  /\ Listed \subseteq SigSet /\ newest \in SigSet
               /\ Max(Listed) = newest /\ Min(Listed) \in SigSet /\ Min(Listed) <= newest
               /\ \A sig \in SigSet : Min(Listed) <= sig /\ sig <= newest => sig \in Listed
               /\ \A sig \in Listed : Min(Listed) <= sig /\ sig <= newest
<1>. DEFINE newest == IF cursor = 0 THEN height ELSE cursor - 1
<1>1. newest \in 0..Len(Chain) /\ job.scan \in Nat
  BY SigFacts, JobAssumption DEF SamplerTypeOK
<1>2. Listed = {sig \in 1..newest : newest - sig < job.scan}
  BY DEF Listed
<1>. HIDE DEF newest
<1>3. Listed \subseteq Nat /\ Listed \subseteq SigSet /\ \A sig \in Listed : sig <= newest
  BY <1>1, <1>2, SigFacts
<1>4. PICK low \in Listed : \A sig \in Listed : low <= sig
  BY <1>3, HasLeast
<1>5. newest \in Listed
  BY <1>1, <1>2, <1>4
<1>6. Max(Listed) = newest
  <2>1. newest \in Listed /\ \A y \in Listed : newest >= y
    BY <1>3, <1>5
  <2>2. \A x \in Listed : (\A y \in Listed : x >= y) => x = newest
    BY <1>1, <1>3, <1>5
  <2>. QED  BY <2>1, <2>2 DEF Max
<1>7. Min(Listed) = low
  <2>1. \A x \in Listed : (\A y \in Listed : x <= y) => x = low
    BY <1>3, <1>4
  <2>. QED  BY <1>4, <2>1 DEF Min
<1>8. \A sig \in SigSet : low <= sig /\ sig <= newest => sig \in Listed
  BY <1>1, <1>2, <1>4, SigFacts
<1>. QED  BY <1>3, <1>4, <1>5, <1>6, <1>7, <1>8, Zenon DEF newest

-----------------------------------------------------------------------------
(***************************************************************************)
(* The sampler and the merge: the steps.                                    *)
(***************************************************************************)
LEMMA SamplerInitInv == SamplerInit => SamplerInv
<1>. SUFFICES ASSUME SamplerInit PROVE SamplerInv
  OBVIOUS
<1>1. SamplerTypeOK
  <2>1. Len(Chain) - Growth \in 0..Len(Chain) /\ 0 \in 0..Attempts - 1
    BY SigFacts, BoundAssumption
  <2>2. IsFiniteSet({}) /\ Cardinality({}) = 0
    BY FS_EmptySet
  <2>3. files \in Seq(File) /\ Len(files) <= MaxFiles /\ merged \in Seq(Row) /\ samples \in Seq(SampleSet)
    BY BoundAssumption DEF SamplerInit
  <2>. QED  BY <2>1, <2>2, <2>3 DEF SamplerInit, SamplerTypeOK
<1>2. IdleInv
  BY DEF SamplerInit, IdleInv
<1>3. WalkInv
  <2>1. Sampled = {}
    BY DEF Sampled, SamplerInit
  <2>2. \A sig \in SigSet : ~(sig <= 0)
    BY SigFacts
  <2>. QED  BY <2>1, <2>2 DEF WalkInv, Walk, SamplerInit
<1>4. FilesInv /\ MergeIsExact
  BY DEF SamplerInit, FilesInv, MergeIsExact
<1>. QED  BY <1>1, <1>2, <1>3, <1>4 DEF SamplerInv

\* What becomes of a run does not touch the files there are.
LEMMA FilesKept ==
    ASSUME FilesInv, UNCHANGED files
    PROVE  FilesInv'
BY DEF FilesInv

LEMMA GrowInv == SamplerInv /\ Grow => SamplerInv'
<1>. SUFFICES ASSUME SamplerInv, Grow PROVE SamplerInv'
  OBVIOUS
<1>. USE DEF SamplerInv, Grow, run
<1>1. SamplerTypeOK'
  BY SigFacts DEF SamplerTypeOK
<1>2. IdleInv'
  BY DEF IdleInv
<1>3. WalkInv'
  BY DEF WalkInv, Sampled, Previews, Decodes
<1>4. FilesInv'
  BY FilesKept
<1>5. MergeIsExact'
  BY DEF MergeIsExact
<1>. QED  BY <1>1, <1>2, <1>3, <1>4, <1>5

LEMMA StartInv == SamplerInv /\ Start => SamplerInv'
<1>. SUFFICES ASSUME SamplerInv, Start PROVE SamplerInv'
  OBVIOUS
<1>. USE DEF SamplerInv, Start
<1>1. from' \in {0} \cup SigSet /\ cursor' = from'
  <2>1. \A k \in DOMAIN files : files[k] \in File
    BY DEF SamplerTypeOK
  <2>. QED  BY <2>1 DEF File
<1>2. SamplerTypeOK'
  BY <1>1 DEF SamplerTypeOK
<1>3. /\ pc = "idle" /\ page = {} /\ pages = 0 /\ samples = <<>> /\ errors = 0 /\ top = 0 /\ lost = {}
  BY DEF IdleInv
<1>4. IdleInv'
  BY <1>1, <1>3 DEF IdleInv
<1>5. WalkInv'
  <2>1. Sampled' = {} /\ samples' = <<>>
    BY <1>3 DEF Sampled
  <2>2. \A sig \in SigSet : ~(sig <= 0)
    BY SigFacts
  <2>. QED  BY <1>3, <2>1, <2>2 DEF WalkInv, Walk
<1>6. FilesInv'
  BY FilesKept
<1>7. MergeIsExact'
  BY DEF MergeIsExact
<1>. QED  BY <1>2, <1>4, <1>5, <1>6, <1>7

LEMMA RetryInv == SamplerInv /\ Retry => SamplerInv'
<1>. SUFFICES ASSUME SamplerInv, Retry PROVE SamplerInv'
  OBVIOUS
<1>. USE DEF SamplerInv, Retry, run
<1>1. SamplerTypeOK'
  <2>1. attempt' \in 0..Attempts - 1
    BY BoundAssumption DEF SamplerTypeOK, TriedAgain
  <2>. QED  BY <2>1 DEF SamplerTypeOK
<1>2. IdleInv'
  BY DEF IdleInv
<1>3. WalkInv'
  BY DEF WalkInv, Sampled, Previews, Decodes
<1>4. FilesInv'
  BY FilesKept
<1>5. MergeIsExact'
  BY DEF MergeIsExact
<1>. QED  BY <1>1, <1>2, <1>3, <1>4, <1>5

LEMMA ListPageInv == SamplerInv /\ ListPage => SamplerInv'
<1>. SUFFICES ASSUME SamplerInv, ListPage PROVE SamplerInv'
  OBVIOUS
<1>. USE DEF SamplerInv, ListPage
<1>1. job \in Jobs /\ page = {} /\ pages \in Nat /\ pc = "list"
  BY DEF IdleInv, SamplerTypeOK
<1>2. 0 \in 0..Attempts - 1
  BY BoundAssumption
<1>3. FilesInv' /\ MergeIsExact'
  BY FilesKept DEF MergeIsExact
<1>4. Sampled' = Sampled /\ \A sig : Previews(sig)' = Previews(sig)
  BY DEF Sampled, Previews, Decodes
<1>5. CASE Listed = {}
  <2>1. page' = {} /\ pc' = "write" /\ cursor' = cursor /\ top' = top
    BY <1>5 DEF Succeeded
  <2>2. SamplerTypeOK'
    BY <1>1, <1>2, <2>1 DEF SamplerTypeOK
  <2>3. IdleInv'
    BY <1>1, <2>1 DEF IdleInv
  <2>4. WalkInv'
    BY <1>1, <1>4, <2>1 DEF WalkInv
  <2>. QED  BY <1>3, <2>2, <2>3, <2>4
<1>6. CASE Listed # {}
  <2>. DEFINE newest == IF cursor = 0 THEN height ELSE cursor - 1
              low == Min(Listed)
  <2>1. /\ Listed \subseteq SigSet /\ newest \in SigSet
        /\ Max(Listed) = newest /\ low \in SigSet /\ low <= newest
        /\ \A sig \in SigSet : low <= sig /\ sig <= newest => sig \in Listed
        /\ \A sig \in Listed : low <= sig /\ sig <= newest
    BY <1>1, <1>6, ListedFacts
  <2>2. /\ pc' = "tx" /\ cursor' = low /\ top' = IF pages = 0 THEN newest ELSE top
        /\ page' = Succeeded(Listed)
    BY <1>6, <2>1
  <2>3. page' \subseteq Listed /\ \A sig \in Listed \ page' : SwapsOf[sig] = {}
    <3>1. \A sig \in Listed : Chain[sig].failed => SwapsOf[sig] = {}
      BY <2>1, MatchFacts
    <3>. QED  BY <2>2, <3>1 DEF Succeeded
  <2>4. SamplerTypeOK'
    BY <1>1, <1>2, <2>1, <2>2, <2>3 DEF SamplerTypeOK
  <2>5. page' \subseteq low..newest /\ low \in Nat \ {0} /\ newest \in Nat
    <3>. HIDE DEF newest, low
    <3>1. low \in Nat \ {0} /\ newest \in Nat /\ Listed \subseteq Nat
      BY <2>1, SigFacts
    <3>2. \A sig \in page' : sig \in Nat /\ low <= sig /\ sig <= newest
      BY <2>1, <2>3, <3>1
    <3>. QED  BY <3>1, <3>2
  <2>9. cursor' <= top'
    <3>1. CASE pages = 0
      BY <2>1, <2>2, <3>1
    <3>2. CASE pages # 0
      <4>1. cursor # 0 /\ cursor <= top /\ top' = top /\ newest = cursor - 1
        BY <1>1, <2>2, <3>2 DEF IdleInv
      <4>2. cursor \in Nat /\ top \in Nat
        BY SigFacts DEF SamplerTypeOK
      <4>. QED  BY <2>1, <2>2, <2>5, <4>1, <4>2
    <3>. QED  BY <3>1, <3>2
  <2>10. IdleInv'
    <3>1. pages' # 0 /\ pc' = "tx" /\ cursor' # 0
      BY <1>1, <2>2, <2>5
    <3>. QED  BY <1>1, <2>9, <3>1 DEF IdleInv
  <2>6. (from # 0 /\ top # 0 => top = from - 1)'
    <3>1. CASE pages = 0
      BY <2>1, <2>2, <3>1 DEF IdleInv
    <3>2. CASE pages # 0
      BY <2>2, <3>2 DEF WalkInv
    <3>. QED  BY <3>1, <3>2
  <2>7. Walk(page, Sampled, lost, cursor, top)'
    <3>1. CASE pages = 0
      <4>1. Sampled' = {} /\ lost' = {} /\ top' = newest /\ cursor' = low
        BY <1>4, <2>2, <3>1 DEF IdleInv, Sampled
      <4>2. page' \subseteq low..newest
        BY <2>5
      <4>3. \A sig \in SigSet : low <= sig /\ sig <= newest => sig \in page' \/ SwapsOf[sig] = {}
        BY <2>1, <2>3
      <4>. QED  BY <4>1, <4>2, <4>3 DEF Walk
    <3>2. CASE pages # 0
      <4>1. /\ cursor # 0 /\ newest = cursor - 1 /\ top' = top /\ cursor' = low /\ lost' = lost
            /\ Walk({}, Sampled, lost, cursor, top)
        BY <1>1, <2>2, <3>2 DEF IdleInv, WalkInv
      <4>2. cursor \in Nat /\ top \in Nat /\ newest \in Nat /\ low \in Nat /\ lost \subseteq Nat
        BY <2>1, SigFacts, SMTT(60) DEF SamplerTypeOK
      <4>3. cursor <= top
        BY <1>1, <3>2 DEF IdleInv
      <4>4. Sampled' \cup lost' \subseteq cursor..top
        BY <1>4, <4>1 DEF Walk
      <4>5. page' \subseteq low..newest
        BY <2>5
      <4>6. page' \cup Sampled' \cup lost' \subseteq low..top
        BY <2>1, <4>1, <4>2, <4>3, <4>4, <4>5
      <4>7. \A sig \in page', old \in Sampled' \cup lost' : sig < old
        BY <4>1, <4>2, <4>4, <4>5
      <4>8. Sampled' \cap lost' = {}
        BY <1>4, <4>1 DEF Walk
      <4>9. ASSUME NEW sig \in SigSet, low <= sig, sig <= top
            PROVE  sig \in page' \cup Sampled' \cup lost' \/ SwapsOf[sig] = {}
        <5>1. sig <= newest \/ cursor <= sig
          BY <4>1, <4>2, SigFacts
        <5>2. CASE sig <= newest
          BY <2>1, <2>3, <4>9, <5>2
        <5>3. CASE cursor <= sig
          BY <1>4, <4>1, <4>9, <5>3 DEF Walk
        <5>. QED  BY <5>1, <5>2, <5>3
      <4>. QED  BY <4>1, <4>6, <4>7, <4>8, <4>9 DEF Walk
    <3>. QED  BY <3>1, <3>2
  <2>8. WalkInv'
    BY <1>4, <2>6, <2>7 DEF WalkInv
  <2>. QED  BY <1>3, <2>4, <2>8, <2>10
<1>. QED  BY <1>5, <1>6

\* When a process is over nothing is left of its run.
LEMMA OverInv ==
    ASSUME SamplerTypeOK, Over, UNCHANGED <<height, merged>>,
           files' \in Seq(File), Len(files') <= MaxFiles
    PROVE  SamplerTypeOK' /\ IdleInv' /\ WalkInv' /\ MergeIsExact'
<1>. USE DEF Over
<1>1. SamplerTypeOK'
  <2>1. 0 \in 0..Attempts - 1
    BY BoundAssumption
  <2>2. samples' \in Seq(SampleSet)
    OBVIOUS
  <2>. QED  BY <2>1, <2>2, FS_EmptySet DEF SamplerTypeOK
<1>2. IdleInv'
  BY DEF IdleInv
<1>3. WalkInv'
  <2>1. Sampled' = {}
    BY DEF Sampled
  <2>2. \A sig \in SigSet : ~(sig <= 0)
    BY SigFacts
  <2>. QED  BY <2>1, <2>2 DEF WalkInv, Walk
<1>4. MergeIsExact'
  BY DEF MergeIsExact
<1>. QED  BY <1>1, <1>2, <1>3, <1>4

LEMMA ListFailsInv == SamplerInv /\ ListFails => SamplerInv'
<1>. SUFFICES ASSUME SamplerInv, ListFails PROVE SamplerInv'
  OBVIOUS
<1>1. Over /\ UNCHANGED <<height, files, merged>>
  BY DEF ListFails
<1>2. files' \in Seq(File) /\ Len(files') <= MaxFiles
  BY <1>1 DEF SamplerInv, SamplerTypeOK
<1>3. SamplerTypeOK' /\ IdleInv' /\ WalkInv' /\ MergeIsExact'
  BY <1>1, <1>2, OverInv DEF SamplerInv
<1>4. FilesInv'
  BY <1>1, FilesKept DEF SamplerInv
<1>. QED  BY <1>3, <1>4 DEF SamplerInv

\* One transaction of the page is passed: what is lost and what was sampled before it.
LEMMA PassFacts ==
    ASSUME SamplerInv, NEW sig \in page, \A other \in page : other <= sig
    PROVE  /\ Walk(page \ {sig}, Sampled, lost \cup {sig}, cursor, top)
           /\ Walk(page \ {sig}, Sampled \cup {sig}, lost, cursor, top)
           /\ SwapsOf[sig] = {} => Walk(page \ {sig}, Sampled, lost, cursor, top)
           /\ \A old \in Sampled : sig < old
           /\ sig \in SigSet /\ sig \notin lost
           /\ lost \cup {sig} \subseteq SigSet
           /\ Cardinality(lost \cup {sig}) = Cardinality(lost) + 1 /\ Cardinality(lost) \in Nat
<1>1. cursor \in Nat /\ top \in Nat /\ sig \in SigSet /\ page \subseteq SigSet /\ lost \subseteq SigSet
  BY SigFacts DEF SamplerInv, SamplerTypeOK
<1>2. Sampled \subseteq SigSet
  <2>1. \A k \in DOMAIN samples : samples[k] \in SampleSet
    BY DEF SamplerInv, SamplerTypeOK
  <2>. QED  BY <2>1 DEF Sampled, SampleSet
<1>3. Walk(page, Sampled, lost, cursor, top)
  BY DEF SamplerInv, WalkInv
<1>4. /\ Walk(page \ {sig}, Sampled, lost \cup {sig}, cursor, top)
      /\ Walk(page \ {sig}, Sampled \cup {sig}, lost, cursor, top)
      /\ SwapsOf[sig] = {} => Walk(page \ {sig}, Sampled, lost, cursor, top)
      /\ sig \notin Sampled \cup lost /\ \A old \in Sampled \cup lost : sig < old
  <2>1. page \in SUBSET SigSet /\ Sampled \in SUBSET SigSet /\ lost \in SUBSET SigSet
    BY <1>1, <1>2
  <2>2. \A other \in page : other <= sig
    OBVIOUS
  <2>. HIDE DEF Sampled
  <2>3. Walk(page \ {sig}, Sampled, lost \cup {sig}, cursor, top)
    BY <1>1, <1>3, <2>1, <2>2, WalkPasses
  <2>4. Walk(page \ {sig}, Sampled \cup {sig}, lost, cursor, top)
    BY <1>1, <1>3, <2>1, <2>2, WalkPasses
  <2>5. SwapsOf[sig] = {} => Walk(page \ {sig}, Sampled, lost, cursor, top)
    BY <1>1, <1>3, <2>1, <2>2, WalkPasses
  <2>6. \A old \in Sampled \cup lost : sig < old
    BY <1>3 DEF Walk
  <2>7. sig \notin Sampled \cup lost
    BY <1>1, <2>6, SigFacts
  <2>. QED  BY <2>3, <2>4, <2>5, <2>6, <2>7
<1>5. Cardinality(lost \cup {sig}) = Cardinality(lost) + 1 /\ Cardinality(lost) \in Nat
  <2>1. IsFiniteSet(lost) /\ Cardinality(lost) \in Nat
    BY <1>1, SigFacts
  <2>. QED  BY <1>4, <2>1, FS_AddElement
<1>. QED  BY <1>1, <1>4, <1>5, Zenon

LEMMA TxFailsInv == SamplerInv /\ TxFails => SamplerInv'
<1>. SUFFICES ASSUME SamplerInv, TxFails PROVE SamplerInv'
  OBVIOUS
<1>. USE DEF SamplerInv
<1>1. PICK sig \in page : IsNext(sig) /\ page' = page \ {sig} /\ lost' = lost \cup {sig}
  BY DEF TxFails
<1>2. /\ pc = "tx" /\ errors' = errors + 1 /\ attempt' = 0
      /\ UNCHANGED <<height, job, from, pc, cursor, pages, samples, top, files, merged>>
  BY DEF TxFails
<1>3. /\ Walk(page', Sampled, lost', cursor, top)
      /\ lost' \subseteq SigSet /\ Cardinality(lost') = Cardinality(lost) + 1 /\ Cardinality(lost) \in Nat
  BY <1>1, PassFacts DEF IsNext
<1>4. SamplerTypeOK'
  <2>1. 0 \in 0..Attempts - 1
    BY BoundAssumption
  <2>2. errors' \in 0..Cardinality(lost')
    BY <1>2, <1>3 DEF SamplerTypeOK
  <2>. QED  BY <1>1, <1>2, <1>3, <2>1, <2>2 DEF SamplerTypeOK
<1>5. IdleInv'
  BY <1>1, <1>2 DEF IdleInv
<1>6. Sampled' = Sampled /\ \A x : Previews(x)' = Previews(x)
  BY <1>2 DEF Sampled, Previews, Decodes
<1>7. WalkInv'
  BY <1>2, <1>3, <1>6 DEF WalkInv
<1>8. FilesInv' /\ MergeIsExact'
  BY <1>2, FilesKept DEF MergeIsExact
<1>. QED  BY <1>4, <1>5, <1>7, <1>8

LEMMA FetchTxInv == SamplerInv /\ FetchTx => SamplerInv'
<1>. SUFFICES ASSUME SamplerInv, FetchTx PROVE SamplerInv'
  OBVIOUS
<1>. USE DEF SamplerInv
<1>1. PICK sig \in page, reply \in Answers :
         /\ IsNext(sig) /\ page' = page \ {sig}
         /\ samples' = IF reply = "null" THEN samples ELSE samples \o Parsed(sig)
         /\ lost'    = IF reply = "null" THEN lost \cup {sig} ELSE lost
  BY DEF FetchTx
<1>2. /\ pc = "tx" /\ attempt' = 0 /\ pc' \in {"write", "tx"}
      /\ UNCHANGED <<height, job, from, cursor, pages, errors, top, files, merged>>
  BY DEF FetchTx
<1>3. /\ Walk(page \ {sig}, Sampled, lost \cup {sig}, cursor, top)
      /\ Walk(page \ {sig}, Sampled \cup {sig}, lost, cursor, top)
      /\ SwapsOf[sig] = {} => Walk(page \ {sig}, Sampled, lost, cursor, top)
      /\ \A old \in Sampled : sig < old
      /\ sig \in SigSet /\ lost \cup {sig} \subseteq SigSet
      /\ Cardinality(lost \cup {sig}) = Cardinality(lost) + 1 /\ Cardinality(lost) \in Nat
  BY <1>1, PassFacts DEF IsNext
<1>4. \A x : Previews(x)' = Previews(x)
  BY <1>2 DEF Previews, Decodes
<1>5. /\ samples \in Seq(SampleSet) /\ errors \in 0..Cardinality(lost)
      /\ \A j, k \in DOMAIN samples : j < k => samples[j].sig > samples[k].sig
  BY DEF SamplerTypeOK
<1>6. /\ samples' \in Seq(SampleSet)
      /\ \A j, k \in DOMAIN samples' : j < k => samples'[j].sig > samples'[k].sig
      /\ \A k \in DOMAIN samples' : samples'[k].previews = Previews(samples'[k].sig)
      /\ Walk(page', Sampled', lost', cursor, top)
      /\ lost' \subseteq SigSet /\ errors \in 0..Cardinality(lost')
  <2>1. CASE samples' = samples
    <3>1. Sampled' = Sampled
      BY <2>1 DEF Sampled
    <3>2. reply # "null" => SwapsOf[sig] = {}
      <4>1. SUFFICES ASSUME reply # "null" PROVE Parsed(sig) = <<>>
        BY <1>3, MatchFacts DEF Parsed
      <4>2. CASE Parsed(sig) = <<[sig |-> sig, previews |-> Previews(sig)]>>
        <5>1. Len(samples \o Parsed(sig)) = Len(samples) + 1
          BY <1>5, <4>2
        <5>. QED  BY <1>1, <1>5, <2>1, <4>1, <5>1
      <4>. QED  BY <4>2 DEF Parsed
    <3>3. Walk(page', Sampled', lost', cursor, top)
      BY <1>1, <1>3, <3>1, <3>2
    <3>4. lost' \subseteq SigSet /\ errors \in 0..Cardinality(lost')
      BY <1>1, <1>3, <1>5
    <3>. QED  BY <1>5, <2>1, <3>3, <3>4 DEF WalkInv
  <2>2. CASE samples' # samples
    <3>. DEFINE new == [sig |-> sig, previews |-> Previews(sig)]
    <3>1. reply # "null" /\ samples' = samples \o Parsed(sig) /\ lost' = lost
      BY <1>1, <2>2
    <3>2. Parsed(sig) = <<new>>
      <4>1. Parsed(sig) # <<>>
        BY <1>5, <2>2, <3>1
      <4>. QED  BY <4>1 DEF Parsed
    <3>3. new \in SampleSet
      <4>1. MatchedEvents[sig] \subseteq Nat \ {0}
        <5>1. MatchedEvents[sig] \subseteq DOMAIN Chain[sig].log
          BY <1>3, MatchFacts
        <5>2. DOMAIN Chain[sig].log = 1..Len(Chain[sig].log) /\ Len(Chain[sig].log) \in Nat
          BY <1>3, ChainFacts
        <5>. QED  BY <5>1, <5>2
      <4>2. Previews(sig) \subseteq Nat \ {0}
        BY <4>1 DEF Previews
      <4>. QED  BY <1>3, <4>2 DEF SampleSet
    <3>4. new.sig = sig /\ new.previews = Previews(sig)
      OBVIOUS
    <3>. HIDE DEF new
    <3>5. samples' = Append(samples, new)
      BY <1>5, <3>1, <3>2, <3>3
    <3>6. /\ samples' \in Seq(SampleSet) /\ Len(samples) \in Nat
          /\ DOMAIN samples = 1..Len(samples) /\ DOMAIN samples' = 1..Len(samples) + 1
          /\ \A k \in DOMAIN samples : samples'[k] = samples[k]
          /\ samples'[Len(samples) + 1] = new
      BY <1>5, <3>3, <3>5
    <3>7. Sampled' = Sampled \cup {sig}
      <4>1. \A k \in DOMAIN samples' : k \in DOMAIN samples \/ k = Len(samples) + 1
        BY <3>6
      <4>2. Len(samples) + 1 \in DOMAIN samples' /\ DOMAIN samples \subseteq DOMAIN samples'
        BY <3>6
      <4>. QED  BY <3>4, <3>6, <4>1, <4>2 DEF Sampled
    <3>8. \A j, k \in DOMAIN samples' : j < k => samples'[j].sig > samples'[k].sig
      <4>1. TAKE j, k \in DOMAIN samples'
      <4>2. HAVE j < k
      <4>3. CASE k \in DOMAIN samples
        <5>1. j \in DOMAIN samples
          BY <3>6, <4>2, <4>3
        <5>. QED  BY <1>5, <3>6, <4>2, <4>3, <5>1
      <4>4. CASE k = Len(samples) + 1
        <5>1. j \in DOMAIN samples
          BY <3>6, <4>2, <4>4
        <5>2. samples[j].sig \in Sampled /\ samples[j].sig \in SigSet
          <6>1. samples[j] \in SampleSet
            BY <1>5, <5>1
          <6>. QED  BY <5>1, <6>1 DEF Sampled, SampleSet
        <5>3. sig < samples[j].sig
          BY <1>3, <5>2
        <5>4. samples'[k].sig = sig /\ samples'[j].sig = samples[j].sig
          BY <3>4, <3>6, <4>4, <5>1
        <5>. QED  BY <1>3, <5>2, <5>3, <5>4, SigFacts
      <4>. QED  BY <3>6, <4>3, <4>4
    <3>9. \A k \in DOMAIN samples' : samples'[k].previews = Previews(samples'[k].sig)
      <4>1. \A k \in DOMAIN samples : samples[k].previews = Previews(samples[k].sig)
        BY DEF WalkInv
      <4>. QED  BY <3>4, <3>6, <4>1
    <3>. QED  BY <1>1, <1>3, <1>5, <3>1, <3>6, <3>7, <3>8, <3>9
  <2>. QED  BY <2>1, <2>2
<1>7. SamplerTypeOK'
  <2>1. 0 \in 0..Attempts - 1
    BY BoundAssumption
  <2>. QED  BY <1>1, <1>2, <1>6, <2>1 DEF SamplerTypeOK
<1>8. IdleInv'
  BY <1>2 DEF IdleInv
<1>9. WalkInv'
  BY <1>2, <1>4, <1>6 DEF WalkInv
<1>10. FilesInv' /\ MergeIsExact'
  BY <1>2, FilesKept DEF MergeIsExact
<1>. QED  BY <1>7, <1>8, <1>9, <1>10

LEMMA PageDoneInv == SamplerInv /\ PageDone => SamplerInv'
<1>. SUFFICES ASSUME SamplerInv, PageDone PROVE SamplerInv'
  OBVIOUS
<1>. USE DEF SamplerInv
<1>1. /\ pc = "tx" /\ page = {} /\ pc' \in {"write", "list"}
      /\ UNCHANGED <<height, job, from, attempt, files, merged>>
      /\ UNCHANGED <<cursor, page, pages, samples, errors, top, lost>>
  BY DEF PageDone, run
<1>2. SamplerTypeOK'
  BY <1>1 DEF SamplerTypeOK
<1>3. IdleInv'
  BY <1>1 DEF IdleInv
<1>4. WalkInv'
  <2>1. Sampled' = Sampled /\ \A x : Previews(x)' = Previews(x)
    BY <1>1 DEF Sampled, Previews, Decodes
  <2>. QED  BY <1>1, <2>1 DEF WalkInv
<1>5. FilesInv' /\ MergeIsExact'
  BY <1>1, FilesKept DEF MergeIsExact
<1>. QED  BY <1>2, <1>3, <1>4, <1>5

LEMMA MergeInv == SamplerInv /\ Merge => SamplerInv'
<1>. SUFFICES ASSUME SamplerInv, Merge PROVE SamplerInv'
  OBVIOUS
<1>. USE DEF SamplerInv
<1>1. /\ pc = "idle" /\ pc' = "merged" /\ UNCHANGED <<height, job, from, attempt, files>>
      /\ UNCHANGED <<cursor, page, pages, samples, errors, top, lost>>
  BY DEF Merge, run
<1>2. PICK inputs \in MergeInputs : merged' = InOrder(Unique(InputRows(inputs)))
  BY DEF Merge, MergeInputs
<1>3. files \in Seq(File)
  BY DEF SamplerTypeOK
<1>4. /\ merged' \in Seq(Row)
      /\ \A j \in DOMAIN merged' : merged'[j].index = j - 1
      /\ \A j, k \in DOMAIN merged' : j < k => merged'[j].slot <= merged'[k].slot
      /\ \A j, k \in DOMAIN merged' : j # k =>
            ~(merged'[j].slot = merged'[k].slot /\ merged'[j].tick = merged'[k].tick)
      /\ \E K \in SUBSET DOMAIN files :
            Content([rows |-> merged']) = UNION {Content(files[k]) : k \in K}
  BY <1>2, <1>3, MergeFacts, Zenon
<1>5. SamplerTypeOK'
  BY <1>1, <1>4 DEF SamplerTypeOK
<1>6. IdleInv'
  BY <1>1 DEF IdleInv
<1>7. WalkInv'
  <2>1. Sampled' = Sampled /\ \A x : Previews(x)' = Previews(x)
    BY <1>1 DEF Sampled, Previews, Decodes
  <2>. QED  BY <1>1, <2>1 DEF WalkInv
<1>8. MergeIsExact'
  <2>1. files' = files
    BY <1>1
  <2>2. \E K \in SUBSET DOMAIN files' :
           Content([rows |-> merged']) = UNION {Content(files'[k]) : k \in K}
    BY <1>4, <2>1
  <2>. QED  BY <1>4, <2>2, Zenon DEF MergeIsExact
<1>. QED  BY <1>1, <1>5, <1>6, <1>7, <1>8, FilesKept

\* The file a run writes holds what the walk found between its oldest sample and its top.
LEMMA WrittenFacts ==
    ASSUME SamplerInv, pc = "write"
    PROVE  LET f == [from |-> from, top |-> top, next |-> Printed, rows |-> Rows(samples),
                     oldest |-> OldestKept, lost |-> lost, whole |-> Decodes]
           IN  f \in File /\ FileOK(f)
<1>. USE DEF SamplerInv
<1>. DEFINE f == [from |-> from, top |-> top, next |-> Printed, rows |-> Rows(samples),
                  oldest |-> OldestKept, lost |-> lost, whole |-> Decodes]
            m == Rows(samples)
            old == OldestKept
<1>1. /\ samples \in Seq(SampleSet) /\ Len(samples) \in Nat /\ DOMAIN samples = 1..Len(samples)
      /\ \A k \in DOMAIN samples : samples[k].sig \in SigSet
      /\ \A j, k \in DOMAIN samples : j < k => samples[j].sig > samples[k].sig
      /\ \A k \in DOMAIN samples : samples[k].previews = Previews(samples[k].sig)
  <2>1. samples \in Seq(SampleSet) /\ \A k \in DOMAIN samples : samples[k] \in SampleSet
    BY DEF SamplerTypeOK
  <2>. QED  BY <2>1, LenProperties DEF SamplerTypeOK, SampleSet, WalkInv
<1>2. /\ from \in {0} \cup SigSet /\ top \in {0} \cup SigSet /\ cursor \in {0} \cup SigSet
      /\ lost \in SUBSET SigSet
  BY DEF SamplerTypeOK
<1>3. Decodes \in BOOLEAN
  BY DEF Decodes
<1>4. m \in Seq(Row)
  <2>1. \A k \in DOMAIN samples : samples[k].previews \subseteq DOMAIN Chain[samples[k].sig].log
    BY <1>1, MatchFacts DEF Previews
  <2>2. Table(SampleRows(samples))
    BY <1>1, <2>1, SampleRowFacts, Zenon
  <2>. QED  BY <2>2, InOrderFacts DEF Rows
<1>5. CASE samples = <<>>
  <2>1. old = 0
    BY <1>5 DEF OldestKept
  <2>. HIDE DEF m, old
  <2>2. f = [from |-> from, top |-> top, next |-> old, rows |-> m,
             oldest |-> old, lost |-> lost, whole |-> Decodes]
    BY DEF Printed, m, old
  <2>. HIDE DEF f
  <2>. QED  BY <1>2, <1>3, <1>4, <2>1, <2>2 DEF f, File, FileOK
<1>6. CASE samples # <<>>
  <2>. DEFINE total == Len(samples)
  <2>1. total \in DOMAIN samples /\ old = samples[total].sig
    <3>1. total # 0
      BY <1>1, <1>6, EmptySeq
    <3>. QED  BY <1>1, <1>6, <3>1 DEF OldestKept
  <2>. HIDE DEF total
  <2>2. old \in SigSet /\ old \in Nat \ {0} /\ old \in Sampled
    BY <1>1, <2>1, SigFacts DEF Sampled
  <2>3. \A s \in Sampled : s \in SigSet /\ s \in Nat /\ old <= s
    <3>1. ASSUME NEW k \in DOMAIN samples PROVE samples[k].sig \in SigSet /\ samples[k].sig \in Nat /\ old <= samples[k].sig
      <4>1. samples[k].sig \in SigSet /\ samples[k].sig \in Nat
        BY <1>1, SigFacts
      <4>2. k = total \/ k < total
        BY <1>1, <2>1 DEF total
      <4>. QED  BY <1>1, <2>1, <2>2, <4>1, <4>2
    <3>. QED  BY <3>1 DEF Sampled
  <2>4. Walk(page, Sampled, lost, cursor, top) /\ top \in Nat /\ cursor \in Nat
    BY <1>2, SigFacts DEF WalkInv
  <2>5. cursor <= old /\ old <= top /\ top \in SigSet
    <3>1. old \in cursor..top
      BY <2>2, <2>4 DEF Walk
    <3>. QED  BY <1>2, <2>2, <2>4, <3>1
  <2>6. from # 0 => top = from - 1
    BY <2>2, <2>5 DEF WalkInv
  <2>7. ASSUME Decodes
        PROVE  /\ Cardinality(Content(f)) = Len(m)
               /\ Content(f) = UNION {SwapsOf[sig] : sig \in (old .. top) \ lost}
    <3>. DEFINE C == {[slot |-> m[j].slot, tick |-> m[j].tick] : j \in DOMAIN m}
    <3>1. \A k \in DOMAIN samples : samples[k].previews = MatchedEvents[samples[k].sig]
      BY <1>1, <2>7 DEF Previews
    <3>2. \A j, k \in DOMAIN samples : j # k => samples[j].sig # samples[k].sig
      <4>1. TAKE j, k \in DOMAIN samples
      <4>2. j \in Nat /\ k \in Nat /\ samples[j].sig \in Nat /\ samples[k].sig \in Nat
        BY <1>1, SigFacts
      <4>. QED  BY <1>1, <4>2
    <3>3. Cardinality(C) = Len(m) /\ C = UNION {SwapsOf[samples[k].sig] : k \in DOMAIN samples}
      BY <1>1, <3>1, <3>2, RowsExact, Zenon
    <3>4. Content(f) = C
      BY DEF Content
    <3>. HIDE DEF C, f, m, old
    <3>5. UNION {SwapsOf[samples[k].sig] : k \in DOMAIN samples} = UNION {SwapsOf[sig] : sig \in Sampled}
      BY DEF Sampled
    <3>6. Sampled \subseteq (old..top) \ lost
      <4>1. \A s \in Sampled : s \in Nat /\ old <= s /\ s <= top /\ s \notin lost
        BY <2>3, <2>4 DEF Walk
      <4>. QED  BY <2>2, <2>4, <4>1
    <3>7. \A sig \in (old..top) \ lost : sig \in Sampled \/ SwapsOf[sig] = {}
      <4>1. TAKE sig \in (old..top) \ lost
      <4>2. sig \in SigSet /\ old <= sig /\ cursor <= sig /\ sig <= top /\ sig \in Nat
        BY <1>2, <2>2, <2>4, <2>5, SigFacts
      <4>3. sig \notin page
        BY <2>2, <2>4, <4>2 DEF Walk
      <4>. QED  BY <2>4, <4>2, <4>3 DEF Walk
    <3>8. UNION {SwapsOf[sig] : sig \in Sampled} = UNION {SwapsOf[sig] : sig \in (old..top) \ lost}
      BY <3>6, <3>7
    <3>. QED  BY <3>3, <3>4, <3>5, <3>8
  <2>. HIDE DEF m, old
  <2>8. f = [from |-> from, top |-> top, next |-> old, rows |-> m,
             oldest |-> old, lost |-> lost, whole |-> Decodes]
    BY DEF Printed, m, old
  <2>9. f \in File
    BY <1>2, <1>3, <1>4, <2>2, <2>8 DEF File
  <2>10. FileOK(f)
    BY <2>5, <2>6, <2>7, <2>8, Zenon DEF FileOK
  <2>. QED  BY <2>9, <2>10
<1>. QED  BY <1>5, <1>6

LEMMA WriteFileInv == SamplerInv /\ WriteFile => SamplerInv'
<1>. SUFFICES ASSUME SamplerInv, WriteFile PROVE SamplerInv'
  OBVIOUS
<1>. DEFINE f == [from |-> from, top |-> top, next |-> Printed, rows |-> Rows(samples),
                  oldest |-> OldestKept, lost |-> lost, whole |-> Decodes]
<1>1. /\ pc = "write" /\ files' = Append(files, f)
      /\ Over /\ UNCHANGED <<height, merged>>
  BY DEF WriteFile
<1>2. f \in File /\ FileOK(f)
  BY <1>1, WrittenFacts, Zenon
<1>. HIDE DEF f
<1>3. files \in Seq(File) /\ FilesInv /\ Len(files) < MaxFiles
  BY <1>1 DEF SamplerInv, SamplerTypeOK, IdleInv
<1>4. /\ files' \in Seq(File) /\ Len(files') = Len(files) + 1 /\ Len(files) \in Nat
      /\ DOMAIN files = 1..Len(files) /\ DOMAIN files' = 1..Len(files) + 1
      /\ \A k \in DOMAIN files : files'[k] = files[k]
      /\ files'[Len(files) + 1] = f
  BY <1>1, <1>2, <1>3
<1>5. FilesInv'
  <2>1. ASSUME NEW k \in DOMAIN files' PROVE FileOK(files'[k])
    <3>1. k \in DOMAIN files \/ k = Len(files) + 1
      BY <1>4
    <3>. QED  BY <1>2, <1>3, <1>4, <3>1 DEF FilesInv
  <2>. QED  BY <2>1 DEF FilesInv
<1>6. Len(files') <= MaxFiles
  BY <1>3, <1>4, BoundAssumption
<1>7. SamplerTypeOK' /\ IdleInv' /\ WalkInv' /\ MergeIsExact'
  BY <1>1, <1>4, <1>6, OverInv DEF SamplerInv
<1>. QED  BY <1>5, <1>7 DEF SamplerInv

-----------------------------------------------------------------------------
(***************************************************************************)
(* The sampler and the merge: theorems.                                     *)
(***************************************************************************)
LEMMA SamplerStep == SamplerInv /\ [SamplerNext]_samplerVars => SamplerInv'
<1>. SUFFICES ASSUME SamplerInv, [SamplerNext]_samplerVars PROVE SamplerInv'
  OBVIOUS
<1>1. CASE SamplerNext
  BY <1>1, GrowInv, StartInv, RetryInv, ListPageInv, ListFailsInv, FetchTxInv, TxFailsInv,
     PageDoneInv, WriteFileInv, MergeInv DEF SamplerNext, Sample
<1>2. CASE UNCHANGED samplerVars
  <2>. USE <1>2 DEF SamplerInv, samplerVars
  <2>1. SamplerTypeOK' /\ IdleInv'
    BY DEF SamplerTypeOK, IdleInv
  <2>2. WalkInv'
    BY DEF WalkInv, Sampled, Previews, Decodes
  <2>3. FilesInv' /\ MergeIsExact'
    BY FilesKept DEF MergeIsExact
  <2>. QED  BY <2>1, <2>2, <2>3
<1>. QED  BY <1>1, <1>2

LEMMA SamplerSafe == SamplerSpec => []SamplerInv
BY SamplerInitInv, SamplerStep, PTL DEF SamplerSpec

\* The walk that a cursor starts joins the walk that printed it.
LEMMA FilesExact == SamplerInv => SampleIsExact
<1>. SUFFICES ASSUME SamplerInv, NEW k \in DOMAIN files, files[k].oldest # 0, files[k].whole
              PROVE  /\ Cardinality(Content(files[k])) = Len(files[k].rows)
                     /\ Content(files[k]) = UNION {SwapsOf[sig] : sig \in (files[k].oldest .. files[k].top) \ files[k].lost}
                     /\ \A i \in 1..k - 1 : files[i].whole /\ files[k].from # 0 /\ files[k].from = files[i].next =>
                            UNION {SwapsOf[sig] : sig \in (files[k].oldest .. files[i].top) \ (files[i].lost \cup files[k].lost)}
                                \subseteq Content(files[i]) \cup Content(files[k])
  BY DEF SampleIsExact
<1>1. files \in Seq(File) /\ \A i \in DOMAIN files : FileOK(files[i])
  BY DEF SamplerInv, SamplerTypeOK, FilesInv
<1>. DEFINE g == files[k]
<1>2. Cardinality(Content(g)) = Len(g.rows) /\ Content(g) = UNION {SwapsOf[sig] : sig \in (g.oldest .. g.top) \ g.lost}
  BY <1>1 DEF FileOK
<1>3. ASSUME NEW i \in 1..k - 1, files[i].whole, g.from # 0, g.from = files[i].next,
             NEW sig \in (g.oldest .. files[i].top) \ (files[i].lost \cup g.lost)
      PROVE  SwapsOf[sig] \subseteq Content(files[i]) \cup Content(g)
  <2>. DEFINE e == files[i]
  <2>1. i \in DOMAIN files
    <3>1. Len(files) \in Nat /\ DOMAIN files = 1..Len(files)
      BY <1>1, LenProperties
    <3>. QED  BY <3>1
  <2>2. e \in File /\ g \in File
    BY <1>1, <2>1
  <2>3. /\ {e.top, e.oldest, g.top, g.oldest, g.from} \subseteq Nat
    BY <2>2, SigFacts, SMTT(60) DEF File
  <2>4. /\ e.oldest # 0 /\ g.from = e.oldest /\ g.top = e.oldest - 1
        /\ Content(e) = UNION {SwapsOf[s] : s \in (e.oldest .. e.top) \ e.lost}
    BY <1>1, <1>3, <2>1 DEF FileOK
  <2>. HIDE DEF e, g
  <2>5. sig \in (e.oldest .. e.top) \ e.lost \/ sig \in (g.oldest .. g.top) \ g.lost
    BY <1>3, <2>3, <2>4 DEF e
  <2>. QED  BY <1>2, <2>4, <2>5 DEF e
<1>. QED  BY <1>2, <1>3

\* Types; no transaction is sampled twice, and every error is of a transaction that is missing.
THEOREM SamplerTypes == SamplerSpec => []SamplerTypeOK
<1>1. SamplerInv => SamplerTypeOK
  BY DEF SamplerInv
<1>. QED  BY <1>1, SamplerSafe, PTL

\* A file holds every swap of the pool between its ends, once, but for the transactions that
\* did not come, and a run resumed from a printed cursor joins the earlier one without a gap.
THEOREM FilesSound == SamplerSpec => []SampleIsExact
BY FilesExact, SamplerSafe, PTL

\* The merge of files, in any order, keeps each swap of theirs once, slot after slot.
THEOREM MergeSound == SamplerSpec => []MergeIsExact
<1>1. SamplerInv => MergeIsExact
  BY DEF SamplerInv
<1>. QED  BY <1>1, SamplerSafe, PTL

\* What the merge writes is a stream as the replay expects one: blocks do not fall.
Stream == [j \in DOMAIN merged |-> [tick |-> merged[j].tick, block |-> merged[j].slot]]

StreamIsSorted ==
    pc = "merged" =>
        /\ Stream \in Seq([tick : Int, block : Nat])
        /\ \A j, k \in DOMAIN Stream : j <= k => Stream[j].block <= Stream[k].block

THEOREM MergeFeedsReplay == SamplerSpec => []StreamIsSorted
<1>1. SamplerInv => StreamIsSorted
  <2>. SUFFICES ASSUME SamplerInv, pc = "merged"
                PROVE  /\ Stream \in Seq([tick : Int, block : Nat])
                       /\ \A j, k \in DOMAIN Stream : j <= k => Stream[j].block <= Stream[k].block
    BY DEF StreamIsSorted
  <2>1. /\ merged \in Seq(Row) /\ Len(merged) \in Nat /\ DOMAIN merged = 1..Len(merged)
        /\ \A j \in DOMAIN merged : merged[j] \in Row
    BY LenProperties DEF SamplerInv, SamplerTypeOK
  <2>2. \A j \in DOMAIN merged : merged[j].slot \in Nat /\ merged[j].tick \in Int
    BY <2>1 DEF Row
  <2>3. DOMAIN Stream = 1..Len(merged) /\ \A j \in DOMAIN merged : Stream[j].block = merged[j].slot
    BY <2>1 DEF Stream
  <2>4. Stream \in [1..Len(merged) -> [tick : Int, block : Nat]]
    BY <2>1, <2>2 DEF Stream
  <2>5. \A j, k \in DOMAIN merged : j <= k => merged[j].slot <= merged[k].slot
    <3>1. TAKE j, k \in DOMAIN merged
    <3>2. HAVE j <= k
    <3>3. CASE j = k
      BY <2>2, <3>3
    <3>4. CASE j < k
      BY <3>4 DEF SamplerInv, MergeIsExact
    <3>. QED  BY <2>1, <3>2, <3>3, <3>4
  <2>6. Stream \in Seq([tick : Int, block : Nat])
    <3>. DEFINE T == [tick : Int, block : Nat]
    <3>1. Stream \in [1..Len(merged) -> T] /\ Len(merged) \in Nat
      BY <2>1, <2>4
    <3>. HIDE DEF T
    <3>2. Stream \in Seq(T)
      BY <3>1
    <3>. QED  BY <3>2 DEF T
  <2>. QED  BY <2>1, <2>3, <2>5, <2>6
<1>. QED  BY <1>1, SamplerSafe, PTL
=============================================================================

----------------------------- MODULE DeskProofs -----------------------------
(***************************************************************************)
(* Theorems about the desk, for any prices of the grid, pool, fee, capital, *)
(* slippage and number of planner runs: types, the funding of a fresh mint, *)
(* the loss a swap that passes the gates may bring, and the success of a    *)
(* rebalance without a swap.                                                *)
(***************************************************************************)
EXTENDS Desk, SequenceTheorems, WellFoundedInduction, TLAPS

USE GridAssumption

-----------------------------------------------------------------------------
(***************************************************************************)
(* Facts about the arithmetic.                                              *)
(***************************************************************************)
LEMMA HasLeast ==
    ASSUME NEW T, T \subseteq Nat, T # {}
    PROVE  \E x \in T : \A y \in T : x <= y
<1>1. PICK x \in T : \A y \in T : <<y, x>> \notin OpToRel(<, Nat)
  BY NatLessThanWellFounded, WFMin, Zenon
<1>2. \A y \in T : ~(y < x)
  BY <1>1 DEF OpToRel
<1>. QED  BY <1>2

LEMMA DivNat ==
    ASSUME NEW a \in Nat, NEW b \in Nat \ {0}
    PROVE  a \div b \in Nat /\ b * (a \div b) <= a /\ a < b * (a \div b) + b
OBVIOUS

LEMMA ProductNat ==
    ASSUME NEW a \in Nat, NEW b \in Nat
    PROVE  a * b \in Nat
OBVIOUS

\* The quotient of Grid and a price grows as the price falls.
LEMMA GridOver ==
    ASSUME NEW s, OnGrid(s)
    PROVE  /\ s \in Nat \ {0} /\ Grid \div s \in Nat \ {0} /\ Grid = s * (Grid \div s)
           /\ \A t : OnGrid(t) /\ s <= t => Grid \div t \in Nat /\ Grid \div t <= Grid \div s
           /\ \A t : OnGrid(t) /\ s < t => Grid \div t < Grid \div s
<1>1. \A t : OnGrid(t) => t \in Nat \ {0} /\ Grid \div t \in Nat \ {0} /\ Grid = t * (Grid \div t)
  BY DEF OnGrid
<1>. DEFINE a == Grid \div s
<1>2. a \in Nat \ {0} /\ Grid = s * a /\ s \in Nat \ {0}
  BY <1>1
<1>3. ASSUME NEW t, OnGrid(t), s <= t PROVE Grid \div t \in Nat /\ Grid \div t <= a /\ (s < t => Grid \div t < a)
  <2>. DEFINE b == Grid \div t
  <2>1. b \in Nat \ {0} /\ Grid = t * b /\ t \in Nat \ {0}
    BY <1>1, <1>3
  <2>. HIDE DEF a, b
  <2>2. s * b <= t * b /\ (s < t => s * b < t * b)
    BY <1>2, <1>3, <2>1
  <2>3. s * b <= s * a /\ (s < t => s * b < s * a)
    BY <1>2, <2>1, <2>2
  <2>4. b <= a /\ (s < t => b < a)
    BY <1>2, <2>1, <2>3
  <2>. QED  BY <2>1, <2>4 DEF b
<1>4. \A t : OnGrid(t) /\ s <= t => Grid \div t \in Nat /\ Grid \div t <= a /\ (s < t => Grid \div t < a)
  BY <1>3, Zenon
<1>5. \A t : OnGrid(t) /\ s < t => s <= t
  BY <1>1, <1>2
<1>. HIDE DEF a
<1>6. \A t : OnGrid(t) /\ s < t => Grid \div t < a
  BY <1>4, <1>5, Zenon
<1>. QED  BY <1>2, <1>4, <1>6, Zenon DEF a

\* Both ends of a band are prices, in order.
Ordered(r) == OnGrid(r.lower) /\ OnGrid(r.upper) /\ r.lower <= r.upper

LEMMA Amounts ==
    ASSUME NEW r, Ordered(r), NEW s, OnGrid(s)
    PROVE  /\ Amount0(r, s) \in Nat /\ Amount1(r, s) \in Nat
           /\ r.lower < r.upper <=> Amount0(r, s) > 0 \/ Amount1(r, s) > 0
           /\ r.lower < r.upper => UnitValue(r, s) \in Nat \ {0}
<1>. DEFINE c == Clamp(s, r.lower, r.upper)
<1>0. r.lower \in Nat /\ r.upper \in Nat /\ s \in Nat /\ r.lower <= r.upper
  BY GridOver DEF Ordered
<1>1. OnGrid(c) /\ c \in Nat /\ r.lower <= c /\ c <= r.upper
  BY <1>0 DEF Ordered, Clamp
<1>. HIDE DEF c
<1>2. Grid \div c \in Nat /\ Grid \div r.upper \in Nat /\ Grid \div r.upper <= Grid \div c
  BY <1>1, GridOver DEF Ordered
<1>3. c < r.upper => Grid \div r.upper < Grid \div c
  BY <1>1, GridOver DEF Ordered
<1>4. Amount0(r, s) = Grid \div c - Grid \div r.upper /\ Amount1(r, s) = c - r.lower
  BY DEF Amount0, Amount1, c
<1>5. Amount0(r, s) \in Nat /\ Amount1(r, s) \in Nat
  BY <1>0, <1>1, <1>2, <1>4
<1>6. r.lower < r.upper <=> Amount0(r, s) > 0 \/ Amount1(r, s) > 0
  <2>1. CASE c < r.upper
    BY <1>0, <1>1, <1>2, <1>3, <1>4, <2>1
  <2>2. CASE c = r.upper
    BY <1>0, <1>1, <1>2, <1>4, <2>2
  <2>. QED  BY <1>0, <1>1, <2>1, <2>2
<1>7. ASSUME r.lower < r.upper PROVE UnitValue(r, s) \in Nat \ {0}
  <2>1. RiskPrice(s) \in Nat \ {0}
    BY GridOver DEF RiskPrice
  <2>. DEFINE a == Amount0(r, s) * Grid
              b == Amount1(r, s) * RiskPrice(s)
  <2>2. a \in Nat /\ (Amount0(r, s) > 0 => a > 0)
    BY <1>5
  <2>3. b \in Nat /\ (Amount1(r, s) > 0 => b > 0)
    BY <1>5, <2>1
  <2>4. UnitValue(r, s) = a + b
    BY DEF UnitValue, Mark
  <2>. HIDE DEF a, b
  <2>. QED  BY <1>6, <1>7, <2>2, <2>3, <2>4
<1>. QED  BY <1>5, <1>6, <1>7

LEMMA HoldingPair ==
    ASSUME NEW r, Ordered(r), NEW s, OnGrid(s), NEW liquidity \in Nat
    PROVE  Holding(r, liquidity, s) \in Nat \X Nat
<1>1. liquidity * Amount0(r, s) \in Nat /\ liquidity * Amount1(r, s) \in Nat
  BY Amounts, ProductNat
<1>. QED  BY <1>1 DEF Holding

LEMMA CutFacts ==
    ASSUME NEW x \in Nat
    PROVE  Cut(x) \in Nat /\ Cut(x) <= x
<1>1. Slip \in 0..100
  BY PlanAssumption
<1>. DEFINE y == x * (100 - Slip)
<1>2. y \in Nat /\ y <= x * 100
  BY <1>1
<1>. HIDE DEF y
<1>3. y \div 100 \in Nat /\ y \div 100 <= x
  BY <1>2
<1>. QED  BY <1>3 DEF Cut, y

LEMMA TakenNat ==
    ASSUME NEW in \in Nat, NEW fee \in 0..99
    PROVE  (in * (100 - fee)) \div 100 \in Nat
<1>1. in * (100 - fee) \in Nat
  BY ProductNat
<1>. QED  BY <1>1, DivNat

LEMMA SwapOutNat ==
    ASSUME NEW s, OnGrid(s), NEW in \in Nat, NEW fee \in 0..99, NEW zeroForOne \in BOOLEAN
    PROVE  SwapOut(s, in, zeroForOne, fee) \in Nat
<1>. DEFINE taken == (in * (100 - fee)) \div 100
<1>1. taken \in Nat /\ s \in Nat \ {0} /\ PoolLiquidity \in Nat \ {0}
  BY TakenNat, GridOver, PoolAssumption
<1>. HIDE DEF taken
<1>2. PoolLiquidity * s * s * taken \in Nat /\ Grid * taken * PoolLiquidity \in Nat
  BY <1>1, ProductNat
<1>3. Grid * PoolLiquidity + taken * s \in Nat \ {0}
  <2>1. Grid * PoolLiquidity \in Nat \ {0} /\ taken * s \in Nat
    BY <1>1, ProductNat
  <2>. QED  BY <2>1
<1>4. s * (s * PoolLiquidity + taken) \in Nat \ {0}
  <2>1. s * PoolLiquidity \in Nat \ {0}
    BY <1>1
  <2>2. s * PoolLiquidity + taken \in Nat \ {0}
    BY <1>1, <2>1
  <2>. QED  BY <1>1, <2>2
<1>5. (PoolLiquidity * s * s * taken) \div (Grid * PoolLiquidity + taken * s) \in Nat
  BY <1>2, <1>3, DivNat
<1>6. (Grid * taken * PoolLiquidity) \div (s * (s * PoolLiquidity + taken)) \in Nat
  BY <1>2, <1>4, DivNat
<1>. QED  BY <1>5, <1>6 DEF SwapOut, taken

\* What a mint uses is desired.
LEMMA MintedFacts ==
    ASSUME NEW r, Ordered(r), NEW s, OnGrid(s), NEW desired \in Nat \X Nat
    PROVE  LET l == Minted(r, desired, s)
           IN  l \in Nat /\ Covers(desired, Holding(r, l, s)) /\ (l > 0 => r.lower < r.upper)
<1>. DEFINE a0 == Amount0(r, s)
            a1 == Amount1(r, s)
            d0 == desired[1]
            d1 == desired[2]
            carried == {d0 \div a : a \in {a0} \ {0}} \cup {d1 \div a : a \in {a1} \ {0}}
            l == Minted(r, desired, s)
<1>1. a0 \in Nat /\ a1 \in Nat /\ d0 \in Nat /\ d1 \in Nat /\ (r.lower < r.upper <=> a0 > 0 \/ a1 > 0)
  BY Amounts
<1>2. l = IF carried = {} THEN 0 ELSE CHOOSE x \in carried : \A k \in carried : x <= k
  BY DEF Minted
<1>3. Holding(r, l, s) = <<l * a0, l * a1>>
  BY DEF Holding
<1>. HIDE DEF a0, a1, d0, d1, l
<1>4. carried \subseteq Nat
  BY <1>1, DivNat
<1>5. carried = {} <=> a0 = 0 /\ a1 = 0
  OBVIOUS
<1>6. CASE carried = {}
  <2>1. l = 0
    BY <1>2, <1>6
  <2>. QED  BY <1>1, <1>3, <2>1 DEF Covers, d0, d1, l
<1>7. CASE carried # {}
  <2>1. \E x \in carried : \A k \in carried : x <= k
    <3>. HIDE DEF carried
    <3>. QED  BY <1>4, <1>7, HasLeast
  <2>2. l \in carried /\ \A k \in carried : l <= k
    <3>. HIDE DEF carried
    <3>. QED  BY <1>2, <1>7, <2>1
  <2>3. l \in Nat
    BY <1>4, <2>2
  <2>4. l * a0 <= d0
    <3>1. CASE a0 = 0
      BY <1>1, <2>3, <3>1
    <3>2. CASE a0 # 0
      <4>1. d0 \div a0 \in carried
        BY <3>2
      <4>2. l <= d0 \div a0 /\ d0 \div a0 \in Nat /\ a0 * (d0 \div a0) <= d0
        BY <1>1, <2>2, <3>2, <4>1, DivNat
      <4>. DEFINE q == d0 \div a0
      <4>. HIDE DEF q
      <4>3. l * a0 <= a0 * q
        BY <1>1, <2>3, <4>2 DEF q
      <4>. QED  BY <1>1, <2>3, <4>2, <4>3 DEF q
    <3>. QED  BY <3>1, <3>2
  <2>5. l * a1 <= d1
    <3>1. CASE a1 = 0
      BY <1>1, <2>3, <3>1
    <3>2. CASE a1 # 0
      <4>1. d1 \div a1 \in carried
        BY <3>2
      <4>2. l <= d1 \div a1 /\ d1 \div a1 \in Nat /\ a1 * (d1 \div a1) <= d1
        BY <1>1, <2>2, <3>2, <4>1, DivNat
      <4>. DEFINE q == d1 \div a1
      <4>. HIDE DEF q
      <4>3. l * a1 <= a1 * q
        BY <1>1, <2>3, <4>2 DEF q
      <4>. QED  BY <1>1, <2>3, <4>2, <4>3 DEF q
    <3>. QED  BY <3>1, <3>2
  <2>6. r.lower < r.upper
    BY <1>1, <1>5, <1>7
  <2>7. Covers(desired, Holding(r, l, s))
    BY <1>1, <1>3, <2>4, <2>5 DEF Covers, d0, d1
  <2>. QED  BY <2>3, <2>6, <2>7 DEF l
<1>. QED  BY <1>6, <1>7

\* The fit takes no more than there is.
LEMMA FitFacts ==
    ASSUME NEW have \in Nat \X Nat, NEW ratio \in Nat \X Nat
    PROVE  FitToRange(have, ratio) \in Nat \X Nat /\ Covers(have, FitToRange(have, ratio))
<1>. DEFINE h0 == have[1]
            h1 == have[2]
            r0 == ratio[1]
            r1 == ratio[2]
<1>0. have = <<h0, h1>> /\ h0 \in Nat /\ h1 \in Nat /\ r0 \in Nat /\ r1 \in Nat
  OBVIOUS
<1>1. CASE ~TwoSided(ratio)
  <2>1. FitToRange(have, ratio) = have
    BY <1>1 DEF FitToRange
  <2>. QED  BY <1>0, <2>1 DEF Covers
<1>2. CASE TwoSided(ratio)
  <2>1. r0 > 0 /\ r1 > 0
    BY <1>2 DEF TwoSided
  <2>. DEFINE q  == (h1 * r0) \div r1
              a0 == Smaller(h0, q)
              a1 == (a0 * r1) \div r0
  <2>2. FitToRange(have, ratio) = <<a0, a1>>
    BY <1>2 DEF FitToRange
  <2>. HIDE DEF h0, h1, r0, r1
  <2>3. h1 * r0 \in Nat
    BY <1>0, ProductNat
  <2>4. q \in Nat /\ r1 * q <= h1 * r0
    BY <1>0, <2>1, <2>3, DivNat
  <2>. HIDE DEF q
  <2>5. a0 \in Nat /\ a0 <= h0 /\ a0 <= q
    BY <1>0, <2>4 DEF Smaller
  <2>. HIDE DEF a0
  <2>6. a0 * r1 \in Nat /\ a0 * r1 <= r1 * q
    BY <1>0, <2>4, <2>5, ProductNat
  <2>7. a1 \in Nat /\ r0 * a1 <= a0 * r1
    BY <1>0, <2>1, <2>6, DivNat, SMTT(60)
  <2>. HIDE DEF a1
  <2>8. r0 * a1 <= r0 * h1
    <3>1. r0 * a1 \in Nat /\ r1 * q \in Nat
      BY <1>0, <2>4, <2>7, ProductNat
    <3>2. h1 * r0 = r0 * h1
      BY <1>0
    <3>. QED  BY <2>3, <2>4, <2>6, <2>7, <3>1, <3>2
  <2>9. a1 <= h1
    BY <1>0, <2>1, <2>7, <2>8
  <2>. QED  BY <1>0, <2>2, <2>5, <2>7, <2>9 DEF Covers, h0, h1
<1>. QED  BY <1>1, <1>2

\* What was read of the pool suffices to compute with.
Read(s) == OnGrid(s.price) /\ s.fee \in 0..99

\* The swap takes its input from the balance of that token; capital in token0 is sold.
LEMMA SolveSwaps ==
    ASSUME Read(seen), NEW have \in Nat \X Nat, NEW ratio \in Nat \X Nat,
           TwoSided(ratio), have[2] * ratio[1] # ratio[2] * have[1]
    PROVE  LET s == Solve(have, ratio)
           IN  /\ s \in [zeroForOne : BOOLEAN, in : Nat, outMin : Nat]
               /\ s.in <= have[IF s.zeroForOne THEN 1 ELSE 2]
               /\ have[2] = 0 => s.zeroForOne
<1>. DEFINE zeroForOne == have[2] * ratio[1] < ratio[2] * have[1]
            h == have[IF zeroForOne THEN 1 ELSE 2]
            most == (999 * h) \div 1000
            Good(x) == /\ x = most \/ Reached(have, ratio, zeroForOne, x)
                       /\ x = 0 \/ ~Reached(have, ratio, zeroForOne, x - 1)
            in == CHOOSE x \in 0..most : Good(x)
            out == SwapOut(seen.price, in, zeroForOne, seen.fee)
<1>1. TwoSided(ratio) /\ have[2] * ratio[1] # ratio[2] * have[1]
  OBVIOUS
<1>2. Solve(have, ratio) = [zeroForOne |-> zeroForOne, in |-> in, outMin |-> Cut(out)]
  BY <1>1, ZenonT(60) DEF Solve
<1>3. h \in Nat /\ zeroForOne \in BOOLEAN
  OBVIOUS
<1>4. have[2] = 0 => zeroForOne
  <2>1. have[1] \in Nat /\ have[2] \in Nat /\ ratio[1] \in Nat /\ ratio[2] \in Nat
    OBVIOUS
  <2>2. have[2] = 0 => have[2] * ratio[1] = 0
    BY <2>1
  <2>3. ratio[2] * have[1] \in Nat
    BY <2>1, ProductNat
  <2>. QED  BY <1>1, <2>2, <2>3
<1>. HIDE DEF h, zeroForOne
<1>5. most \in Nat /\ most <= h
  BY <1>3
<1>. HIDE DEF most
<1>6. \E x \in 0..most : Good(x)
  <2>. DEFINE T == {x \in 0..most : x = most \/ Reached(have, ratio, zeroForOne, x)}
  <2>1. T \subseteq Nat /\ most \in T
    BY <1>5
  <2>2. PICK x \in T : \A y \in T : x <= y
    BY <2>1, HasLeast
  <2>3. ASSUME x # 0 PROVE ~Reached(have, ratio, zeroForOne, x - 1)
    <3>1. x - 1 \in 0..most /\ ~(x <= x - 1)
      BY <1>5, <2>2, <2>3
    <3>. QED  BY <2>2, <3>1
  <2>. QED  BY <2>2, <2>3
<1>7. in \in 0..most
  BY <1>6
<1>. HIDE DEF in
<1>8. out \in Nat
  <2>1. in \in Nat
    BY <1>5, <1>7
  <2>2. OnGrid(seen.price) /\ seen.fee \in 0..99
    BY DEF Read
  <2>. QED  BY <1>3, <2>1, <2>2, SwapOutNat
<1>. HIDE DEF out
<1>9. Cut(out) \in Nat
  BY <1>8, CutFacts
<1>. QED  BY <1>2, <1>3, <1>4, <1>5, <1>7, <1>9, SMTT(60) DEF h

LEMMA SolveFacts ==
    ASSUME Read(seen), NEW have \in Nat \X Nat, NEW ratio \in Nat \X Nat, Solve(have, ratio) # None
    PROVE  LET s == Solve(have, ratio)
           IN  /\ s.zeroForOne \in BOOLEAN /\ s.in \in Nat /\ s.outMin \in Nat
               /\ s.in <= have[IF s.zeroForOne THEN 1 ELSE 2]
               /\ have[2] = 0 => s.zeroForOne
<1>. DEFINE s == Solve(have, ratio)
<1>1. TwoSided(ratio) /\ have[2] * ratio[1] # ratio[2] * have[1]
  BY SMTT(60) DEF Solve
<1>2. /\ s \in [zeroForOne : BOOLEAN, in : Nat, outMin : Nat]
      /\ s.in <= have[IF s.zeroForOne THEN 1 ELSE 2]
      /\ have[2] = 0 => s.zeroForOne
  BY <1>1, SolveSwaps
<1>. HIDE DEF s
<1>3. s.zeroForOne \in BOOLEAN /\ s.in \in Nat /\ s.outMin \in Nat
  BY <1>2
<1>. QED  BY <1>2, <1>3 DEF s

\* What the mint may count on is covered by what the swap leaves and returns.
LEMMA SafeFacts ==
    ASSUME Read(seen), NEW have \in Nat \X Nat, NEW ratio \in Nat \X Nat, Solve(have, ratio) # None
    PROVE  LET s == Solve(have, ratio)
           IN  /\ Safe(have, s) \in Nat \X Nat
               /\ s.zeroForOne => Covers(<<have[1] - s.in, have[2] + s.outMin>>, Safe(have, s))
<1>. DEFINE s == Solve(have, ratio)
<1>1. /\ s.zeroForOne \in BOOLEAN /\ s.in \in Nat /\ s.outMin \in Nat
      /\ s.in <= have[IF s.zeroForOne THEN 1 ELSE 2]
  BY SolveFacts
<1>. HIDE DEF s
<1>2. CASE s.zeroForOne
  <2>1. have[1] - s.in \in Nat /\ have[2] + s.outMin \in Nat
    BY <1>1, <1>2
  <2>2. Safe(have, s) = <<Cut(have[1] - s.in), Cut(have[2] + s.outMin)>>
    BY <1>2 DEF Safe
  <2>3. /\ Cut(have[1] - s.in) \in Nat /\ Cut(have[1] - s.in) <= have[1] - s.in
        /\ Cut(have[2] + s.outMin) \in Nat /\ Cut(have[2] + s.outMin) <= have[2] + s.outMin
    BY <2>1, CutFacts
  <2>4. Safe(have, s) \in Nat \X Nat /\ Covers(<<have[1] - s.in, have[2] + s.outMin>>, Safe(have, s))
    BY <2>1, <2>2, <2>3 DEF Covers
  <2>. QED  BY <2>4 DEF s
<1>3. CASE ~s.zeroForOne
  <2>1. have[2] - s.in \in Nat /\ have[1] + s.outMin \in Nat
    BY <1>1, <1>3
  <2>2. Safe(have, s) = <<Cut(have[1] + s.outMin), Cut(have[2] - s.in)>>
    BY <1>3 DEF Safe
  <2>3. Cut(have[1] + s.outMin) \in Nat /\ Cut(have[2] - s.in) \in Nat
    BY <2>1, CutFacts
  <2>. QED  BY <1>3, <2>2, <2>3 DEF s
<1>. QED  BY <1>2, <1>3

-----------------------------------------------------------------------------
(***************************************************************************)
(* What the calls do to the chain.                                          *)
(***************************************************************************)
Nft == {n \in [lower : 1..Grid, upper : 1..Grid, liquidity : Nat, owed : Nat \X Nat] :
            OnGrid(n.lower) /\ OnGrid(n.upper) /\ n.lower < n.upper}

ChainType == [price : Prices, wallet : Nat \X Nat, nfts : Seq(Nft)]

\* A call that can be made on a chain with n NFTs.
CallOK(call, n) ==
    \/ call.op = "mint" /\ Ordered(call.range) /\ call.desired \in Nat \X Nat
    \/ call.op = "collect" /\ call.token \in 1..n
    \/ call.op = "decrease" /\ call.token \in 1..n /\ call.liquidity \in Nat

\* Where a call or a swap may lead.
Follows(c, end) == end.chain \in ChainType /\ end.chain.price = c.price /\ Len(end.chain.nfts) >= Len(c.nfts)

LEMMA SameChain ==
    ASSUME NEW c \in ChainType, NEW why
    PROVE  Follows(c, Done(c)) /\ Follows(c, Reverts(c, why))
BY DEF Follows, Done, Reverts, ChainType

LEMMA ChainUpdate ==
    ASSUME NEW c \in ChainType, NEW w \in Nat \X Nat, NEW m \in Seq(Nft), Len(m) >= Len(c.nfts)
    PROVE  /\ Follows(c, Done([c EXCEPT !.wallet = w, !.nfts = m]))
           /\ Follows(c, Done([c EXCEPT !.nfts = m]))
           /\ Follows(c, Done([c EXCEPT !.wallet = w]))
<1>. DEFINE S == Seq(Nft)
            P == Nat \X Nat
<1>1. c \in [price : Prices, wallet : P, nfts : S] /\ w \in P /\ m \in S /\ ChainType = [price : Prices, wallet : P, nfts : S]
  BY DEF ChainType
<1>2. Len(c.nfts) \in Nat
  BY DEF ChainType
<1>. HIDE DEF S, P
<1>3. /\ [c EXCEPT !.wallet = w, !.nfts = m] \in ChainType
      /\ [c EXCEPT !.nfts = m] \in ChainType
      /\ [c EXCEPT !.wallet = w] \in ChainType
  BY <1>1
<1>4. /\ [c EXCEPT !.wallet = w, !.nfts = m].price = c.price /\ [c EXCEPT !.wallet = w, !.nfts = m].nfts = m
      /\ [c EXCEPT !.nfts = m].price = c.price /\ [c EXCEPT !.nfts = m].nfts = m
      /\ [c EXCEPT !.wallet = w].price = c.price /\ [c EXCEPT !.wallet = w].nfts = c.nfts
  BY <1>1
<1>5. \A d : d \in ChainType /\ d.price = c.price /\ Len(d.nfts) >= Len(c.nfts) => Follows(c, Done(d))
  BY Zenon DEF Follows, Done
<1>6. Len(c.nfts) >= Len(c.nfts)
  BY <1>2
<1>. QED  BY <1>3, <1>4, <1>5, <1>6, Zenon

LEMMA FollowsOn ==
    ASSUME NEW c \in ChainType, NEW e \in ChainType, e.price = c.price, Len(e.nfts) >= Len(c.nfts),
           NEW end, Follows(e, end)
    PROVE  Follows(c, end)
<1>1. end.chain \in ChainType /\ end.chain.price = c.price
  BY DEF Follows
<1>2. Len(c.nfts) \in Nat /\ Len(e.nfts) \in Nat /\ Len(end.chain.nfts) \in Nat
  BY <1>1, SMTT(60) DEF ChainType
<1>3. Len(end.chain.nfts) >= Len(e.nfts)
  BY DEF Follows
<1>4. Len(end.chain.nfts) >= Len(c.nfts)
  BY <1>2, <1>3, SMTT(60)
<1>. QED  BY <1>1, <1>4 DEF Follows

LEMMA NftFacts ==
    ASSUME NEW n \in Nft
    PROVE  /\ Ordered(n) /\ n.lower < n.upper /\ n.liquidity \in Nat /\ n.owed \in Nat \X Nat
           /\ \A x \in Nat, y \in Nat \X Nat : [n EXCEPT !.liquidity = x, !.owed = y] \in Nft
           /\ \A y \in Nat \X Nat : [n EXCEPT !.owed = y] \in Nft
<1>1. n \in [lower : 1..Grid, upper : 1..Grid, liquidity : Nat, owed : Nat \X Nat]
  BY DEF Nft
<1>2. OnGrid(n.lower) /\ OnGrid(n.upper) /\ n.lower < n.upper
  BY DEF Nft
<1>3. Ordered(n)
  BY <1>1, <1>2 DEF Ordered
<1>4. ASSUME NEW x \in Nat, NEW y \in Nat \X Nat PROVE [n EXCEPT !.liquidity = x, !.owed = y] \in Nft
  BY <1>1, <1>2 DEF Nft
<1>5. ASSUME NEW y \in Nat \X Nat PROVE [n EXCEPT !.owed = y] \in Nft
  BY <1>1, <1>2 DEF Nft
<1>. QED  BY <1>1, <1>2, <1>3, <1>4, <1>5, Zenon

LEMMA PairFacts ==
    ASSUME NEW a \in Nat \X Nat, NEW b \in Nat \X Nat
    PROVE  /\ Plus(a, b) \in Nat \X Nat /\ Covers(Plus(a, b), a)
           /\ Covers(a, b) => Minus(a, b) \in Nat \X Nat
BY DEF Plus, Minus, Covers

LEMMA CollectKeeps ==
    ASSUME NEW c \in ChainType, NEW call, call.token \in 1..Len(c.nfts)
    PROVE  Follows(c, AfterCollect(c, call))
<1>. DEFINE t == call.token
            w == Plus(c.wallet, c.nfts[t].owed)
            n == [c.nfts[t] EXCEPT !.owed = <<0, 0>>]
            m == [c.nfts EXCEPT ![t] = n]
            d == [c EXCEPT !.wallet = w, !.nfts = m]
<1>1. c.price \in Prices /\ c.wallet \in Nat \X Nat /\ c.nfts \in Seq(Nft)
  BY DEF ChainType
<1>2. c.nfts[t] \in Nft
  BY <1>1
<1>3. w \in Nat \X Nat /\ n \in Nft
  BY <1>1, <1>2, NftFacts, PairFacts
<1>4. AfterCollect(c, call) = Done(d)
  BY DEF AfterCollect, ChainType
<1>. HIDE DEF w, n
<1>5. m \in Seq(Nft) /\ Len(m) = Len(c.nfts)
  BY <1>1, <1>3
<1>. HIDE DEF m
<1>6. Len(m) >= Len(c.nfts)
  BY <1>1, <1>5
<1>. QED  BY <1>3, <1>4, <1>5, <1>6, ChainUpdate, ZenonT(60)

LEMMA DecreaseKeeps ==
    ASSUME NEW c \in ChainType, NEW call, call.token \in 1..Len(c.nfts), call.liquidity \in Nat
    PROVE  Follows(c, AfterDecrease(c, call))
<1>. DEFINE t == call.token
            nft == c.nfts[t]
            out == Holding(nft, call.liquidity, c.price)
            n == [nft EXCEPT !.liquidity = nft.liquidity - call.liquidity, !.owed = Plus(nft.owed, out)]
            m == [c.nfts EXCEPT ![t] = n]
            d == [c EXCEPT !.nfts = m]
<1>1. c.price \in Prices /\ c.wallet \in Nat \X Nat /\ c.nfts \in Seq(Nft)
  BY DEF ChainType
<1>2. nft \in Nft
  BY <1>1
<1>3. OnGrid(c.price)
  BY <1>1, PoolAssumption
<1>4. out \in Nat \X Nat
  BY <1>2, <1>3, NftFacts, HoldingPair
<1>5. \/ AfterDecrease(c, call) = Reverts(c, "liquidity")
      \/ AfterDecrease(c, call) = Reverts(c, "slippage")
      \/ call.liquidity <= nft.liquidity /\ AfterDecrease(c, call) = Done(d)
  <2>1. nft.liquidity \in Nat
    BY <1>2, NftFacts
  <2>2. CASE call.liquidity > nft.liquidity
    BY <2>2 DEF AfterDecrease
  <2>3. CASE call.liquidity <= nft.liquidity /\ ~Covers(out, call.min)
    BY <2>1, <2>3, SMTT(60) DEF AfterDecrease
  <2>4. CASE call.liquidity <= nft.liquidity /\ Covers(out, call.min)
    <3>1. ~(call.liquidity > nft.liquidity)
      BY <2>1, <2>4
    <3>2. AfterDecrease(c, call)
            = Done([c EXCEPT !.nfts[call.token].liquidity = @ - call.liquidity, !.nfts[call.token].owed = Plus(@, out)])
      BY <2>4, <3>1, Zenon DEF AfterDecrease
    <3>3. [c EXCEPT !.nfts[call.token].liquidity = @ - call.liquidity, !.nfts[call.token].owed = Plus(@, out)] = d
      <4>. HIDE DEF out
      <4>. QED  BY <1>1, <1>2, ZenonT(60) DEF ChainType, Nft
    <3>. QED  BY <2>4, <3>2, <3>3
  <2>. QED  BY <2>1, <2>2, <2>3, <2>4, SMTT(60)
<1>6. ASSUME call.liquidity <= nft.liquidity PROVE Follows(c, Done(d))
  <2>0. nft.liquidity \in Nat /\ nft.owed \in Nat \X Nat
    BY <1>2, NftFacts
  <2>1. nft.liquidity - call.liquidity \in Nat
    <3>. HIDE DEF nft
    <3>. QED  BY <1>6, <2>0
  <2>2. Plus(nft.owed, out) \in Nat \X Nat
    BY <1>4, <2>0, PairFacts
  <2>3. n \in Nft
    BY <1>2, <2>1, <2>2, NftFacts
  <2>. HIDE DEF n
  <2>4. m \in Seq(Nft) /\ Len(m) >= Len(c.nfts)
    BY <1>1, <2>3
  <2>. QED  BY <1>1, <2>4, ChainUpdate
<1>. QED  BY <1>5, <1>6, SameChain

LEMMA MintKeeps ==
    ASSUME NEW c \in ChainType, NEW call, Ordered(call.range), call.desired \in Nat \X Nat
    PROVE  /\ Follows(c, AfterMint(c, call))
           /\ Covers(c.wallet, call.desired) => AfterMint(c, call).outcome # "funds"
<1>. DEFINE l == Minted(call.range, call.desired, c.price)
            used == Holding(call.range, l, c.price)
            n == [lower |-> call.range.lower, upper |-> call.range.upper, liquidity |-> l, owed |-> <<0, 0>>]
            d == [c EXCEPT !.wallet = Minus(c.wallet, used), !.nfts = Append(c.nfts, n)]
<1>1. c.price \in Prices /\ c.wallet \in Nat \X Nat /\ c.nfts \in Seq(Nft)
  BY DEF ChainType
<1>2. OnGrid(c.price)
  BY <1>1, PoolAssumption
<1>3. l \in Nat /\ Covers(call.desired, used) /\ (l > 0 => call.range.lower < call.range.upper)
  BY <1>2, MintedFacts
<1>4. used \in Nat \X Nat
  BY <1>2, <1>3, HoldingPair
<1>5. AfterMint(c, call) =
        CASE l = 0 -> Reverts(c, "liquidity")
          [] l > 0 /\ ~Covers(used, call.min) -> Reverts(c, "slippage")
          [] l > 0 /\ Covers(used, call.min) /\ ~Covers(c.wallet, used) -> Reverts(c, "funds")
          [] OTHER -> Done(d)
  BY Zenon DEF AfterMint
<1>. HIDE DEF l, used
<1>6. \/ AfterMint(c, call) = Reverts(c, "liquidity")
      \/ AfterMint(c, call) = Reverts(c, "slippage")
      \/ ~Covers(c.wallet, used) /\ AfterMint(c, call) = Reverts(c, "funds")
      \/ l > 0 /\ Covers(c.wallet, used) /\ AfterMint(c, call) = Done(d)
  <2>1. l = 0 \/ l > 0
    BY <1>3
  <2>2. CASE l = 0
    <3>1. ~(l > 0)
      BY <2>2
    <3>. QED  BY <1>5, <2>2, <3>1, Zenon
  <2>3. CASE l > 0
    <3>1. l # 0
      BY <2>3
    <3>2. CASE ~Covers(used, call.min)
      BY <1>5, <2>3, <3>1, <3>2, Zenon
    <3>3. CASE Covers(used, call.min) /\ ~Covers(c.wallet, used)
      BY <1>5, <2>3, <3>1, <3>3, Zenon
    <3>4. CASE Covers(used, call.min) /\ Covers(c.wallet, used)
      BY <1>5, <2>3, <3>1, <3>4, Zenon
    <3>. QED  BY <3>2, <3>3, <3>4
  <2>. QED  BY <2>1, <2>2, <2>3
<1>7. ASSUME l > 0, Covers(c.wallet, used) PROVE Follows(c, Done(d))
  <2>1. call.range.lower < call.range.upper /\ OnGrid(call.range.lower) /\ OnGrid(call.range.upper)
    BY <1>3, <1>7 DEF Ordered
  <2>2. n \in Nft
    BY <1>3, <2>1 DEF Nft, OnGrid
  <2>3. Minus(c.wallet, used) \in Nat \X Nat
    BY <1>1, <1>4, <1>7, PairFacts
  <2>. HIDE DEF n
  <2>4. Append(c.nfts, n) \in Seq(Nft) /\ Len(Append(c.nfts, n)) >= Len(c.nfts)
    BY <1>1, <2>2, SMTT(60)
  <2>. QED  BY <2>3, <2>4, ChainUpdate
<1>8. Covers(c.wallet, call.desired) => Covers(c.wallet, used)
  BY <1>1, <1>3, <1>4, SMTT(60) DEF Covers
<1>9. Follows(c, AfterMint(c, call))
  BY <1>6, <1>7, SameChain
<1>10. Covers(c.wallet, call.desired) => AfterMint(c, call).outcome # "funds"
  BY <1>6, <1>8 DEF Reverts, Done
<1>. QED  BY <1>9, <1>10

LEMMA CallKeeps ==
    ASSUME NEW c \in ChainType, NEW call, CallOK(call, Len(c.nfts))
    PROVE  Follows(c, AfterCall(c, call))
<1>1. CASE call.op = "mint" /\ Ordered(call.range) /\ call.desired \in Nat \X Nat
  <2>1. AfterCall(c, call) = AfterMint(c, call)
    BY <1>1 DEF AfterCall
  <2>. QED  BY <1>1, <2>1, MintKeeps
<1>2. CASE call.op = "collect" /\ call.token \in 1..Len(c.nfts)
  <2>1. AfterCall(c, call) = AfterCollect(c, call)
    BY <1>2 DEF AfterCall
  <2>. QED  BY <1>2, <2>1, CollectKeeps
<1>3. CASE call.op = "decrease" /\ call.token \in 1..Len(c.nfts) /\ call.liquidity \in Nat
  <2>1. AfterCall(c, call) = AfterDecrease(c, call)
    BY <1>3 DEF AfterCall
  <2>. QED  BY <1>3, <2>1, DecreaseKeeps
<1>. QED  BY <1>1, <1>2, <1>3, Zenon DEF CallOK

\* The calls of a multicall one by one; that the recursive function exists is shown by the least
\* number of calls for which it would not.
Trace(c, calls, f) ==
    /\ f[0] = Done(c)
    /\ \A k \in 1..Len(calls) :
          f[k] = IF f[k - 1].outcome = "ok" THEN AfterCall(f[k - 1].chain, calls[k]) ELSE f[k - 1]

LEMMA MulticallTrace ==
    ASSUME NEW c, NEW calls, Len(calls) \in Nat
    PROVE  \E f : /\ Trace(c, calls, f)
                  /\ AfterMulticall(c, calls) = IF f[Len(calls)].outcome = "ok" THEN f[Len(calls)]
                                                ELSE Reverts(c, f[Len(calls)].outcome)
<1>. DEFINE m == Len(calls)
            start == Done(c)
            Step(e, j) == IF e.outcome = "ok" THEN AfterCall(e.chain, calls[j]) ELSE e
            Upto(k, f) == f = [j \in 0..k |-> IF j = 0 THEN start ELSE Step(f[j - 1], j)]
<1>1. m \in Nat
  OBVIOUS
<1>. HIDE DEF m, start, Step
<1>2. \A k \in 0..m : \E f : Upto(k, f)
  <2>. DEFINE T == {k \in 0..m : ~\E f : Upto(k, f)}
  <2>. SUFFICES ASSUME T # {} PROVE FALSE
    OBVIOUS
  <2>1. T \subseteq Nat
    BY <1>1
  <2>2. PICK k \in T : \A l \in T : k <= l
    BY <2>1, HasLeast
  <2>3. CASE k = 0
    <3>. DEFINE g == [j \in 0..0 |-> start]
    <3>1. Upto(0, g)
      OBVIOUS
    <3>. QED  BY <2>3, <3>1
  <2>4. CASE k # 0
    <3>1. k \in Nat /\ k - 1 \in 0..m /\ k \in 1..m /\ ~(k <= k - 1)
      BY <1>1, <2>4
    <3>2. k - 1 \notin T
      BY <2>2, <3>1
    <3>3. PICK f : Upto(k - 1, f)
      BY <3>1, <3>2
    <3>. DEFINE g == [j \in 0..k |-> IF j = k THEN Step(f[k - 1], k) ELSE f[j]]
    <3>4. \A j \in 0..k - 1 : g[j] = f[j]
      BY <3>1
    <3>5. \A j \in 0..k : g[j] = IF j = 0 THEN start ELSE Step(g[j - 1], j)
      <4>1. TAKE j \in 0..k
      <4>2. CASE j = k
        BY <3>1, <3>4, <4>2
      <4>3. CASE j # k
        <5>1. j \in 0..k - 1 /\ (j # 0 => j - 1 \in 0..k - 1)
          BY <3>1, <4>3
        <5>2. f[j] = IF j = 0 THEN start ELSE Step(f[j - 1], j)
          BY <3>3, <5>1
        <5>. QED  BY <3>4, <5>1, <5>2
      <4>. QED  BY <4>2, <4>3
    <3>6. Upto(k, g)
      BY <3>5
    <3>. QED  BY <3>6
  <2>. QED  BY <2>3, <2>4
<1>3. \E f : Upto(m, f)
  BY <1>1, <1>2
<1>. DEFINE s == CHOOSE f : Upto(m, f)
<1>4. Upto(m, s)
  BY <1>3
<1>5. AfterMulticall(c, calls) = IF s[m].outcome = "ok" THEN s[m] ELSE Reverts(c, s[m].outcome)
  BY Zenon DEF AfterMulticall, m, Step, start
<1>. HIDE DEF s
<1>6. \A j \in 0..m : s[j] = IF j = 0 THEN start ELSE Step(s[j - 1], j)
  BY <1>4
<1>7. s[0] = start /\ \A j \in 1..m : s[j] = Step(s[j - 1], j)
  BY <1>1, <1>6
<1>8. Trace(c, calls, s)
  BY <1>7, Zenon DEF Trace, m, start, Step
<1>. QED  BY <1>5, <1>8 DEF m

LEMMA MulticallKeeps ==
    ASSUME NEW c \in ChainType, NEW calls, Len(calls) \in Nat,
           \A k \in 1..Len(calls) : CallOK(calls[k], Len(c.nfts))
    PROVE  Follows(c, AfterMulticall(c, calls))
<1>. DEFINE m == Len(calls)
<1>1. PICK f : /\ Trace(c, calls, f)
               /\ AfterMulticall(c, calls) = IF f[m].outcome = "ok" THEN f[m] ELSE Reverts(c, f[m].outcome)
  BY MulticallTrace
<1>2. ASSUME NEW e \in ChainType, NEW n \in Nat, Len(e.nfts) >= n, NEW call, CallOK(call, n)
      PROVE  CallOK(call, Len(e.nfts))
  <2>1. Len(e.nfts) \in Nat
    BY DEF ChainType
  <2>. QED  BY <1>2, <2>1 DEF CallOK
<1>3. \A k \in 0..m : Follows(c, f[k])
  <2>. DEFINE T == {k \in 0..m : ~Follows(c, f[k])}
  <2>. SUFFICES ASSUME T # {} PROVE FALSE
    OBVIOUS
  <2>1. T \subseteq Nat
    OBVIOUS
  <2>2. PICK k \in T : \A l \in T : k <= l
    BY <2>1, HasLeast
  <2>3. k # 0
    BY <1>1, <2>2, SameChain DEF Trace
  <2>4. k - 1 \in 0..m /\ k \in 1..m /\ ~(k <= k - 1)
    BY <2>3
  <2>5. Follows(c, f[k - 1])
    BY <2>2, <2>4
  <2>6. f[k] = IF f[k - 1].outcome = "ok" THEN AfterCall(f[k - 1].chain, calls[k]) ELSE f[k - 1]
    BY <1>1, <2>4 DEF Trace
  <2>. DEFINE e == f[k - 1].chain
  <2>7. e \in ChainType /\ e.price = c.price /\ Len(e.nfts) >= Len(c.nfts) /\ Len(c.nfts) \in Nat /\ Len(e.nfts) \in Nat
    BY <2>5, SMTT(60) DEF Follows, ChainType
  <2>8. CallOK(calls[k], Len(e.nfts))
    BY <1>2, <2>4, <2>7
  <2>9. Follows(e, AfterCall(e, calls[k]))
    BY <2>7, <2>8, CallKeeps
  <2>10. Follows(c, AfterCall(e, calls[k]))
    <3>. HIDE DEF e
    <3>. QED  BY <2>7, <2>9, FollowsOn
  <2>. QED  BY <2>2, <2>5, <2>6, <2>10
<1>4. Follows(c, f[m])
  BY <1>3
<1>. QED  BY <1>1, <1>4, SameChain

\* A multicall of one mint reverts for want of funds only if the wallet does not cover what is desired.
LEMMA MulticallOfMint ==
    ASSUME NEW c \in ChainType, NEW call, call.op = "mint", Ordered(call.range),
           call.desired \in Nat \X Nat, Covers(c.wallet, call.desired)
    PROVE  AfterMulticall(c, <<call>>).outcome # "funds"
<1>. DEFINE calls == <<call>>
<1>1. Len(calls) = 1 /\ calls[1] = call
  OBVIOUS
<1>. HIDE DEF calls
<1>0. PICK f : /\ Trace(c, calls, f)
               /\ AfterMulticall(c, calls) = IF f[Len(calls)].outcome = "ok" THEN f[Len(calls)]
                                             ELSE Reverts(c, f[Len(calls)].outcome)
  <2>1. Len(calls) \in Nat
    BY <1>1
  <2>. QED  BY <2>1, MulticallTrace
<1>2. /\ Trace(c, calls, f)
      /\ AfterMulticall(c, calls) = IF f[1].outcome = "ok" THEN f[1] ELSE Reverts(c, f[1].outcome)
  BY <1>0, <1>1
<1>3. f[0] = Done(c)
  BY <1>2 DEF Trace
<1>4. f[1] = IF f[0].outcome = "ok" THEN AfterCall(f[0].chain, call) ELSE f[0]
  BY <1>1, <1>2 DEF Trace
<1>5. f[0].outcome = "ok" /\ f[0].chain = c
  BY <1>3 DEF Done
<1>6. f[1] = AfterMint(c, call)
  BY <1>4, <1>5 DEF AfterCall
<1>7. f[1].outcome # "funds"
  BY <1>6, MintKeeps
<1>. QED  BY <1>2, <1>7 DEF Reverts, calls

LEMMA SwapKeeps ==
    ASSUME NEW c \in ChainType, NEW s, s.zeroForOne \in BOOLEAN, s.in \in Nat, s.outMin \in Nat
    PROVE  /\ Follows(c, AfterSwap(c, s))
           /\ \A h \in Nat \X Nat, d \in Nat \X Nat :
                 /\ AfterSwap(c, s).outcome = "ok" /\ s.zeroForOne /\ Covers(c.wallet, h)
                 /\ s.in <= h[1] /\ Covers(<<h[1] - s.in, h[2] + s.outMin>>, d)
                 => Covers(AfterSwap(c, s).chain.wallet, d)
<1>. DEFINE out == SwapOut(c.price, s.in, s.zeroForOne, Fee)
            spent == IF s.zeroForOne THEN <<s.in, 0>> ELSE <<0, s.in>>
            got == IF s.zeroForOne THEN <<0, out>> ELSE <<out, 0>>
            w == Plus(Minus(c.wallet, spent), got)
            d0 == [c EXCEPT !.wallet = w]
<1>1. c.price \in Prices /\ c.wallet \in Nat \X Nat /\ c.nfts \in Seq(Nft)
  BY DEF ChainType
<1>2. OnGrid(c.price) /\ Fee \in 0..99
  BY <1>1, PoolAssumption
<1>3. out \in Nat
  BY <1>2, SwapOutNat
<1>4. AfterSwap(c, s) =
        CASE ~Covers(c.wallet, spent) -> Reverts(c, "funds")
          [] Covers(c.wallet, spent) /\ out < s.outMin -> Reverts(c, "slippage")
          [] OTHER -> Done(d0)
  BY Zenon DEF AfterSwap
<1>. HIDE DEF out
<1>5. spent \in Nat \X Nat /\ got \in Nat \X Nat
  BY <1>3
<1>6. \/ AfterSwap(c, s) = Reverts(c, "funds")
      \/ AfterSwap(c, s) = Reverts(c, "slippage")
      \/ Covers(c.wallet, spent) /\ ~(out < s.outMin) /\ AfterSwap(c, s) = Done(d0)
  <2>. HIDE DEF spent, d0
  <2>1. CASE ~Covers(c.wallet, spent)
    BY <1>4, <2>1, Zenon
  <2>2. CASE Covers(c.wallet, spent) /\ out < s.outMin
    BY <1>4, <2>2, Zenon
  <2>3. CASE Covers(c.wallet, spent) /\ ~(out < s.outMin)
    BY <1>4, <2>3, Zenon
  <2>. QED  BY <2>1, <2>2, <2>3
<1>7. ASSUME Covers(c.wallet, spent) PROVE Follows(c, Done(d0))
  <2>1. w \in Nat \X Nat
    <3>. HIDE DEF spent, got
    <3>. QED  BY <1>1, <1>5, <1>7, PairFacts
  <2>2. Len(c.nfts) >= Len(c.nfts)
    BY <1>1
  <2>. HIDE DEF w
  <2>. QED  BY <1>1, <2>1, <2>2, ChainUpdate
<1>8. ASSUME NEW h \in Nat \X Nat, NEW d \in Nat \X Nat,
             AfterSwap(c, s).outcome = "ok", s.zeroForOne, Covers(c.wallet, h),
             s.in <= h[1], Covers(<<h[1] - s.in, h[2] + s.outMin>>, d)
      PROVE  Covers(AfterSwap(c, s).chain.wallet, d)
  <2>1. ~(out < s.outMin) /\ AfterSwap(c, s) = Done(d0)
    BY <1>6, <1>8 DEF Reverts
  <2>2. AfterSwap(c, s).chain.wallet = w
    BY <2>1 DEF Done, ChainType
  <2>3. w = <<c.wallet[1] - s.in, c.wallet[2] + out>>
    BY <1>1, <1>3, <1>8, SMTT(60) DEF Plus, Minus
  <2>4. c.wallet[1] >= h[1] /\ c.wallet[2] >= h[2] /\ out >= s.outMin
    BY <1>3, <1>8, <2>1 DEF Covers
  <2>5. h[1] - s.in >= d[1] /\ h[2] + s.outMin >= d[2]
    BY <1>8 DEF Covers
  <2>6. c.wallet[1] - s.in >= d[1] /\ c.wallet[2] + out >= d[2]
    <3>1. /\ c.wallet[1] \in Int /\ c.wallet[2] \in Int /\ h[1] \in Int /\ h[2] \in Int /\ d[1] \in Int /\ d[2] \in Int
          /\ s.in \in Int /\ s.outMin \in Int /\ out \in Int
      BY <1>1, <1>3, SMTT(60)
    <3>. QED  BY <2>4, <2>5, <3>1
  <2>. QED  BY <2>2, <2>3, <2>6 DEF Covers
<1>. QED  BY <1>6, <1>7, <1>8, SameChain

-----------------------------------------------------------------------------
(***************************************************************************)
(* The planned band and the inventory.                                      *)
(***************************************************************************)
LEMMA SnapFacts ==
    ASSUME NEW a \in Int, NEW b \in Int, a <= b
    PROVE  Snap(a) <= Snap(b) /\ (a + Spacing <= b => Snap(a) < Snap(b))
<1>. DEFINE S == Spacing
            p == (2 * a + S) \div (2 * S)
            q == (2 * b + S) \div (2 * S)
<1>1. S \in Nat \ {0}
  BY PlanAssumption
<1>. HIDE DEF S
<1>2. p \in Int /\ 2 * S * p <= 2 * a + S /\ 2 * a + S < 2 * S * p + 2 * S
  BY <1>1
<1>3. q \in Int /\ 2 * S * q <= 2 * b + S /\ 2 * b + S < 2 * S * q + 2 * S
  BY <1>1
<1>4. Snap(a) = p * S /\ Snap(b) = q * S
  BY DEF Snap, S
<1>. HIDE DEF p, q
<1>5. S * p < S * (q + 1) /\ (a + S <= b => S * (p + 1) < S * (q + 1))
  <2>1. 2 * (S * p) = 2 * S * p /\ 2 * (S * q) = 2 * S * q /\ S * (q + 1) = S * q + S /\ S * (p + 1) = S * p + S
    BY <1>1, <1>2, <1>3
  <2>. DEFINE x == S * p
              y == S * q
  <2>2. x \in Int /\ y \in Int
    BY <1>1, <1>2, <1>3
  <2>3. 2 * x <= 2 * a + S /\ 2 * b + S < 2 * y + 2 * S
    BY <1>2, <1>3, <2>1
  <2>. HIDE DEF x, y
  <2>4. x < y + S /\ (a + S <= b => x + S < y + S)
    BY <1>1, <2>2, <2>3
  <2>. QED  BY <2>1, <2>4 DEF x, y
<1>6. p <= q /\ (a + S <= b => p < q)
  BY <1>1, <1>2, <1>3, <1>5
<1>7. p * S <= q * S /\ (a + S <= b => p * S < q * S)
  BY <1>1, <1>2, <1>3, <1>6
<1>. QED  BY <1>4, <1>7 DEF S

\* Half widths of half a spacing or more, which nothing in the code asks for.
HalvesSpan == \A half \in Halves : 2 * half >= Spacing

LEMMA TargetFacts ==
    ASSUME NEW s \in Prices, NEW half \in Halves
    PROVE  LET r == Target(s, half) IN Ordered(r) /\ (HalvesSpan => r.lower < r.upper)
<1>1. s \in Int /\ half \in Nat /\ Spacing \in Nat
  BY PoolAssumption, PlanAssumption DEF OnGrid
<1>2. s - half \in Int /\ s + half \in Int /\ s - half <= s + half
  BY <1>1
<1>3. Snap(s - half) <= Snap(s + half)
      /\ ((s - half) + Spacing <= s + half => Snap(s - half) < Snap(s + half))
  BY <1>2, SnapFacts
<1>4. HalvesSpan => (s - half) + Spacing <= s + half
  BY <1>1 DEF HalvesSpan
<1>5. OnGrid(Target(s, half).lower) /\ OnGrid(Target(s, half).upper)
  BY PlanAssumption
<1>. QED  BY <1>3, <1>4, <1>5 DEF Target, Ordered

-----------------------------------------------------------------------------
(***************************************************************************)
(* The inductive invariant.                                                 *)
(***************************************************************************)
ChainOK == chain \in ChainType /\ moves \in 0..MaxMoves

BandOK(band) == Ordered(band) /\ band.lower < band.upper

\* What a run has read when it is about to read the next thing.
ReadOK ==
    /\ ppc \in {"idle", "planned", "sending"} \cup Reads \cup {"build"}
    /\ seen \in [price : Prices \cup {0}, fee : {0, Fee}, cheap : BOOLEAN, nft : Nft \cup {None}]
    /\ ppc \in (Reads \ {"slot0"}) \cup {"build"} => seen.price \in Prices
    /\ ppc # "idle" => /\ args.token \in 0..Len(chain.nfts) /\ args.half \in Halves
                       /\ args.band # None => BandOK(args.band)
    /\ ppc = "position" => args.token # 0
    /\ ppc = "build" /\ args.token # 0 => seen.nft \in Nft
    /\ ppc \in Reads \cup {"build"} => plan = None /\ swap = None
    /\ ppc \in Reads \cup {"build", "planned"} => result = NoResult

SwapOK(s) == s.zeroForOne \in BOOLEAN /\ s.in \in Nat /\ s.outMin \in Nat

\* What is planned can be sent, now or later.
PlanOK ==
    /\ swap # None => SwapOK(swap)
    /\ ppc \in {"planned", "sending"} \/ plan # None =>
          /\ Ordered(plan.range) /\ (HalvesSpan => plan.range.lower < plan.range.upper)
          /\ plan.desired \in Nat \X Nat
          /\ Len(plan.calls) \in Nat
          /\ \A k \in 1..Len(plan.calls) : CallOK(plan.calls[k], Len(chain.nfts))
          /\ seen.price \in Prices
          /\ plan.pass => ImpactWithin(swap)

\* Transactions to send; a swap is among them only if one is planned.
TodoOK ==
    ppc = "sending" =>
        \/ todo = <<"npm">>
        \/ todo \in {<<"npm", "swap">>, <<"swap", "npm">>, <<"swap">>} /\ swap # None

\* A fresh mint: its capital is in the wallet until the swap, and afterwards what it desires.
Fresh == args.token = 0 /\ args.band = None

OneMint ==
    LET call == plan.calls[1]
    IN  plan.calls = <<call>> /\ call.op = "mint" /\ Ordered(call.range) /\ call.desired = plan.desired

Affordable ==
    IF swap = None THEN Covers(<<Capital, 0>>, plan.desired)
    ELSE /\ swap.zeroForOne /\ swap.in <= Capital
         /\ Covers(<<Capital - swap.in, 0 + swap.outMin>>, plan.desired)

FundsOK ==
    /\ ppc \in Reads \cup {"build", "planned"} /\ Fresh => Covers(chain.wallet, <<Capital, 0>>)
    /\ ppc \in {"planned", "sending"} /\ Fresh => OneMint
    /\ ppc = "planned" /\ Fresh => Affordable
    /\ ppc = "sending" /\ Fresh =>
          \/ todo = <<"npm">> /\ Covers(chain.wallet, plan.desired)
          \/ todo = <<"swap", "npm">> /\ swap # None /\ Affordable /\ Covers(chain.wallet, <<Capital, 0>>)

MonitorOK ==
    mpc \in {"off", "row", "ended"} \cup MonitorReads /\ watched \in 0..Len(chain.nfts) /\ given \in BOOLEAN

DeskInv == ChainOK /\ ReadOK /\ PlanOK /\ TodoOK /\ FundsOK /\ MintIsFunded /\ MonitorOK

LEMMA InitDesk == Init => DeskInv
<1>. SUFFICES ASSUME Init PROVE DeskInv
  OBVIOUS
<1>. USE DEF Init, ChainInit, PlannerInit, MonitorInit
<1>1. ChainOK
  <2>1. <<Capital, 0>> \in Nat \X Nat /\ MaxMoves \in Nat
    BY PoolAssumption
  <2>2. <<>> \in Seq(Nft)
    OBVIOUS
  <2>3. PICK s \in Prices : chain = [price |-> s, wallet |-> <<Capital, 0>>, nfts |-> <<>>]
    OBVIOUS
  <2>4. chain \in ChainType
    <3>. DEFINE S == Seq(Nft)
                P == Nat \X Nat
                w == <<Capital, 0>>
    <3>1. w \in P /\ <<>> \in S /\ ChainType = [price : Prices, wallet : P, nfts : S]
      BY <2>1, <2>2 DEF ChainType
    <3>2. chain = [price |-> s, wallet |-> w, nfts |-> <<>>]
      BY <2>3
    <3>. HIDE DEF S, P, w, Init
    <3>. QED  BY <3>1, <3>2
  <2>5. moves \in 0..MaxMoves
    BY <2>1
  <2>. QED  BY <2>4, <2>5 DEF ChainOK
<1>2. ReadOK
  BY DEF ReadOK, Reads, Blank
<1>3. PlanOK /\ TodoOK /\ FundsOK /\ MintIsFunded
  BY DEF PlanOK, TodoOK, FundsOK, MintIsFunded, NoResult, Reads
<1>4. MonitorOK
  <2>1. Len(chain.nfts) = 0
    OBVIOUS
  <2>2. mpc = "off" /\ watched = 0 /\ given = FALSE
    OBVIOUS
  <2>. HIDE DEF Init, ChainInit, PlannerInit, MonitorInit
  <2>3. mpc \in {"off", "row", "ended"} \cup MonitorReads
    BY <2>2
  <2>4. watched \in 0..Len(chain.nfts)
    BY <2>1, <2>2
  <2>5. given \in BOOLEAN
    BY <2>2
  <2>. QED  BY <2>3, <2>4, <2>5 DEF MonitorOK
<1>. QED  BY <1>1, <1>2, <1>3, <1>4 DEF DeskInv

\* The steps of the monitor and of the price.
LEMMA PlannerStays ==
    ASSUME DeskInv, UNCHANGED planner, chain'.wallet = chain.wallet, chain'.nfts = chain.nfts
    PROVE  (ReadOK /\ PlanOK /\ TodoOK /\ FundsOK /\ MintIsFunded)'
<1>. USE DEF planner
<1>1. ReadOK'
  BY DEF DeskInv, ReadOK, BandOK, Ordered
<1>2. PlanOK'
  <2>1. ImpactWithin(swap) => ImpactWithin(swap)'
    BY DEF ImpactWithin
  <2>. QED  BY <2>1, Zenon DEF DeskInv, PlanOK, SwapOK
<1>3. TodoOK' /\ MintIsFunded'
  BY DEF DeskInv, TodoOK, MintIsFunded
<1>4. FundsOK'
  <2>1. (Affordable <=> Affordable') /\ (OneMint <=> OneMint') /\ (Fresh <=> Fresh')
    BY DEF Affordable, OneMint, Fresh
  <2>. QED  BY <2>1, Zenon DEF DeskInv, FundsOK
<1>. QED  BY <1>1, <1>2, <1>3, <1>4

LEMMA MoveStep == DeskInv /\ Move /\ UNCHANGED <<planner, monitor>> => DeskInv'
<1>. SUFFICES ASSUME DeskInv, Move, UNCHANGED <<planner, monitor>> PROVE DeskInv'
  OBVIOUS
<1>1. PICK s \in Prices : chain' = [chain EXCEPT !.price = s]
  BY DEF Move
<1>2. chain \in ChainType /\ moves \in 0..MaxMoves
  BY DEF DeskInv, ChainOK
<1>3. chain' \in ChainType /\ chain'.wallet = chain.wallet /\ chain'.nfts = chain.nfts
  <2>. DEFINE S == Seq(Nft)
              P == Nat \X Nat
  <2>1. chain \in [price : Prices, wallet : P, nfts : S] /\ ChainType = [price : Prices, wallet : P, nfts : S]
    BY <1>2 DEF ChainType
  <2>. HIDE DEF S, P
  <2>. QED  BY <1>1, <2>1
<1>4. ChainOK'
  <2>1. moves' \in 0..MaxMoves
    BY <1>2, PoolAssumption DEF Move
  <2>. QED  BY <1>3, <2>1 DEF ChainOK
<1>5. MonitorOK'
  BY <1>3 DEF DeskInv, MonitorOK, monitor
<1>. QED  BY <1>3, <1>4, <1>5, PlannerStays DEF DeskInv

LEMMA MonitorSteps == DeskInv /\ (StartMonitor \/ MonitorStep) /\ UNCHANGED <<chain, moves, planner>> => DeskInv'
<1>. SUFFICES ASSUME DeskInv, StartMonitor \/ MonitorStep, UNCHANGED <<chain, moves, planner>> PROVE DeskInv'
  OBVIOUS
<1>1. ChainOK'
  BY DEF DeskInv, ChainOK
<1>2. (ReadOK /\ PlanOK /\ TodoOK /\ FundsOK /\ MintIsFunded)'
  BY <1>1, PlannerStays
<1>3. MonitorOK'
  <2>0. Len(chain.nfts) \in Nat /\ DOMAIN chain.nfts = 1..Len(chain.nfts)
    BY DEF DeskInv, ChainOK, ChainType
  <2>1. CASE StartMonitor
    BY <2>0, <2>1 DEF StartMonitor, MonitorOK, MonitorReads
  <2>2. CASE ReadForRow
    BY <2>2 DEF ReadForRow, DeskInv, MonitorOK, MonitorReads, Following
  <2>3. CASE WriteRow
    BY <2>3 DEF WriteRow, DeskInv, MonitorOK, MonitorReads
  <2>. QED  BY <2>1, <2>2, <2>3 DEF MonitorStep
<1>. QED  BY <1>1, <1>2, <1>3 DEF DeskInv

LEMMA PlannerLeaves ==
    ASSUME DeskInv, UNCHANGED <<chain, moves, monitor>>
    PROVE  ChainOK' /\ MonitorOK'
BY DEF DeskInv, ChainOK, MonitorOK, monitor

LEMMA StartPlanStep == DeskInv /\ StartPlan /\ UNCHANGED <<chain, moves, monitor>> => DeskInv'
<1>. SUFFICES ASSUME DeskInv, StartPlan, UNCHANGED <<chain, moves, monitor>> PROVE DeskInv'
  OBVIOUS
<1>1. ChainOK' /\ MonitorOK'
  BY PlannerLeaves
<1>2. PICK half \in Halves, token \in 0..Len(chain.nfts),
          band \in {None} \cup {[lower |-> chain.nfts[k].lower, upper |-> chain.nfts[k].upper] : k \in DOMAIN chain.nfts} :
            /\ token = 0 /\ band = None => Covers(chain.wallet, <<Capital, 0>>)
            /\ args' = [token |-> token, band |-> band, half |-> half]
  BY Zenon DEF StartPlan
<1>3. args'.token = token /\ args'.band = band /\ args'.half = half
  BY <1>2
<1>4. band # None => BandOK(band)
  <2>. SUFFICES ASSUME band # None PROVE BandOK(band)
    OBVIOUS
  <2>1. PICK k \in DOMAIN chain.nfts : band = [lower |-> chain.nfts[k].lower, upper |-> chain.nfts[k].upper]
    BY <1>2
  <2>2. chain.nfts[k] \in Nft
    BY DEF DeskInv, ChainOK, ChainType
  <2>3. Ordered(chain.nfts[k]) /\ chain.nfts[k].lower < chain.nfts[k].upper
    BY <2>2, NftFacts
  <2>. QED  BY <2>1, <2>3 DEF BandOK, Ordered
<1>5. /\ ppc' = "slot0" /\ seen' = Blank /\ swap' = None /\ plan' = None /\ todo' = <<>> /\ result' = NoResult
  BY DEF StartPlan
<1>6. ReadOK'
  BY <1>2, <1>3, <1>4, <1>5 DEF ReadOK, Reads, Blank, BandOK, Ordered
<1>7. PlanOK' /\ TodoOK' /\ MintIsFunded'
  BY <1>5 DEF PlanOK, TodoOK, MintIsFunded, NoResult
<1>8. FundsOK'
  BY <1>2, <1>3, <1>5 DEF FundsOK, Fresh
<1>. QED  BY <1>1, <1>6, <1>7, <1>8 DEF DeskInv

LEMMA ReadStep == DeskInv /\ ReadForPlan /\ UNCHANGED <<chain, moves, monitor>> => DeskInv'
<1>. SUFFICES ASSUME DeskInv, ReadForPlan, UNCHANGED <<chain, moves, monitor>> PROVE DeskInv'
  OBVIOUS
<1>1. ChainOK' /\ MonitorOK'
  BY PlannerLeaves
<1>. DEFINE Seen == [price : Prices \cup {0}, fee : {0, Fee}, cheap : BOOLEAN, nft : Nft \cup {None}]
<1>2. ppc \in Reads /\ UNCHANGED <<swap, plan, todo, result, plans>> /\ plan = None /\ swap = None /\ result = NoResult
  BY DEF ReadForPlan, DeskInv, ReadOK
<1>3. /\ seen \in Seen /\ args.token \in 0..Len(chain.nfts) /\ args.half \in Halves
      /\ args.band # None => BandOK(args.band)
  BY <1>2 DEF DeskInv, ReadOK, Reads
<1>4. chain.price \in Prices /\ chain.nfts \in Seq(Nft)
  BY DEF DeskInv, ChainOK, ChainType
<1>5. MintIsFunded'
  BY <1>2 DEF MintIsFunded, NoResult
<1>6. ASSUME ppc' \in (Reads \ {"slot0"}) \cup {"build"}, args' = args, seen' \in Seen, seen'.price \in Prices,
             ppc' = "position" => args.token # 0, ppc' = "build" /\ args.token # 0 => seen'.nft \in Nft
      PROVE  DeskInv'
  <2>1. ReadOK'
    BY <1>2, <1>3, <1>6 DEF ReadOK, Reads, BandOK, Ordered
  <2>2. PlanOK' /\ TodoOK'
    BY <1>2, <1>6 DEF PlanOK, TodoOK, Reads
  <2>3. FundsOK'
    BY <1>2, <1>6 DEF DeskInv, FundsOK, Fresh, Reads
  <2>. QED  BY <1>1, <1>5, <2>1, <2>2, <2>3 DEF DeskInv
<1>7. CASE ppc # "fee" /\ ppc' = "idle" /\ seen' = Blank
  <2>1. ReadOK'
    BY <1>2, <1>7 DEF ReadOK, Reads, Blank
  <2>2. PlanOK' /\ TodoOK' /\ FundsOK'
    BY <1>2, <1>7 DEF PlanOK, TodoOK, FundsOK, Reads
  <2>. QED  BY <1>1, <1>5, <2>1, <2>2 DEF DeskInv
<1>8. ASSUME ppc' # "idle" PROVE args' = args
  BY <1>8 DEF ReadForPlan
<1>9. CASE ppc = "fee" /\ ppc' = After(ppc) /\ UNCHANGED seen
  <2>1. ppc' = "network" /\ seen.price \in Prices
    BY <1>9 DEF After, DeskInv, ReadOK, Reads
  <2>. QED  BY <1>3, <1>6, <1>8, <1>9, <2>1 DEF Reads
<1>10. CASE Answered(ppc) /\ ppc' = After(ppc)
  <2>1. CASE ppc = "slot0"
    <3>1. ppc' = "fee" /\ seen' = [seen EXCEPT !.price = chain.price]
      BY <1>10, <2>1 DEF After, Answered
    <3>2. seen' \in Seen /\ seen'.price = chain.price
      BY <1>3, <1>4, <3>1
    <3>. QED  BY <1>4, <1>6, <1>8, <3>1, <3>2 DEF Reads
  <2>2. CASE ppc = "fee"
    <3>1. ppc' = "network" /\ seen' = [seen EXCEPT !.fee = Fee]
      BY <1>10, <2>2 DEF After, Answered
    <3>2. seen' \in Seen /\ seen'.price = seen.price /\ seen.price \in Prices
      BY <1>3, <2>2, <3>1 DEF DeskInv, ReadOK, Reads
    <3>. QED  BY <1>6, <1>8, <3>1, <3>2 DEF Reads
  <2>3. CASE ppc = "network"
    <3>1. \E cheap \in BOOLEAN : seen' = [seen EXCEPT !.cheap = cheap]
      BY <1>10, <2>3 DEF Answered
    <3>2. ppc' = IF args.token = 0 THEN "build" ELSE "position"
      BY <1>10, <2>3 DEF After
    <3>3. seen' \in Seen /\ seen'.price = seen.price /\ seen.price \in Prices
      BY <1>3, <2>3, <3>1 DEF DeskInv, ReadOK, Reads
    <3>. QED  BY <1>6, <1>8, <3>2, <3>3 DEF Reads
  <2>4. CASE ppc = "position"
    <3>1. ppc' = "build" /\ seen' = [seen EXCEPT !.nft = chain.nfts[args.token]]
      BY <1>10, <2>4 DEF After, Answered
    <3>2. args.token # 0 /\ seen.price \in Prices
      BY <2>4 DEF DeskInv, ReadOK, Reads
    <3>3. chain.nfts[args.token] \in Nft
      BY <1>3, <1>4, <3>2
    <3>. DEFINE n == chain.nfts[args.token]
    <3>. HIDE DEF n
    <3>4. seen' \in Seen /\ seen'.price = seen.price /\ seen'.nft \in Nft
      BY <1>3, <3>1, <3>3 DEF n
    <3>. QED  BY <1>6, <1>8, <3>1, <3>2, <3>4 DEF Reads
  <2>. QED  BY <1>2, <2>1, <2>2, <2>3, <2>4 DEF Reads
<1>. QED  BY <1>7, <1>9, <1>10, Zenon DEF ReadForPlan

LEMMA InventoryPair ==
    ASSUME DeskInv, ppc = "build"
    PROVE  Inventory \in Nat \X Nat /\ (Fresh => Inventory = <<Capital, 0>>)
<1>1. /\ seen.price \in Prices /\ (args.band # None => BandOK(args.band))
      /\ args.token # 0 => seen.nft \in Nft
  BY DEF DeskInv, ReadOK, Reads
<1>2. OnGrid(seen.price) /\ Capital \in Nat
  BY <1>1, PoolAssumption
<1>3. Band = None => Inventory = <<Capital, 0>>
  BY DEF Inventory
<1>4. Fresh => Band = None
  BY DEF Fresh, Band
<1>5. CASE Band # None /\ args.token # 0
  <2>1. Inventory = Holding(Band, seen.nft.liquidity, seen.price)
    BY <1>5, Zenon DEF Inventory
  <2>2. (Band = args.band /\ args.band # None) \/ Band = seen.nft
    BY <1>5 DEF Band
  <2>3. Ordered(Band) /\ seen.nft.liquidity \in Nat
    BY <1>1, <1>5, <2>2, NftFacts DEF BandOK
  <2>. QED  BY <1>2, <1>4, <1>5, <2>1, <2>3, HoldingPair
<1>6. CASE Band # None /\ args.token = 0
  <2>1. Inventory = Holding(Band, (Capital * Grid) \div UnitValue(Band, seen.price), seen.price)
    BY <1>6, Zenon DEF Inventory
  <2>2. Band = args.band /\ args.band # None
    BY <1>6 DEF Band
  <2>3. UnitValue(Band, seen.price) \in Nat \ {0} /\ Ordered(Band)
    BY <1>1, <1>2, <2>2, Amounts DEF BandOK
  <2>4. Capital * Grid \in Nat
    BY <1>2, ProductNat
  <2>5. (Capital * Grid) \div UnitValue(Band, seen.price) \in Nat
    BY <2>3, <2>4, DivNat
  <2>. QED  BY <1>2, <1>4, <1>6, <2>1, <2>3, <2>5, HoldingPair
<1>. QED  BY <1>2, <1>3, <1>4, <1>5, <1>6

LEMMA CoversTrans ==
    ASSUME NEW a \in Int \X Int, NEW b \in Int \X Int, NEW c \in Int \X Int, Covers(a, b), Covers(b, c)
    PROVE  Covers(a, c)
BY DEF Covers

LEMMA FourCalls ==
    ASSUME NEW a, NEW b, NEW c, NEW d
    PROVE  LET q == <<a, b, c>> \o <<d>>
           IN  Len(q) = 4 /\ q[1] = a /\ q[2] = b /\ q[3] = c /\ q[4] = d
<1>. DEFINE S == {a, b, c, d}
            p == <<a, b, c>>
            r == <<d>>
<1>1. p \in Seq(S) /\ Len(p) = 3 /\ p[1] = a /\ p[2] = b /\ p[3] = c
  OBVIOUS
<1>2. r \in Seq(S) /\ Len(r) = 1 /\ r[1] = d
  OBVIOUS
<1>. HIDE DEF p, r, S
<1>. DEFINE q == p \o r
<1>3. Len(q) = Len(p) + Len(r) /\ \A i \in 1..Len(p) + Len(r) : q[i] = IF i <= Len(p) THEN p[i] ELSE r[i - Len(p)]
  BY <1>1, <1>2, ConcatProperties
<1>. HIDE DEF q
<1>4. Len(q) = 4 /\ q[1] = p[1] /\ q[2] = p[2] /\ q[3] = p[3] /\ q[4] = r[1]
  BY <1>1, <1>2, <1>3
<1>. QED  BY <1>1, <1>2, <1>4 DEF p, r, q

LEMMA CallsOK ==
    ASSUME DeskInv, ppc = "build", NEW have, NEW range, Ordered(range), NEW desired \in Nat \X Nat
    PROVE  LET calls == Calls(have, range, desired)
           IN  /\ Len(calls) \in Nat /\ \A k \in 1..Len(calls) : CallOK(calls[k], Len(chain.nfts))
               /\ Fresh => calls = <<calls[1]>> /\ calls[1].op = "mint" /\ calls[1].range = range
                           /\ calls[1].desired = desired
<1>. DEFINE mint == [op |-> "mint", range |-> range, desired |-> desired, min |-> Mins(desired)]
            collect == [op |-> "collect", token |-> args.token]
            decrease == [op |-> "decrease", token |-> args.token, liquidity |-> seen.nft.liquidity, min |-> Mins(have)]
            n == Len(chain.nfts)
<1>1. CallOK(mint, n)
  BY DEF CallOK
<1>2. args.token \in 0..n /\ n \in Nat /\ (args.token # 0 => seen.nft \in Nft)
  BY DEF DeskInv, ReadOK, Reads, ChainOK, ChainType
<1>3. args.token # 0 => CallOK(collect, n) /\ CallOK(decrease, n)
  <2>. SUFFICES ASSUME args.token # 0 PROVE CallOK(collect, n) /\ CallOK(decrease, n)
    OBVIOUS
  <2>1. args.token \in 1..n
    <3>. HIDE DEF n
    <3>. QED  BY <1>2
  <2>3. seen.nft.liquidity \in Nat
    BY <1>2, NftFacts
  <2>2. /\ collect.op = "collect" /\ collect.token = args.token
        /\ decrease.op = "decrease" /\ decrease.token = args.token /\ decrease.liquidity = seen.nft.liquidity
    OBVIOUS
  <2>. HIDE DEF collect, decrease, n
  <2>. QED  BY <2>1, <2>2, <2>3 DEF CallOK
<1>4. mint.op = "mint" /\ mint.range = range /\ mint.desired = desired
  OBVIOUS
<1>5. CASE Rebalancing /\ args.token # 0
  <2>1. Calls(have, range, desired) = <<collect, decrease, collect>> \o <<mint>>
    BY <1>5 DEF Calls
  <2>2. ~Fresh
    BY <1>5 DEF Fresh
  <2>. HIDE DEF mint, collect, decrease, n
  <2>. DEFINE q == <<collect, decrease, collect>> \o <<mint>>
  <2>3. Len(q) = 4 /\ q[1] = collect /\ q[2] = decrease /\ q[3] = collect /\ q[4] = mint
    BY FourCalls
  <2>. HIDE DEF q
  <2>4. \A k \in 1..4 : CallOK(q[k], n)
    BY <1>1, <1>3, <1>5, <2>3
  <2>. QED  BY <2>1, <2>2, <2>3, <2>4 DEF q, n
<1>6. CASE ~(Rebalancing /\ args.token # 0)
  <2>1. Calls(have, range, desired) = <<mint>>
    BY <1>6 DEF Calls
  <2>. HIDE DEF mint, n
  <2>. QED  BY <1>1, <1>4, <2>1 DEF n
<1>. QED  BY <1>5, <1>6

\* What is built: the mint wants no more than the inventory and the swap bring.
LEMMA BuildFacts ==
    ASSUME DeskInv, ppc = "build"
    PROVE  LET ratio   == Ratio(Target(seen.price, args.half), seen.price)
               s       == Solve(Inventory, ratio)
               desired == Desired(Inventory, s, ratio)
           IN  /\ desired \in Nat \X Nat
               /\ s # None => SwapOK(s)
               /\ Fresh /\ s = None => Covers(<<Capital, 0>>, desired)
               /\ Fresh /\ s # None => s.zeroForOne /\ s.in <= Capital
                                       /\ Covers(<<Capital - s.in, 0 + s.outMin>>, desired)
<1>. DEFINE range   == Target(seen.price, args.half)
            ratio   == Ratio(range, seen.price)
            have    == Inventory
            s       == Solve(have, ratio)
            desired == Desired(have, s, ratio)
<1>1. seen.price \in Prices /\ seen.fee \in {0, Fee} /\ args.half \in Halves
  BY DEF DeskInv, ReadOK, Reads
<1>2. OnGrid(seen.price) /\ Read(seen) /\ Capital \in Nat
  BY <1>1, PoolAssumption DEF Read
<1>3. Ordered(range)
  BY <1>1, TargetFacts
<1>4. ratio \in Nat \X Nat
  <2>1. Amount0(range, seen.price) \in Nat /\ Amount1(range, seen.price) \in Nat
    BY <1>2, <1>3, Amounts
  <2>. QED  BY <2>1 DEF Ratio
<1>5. have \in Nat \X Nat /\ (Fresh => have = <<Capital, 0>>)
  BY InventoryPair
<1>. HIDE DEF range, ratio, have
<1>6. CASE s = None
  <2>1. desired = FitToRange(have, ratio)
    BY <1>6 DEF Desired
  <2>. QED  BY <1>4, <1>5, <1>6, <2>1, FitFacts DEF range, ratio, have
<1>7. CASE s # None
  <2>1. /\ s.zeroForOne \in BOOLEAN /\ s.in \in Nat /\ s.outMin \in Nat
        /\ s.in <= have[IF s.zeroForOne THEN 1 ELSE 2]
        /\ have[2] = 0 => s.zeroForOne
    BY <1>2, <1>4, <1>5, <1>7, SolveFacts
  <2>2. /\ Safe(have, s) \in Nat \X Nat
        /\ s.zeroForOne => Covers(<<have[1] - s.in, have[2] + s.outMin>>, Safe(have, s))
    BY <1>2, <1>4, <1>5, <1>7, SafeFacts
  <2>3. desired = FitToRange(Safe(have, s), ratio)
    BY <1>7 DEF Desired
  <2>4. desired \in Nat \X Nat /\ Covers(Safe(have, s), desired)
    BY <1>4, <2>2, <2>3, FitFacts
  <2>. HIDE DEF s, desired
  <2>5. ASSUME Fresh
        PROVE  s.zeroForOne /\ s.in <= Capital /\ Covers(<<Capital - s.in, 0 + s.outMin>>, desired)
    <3>1. have[1] = Capital /\ have[2] = 0
      BY <1>5, <2>5
    <3>2. s.zeroForOne /\ s.in <= Capital
      BY <2>1, <3>1
    <3>. DEFINE b == <<Capital - s.in, 0 + s.outMin>>
    <3>3. Covers(b, Safe(have, s))
      BY <2>2, <3>1, <3>2
    <3>4. b \in Int \X Int
      BY <1>2, <2>1
    <3>. HIDE DEF b
    <3>5. Safe(have, s) \in Int \X Int /\ desired \in Int \X Int
      BY <2>2, <2>4
    <3>6. Covers(b, desired)
      BY <2>4, <3>3, <3>4, <3>5, CoversTrans
    <3>. QED  BY <3>2, <3>6 DEF b
  <2>6. SwapOK(s)
    BY <2>1 DEF SwapOK
  <2>. QED  BY <1>7, <2>4, <2>5, <2>6 DEF s, desired, range, ratio, have
<1>. QED  BY <1>6, <1>7

LEMMA BuildStep == DeskInv /\ Build /\ UNCHANGED <<chain, moves, monitor>> => DeskInv'
<1>. SUFFICES ASSUME DeskInv, Build, UNCHANGED <<chain, moves, monitor>> PROVE DeskInv'
  OBVIOUS
<1>. DEFINE range   == Target(seen.price, args.half)
            ratio   == Ratio(range, seen.price)
            have    == Inventory
            s       == Solve(have, ratio)
            desired == Desired(have, s, ratio)
            calls   == Calls(have, range, desired)
            pass    == Gates(s, desired)
<1>1. ChainOK' /\ MonitorOK'
  BY PlannerLeaves
<1>2. /\ ppc = "build" /\ ppc' = "planned" /\ UNCHANGED <<args, seen, todo, result, plans>>
      /\ swap' = s /\ plan' = [range |-> range, desired |-> desired, calls |-> calls, pass |-> pass]
  BY Zenon DEF Build
<1>3. /\ seen.price \in Prices /\ args.half \in Halves /\ args.token \in 0..Len(chain.nfts)
      /\ args.band # None => BandOK(args.band)
      /\ result = NoResult /\ seen \in [price : Prices \cup {0}, fee : {0, Fee}, cheap : BOOLEAN, nft : Nft \cup {None}]
  BY <1>2 DEF DeskInv, ReadOK, Reads
<1>4. Ordered(range) /\ (HalvesSpan => range.lower < range.upper)
  BY <1>3, TargetFacts
<1>5. /\ desired \in Nat \X Nat /\ (s # None => SwapOK(s))
      /\ Fresh /\ s = None => Covers(<<Capital, 0>>, desired)
      /\ Fresh /\ s # None => s.zeroForOne /\ s.in <= Capital
                              /\ Covers(<<Capital - s.in, 0 + s.outMin>>, desired)
  BY <1>2, BuildFacts
<1>. HIDE DEF s, desired, range
<1>6. /\ Len(calls) \in Nat /\ \A k \in 1..Len(calls) : CallOK(calls[k], Len(chain.nfts))
      /\ Fresh => calls = <<calls[1]>> /\ calls[1].op = "mint" /\ calls[1].range = range
                  /\ calls[1].desired = desired
  BY <1>2, <1>4, <1>5, CallsOK
<1>7. pass => ImpactWithin(s)
  BY DEF Gates
<1>. HIDE DEF calls, pass, have, ratio
<1>8. plan'.range = range /\ plan'.desired = desired /\ plan'.calls = calls /\ plan'.pass = pass
  BY <1>2
<1>9. ReadOK'
  BY <1>2, <1>3 DEF ReadOK, Reads, BandOK, Ordered
<1>10. PlanOK'
  <2>1. plan'.pass => ImpactWithin(swap)'
    BY <1>2, <1>7, <1>8 DEF ImpactWithin
  <2>2. swap' # None => SwapOK(swap)'
    BY <1>2, <1>5 DEF SwapOK
  <2>3. Ordered(plan.range)' /\ (HalvesSpan' => plan'.range.lower < plan'.range.upper)
    BY <1>4, <1>8 DEF Ordered, HalvesSpan
  <2>4. \A k \in 1..Len(plan'.calls) : CallOK(plan'.calls[k], Len(chain'.nfts))
    BY <1>6, <1>8
  <2>. QED  BY <1>2, <1>3, <1>5, <1>6, <1>8, <2>1, <2>2, <2>3, <2>4 DEF PlanOK
<1>11. TodoOK' /\ MintIsFunded'
  BY <1>2, <1>3 DEF TodoOK, MintIsFunded, NoResult
<1>12. FundsOK'
  <2>1. Fresh' <=> Fresh
    BY <1>2 DEF Fresh
  <2>2. Fresh => Covers(chain.wallet, <<Capital, 0>>)
    BY <1>2 DEF DeskInv, FundsOK
  <2>3. Fresh => OneMint'
    BY <1>4, <1>6, <1>8 DEF OneMint
  <2>4. Fresh => Affordable'
    BY <1>2, <1>5, <1>8 DEF Affordable
  <2>. QED  BY <1>2, <2>1, <2>2, <2>3, <2>4 DEF FundsOK
<1>. QED  BY <1>1, <1>9, <1>10, <1>11, <1>12 DEF DeskInv

LEMMA DecideStep == DeskInv /\ Decide /\ UNCHANGED <<chain, moves, monitor>> => DeskInv'
<1>. SUFFICES ASSUME DeskInv, Decide, UNCHANGED <<chain, moves, monitor>> PROVE DeskInv'
  OBVIOUS
<1>1. ChainOK' /\ MonitorOK'
  BY PlannerLeaves
<1>2. ppc = "planned" /\ UNCHANGED <<result, plans>> /\ result = NoResult
  BY DEF Decide, DeskInv, ReadOK
<1>3. MintIsFunded'
  BY <1>2 DEF MintIsFunded, NoResult
<1>4. CASE ppc' = "idle" /\ args' = None /\ seen' = Blank /\ swap' = None /\ plan' = None /\ UNCHANGED todo
  <2>1. ReadOK' /\ PlanOK' /\ TodoOK' /\ FundsOK'
    BY <1>4 DEF ReadOK, PlanOK, TodoOK, FundsOK, Reads, Blank
  <2>. QED  BY <1>1, <1>3, <2>1 DEF DeskInv
<1>5. CASE ppc' = "sending" /\ todo' \in Orders /\ UNCHANGED <<args, seen, swap, plan>>
  <2>1. ReadOK'
    BY <1>2, <1>5 DEF DeskInv, ReadOK, Reads, BandOK, Ordered
  <2>2. PlanOK'
    <3>1. ImpactWithin(swap) => ImpactWithin(swap)'
      BY <1>5 DEF ImpactWithin
    <3>2. PlanOK /\ ppc \in {"planned", "sending"}
      BY <1>2 DEF DeskInv
    <3>. QED  BY <1>5, <3>1, <3>2, Zenon DEF PlanOK, SwapOK
  <2>3. TodoOK'
    BY <1>5 DEF TodoOK, Orders
  <2>4. FundsOK'
    <3>1. (Affordable <=> Affordable') /\ (OneMint <=> OneMint') /\ (Fresh <=> Fresh')
      BY <1>5 DEF Affordable, OneMint, Fresh
    <3>2. Fresh => Covers(chain.wallet, <<Capital, 0>>) /\ OneMint /\ Affordable
      BY <1>2 DEF DeskInv, FundsOK
    <3>3. Fresh => ~Rebalancing
      BY DEF Fresh, Rebalancing, Band
    <3>4. Fresh => todo' = (IF swap = None THEN <<"npm">> ELSE <<"swap", "npm">>)
      BY <1>5, <3>3 DEF Orders
    <3>5. Fresh /\ swap = None => Covers(chain.wallet, plan.desired)
      <4>. SUFFICES ASSUME Fresh, swap = None PROVE Covers(chain.wallet, plan.desired)
        OBVIOUS
      <4>1. plan.desired \in Int \X Int
        BY <1>2 DEF DeskInv, PlanOK
      <4>2. chain.wallet \in Int \X Int /\ <<Capital, 0>> \in Int \X Int
        BY PoolAssumption DEF DeskInv, ChainOK, ChainType
      <4>3. Covers(chain.wallet, <<Capital, 0>>) /\ Covers(<<Capital, 0>>, plan.desired)
        BY <3>2 DEF Affordable
      <4>. QED  BY <4>1, <4>2, <4>3, CoversTrans
    <3>. QED  BY <1>5, <3>1, <3>2, <3>4, <3>5 DEF FundsOK, Reads
  <2>. QED  BY <1>1, <1>3, <2>1, <2>2, <2>3, <2>4 DEF DeskInv
<1>. QED  BY <1>4, <1>5, Zenon DEF Decide

LEMMA TodoFacts ==
    /\ Head(<<"npm">>) = "npm" /\ Tail(<<"npm">>) = <<>>
    /\ Head(<<"swap">>) = "swap" /\ Tail(<<"swap">>) = <<>>
    /\ Head(<<"npm", "swap">>) = "npm" /\ Tail(<<"npm", "swap">>) = <<"swap">>
    /\ Head(<<"swap", "npm">>) = "swap" /\ Tail(<<"swap", "npm">>) = <<"npm">>
    /\ <<"npm">> # <<"swap", "npm">> /\ <<"npm">> # <<>> /\ <<"swap">> # <<>>
<1>1. /\ Head(<<"npm">>) = "npm" /\ Head(<<"swap">>) = "swap"
      /\ Head(<<"npm", "swap">>) = "npm" /\ Head(<<"swap", "npm">>) = "swap"
  OBVIOUS
<1>2. Tail(<<"npm">>) = <<>> /\ Tail(<<"swap">>) = <<>>
  OBVIOUS
<1>3. Tail(<<"npm", "swap">>) = <<"swap">> /\ Tail(<<"swap", "npm">>) = <<"npm">>
  OBVIOUS
<1>4. Len(<<"npm">>) = 1 /\ Len(<<"swap", "npm">>) = 2 /\ Len(<<>>) = 0 /\ Len(<<"swap">>) = 1
  OBVIOUS
<1>. QED  BY <1>1, <1>2, <1>3, <1>4, Zenon

LEMMA MoreNfts ==
    ASSUME NEW n \in Nat, NEW m \in Nat, m >= n, NEW call, CallOK(call, n)
    PROVE  CallOK(call, m)
BY DEF CallOK

LEMMA OutcomeFacts ==
    ASSUME DeskInv, ppc = "sending", todo # <<>>
    PROVE  LET end == Outcome(chain, Head(todo))
           IN  /\ Follows(chain, end)
               /\ Fresh /\ todo = <<"npm">> => end.outcome # "funds"
               /\ Fresh /\ todo = <<"swap", "npm">> /\ end.outcome = "ok"
                    => Covers(end.chain.wallet, plan.desired)
<1>. DEFINE end == Outcome(chain, Head(todo))
<1>1. chain \in ChainType
  BY DEF DeskInv, ChainOK
<1>2. /\ plan.desired \in Nat \X Nat /\ Len(plan.calls) \in Nat
      /\ \A k \in 1..Len(plan.calls) : CallOK(plan.calls[k], Len(chain.nfts))
      /\ swap # None => SwapOK(swap)
  BY DEF DeskInv, PlanOK
<1>3. Head(todo) \in {"npm", "swap"} /\ (Head(todo) = "swap" => swap # None) /\ Head(<<"npm">>) = "npm"
      /\ Head(<<"swap", "npm">>) = "swap"
  BY DEF DeskInv, TodoOK
<1>4. CASE Head(todo) = "npm"
  <2>1. end = AfterMulticall(chain, plan.calls)
    BY <1>4 DEF Outcome
  <2>2. Follows(chain, end)
    BY <1>1, <1>2, <2>1, MulticallKeeps
  <2>3. ASSUME Fresh, todo = <<"npm">> PROVE end.outcome # "funds"
    <3>1. OneMint /\ Covers(chain.wallet, plan.desired)
      BY <2>3 DEF DeskInv, FundsOK
    <3>2. /\ plan.calls = <<plan.calls[1]>> /\ plan.calls[1].op = "mint" /\ Ordered(plan.calls[1].range)
          /\ plan.calls[1].desired = plan.desired
      BY <3>1 DEF OneMint
    <3>. DEFINE call == plan.calls[1]
    <3>. HIDE DEF call
    <3>3. AfterMulticall(chain, <<call>>).outcome # "funds"
      BY <1>1, <1>2, <3>1, <3>2, MulticallOfMint DEF call
    <3>. QED  BY <2>1, <3>2, <3>3 DEF call
  <2>4. todo # <<"swap", "npm">>
    BY <1>3, <1>4
  <2>. QED  BY <2>2, <2>3, <2>4
<1>5. CASE Head(todo) = "swap"
  <2>1. end = AfterSwap(chain, swap) /\ SwapOK(swap)
    BY <1>2, <1>3, <1>5 DEF Outcome
  <2>2. /\ Follows(chain, end)
        /\ \A h \in Nat \X Nat, d \in Nat \X Nat :
              /\ end.outcome = "ok" /\ swap.zeroForOne /\ Covers(chain.wallet, h)
              /\ swap.in <= h[1] /\ Covers(<<h[1] - swap.in, h[2] + swap.outMin>>, d)
              => Covers(end.chain.wallet, d)
    <3>. HIDE DEF end
    <3>. QED  BY <1>1, <2>1, SwapKeeps DEF SwapOK
  <2>3. todo # <<"npm">>
    BY <1>3, <1>5
  <2>4. ASSUME Fresh, todo = <<"swap", "npm">>, end.outcome = "ok"
        PROVE  Covers(end.chain.wallet, plan.desired)
    <3>. DEFINE h == <<Capital, 0>>
    <3>1. Affordable /\ Covers(chain.wallet, h) /\ swap # None
      <4>1. todo # <<"npm">>
        BY <2>3
      <4>. QED  BY <2>4, <4>1 DEF DeskInv, FundsOK
    <3>2. h \in Nat \X Nat /\ h[1] = Capital /\ h[2] = 0
      BY PoolAssumption
    <3>3. swap.zeroForOne /\ swap.in <= h[1] /\ Covers(<<h[1] - swap.in, h[2] + swap.outMin>>, plan.desired)
      BY <3>1, <3>2 DEF Affordable
    <3>. HIDE DEF h, end
    <3>. QED  BY <1>2, <2>2, <2>4, <3>1, <3>2, <3>3
  <2>. QED  BY <2>2, <2>3, <2>4
<1>. QED  BY <1>3, <1>4, <1>5

LEMMA SendStep == DeskInv /\ Send /\ UNCHANGED monitor => DeskInv'
<1>. SUFFICES ASSUME DeskInv, Send, UNCHANGED monitor PROVE DeskInv'
  OBVIOUS
<1>. DEFINE end == Outcome(chain, Head(todo))
<1>1. /\ ppc = "sending" /\ todo # <<>> /\ chain' = end.chain
      /\ result' = [tx |-> Head(todo), outcome |-> end.outcome, quiet |-> chain.price = seen.price]
      /\ todo' = IF end.outcome = "ok" THEN Tail(todo) ELSE <<>>
      /\ ppc' = IF todo' = <<>> THEN "idle" ELSE "sending"
      /\ UNCHANGED <<moves, args, seen, swap, plan, plans>>
  BY Zenon DEF Send
<1>2. /\ Follows(chain, end)
      /\ Fresh /\ todo = <<"npm">> => end.outcome # "funds"
      /\ Fresh /\ todo = <<"swap", "npm">> /\ end.outcome = "ok" => Covers(end.chain.wallet, plan.desired)
  BY <1>1, OutcomeFacts
<1>. HIDE DEF end
<1>3. chain' \in ChainType /\ Len(chain'.nfts) >= Len(chain.nfts)
  BY <1>1, <1>2 DEF Follows
<1>4. Len(chain'.nfts) \in Nat /\ Len(chain.nfts) \in Nat
  BY <1>3 DEF DeskInv, ChainOK, ChainType
<1>5. ChainOK'
  BY <1>1, <1>3 DEF DeskInv, ChainOK
<1>6. MonitorOK'
  BY <1>3, <1>4 DEF DeskInv, MonitorOK, monitor
<1>7. ReadOK'
  <2>1. ppc' \in {"idle", "sending"}
    BY <1>1
  <2>2. args.token \in 0..Len(chain'.nfts)
    BY <1>1, <1>3, <1>4 DEF DeskInv, ReadOK
  <2>. QED  BY <1>1, <2>1, <2>2 DEF DeskInv, ReadOK, Reads, BandOK, Ordered
<1>8. PlanOK'
  <2>1. PlanOK /\ ppc = "sending"
    BY <1>1 DEF DeskInv
  <2>2. \A k \in 1..Len(plan.calls) : CallOK(plan.calls[k], Len(chain'.nfts))
    BY <1>3, <1>4, <2>1, MoreNfts DEF PlanOK
  <2>3. ImpactWithin(swap) => ImpactWithin(swap)'
    BY <1>1 DEF ImpactWithin
  <2>4. SwapOK(swap) => SwapOK(swap)'
    BY <1>1 DEF SwapOK
  <2>. QED  BY <1>1, <2>1, <2>2, <2>3, <2>4 DEF PlanOK, Ordered, HalvesSpan
<1>9. \/ todo = <<"npm">> /\ todo' = <<>>
      \/ todo = <<"swap">> /\ todo' = <<>>
      \/ todo = <<"npm", "swap">> /\ swap # None /\ (todo' = <<>> \/ todo' = <<"swap">>)
      \/ todo = <<"swap", "npm">> /\ swap # None /\ (todo' = <<>> \/ (todo' = <<"npm">> /\ end.outcome = "ok"))
  <2>1. \/ todo = <<"npm">>
        \/ todo = <<"swap">>
        \/ todo = <<"npm", "swap">> /\ swap # None
        \/ todo = <<"swap", "npm">> /\ swap # None
    BY <1>1 DEF DeskInv, TodoOK
  <2>2. CASE end.outcome = "ok"
    <3>1. todo' = Tail(todo)
      BY <1>1, <2>2
    <3>2. CASE todo = <<"npm">>
      BY <3>1, <3>2, TodoFacts
    <3>3. CASE todo = <<"swap">>
      BY <3>1, <3>3, TodoFacts
    <3>4. CASE todo = <<"npm", "swap">> /\ swap # None
      BY <3>1, <3>4, TodoFacts
    <3>5. CASE todo = <<"swap", "npm">> /\ swap # None
      BY <2>2, <3>1, <3>5, TodoFacts
    <3>. QED  BY <2>1, <3>2, <3>3, <3>4, <3>5, Zenon
  <2>3. CASE end.outcome # "ok"
    <3>1. todo' = <<>>
      BY <1>1, <2>3
    <3>. QED  BY <2>1, <3>1, Zenon
  <2>. QED  BY <2>2, <2>3
<1>10. TodoOK'
  BY <1>1, <1>9 DEF TodoOK
<1>11. (Fresh <=> Fresh') /\ (OneMint <=> OneMint') /\ (Affordable <=> Affordable')
  BY <1>1 DEF Fresh, OneMint, Affordable
<1>12. Fresh => todo = <<"npm">> \/ todo = <<"swap", "npm">>
  BY <1>1 DEF DeskInv, FundsOK
<1>13. FundsOK'
  <2>1. CASE todo' = <<>>
    BY <1>1, <2>1 DEF FundsOK, Reads
  <2>2. CASE todo' # <<>>
    <3>1. ppc' = "sending"
      BY <1>1, <2>2
    <3>2. Fresh => todo = <<"swap", "npm">> /\ todo' = <<"npm">> /\ end.outcome = "ok"
      <4>1. ASSUME Fresh PROVE todo = <<"swap", "npm">> /\ todo' = <<"npm">> /\ end.outcome = "ok"
        <5>1. todo # <<"npm">>
          BY <1>1, <2>2, TodoFacts
        <5>2. todo = <<"swap", "npm">>
          BY <1>12, <4>1, <5>1
        <5>. QED  BY <1>1, <2>2, <5>2, TodoFacts
      <4>. QED  BY <4>1
    <3>3. Fresh => OneMint
      BY <1>1 DEF DeskInv, FundsOK
    <3>. QED  BY <1>1, <1>2, <1>11, <3>1, <3>2, <3>3 DEF FundsOK, Reads
  <2>. QED  BY <2>1, <2>2
<1>14. MintIsFunded'
  <2>. SUFFICES ASSUME Head(todo) = "npm", Fresh PROVE end.outcome # "funds"
    BY <1>1 DEF MintIsFunded, Fresh
  <2>1. todo = <<"npm">>
    BY <1>12, TodoFacts
  <2>. QED  BY <1>2, <2>1
<1>. QED  BY <1>5, <1>6, <1>7, <1>8, <1>10, <1>13, <1>14 DEF DeskInv

LEMMA NextDesk == DeskInv /\ [Next]_vars => DeskInv'
<1>. SUFFICES ASSUME DeskInv, [Next]_vars PROVE DeskInv'
  OBVIOUS
<1>1. CASE Move /\ UNCHANGED <<planner, monitor>>
  BY <1>1, MoveStep
<1>2. CASE Planner /\ UNCHANGED <<chain, moves, monitor>>
  BY <1>2, StartPlanStep, ReadStep, BuildStep, DecideStep DEF Planner
<1>3. CASE Send /\ UNCHANGED monitor
  BY <1>3, SendStep
<1>4. CASE (StartMonitor \/ MonitorStep) /\ UNCHANGED <<chain, moves, planner>>
  BY <1>4, MonitorSteps
<1>5. CASE UNCHANGED vars
  <2>1. UNCHANGED <<chain, moves, planner, monitor>>
    BY <1>5 DEF vars
  <2>2. ChainOK' /\ MonitorOK'
    BY <2>1, PlannerLeaves
  <2>. QED  BY <2>1, <2>2, PlannerStays DEF DeskInv
<1>. QED  BY <1>1, <1>2, <1>3, <1>4, <1>5 DEF Next

LEMMA DeskAlways == Spec => []DeskInv
<1>. QED  BY InitDesk, NextDesk, PTL DEF Spec

-----------------------------------------------------------------------------
(***************************************************************************)
(* A rebalance without a swap.                                              *)
(***************************************************************************)
\* Balances in the proportion of the range are desired whole.
LEMMA FitWhole ==
    ASSUME NEW have \in Nat \X Nat, NEW ratio \in Nat \X Nat, TwoSided(ratio),
           have[2] * ratio[1] = ratio[2] * have[1]
    PROVE  FitToRange(have, ratio) = have
<1>. DEFINE h0 == have[1]
            h1 == have[2]
            r0 == ratio[1]
            r1 == ratio[2]
<1>1. have = <<h0, h1>> /\ h0 \in Nat /\ h1 \in Nat /\ r0 \in Nat \ {0} /\ r1 \in Nat \ {0}
  BY DEF TwoSided
<1>2. FitToRange(have, ratio) = LET a0 == Smaller(h0, (h1 * r0) \div r1) IN <<a0, (a0 * r1) \div r0>>
  BY DEF FitToRange
<1>3. h1 * r0 = r1 * h0
  OBVIOUS
<1>. HIDE DEF h0, h1, r0, r1
<1>4. (h1 * r0) \div r1 = h0
  <2>1. (r1 * h0) \div r1 = h0
    BY <1>1
  <2>. QED  BY <1>3, <2>1
<1>5. Smaller(h0, (h1 * r0) \div r1) = h0
  BY <1>1, <1>4 DEF Smaller
<1>6. (h0 * r1) \div r0 = h1
  <2>1. h0 * r1 = r0 * h1
    BY <1>1, <1>3
  <2>2. (r0 * h1) \div r0 = h1
    BY <1>1
  <2>. QED  BY <2>1, <2>2
<1>. QED  BY <1>1, <1>2, <1>5, <1>6

\* One token of such a mint: it carries liquidity, and what it uses is within the slippage.
LEMMA AmpleToken ==
    ASSUME NEW d \in Nat, NEW a \in Nat \ {0}, NEW l \in Nat, d < a * l + a, Slip * d >= 100 * a
    PROVE  l > 0 /\ Cut(d) <= l * a
<1>1. Slip \in 0..100
  BY PlanAssumption
<1>. DEFINE x == a * l
            y == Slip * d
            z == d * (100 - Slip)
<1>2. x \in Nat /\ y \in Nat /\ z \in Nat /\ z = 100 * d - y /\ y <= 100 * d
  BY <1>1
<1>3. d < x + a /\ y >= 100 * a /\ Cut(d) = z \div 100 /\ l * a = x
  BY DEF Cut
<1>. HIDE DEF x, y, z
<1>4. z < 100 * x
  BY <1>2, <1>3
<1>5. z \div 100 <= x
  BY <1>2, <1>4
<1>6. x > 0
  BY <1>2, <1>3
<1>7. l > 0
  BY <1>6 DEF x
<1>. QED  BY <1>3, <1>5, <1>7

LEMMA AmpleMint ==
    ASSUME NEW r, Ordered(r), NEW s, OnGrid(s), NEW d \in Nat \X Nat,
           Ratio(r, s) \in Nat \X Nat, TwoSided(Ratio(r, s)),
           d[2] * Ratio(r, s)[1] = Ratio(r, s)[2] * d[1],
           \A k \in 1..2 : Slip * d[k] >= 100 * Ratio(r, s)[k]
    PROVE  LET l == Minted(r, d, s)
           IN  l \in Nat /\ l > 0 /\ Covers(Holding(r, l, s), Mins(d)) /\ Covers(d, Holding(r, l, s))
<1>. DEFINE a0 == Amount0(r, s)
            a1 == Amount1(r, s)
            d0 == d[1]
            d1 == d[2]
            p == d0 \div a0
            q == d1 \div a1
            l == Minted(r, d, s)
<1>1. /\ a0 \in Nat \ {0} /\ a1 \in Nat \ {0} /\ d0 \in Nat /\ d1 \in Nat /\ d1 * a0 = a1 * d0
      /\ Slip * d0 >= 100 * a0 /\ Slip * d1 >= 100 * a1
  BY DEF Ratio, TwoSided
<1>2. l \in Nat /\ Covers(d, Holding(r, l, s))
  BY MintedFacts
<1>3. l = p \/ l = q
  <2>. DEFINE carried == {d0 \div a : a \in {a0} \ {0}} \cup {d1 \div a : a \in {a1} \ {0}}
  <2>1. l = IF carried = {} THEN 0 ELSE CHOOSE x \in carried : \A k \in carried : x <= k
    BY DEF Minted
  <2>. HIDE DEF a0, a1, d0, d1, l
  <2>2. carried = {p, q}
    BY <1>1
  <2>3. p \in Nat /\ q \in Nat
    BY <1>1, DivNat
  <2>. HIDE DEF carried, p, q
  <2>4. \E x \in carried : \A k \in carried : x <= k
    BY <2>2, <2>3
  <2>5. l \in carried
    BY <2>1, <2>2, <2>4
  <2>. QED  BY <2>2, <2>5
<1>4. Holding(r, l, s) = <<l * a0, l * a1>> /\ Mins(d) = <<Cut(d0), Cut(d1)>>
  BY DEF Holding, Mins
<1>. HIDE DEF a0, a1, d0, d1, l
<1>5. d0 < a0 * p + a0 /\ d1 < a1 * q + a1 /\ p \in Nat /\ q \in Nat
  BY <1>1, DivNat
<1>. HIDE DEF p, q
<1>6. ASSUME NEW x \in Nat, NEW y \in Nat, NEW a \in Nat \ {0}, NEW b \in Nat \ {0}, NEW k \in Nat,
             x < a * k + a, y * a = b * x
      PROVE  y < b * k + b
  <2>1. b * x < b * (a * k + a)
    <3>. DEFINE m == a * k + a
    <3>1. m \in Nat /\ x < m
      BY <1>6
    <3>. HIDE DEF m
    <3>2. b * x < b * m
      BY <3>1
    <3>. QED  BY <3>2 DEF m
  <2>2. b * (a * k + a) = (b * k + b) * a
    OBVIOUS
  <2>. DEFINE n == b * k + b
  <2>3. y * a < n * a /\ n \in Nat
    BY <1>6, <2>1, <2>2
  <2>. HIDE DEF n
  <2>4. y < n
    BY <2>3
  <2>. QED  BY <2>4 DEF n
<1>7. d0 < a0 * l + a0 /\ d1 < a1 * l + a1
  <2>1. CASE l = p
    <3>1. d1 < a1 * p + a1
      BY <1>1, <1>5, <1>6
    <3>. QED  BY <1>5, <2>1, <3>1
  <2>2. CASE l = q
    <3>1. d0 * a1 = a0 * d1
      BY <1>1
    <3>2. d0 < a0 * q + a0
      BY <1>1, <1>5, <1>6, <3>1
    <3>. QED  BY <1>5, <2>2, <3>2
  <2>. QED  BY <1>3, <2>1, <2>2
<1>8. l > 0 /\ Cut(d0) <= l * a0 /\ Cut(d1) <= l * a1
  BY <1>1, <1>2, <1>7, AmpleToken
<1>9. Covers(Holding(r, l, s), Mins(d))
  <2>1. Cut(d0) \in Nat /\ Cut(d1) \in Nat /\ l * a0 \in Nat /\ l * a1 \in Nat
    BY <1>1, <1>2, CutFacts, ProductNat
  <2>. QED  BY <1>4, <1>8, <2>1 DEF Covers
<1>. QED  BY <1>2, <1>8, <1>9 DEF l

\* What a call that goes through does to NFT t.
Collected(c, t, end) ==
    /\ end.outcome = "ok" /\ Follows(c, end) /\ Len(end.chain.nfts) = Len(c.nfts)
    /\ end.chain.wallet = Plus(c.wallet, c.nfts[t].owed)
    /\ end.chain.nfts[t] = [c.nfts[t] EXCEPT !.owed = <<0, 0>>]

Freed(c, t, end) ==
    /\ end.outcome = "ok" /\ Follows(c, end) /\ Len(end.chain.nfts) = Len(c.nfts)
    /\ end.chain.wallet = c.wallet
    /\ end.chain.nfts[t] = [c.nfts[t] EXCEPT !.liquidity = 0,
                               !.owed = Plus(c.nfts[t].owed, Holding(c.nfts[t], c.nfts[t].liquidity, c.price))]

LEMMA CollectPays ==
    ASSUME NEW c \in ChainType, NEW t \in 1..Len(c.nfts), NEW call, call.token = t
    PROVE  Collected(c, t, AfterCollect(c, call))
<1>. DEFINE w == Plus(c.wallet, c.nfts[t].owed)
            n == [c.nfts[t] EXCEPT !.owed = <<0, 0>>]
            m == [c.nfts EXCEPT ![t] = n]
            d == [c EXCEPT !.wallet = w, !.nfts = m]
<1>1. c.nfts \in Seq(Nft)
  BY DEF ChainType
<1>2. AfterCollect(c, call) = Done(d)
  BY DEF AfterCollect, ChainType
<1>3. d.wallet = w /\ d.nfts = m
  BY DEF ChainType
<1>. HIDE DEF w, n
<1>4. Len(m) = Len(c.nfts) /\ m[t] = n
  BY <1>1
<1>5. Follows(c, AfterCollect(c, call))
  BY CollectKeeps
<1>. HIDE DEF m, d
<1>. QED  BY <1>2, <1>3, <1>4, <1>5 DEF Collected, Done, w, n

LEMMA DecreasePays ==
    ASSUME NEW c \in ChainType, NEW t \in 1..Len(c.nfts), NEW call, call.token = t,
           call.liquidity = c.nfts[t].liquidity, Covers(Holding(c.nfts[t], c.nfts[t].liquidity, c.price), call.min)
    PROVE  Freed(c, t, AfterDecrease(c, call))
<1>. DEFINE nft == c.nfts[t]
            out == Holding(nft, nft.liquidity, c.price)
            n == [nft EXCEPT !.liquidity = 0, !.owed = Plus(nft.owed, out)]
            m == [c.nfts EXCEPT ![t] = n]
            d == [c EXCEPT !.nfts = m]
<1>1. c.nfts \in Seq(Nft) /\ nft \in Nft
  BY DEF ChainType
<1>2. nft.liquidity \in Nat /\ call.liquidity = nft.liquidity
  BY <1>1, NftFacts
<1>3. AfterDecrease(c, call)
        = Done([c EXCEPT !.nfts[call.token].liquidity = @ - call.liquidity, !.nfts[call.token].owed = Plus(@, out)])
  <2>1. ~(call.liquidity > nft.liquidity) /\ Covers(out, call.min) /\ out = Holding(c.nfts[call.token], call.liquidity, c.price)
    BY <1>2
  <2>. QED  BY <2>1, Zenon DEF AfterDecrease
<1>4. [c EXCEPT !.nfts[call.token].liquidity = @ - call.liquidity, !.nfts[call.token].owed = Plus(@, out)] = d
  <2>1. nft.liquidity - call.liquidity = 0
    BY <1>2
  <2>. HIDE DEF out
  <2>. DEFINE n0 == [nft EXCEPT !.liquidity = nft.liquidity - call.liquidity, !.owed = Plus(nft.owed, out)]
  <2>2. n0 = n
    BY <2>1
  <2>3. [c EXCEPT !.nfts[call.token].liquidity = @ - call.liquidity, !.nfts[call.token].owed = Plus(@, out)]
          = [c EXCEPT !.nfts = [c.nfts EXCEPT ![t] = n0]]
    BY <1>1, ZenonT(60) DEF ChainType, Nft
  <2>. QED  BY <2>2, <2>3
<1>5. d.wallet = c.wallet /\ d.nfts = m
  BY DEF ChainType
<1>. HIDE DEF n, out
<1>6. Len(m) = Len(c.nfts) /\ m[t] = n
  BY <1>1
<1>7. Follows(c, AfterDecrease(c, call))
  BY <1>1, <1>2, DecreaseKeeps
<1>. HIDE DEF m, d
<1>8. AfterDecrease(c, call).outcome = "ok" /\ AfterDecrease(c, call).chain = d
  BY <1>3, <1>4 DEF Done
<1>. QED  BY <1>5, <1>6, <1>7, <1>8, Zenon DEF Freed, n, out

LEMMA MintPays ==
    ASSUME NEW c \in ChainType, NEW call, Ordered(call.range), call.desired \in Nat \X Nat,
           Minted(call.range, call.desired, c.price) > 0,
           Covers(Holding(call.range, Minted(call.range, call.desired, c.price), c.price), call.min),
           Covers(c.wallet, call.desired)
    PROVE  LET end == AfterMint(c, call)
           IN  /\ end.outcome = "ok"
               /\ \A k \in 1..Len(c.nfts) : end.chain.nfts[k] = c.nfts[k]
<1>. DEFINE l == Minted(call.range, call.desired, c.price)
            used == Holding(call.range, l, c.price)
            n == [lower |-> call.range.lower, upper |-> call.range.upper, liquidity |-> l, owed |-> <<0, 0>>]
            d == [c EXCEPT !.wallet = Minus(c.wallet, used), !.nfts = Append(c.nfts, n)]
<1>1. c.wallet \in Nat \X Nat /\ c.nfts \in Seq(Nft) /\ OnGrid(c.price)
  BY PoolAssumption DEF ChainType
<1>2. l \in Nat /\ Covers(call.desired, used) /\ used \in Nat \X Nat
  BY <1>1, MintedFacts, HoldingPair
<1>3. AfterMint(c, call) =
        CASE l = 0 -> Reverts(c, "liquidity")
          [] l > 0 /\ ~Covers(used, call.min) -> Reverts(c, "slippage")
          [] l > 0 /\ Covers(used, call.min) /\ ~Covers(c.wallet, used) -> Reverts(c, "funds")
          [] OTHER -> Done(d)
  BY Zenon DEF AfterMint
<1>4. d.nfts = Append(c.nfts, n)
  BY DEF ChainType
<1>. HIDE DEF n
<1>5. \A k \in 1..Len(c.nfts) : d.nfts[k] = c.nfts[k]
  BY <1>1, <1>4
<1>6. l > 0 /\ l # 0 /\ Covers(used, call.min)
  BY <1>2
<1>7. Covers(c.wallet, used)
  <2>1. c.wallet \in Int \X Int /\ call.desired \in Int \X Int /\ used \in Int \X Int
    BY <1>1, <1>2
  <2>. QED  BY <1>2, <2>1, CoversTrans
<1>. HIDE DEF l, used, d
<1>8. AfterMint(c, call) = Done(d)
  BY <1>3, <1>6, <1>7, Zenon
<1>. QED  BY <1>5, <1>8 DEF Done

\* Calls that rebalance all of NFT t at the price of the chain.
Rebalances(c, t, collect, decrease, mint) ==
    LET out  == Holding(c.nfts[t], c.nfts[t].liquidity, c.price)
        used == Minted(mint.range, mint.desired, c.price)
    IN  /\ collect.op = "collect" /\ collect.token = t
        /\ decrease.op = "decrease" /\ decrease.token = t
        /\ decrease.liquidity = c.nfts[t].liquidity /\ Covers(out, decrease.min)
        /\ mint.op = "mint" /\ Ordered(mint.range) /\ mint.desired = out
        /\ used > 0 /\ Covers(Holding(mint.range, used, c.price), mint.min)

\* They go through: collected, the principal pays for the mint.
LEMMA RebalancePays ==
    ASSUME NEW c \in ChainType, NEW t \in 1..Len(c.nfts), NEW collect, NEW decrease, NEW mint,
           Rebalances(c, t, collect, decrease, mint)
    PROVE  LET end == AfterMulticall(c, <<collect, decrease, collect>> \o <<mint>>)
           IN  end.outcome = "ok" /\ end.chain.nfts[t].liquidity = 0 /\ end.chain.nfts[t].owed = <<0, 0>>
<1>. DEFINE calls == <<collect, decrease, collect>> \o <<mint>>
            n == c.nfts[t]
            out == Holding(n, n.liquidity, c.price)
<1>1. Len(calls) = 4 /\ calls[1] = collect /\ calls[2] = decrease /\ calls[3] = collect /\ calls[4] = mint
  BY FourCalls
<1>. HIDE DEF calls
<1>2. PICK f : /\ Trace(c, calls, f)
               /\ AfterMulticall(c, calls) = IF f[4].outcome = "ok" THEN f[4] ELSE Reverts(c, f[4].outcome)
  <2>1. Len(calls) \in Nat
    BY <1>1
  <2>2. PICK f : /\ Trace(c, calls, f)
                 /\ AfterMulticall(c, calls) = IF f[Len(calls)].outcome = "ok" THEN f[Len(calls)]
                                               ELSE Reverts(c, f[Len(calls)].outcome)
    BY <2>1, MulticallTrace
  <2>. QED  BY <1>1, <2>2
<1>3. /\ f[0] = Done(c)
      /\ f[1] = IF f[0].outcome = "ok" THEN AfterCall(f[0].chain, collect) ELSE f[0]
      /\ f[2] = IF f[1].outcome = "ok" THEN AfterCall(f[1].chain, decrease) ELSE f[1]
      /\ f[3] = IF f[2].outcome = "ok" THEN AfterCall(f[2].chain, collect) ELSE f[2]
      /\ f[4] = IF f[3].outcome = "ok" THEN AfterCall(f[3].chain, mint) ELSE f[3]
  <2>1. \A k \in 1..4 : f[k] = IF f[k - 1].outcome = "ok" THEN AfterCall(f[k - 1].chain, calls[k]) ELSE f[k - 1]
    BY <1>1, <1>2 DEF Trace
  <2>2. f[0] = Done(c)
    BY <1>2 DEF Trace
  <2>. QED  BY <1>1, <2>1, <2>2
<1>0. /\ collect.op = "collect" /\ collect.token = t
      /\ decrease.op = "decrease" /\ decrease.token = t
      /\ decrease.liquidity = n.liquidity /\ Covers(out, decrease.min)
      /\ mint.op = "mint" /\ Ordered(mint.range) /\ mint.desired = out
      /\ Minted(mint.range, mint.desired, c.price) > 0
      /\ Covers(Holding(mint.range, Minted(mint.range, mint.desired, c.price), c.price), mint.min)
  BY Zenon DEF Rebalances
<1>4. n \in Nft /\ c.wallet \in Nat \X Nat /\ OnGrid(c.price)
  BY PoolAssumption DEF ChainType
<1>5. n.liquidity \in Nat /\ n.owed \in Nat \X Nat /\ out \in Nat \X Nat
  BY <1>4, NftFacts, HoldingPair
<1>. HIDE DEF out, n
<1>6. \A e, i : e \in ChainType /\ e.price = c.price /\ i.lower = n.lower /\ i.upper = n.upper
                  => Holding(i, n.liquidity, e.price) = out
  BY DEF Holding, Amount0, Amount1, out
<1>. DEFINE c1 == f[1].chain
            c2 == f[2].chain
            c3 == f[3].chain
<1>7. /\ f[1].outcome = "ok" /\ c1 \in ChainType /\ c1.price = c.price /\ Len(c1.nfts) = Len(c.nfts)
      /\ c1.wallet = Plus(c.wallet, n.owed) /\ c1.nfts[t] = [n EXCEPT !.owed = <<0, 0>>]
  <2>1. f[1] = AfterCollect(c, collect)
    BY <1>0, <1>3 DEF Done, AfterCall
  <2>2. Collected(c, t, f[1])
    BY <1>0, <2>1, CollectPays
  <2>. QED  BY <2>2 DEF Collected, Follows, n
<1>. DEFINE n1 == [n EXCEPT !.owed = <<0, 0>>]
<1>8. n1.lower = n.lower /\ n1.upper = n.upper /\ n1.liquidity = n.liquidity /\ n1.owed = <<0, 0>> /\ n1 \in Nft
  <2>1. <<0, 0>> \in Nat \X Nat
    OBVIOUS
  <2>2. n1 \in Nft
    BY <1>4, <2>1, NftFacts
  <2>. QED  BY <1>4, <2>2 DEF Nft
<1>. HIDE DEF n1
<1>9. /\ f[2].outcome = "ok" /\ c2 \in ChainType /\ c2.price = c.price /\ Len(c2.nfts) = Len(c.nfts)
      /\ c2.wallet = c1.wallet /\ c2.nfts[t] = [n1 EXCEPT !.liquidity = 0, !.owed = Plus(<<0, 0>>, out)]
  <2>1. f[2] = AfterDecrease(c1, decrease)
    BY <1>0, <1>3, <1>7 DEF AfterCall
  <2>2. c1.nfts[t] = n1 /\ decrease.liquidity = n1.liquidity /\ Covers(out, decrease.min)
    BY <1>0, <1>7, <1>8 DEF n1
  <2>3. out = Holding(n1, n1.liquidity, c1.price)
    BY <1>6, <1>7, <1>8
  <2>4. Freed(c1, t, f[2])
    <3>. HIDE DEF c1
    <3>1. c1 \in ChainType /\ t \in 1..Len(c1.nfts) /\ decrease.token = t
      BY <1>0, <1>7
    <3>2. decrease.liquidity = c1.nfts[t].liquidity /\ Covers(Holding(c1.nfts[t], c1.nfts[t].liquidity, c1.price), decrease.min)
      BY <2>2, <2>3
    <3>. QED  BY <2>1, <3>1, <3>2, DecreasePays
  <2>5. /\ f[2].outcome = "ok" /\ Follows(c1, f[2]) /\ Len(c2.nfts) = Len(c1.nfts) /\ c2.wallet = c1.wallet
        /\ c2.nfts[t] = [n1 EXCEPT !.liquidity = 0, !.owed = Plus(n1.owed, out)]
    <3>. HIDE DEF c1
    <3>. QED  BY <2>2, <2>3, <2>4 DEF Freed
  <2>. QED  BY <1>7, <1>8, <2>5 DEF Follows
<1>. DEFINE n2 == [n1 EXCEPT !.liquidity = 0, !.owed = Plus(<<0, 0>>, out)]
<1>10. n2.liquidity = 0 /\ n2.owed = out
  <2>1. Plus(<<0, 0>>, out) = out
    BY <1>5 DEF Plus
  <2>. QED  BY <1>8, <2>1 DEF Nft
<1>. HIDE DEF n2
<1>11. /\ f[3].outcome = "ok" /\ c3 \in ChainType /\ c3.price = c.price /\ Len(c3.nfts) = Len(c.nfts)
       /\ c3.wallet = Plus(c2.wallet, out) /\ c3.nfts[t] = [n2 EXCEPT !.owed = <<0, 0>>]
  <2>1. f[3] = AfterCollect(c2, collect)
    BY <1>0, <1>3, <1>9 DEF AfterCall
  <2>2. c2.nfts[t] = n2
    BY <1>9 DEF n2
  <2>3. Collected(c2, t, f[3])
    <3>. HIDE DEF c2
    <3>1. c2 \in ChainType /\ t \in 1..Len(c2.nfts) /\ collect.token = t
      BY <1>0, <1>9
    <3>. QED  BY <2>1, <3>1, CollectPays
  <2>4. /\ f[3].outcome = "ok" /\ Follows(c2, f[3]) /\ Len(c3.nfts) = Len(c2.nfts)
        /\ c3.wallet = Plus(c2.wallet, n2.owed) /\ c3.nfts[t] = [n2 EXCEPT !.owed = <<0, 0>>]
    <3>. HIDE DEF c2
    <3>. QED  BY <2>2, <2>3 DEF Collected
  <2>. QED  BY <1>9, <1>10, <2>4, SMTT(60) DEF Follows
<1>12. c3.nfts[t].liquidity = 0 /\ c3.nfts[t].owed = <<0, 0>>
  <2>1. c2.nfts[t] \in Nft /\ c2.nfts[t] = n2
    BY <1>9 DEF ChainType, n2
  <2>. QED  BY <1>10, <1>11, <2>1 DEF Nft
<1>13. Covers(c3.wallet, out)
  <2>1. c1.wallet \in Nat \X Nat /\ c3.wallet = Plus(c1.wallet, out)
    BY <1>7, <1>9, <1>11 DEF ChainType
  <2>. HIDE DEF c1, c3
  <2>. QED  BY <1>5, <2>1 DEF Plus, Covers
<1>14. f[4].outcome = "ok" /\ f[4].chain.nfts[t] = c3.nfts[t]
  <2>1. f[4] = AfterMint(c3, mint)
    BY <1>0, <1>3, <1>11 DEF AfterCall
  <2>. HIDE DEF c3
  <2>. QED  BY <1>0, <1>5, <1>11, <1>13, <2>1, MintPays, SMTT(60)
<1>. QED  BY <1>2, <1>12, <1>14 DEF calls

\* What a planned rebalance brings, and the ratio its mint asks for.
Old    == Holding(seen.nft, seen.nft.liquidity, seen.price)
Wanted == Ratio(plan.range, seen.price)

\* Until a rebalance without a swap is sent, its NFT is as it was read, and so are its ends.
NftStays ==
    ppc # "idle" /\ args.token # 0 /\ swap = None =>
        /\ args.band # None => /\ args.band.lower = chain.nfts[args.token].lower
                               /\ args.band.upper = chain.nfts[args.token].upper
        /\ ppc \in {"build", "planned", "sending"} => seen.nft = chain.nfts[args.token]

Collecting == [op |-> "collect", token |-> args.token]
Decreasing == [op |-> "decrease", token |-> args.token, liquidity |-> seen.nft.liquidity, min |-> Mins(Old)]
Minting(range, desired) == [op |-> "mint", range |-> range, desired |-> desired, min |-> Mins(desired)]

\* Its mint asks for the whole principal, and the four calls are what was planned.
PlanIsWhole ==
    ppc \in {"planned", "sending"} /\ args.token # 0 /\ swap = None =>
        /\ TwoSided(Wanted) => plan.desired = Old /\ Old[2] * Wanted[1] = Wanted[2] * Old[1]
        /\ plan.calls = <<Collecting, Decreasing, Collecting>> \o <<Minting(plan.range, plan.desired)>>

QuietInv == NftStays /\ PlanIsWhole /\ (Ample => QuietRebalanceSucceeds)

LEMMA InitQuiet == Init => QuietInv
BY DEF Init, PlannerInit, QuietInv, NftStays, PlanIsWhole, QuietRebalanceSucceeds, NoResult

LEMMA NoResultQuiet ==
    ASSUME result' = NoResult
    PROVE  QuietRebalanceSucceeds'
BY DEF QuietRebalanceSucceeds, NoResult

LEMMA QuietStays ==
    ASSUME QuietInv, UNCHANGED planner, chain'.nfts = chain.nfts
    PROVE  QuietInv'
<1>. USE DEF planner
<1>1. NftStays'
  BY DEF QuietInv, NftStays
<1>2. PlanIsWhole'
  BY DEF QuietInv, PlanIsWhole, Old, Wanted, Collecting, Decreasing, Minting
<1>3. (Ample => QuietRebalanceSucceeds)'
  BY DEF QuietInv, Ample, QuietRebalanceSucceeds
<1>. QED  BY <1>1, <1>2, <1>3 DEF QuietInv

LEMMA StartQuiet ==
    ASSUME DeskInv, QuietInv, StartPlan, UNCHANGED chain
    PROVE  QuietInv'
<1>1. PICK half \in Halves, token \in 0..Len(chain.nfts),
          band \in {None} \cup {[lower |-> chain.nfts[k].lower, upper |-> chain.nfts[k].upper] : k \in DOMAIN chain.nfts} :
            /\ token # 0 /\ band # None => band = [lower |-> chain.nfts[token].lower, upper |-> chain.nfts[token].upper]
            /\ args' = [token |-> token, band |-> band, half |-> half]
  BY Zenon DEF StartPlan
<1>2. ppc' = "slot0" /\ result' = NoResult
  BY DEF StartPlan
<1>3. NftStays'
  BY <1>1, <1>2 DEF NftStays
<1>4. PlanIsWhole'
  BY <1>2 DEF PlanIsWhole
<1>. QED  BY <1>2, <1>3, <1>4, NoResultQuiet DEF QuietInv

LEMMA ReadQuiet ==
    ASSUME DeskInv, QuietInv, ReadForPlan, UNCHANGED chain
    PROVE  QuietInv'
<1>1. ppc \in Reads /\ result' = NoResult /\ swap = None /\ swap' = None
  BY DEF ReadForPlan, DeskInv, ReadOK
<1>2. ppc' \in Reads \cup {"build", "idle"} /\ (ppc' # "idle" => args' = args)
  BY <1>1 DEF ReadForPlan, After, Reads
<1>3. ASSUME ppc' = "build", args.token # 0 PROVE seen'.nft = chain.nfts[args.token]
  <2>1. ppc = "position" /\ Answered(ppc)
    BY <1>1, <1>3 DEF ReadForPlan, After, Reads
  <2>2. seen' = [seen EXCEPT !.nft = chain.nfts[args.token]]
    BY <2>1 DEF Answered
  <2>3. seen \in [price : Prices \cup {0}, fee : {0, Fee}, cheap : BOOLEAN, nft : Nft \cup {None}]
    BY DEF DeskInv, ReadOK
  <2>. QED  BY <2>2, <2>3
<1>4. NftStays'
  <2>1. NftStays /\ ppc # "idle"
    BY <1>1 DEF QuietInv, Reads
  <2>. QED  BY <1>1, <1>2, <1>3, <2>1 DEF NftStays, Reads
<1>5. PlanIsWhole'
  BY <1>2 DEF PlanIsWhole, Reads
<1>. QED  BY <1>1, <1>4, <1>5, NoResultQuiet DEF QuietInv

LEMMA BuildQuiet ==
    ASSUME DeskInv, QuietInv, Build, UNCHANGED chain
    PROVE  QuietInv'
<1>. DEFINE range   == Target(seen.price, args.half)
            ratio   == Ratio(range, seen.price)
            have    == Inventory
            s       == Solve(have, ratio)
            desired == Desired(have, s, ratio)
            calls   == Calls(have, range, desired)
            pass    == Gates(s, desired)
<1>1. /\ ppc = "build" /\ ppc' = "planned" /\ UNCHANGED <<args, seen, result>>
      /\ swap' = s /\ plan' = [range |-> range, desired |-> desired, calls |-> calls, pass |-> pass]
  BY Zenon DEF Build
<1>2. /\ seen.price \in Prices /\ seen.fee \in {0, Fee} /\ args.half \in Halves /\ swap = None /\ result = NoResult
      /\ args.token # 0 => seen.nft \in Nft
  BY <1>1 DEF DeskInv, ReadOK, Reads
<1>3. NftStays'
  BY <1>1, <1>2 DEF QuietInv, NftStays
<1>4. ASSUME args.token # 0, s = None
      PROVE  /\ TwoSided(ratio) => desired = Old /\ Old[2] * ratio[1] = ratio[2] * Old[1]
             /\ calls = <<Collecting, Decreasing, Collecting>> \o <<Minting(range, desired)>>
  <2>1. OnGrid(seen.price) /\ Read(seen) /\ Ordered(range)
    BY <1>2, PoolAssumption, TargetFacts DEF Read
  <2>2. ratio \in Nat \X Nat
    <3>1. Amount0(range, seen.price) \in Nat /\ Amount1(range, seen.price) \in Nat
      BY <2>1, Amounts
    <3>. QED  BY <3>1 DEF Ratio
  <2>3. Band # None
    <3>1. seen.nft # None
      BY <1>2, <1>4, NoneAssumption DEF Nft
    <3>. QED  BY <1>4, <3>1 DEF Band
  <2>4. have = Old
    <3>1. have = Holding(Band, seen.nft.liquidity, seen.price)
      BY <1>4, <2>3, Zenon DEF Inventory
    <3>2. Band.lower = seen.nft.lower /\ Band.upper = seen.nft.upper
      <4>1. CASE args.band # None
        <5>1. Band = args.band
          BY <4>1 DEF Band
        <5>. QED  BY <1>1, <1>2, <1>4, <4>1, <5>1 DEF QuietInv, NftStays
      <4>2. CASE args.band = None
        BY <1>4, <4>2 DEF Band
      <4>. QED  BY <4>1, <4>2
    <3>. QED  BY <3>1, <3>2 DEF Holding, Amount0, Amount1, Old
  <2>5. have \in Nat \X Nat
    BY <1>1, InventoryPair
  <2>6. desired = FitToRange(have, ratio)
    BY <1>4 DEF Desired
  <2>7. TwoSided(ratio) => have[2] * ratio[1] = ratio[2] * have[1]
    <3>1. s \notin [zeroForOne : BOOLEAN, in : Nat, outMin : Nat]
      BY <1>4, NoneAssumption
    <3>. HIDE DEF have, ratio
    <3>. QED  BY <2>1, <2>2, <2>5, <3>1, SolveSwaps
  <2>8. TwoSided(ratio) => desired = have
    <3>. HIDE DEF have, ratio, desired
    <3>. QED  BY <2>2, <2>5, <2>6, <2>7, FitWhole
  <2>9. calls = <<Collecting, Decreasing, Collecting>> \o <<Minting(range, desired)>>
    <3>1. Rebalancing
      BY <2>3 DEF Rebalancing
    <3>. HIDE DEF have, range, desired
    <3>. QED  BY <1>4, <2>4, <3>1, Zenon DEF Calls, Collecting, Decreasing, Minting, calls
  <2>. QED  BY <2>4, <2>7, <2>8, <2>9
<1>5. PlanIsWhole'
  <2>. HIDE DEF range, have, s, desired, calls, pass
  <2>1. plan'.range = range /\ plan'.desired = desired /\ plan'.calls = calls
    BY <1>1
  <2>2. Wanted' = ratio /\ Old' = Old /\ Collecting' = Collecting /\ Decreasing' = Decreasing
        /\ Minting(plan.range, plan.desired)' = Minting(range, desired)
    BY <1>1, <2>1 DEF Wanted, Old, Collecting, Decreasing, Minting
  <2>. HIDE DEF ratio
  <2>. QED  BY <1>1, <1>4, <2>1, <2>2 DEF PlanIsWhole
<1>. QED  BY <1>1, <1>2, <1>3, <1>5, NoResultQuiet DEF QuietInv

LEMMA DecideQuiet ==
    ASSUME DeskInv, QuietInv, Decide, UNCHANGED chain
    PROVE  QuietInv'
<1>1. ppc = "planned" /\ result' = NoResult
  BY DEF Decide, DeskInv, ReadOK
<1>2. CASE ppc' = "sending" /\ UNCHANGED <<args, seen, swap, plan>>
  <2>1. NftStays'
    BY <1>1, <1>2 DEF QuietInv, NftStays
  <2>2. PlanIsWhole'
    BY <1>1, <1>2 DEF QuietInv, PlanIsWhole, Old, Wanted, Collecting, Decreasing, Minting
  <2>. QED  BY <1>1, <2>1, <2>2, NoResultQuiet DEF QuietInv
<1>3. CASE ppc' = "idle"
  BY <1>1, <1>3, NoResultQuiet DEF QuietInv, NftStays, PlanIsWhole
<1>. QED  BY <1>2, <1>3 DEF Decide

LEMMA InsideTwoSided ==
    ASSUME NEW r, Ordered(r), NEW s, OnGrid(s), r.lower < s, s < r.upper
    PROVE  Ratio(r, s) \in Nat \X Nat /\ TwoSided(Ratio(r, s))
<1>1. r.lower \in Nat /\ r.upper \in Nat /\ s \in Nat
  BY GridOver DEF Ordered
<1>2. Clamp(s, r.lower, r.upper) = s
  BY <1>1 DEF Clamp
<1>3. Grid \div r.upper < Grid \div s /\ Grid \div s \in Nat /\ Grid \div r.upper \in Nat
  BY GridOver DEF Ordered
<1>4. Amount0(r, s) = Grid \div s - Grid \div r.upper /\ Amount1(r, s) = s - r.lower
  BY <1>2 DEF Amount0, Amount1
<1>5. Amount0(r, s) \in Nat /\ Amount0(r, s) > 0 /\ Amount1(r, s) \in Nat /\ Amount1(r, s) > 0
  BY <1>1, <1>3, <1>4
<1>. QED  BY <1>5 DEF Ratio, TwoSided

LEMMA SendQuiet ==
    ASSUME DeskInv, QuietInv, Send
    PROVE  QuietInv'
<1>. DEFINE end == Outcome(chain, Head(todo))
<1>1. /\ ppc = "sending" /\ todo # <<>> /\ chain' = end.chain
      /\ result' = [tx |-> Head(todo), outcome |-> end.outcome, quiet |-> chain.price = seen.price]
      /\ todo' = IF end.outcome = "ok" THEN Tail(todo) ELSE <<>>
      /\ ppc' = IF todo' = <<>> THEN "idle" ELSE "sending"
      /\ UNCHANGED <<args, seen, swap, plan>>
  BY Zenon DEF Send
<1>2. swap = None => todo = <<"npm">> /\ ppc' = "idle"
  <2>. SUFFICES ASSUME swap = None PROVE todo = <<"npm">> /\ ppc' = "idle"
    OBVIOUS
  <2>1. todo = <<"npm">>
    BY <1>1 DEF DeskInv, TodoOK
  <2>2. todo' = <<>>
    BY <1>1, <2>1, TodoFacts
  <2>. QED  BY <1>1, <2>1, <2>2
<1>3. NftStays'
  BY <1>1, <1>2 DEF NftStays
<1>4. PlanIsWhole'
  BY <1>1, <1>2 DEF PlanIsWhole
<1>5. ASSUME Ample, args.token # 0, swap = None, chain.price = seen.price,
             plan.range.lower < seen.price, seen.price < plan.range.upper
      PROVE  /\ end.outcome = "ok" /\ end.chain.nfts[args.token].liquidity = 0
             /\ end.chain.nfts[args.token].owed = <<0, 0>>
  <2>. DEFINE t == args.token
              mint == Minting(plan.range, plan.desired)
              l == Minted(plan.range, plan.desired, chain.price)
  <2>1. chain \in ChainType /\ t \in 1..Len(chain.nfts)
    <3>1. chain \in ChainType /\ t \in 0..Len(chain.nfts) /\ Len(chain.nfts) \in Nat
      BY <1>1 DEF DeskInv, ChainOK, ChainType, ReadOK
    <3>. QED  BY <1>5, <3>1
  <2>2. /\ seen.nft = chain.nfts[t]
        /\ TwoSided(Wanted) => plan.desired = Old /\ Old[2] * Wanted[1] = Wanted[2] * Old[1]
        /\ plan.calls = <<Collecting, Decreasing, Collecting>> \o <<mint>>
    BY <1>1, <1>5 DEF QuietInv, NftStays, PlanIsWhole
  <2>3. Ordered(plan.range) /\ plan.desired \in Nat \X Nat /\ seen.price \in Prices
    BY <1>1 DEF DeskInv, PlanOK
  <2>4. OnGrid(seen.price)
    BY <2>3, PoolAssumption
  <2>5. Wanted \in Nat \X Nat /\ TwoSided(Wanted)
    BY <1>5, <2>3, <2>4, InsideTwoSided DEF Wanted
  <2>6. plan.desired = Old /\ plan.desired[2] * Wanted[1] = Wanted[2] * plan.desired[1]
    BY <2>2, <2>5
  <2>7. \A k \in 1..2 : Slip * plan.desired[k] >= 100 * Wanted[k]
    BY <1>5 DEF Ample, Wanted
  <2>8. /\ l \in Nat /\ l > 0
        /\ Covers(Holding(plan.range, l, chain.price), Mins(plan.desired))
    BY <1>5, <2>3, <2>4, <2>5, <2>6, <2>7, AmpleMint DEF Wanted
  <2>9. Covers(Old, Mins(Old))
    <3>1. Old \in Nat \X Nat
      BY <2>3, <2>6
    <3>2. Cut(Old[1]) \in Nat /\ Cut(Old[1]) <= Old[1] /\ Cut(Old[2]) \in Nat /\ Cut(Old[2]) <= Old[2]
      BY <3>1, CutFacts
    <3>. QED  BY <3>1, <3>2 DEF Covers, Mins
  <2>10. Rebalances(chain, t, Collecting, Decreasing, mint)
    <3>1. Holding(chain.nfts[t], chain.nfts[t].liquidity, chain.price) = Old
      BY <1>5, <2>2 DEF Old
    <3>2. Collecting.op = "collect" /\ Collecting.token = t
      BY DEF Collecting
    <3>3. /\ Decreasing.op = "decrease" /\ Decreasing.token = t
          /\ Decreasing.liquidity = chain.nfts[t].liquidity /\ Decreasing.min = Mins(Old)
      BY <2>2 DEF Decreasing
    <3>4. mint.op = "mint" /\ mint.range = plan.range /\ mint.desired = plan.desired /\ mint.min = Mins(plan.desired)
      BY DEF Minting
    <3>. HIDE DEF mint, t, l
    <3>. QED  BY <2>3, <2>6, <2>8, <2>9, <3>1, <3>2, <3>3, <3>4, Zenon DEF Rebalances, l
  <2>11. end = AfterMulticall(chain, plan.calls)
    BY <1>2, <1>5, TodoFacts DEF Outcome
  <2>. HIDE DEF mint, end, t
  <2>12. LET e == AfterMulticall(chain, <<Collecting, Decreasing, Collecting>> \o <<mint>>)
         IN  e.outcome = "ok" /\ e.chain.nfts[t].liquidity = 0 /\ e.chain.nfts[t].owed = <<0, 0>>
    BY <2>1, <2>10, RebalancePays
  <2>. QED  BY <2>2, <2>11, <2>12 DEF t
<1>6. (Ample => QuietRebalanceSucceeds)'
  <2>1. (Ample <=> Ample') /\ result'.quiet = (chain.price = seen.price) /\ result'.outcome = end.outcome
    BY <1>1 DEF Ample
  <2>. HIDE DEF end
  <2>. QED  BY <1>1, <1>5, <2>1 DEF QuietRebalanceSucceeds
<1>. QED  BY <1>3, <1>4, <1>6 DEF QuietInv

LEMMA NextQuiet == DeskInv /\ QuietInv /\ [Next]_vars => QuietInv'
<1>. SUFFICES ASSUME DeskInv, QuietInv, [Next]_vars PROVE QuietInv'
  OBVIOUS
<1>1. CASE Move /\ UNCHANGED <<planner, monitor>>
  <2>1. chain'.nfts = chain.nfts
    BY <1>1 DEF Move, DeskInv, ChainOK, ChainType
  <2>. QED  BY <1>1, <2>1, QuietStays
<1>2. CASE Planner /\ UNCHANGED <<chain, moves, monitor>>
  BY <1>2, StartQuiet, ReadQuiet, BuildQuiet, DecideQuiet DEF Planner
<1>3. CASE Send
  BY <1>3, SendQuiet
<1>4. CASE UNCHANGED <<chain, moves, planner>>
  BY <1>4, QuietStays
<1>. QED  BY <1>1, <1>2, <1>3, <1>4 DEF Next, vars

-----------------------------------------------------------------------------
(***************************************************************************)
(* The theorems.                                                            *)
(***************************************************************************)
\* The state of the desk has its types, whatever is planned, sent and reverted: no balance,
\* liquidity or amount owed falls below zero, and a planned band has a width.  The code does not
\* check the last, so it needs half widths of at least half a spacing.
THEOREM DeskTypes == HalvesSpan => (Spec => []TypeOK)
<1>. SUFFICES ASSUME HalvesSpan PROVE Spec => []TypeOK
  OBVIOUS
<1>1. DeskInv => TypeOK
  <2>. SUFFICES ASSUME DeskInv PROVE TypeOK
    OBVIOUS
  <2>1. chain.price \in Prices /\ chain.wallet \in Nat \X Nat /\ moves \in 0..MaxMoves /\ chain.nfts \in Seq(Nft)
    BY DEF DeskInv, ChainOK, ChainType
  <2>2. \A k \in DOMAIN chain.nfts : chain.nfts[k] \in Nft
    BY <2>1
  <2>3. \A n \in Nft : n.liquidity >= 0 /\ Covers(n.owed, <<0, 0>>)
    BY DEF Nft, Covers
  <2>4. plan # None => plan.range.lower < plan.range.upper /\ Covers(plan.desired, <<0, 0>>)
    BY DEF DeskInv, PlanOK, Covers
  <2>5. swap # None => swap.in \in Nat
    BY DEF DeskInv, PlanOK, SwapOK
  <2>6. ppc \in {"idle", "planned", "sending"} \cup Reads \cup {"build"}
    BY DEF DeskInv, ReadOK
  <2>7. mpc \in {"off", "row", "ended"} \cup MonitorReads /\ watched \in 0..Len(chain.nfts) /\ given \in BOOLEAN
    BY DEF DeskInv, MonitorOK
  <2>8. Covers(chain.wallet, <<0, 0>>)
    BY <2>1 DEF Covers
  <2>. QED  BY <2>1, <2>2, <2>3, <2>4, <2>5, <2>6, <2>7, <2>8 DEF TypeOK
<1>. QED  BY <1>1, DeskAlways, PTL

\* A fresh mint never reverts for want of funds, however the price moves between the plan, the
\* swap and the mint and even if the pool's fee could not be read.
THEOREM FreshMintFunded == Spec => []MintIsFunded
<1>1. DeskInv => MintIsFunded
  BY DEF DeskInv
<1>. QED  BY <1>1, DeskAlways, PTL

\* The arithmetic of the gate: what a swap returns over what its input is worth at mid, against
\* the price's way, whichever token is sold.
LEMMA LossOfSwap ==
    ASSUME NEW o \in Nat, NEW mid \in Nat, NEW p \in Nat, NEW q \in Nat \ {0},
           NEW slip \in 0..100,
           \/ mid * p <= o * q /\ 100 * (q * q) - 100 * (p * p) <= slip * (q * q)
           \/ mid * q <= o * p /\ 100 * (p * p) - 100 * (q * q) <= slip * (q * q)
    PROVE  (100 - slip) * (mid * mid) <= 100 * (o * o)
<1>. DEFINE oo == o * o
            mm == mid * mid
            pp == p * p
            qq == q * q
<1>0. oo \in Nat /\ mm \in Nat /\ pp \in Nat /\ qq \in Nat \ {0}
  BY ProductNat
<1>1. CASE mid * p <= o * q /\ 100 * qq - 100 * pp <= slip * qq
  <2>1. (mid * p) * (mid * p) <= (o * q) * (o * q)
    <3>1. mid * p \in Nat /\ o * q \in Nat
      BY ProductNat
    <3>. DEFINE x == mid * p
                y == o * q
    <3>. HIDE DEF x, y
    <3>2. x \in Nat /\ y \in Nat /\ x <= y
      BY <1>1, <3>1 DEF x, y
    <3>3. x * x <= y * y
      BY <3>2
    <3>. QED  BY <3>3 DEF x, y
  <2>2. mm * pp <= oo * qq
    BY <2>1
  <2>. HIDE DEF oo, mm, pp, qq
  <2>3. (100 - slip) * qq <= 100 * pp
    BY <1>0, <1>1
  <2>4. mm * ((100 - slip) * qq) <= mm * (100 * pp)
    BY <1>0, <2>3
  <2>5. ((100 - slip) * mm) * qq <= (100 * oo) * qq
    BY <1>0, <2>2, <2>4
  <2>. QED  BY <1>0, <2>5 DEF oo, mm
<1>2. CASE mid * q <= o * p /\ 100 * pp - 100 * qq <= slip * qq
  <2>1. (mid * q) * (mid * q) <= (o * p) * (o * p)
    <3>1. mid * q \in Nat /\ o * p \in Nat
      BY ProductNat
    <3>. DEFINE x == mid * q
                y == o * p
    <3>. HIDE DEF x, y
    <3>2. x \in Nat /\ y \in Nat /\ x <= y
      BY <1>2, <3>1 DEF x, y
    <3>3. x * x <= y * y
      BY <3>2
    <3>. QED  BY <3>3 DEF x, y
  <2>2. mm * qq <= oo * pp
    BY <2>1
  <2>. HIDE DEF oo, mm, pp, qq
  <2>3. 100 * pp <= (100 + slip) * qq
    BY <1>0, <1>2
  <2>4. oo * (100 * pp) <= oo * ((100 + slip) * qq)
    BY <1>0, <2>3
  <2>5. (100 * mm) * qq <= ((100 + slip) * oo) * qq
    BY <1>0, <2>2, <2>4
  <2>6. 100 * mm <= (100 + slip) * oo
    BY <1>0, <2>5
  <2>7. (100 - slip) * (100 * mm) <= (100 - slip) * ((100 + slip) * oo)
    BY <1>0, <2>6
  <2>8. (100 - slip) * ((100 + slip) * oo) <= 10000 * oo
    BY <1>0
  <2>. QED  BY <1>0, <2>7, <2>8 DEF oo, mm
<1>. QED  BY <1>0, <1>1, <1>2

\* What a swap returns, with the unit it may lose to rounding, against the worth of its input at
\* mid: they compare as the price after the swap and the price before.
LEMMA SwapOutZero ==
    ASSUME NEW s, OnGrid(s), NEW in \in Nat, NEW fee \in 0..99
    PROVE  LET taken == (in * (100 - fee)) \div 100
               mid   == (taken * s * s) \div Grid
               out   == SwapOut(s, in, TRUE, fee)
               after == SqrtAfter(s, in, TRUE, fee)
           IN  /\ mid \in Nat /\ out \in Nat /\ after.over \in Nat /\ after.under \in Nat \ {0}
               /\ mid * after.over <= (out + 1) * after.under
<1>. DEFINE taken == (in * (100 - fee)) \div 100
            mid   == (taken * s * s) \div Grid
            out   == SwapOut(s, in, TRUE, fee)
            g     == Grid \div s
            L     == PoolLiquidity
            num   == L * s * s * taken
            den   == Grid * L + taken * s
<1>1. taken \in Nat /\ s \in Nat \ {0} /\ L \in Nat \ {0} /\ g \in Nat \ {0} /\ Grid = s * g
  BY TakenNat, GridOver, PoolAssumption
<1>2. out \in Nat
  BY SwapOutNat
<1>3. out = num \div den
  BY DEF SwapOut
<1>4. SqrtAfter(s, in, TRUE, fee).over = g * L /\ SqrtAfter(s, in, TRUE, fee).under = g * L + taken
  BY DEF SqrtAfter
<1>. HIDE DEF taken, g, L, out
<1>5. g * L \in Nat \ {0} /\ g * L + taken \in Nat \ {0}
  <2>1. g * L \in Nat \ {0}
    BY <1>1
  <2>. QED  BY <1>1, <2>1
<1>6. den = s * (g * L + taken) /\ den \in Nat \ {0}
  <2>1. den = s * (g * L + taken)
    BY <1>1
  <2>. QED  BY <1>1, <1>5, <2>1
<1>7. num = s * (L * s * taken) /\ num \in Nat /\ L * s * taken \in Nat
  BY <1>1, ProductNat
<1>8. s * (L * s * taken) < s * ((out + 1) * (g * L + taken))
  <2>1. num < den * out + den
    <3>. HIDE DEF num, den
    <3>. QED  BY <1>3, <1>6, <1>7, DivNat
  <2>2. den * out + den = s * ((out + 1) * (g * L + taken))
    BY <1>1, <1>2, <1>6
  <2>. QED  BY <1>7, <2>1, <2>2
<1>9. L * s * taken < (out + 1) * (g * L + taken)
  <2>. DEFINE x == L * s * taken
              y == (out + 1) * (g * L + taken)
  <2>1. x \in Nat /\ y \in Nat
    BY <1>2, <1>5, <1>7, ProductNat
  <2>. HIDE DEF x, y
  <2>2. s * x < s * y
    BY <1>8 DEF x, y
  <2>3. x < y
    BY <1>1, <2>1, <2>2
  <2>. QED  BY <2>3 DEF x, y
<1>10. mid \in Nat /\ s * (mid * g) <= s * (taken * s)
  <2>1. taken * s * s \in Nat
    BY <1>1, ProductNat
  <2>2. mid \in Nat /\ Grid * mid <= taken * s * s
    BY <2>1, DivNat
  <2>. HIDE DEF mid
  <2>3. Grid * mid = s * (mid * g) /\ taken * s * s = s * (taken * s)
    BY <1>1, <2>2
  <2>. QED  BY <2>2, <2>3
<1>. HIDE DEF mid
<1>11. mid * g <= taken * s
  <2>. DEFINE x == mid * g
              y == taken * s
  <2>1. x \in Nat /\ y \in Nat
    BY <1>1, <1>10, ProductNat
  <2>. HIDE DEF x, y
  <2>2. s * x <= s * y
    BY <1>10 DEF x, y
  <2>3. x <= y
    BY <1>1, <2>1, <2>2
  <2>. QED  BY <2>3 DEF x, y
<1>12. mid * (g * L) <= L * s * taken
  <2>. DEFINE x == mid * g
              y == taken * s
  <2>1. x \in Nat /\ y \in Nat
    BY <1>1, <1>10, ProductNat
  <2>2. mid * (g * L) = x * L /\ L * s * taken = y * L
    BY <1>1, <1>10
  <2>. HIDE DEF x, y
  <2>3. x * L <= y * L
    BY <1>1, <1>11, <2>1 DEF x, y
  <2>. QED  BY <2>2, <2>3
<1>13. mid * (g * L) <= (out + 1) * (g * L + taken)
  <2>1. mid * (g * L) \in Nat /\ (out + 1) * (g * L + taken) \in Nat
    BY <1>2, <1>5, <1>10, ProductNat
  <2>. QED  BY <1>7, <1>9, <1>12, <2>1
<1>. QED  BY <1>2, <1>4, <1>5, <1>10, <1>13 DEF taken, mid, out, g, L

LEMMA SwapOutOne ==
    ASSUME NEW s, OnGrid(s), NEW in \in Nat, NEW fee \in 0..99
    PROVE  LET taken == (in * (100 - fee)) \div 100
               mid   == (taken * Grid) \div (s * s)
               out   == SwapOut(s, in, FALSE, fee)
               after == SqrtAfter(s, in, FALSE, fee)
           IN  /\ mid \in Nat /\ out \in Nat /\ after.over \in Nat /\ after.under \in Nat \ {0}
               /\ mid * after.under <= (out + 1) * after.over
<1>. DEFINE taken == (in * (100 - fee)) \div 100
            mid   == (taken * Grid) \div (s * s)
            out   == SwapOut(s, in, FALSE, fee)
            L     == PoolLiquidity
            num   == Grid * taken * L
            over  == s * L + taken
            den   == s * over
<1>1. taken \in Nat /\ s \in Nat \ {0} /\ L \in Nat \ {0} /\ Grid \in Nat
  BY TakenNat, GridOver, PoolAssumption
<1>2. out \in Nat
  BY SwapOutNat
<1>3. out = num \div den
  BY DEF SwapOut
<1>4. SqrtAfter(s, in, FALSE, fee).over = over /\ SqrtAfter(s, in, FALSE, fee).under = s * L
  BY DEF SqrtAfter
<1>. HIDE DEF taken, L, out
<1>5. s * L \in Nat \ {0} /\ over \in Nat \ {0}
  <2>1. s * L \in Nat \ {0}
    BY <1>1
  <2>. QED  BY <1>1, <2>1
<1>. HIDE DEF over
<1>6. num \in Nat /\ den \in Nat \ {0} /\ taken * Grid \in Nat /\ s * s \in Nat \ {0}
  <2>1. num \in Nat /\ taken * Grid \in Nat
    BY <1>1, ProductNat
  <2>2. den \in Nat \ {0} /\ s * s \in Nat \ {0}
    BY <1>1, <1>5
  <2>. QED  BY <2>1, <2>2
<1>7. num < den * out + den
  <2>. HIDE DEF num, den
  <2>. QED  BY <1>3, <1>6, DivNat
<1>8. mid \in Nat /\ (s * s) * mid <= taken * Grid
  BY <1>6, DivNat
<1>. HIDE DEF mid
<1>9. s * (mid * (s * L)) <= num
  <2>. DEFINE x == (s * s) * mid
              y == taken * Grid
  <2>1. x \in Nat /\ y \in Nat
    BY <1>6, <1>8, ProductNat
  <2>2. s * (mid * (s * L)) = x * L /\ num = y * L
    BY <1>1, <1>8
  <2>. HIDE DEF x, y, num
  <2>3. x * L <= y * L
    BY <1>1, <1>8, <2>1 DEF x, y
  <2>. QED  BY <2>2, <2>3
<1>10. s * (mid * (s * L)) < s * ((out + 1) * over)
  <2>1. den * out + den = s * ((out + 1) * over)
    BY <1>1, <1>2, <1>5
  <2>. DEFINE x == s * (mid * (s * L))
              y == den * out + den
  <2>2. x \in Nat /\ y \in Nat
    BY <1>1, <1>2, <1>5, <1>6, <1>8, ProductNat
  <2>. HIDE DEF x, y, num
  <2>3. x < y
    BY <1>6, <1>7, <1>9, <2>2 DEF x, y
  <2>. QED  BY <2>1, <2>3 DEF x, y
<1>11. mid * (s * L) <= (out + 1) * over
  <2>. DEFINE x == mid * (s * L)
              y == (out + 1) * over
  <2>1. x \in Nat /\ y \in Nat
    BY <1>2, <1>5, <1>8, ProductNat
  <2>. HIDE DEF x, y
  <2>2. s * x < s * y
    BY <1>10 DEF x, y
  <2>3. x < y
    BY <1>1, <2>1, <2>2
  <2>. QED  BY <2>1, <2>3 DEF x, y
<1>. QED  BY <1>2, <1>4, <1>5, <1>8, <1>11 DEF taken, mid, out, L

LEMMA GateReading ==
    ASSUME NEW p \in Nat, NEW q \in Nat, NEW slip \in 0..100, Distance(p * p, q * q) * 100 <= slip * q * q
    PROVE  100 * (q * q) - 100 * (p * p) <= slip * (q * q) /\ 100 * (p * p) - 100 * (q * q) <= slip * (q * q)
<1>. DEFINE pp == p * p
            qq == q * q
<1>1. pp \in Nat /\ qq \in Nat /\ slip * q * q = slip * qq
  BY ProductNat
<1>2. Distance(pp, qq) * 100 <= slip * qq
  BY <1>1
<1>. HIDE DEF pp, qq
<1>. DEFINE z == slip * qq
<1>3. z \in Nat
  BY <1>1, ProductNat
<1>. HIDE DEF z
<1>4. 100 * qq - 100 * pp <= z /\ 100 * pp - 100 * qq <= z
  BY <1>1, <1>2, <1>3 DEF Distance, Larger, Smaller, z
<1>. QED  BY <1>4 DEF pp, qq, z

\* A swap that passes the gates returns, but for a unit of rounding, at least the square root of
\* 1 - Slip of what its input is worth at mid, in either direction and for any pool: the gate on the
\* way of the price bounds the loss of the swap.
THEOREM LossBounded == Spec => []GateBoundsLoss
<1>1. DeskInv => GateBoundsLoss
  <2>. SUFFICES ASSUME DeskInv, plan # None, swap # None, plan.pass
                PROVE  LET s     == seen.price
                           taken == (swap.in * (100 - seen.fee)) \div 100
                           mid   == IF swap.zeroForOne THEN (taken * s * s) \div Grid ELSE (taken * Grid) \div (s * s)
                           out   == SwapOut(s, swap.in, swap.zeroForOne, seen.fee) + 1
                       IN  100 * out * out >= (100 - Slip) * mid * mid
    BY DEF GateBoundsLoss
  <2>. DEFINE s     == seen.price
              taken == (swap.in * (100 - seen.fee)) \div 100
              after == SqrtAfter(s, swap.in, swap.zeroForOne, seen.fee)
              p     == after.over
              q     == after.under
  <2>1. swap.zeroForOne \in BOOLEAN /\ swap.in \in Nat /\ s \in Prices /\ ImpactWithin(swap)
    BY DEF DeskInv, PlanOK, SwapOK
  <2>2. OnGrid(s) /\ seen.fee \in 0..99 /\ Slip \in 0..100
    <3>1. seen.fee \in {0, Fee}
      BY DEF DeskInv, ReadOK
    <3>. QED  BY <2>1, <3>1, PoolAssumption, PlanAssumption
  <2>3. Distance(p * p, q * q) * 100 <= Slip * q * q
    BY <2>1, Zenon DEF ImpactWithin
  <2>4. CASE swap.zeroForOne
    <3>. DEFINE mid == (taken * s * s) \div Grid
                o   == SwapOut(s, swap.in, TRUE, seen.fee) + 1
    <3>1. swap.zeroForOne = TRUE
      BY <2>1, <2>4
    <3>2. mid \in Nat /\ o \in Nat /\ p \in Nat /\ q \in Nat \ {0} /\ mid * p <= o * q
      <4>. DEFINE out == SwapOut(s, swap.in, TRUE, seen.fee)
      <4>. DEFINE e == SqrtAfter(s, swap.in, TRUE, seen.fee)
      <4>1. after = e
        BY <3>1, Zenon
      <4>2. mid \in Nat /\ out \in Nat /\ e.over \in Nat /\ e.under \in Nat \ {0} /\ mid * e.over <= (out + 1) * e.under
        BY <2>1, <2>2, SwapOutZero, ZenonT(60)
      <4>. HIDE DEF after, e
      <4>3. mid \in Nat /\ out \in Nat /\ p \in Nat /\ q \in Nat \ {0} /\ mid * p <= (out + 1) * q
        BY <4>1, <4>2
      <4>. HIDE DEF out
      <4>4. out + 1 \in Nat
        BY <4>2
      <4>. QED  BY <4>3, <4>4 DEF out
    <3>. HIDE DEF mid, o, p, q
    <3>3. 100 * (q * q) - 100 * (p * p) <= Slip * (q * q)
      BY <2>2, <2>3, <3>2, GateReading
    <3>4. (100 - Slip) * (mid * mid) <= 100 * (o * o)
      BY <2>2, <3>2, <3>3, LossOfSwap
    <3>5. 100 * o * o >= (100 - Slip) * mid * mid
      BY <2>2, <3>2, <3>4
    <3>. QED  BY <3>1, <3>5 DEF mid, o
  <2>5. CASE ~swap.zeroForOne
    <3>. DEFINE mid == (taken * Grid) \div (s * s)
                o   == SwapOut(s, swap.in, FALSE, seen.fee) + 1
    <3>1. swap.zeroForOne = FALSE
      BY <2>1, <2>5
    <3>2. mid \in Nat /\ o \in Nat /\ p \in Nat /\ q \in Nat \ {0} /\ mid * q <= o * p
      <4>. DEFINE out == SwapOut(s, swap.in, FALSE, seen.fee)
      <4>. DEFINE e == SqrtAfter(s, swap.in, FALSE, seen.fee)
      <4>1. after = e
        BY <3>1, Zenon
      <4>2. mid \in Nat /\ out \in Nat /\ e.over \in Nat /\ e.under \in Nat \ {0} /\ mid * e.under <= (out + 1) * e.over
        BY <2>1, <2>2, SwapOutOne, ZenonT(60)
      <4>. HIDE DEF after, e
      <4>3. mid \in Nat /\ out \in Nat /\ p \in Nat /\ q \in Nat \ {0} /\ mid * q <= (out + 1) * p
        BY <4>1, <4>2
      <4>. HIDE DEF out
      <4>4. out + 1 \in Nat
        BY <4>2
      <4>. QED  BY <4>3, <4>4 DEF out
    <3>. HIDE DEF mid, o, p, q
    <3>3. 100 * (p * p) - 100 * (q * q) <= Slip * (q * q)
      BY <2>2, <2>3, <3>2, GateReading, ZenonT(60)
    <3>4. (100 - Slip) * (mid * mid) <= 100 * (o * o)
      BY <2>2, <3>2, <3>3, LossOfSwap, SMTT(60)
    <3>5. 100 * o * o >= (100 - Slip) * mid * mid
      BY <2>2, <3>2, <3>4
    <3>. QED  BY <3>1, <3>5 DEF mid, o
  <2>. QED  BY <2>4, <2>5
<1>. QED  BY <1>1, DeskAlways, PTL

\* A rebalance that needs no swap goes through at the price it was planned for and leaves nothing
\* on the old NFT, for any band, price and liquidity: its mint asks for exactly what decreaseLiquidity
\* frees at that price, and the second collect pays for it.  Ample is needed: if the mint's liquidity
\* may lose more to rounding than the slippage allows, the mint may revert.
THEOREM QuietSucceeds == Spec => [](Ample => QuietRebalanceSucceeds)
<1>1. DeskInv /\ QuietInv /\ [Next]_vars => QuietInv'
  BY NextQuiet
<1>2. QuietInv => (Ample => QuietRebalanceSucceeds)
  BY DEF QuietInv
<1>. QED  BY <1>1, <1>2, InitQuiet, DeskAlways, PTL DEF Spec
=============================================================================

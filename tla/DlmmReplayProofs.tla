--------------------------- MODULE DlmmReplayProofs ---------------------------
(***************************************************************************)
(* Proofs about DlmmReplay, for files of any length, any walk of bins, any  *)
(* fees, costs and thresholds: every value has its type, a static range is  *)
(* worth what holding is worth plus its fees at every observation and in    *)
(* every row, a mode that passes the gate did so on windows that support    *)
(* it, and recentring loses nothing over a round trip of the price.         *)
(***************************************************************************)
EXTENDS DlmmReplay, WindowStatsProofs, SequenceTheorems

-----------------------------------------------------------------------------
(***************************************************************************)
(* Loading.                                                                 *)
(***************************************************************************)
LEMMA InsertTyped ==
    ASSUME NEW s \in Seq(Observation), NEW o \in Observation
    PROVE  Insert(s, o) \in Seq(Observation)
<1>. DEFINE B == {j \in DOMAIN s : s[j].block <= o.block}
            p == Cardinality(B)
            n == Len(s)
<1>1. n \in Nat /\ DOMAIN s = 1..n /\ \A j \in 1..n : s[j] \in Observation
  OBVIOUS
<1>2. p \in 0..n
  <2>1. B \subseteq 1..n
    BY <1>1
  <2>. HIDE DEF B, n
  <2>2. IsFiniteSet(1..n) /\ Cardinality(1..n) = n
    BY <1>1, FS_Interval
  <2>3. Cardinality(B) \in Nat /\ Cardinality(B) <= n
    BY <1>1, <2>1, <2>2, SubsetCount
  <2>. QED  BY <2>3
<1>3. Insert(s, o) = SubSeq(s, 1, p) \o <<o>> \o SubSeq(s, p + 1, n)
  BY Zenon DEF Insert
<1>. HIDE DEF p, n
<1>4. SubSeq(s, 1, p) \in Seq(Observation)
  <2>1. \A i_1 \in 1..p : s[i_1] \in Observation
    BY <1>1, <1>2
  <2>. QED  BY <1>2, <2>1, SubSeqProperties
<1>5. SubSeq(s, p + 1, n) \in Seq(Observation)
  <2>1. \A i_1 \in p + 1..n : s[i_1] \in Observation
    BY <1>1, <1>2
  <2>2. p + 1 \in Int /\ n \in Int
    BY <1>1, <1>2
  <2>. QED  BY <2>1, <2>2, SubSeqProperties
<1>6. <<o>> \in Seq(Observation)
  OBVIOUS
<1>. DEFINE x == SubSeq(s, 1, p)
            y == SubSeq(s, p + 1, n)
<1>. HIDE DEF x, y
<1>7. (x \o <<o>>) \o y \in Seq(Observation)
  BY <1>4, <1>5, <1>6 DEF x, y
<1>. QED  BY <1>3, <1>7 DEF x, y

LEMMA LoadedTyped ==
    ASSUME NEW s \in Seq(Observation)
    PROVE  Loaded(s) \in Seq(Observation)
<1>. DEFINE E == Seq(Observation)
            e0 == <<>>
            m == Len(s)
            Defines(f) == f = [k \in 0..m |-> IF k = 0 THEN <<>> ELSE Insert(f[k - 1], s[k])]
            sorted == CHOOSE f : Defines(f)
            G == [k \in 1..m |-> [q \in E |-> Insert(q, s[k])]]
<1>1. m \in Nat /\ e0 \in E /\ \A k \in 1..m : s[k] \in Observation
  OBVIOUS
<1>2. G \in [1..m -> [E -> E]]
  <2>1. \A k \in 1..m, q \in E : Insert(q, s[k]) \in E
    BY <1>1, InsertTyped
  <2>. HIDE DEF E
  <2>. QED  BY <2>1
<1>3. \A k \in 1..m, q \in E : G[k][q] = Insert(q, s[k])
  OBVIOUS
<1>. HIDE DEF G
<1>4. PICK f \in [0..m -> E] : f[0] = e0 /\ \A k \in 1..m : f[k] = G[k][f[k - 1]]
  <2>1. m \in Nat /\ e0 \in E /\ G \in [1..m -> [E -> E]]
    BY <1>1, <1>2
  <2>. HIDE DEF m, E, e0
  <2>2. \E f \in [0..m -> E] : f[0] = e0 /\ \A k \in 1..m : f[k] = G[k][f[k - 1]]
    BY <2>1, Recursion, SMTT(60)
  <2>. QED  BY <2>2
<1>5. Defines(f)
  <2>1. ASSUME NEW k \in 1..m PROVE f[k] = Insert(f[k - 1], s[k])
    <3>1. k - 1 \in 0..m
      BY <1>1
    <3>2. f[k - 1] \in E
      <4>. HIDE DEF E, m
      <4>. QED  BY <3>1
    <3>. QED  BY <1>3, <1>4, <3>2
  <2>2. \A k \in 0..m : k # 0 => k \in 1..m
    BY <1>1
  <2>. HIDE DEF m
  <2>. QED  BY <1>4, <2>1, <2>2
<1>6. Defines(sorted)
  BY <1>5
<1>7. Loaded(s) = sorted[m]
  BY Zenon DEF Loaded
<1>. HIDE DEF sorted, m
<1>8. sorted[0] = e0 /\ \A k \in 1..m : sorted[k] = Insert(sorted[k - 1], s[k])
  <2>1. \A k \in 0..m : sorted[k] = IF k = 0 THEN <<>> ELSE Insert(sorted[k - 1], s[k])
    BY <1>6
  <2>2. 0 \in 0..m /\ \A k \in 1..m : k \in 0..m /\ k # 0
    BY <1>1
  <2>. QED  BY <2>1, <2>2
<1>. DEFINE T == {k \in 0..m : sorted[k] \in E}
<1>9. \A k \in 0..m : k \in T
  <2>1. 0 \in T
    <3>1. sorted[0] \in E /\ 0 \in 0..m
      BY <1>1, <1>8
    <3>. QED  BY <3>1
  <2>2. ASSUME NEW k \in 1..m, k - 1 \in T PROVE k \in T
    <3>1. k \in 0..m /\ sorted[k - 1] \in E
      BY <1>1, <2>2
    <3>2. Insert(sorted[k - 1], s[k]) \in E
      BY <1>1, <3>1, InsertTyped
    <3>. QED  BY <1>8, <3>1, <3>2
  <2>. HIDE DEF T
  <2>. QED  BY <1>1, <2>1, <2>2, Climb
<1>10. m \in 0..m
  BY <1>1
<1>. QED  BY <1>7, <1>9, <1>10

-----------------------------------------------------------------------------
(***************************************************************************)
(* Values.                                                                  *)
(***************************************************************************)
\* The price of n bins is the last of n doublings of one.
LEMMA DoubledTable ==
    ASSUME NEW n \in Nat
    PROVE  \E f \in [0..n -> Nat \ {0}] :
              f[0] = 1 /\ (\A k \in 1..n : f[k] = 2 * f[k - 1]) /\ Doubled(n) = f[n]
<1>. DEFINE Defines(f) == f = [k \in 0..n |-> IF k = 0 THEN 1 ELSE 2 * f[k - 1]]
            price == CHOOSE f : Defines(f)
            E == Nat
            G == [k \in 1..n |-> [q \in E |-> 2 * q]]
<1>1. G \in [1..n -> [E -> E]] /\ 1 \in E /\ \A k \in 1..n, q \in E : G[k][q] = 2 * q
  OBVIOUS
<1>. HIDE DEF G
<1>2. PICK f \in [0..n -> E] : f[0] = 1 /\ \A k \in 1..n : f[k] = G[k][f[k - 1]]
  <2>1. n \in Nat /\ 1 \in E /\ G \in [1..n -> [E -> E]]
    BY <1>1
  <2>. HIDE DEF E
  <2>2. \E f \in [0..n -> E] : f[0] = 1 /\ \A k \in 1..n : f[k] = G[k][f[k - 1]]
    BY <2>1, Recursion, SMTT(60)
  <2>. QED  BY <2>2
<1>3. Defines(f)
  <2>1. ASSUME NEW k \in 1..n PROVE f[k] = 2 * f[k - 1]
    <3>1. k - 1 \in 0..n
      OBVIOUS
    <3>2. f[k - 1] \in E
      BY <3>1
    <3>. QED  BY <1>1, <1>2, <3>2
  <2>2. \A k \in 0..n : k # 0 => k \in 1..n
    OBVIOUS
  <2>. QED  BY <1>2, <2>1, <2>2
<1>4. Defines(price)
  BY <1>3
<1>5. Doubled(n) = price[n]
  BY Zenon DEF Doubled
<1>. HIDE DEF price
<1>6. price[0] = 1 /\ \A k \in 1..n : price[k] = 2 * price[k - 1]
  <2>1. \A k \in 0..n : price[k] = IF k = 0 THEN 1 ELSE 2 * price[k - 1]
    BY <1>4
  <2>2. 0 \in 0..n /\ \A k \in 1..n : k \in 0..n /\ k # 0
    OBVIOUS
  <2>. QED  BY <2>1, <2>2
<1>. DEFINE T == {k \in 0..n : price[k] \in Nat \ {0}}
<1>7. \A k \in 0..n : k \in T
  <2>1. 0 \in T
    BY <1>6
  <2>2. ASSUME NEW k \in 1..n, k - 1 \in T PROVE k \in T
    <3>1. k \in 0..n /\ price[k - 1] \in Nat \ {0} /\ price[k] = 2 * price[k - 1]
      BY <1>6, <2>2
    <3>. QED  BY <3>1, SMTT(60)
  <2>. HIDE DEF T
  <2>. QED  BY <2>1, <2>2, Climb
<1>8. price \in [0..n -> Nat \ {0}]
  <2>1. price = [k \in 0..n |-> price[k]]
    BY <1>4
  <2>. HIDE DEF Defines
  <2>. QED  BY <1>7, <2>1
<1>. QED  BY <1>5, <1>6, <1>8

LEMMA DoubledPositive ==
    ASSUME NEW n \in Nat
    PROVE  Doubled(n) \in Nat \ {0}
<1>1. PICK f \in [0..n -> Nat \ {0}] : Doubled(n) = f[n]
  BY DoubledTable
<1>2. n \in 0..n
  OBVIOUS
<1>. QED  BY <1>1, <1>2

LEMMA ValueTyped ==
    ASSUME NEW deployed \in Nat, NEW entry \in Int, NEW bin \in Int
    PROVE  InventoryValue(deployed, entry, bin) \in Nat
<1>1. CASE bin >= entry
  <2>. DEFINE p == Doubled(bin - entry)
              x == deployed * p
  <2>1. p \in Nat
    BY <1>1, DoubledPositive
  <2>2. x \in Nat
    <3>. HIDE DEF p
    <3>. QED  BY <2>1
  <2>3. InventoryValue(deployed, entry, bin) = (deployed + x) \div 2
    BY <1>1 DEF InventoryValue
  <2>. HIDE DEF x
  <2>. QED  BY <2>2, <2>3
<1>2. CASE ~(bin >= entry)
  <2>. DEFINE p == Doubled(entry - bin)
              x == deployed \div p
  <2>1. p \in Nat \ {0}
    BY <1>2, DoubledPositive
  <2>2. x \in Nat
    <3>. HIDE DEF p
    <3>. QED  BY <2>1
  <2>3. InventoryValue(deployed, entry, bin) = (deployed + x) \div 2
    BY <1>2 DEF InventoryValue
  <2>. HIDE DEF x
  <2>. QED  BY <2>2, <2>3
<1>. QED  BY <1>1, <1>2

LEMMA FeeTyped ==
    ASSUME NEW deployed \in Nat, NEW o \in Observation
    PROVE  FeeShare(deployed, o) \in Nat
<1>1. CASE o.amount <= 0 \/ o.liquidity <= 0 \/ deployed <= 0
  BY <1>1 DEF FeeShare
<1>2. CASE ~(o.amount <= 0 \/ o.liquidity <= 0 \/ deployed <= 0)
  <2>. DEFINE a == o.amount * FeeBps
              x == a * deployed
              y == 10000 * (o.liquidity + deployed)
  <2>1. FeeBps \in Nat /\ o.amount \in Nat /\ o.liquidity \in Nat
    BY MoneyAssumption DEF Observation
  <2>2. a \in Nat
    <3>. DEFINE b == o.amount
    <3>1. b \in Nat
      BY <2>1
    <3>. HIDE DEF b
    <3>2. b * FeeBps \in Nat
      BY <2>1, <3>1
    <3>. QED  BY <3>2 DEF b
  <2>3. x \in Nat
    <3>. HIDE DEF a
    <3>. QED  BY <2>2
  <2>4. y \in Nat \ {0}
    BY <1>2, <2>1
  <2>5. FeeShare(deployed, o) = x \div y
    BY <1>2 DEF FeeShare
  <2>. HIDE DEF x, y
  <2>. QED  BY <2>3, <2>4, <2>5
<1>. QED  BY <1>1, <1>2

LEMMA MarkTyped ==
    ASSUME NEW p \in Position, NEW bin \in Int
    PROVE  Mark(p, bin) \in Nat /\ Equity(p, bin) \in Int
<1>1. p.deployed \in Nat /\ p.entry \in Int /\ p.fees \in Nat /\ p.costs \in Nat
  BY DEF Position
<1>2. Mark(p, bin) \in Nat
  BY <1>1, ValueTyped DEF Mark
<1>. QED  BY <1>1, <1>2 DEF Equity

-----------------------------------------------------------------------------
(***************************************************************************)
(* One observation.                                                         *)
(***************************************************************************)
\* The fields of a position that make up its value.
Worth(p) == <<p.deployed, p.entry, p.fees, p.costs>>

LEMMA TrackFacts ==
    ASSUME NEW p \in Position, NEW bin \in Int
    PROVE  /\ Track(p, bin) \in Position /\ Worth(Track(p, bin)) = Worth(p)
           /\ p.peak <= Track(p, bin).peak
           /\ Track(p, bin).inRange = p.inRange /\ Track(p, bin).rebalances = p.rebalances
<1>. DEFINE e    == Equity(p, bin)
            peak == Max({p.peak, e})
            dd   == Max({p.dd, peak - e})
            q    == Track(p, bin)
<1>1. e \in Int /\ p.peak \in Nat /\ p.dd \in Nat /\ p.peak \in Int /\ p.dd \in Int
  BY MarkTyped DEF Position
<1>2. peak \in Nat /\ p.peak <= peak
  <2>. HIDE DEF e
  <2>1. peak \in Int /\ p.peak <= peak
    BY <1>1, MaxOfTwo, Zenon
  <2>. HIDE DEF peak
  <2>. QED  BY <1>1, <2>1
<1>3. dd \in Nat
  <2>. HIDE DEF e, peak
  <2>1. peak - e \in Int
    BY <1>1, <1>2
  <2>2. dd \in Int /\ p.dd <= dd
    BY <1>1, <2>1, MaxOfTwo, Zenon
  <2>. HIDE DEF dd
  <2>. QED  BY <1>1, <2>2
<1>4. q = [p EXCEPT !.peak = peak, !.dd = dd]
  BY DEF Track
<1>. HIDE DEF q, dd, peak
<1>5. /\ q \in Position /\ q.peak = peak /\ q.inRange = p.inRange /\ q.rebalances = p.rebalances
      /\ q.deployed = p.deployed /\ q.entry = p.entry /\ q.fees = p.fees /\ q.costs = p.costs
  BY <1>2, <1>3, <1>4 DEF Position
<1>. QED  BY <1>2, <1>5 DEF q, Worth

LEMMA CollectFacts ==
    ASSUME NEW p \in Position, NEW o \in Observation
    PROVE  LET q == Collect(p, o)
           IN  /\ q \in Position /\ q.peak = p.peak
               /\ q.inRange = p.inRange + 1 /\ q.rebalances = p.rebalances
               /\ q.deployed = p.deployed /\ q.entry = p.entry /\ q.costs = p.costs
<1>. DEFINE f == FeeShare(p.deployed, o)
            q == Collect(p, o)
<1>1. p.deployed \in Nat /\ p.fees \in Nat /\ p.inRange \in Nat
  BY DEF Position
<1>2. f \in Nat
  BY <1>1, FeeTyped
<1>3. q = [p EXCEPT !.inRange = p.inRange + 1, !.fees = p.fees + f]
  BY DEF Collect
<1>. HIDE DEF q, f
<1>4. p.fees + f \in Nat /\ p.inRange + 1 \in Nat
  BY <1>1, <1>2
<1>. QED  BY <1>3, <1>4, ZenonT(60) DEF Position, q

LEMMA RecenterFacts ==
    ASSUME NEW p \in Position, NEW bin \in Int
    PROVE  LET q == Recenter(p, bin)
           IN  /\ q \in Position /\ q.peak = p.peak
               /\ q.inRange = p.inRange /\ q.rebalances = p.rebalances + 1
<1>. DEFINE value == Max({Mark(p, bin), 0})
            cost  == p.costs + (value * SlipBps) \div 10000 + CostFixed
            q     == Recenter(p, bin)
<1>1. p.costs \in Nat /\ p.rebalances \in Nat /\ Mark(p, bin) \in Nat
  BY MarkTyped DEF Position
<1>2. value \in Nat
  <2>1. value \in {Mark(p, bin), 0}
    <3>1. Mark(p, bin) \in Int /\ 0 \in Int
      BY <1>1
    <3>. QED  BY <3>1, MaxOfTwo, Zenon
  <2>. HIDE DEF value
  <2>. QED  BY <1>1, <2>1
<1>3. cost \in Nat
  <2>. DEFINE x == value * SlipBps
  <2>1. SlipBps \in Nat /\ CostFixed \in Nat
    BY MoneyAssumption
  <2>2. x \in Nat
    <3>. HIDE DEF value
    <3>. QED  BY <1>2, <2>1
  <2>. HIDE DEF x
  <2>3. x \div 10000 \in Nat
    BY <2>2
  <2>. DEFINE y == x \div 10000
  <2>4. cost = p.costs + y + CostFixed
    BY DEF x
  <2>. HIDE DEF y, cost
  <2>. QED  BY <1>1, <2>1, <2>3, <2>4 DEF y
<1>4. q = [p EXCEPT !.costs = cost, !.deployed = value, !.entry = bin, !.rebalances = p.rebalances + 1]
  BY DEF Recenter
<1>. HIDE DEF q, cost, value
<1>5. p.rebalances + 1 \in Nat
  BY <1>1
<1>. QED  BY <1>2, <1>3, <1>4, <1>5, ZenonT(60) DEF Position, q

\* An observation leaves typed positions and counts at most once; holding keeps its worth, a
\* static range everything but its fees.
LEMMA ReadFacts ==
    ASSUME NEW mode, NEW p \in Position, NEW o \in Observation
    PROVE  LET q == Read(mode, p, o)
           IN  /\ q \in Position /\ p.peak <= q.peak
               /\ q.inRange + q.rebalances <= p.inRange + p.rebalances + 1
               /\ mode = "hold_inventory" => Worth(q) = Worth(p)
               /\ mode = "static_bin_range" =>
                    q.deployed = p.deployed /\ q.entry = p.entry /\ q.costs = p.costs
<1>. DEFINE r == IF mode = "hold_inventory" THEN p
                 ELSE IF InRange(p, o.bin) THEN Collect(p, o)
                 ELSE IF mode = "centered_bin_rebalance" THEN Recenter(p, o.bin)
                 ELSE p
<1>1. o.bin \in Int /\ p.peak \in Nat /\ p.inRange \in Nat /\ p.rebalances \in Nat
  BY DEF Observation, Position
<1>2. Read(mode, p, o) = Track(r, o.bin)
  BY Zenon DEF Read
<1>3. /\ r \in Position /\ r.peak = p.peak
      /\ r.inRange + r.rebalances <= p.inRange + p.rebalances + 1
      /\ mode = "hold_inventory" => r = p
      /\ mode = "static_bin_range" => r.deployed = p.deployed /\ r.entry = p.entry /\ r.costs = p.costs
  <2>1. CASE mode = "hold_inventory"
    BY <1>1, <2>1
  <2>2. CASE mode # "hold_inventory" /\ InRange(p, o.bin)
    <3>1. r = Collect(p, o)
      BY <2>2
    <3>. HIDE DEF r
    <3>. QED  BY <1>1, <2>2, <3>1, CollectFacts
  <2>3. CASE mode # "hold_inventory" /\ ~InRange(p, o.bin) /\ mode = "centered_bin_rebalance"
    <3>1. r = Recenter(p, o.bin)
      BY <2>3
    <3>2. r \in Position /\ r.peak = p.peak /\ r.inRange = p.inRange /\ r.rebalances = p.rebalances + 1
      <4>. HIDE DEF r
      <4>. QED  BY <1>1, <3>1, RecenterFacts
    <3>. HIDE DEF r
    <3>. QED  BY <1>1, <2>3, <3>2
  <2>4. CASE mode # "hold_inventory" /\ ~InRange(p, o.bin) /\ mode # "centered_bin_rebalance"
    <3>1. r = p
      BY <2>4
    <3>. HIDE DEF r
    <3>. QED  BY <1>1, <2>4, <3>1
  <2>. QED  BY <2>1, <2>2, <2>3, <2>4
<1>. HIDE DEF r
<1>. DEFINE q == Track(r, o.bin)
<1>4. /\ q \in Position /\ Worth(q) = Worth(r) /\ r.peak <= q.peak
      /\ q.inRange = r.inRange /\ q.rebalances = r.rebalances
  BY <1>1, <1>3, TrackFacts
<1>. HIDE DEF q
<1>5. q.deployed = r.deployed /\ q.entry = r.entry /\ q.costs = r.costs
  BY <1>4 DEF Worth
<1>. QED  BY <1>2, <1>3, <1>4, <1>5 DEF q

-----------------------------------------------------------------------------
(***************************************************************************)
(* Rows.                                                                    *)
(***************************************************************************)
\* What a window's row holds, and what the static row says of holding.
WindowRow ==
    {r \in [start : Nat, policy : Modes, pnl : Int, vsHold : Int, fees : Nat, apr : Int \cup {None},
            dd : Nat, rebalances : Nat, ratio : Int \cup {None}] :
        r.policy = "static_bin_range" => r.vsHold = r.fees}

\* Holding and the static range entered together with the capital, and paid nothing since.
EnteredTogether ==
    LET hold == pos["hold_inventory"]
        static == pos["static_bin_range"]
    IN  /\ hold.deployed = Capital /\ static.deployed = Capital
        /\ hold.entry = static.entry
        /\ hold.costs = 0 /\ static.costs = 0 /\ hold.fees = 0

LEMMA StaticEquity ==
    ASSUME pos \in [Modes -> Position], EnteredTogether, NEW bin \in Int
    PROVE  Equity(pos["static_bin_range"], bin)
               = Equity(pos["hold_inventory"], bin) + pos["static_bin_range"].fees
<1>. DEFINE hold == pos["hold_inventory"]
            static == pos["static_bin_range"]
            v == Mark(hold, bin)
<1>1. hold \in Position /\ static \in Position
  BY DEF Modes
<1>2. Mark(static, bin) = v
  BY DEF EnteredTogether, Mark
<1>3. v \in Nat /\ static.fees \in Nat
  <2>1. static.fees \in Nat
    BY <1>1 DEF Position
  <2>. HIDE DEF hold, static
  <2>. QED  BY <1>1, <2>1, MarkTyped
<1>4. hold.costs = 0 /\ static.costs = 0 /\ hold.fees = 0
  BY DEF EnteredTogether
<1>. HIDE DEF v
<1>5. Equity(static, bin) = v + static.fees - 0 /\ Equity(hold, bin) = v + 0 - 0
  BY <1>2, <1>4 DEF Equity, v
<1>. HIDE DEF hold, static
<1>6. Equity(static, bin) = Equity(hold, bin) + static.fees
  BY <1>3, <1>5
<1>. QED  BY <1>6 DEF hold, static

LEMMA AprTyped ==
    ASSUME NEW w \in Seq(Observation), w # <<>>, NEW pnl \in Int
    PROVE  Apr(pnl, w) \in Int \cup {None}
<1>. DEFINE span == w[Len(w)].block - w[1].block
            x == pnl * AprScale
<1>1. Len(w) \in 1..Len(w) /\ 1 \in 1..Len(w)
  OBVIOUS
<1>2. span \in Int
  <2>1. w[Len(w)] \in Observation /\ w[1] \in Observation
    BY <1>1
  <2>2. w[Len(w)].block \in Nat /\ w[1].block \in Nat
    BY <2>1 DEF Observation
  <2>. QED  BY <2>2
<1>3. x \in Int
  BY MoneyAssumption
<1>4. Apr(pnl, w) = IF Len(w) < 2 \/ Capital = 0 \/ span <= 0 THEN None ELSE x \div span
  BY DEF Apr
<1>. HIDE DEF span, x
<1>. QED  BY <1>2, <1>3, <1>4

LEMMA RatioTyped ==
    ASSUME NEW w \in Seq(Observation)
    PROVE  Ratio(w) \in Int \cup {None}
<1>. DEFINE n == Len(w)
            total == Total(Column("liquidity", w))
            x == 100 * Capital * n
<1>1. n \in Nat /\ DOMAIN w = 1..n
  OBVIOUS
<1>2. total \in Int
  <2>. DEFINE field == "liquidity"
  <2>1. \A j \in 1..n : w[j][field] \in Int
    <3>1. TAKE j \in 1..n
    <3>2. w[j] \in Observation
      OBVIOUS
    <3>3. w[j].liquidity \in Nat
      BY <3>2 DEF Observation
    <3>. QED  BY <3>3
  <2>. HIDE DEF field, n
  <2>2. Total(Column(field, w)) \in Int
    BY <1>1, <2>1, ColumnTotal
  <2>. QED  BY <2>2 DEF field
<1>3. x \in Int
  <2>. HIDE DEF n
  <2>1. 100 * Capital \in Int
    BY MoneyAssumption
  <2>. DEFINE y == 100 * Capital
  <2>. HIDE DEF y
  <2>2. y * n \in Int
    BY <1>1, <2>1 DEF y
  <2>. QED  BY <2>2 DEF y
<1>4. Ratio(w) = IF total > 0 THEN x \div total ELSE None
  BY DEF Ratio
<1>. HIDE DEF total, x
<1>. QED  BY <1>2, <1>3, <1>4

LEMMA RowTyped ==
    ASSUME pos \in [Modes -> Position], EnteredTogether, start \in Nat,
           NEW w \in Seq(Observation), w # <<>>, NEW mode \in Modes
    PROVE  Row(mode, w) \in WindowRow
<1>. DEFINE bin == w[Len(w)].bin
            gain(m) == Equity(pos[m], bin) - Capital
            apr == Apr(gain(mode), w)
            ratio == Ratio(w)
            vs == gain(mode) - gain("hold_inventory")
<1>1. bin \in Int
  <2>1. Len(w) \in 1..Len(w)
    OBVIOUS
  <2>2. w[Len(w)] \in Observation
    BY <2>1
  <2>. QED  BY <2>2 DEF Observation
<1>2. Capital \in Nat /\ "hold_inventory" \in Modes
  BY MoneyAssumption DEF Modes
<1>. HIDE DEF bin
<1>3. \A m \in Modes : Equity(pos[m], bin) \in Int
  BY <1>1, MarkTyped
<1>4. \A m \in Modes : gain(m) \in Int
  BY <1>2, <1>3
<1>5. vs \in Int
  BY <1>2, <1>4
<1>6. apr \in Int \cup {None} /\ ratio \in Int \cup {None}
  <2>. HIDE DEF gain
  <2>. QED  BY <1>4, AprTyped, RatioTyped
<1>7. mode = "static_bin_range" => vs = pos[mode].fees
  <2>1. HAVE mode = "static_bin_range"
  <2>2. Equity(pos[mode], bin) = Equity(pos["hold_inventory"], bin) + pos[mode].fees
    BY <1>1, <2>1, StaticEquity
  <2>3. pos[mode].fees \in Nat
    BY DEF Position
  <2>. DEFINE x == Equity(pos["hold_inventory"], bin)
              y == Equity(pos[mode], bin)
              f == pos[mode].fees
  <2>4. x \in Int /\ y \in Int /\ f \in Nat /\ y = x + f /\ vs = (y - Capital) - (x - Capital)
    BY <1>2, <1>3, <2>2, <2>3
  <2>. HIDE DEF x, y, vs
  <2>5. vs = f
    <3>. HIDE DEF f
    <3>. QED  BY <1>2, <2>4
  <2>. QED  BY <2>5
<1>8. \A m : Pnl(m, w) = gain(m)
  BY DEF Pnl, bin
<1>9. Row(mode, w) = [start |-> start, policy |-> mode, pnl |-> gain(mode), vsHold |-> vs,
                      fees |-> pos[mode].fees, apr |-> apr, dd |-> pos[mode].dd,
                      rebalances |-> pos[mode].rebalances, ratio |-> ratio]
  BY <1>8 DEF Row
<1>10. pos[mode].fees \in Nat /\ pos[mode].dd \in Nat /\ pos[mode].rebalances \in Nat
  BY DEF Position
<1>. DEFINE g == gain(mode)
<1>11. g \in Int /\ Row(mode, w) = [start |-> start, policy |-> mode, pnl |-> g, vsHold |-> vs,
                      fees |-> pos[mode].fees, apr |-> apr, dd |-> pos[mode].dd,
                      rebalances |-> pos[mode].rebalances, ratio |-> ratio]
  BY <1>4, <1>9
<1>. HIDE DEF g, vs, apr, ratio
<1>. QED  BY <1>5, <1>6, <1>7, <1>10, <1>11 DEF WindowRow

\* The rows of a mode are rows of the report.
LEMMA OfFacts ==
    ASSUME NEW rs \in Seq(WindowRow), NEW mode
    PROVE  Of(mode, rs) \in Seq(WindowRow)
<1>. DEFINE I == {j \in DOMAIN rs : rs[j].policy = mode}
<1>1. Of(mode, rs) = Pick(rs, I)
  BY Zenon DEF Of
<1>. HIDE DEF I
<1>. QED  BY <1>1, PickFacts

-----------------------------------------------------------------------------
(***************************************************************************)
(* The inductive invariant.                                                 *)
(***************************************************************************)
Judged ==
    [m \in Modes |-> LET s == Summary(Of(m, rows))
                     IN  [stats |-> s, reasons |-> FailReasons(s, Of(m, rows))]]

\* What the commands have read and where they are; once a window is open it is not empty and
\* lies within the file.
Reading ==
    /\ stream \in Seq(Observation) /\ job \in Jobs
    /\ pc \in {"start", "open", "observe", "done", "failed"}
    /\ start \in Nat /\ i \in 0..Len(stream)
    /\ pc \in {"open", "observe"} => Size > 0
    /\ pc = "observe" => start + Size <= Len(stream) /\ i <= Size

\* The positions: typed, never above their peak, at most one count for every observation.
Holding ==
    /\ pos \in [Modes -> Position]
    /\ \A m \in Modes : pos[m].peak >= Capital /\ pos[m].inRange + pos[m].rebalances <= i
    /\ EnteredTogether

\* The rows, and the table that judges them.
Reporting ==
    /\ rows \in Seq(WindowRow)
    /\ table = <<>> \/ table = Judged
    /\ pc # "done" => table = <<>>

Inv == Reading /\ Holding /\ Reporting

LEMMA SizeTyped ==
    ASSUME stream \in Seq(Observation), job \in Jobs
    PROVE  Size \in Nat /\ job.step \in Nat /\ job.command \in {"bins", "windows"}
BY JobAssumption DEF Size

LEMMA OpenedFacts ==
    ASSUME NEW bin \in Int
    PROVE  [m \in Modes |-> Opened(bin)] \in [Modes -> Position]
BY MoneyAssumption DEF Opened, Position

LEMMA InitInv == Init => Inv
<1>. SUFFICES ASSUME Init PROVE Inv
  OBVIOUS
<1>1. stream \in Seq(Observation) /\ job \in Jobs
  <2>1. PICK s \in Streams : stream = Loaded(s)
    BY DEF Init
  <2>2. s \in Seq(Observation)
    BY StreamAssumption
  <2>. QED  BY <2>1, <2>2, LoadedTyped DEF Init
<1>2. pc = "start" /\ start = 0 /\ i = 0 /\ rows = <<>> /\ table = <<>> /\ pos = [m \in Modes |-> Opened(0)]
  BY DEF Init
<1>3. Reading
  <2>1. 0 \in 0..Len(stream)
    BY <1>1
  <2>. QED  BY <1>1, <1>2, <2>1 DEF Reading
<1>4. Holding
  <2>1. pos \in [Modes -> Position]
    BY <1>2, OpenedFacts
  <2>2. \A m \in Modes : pos[m] = Opened(0)
    BY <1>2
  <2>3. Capital \in Nat
    BY MoneyAssumption
  <2>4. \A m \in Modes : pos[m].peak >= Capital /\ pos[m].inRange + pos[m].rebalances <= i
    BY <1>2, <2>2, <2>3 DEF Opened
  <2>5. EnteredTogether
    BY <2>2 DEF EnteredTogether, Opened, Modes
  <2>. QED  BY <2>1, <2>4, <2>5 DEF Holding
<1>5. Reporting
  BY <1>2 DEF Reporting
<1>. QED  BY <1>3, <1>4, <1>5 DEF Inv

LEMMA BeginStep == ASSUME Inv, Begin PROVE Inv'
<1>1. UNCHANGED <<stream, job, start, i, pos, rows, table>> /\ pc = "start"
      /\ pc' = IF Refused THEN "failed" ELSE "open"
  BY DEF Begin
<1>2. pc' = "open" => Size > 0
  <2>1. HAVE pc' = "open"
  <2>2. ~Refused /\ stream \in Seq(Observation) /\ job \in Jobs
    BY <1>1, <2>1 DEF Inv, Reading
  <2>3. job.command = "windows" => job.size # 0
    BY <2>2 DEF Refused
  <2>4. job.command = "bins" => Len(stream) # 0
    BY <2>2 DEF Refused
  <2>. QED  BY <2>2, <2>3, <2>4, SizeTyped DEF Size
<1>3. Reading'
  <2>1. Size' = Size
    BY <1>1 DEF Size
  <2>. QED  BY <1>1, <1>2, <2>1 DEF Inv, Reading
<1>4. Holding'
  BY <1>1 DEF Inv, Holding, EnteredTogether
<1>5. Reporting'
  <2>1. table = <<>>
    BY <1>1 DEF Inv, Reporting
  <2>. QED  BY <1>1, <2>1 DEF Inv, Reporting
<1>. QED  BY <1>3, <1>4, <1>5 DEF Inv

LEMMA OpenStep == ASSUME Inv, OpenWindow PROVE Inv'
<1>1. /\ UNCHANGED <<stream, job, start, rows, table>> /\ pc = "open" /\ start + Size <= Len(stream)
      /\ pc' = "observe" /\ i' = 0 /\ pos' = [m \in Modes |-> Opened(stream[start + 1].bin)]
  BY DEF OpenWindow
<1>2. /\ stream \in Seq(Observation) /\ job \in Jobs /\ start \in Nat /\ Size > 0 /\ Size \in Nat
  BY <1>1, SizeTyped DEF Inv, Reading
<1>3. Reading'
  <2>1. Size' = Size
    BY <1>1 DEF Size
  <2>2. 0 \in 0..Len(stream) /\ 0 <= Size
    BY <1>2
  <2>. QED  BY <1>1, <1>2, <2>1, <2>2 DEF Reading
<1>4. Holding'
  <2>. DEFINE bin == stream[start + 1].bin
  <2>1. bin \in Int
    <3>1. start + 1 \in 1..Len(stream)
      BY <1>1, <1>2
    <3>2. stream[start + 1] \in Observation
      BY <1>2, <3>1
    <3>. QED  BY <3>2 DEF Observation
  <2>. HIDE DEF bin
  <2>2. pos' \in [Modes -> Position]
    BY <1>1, <2>1, OpenedFacts DEF bin
  <2>3. \A m \in Modes : pos'[m] = Opened(bin)
    BY <1>1 DEF bin
  <2>4. Capital \in Nat
    BY MoneyAssumption
  <2>5. \A m \in Modes : pos'[m].peak >= Capital /\ pos'[m].inRange + pos'[m].rebalances <= i'
    BY <1>1, <2>3, <2>4 DEF Opened
  <2>6. EnteredTogether'
    BY <2>3 DEF EnteredTogether, Opened, Modes
  <2>. QED  BY <2>2, <2>5, <2>6 DEF Holding
<1>5. Reporting'
  BY <1>1 DEF Inv, Reporting
<1>. QED  BY <1>3, <1>4, <1>5 DEF Inv

LEMMA ObserveStep == ASSUME Inv, Observe PROVE Inv'
<1>1. /\ UNCHANGED <<stream, job, pc, start, rows, table>> /\ pc = "observe" /\ i < Size
      /\ i' = i + 1 /\ pos' = [m \in Modes |-> Read(m, pos[m], Obs)]
  BY DEF Observe
<1>2. /\ stream \in Seq(Observation) /\ job \in Jobs /\ start \in Nat /\ Size > 0 /\ Size \in Nat
      /\ i \in 0..Len(stream) /\ start + Size <= Len(stream) /\ Len(stream) \in Nat
  BY <1>1, SizeTyped DEF Inv, Reading
<1>3. Reading'
  <2>1. Size' = Size
    BY <1>1 DEF Size
  <2>2. i + 1 \in 0..Len(stream) /\ i + 1 <= Size
    BY <1>1, <1>2
  <2>. QED  BY <1>1, <1>2, <2>1, <2>2 DEF Inv, Reading
<1>4. Holding'
  <2>1. Obs \in Observation
    <3>1. start + i + 1 \in 1..Len(stream)
      BY <1>1, <1>2
    <3>. QED  BY <1>2, <3>1 DEF Obs
  <2>2. \A m \in Modes : /\ pos[m] \in Position /\ pos[m].peak >= Capital
                         /\ pos[m].inRange + pos[m].rebalances <= i
    BY DEF Inv, Holding
  <2>3. \A m \in Modes : pos'[m] = Read(m, pos[m], Obs)
    BY <1>1
  <2>4. \A m \in Modes : /\ pos'[m] \in Position /\ pos[m].peak <= pos'[m].peak
                         /\ pos'[m].inRange + pos'[m].rebalances <= pos[m].inRange + pos[m].rebalances + 1
    BY <2>1, <2>2, <2>3, ReadFacts
  <2>5. pos' \in [Modes -> Position]
    BY <1>1, <2>3, <2>4
  <2>6. \A m \in Modes : pos'[m].peak >= Capital /\ pos'[m].inRange + pos'[m].rebalances <= i'
    <3>1. TAKE m \in Modes
    <3>. DEFINE a == pos[m].peak
                b == pos'[m].peak
                x == pos[m].inRange + pos[m].rebalances
                y == pos'[m].inRange + pos'[m].rebalances
    <3>2. a \in Int /\ b \in Int /\ x \in Int /\ y \in Int /\ Capital \in Int /\ i \in Int
      <4>1. pos[m] \in Position /\ pos'[m] \in Position
        BY <2>2, <2>4
      <4>2. a \in Nat /\ pos[m].inRange \in Nat /\ pos[m].rebalances \in Nat
        BY <4>1 DEF Position
      <4>3. b \in Nat /\ pos'[m].inRange \in Nat /\ pos'[m].rebalances \in Nat
        BY <4>1 DEF Position
      <4>4. x \in Int
        BY <4>2
      <4>5. y \in Int
        BY <4>3
      <4>6. Capital \in Int /\ i \in Int
        BY <1>2, MoneyAssumption
      <4>. QED  BY <4>2, <4>3, <4>4, <4>5, <4>6
    <3>3. a >= Capital /\ a <= b /\ x <= i /\ y <= x + 1
      BY <2>2, <2>4
    <3>. HIDE DEF a, b, x, y
    <3>4. b >= Capital /\ y <= i'
      BY <1>1, <3>2, <3>3
    <3>. QED  BY <3>4 DEF b, y
  <2>7. EnteredTogether'
    <3>. DEFINE h == pos["hold_inventory"]
                s == pos["static_bin_range"]
                hh == pos'["hold_inventory"]
                ss == pos'["static_bin_range"]
    <3>1. "hold_inventory" \in Modes /\ "static_bin_range" \in Modes
      BY DEF Modes
    <3>2. Worth(hh) = Worth(h)
      BY <2>1, <2>2, <2>3, <3>1, ReadFacts
    <3>3. ss.deployed = s.deployed /\ ss.entry = s.entry /\ ss.costs = s.costs
      BY <2>1, <2>2, <2>3, <3>1, ReadFacts
    <3>4. hh.deployed = h.deployed /\ hh.entry = h.entry /\ hh.costs = h.costs /\ hh.fees = h.fees
      BY <3>2 DEF Worth
    <3>. QED  BY <3>3, <3>4 DEF Inv, Holding, EnteredTogether
  <2>. QED  BY <2>5, <2>6, <2>7 DEF Holding
<1>5. Reporting'
  BY <1>1 DEF Inv, Reporting
<1>. QED  BY <1>3, <1>4, <1>5 DEF Inv

LEMMA CloseStep == ASSUME Inv, CloseWindow PROVE Inv'
<1>. DEFINE w == SubSeq(stream, start + 1, start + Size)
<1>1. /\ UNCHANGED <<stream, job, i, pos, table>> /\ pc = "observe" /\ i = Size
      /\ rows' = rows \o <<Row("hold_inventory", w), Row("static_bin_range", w),
                           Row("centered_bin_rebalance", w)>>
      /\ \/ job.command = "bins" /\ pc' = "done" /\ start' = start
         \/ job.command # "bins" /\ pc' = "open" /\ start' = start + job.step
  BY DEF CloseWindow
<1>2. /\ stream \in Seq(Observation) /\ job \in Jobs /\ start \in Nat /\ Size > 0 /\ Size \in Nat
      /\ i \in 0..Len(stream) /\ start + Size <= Len(stream) /\ Len(stream) \in Nat /\ job.step \in Nat
  BY <1>1, SizeTyped DEF Inv, Reading
<1>3. Reading'
  <2>1. Size' = Size
    BY <1>1 DEF Size
  <2>2. start' \in Nat /\ pc' \in {"open", "done"}
    BY <1>1, <1>2, SMTT(60)
  <2>. QED  BY <1>1, <1>2, <2>1, <2>2 DEF Reading
<1>4. Holding'
  BY <1>1 DEF Inv, Holding, EnteredTogether
<1>5. Reporting'
  <2>1. w \in Seq(Observation) /\ w # <<>>
    <3>1. \A j \in start + 1..start + Size : stream[j] \in Observation
      BY <1>2
    <3>2. start + 1 \in Int /\ start + Size \in Int /\ start + 1 <= start + Size
      BY <1>2
    <3>3. w \in Seq(Observation) /\ Len(w) = (start + Size) - (start + 1) + 1
      BY <3>1, <3>2, SubSeqProperties
    <3>4. Len(w) > 0
      BY <1>2, <3>3
    <3>. HIDE DEF w
    <3>. QED  BY <3>3, <3>4
  <2>. HIDE DEF w
  <2>2. \A m \in Modes : Row(m, w) \in WindowRow
    BY <1>2, <2>1, RowTyped DEF Inv, Holding
  <2>3. rows \in Seq(WindowRow) /\ table = <<>>
    BY <1>1 DEF Inv, Reporting
  <2>. DEFINE a == Row("hold_inventory", w)
              b == Row("static_bin_range", w)
              d == Row("centered_bin_rebalance", w)
  <2>4. a \in WindowRow /\ b \in WindowRow /\ d \in WindowRow
    BY <2>2 DEF Modes
  <2>. HIDE DEF a, b, d, WindowRow
  <2>5. <<a, b, d>> \in Seq(WindowRow)
    BY <2>4
  <2>6. rows' \in Seq(WindowRow)
    BY <1>1, <2>3, <2>5 DEF a, b, d
  <2>. QED  BY <1>1, <2>3, <2>6 DEF Reporting
<1>. QED  BY <1>3, <1>4, <1>5 DEF Inv

LEMMA SummarizeStep == ASSUME Inv, Summarize PROVE Inv'
<1>1. /\ UNCHANGED <<stream, job, start, i, pos, rows>> /\ pc = "open"
      /\ \/ pc' = "failed" /\ table' = table
         \/ pc' = "done" /\ table' = Judged
  BY Zenon DEF Summarize, Judged
<1>2. Reading'
  BY <1>1 DEF Inv, Reading
<1>3. Holding'
  BY <1>1 DEF Inv, Holding, EnteredTogether
<1>4. Reporting'
  <2>1. Judged' = Judged
    BY <1>1 DEF Judged
  <2>2. table = <<>> /\ rows \in Seq(WindowRow)
    BY <1>1 DEF Inv, Reporting
  <2>. QED  BY <1>1, <2>1, <2>2 DEF Reporting
<1>. QED  BY <1>2, <1>3, <1>4 DEF Inv

LEMMA InvHolds == Spec => []Inv
<1>1. ASSUME Inv, [Next]_vars PROVE Inv'
  <2>1. CASE UNCHANGED vars
    BY <1>1, <2>1 DEF Inv, vars, Reading, Holding, Reporting, Size, EnteredTogether, Judged
  <2>. QED  BY <1>1, <2>1, BeginStep, OpenStep, ObserveStep, CloseStep, SummarizeStep DEF Next
<1>. QED  BY <1>1, InitInv, PTL DEF Spec

-----------------------------------------------------------------------------
(***************************************************************************)
(* The theorems.                                                            *)
(***************************************************************************)
LEMMA ReasonsTyped ==
    ASSUME NEW s, NEW rs
    PROVE  FailReasons(s, rs) \in SUBSET GateChecks
BY Zenon DEF FailReasons

\* Typing, with the peaks above the capital and every observation counted at most once.
THEOREM DlmmTypes == Spec => []TypeOK
<1>1. ASSUME Inv PROVE TypeOK
  <2>1. rows \in Seq(WindowRow)
    BY <1>1 DEF Inv, Reporting
  <2>2. ASSUME NEW m PROVE Summary(Of(m, rows)) \in Stats
    <3>. DEFINE rs == Of(m, rows)
    <3>1. rs \in Seq(WindowRow)
      BY <2>1, OfFacts
    <3>. HIDE DEF rs
    <3>2. Len(rs) \in Nat /\ DOMAIN rs = 1..Len(rs) /\ \A j \in 1..Len(rs) : rs[j] \in WindowRow
      BY <3>1
    <3>3. \A j \in 1..Len(rs) : /\ rs[j].apr \in Int \cup {None} /\ rs[j].dd \in Int
                               /\ rs[j].pnl \in Int /\ rs[j].vsHold \in Int /\ rs[j].rebalances \in Nat
      BY <3>2 DEF WindowRow
    <3>4. Summary(rs) \in Stats
      BY <3>2, <3>3, SummaryTyped, NoneAssumption
    <3>. QED  BY <3>4 DEF rs
  <2>3. Judged \in [Modes -> [stats : Stats, reasons : SUBSET GateChecks]]
    <3>1. ASSUME NEW m \in Modes
          PROVE  [stats |-> Summary(Of(m, rows)), reasons |-> FailReasons(Summary(Of(m, rows)), Of(m, rows))]
                     \in [stats : Stats, reasons : SUBSET GateChecks]
      BY <2>2, ReasonsTyped
    <3>. QED  BY <3>1 DEF Judged
  <2>4. table \in {<<>>} \cup [Modes -> [stats : Stats, reasons : SUBSET GateChecks]]
    BY <1>1, <2>3 DEF Inv, Reporting
  <2>. QED  BY <1>1, <2>4 DEF Inv, Reading, Holding, TypeOK
<1>. QED  BY <1>1, InvHolds, PTL

\* At every observation and in every row a static range is the held inventory plus its fees.
THEOREM StaticNeverTrails == Spec => []StaticIsHoldPlusFees
<1>1. ASSUME Inv PROVE StaticIsHoldPlusFees
  <2>1. ASSUME pc = "observe", i > 0
        PROVE  Equity(pos["static_bin_range"], CurrentBin)
                   = Equity(pos["hold_inventory"], CurrentBin) + pos["static_bin_range"].fees
    <3>1. /\ stream \in Seq(Observation) /\ start \in Nat /\ i \in 0..Len(stream)
          /\ start + Size <= Len(stream) /\ i <= Size /\ Size \in Nat
      BY <1>1, <2>1, SizeTyped DEF Inv, Reading
    <3>2. start + i \in 1..Len(stream)
      BY <2>1, <3>1
    <3>3. stream[start + i] \in Observation
      BY <3>1, <3>2
    <3>4. CurrentBin \in Int
      BY <3>3 DEF CurrentBin, Observation
    <3>. QED  BY <1>1, <3>4, StaticEquity DEF Inv, Holding
  <2>2. ASSUME NEW j \in DOMAIN rows, rows[j].policy = "static_bin_range"
        PROVE  rows[j].vsHold = rows[j].fees /\ rows[j].vsHold >= 0
    <3>1. rows[j] \in WindowRow
      BY <1>1 DEF Inv, Reporting
    <3>. QED  BY <2>2, <3>1 DEF WindowRow
  <2>. QED  BY <2>1, <2>2 DEF StaticIsHoldPlusFees
<1>. QED  BY <1>1, InvHolds, PTL

LEMMA MeanCapacity ==
    ASSUME NEW rs \in Seq(WindowRow), ~OverCapacity(rs)
    PROVE  \E j \in DOMAIN rs : rs[j].ratio # None /\ rs[j].ratio <= MaxRatioPct
<1>. DEFINE I == {j \in DOMAIN rs : rs[j].ratio # None}
            q == Rated(rs)
<1>1. q = Pick(rs, I)
  BY Zenon DEF Rated
<1>2. \A j \in DOMAIN rs : j \in I <=> rs[j].ratio # None
  OBVIOUS
<1>3. q # <<>> /\ ~(Total(Column("ratio", q)) > MaxRatioPct * Len(q))
  BY DEF OverCapacity
<1>. HIDE DEF I, q
<1>4. q \in Seq(WindowRow) /\ \A k \in DOMAIN q : \E j \in I \cap DOMAIN rs : q[k] = rs[j]
  BY <1>1, PickFacts
<1>. DEFINE n == Len(q)
            field == "ratio"
            col == Column(field, q)
<1>5. n \in Nat /\ DOMAIN q = 1..n /\ n > 0
  BY <1>3, <1>4
<1>6. \A k \in 1..n : q[k][field] \in Int
  <2>1. TAKE k \in 1..n
  <2>2. PICK j \in I \cap DOMAIN rs : q[k] = rs[j]
    BY <1>4, <1>5
  <2>3. q[k] \in WindowRow /\ q[k].ratio # None
    BY <1>2, <1>4, <1>5, <2>2
  <2>. QED  BY <2>3 DEF WindowRow
<1>7. \A k : q[k][field] = q[k].ratio
  OBVIOUS
<1>8. ~(Total(col) > MaxRatioPct * n)
  BY <1>3
<1>9. MaxRatioPct \in Int
  BY GateAssumption
<1>. HIDE DEF n, field
<1>10. col \in [1..n -> Int] /\ Len(col) = n /\ Total(col) \in Int /\ \A j \in 1..n : col[j] = q[j][field]
  BY <1>5, <1>6, ColumnTotal
<1>. HIDE DEF col
<1>11. PICK k \in 1..n : col[k] <= MaxRatioPct
  <2>1. MaxRatioPct * n \in Int
    BY <1>5, <1>9
  <2>. DEFINE x == MaxRatioPct * n
  <2>2. Total(col) <= x
    <3>. HIDE DEF x
    <3>. QED  BY <1>8, <1>10, <2>1 DEF x
  <2>. QED  BY <1>5, <1>9, <1>10, <2>2, SomeBelow
<1>12. PICK j \in I \cap DOMAIN rs : q[k] = rs[j]
  BY <1>4, <1>5
<1>. QED  BY <1>2, <1>7, <1>10, <1>11, <1>12, SMTT(60)

\* A mode that passes the gate was within capacity in some window, and in none of its windows
\* did it lose more, or (with up to twenty) earn less, than the gate allows.
THEOREM GatePassesSafe == Spec => []PassedIsSafe
<1>1. ASSUME Inv PROVE PassedIsSafe
  <2>1. SUFFICES ASSUME table # <<>>, NEW m \in Modes, table[m].reasons = {}
                 PROVE  LET rs == Of(m, rows) IN
                        /\ \E j \in DOMAIN rs : rs[j].ratio # None /\ rs[j].ratio <= MaxRatioPct
                        /\ \A j \in DOMAIN rs : /\ rs[j].dd <= MaxDrawdown
                                                /\ Len(rs) <= 20 => rs[j].apr = None \/ rs[j].apr >= MinP05
    BY DEF PassedIsSafe
  <2>. DEFINE rs == Of(m, rows)
              s  == Summary(rs)
  <2>2. rows \in Seq(WindowRow) /\ table = Judged
    BY <1>1, <2>1 DEF Inv, Reporting
  <2>3. FailReasons(s, rs) = {}
    BY <2>1, <2>2 DEF Judged
  <2>4. rs \in Seq(WindowRow)
    BY <2>2, OfFacts
  <2>. HIDE DEF rs, s
  <2>5. s.p05 # None /\ ~(s.p05 < MinP05) /\ ~(s.dd > MaxDrawdown) /\ ~OverCapacity(rs)
    BY <2>3 DEF FailReasons, GateChecks
  <2>6. Len(rs) \in Nat /\ DOMAIN rs = 1..Len(rs) /\ \A j \in 1..Len(rs) : rs[j] \in WindowRow
    BY <2>4
  <2>7. \A j \in 1..Len(rs) : rs[j].apr \in Int \cup {None} /\ rs[j].dd \in Int
    BY <2>6 DEF WindowRow
  <2>8. /\ s.dd \in Nat /\ \A j \in 1..Len(rs) : rs[j].dd <= s.dd
        /\ s.p05 \in Int \cup {None}
        /\ Len(rs) <= 20 => \A j \in 1..Len(rs) : rs[j].apr # None => s.p05 <= rs[j].apr
    BY <2>6, <2>7, SummaryFacts, NoneAssumption, SMTT(60) DEF s
  <2>9. MinP05 \in Int /\ MaxDrawdown \in Int
    BY GateAssumption
  <2>10. \A j \in DOMAIN rs : rs[j].dd <= MaxDrawdown
    BY <2>5, <2>6, <2>7, <2>8, <2>9, SMTT(60)
  <2>11. Len(rs) <= 20 => \A j \in DOMAIN rs : rs[j].apr = None \/ rs[j].apr >= MinP05
    BY <2>5, <2>6, <2>7, <2>8, <2>9, SMTT(60)
  <2>12. \E j \in DOMAIN rs : rs[j].ratio # None /\ rs[j].ratio <= MaxRatioPct
    BY <2>4, <2>5, MeanCapacity
  <2>. QED  BY <2>10, <2>11, <2>12 DEF rs
<1>. QED  BY <1>1, InvHolds, PTL

-----------------------------------------------------------------------------
(***************************************************************************)
(* The round trip: powers of two.                                           *)
(***************************************************************************)
LEMMA DoubledSteps ==
    /\ Doubled(0) = 1
    /\ \A n \in Nat : Doubled(n + 1) = 2 * Doubled(n)
<1>1. Doubled(0) = 1
  BY DoubledTable
<1>2. ASSUME NEW n \in Nat PROVE Doubled(n + 1) = 2 * Doubled(n)
  <2>1. PICK f \in [0..n -> Nat \ {0}] :
            f[0] = 1 /\ (\A k \in 1..n : f[k] = 2 * f[k - 1]) /\ Doubled(n) = f[n]
    BY DoubledTable
  <2>2. PICK g \in [0..n + 1 -> Nat \ {0}] :
            g[0] = 1 /\ (\A k \in 1..n + 1 : g[k] = 2 * g[k - 1]) /\ Doubled(n + 1) = g[n + 1]
    <3>1. n + 1 \in Nat
      OBVIOUS
    <3>. QED  BY <3>1, DoubledTable
  <2>. DEFINE T == {k \in 0..n : f[k] = g[k]}
  <2>3. \A k \in 0..n : k \in T
    <3>1. 0 \in T
      BY <2>1, <2>2
    <3>2. ASSUME NEW k \in 1..n, k - 1 \in T PROVE k \in T
      <4>1. k \in 0..n /\ k \in 1..n + 1 /\ f[k - 1] = g[k - 1]
        BY <3>2
      <4>. QED  BY <2>1, <2>2, <4>1
    <3>. HIDE DEF T
    <3>. QED  BY <3>1, <3>2, Climb
  <2>4. g[n] = f[n] /\ n + 1 \in 1..n + 1 /\ (n + 1) - 1 = n
    BY <2>3
  <2>. QED  BY <2>1, <2>2, <2>4
<1>. QED  BY <1>1, <1>2

LEMMA DoubledSum ==
    ASSUME NEW a \in Nat, NEW b \in Nat
    PROVE  Doubled(a + b) = Doubled(a) * Doubled(b)
<1>. DEFINE T == {k \in 0..b : Doubled(a + k) = Doubled(a) * Doubled(k)}
<1>1. 0 \in T
  <2>1. Doubled(a) * 1 = Doubled(a) /\ a + 0 = a
    BY DoubledPositive
  <2>. QED  BY <2>1, DoubledSteps
<1>2. ASSUME NEW k \in 1..b, k - 1 \in T PROVE k \in T
  <2>. DEFINE x == Doubled(a)
              y == Doubled(k - 1)
  <2>1. x \in Nat /\ y \in Nat
    BY DoubledPositive
  <2>2. Doubled(a + (k - 1)) = x * y
    BY <1>2
  <2>3. Doubled(k) = 2 * y
    <3>1. k - 1 \in Nat /\ (k - 1) + 1 = k
      OBVIOUS
    <3>. QED  BY <3>1, DoubledSteps
  <2>4. Doubled(a + k) = 2 * Doubled(a + (k - 1))
    <3>1. a + (k - 1) \in Nat /\ (a + (k - 1)) + 1 = a + k
      OBVIOUS
    <3>. QED  BY <3>1, DoubledSteps
  <2>5. Doubled(a + k) = 2 * (x * y) /\ Doubled(k) = 2 * y
    BY <2>2, <2>3, <2>4
  <2>. HIDE DEF x, y
  <2>6. 2 * (x * y) = x * (2 * y)
    BY <2>1
  <2>7. Doubled(a + k) = x * Doubled(k)
    BY <2>5, <2>6
  <2>. QED  BY <2>7 DEF x
<1>. HIDE DEF T
<1>3. b \in T
  BY <1>1, <1>2, Climb
<1>. QED  BY <1>3 DEF T

LEMMA ProductGrows ==
    ASSUME NEW a \in Nat, NEW x \in Nat, NEW y \in Nat, x <= y
    PROVE  a * x <= a * y
OBVIOUS

LEMMA ProductCancels ==
    ASSUME NEW a \in Nat \ {0}, NEW x \in Nat, NEW y \in Nat, a * x <= a * y
    PROVE  x <= y
OBVIOUS

\* The mean of a value and its price-scaled self is at least their geometric mean.
LEMMA MeanOfTwo ==
    ASSUME NEW d \in Nat, NEW x \in Nat, NEW v \in Nat, 2 * v = d * (1 + x)
    PROVE  (d * d) * x <= v * v
<1>. DEFINE y == (1 + x) * (1 + x)
            q == d * d
            w == v * v
<1>1. 4 * x <= y
  <2>1. 0 <= (x - 1) * (x - 1)
    OBVIOUS
  <2>2. y = (x - 1) * (x - 1) + 4 * x
    OBVIOUS
  <2>. QED  BY <2>1, <2>2
<1>2. 4 * w = (2 * v) * (2 * v)
  OBVIOUS
<1>3. (d * (1 + x)) * (d * (1 + x)) = q * y
  OBVIOUS
<1>4. y \in Nat /\ q \in Nat /\ w \in Nat /\ 4 * x \in Nat
  OBVIOUS
<1>5. 4 * w = q * y
  BY <1>2, <1>3
<1>. HIDE DEF y, q, w
<1>6. q * (4 * x) <= 4 * w
  BY <1>1, <1>4, <1>5, ProductGrows
<1>7. q * (4 * x) = 4 * (q * x) /\ q * x \in Nat
  BY <1>4
<1>8. q * x <= w
  <2>. DEFINE u == q * x
  <2>1. u \in Nat /\ 4 * u <= 4 * w
    BY <1>6, <1>7
  <2>. HIDE DEF u
  <2>2. u <= w
    BY <1>4, <2>1
  <2>. QED  BY <2>2 DEF u
<1>. QED  BY <1>8 DEF q, w

-----------------------------------------------------------------------------
(***************************************************************************)
(* The round trip: one recentring.                                          *)
(***************************************************************************)
\* A value that f halvings divide.
Halves(d, f) == \E m \in Nat : d = Doubled(f) * m

\* Where the halvings leave no rest, the value is the mean of the two tokens.
LEMMA ValueMean ==
    ASSUME NEW d \in Nat, NEW e \in Int, NEW b \in Int, NEW f \in Nat, NEW g \in Nat,
           Halves(d, f), g + 1 <= f, g + 1 + (e - b) <= f
    PROVE  LET v == InventoryValue(d, e, b)
           IN  /\ v \in Nat /\ Halves(v, g)
               /\ b >= e => 2 * v = d * (1 + Doubled(b - e))
               /\ b < e  => 2 * (Doubled(e - b) * v) = d * (1 + Doubled(e - b))
<1>. DEFINE v == InventoryValue(d, e, b)
<1>1. PICK m \in Nat : d = Doubled(f) * m
  BY DEF Halves
<1>2. v \in Nat
  BY ValueTyped
<1>3. CASE b >= e
  <2>. DEFINE x == Doubled(b - e)
              r == f - 1 - g
              y == Doubled(g)
              z == Doubled(r)
              u == z * m
              t == u * (1 + x)
  <2>1. r \in Nat /\ b - e \in Nat /\ g + r \in Nat /\ (g + r) + 1 = f
    BY <1>3
  <2>2. x \in Nat /\ y \in Nat /\ z \in Nat
    BY <2>1, DoubledPositive
  <2>3. Doubled(f) = 2 * (y * z)
    BY <2>1, DoubledSum, DoubledSteps
  <2>4. v = (d + d * x) \div 2
    BY <1>3 DEF InventoryValue
  <2>. HIDE DEF x, y, z, v
  <2>5. u \in Nat /\ t \in Nat
    BY <2>2
  <2>6. d = 2 * (y * u)
    BY <1>1, <2>2, <2>3
  <2>7. d + d * x = d * (1 + x)
    BY <2>2
  <2>. HIDE DEF u
  <2>8. d * (1 + x) = 2 * (y * t) /\ y * t \in Nat
    BY <2>2, <2>5, <2>6
  <2>. HIDE DEF t
  <2>9. v = y * t
    <3>. DEFINE w == y * t
    <3>1. v = (2 * w) \div 2 /\ w \in Nat
      BY <2>4, <2>7, <2>8
    <3>. HIDE DEF w
    <3>. QED  BY <3>1 DEF w
  <2>10. Halves(v, g)
    BY <2>5, <2>9 DEF Halves, y
  <2>11. 2 * v = d * (1 + x)
    BY <2>8, <2>9
  <2>. QED  BY <1>2, <1>3, <2>10, <2>11 DEF v, x
<1>4. CASE b < e
  <2>. DEFINE n == e - b
              x == Doubled(n)
              r == f - 1 - n - g
              y == Doubled(g)
              z == Doubled(r)
              u == z * m
              t == u * (1 + x)
  <2>1. r \in Nat /\ n \in Nat /\ g + r \in Nat /\ n + (g + r) \in Nat /\ (n + (g + r)) + 1 = f
    BY <1>4
  <2>2. x \in Nat \ {0} /\ y \in Nat /\ z \in Nat
    BY <2>1, DoubledPositive
  <2>3. Doubled(f) = 2 * (x * (y * z))
    BY <2>1, DoubledSum, DoubledSteps
  <2>4. v = (d + d \div x) \div 2
    BY <1>4 DEF InventoryValue
  <2>. HIDE DEF x, y, z, v
  <2>5. u \in Nat /\ t \in Nat
    BY <2>2
  <2>. DEFINE w == y * u
              h == 2 * w
  <2>6. w \in Nat /\ h \in Nat /\ d = x * h
    BY <1>1, <2>2, <2>3, <2>5
  <2>7. d \div x = h
    <3>. HIDE DEF h
    <3>. QED  BY <2>2, <2>6
  <2>8. d + h = 2 * (y * t) /\ y * t \in Nat
    <3>1. d + h = h * (1 + x)
      <4>. HIDE DEF h
      <4>. QED  BY <2>2, <2>6
    <3>. HIDE DEF u
    <3>. QED  BY <2>2, <2>5, <3>1
  <2>9. v = y * t
    <3>. DEFINE q == y * t
    <3>1. v = (2 * q) \div 2 /\ q \in Nat
      BY <2>4, <2>7, <2>8
    <3>. HIDE DEF q
    <3>. QED  BY <3>1 DEF q
  <2>10. Halves(v, g)
    BY <2>5, <2>9 DEF Halves, y
  <2>11. 2 * (x * v) = d * (1 + x)
    <3>1. 2 * v = d + h
      BY <2>8, <2>9
    <3>. HIDE DEF h
    <3>2. 2 * (x * v) = x * (d + h)
      BY <1>2, <2>2, <3>1 DEF v
    <3>. QED  BY <2>2, <2>6, <3>2
  <2>. QED  BY <1>2, <1>4, <2>10, <2>11 DEF v, x, n
<1>. QED  BY <1>3, <1>4

\* What is deployed at e, brought to the bin e0, is at least the capital: the square of what is
\* deployed grows at least as the price between the two.
Keeps(d, e, e0) ==
    \A j, k \in Nat : j - k = e - e0 => (Capital * Capital) * Doubled(j) <= (d * d) * Doubled(k)

LEMMA ValueKeeps ==
    ASSUME NEW d \in Nat, NEW e \in Int, NEW b \in Int, NEW e0 \in Int, NEW v \in Nat, Keeps(d, e, e0),
           b >= e => 2 * v = d * (1 + Doubled(b - e)),
           b < e  => 2 * (Doubled(e - b) * v) = d * (1 + Doubled(e - b))
    PROVE  Keeps(v, b, e0)
<1>. DEFINE c == Capital * Capital
            q == d * d
            w == v * v
<1>1. c \in Nat /\ q \in Nat /\ w \in Nat
  BY MoneyAssumption
<1>2. ASSUME NEW j \in Nat, NEW k \in Nat, j - k = b - e0
      PROVE  c * Doubled(j) <= w * Doubled(k)
  <2>. DEFINE y == Doubled(j)
              z == Doubled(k)
  <2>1. y \in Nat /\ z \in Nat
    BY DoubledPositive
  <2>2. CASE b >= e
    <3>. DEFINE n == b - e
                x == Doubled(n)
    <3>1. n \in Nat /\ k + n \in Nat /\ j - (k + n) = e - e0
      BY <1>2, <2>2
    <3>2. x \in Nat /\ Doubled(k + n) = z * x
      BY <3>1, DoubledPositive, DoubledSum
    <3>3. c * y <= q * (z * x)
      BY <3>1, <3>2 DEF Keeps
    <3>4. q * x <= w
      BY <2>2, <3>2, MeanOfTwo
    <3>. HIDE DEF c, q, w, x, y, z
    <3>5. q * x \in Nat /\ q * (z * x) = z * (q * x) /\ w * z = z * w
      BY <1>1, <2>1, <3>2
    <3>6. z * (q * x) <= z * w
      BY <1>1, <2>1, <3>4, <3>5, ProductGrows
    <3>7. c * y \in Nat /\ z * w \in Nat /\ z * (q * x) \in Nat
      BY <1>1, <2>1, <3>5
    <3>. QED  BY <3>3, <3>5, <3>6, <3>7 DEF y, z
  <2>3. CASE b < e
    <3>. DEFINE n == e - b
                x == Doubled(n)
                p == x * v
    <3>1. n \in Nat /\ j + n \in Nat /\ (j + n) - k = e - e0
      BY <1>2, <2>3
    <3>2. x \in Nat \ {0} /\ Doubled(j + n) = y * x
      BY <3>1, DoubledPositive, DoubledSum
    <3>3. c * (y * x) <= q * z
      BY <3>1, <3>2 DEF Keeps
    <3>4. q * x <= p * p
      <4>1. p \in Nat /\ 2 * p = d * (1 + x)
        BY <2>3, <3>2
      <4>. HIDE DEF p
      <4>. QED  BY <3>2, <4>1, MeanOfTwo
    <3>5. p * p = x * (x * w)
      <4>. HIDE DEF x
      <4>. QED  BY <3>2
    <3>. HIDE DEF c, q, w, x, y, z, p
    <3>6. x * w \in Nat /\ q * x = x * q
      BY <1>1, <3>2
    <3>7. q <= x * w
      BY <1>1, <3>2, <3>4, <3>5, <3>6, ProductCancels
    <3>8. z * q <= z * (x * w)
      BY <1>1, <2>1, <3>6, <3>7, ProductGrows
    <3>9. /\ z * q = q * z /\ z * (x * w) = x * (w * z) /\ c * (y * x) = x * (c * y)
          /\ w * z \in Nat /\ c * y \in Nat /\ q * z \in Nat
      BY <1>1, <2>1, <3>2
    <3>10. x * (c * y) <= x * (w * z)
      <4>1. x * (c * y) \in Int /\ x * (w * z) \in Int
        BY <3>2, <3>9
      <4>. QED  BY <3>3, <3>8, <3>9, <4>1
    <3>11. c * y <= w * z
      BY <3>2, <3>9, <3>10, ProductCancels
    <3>. QED  BY <3>11 DEF y, z
  <2>. QED  BY <2>2, <2>3
<1>. QED  BY <1>2 DEF Keeps

LEMMA RoundTrip ==
    ASSUME NEW v \in Nat, NEW e0 \in Int, Keeps(v, e0, e0)
    PROVE  v >= Capital
<1>1. Capital \in Nat
  BY MoneyAssumption
<1>2. Capital * Capital <= v * v
  <2>1. 0 \in Nat /\ 0 - 0 = e0 - e0
    OBVIOUS
  <2>2. (Capital * Capital) * Doubled(0) <= (v * v) * Doubled(0)
    BY <2>1 DEF Keeps
  <2>3. (Capital * Capital) * 1 = Capital * Capital /\ (v * v) * 1 = v * v
    BY <1>1
  <2>. QED  BY <2>2, <2>3, DoubledSteps
<1>3. ASSUME v < Capital PROVE FALSE
  <2>1. v * v <= v * Capital
    BY <1>1, <1>3, ProductGrows
  <2>2. v * Capital < Capital * Capital
    BY <1>1, <1>3
  <2>. QED  BY <1>1, <1>2, <2>1, <2>2
<1>. QED  BY <1>1, <1>3

-----------------------------------------------------------------------------
(***************************************************************************)
(* The round trip: the invariant.                                           *)
(***************************************************************************)
\* The centered range is around an observation of the window, with halvings left, and holds
\* enough for the way back.
Centered(left) ==
    LET p == pos["centered_bin_rebalance"]
    IN  pc = "observe" =>
            /\ Keeps(p.deployed, p.entry, stream[start + 1].bin)
            /\ \E j \in 1..Len(stream) :
                  /\ start + 1 <= j /\ (j <= start + i \/ j = start + 1)
                  /\ p.entry = stream[j].bin /\ Halves(p.deployed, left[j])

RoundTripInv == \E left : Halvings(stream, left) /\ Centered(left)

LEMMA CenteredRead ==
    ASSUME job \in Jobs, NEW p \in Position, NEW o \in Observation
    PROVE  LET q == Read("centered_bin_rebalance", p, o)
           IN  /\ InRange(p, o.bin) => q.deployed = p.deployed /\ q.entry = p.entry
               /\ ~InRange(p, o.bin) => q.deployed = Mark(p, o.bin) /\ q.entry = o.bin
               /\ o.bin = p.entry => InRange(p, o.bin)
<1>. DEFINE r == IF InRange(p, o.bin) THEN Collect(p, o) ELSE Recenter(p, o.bin)
            q == Track(r, o.bin)
<1>1. o.bin \in Int /\ p.entry \in Int
  BY DEF Observation, Position
<1>2. Read("centered_bin_rebalance", p, o) = q
  BY Zenon DEF Read
<1>3. InRange(p, o.bin) => r \in Position /\ r.deployed = p.deployed /\ r.entry = p.entry
  BY CollectFacts
<1>4. ~InRange(p, o.bin) => r \in Position /\ r.deployed = Mark(p, o.bin) /\ r.entry = o.bin
  <2>1. HAVE ~InRange(p, o.bin)
  <2>2. r = Recenter(p, o.bin)
    BY <2>1
  <2>3. r \in Position
    <3>. HIDE DEF r
    <3>. QED  BY <1>1, <2>2, RecenterFacts
  <2>. DEFINE mark  == Mark(p, o.bin)
              value == Max({mark, 0})
              cost  == p.costs + (value * SlipBps) \div 10000 + CostFixed
  <2>4. mark \in Nat
    BY <1>1, MarkTyped
  <2>5. value = mark
    <3>1. mark \in Int /\ 0 \in Int
      BY <2>4
    <3>. HIDE DEF mark
    <3>2. value \in Int /\ value \in {mark, 0} /\ mark <= value /\ 0 <= value
      BY <3>1, MaxOfTwo, Zenon
    <3>. HIDE DEF value
    <3>. QED  BY <2>4, <3>2
  <2>6. r = [p EXCEPT !.costs = cost, !.deployed = value, !.entry = o.bin, !.rebalances = p.rebalances + 1]
    BY <2>2 DEF Recenter
  <2>. HIDE DEF r, value, cost, mark
  <2>7. r.deployed = value /\ r.entry = o.bin
    BY <2>6 DEF Position
  <2>. QED  BY <2>3, <2>5, <2>7 DEF mark
<1>5. r \in Position
  BY <1>3, <1>4
<1>. HIDE DEF r
<1>6. Worth(q) = Worth(r)
  BY <1>1, <1>5, TrackFacts
<1>. HIDE DEF q
<1>7. q.deployed = r.deployed /\ q.entry = r.entry
  BY <1>6 DEF Worth
<1>8. o.bin = p.entry => InRange(p, o.bin)
  <2>1. HAVE o.bin = p.entry
  <2>2. Half \in Int /\ 0 <= Half
    <3>1. job.half \in Int /\ 0 \in Int
      BY JobAssumption
    <3>. QED  BY <3>1, MaxOfTwo, Zenon DEF Half
  <2>. QED  BY <1>1, <2>1, <2>2 DEF InRange
<1>. QED  BY <1>2, <1>3, <1>4, <1>7, <1>8

\* The value of a centered range at an observation behind the one it is around.
LEMMA ValueAhead ==
    ASSUME stream \in Seq(Observation), NEW left, Halvings(stream, left),
           NEW j \in 1..Len(stream), NEW k \in 1..Len(stream), j < k, NEW e0 \in Int,
           NEW p \in Position, p.entry = stream[j].bin, Halves(p.deployed, left[j]),
           Keeps(p.deployed, p.entry, e0)
    PROVE  LET v == Mark(p, stream[k].bin)
           IN  v \in Nat /\ Halves(v, left[k]) /\ Keeps(v, stream[k].bin, e0)
<1>. DEFINE d == p.deployed
            e == p.entry
            b == stream[k].bin
            f == left[j]
            g == left[k]
            v == InventoryValue(d, e, b)
<1>1. d \in Nat /\ e \in Int /\ b \in Int
  <2>1. stream[k] \in Observation
    OBVIOUS
  <2>. QED  BY <2>1 DEF Position, Observation
<1>2. f \in Nat /\ g \in Nat /\ g + 1 <= f /\ g + 1 + (e - b) <= f /\ Halves(d, f)
  BY DEF Halvings
<1>3. Mark(p, b) = v
  BY DEF Mark
<1>4. Keeps(d, e, e0)
  OBVIOUS
<1>. HIDE DEF d, e, b, f, g
<1>5. /\ v \in Nat /\ Halves(v, g)
      /\ b >= e => 2 * v = d * (1 + Doubled(b - e))
      /\ b < e  => 2 * (Doubled(e - b) * v) = d * (1 + Doubled(e - b))
  BY <1>1, <1>2, ValueMean
<1>. HIDE DEF v
<1>6. Keeps(v, b, e0)
  BY <1>1, <1>4, <1>5, ValueKeeps
<1>. QED  BY <1>3, <1>5, <1>6 DEF b, g

LEMMA RoundTripInit == UnitIsFine /\ Init => RoundTripInv
<1>. SUFFICES ASSUME UnitIsFine, Init PROVE RoundTripInv
  OBVIOUS
<1>1. PICK s \in Streams : stream = Loaded(s)
  BY DEF Init
<1>2. PICK left : Halvings(stream, left)
  BY <1>1 DEF UnitIsFine
<1>3. Centered(left)
  BY DEF Init, Centered
<1>. QED  BY <1>2, <1>3 DEF RoundTripInv

LEMMA RoundTripOpens ==
    ASSUME Inv, OpenWindow, NEW left, Halvings(stream, left) PROVE Centered(left)'
<1>. DEFINE c == "centered_bin_rebalance"
            k == start + 1
            p == pos'[c]
<1>1. /\ stream' = stream /\ start' = start /\ i' = 0 /\ start + Size <= Len(stream)
      /\ p = Opened(stream[k].bin)
  BY DEF OpenWindow, Modes
<1>2. k \in 1..Len(stream) /\ stream[k] \in Observation
  <2>1. stream \in Seq(Observation) /\ job \in Jobs /\ start \in Nat /\ Size > 0
    BY DEF Inv, Reading, OpenWindow
  <2>2. k \in 1..Len(stream)
    BY <1>1, <2>1, SizeTyped
  <2>. QED  BY <2>1, <2>2
<1>3. p.deployed = Capital /\ p.entry = stream[k].bin
  BY <1>1 DEF Opened
<1>4. Keeps(p.deployed, p.entry, stream[k].bin)
  <2>1. stream[k].bin \in Int
    BY <1>2 DEF Observation
  <2>2. ASSUME NEW x \in Int, NEW a \in Nat, NEW b \in Nat, a - b = x - x PROVE a = b
    BY <2>2
  <2>3. Keeps(Capital, stream[k].bin, stream[k].bin)
    <3>1. \A a \in Nat : (Capital * Capital) * Doubled(a) \in Int
      <4>1. TAKE a \in Nat
      <4>. DEFINE x == Doubled(a)
      <4>2. Capital \in Int /\ x \in Int
        BY MoneyAssumption, DoubledPositive
      <4>. HIDE DEF x
      <4>3. (Capital * Capital) * x \in Int
        BY <4>2
      <4>. QED  BY <4>3 DEF x
    <3>. QED  BY <2>1, <2>2, <3>1 DEF Keeps
  <2>. QED  BY <1>3, <2>3
<1>5. Halves(p.deployed, left[k])
  <2>. DEFINE x == Doubled(left[k])
  <2>1. Capital \in Nat /\ x \in Nat \ {0} /\ Capital % x = 0
    <3>1. left[k] \in Nat /\ Capital % x = 0
      BY <1>2 DEF Halvings
    <3>. QED  BY <3>1, DoubledPositive, MoneyAssumption
  <2>. HIDE DEF x
  <2>2. Capital \div x \in Nat /\ Capital = x * (Capital \div x)
    BY <2>1
  <2>. QED  BY <1>3, <2>2 DEF Halves, x
<1>. HIDE DEF p
<1>. QED  BY <1>1, <1>2, <1>3, <1>4, <1>5 DEF Centered, p

LEMMA RoundTripReads ==
    ASSUME Inv, Observe, NEW left, Halvings(stream, left), Centered(left) PROVE Centered(left)'
<1>. DEFINE c == "centered_bin_rebalance"
            k == start + i + 1
            e0 == stream[start + 1].bin
            p == pos[c]
            q == pos'[c]
<1>1. /\ stream' = stream /\ start' = start /\ i' = i + 1 /\ i < Size /\ pc = "observe"
      /\ q = Read(c, p, stream[k])
  BY DEF Observe, Modes, Obs
<1>2. /\ stream \in Seq(Observation) /\ job \in Jobs /\ start \in Nat /\ i \in Nat
      /\ start + Size <= Len(stream) /\ p \in Position
  BY <1>1 DEF Inv, Reading, Holding, Modes
<1>3. k \in 1..Len(stream) /\ start + 1 \in 1..Len(stream)
  BY <1>1, <1>2, SizeTyped
<1>4. stream[k] \in Observation /\ e0 \in Int
  <2>1. stream[k] \in Observation /\ stream[start + 1] \in Observation
    BY <1>2, <1>3
  <2>. QED  BY <2>1 DEF Observation
<1>5. PICK j \in 1..Len(stream) :
          /\ start + 1 <= j /\ (j <= start + i \/ j = start + 1)
          /\ p.entry = stream[j].bin /\ Halves(p.deployed, left[j])
  BY <1>1 DEF Centered
<1>6. Keeps(p.deployed, p.entry, e0)
  BY <1>1 DEF Centered
<1>7. /\ InRange(p, stream[k].bin) => q.deployed = p.deployed /\ q.entry = p.entry
      /\ ~InRange(p, stream[k].bin) => q.deployed = Mark(p, stream[k].bin) /\ q.entry = stream[k].bin
      /\ stream[k].bin = p.entry => InRange(p, stream[k].bin)
  BY <1>1, <1>2, <1>4, CenteredRead
<1>. HIDE DEF p, q
<1>8. j <= k
  BY <1>2, <1>5
<1>9. \E l \in 1..Len(stream) :
          /\ start + 1 <= l /\ l <= start + i + 1
          /\ q.entry = stream[l].bin /\ Halves(q.deployed, left[l]) /\ Keeps(q.deployed, q.entry, e0)
  <2>1. CASE InRange(p, stream[k].bin)
    BY <1>5, <1>6, <1>7, <1>8, <2>1
  <2>2. CASE ~InRange(p, stream[k].bin)
    <3>1. j < k
      <4>1. j # k
        BY <1>5, <1>7, <2>2
      <4>. QED  BY <1>2, <1>8, <4>1
    <3>2. Halves(q.deployed, left[k]) /\ Keeps(q.deployed, stream[k].bin, e0)
      <4>. HIDE DEF k, e0
      <4>. QED  BY <1>2, <1>3, <1>4, <1>5, <1>6, <1>7, <2>2, <3>1, ValueAhead
    <3>3. start + 1 <= k /\ k <= start + i + 1
      BY <1>2
    <3>. QED  BY <1>3, <1>7, <2>2, <3>2, <3>3
  <2>. QED  BY <2>1, <2>2
<1>10. /\ Keeps(q.deployed, q.entry, e0)
       /\ \E l \in 1..Len(stream) :
             /\ start + 1 <= l /\ (l <= start + (i + 1) \/ l = start + 1)
             /\ q.entry = stream[l].bin /\ Halves(q.deployed, left[l])
  <2>1. start + i + 1 = start + (i + 1)
    BY <1>2
  <2>. QED  BY <1>9, <2>1
<1>11. stream' = stream /\ start' = start /\ i' = i + 1 /\ q = pos'["centered_bin_rebalance"]
  BY <1>1 DEF q
<1>. HIDE DEF k
<1>. QED  BY <1>10, <1>11, Zenon DEF Centered

\* Whenever the price is back where the window began, the centered range is worth the capital.
THEOREM RoundTripsKeep == UnitIsFine => (Spec => []RoundTripKeeps)
<1>1. ASSUME Inv, RoundTripInv, [Next]_vars PROVE RoundTripInv'
  <2>1. PICK left : Halvings(stream, left) /\ Centered(left)
    BY <1>1 DEF RoundTripInv
  <2>2. stream' = stream
    BY <1>1 DEF Next, Begin, OpenWindow, Observe, CloseWindow, Summarize, vars
  <2>3. Centered(left)'
    <3>1. CASE OpenWindow
      BY <1>1, <2>1, <3>1, RoundTripOpens
    <3>2. CASE Observe
      BY <1>1, <2>1, <3>2, RoundTripReads
    <3>3. CASE Begin \/ CloseWindow \/ Summarize
      <4>1. pc' # "observe"
        BY <3>3 DEF Begin, CloseWindow, Summarize
      <4>. QED  BY <4>1 DEF Centered
    <3>4. CASE UNCHANGED vars
      BY <2>1, <3>4 DEF Centered, vars
    <3>. QED  BY <1>1, <3>1, <3>2, <3>3, <3>4 DEF Next
  <2>. QED  BY <2>1, <2>2, <2>3 DEF RoundTripInv
<1>2. ASSUME Inv, RoundTripInv PROVE RoundTripKeeps
  <2>. DEFINE c == "centered_bin_rebalance"
              k == start + i
              e0 == stream[start + 1].bin
              p == pos[c]
  <2>1. SUFFICES ASSUME pc = "observe", i > 0, stream[k].bin = e0 PROVE Mark(p, stream[k].bin) >= Capital
    BY DEF RoundTripKeeps, CurrentBin
  <2>2. PICK left : Halvings(stream, left) /\ Centered(left)
    BY <1>2 DEF RoundTripInv
  <2>3. /\ stream \in Seq(Observation) /\ start \in Nat /\ i \in Nat /\ job \in Jobs
        /\ start + Size <= Len(stream) /\ i <= Size /\ p \in Position
    BY <1>2, <2>1 DEF Inv, Reading, Holding, Modes
  <2>4. k \in 1..Len(stream) /\ stream[k] \in Observation
    <3>1. k \in 1..Len(stream)
      BY <2>1, <2>3, SizeTyped
    <3>. QED  BY <2>3, <3>1
  <2>5. e0 \in Int /\ p.deployed \in Nat
    BY <2>1, <2>3, <2>4 DEF Observation, Position
  <2>6. PICK j \in 1..Len(stream) :
            /\ start + 1 <= j /\ (j <= start + i \/ j = start + 1)
            /\ p.entry = stream[j].bin /\ Halves(p.deployed, left[j])
    BY <2>1, <2>2 DEF Centered
  <2>7. Keeps(p.deployed, p.entry, e0)
    BY <2>1, <2>2 DEF Centered
  <2>. HIDE DEF p
  <2>8. CASE j < k
    <3>. DEFINE v == Mark(p, stream[k].bin)
    <3>1. v \in Nat /\ Keeps(v, stream[k].bin, e0)
      <4>. HIDE DEF k, e0
      <4>. QED  BY <2>2, <2>3, <2>4, <2>5, <2>6, <2>7, <2>8, ValueAhead
    <3>. HIDE DEF v
    <3>2. v >= Capital
      BY <2>1, <2>5, <3>1, RoundTrip
    <3>. QED  BY <3>2 DEF v
  <2>9. CASE ~(j < k)
    <3>1. j = k
      BY <2>1, <2>3, <2>4, <2>6, <2>9
    <3>2. Mark(p, stream[k].bin) = p.deployed
      <4>. DEFINE d == p.deployed
      <4>1. Mark(p, e0) = (d + d * Doubled(e0 - e0)) \div 2
        BY <2>1, <2>5, <2>6, <3>1 DEF Mark, InventoryValue
      <4>2. e0 - e0 = 0
        BY <2>5
      <4>3. Mark(p, e0) = (d + d * 1) \div 2
        BY <4>1, <4>2, DoubledSteps
      <4>. HIDE DEF d
      <4>4. d \in Nat
        BY <2>5 DEF d
      <4>5. (d + d * 1) \div 2 = d
        BY <4>4
      <4>. QED  BY <2>1, <4>3, <4>5 DEF d
    <3>3. Keeps(p.deployed, e0, e0)
      BY <2>1, <2>6, <2>7, <3>1
    <3>. QED  BY <2>5, <3>2, <3>3, RoundTrip
  <2>. QED  BY <2>4, <2>6, <2>8, <2>9
<1>. QED  BY <1>1, <1>2, RoundTripInit, InvHolds, PTL DEF Spec
=============================================================================

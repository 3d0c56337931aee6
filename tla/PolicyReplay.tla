---------------------------- MODULE PolicyReplay ----------------------------
(***************************************************************************)
(* The policy replay engine: run_policy of crates/backtest/src/replay.rs.   *)
(* It walks a fixed stream of swaps once.  At each swap it books the income *)
(* and the losses of the position it came with, lets the policy act, adapts *)
(* the short hedge and marks the equity.  A policy either provides liquidity*)
(* (position) or is parked in the money leg (parked).                       *)
(*                                                                          *)
(* Simplifications: one token0 is one USD; money is whole units, rounded    *)
(* down where the code has f64; each swap in range earns the constant Fee   *)
(* (the code: a share of the swap's volume); toxic fees, the average width  *)
(* and the hold-50/50 reference are reporting only and left out.            *)
(***************************************************************************)
EXTENDS Liquidity

CONSTANTS
    Streams,     \* swap streams: sequences of [tick, block], sorted by block
    Policies,    \* the policies to replay (RangeMode)
    Capital,     \* token0 deployed
    Gas,         \* rebalance_gas_usd
    SlipPct,     \* rebalance_slippage_bps, as a percentage
    SwapPct,     \* rebalance_swap_fraction, as a percentage
    Fee,         \* what a swap pays a position in range
    RewardPct,   \* reward_apr per block, as a percentage of the staked value
    HaircutPct,  \* reward_haircut
    FundingPct,  \* funding per block, as a percentage of the short
    None

Kind == {"static", "centered", "volatility", "hard_exit", "hedged", "adaptive",
         "gated", "delta", "trend_stop", "hedged_wide"}

\* One RangeMode: its half width or its limits, the thresholds of its regime gate,
\* the entry-sized part of a static hedge and the band of a dynamic one (percent);
\* and the action_delay_blocks it is replayed with.
Policy == [kind : Kind, half : Nat, floor : Nat, cap : Nat, k : Nat, window : Nat,
           enter : Nat, exit : Nat, hedge : Nat, band : Nat, delay : Nat]

ASSUME StreamAssumption ==
    \A s \in Streams :
        /\ s \in Seq([tick : 1..Grid, block : Nat]) /\ Len(s) > 0
        /\ \A j, k \in DOMAIN s : j <= k => s[j].block <= s[k].block
ASSUME PolicyAssumption == Policies \subseteq Policy /\ \A p \in Policies : p.exit < p.enter
ASSUME MoneyAssumption  == {Capital, Gas, SlipPct, SwapPct, Fee, RewardPct, HaircutPct,
                            FundingPct} \subseteq Nat
ASSUME NoneAssumption   == None \notin Int \cup [lower : Int, upper : Int, at : Int,
                                                 capital : Int]

VARIABLES
    stream,    \* the swaps replayed
    policy,    \* the policy replayed
    n,         \* swaps processed
    position,  \* the open position, or None
    range,     \* lower, upper: the range of the last position
    parked,    \* sidelined_token0
    short,     \* short_aero
    ledger,    \* fees, lvr, reward, hedge, funding, gas, slip
    stats,     \* rebalances, exits (hard exits), inRange
    tail,      \* peak, drawdown, low, riskStart, riskBlocks
    past       \* model only: equity and one-sided hold after each swap

vars == <<stream, policy, n, position, range, parked, short, ledger, stats, tail, past>>

-----------------------------------------------------------------------------
\* The swap at hand, and the price and block the replay was at before it.
Swap  == stream[n + 1]
Pre   == IF n = 0 THEN stream[1].tick  ELSE stream[n].tick
Since == Swap.block - (IF n = 0 THEN stream[1].block ELSE stream[n].block)

Is(kinds) == policy.kind \in kinds

\* The last ticks of tick_window after m swaps; the swap at hand is in the window.
RecentAt(m) == Last([j \in 1..m |-> stream[j].tick], policy.window)
Recent == RecentAt(n + 1)

TrendAt(m)  == Trending(RecentAt(m), policy.enter)
DangerAt(m) == TrendAt(m) /\ Displacement(RecentAt(m)) > 0

\* (Names that end in _bug are faulty variants of the definition that follows them;
\* no specification uses them.  They show that a property can fail.)
\* Bug: the tick of the swap is pushed after the decision.
TrendingNow_bug == n > 0 /\ TrendAt(n)
TrendingNow == TrendAt(n + 1)
DangerTrend == DangerAt(n + 1)
BenignTrend == TrendingNow /\ ~DangerTrend
RangingNow  == Ranging(Recent, policy.exit)

HalfWidth == IF Is({"volatility", "adaptive", "gated"})
             THEN VolatilityWidth(Recent, policy.k, policy.floor, policy.cap)
             ELSE policy.half
FirstHalf == IF Is({"volatility", "adaptive", "gated"}) THEN Larger(policy.floor, 1)
             ELSE policy.half

Rebalances  == Is({"centered", "volatility", "hard_exit", "hedged", "delta", "trend_stop"})
DeltaHedged == Is({"delta", "trend_stop", "hedged_wide"})
AnyHedge    == DeltaHedged \/ (Is({"hedged"}) /\ policy.hedge > 0)

\* price_after_delay: the first swap at least delay blocks after this one, or the
\* last swap of the stream.
Executed(j) ==
    LET late == {k \in j..Len(stream) : stream[k].block >= stream[j].block + policy.delay}
    IN  IF policy.delay = 0 THEN j
        ELSE IF late = {} THEN Len(stream)
        ELSE CHOOSE k \in late : \A l \in late : k <= l

Fill == stream[Executed(n + 1)]

\* Slippage on a whole notional, and on the part of it that a rebalance swaps.
Slippage(v)     == (v * SlipPct) \div 100
PartSlippage(v) == (v * SwapPct * SlipPct) \div 10000

Open(tick, half, capital) ==
    [lower |-> CenteredRange(tick, half).lower, upper |-> CenteredRange(tick, half).upper,
     at |-> tick, capital |-> capital]

RangeOf(pos) == [lower |-> pos.lower, upper |-> pos.upper]

Holding(pos, cash, price) == IF pos = None THEN cash ELSE Value(pos, price)

RewardKept(l) == (l.reward * (100 - HaircutPct)) \div 100

Equity(pos, cash, l, price) ==
    Holding(pos, cash, price) + l.fees + l.hedge + RewardKept(l) - l.gas - l.slip - l.funding

First == Open(stream[1].tick, FirstHalf, Capital)

\* The short is measured against the risk token the policy starts with.
EntryRisk == Inventory1(First, stream[1].tick)

FirstShort == IF Is({"hedged"}) THEN (policy.hedge * EntryRisk) \div 100
              ELSE IF DeltaHedged THEN EntryRisk ELSE 0

Init ==
    /\ stream \in Streams /\ policy \in Policies
    /\ n = 0
    /\ position = First
    /\ range = RangeOf(First)
    /\ parked = 0
    /\ short = FirstShort
    /\ ledger = [fees |-> 0, lvr |-> 0, reward |-> 0, hedge |-> 0, funding |-> 0,
                 gas |-> 0, slip |-> 0]
    /\ stats = [rebalances |-> 0, exits |-> 0, inRange |-> 0]
    /\ tail = [peak |-> Capital, drawdown |-> 0, low |-> Capital,
               riskStart |-> None, riskBlocks |-> 0]
    /\ past = <<>>

-----------------------------------------------------------------------------
\* The position of the last swap is paid for this one if the price was in its range.
Earns == position # None /\ InRange(position, Pre)

\* Income and losses of the position the swap finds, and the short's mark and funding.
Accrued ==
    LET staked == IF Earns THEN Value(position, Pre) ELSE 0
        bled   == IF position = None THEN 0
                  ELSE (position.capital * AdverseSelection(position, Pre, Swap.tick))
                         \div UnitValue(position, position.at)
        q      == RiskPrice(Swap.tick)
    IN  [ledger EXCEPT
           !.fees    = @ + (IF Earns THEN Fee ELSE 0),
           !.reward  = @ + (staked * RewardPct * Since) \div 100,
           !.lvr     = @ + Larger(bled, 0),
           !.hedge   = @ + (IF AnyHedge THEN (short * (RiskPrice(Pre) - q)) \div (Grid * Grid) ELSE 0),
           !.funding = @ + (IF AnyHedge
                            THEN (FundingPct * short * q * Since) \div (100 * Grid * Grid) ELSE 0)]

\* What remains after an action's gas and slippage.
AfterCosts(val, slip) == Larger(val - (Gas + slip), 0)

\* Keep the short at the position's risk tokens: rehedge when it drifts out of the
\* band, or when nothing is left to hedge.
\* Bug: the hedge is sized at the delayed price.
RiskHeld_bug(pos) == IF pos = None THEN 0 ELSE Inventory1(pos, Fill.tick)

RiskHeld(pos) == IF pos = None THEN 0 ELSE Inventory1(pos, Swap.tick)

MustRehedge(pos) ==
    /\ DeltaHedged
    /\ \/ Distance(RiskHeld(pos), short) * 100 > policy.band * EntryRisk
       \/ RiskHeld(pos) = 0 /\ short > 0
RehedgeCost(pos) ==
    Slippage((Distance(RiskHeld(pos), short) * RiskPrice(Swap.tick)) \div (Grid * Grid))

\* Bug: the run above the range is not ended when the price comes back.
TailAfter_bug(eq, risky) ==
    LET start == IF tail.riskStart = None THEN Swap.block ELSE tail.riskStart
        peak  == Larger(tail.peak, eq)
    IN  [peak |-> peak, drawdown |-> Larger(tail.drawdown, peak - eq),
         low |-> Smaller(tail.low, eq),
         riskStart |-> IF risky THEN start ELSE tail.riskStart,
         riskBlocks |-> IF risky THEN Larger(tail.riskBlocks, Swap.block - start)
                        ELSE tail.riskBlocks]

\* Mark-to-market equity, drawdown and the run of blocks spent above the range.
TailAfter(eq, risky) ==
    LET start == IF tail.riskStart = None THEN Swap.block ELSE tail.riskStart
        peak  == Larger(tail.peak, eq)
    IN  [peak |-> peak, drawdown |-> Larger(tail.drawdown, peak - eq),
         low |-> Smaller(tail.low, eq),
         riskStart |-> IF risky THEN start ELSE None,
         riskBlocks |-> IF risky THEN Larger(tail.riskBlocks, Swap.block - start)
                        ELSE tail.riskBlocks]

\* Everything after the policy acted: rehedge, the one-sided risk run, the equity
\* and its drawdown, and the next swap.
Settle(pos, cash, gas, slip) ==
    LET book  == [Accrued EXCEPT !.gas = @ + gas,
                                 !.slip = @ + slip + (IF MustRehedge(pos) THEN RehedgeCost(pos) ELSE 0)]
        risky == pos # None /\ Swap.tick > pos.upper
        eq    == Equity(pos, cash, book, Swap.tick)
    IN  /\ position' = pos
        /\ parked' = cash
        /\ short' = IF MustRehedge(pos) THEN RiskHeld(pos) ELSE short
        /\ ledger' = book
        /\ tail' = TailAfter(eq, risky)
        /\ past' = Append(past, [equity |-> eq, risky |-> risky])
        /\ n' = n + 1
        /\ UNCHANGED <<stream, policy>>

Count(rebalances, exits) ==
    stats' = [rebalances |-> stats.rebalances + rebalances,
              exits      |-> stats.exits + exits,
              inRange    |-> stats.inRange + (IF Earns THEN 1 ELSE 0)]

(***************************************************************************)
(* What the policy does at the swap.                                       *)
(***************************************************************************)
Active == n < Len(stream) /\ position # None
Parked == n < Len(stream) /\ position = None

OutOfRange == ~InRange(position, Swap.tick)

LeavesTrend  == Is({"gated", "trend_stop"}) /\ TrendingNow
LeavesDanger == Is({"adaptive"}) /\ DangerTrend

\* Bug: the danger side starts a tick too late.
HardExit_bug == Is({"hard_exit"}) /\ Swap.tick > position.upper + 1
HardExit     == Is({"hard_exit"}) /\ Swap.tick > position.upper

Follows == \/ Is({"trend_stop"}) /\ ~TrendingNow
           \/ Is({"adaptive"}) /\ BenignTrend
           \/ Rebalances /\ ~Is({"trend_stop"}) /\ ~HardExit

\* Liquidate to the money leg: partially re-swapped by the gates, in full otherwise.
Liquidate(slip, rebalances, exits) ==
    /\ Settle(None, AfterCosts(Value(position, Fill.tick), slip), Gas, slip)
    /\ Count(rebalances, exits)
    /\ UNCHANGED range

StandDown ==
    /\ Active /\ (LeavesTrend \/ LeavesDanger)
    /\ LET val == Value(position, Fill.tick)
       IN  Liquidate(IF LeavesTrend THEN PartSlippage(val) ELSE Slippage(val), 1, 0)

StopOut ==
    /\ Active /\ HardExit
    /\ Liquidate(Slippage(Value(position, Fill.tick)), 0, 1)

\* Bug: the range kept for a later return is not set.
Provide_range_bug(tick, val, slip) ==
    /\ Settle(Open(tick, HalfWidth, IF slip = None THEN val ELSE AfterCosts(val, slip)),
              0, Gas, IF slip = None THEN 0 ELSE slip)
    /\ UNCHANGED range
    /\ Count(1, 0)

\* Provide liquidity around a tick with what is left of val.
Provide(tick, val, slip) ==
    LET pos == Open(tick, HalfWidth, IF slip = None THEN val ELSE AfterCosts(val, slip))
    IN  /\ Settle(pos, 0, Gas, IF slip = None THEN 0 ELSE slip)
        /\ range' = RangeOf(pos)
        /\ Count(1, 0)

\* Follow the price with a new range at the delayed price.
Recenter ==
    /\ Active /\ OutOfRange /\ Follows
    /\ LET val == Value(position, Fill.tick)
       IN  Provide(Fill.tick, val, PartSlippage(val))

\* A gate opens again once the price ranges.
Resume ==
    /\ Parked /\ Is({"gated", "trend_stop"}) /\ RangingNow
    /\ Provide(Swap.tick, parked, PartSlippage(parked))

\* The others come back when the danger trend dies, or the price is back at the
\* centre of the old range; this re-entry costs gas only.
Return ==
    /\ Parked
    /\ \/ Is({"adaptive"}) /\ ~DangerTrend
       \/ ~Is({"adaptive", "gated", "trend_stop"})
          /\ Swap.tick <= (range.lower + range.upper) \div 2
    /\ Provide(Swap.tick, parked, None)

KeepPosition ==
    /\ Active
    /\ ~LeavesTrend /\ ~LeavesDanger /\ ~HardExit /\ ~(OutOfRange /\ Follows)
    /\ Settle(position, parked, 0, 0)
    /\ Count(0, 0)
    /\ UNCHANGED range

StayParked ==
    /\ Parked
    /\ IF Is({"gated", "trend_stop"}) THEN ~RangingNow
       ELSE IF Is({"adaptive"}) THEN DangerTrend
       ELSE Swap.tick > (range.lower + range.upper) \div 2
    /\ Settle(None, parked, 0, 0)
    /\ Count(0, 0)
    /\ UNCHANGED range

Next == KeepPosition \/ StandDown \/ StopOut \/ Recenter \/ Resume \/ Return \/ StayParked

Spec == Init /\ [][Next]_vars

-----------------------------------------------------------------------------
Money == [fees : Nat, lvr : Nat, reward : Int, hedge : Int, funding : Int, gas : Nat, slip : Int]

TypeOK ==
    /\ stream \in Seq([tick : 1..Grid, block : Nat]) /\ Len(stream) > 0
    /\ policy \in Policy /\ policy.exit < policy.enter
    /\ n \in 0..Len(stream)
    /\ position \in [lower : Int, upper : Int, at : Int, capital : Int] \cup {None}
    /\ range \in [lower : Int, upper : Int]
    /\ position # None => RangeOf(position) = range /\ range.lower < range.upper
    /\ parked \in Nat /\ short \in Int
    /\ ledger \in Money
    /\ stats \in [rebalances : Nat, exits : Nat, inRange : Nat]
    /\ tail \in [peak : Int, drawdown : Nat, low : Int, riskStart : Nat \cup {None}, riskBlocks : Nat]
    /\ past \in Seq([equity : Int, risky : BOOLEAN]) /\ Len(past) = n

\* "stand the position down ... when a trend is detected" (replay.rs:280): after a swap
\* that completes a trend no gated policy provides liquidity, however it got here,
\* and the adaptive one does not when the trend runs into the risk asset.
NoLpInTrend ==
    n > 0 => /\ Is({"gated", "trend_stop"}) /\ TrendAt(n) => position = None
             /\ Is({"adaptive"}) /\ DangerAt(n) => position = None

\* A dynamic hedge ends each swap within its band of the risk tokens the position
\* then holds, across exits, re-entries and new ranges; without a position it is 0.
HedgeFollows ==
    n > 0 /\ DeltaHedged =>
        IF position = None THEN short = 0
        ELSE Distance(Inventory1(position, stream[n].tick), short) * 100 <= policy.band * EntryRisk

\* The running tail metrics are what their definitions say of the whole path: the
\* worst fall from a peak, the lowest equity, the longest hold above the range.
EquityAt(j) == IF j = 0 THEN Capital ELSE past[j].equity

HeldAbove(a, b) == a <= b /\ \A j \in a..b : past[j].risky

TailMatchesHistory ==
    /\ \A a, b \in 0..n : a <= b => EquityAt(a) - EquityAt(b) <= tail.drawdown
    /\ \E a, b \in 0..n : a <= b /\ tail.drawdown = EquityAt(a) - EquityAt(b)
    /\ \A a \in 0..n : tail.low <= EquityAt(a)
    /\ \E a \in 0..n : tail.low = EquityAt(a)
    /\ \A a, b \in 1..n : HeldAbove(a, b) => stream[b].block - stream[a].block <= tail.riskBlocks
    /\ \/ tail.riskBlocks = 0
       \/ \E a, b \in 1..n : HeldAbove(a, b) /\ tail.riskBlocks = stream[b].block - stream[a].block

\* Acting at once, the hard-exit policy never moves its range towards the risk asset:
\* it recenters on the safe side only, and returns at or below the old centre.
ImmediateExitIsOneWay ==
    [][Is({"hard_exit"}) /\ policy.delay = 0 => range'.upper <= range.upper]_vars
=============================================================================

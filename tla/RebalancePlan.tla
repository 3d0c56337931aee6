---------------------------- MODULE RebalancePlan ----------------------------
(***************************************************************************)
(* dry-run-rebalance of apps/cli/src/main.rs: the planner reads the pool,   *)
(* the network and, for a rebalance, the NFT, one RPC call after the other  *)
(* while the chain goes on; it computes the band, the swap and the mint,    *)
(* builds their calldata and judges them by its gates.  The operator, like  *)
(* scripts/fork-sim-rebalance.sh, then sends the transactions.              *)
(* Abstracted: calls whose answer does not change are read together; gas    *)
(* is cheap or not; slippage and shares are percents.  The quoter's answer  *)
(* and the unstake, stake and burn steps, for which no calldata is built,   *)
(* are only printed, and left out.                                          *)
(***************************************************************************)
EXTENDS PoolChain

CONSTANTS
    Spacing,        \* the pool's tick spacing
    Halves,         \* --half-width-ticks
    Slip,           \* --slippage-bps, in percent
    SlipLimit,      \* the 100 bps of the slippage gate
    MaxShare,       \* --max-risk-token-share, in percent; the risk token is token1
    MaxPlans        \* bound: planner runs

VARIABLES
    ppc,            \* idle, the call under way, build, planned, or sending
    args,           \* [token, band, half]: --token-id (0 for none), --current-lower and -upper
    seen,           \* answers of the calls
    swap, plan,     \* what is planned
    todo, result,   \* transactions to send, and how the last one ended
    plans

planner == <<ppc, args, seen, swap, plan, todo, result, plans>>

\* read_cl_pool_state; fee(); sample_network, token0() and token1(); positions(tokenId)
Reads == {"slot0", "fee", "network", "position"}

After(call) ==
    CASE call = "slot0"    -> "fee"
      [] call = "fee"      -> "network"
      [] call = "network"  -> IF args.token = 0 THEN "build" ELSE "position"
      [] call = "position" -> "build"

Blank == [price |-> 0, fee |-> 0, cheap |-> TRUE, nft |-> None]
NoResult == [tx |-> None, outcome |-> None, quiet |-> FALSE]

PlannerInit ==
    /\ ppc = "idle" /\ args = None /\ seen = Blank /\ swap = None /\ plan = None
    /\ todo = <<>> /\ result = NoResult /\ plans = 0

\* Neither an NFT nor a swap is None.
ASSUME NoneAssumption ==
    /\ None \notin [lower : 1..Grid, upper : 1..Grid, liquidity : Nat, owed : Nat \X Nat]
    /\ None \notin [zeroForOne : BOOLEAN, in : Nat, outMin : Nat]

(***************************************************************************)
(* The arithmetic of the plan.                                              *)
(***************************************************************************)
Cut(amount) == (amount * (100 - Slip)) \div 100

\* snap_to_spacing, for ticks that are not negative.
Snap(tick) == ((2 * tick + Spacing) \div (2 * Spacing)) * Spacing

\* Bug: the width is not taken off below.
Target_bug(tick, half) == [lower |-> Snap(tick + half), upper |-> Snap(tick + half)]

Target(tick, half) == [lower |-> Snap(tick - half), upper |-> Snap(tick + half)]

\* A planned band lies on the grid.  Nothing says that a half width is at least half a spacing.
ASSUME PlanAssumption ==
    /\ Spacing \in Nat \ {0} /\ Halves \subseteq Nat /\ Slip \in 0..100
    /\ SlipLimit \in Nat /\ MaxShare \in Nat /\ MaxPlans \in Nat
    /\ \A s \in Prices, half \in Halves :
          OnGrid(Target(s, half).lower) /\ OnGrid(Target(s, half).upper)

\* cl_mint_amounts: only the ratio of the target's two amounts is used.
Ratio(range, s) == <<Amount0(range, s), Amount1(range, s)>>

Band == CASE args.band # None -> args.band
          [] args.band = None /\ args.token # 0 -> seen.nft
          [] OTHER -> None

\* What there is to work with: the old band's contents, or the capital in token0.
Inventory ==
    CASE Band = None -> <<Capital, 0>>
      [] Band # None /\ args.token # 0 -> Holding(Band, seen.nft.liquidity, seen.price)
      [] OTHER -> Holding(Band, (Capital * Grid) \div UnitValue(Band, seen.price), seen.price)

TwoSided(ratio) == ratio[1] > 0 /\ ratio[2] > 0

\* fit_to_range_ratio
FitToRange(have, ratio) ==
    IF ~TwoSided(ratio) THEN have
    ELSE LET a0 == Smaller(have[1], (have[2] * ratio[1]) \div ratio[2])
         IN  <<a0, (a0 * ratio[2]) \div ratio[1]>>

\* solve_inventory_swap.  Bisection finds the least input that reaches the ratio, short of a
\* thousandth of the balance; its tolerance of 1/10000 is finer than the amounts here.
Reached(have, ratio, zeroForOne, in) ==
    LET out == SwapOut(seen.price, in, zeroForOne, seen.fee)
    IN  IF zeroForOne
        THEN (have[2] + out) * ratio[1] >= ratio[2] * (have[1] - in)
        ELSE (have[2] - in) * ratio[1] <= ratio[2] * (have[1] + out)

Solve(have, ratio) ==
    LET zeroForOne == have[2] * ratio[1] < ratio[2] * have[1]
        most == (999 * have[IF zeroForOne THEN 1 ELSE 2]) \div 1000
        in   == CHOOSE x \in 0..most :
                    /\ x = most \/ Reached(have, ratio, zeroForOne, x)
                    /\ x = 0 \/ ~Reached(have, ratio, zeroForOne, x - 1)
    IN  IF ~TwoSided(ratio) \/ have[2] * ratio[1] = ratio[2] * have[1] THEN None
        ELSE [zeroForOne |-> zeroForOne, in |-> in,
              outMin |-> Cut(SwapOut(seen.price, in, zeroForOne, seen.fee))]

\* Bug: the mint is sized by what the swap is expected to return.
Safe_bug(have, s) ==
    LET out == SwapOut(seen.price, s.in, s.zeroForOne, seen.fee)
    IN  IF s.zeroForOne THEN <<have[1] - s.in, have[2] + out>>
        ELSE <<have[1] + out, have[2] - s.in>>

\* The balances the mint may count on after the swap.
Safe(have, s) ==
    IF s.zeroForOne THEN <<Cut(have[1] - s.in), Cut(have[2] + s.outMin)>>
    ELSE <<Cut(have[1] + s.outMin), Cut(have[2] - s.in)>>

Desired(have, s, ratio) == FitToRange(IF s = None THEN have ELSE Safe(have, s), ratio)

Mins(pair) == <<Cut(pair[1]), Cut(pair[2])>>

Rebalancing == Band # None

\* Bug: the principal that decreaseLiquidity frees is not collected.
Calls_bug(have, range, desired) ==
    LET mint == <<[op |-> "mint", range |-> range, desired |-> desired, min |-> Mins(desired)]>>
    IN  IF Rebalancing /\ args.token # 0
        THEN <<[op |-> "collect", token |-> args.token],
               [op |-> "decrease", token |-> args.token, liquidity |-> seen.nft.liquidity, min |-> Mins(have)]>> \o mint
        ELSE mint

\* The position manager's calls, bundled into one multicall.
Calls(have, range, desired) ==
    LET mint == <<[op |-> "mint", range |-> range, desired |-> desired, min |-> Mins(desired)]>>
    IN  IF Rebalancing /\ args.token # 0
        THEN <<[op |-> "collect", token |-> args.token],
               [op |-> "decrease", token |-> args.token, liquidity |-> seen.nft.liquidity, min |-> Mins(have)],
               [op |-> "collect", token |-> args.token]>> \o mint
        ELSE mint

\* Bug: the impact on the sqrt price is taken for that on the price.
ImpactWithin_bug(s) ==
    \/ s = None
    \/ LET after == SqrtAfter(seen.price, s.in, s.zeroForOne, seen.fee)
       IN  Distance(after.over, after.under) * 100 <= Slip * after.under

\* swap_price_impact: at most the slippage allowed.
ImpactWithin(s) ==
    \/ s = None
    \/ LET after == SqrtAfter(seen.price, s.in, s.zeroForOne, seen.fee)
       IN  Distance(after.over * after.over, after.under * after.under) * 100 <= Slip * after.under * after.under

\* risk_token_inventory_share of token1, at most MaxShare.
ShareWithin(pair, s) == pair[2] * RiskPrice(s) * 100 <= MaxShare * Mark(pair[1], pair[2], s)

Gates(s, desired) ==
    /\ seen.cheap
    /\ ShareWithin(desired, seen.price)
    /\ Slip <= SlipLimit
    /\ ImpactWithin(s)

(***************************************************************************)
(* Actions.                                                                 *)
(***************************************************************************)
\* A run: a fresh mint, a rebalance of an NFT, or of a band that no NFT is named for.  The
\* planner does not look at the wallet; the operator runs it for capital that is there.
StartPlan ==
    /\ ppc = "idle" /\ plans < MaxPlans /\ plans' = plans + 1
    /\ \E half \in Halves, token \in 0..Len(chain.nfts),
          band \in {None} \cup {[lower |-> chain.nfts[k].lower, upper |-> chain.nfts[k].upper] : k \in DOMAIN chain.nfts} :
            /\ token = 0 /\ band = None => Covers(chain.wallet, <<Capital, 0>>)
            /\ token # 0 /\ band # None => band = [lower |-> chain.nfts[token].lower, upper |-> chain.nfts[token].upper]
            /\ args' = [token |-> token, band |-> band, half |-> half]
    /\ ppc' = "slot0" /\ seen' = Blank /\ swap' = None /\ plan' = None /\ todo' = <<>> /\ result' = NoResult

Answered(what) ==
    CASE what = "slot0"    -> seen' = [seen EXCEPT !.price = chain.price]
      [] what = "fee"      -> seen' = [seen EXCEPT !.fee = Fee]
      [] what = "network"  -> \E cheap \in BOOLEAN : seen' = [seen EXCEPT !.cheap = cheap]
      [] what = "position" -> seen' = [seen EXCEPT !.nft = chain.nfts[args.token]]

\* A call that fails ends the run, but a fee that cannot be read is taken for none.
ReadForPlan ==
    /\ ppc \in Reads
    /\ \/ Answered(ppc) /\ ppc' = After(ppc)
       \/ ppc = "fee" /\ ppc' = After(ppc) /\ UNCHANGED seen
       \/ ppc # "fee" /\ ppc' = "idle" /\ seen' = Blank
    /\ args' = IF ppc' = "idle" THEN None ELSE args
    /\ UNCHANGED <<swap, plan, todo, result, plans>>

Build ==
    /\ ppc = "build"
    /\ LET range == Target(seen.price, args.half)
           have  == Inventory
           ratio == Ratio(range, seen.price)
       IN  /\ swap' = Solve(have, ratio)
           /\ LET desired == Desired(have, swap', ratio)
              IN  plan' = [range |-> range, desired |-> desired, calls |-> Calls(have, range, desired),
                           pass |-> Gates(swap', desired)]
    /\ ppc' = "planned"
    /\ UNCHANGED <<args, seen, todo, result, plans>>

\* The orders in which the operator may send what was planned.
Orders == IF swap = None THEN {<<"npm">>}
          ELSE IF Rebalancing THEN {<<"npm">>, <<"npm", "swap">>, <<"swap", "npm">>} ELSE {<<"swap", "npm">>}

Decide ==
    /\ ppc = "planned"
    /\ \/ ppc' = "sending" /\ todo' \in Orders /\ UNCHANGED <<args, seen, swap, plan>>
       \/ ppc' = "idle" /\ args' = None /\ seen' = Blank /\ swap' = None /\ plan' = None /\ UNCHANGED todo
    /\ UNCHANGED <<result, plans>>

Outcome(c, tx) == IF tx = "swap" THEN AfterSwap(c, swap) ELSE AfterMulticall(c, plan.calls)

\* The script stops at the first transaction that reverts.
Send ==
    /\ ppc = "sending" /\ todo # <<>>
    /\ LET end == Outcome(chain, Head(todo))
       IN  /\ chain' = end.chain
           /\ result' = [tx |-> Head(todo), outcome |-> end.outcome, quiet |-> chain.price = seen.price]
           /\ todo' = IF end.outcome = "ok" THEN Tail(todo) ELSE <<>>
    /\ ppc' = IF todo' = <<>> THEN "idle" ELSE "sending"
    /\ UNCHANGED <<moves, args, seen, swap, plan, plans>>

Planner == StartPlan \/ ReadForPlan \/ Build \/ Decide
=============================================================================

------------------------------ MODULE PoolChain ------------------------------
(***************************************************************************)
(* What the planner and the monitor find outside: one Slipstream pool, the  *)
(* operator's wallet and the NFTs of the position manager, and what the     *)
(* calldata of crates/evm/src/lib.rs does there.  Only simulate_v3_swap is  *)
(* code of the repository; the contracts are modelled from how              *)
(* dry_run_rebalance and scripts/fork-sim-rebalance.sh use them.            *)
(* Amounts are pairs <<token0 in 1/Grid, token1>>.  The price moves by      *)
(* itself, and that stands for the impact of the operator's own swap too.   *)
(* Deadlines, approvals, gas, trading fees owed and staking are left out.   *)
(***************************************************************************)
EXTENDS Liquidity

CONSTANTS
    Prices,         \* sqrt prices the pool moves between
    PoolLiquidity,
    Fee,            \* of the pool, in percent
    Capital,        \* token0 in the wallet at first
    None,
    MaxMoves        \* bound: times the price moves

VARIABLES chain, moves

\* What a sqrt price is here.
OnGrid(s) == s \in 1..Grid /\ Grid = s * (Grid \div s)

ASSUME PoolAssumption ==
    /\ \A s \in Prices : OnGrid(s)
    /\ PoolLiquidity \in Nat \ {0} /\ Fee \in 0..99 /\ Capital \in Nat /\ MaxMoves \in Nat

\* simulate_v3_swap, and the pool itself: exact input against the liquidity in range.
SwapOut(s, in, zeroForOne, fee) ==
    LET taken == (in * (100 - fee)) \div 100
    IN  IF zeroForOne
        THEN (PoolLiquidity * s * s * taken) \div (Grid * PoolLiquidity + taken * s)
        ELSE (Grid * taken * PoolLiquidity) \div (s * (s * PoolLiquidity + taken))

\* The sqrt price after the swap over the one before, as a fraction.
SqrtAfter(s, in, zeroForOne, fee) ==
    LET taken == (in * (100 - fee)) \div 100
    IN  IF zeroForOne THEN [over  |-> (Grid \div s) * PoolLiquidity,
                            under |-> (Grid \div s) * PoolLiquidity + taken]
        ELSE [over |-> s * PoolLiquidity + taken, under |-> s * PoolLiquidity]

\* cl_position_amounts: what `liquidity` on a range holds.
Holding(range, liquidity, s) == <<liquidity * Amount0(range, s), liquidity * Amount1(range, s)>>

Plus(a, b)  == <<a[1] + b[1], a[2] + b[2]>>
Minus(a, b) == <<a[1] - b[1], a[2] - b[2]>>
Covers(a, b) == a[1] >= b[1] /\ a[2] >= b[2]

\* A transaction ends with an outcome; one that reverts leaves the chain as it was.
Done(c)        == [outcome |-> "ok", chain |-> c]
Reverts(c, why) == [outcome |-> why, chain |-> c]

\* exactInputSingle
AfterSwap(c, swap) ==
    LET out   == SwapOut(c.price, swap.in, swap.zeroForOne, Fee)
        given == IF swap.zeroForOne THEN <<swap.in, 0>> ELSE <<0, swap.in>>
        got   == IF swap.zeroForOne THEN <<0, out>> ELSE <<out, 0>>
    IN  CASE ~Covers(c.wallet, given) -> Reverts(c, "funds")
          [] Covers(c.wallet, given) /\ out < swap.outMin -> Reverts(c, "slippage")
          [] OTHER -> Done([c EXCEPT !.wallet = Plus(Minus(@, given), got)])

\* collect: what the NFT owes goes to the wallet.
AfterCollect(c, call) ==
    Done([c EXCEPT !.wallet = Plus(@, c.nfts[call.token].owed), !.nfts[call.token].owed = <<0, 0>>])

\* decreaseLiquidity: the principal is owed, not paid.
AfterDecrease(c, call) ==
    LET nft == c.nfts[call.token]
        out == Holding(nft, call.liquidity, c.price)
    IN  CASE call.liquidity > nft.liquidity -> Reverts(c, "liquidity")
          [] call.liquidity <= nft.liquidity /\ ~Covers(out, call.min) -> Reverts(c, "slippage")
          [] OTHER -> Done([c EXCEPT !.nfts[call.token].liquidity = @ - call.liquidity,
                                     !.nfts[call.token].owed = Plus(@, out)])

\* mint: the most liquidity the desired amounts carry.
Minted(range, desired, s) ==
    LET a0 == Amount0(range, s)
        a1 == Amount1(range, s)
        carried == {desired[1] \div a : a \in {a0} \ {0}} \cup {desired[2] \div a : a \in {a1} \ {0}}
    IN  IF carried = {} THEN 0 ELSE CHOOSE l \in carried : \A k \in carried : l <= k

AfterMint(c, call) ==
    LET liquidity == Minted(call.range, call.desired, c.price)
        used      == Holding(call.range, liquidity, c.price)
    IN  CASE liquidity = 0 -> Reverts(c, "liquidity")
          [] liquidity > 0 /\ ~Covers(used, call.min) -> Reverts(c, "slippage")
          [] liquidity > 0 /\ Covers(used, call.min) /\ ~Covers(c.wallet, used) -> Reverts(c, "funds")
          [] OTHER -> Done([c EXCEPT !.wallet = Minus(@, used),
                                     !.nfts = Append(@, [lower |-> call.range.lower, upper |-> call.range.upper,
                                                         liquidity |-> liquidity, owed |-> <<0, 0>>])])

AfterCall(c, call) ==
    CASE call.op = "collect"  -> AfterCollect(c, call)
      [] call.op = "decrease" -> AfterDecrease(c, call)
      [] call.op = "mint"     -> AfterMint(c, call)

\* multicall: all of the calls, or none.
AfterMulticall(c, calls) ==
    LET after[k \in 0..Len(calls)] ==
            IF k = 0 THEN Done(c)
            ELSE IF after[k - 1].outcome = "ok" THEN AfterCall(after[k - 1].chain, calls[k]) ELSE after[k - 1]
        end == after[Len(calls)]
    IN  IF end.outcome = "ok" THEN end ELSE Reverts(c, end.outcome)

ChainInit ==
    /\ chain \in {[price |-> s, wallet |-> <<Capital, 0>>, nfts |-> <<>>] : s \in Prices}
    /\ moves = 0

\* Others trade.
Move ==
    /\ moves < MaxMoves /\ moves' = moves + 1
    /\ \E s \in Prices \ {chain.price} : chain' = [chain EXCEPT !.price = s]
=============================================================================

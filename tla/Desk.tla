-------------------------------- MODULE Desk --------------------------------
(***************************************************************************)
(* The operator's desk: planner runs, the transactions they propose and a   *)
(* monitor on one of the minted NFTs, over one chain that moves between     *)
(* any two of their calls.                                                  *)
(***************************************************************************)
EXTENDS RebalancePlan, PositionMonitor

vars == <<chain, moves, planner, monitor>>

Init == ChainInit /\ PlannerInit /\ MonitorInit

Next ==
    \/ Move /\ UNCHANGED <<planner, monitor>>
    \/ Planner /\ UNCHANGED <<chain, moves, monitor>>
    \/ Send /\ UNCHANGED monitor
    \/ (StartMonitor \/ MonitorStep) /\ UNCHANGED <<chain, moves, planner>>

Spec == Init /\ [][Next]_vars

\* The monitor's process goes on while it lives; its calls come back, if only as errors.
FairSpec == Spec /\ WF_vars(MonitorStep /\ UNCHANGED <<chain, moves, planner>>)

(***************************************************************************)
(* Properties.                                                              *)
(***************************************************************************)
TypeOK ==
    /\ chain.price \in Prices /\ Covers(chain.wallet, <<0, 0>>) /\ moves \in 0..MaxMoves
    /\ \A k \in DOMAIN chain.nfts : chain.nfts[k].liquidity >= 0 /\ Covers(chain.nfts[k].owed, <<0, 0>>)
    /\ ppc \in {"idle", "planned", "sending"} \cup Reads \cup {"build"}
    /\ plan # None => plan.range.lower < plan.range.upper /\ Covers(plan.desired, <<0, 0>>)
    /\ swap # None => swap.in \in Nat
    /\ mpc \in {"off", "row", "ended"} \cup MonitorReads
    /\ watched \in 0..Len(chain.nfts) /\ given \in BOOLEAN

\* The fresh mint is paid for by what the swap left and returned, whatever the price did since
\* it was planned and even if the pool's fee could not be read.
MintIsFunded ==
    result.tx = "npm" /\ args.token = 0 /\ args.band = None => result.outcome # "funds"

\* A rebalance that needs no swap goes through at the price it was planned for, and moves all of
\* the old NFT's principal.
QuietRebalanceSucceeds ==
    result.tx = "npm" /\ args.token # 0 /\ swap = None /\ result.quiet
        /\ plan.range.lower < seen.price /\ seen.price < plan.range.upper /\ seen.nft.liquidity > 0
        => /\ result.outcome = "ok"
           /\ chain.nfts[args.token].liquidity = 0 /\ chain.nfts[args.token].owed = <<0, 0>>

\* The slippage allowed on what the mint desires covers the rounding of its liquidity to whole units.
Ample == \A k \in 1..2 : Slip * plan.desired[k] >= 100 * Ratio(plan.range, seen.price)[k]

\* A swap that passes the gates returns, at the price it was planned for, no less than the square
\* root of 1 - Slip of what the input is worth at mid, so no price of the way is off by more than Slip.
GateBoundsLoss ==
    plan # None /\ swap # None /\ (plan # None => plan.pass) =>
        LET s     == seen.price
            taken == (swap.in * (100 - seen.fee)) \div 100
            mid   == IF swap.zeroForOne THEN (taken * s * s) \div Grid ELSE (taken * Grid) \div (s * s)
            out   == SwapOut(s, swap.in, swap.zeroForOne, seen.fee) + 1
        IN  100 * out * out >= (100 - Slip) * mid * mid

WatchedIsOut ==
    watched # 0 /\ ~(chain.nfts[watched].lower <= chain.price /\ chain.price < chain.nfts[watched].upper)

\* The pool's price is known: its address was given, or getPool answers with one every so often.
PriceIsRead == given \/ []<>(mpc = "row" /\ view.price # 0)

\* When the watched NFT is out of range for good, the kill switch is raised, unless the monitor
\* has ended.  It may never be when the pool is looked up and the factory never names one: the
\* loop then goes on with rows that know no range (main.rs:8570-8607).
AlarmComes ==
    []([]WatchedIsOut /\ PriceIsRead => <>(mpc = "ended" \/ (row # None /\ row.kill # {})))

BothPass(c, first, second) ==
    LET end == Outcome(c, first)
    IN  end.outcome = "ok" /\ Outcome(end.chain, second).outcome = "ok"

\* A rebalance that passes the gates can be carried out, at the price it was planned for, with
\* the principal of its NFT and what the wallet holds: its swap comes between collect and mint.
RebalanceExecutable ==
    ppc = "planned" /\ plan.pass /\ args.token # 0 /\ swap # None /\ chain.price = seen.price /\ chain.nfts[args.token] = seen.nft =>
        BothPass(chain, "npm", "swap") \/ BothPass(chain, "swap", "npm")
=============================================================================

--------------------------- MODULE MCPolicyReplay ---------------------------
(***************************************************************************)
(* Values for the constants of PolicyReplay: every stream of a few swaps    *)
(* over four ticks, one or two blocks apart, and one policy of each kind    *)
(* (the battery of run_baseline_battery_with, on the scale of the grid).    *)
(***************************************************************************)
EXTENDS PolicyReplay

CONSTANTS Length, FirstTicks, Ticks, Gaps

RECURSIVE BlockOf(_, _)
BlockOf(gaps, j) == IF j = 1 THEN 10 ELSE BlockOf(gaps, j - 1) + gaps[j - 1]

MCStreams ==
    {[j \in 1..Length |-> [tick |-> IF j = 1 THEN f ELSE t[j - 1], block |-> BlockOf(g, j)]] :
        f \in FirstTicks, t \in [1..Length - 1 -> Ticks], g \in Gaps}

\* The band is wide for the one hedger that stands down, so that a short can be within it
\* when its position ends.
Mode(kind, half, enter, exit, window, delay) ==
    [kind |-> kind, half |-> half, floor |-> 1, cap |-> 2, k |-> 3, window |-> window,
     enter |-> enter, exit |-> exit, hedge |-> 100,
     band |-> IF kind = "trend_stop" THEN 100 ELSE 25, delay |-> delay]

Battery(delay) ==
    {Mode("static", 2, 2, 1, 4, delay), Mode("centered", 1, 2, 1, 4, delay),
     Mode("volatility", 1, 2, 1, 4, delay), Mode("hard_exit", 1, 2, 1, 4, delay),
     Mode("hedged", 1, 2, 1, 4, delay), Mode("adaptive", 1, 2, 1, 3, delay),
     Mode("gated", 1, 2, 1, 3, delay), Mode("delta", 1, 2, 1, 4, delay),
     Mode("trend_stop", 1, 2, 1, 3, delay), Mode("hedged_wide", 2, 2, 1, 4, delay)}

\* A delay makes no difference to the policies that never act.
MCPolicies   == Battery(0) \cup {m \in Battery(2) : m.kind \notin {"static", "hedged_wide"}}

Uneven == {<<1, 1, 1, 1, 1, 1>>, <<2, 1, 0, 2, 1, 1>>}
=============================================================================

--------------------------- MODULE MCPromotionGate ---------------------------
(***************************************************************************)
(* Values for PromotionGate: streams that share long pasts and then part,   *)
(* jobs of every command and policy, and a replay in which a hedge takes    *)
(* away part of what the price move earns or loses.                         *)
(***************************************************************************)
EXTENDS PromotionGate

\* Ticks and blocks of a stream; two swaps share a block where a gap is zero.
RECURSIVE Walk(_, _, _)
Walk(moves, gaps, j) ==
    IF j = 1 THEN <<[tick |-> 300, block |-> 10, log |-> 0]>>
    ELSE LET before == Walk(moves, gaps, j - 1)
             last == before[j - 1]
         IN  Append(before, [tick |-> last.tick + moves[j - 1], block |-> last.block + gaps[j - 1], log |-> j])

Moves == {<<40, -40, 40, -40, 40, -40, 40>>, <<40, -40, 40, -40, 60, 60, 60>>,
          <<40, -40, 60, 60, 60, -10, 10>>, <<0, 10, -10, -60, -60, -60, -60>>,
          <<0, 10, -10, 10, -10, 10, -10>>, <<-60, -60, -60, -60, 10, 10, 40>>}
Gaps  == {<<1, 1, 1, 1, 1, 1, 1>>, <<1, 2, 0, 0, 1, 1, 2>>}

MCStreams ==
    {Walk(m, g, 8) : m \in Moves, g \in Gaps} \cup {<<>>, Walk(<<10>>, <<1>>, 2)}

\* A fee per swap, what the half width lets through of the move, and the hedge's share of it.
MCReplay(w, mode) ==
    LET move  == w[Len(w)].tick - w[1].tick
        short == IF mode.policy \in {"delta_hedged", "delta_trend_stop", "hedged_wide"} THEN 100 ELSE mode.hedge
        pnl   == IF mode.policy = "hold_50_50" THEN -move
                 ELSE 10 * Len(w) - (move * (100 - short)) \div 100 - mode.half
    IN  [pnl |-> 100 * pnl, dd |-> IF pnl < 0 THEN -100 * pnl ELSE 0,
         rebalances |-> IF move > mode.half THEN 1 ELSE 0]

Params == [narrow |-> 2, wide |-> 6, threshold |-> 6, hedge |-> 50, anchor |-> TRUE]
Spec0  == [model |-> "clmm_tick_replay", fee |-> 5, decimals |-> TRUE, anchor |-> FALSE,
           parses |-> TRUE, invert |-> FALSE]

Rule(range, volatile, up, down) ==
    [g \in Regimes |-> CASE g = "range" -> range [] g = "volatile_range" -> volatile
                         [] g = "trend_up_risk" -> up [] g = "trend_down_money" -> down]

HedgeRule  == Rule(100, 75, 0, 25)
SwitchRule == Rule("delta_hedged", "narrow_rebalance", "stand_down_cash", "hedged_wide")
BlendRule  == Rule(0, 50, 100, 100)

Job(command, policy, configs, rule) ==
    [command |-> command, policy |-> policy, configs |-> configs, hedges |-> {0, 50},
     rule |-> rule, params |-> Params, spec |-> Spec0]

Apart    == <<[size |-> 3, step |-> 3, min |-> 2], [size |-> 2, step |-> 2, min |-> 2]>>
Overlaps == <<[size |-> 4, step |-> 2, min |-> 1]>>

GateJobs ==
    {Job("gate", p[1], cfg, p[2]) : cfg \in {Apart, Overlaps},
        p \in {<<"lagged_regime_rule", HedgeRule>>, <<"lagged_policy_switch", SwitchRule>>,
               <<"lagged_policy_blend", BlendRule>>, <<"delta_hedged", HedgeRule>>,
               <<"delta_trend_stop", HedgeRule>>, <<"hedged_wide", HedgeRule>>}}

OtherJobs ==
    {Job("windows", "hedged_wide", Overlaps, HedgeRule), Job("grid", "hedged_wide", Overlaps, HedgeRule),
     Job("swaps", "hedged_wide", Overlaps, HedgeRule),
     Job("gate", "delta_hedged", <<[size |-> 4, step |-> 2, min |-> 4]>>, HedgeRule),
     [Job("gate", "lagged_regime_rule", Apart, HedgeRule) EXCEPT !.spec.invert = TRUE]}

RefusedJobs ==
    {[Job("grid", "hedged_wide", Overlaps, HedgeRule) EXCEPT !.hedges = {}],
     [Job("grid", "hedged_wide", Overlaps, HedgeRule) EXCEPT !.hedges = {0, 200}],
     [Job("gate", "hedged_wide", <<>>, HedgeRule) EXCEPT !.configs = <<>>],
     Job("gate", "hedged_wide", <<[size |-> 2, step |-> 0, min |-> 1]>>, HedgeRule),
     Job("windows", "hedged_wide", <<[size |-> 0, step |-> 1, min |-> 1]>>, HedgeRule),
     Job("gate", "lagged_policy_blend", Apart, Rule(0, 50, 100, 101)),
     [Job("gate", "lagged_regime_rule", Apart, HedgeRule) EXCEPT !.spec.model = "dlmm_bin_replay"],
     [Job("gate", "hedged_wide", Apart, HedgeRule) EXCEPT !.params.anchor = FALSE],
     [Job("swaps", "hedged_wide", Apart, HedgeRule) EXCEPT !.spec.parses = FALSE]}

\* The grid takes its window and its step as they come: no step, more than there is, no window.
Unchecked == {<<4, 0, 1>>, <<9, 0, 1>>, <<0, 1, 0>>, <<0, 1, 1>>, <<0, 0, 0>>}
GridJobs  == {Job("grid", "hedged_wide", <<[size |-> u[1], step |-> u[2], min |-> u[3]]>>, HedgeRule) : u \in Unchecked}

MCJobs      == GateJobs \cup OtherJobs \cup RefusedJobs \cup GridJobs
OverlapJobs == {Job("gate", "lagged_regime_rule", Overlaps, HedgeRule)}
=============================================================================

--------------------------- MODULE PromotionGate ---------------------------
(***************************************************************************)
(* The rolling-window commands of apps/cli/src/main.rs over one normalized  *)
(* swap stream: replay-normalized-windows, replay-normalized-hedge-grid and *)
(* replay-promotion-gate.                                                   *)
(*                                                                          *)
(* Covered: the order in which reports are built, each with its own read of *)
(* the spec and the stream, every early exit, the window rows, the regime   *)
(* labels, the three lagged rules, the score table and the verdict.         *)
(* Abstracted: a swap is a tick and a block; run_policy is the constant     *)
(* Replay, a function of the window and the mode (PolicyReplay models it);  *)
(* dollars, APRs and percentages are integers, an average is a total next   *)
(* to a number of rows.  Left out: fee-minus-lvr columns and printing.      *)
(***************************************************************************)
EXTENDS WindowStats, SequencesExt
L == INSTANCE Liquidity WITH Grid <- 1

CONSTANTS
    Streams, Jobs,              \* the inputs
    Replay(_, _),               \* swaps, mode -> [pnl, dd, rebalances]
    AprScale,                   \* capital, seconds and percent of window_apr_pct
    MinP05, MinVsHold, MinWinPct, MaxDrawdown   \* the thresholds of the gate

Swap      == [tick : Int, block : Nat, log : Nat]
Regimes   == {"range", "volatile_range", "trend_up_risk", "trend_down_money"}
NoVerdict == "none"
Verdicts  == {"candidate_shadow", "reject_replay", "needs_more_data"}

\* The policies a lagged_policy_switch may name.
SwitchPolicies == {"stand_down_cash", "hold_50_50", "passive_wide", "narrow_rebalance",
                   "delta_hedged", "hedged_wide"}

ASSUME StreamAssumption == Streams \subseteq Seq(Swap)

ASSUME JobAssumption ==
    \A j \in Jobs :
        /\ j.command \in {"swaps", "windows", "grid", "gate"}
        /\ j.configs \in Seq([size : Nat, step : Nat, min : Nat])
        /\ j.command \in {"windows", "grid"} => Len(j.configs) = 1
        /\ j.hedges \subseteq Int /\ IsFiniteSet(j.hedges) /\ j.params.hedge \in Int
        /\ j.rule \in [Regimes -> IF j.command = "gate" /\ j.policy = "lagged_policy_switch"
                                  THEN SwitchPolicies ELSE Int]

ASSUME ThresholdAssumption == {AprScale, MinP05, MinVsHold, MinWinPct, MaxDrawdown} \subseteq Int
ASSUME NoneAssumption == None \notin Int

VARIABLES
    stream,     \* the swaps of the file, after inversion
    job,        \* command line and replay spec
    pc,         \* start, config, report, windows, done, failed
    c,          \* the window configuration being evaluated
    queue,      \* hedge fractions whose report is still to be built
    start,      \* swap_start of the next window
    rows,       \* rows of the report being built
    kept,       \* rows of the finished reports of this configuration
    picks,      \* for every evaluated configuration, the rows its policy selected
    table,      \* what is printed, in the shape of the command
    verdict

vars == <<stream, job, pc, c, queue, start, rows, kept, picks, table, verdict>>

Gate   == job.command = "gate"
SeveralHedges == job.command = "grid" \/ (Gate /\ job.policy = "lagged_regime_rule")

Lagged == {"lagged_regime_rule", "lagged_policy_switch", "lagged_policy_blend"}

(***************************************************************************)
(* The battery: one mode per policy, with the parameters it derives.        *)
(***************************************************************************)
TrendEnter(threshold) == Max({threshold \div 2, 2})

Battery(p, hedge) ==
    LET mode(policy, half, enter, exit) ==
            [policy |-> policy, half |-> half, enter |-> enter, exit |-> exit, hedge |-> 0]
        stop == TrendEnter(p.threshold)
    IN  <<mode("hold_50_50", 0, 0, 0), mode("passive_wide", p.wide, 0, 0),
          mode("narrow_static", p.narrow, 0, 0), mode("narrow_rebalance", p.narrow, 0, 0),
          mode("vol_scaled_rebalance", p.narrow \div 2, 0, 0), mode("hard_exit_stop", p.narrow, 0, 0),
          [mode("hedged_narrow", p.narrow, 0, 0) EXCEPT !.hedge = hedge],
          mode("adaptive_regime", p.narrow \div 2, p.threshold, 0),
          mode("regime_gated", p.narrow \div 2, p.threshold, p.threshold \div 2),
          mode("delta_hedged", p.narrow, 0, 0),
          mode("delta_trend_stop", p.narrow, stop, Max({stop \div 2, 1})),
          mode("hedged_wide", p.wide, 0, 0)>>

(***************************************************************************)
(* Windows.                                                                 *)
(***************************************************************************)
Window(s, from, size) == SubSeq(s, from + 1, from + size)

\* classify_window_regime: strength is |delta| over stddev (at least 1) times sqrt(n).
Regime(w) ==
    LET ticks == [j \in DOMAIN w |-> w[j].tick]
        n == Len(w)
        m == n - 1
        delta == L!Displacement(ticks)
        rough == L!Roughness(ticks)
        trend == /\ L!Distance(delta, 0) >= 60
                 /\ delta * delta * m * m >= n * L!Larger(rough, m * m)
    IN  IF trend /\ delta > 0 THEN "trend_up_risk"
        ELSE IF trend THEN "trend_down_money"
        ELSE IF m > 0 /\ rough >= 400 * m * m THEN "volatile_range"
        ELSE "range"

\* No APR for a window within one block.
Apr(pnl, w) == LET span == w[Len(w)].block - w[1].block
               IN  IF span <= 0 THEN None ELSE (pnl * AprScale) \div span

WindowRow(w, from, index, mode) ==
    LET result == Replay(w, mode)
    IN  [w |-> index, start |-> from, policy |-> mode.policy, hedge |-> mode.hedge,
         regime |-> Regime(w), pnl |-> result.pnl,
         vsHold |-> result.pnl - Replay(w, Battery(job.params, 0)[1]).pnl,
         apr |-> Apr(result.pnl, w), dd |-> result.dd, rebalances |-> result.rebalances]

\* A window without swaps has no rows.
WindowRows(w, from, index, hedge) ==
    LET battery == Battery(job.params, hedge)
    IN  IF w = <<>> THEN <<>> ELSE [j \in DOMAIN battery |-> WindowRow(w, from, index, battery[j])]

Of(policy, rs)    == Pick(rs, {j \in DOMAIN rs : rs[j].policy = policy})
Windows(rs)       == {rs[j].w : j \in DOMAIN rs}
Policies(rs)      == {rs[j].policy : j \in DOMAIN rs}

(***************************************************************************)
(* The lagged rules: window 0 is skipped, then the label of the window      *)
(* before decides.                                                          *)
(***************************************************************************)
\* Bug: a window is decided by its own label.
PriorRegime_bug(rs, w) == rs[CHOOSE j \in DOMAIN rs : rs[j].w = w].regime

\* The label of the previous index: the first of its rows, they all agree.
PriorRegime(rs, w) == rs[CHOOSE j \in DOMAIN rs : rs[j].w + 1 = w].regime

Choice(rs, w) == job.rule[PriorRegime(rs, w)]

\* summarize_lagged_regime_rule_rows: the fixed hedge nearest to the rule's, the first on a tie.
NearestHedge(rs, w, target) ==
    LET of      == {j \in DOMAIN rs : rs[j].w = w}
        away(j) == L!Distance(rs[j].hedge, target)
    IN  rs[CHOOSE j \in of : \A i \in of : away(j) < away(i) \/ (away(j) = away(i) /\ j <= i)]

\* The row of a policy in a window: a report has one.
RowOf(rs, w, policy) == rs[CHOOSE j \in DOMAIN rs : rs[j].w = w /\ rs[j].policy = policy]

\* stand_down_cash_row: no position at all, measured against hold.
CashRow(hold) ==
    [hold EXCEPT !.policy = "stand_down_cash", !.pnl = 0, !.vsHold = -hold.pnl,
                 !.apr = 0, !.dd = 0, !.rebalances = 0]

\* blend_window_rows: wide percent of hedged_wide, the rest of delta_hedged.
BlendRow(wide, d, h) ==
    LET mix(x, y) == ((100 - wide) * x + wide * y) \div 100
    IN  [d EXCEPT !.policy = "lagged_policy_blend", !.pnl = mix(@, h.pnl), !.vsHold = mix(@, h.vsHold),
                  !.apr = IF None \in {@, h.apr} THEN None ELSE mix(@, h.apr),
                  !.dd = mix(@, h.dd), !.rebalances = mix(@, h.rebalances)]

LaggedRow(policy, rs, w) ==
    CASE policy = "lagged_regime_rule"   -> NearestHedge(rs, w, Choice(rs, w))
      [] policy = "lagged_policy_switch" ->
            IF Choice(rs, w) = "stand_down_cash" THEN CashRow(RowOf(rs, w, "hold_50_50"))
            ELSE RowOf(rs, w, Choice(rs, w))
      [] policy = "lagged_policy_blend"  ->
            BlendRow(Choice(rs, w), RowOf(rs, w, "delta_hedged"), RowOf(rs, w, "hedged_wide"))

\* What a policy of the gate contributes of the rows of all reports of a configuration.
Selected(policy, rs) ==
    IF policy \notin Lagged THEN Of(policy, rs)
    ELSE LET decided == {w \in Windows(rs) : w > 0}
             row     == [w \in decided |-> LaggedRow(policy, rs, w)]
         IN  [j \in 1..Cardinality(decided) |-> row[Ascending(decided)[j]]]

(***************************************************************************)
(* The score table of the hedge grid.                                       *)
(***************************************************************************)
\* hedge_grid_score, times 20 * windows * aprs, which all rows of a table share.
Score(s) ==
    IF s.p05 = None THEN None
    ELSE 20 * s.p05 * s.windows * s.aprs + 40000 * s.wins * s.aprs
         + s.apr * s.windows - 500 * s.dd * s.windows * s.aprs

GridKeys(rs)   == {[policy |-> rs[j].policy, hedge |-> rs[j].hedge] : j \in DOMAIN rs}
Matching(k, rs) == Pick(rs, {j \in DOMAIN rs : rs[j].policy = k.policy /\ rs[j].hedge = k.hedge})

GridRow(of) == LET s == Summary(of) IN [policy |-> of[1].policy, hedge |-> of[1].hedge,
                                        score |-> Score(s), stats |-> s]
Rank(p) == CHOOSE j \in 1..3 : <<"delta_hedged", "hedged_narrow", "hedged_wide">>[j] = p

Before(a, b) ==
    LET tie == <<Rank(a.policy), a.hedge>> = <<Rank(b.policy), b.hedge>>
    IN  /\ ~tie
        /\ \/ b.score = None /\ a.score # None
           \/ b.score # None /\ a.score # None /\ a.score > b.score
           \/ /\ a.score = b.score
              /\ \/ Rank(a.policy) < Rank(b.policy)
                 \/ a.policy = b.policy /\ a.hedge < b.hedge

GridTable(rs) == SetToSortSeq({GridRow(of) : of \in {Matching(k, rs) : k \in GridKeys(rs)}}, Before)

\* summarize_hedge_regime_rows: the same rows by label; the printed order is left out.
RegimeTable(rs) ==
    LET labelled(of, g) == Pick(of, {j \in DOMAIN of : of[j].regime = g})
        groups == {labelled(of, g) : of \in {Matching(k, rs) : k \in GridKeys(rs)}, g \in Regimes} \ {<<>>}
    IN  {[policy |-> of[1].policy, hedge |-> of[1].hedge, regime |-> of[1].regime,
          stats |-> Summary(of)] : of \in groups}

\* summarize_window_rows: one line per policy; the printed order is left out.
PolicyTable(rs) == {[policy |-> of[1].policy, stats |-> Summary(of)] : of \in {Of(p, rs) : p \in Policies(rs)}}

(***************************************************************************)
(* The gate.                                                                *)
(***************************************************************************)
\* promotion_window_row_from_metrics: what one configuration fails on.
Reasons(config, s) ==
    {r \in {"windows", "win_rate", "mean_vs_hold", "p05_apr", "worst_dd"} :
        \/ r = "windows" /\ s.windows < config.min
        \/ r = "win_rate" /\ 100 * s.wins < MinWinPct * s.windows
        \/ r = "mean_vs_hold" /\ s.vsHold < MinVsHold * s.windows
        \/ r = "p05_apr" /\ (s.p05 = None \/ s.p05 < MinP05)
        \/ r = "worst_dd" /\ s.dd > MaxDrawdown}

Verdict(rs) ==
    IF \A j \in DOMAIN rs : rs[j].reasons = {} THEN "candidate_shadow"
    ELSE IF \E j \in DOMAIN rs : LET s == rs[j].stats IN s.vsHold < 0 \/ s.p05 = None \/ s.p05 < 0
         THEN "reject_replay"
    ELSE "needs_more_data"

(***************************************************************************)
(* Command lines.                                                           *)
(***************************************************************************)
DefaultConfigs == <<[size |-> 25, step |-> 10, min |-> 4], [size |-> 40, step |-> 15, min |-> 4],
                    [size |-> 60, step |-> 20, min |-> 3], [size |-> 80, step |-> 25, min |-> 3]>>

Configs == IF Gate /\ job.configs = <<>> THEN DefaultConfigs ELSE job.configs
Config  == Configs[c]

Positive(config) == config.size > 0 /\ config.step > 0
RuleValues       == {job.rule[g] : g \in Regimes}
Fraction(f)      == 0 <= f /\ f <= 150

\* to_replay_params: a fee, both decimals, and a dollar anchor in the spec or on the command line.
Usable == job.spec.fee > 0 /\ job.spec.decimals /\ (job.params.anchor \/ job.spec.anchor)

\* What every report needs of its files, which it reads anew.
Readable == job.spec.model = "clmm_tick_replay" /\ Usable /\ job.spec.parses

\* What a command refuses before it reads the stream.
Refused ==
    \/ job.command = "windows" /\ ~Positive(job.configs[1])
    \/ job.command = "grid" /\ (job.hedges = {} \/ \E f \in RuleValues : ~Fraction(f))
    \/ Gate /\ (\E j \in DOMAIN Configs : ~Positive(Configs[j]) \/ Configs[j].min = 0)
    \/ Gate /\ ~Usable

\* Bug: the gate replays the given fractions only.
Fractions_bug == IF Gate /\ job.policy # "lagged_regime_rule" THEN {job.params.hedge} ELSE job.hedges

\* One report per fraction, in increasing order; the gate adds the fractions of its rule.
Fractions ==
    IF Gate /\ job.policy = "lagged_regime_rule" THEN job.hedges \cup RuleValues
    ELSE IF job.command = "grid" THEN job.hedges
    ELSE {job.params.hedge}

TypeOK ==
    /\ stream \in Seq(Swap) /\ job \in Jobs
    /\ pc \in {"start", "config", "report", "windows", "done", "failed"}
    /\ c \in 1..Len(Configs) + 1 /\ queue \in Seq(Int) /\ start \in Nat
    /\ \A rs \in {rows, kept} \cup {picks[j] : j \in DOMAIN picks} : \A j \in DOMAIN rs :
            /\ rs[j].regime \in Regimes /\ rs[j].w \in Nat /\ rs[j].dd >= 0
            /\ rs[j].apr \in Int \cup {None}
    /\ verdict \in Verdicts \cup {NoVerdict}
    /\ verdict # NoVerdict => pc = "done" /\ Len(picks) = Len(Configs)

\* load_normalized_swaps: by block, then by log index, otherwise in the order of the file.
Earlier(a, b) == a.block < b.block \/ (a.block = b.block /\ a.log < b.log)

Insert(sorted, swap) ==
    LET p == Cardinality({j \in DOMAIN sorted : ~Earlier(swap, sorted[j])})
    IN  SubSeq(sorted, 1, p) \o <<swap>> \o SubSeq(sorted, p + 1, Len(sorted))

Loaded(s) ==
    LET sorted[k \in 0..Len(s)] == IF k = 0 THEN <<>> ELSE Insert(sorted[k - 1], s[k])
    IN  sorted[Len(s)]

\* inverted(): the price of the pair the other way round.
Oriented(s) == IF job.spec.invert THEN [j \in DOMAIN s |-> [s[j] EXCEPT !.tick = -@]] ELSE s

Init ==
    /\ job \in Jobs
    /\ stream \in {Oriented(Loaded(s)) : s \in Streams}
    /\ pc = "start" /\ c = 1 /\ start = 0 /\ verdict = NoVerdict
    /\ queue = <<>> /\ rows = <<>> /\ kept = <<>> /\ picks = <<>> /\ table = <<>>

Fail == pc' = "failed" /\ UNCHANGED <<stream, job, c, queue, start, rows, kept, picks, table, verdict>>

\* replay-normalized-swaps: the whole stream is one window.
ReplayWhole ==
    /\ pc = "start" /\ job.command = "swaps"
    /\ IF ~Readable \/ stream = <<>> THEN Fail
       ELSE /\ pc' = "done"
            /\ table' = WindowRows(stream, 0, 0, job.params.hedge)
            /\ UNCHANGED <<stream, job, c, queue, start, rows, kept, picks, verdict>>

Start ==
    /\ pc = "start" /\ job.command # "swaps"
    /\ IF Refused THEN Fail
       ELSE pc' = "config" /\ UNCHANGED <<stream, job, c, queue, start, rows, kept, picks, table, verdict>>

\* A configuration begins; only the blend rule is checked here.
OpenConfig ==
    /\ pc = "config" /\ c <= Len(Configs)
    /\ IF Gate /\ job.policy = "lagged_policy_blend" /\ (\E f \in RuleValues : f \notin 0..100)
       THEN Fail
       ELSE /\ pc' = "report"
            /\ queue' = Ascending(Fractions)
            /\ kept' = <<>>
            /\ UNCHANGED <<stream, job, c, start, rows, picks, table, verdict>>

\* build_normalized_window_report for the next fraction, up to the windows.
BeginReport ==
    /\ pc = "report" /\ queue # <<>>
    /\ IF \/ SeveralHedges /\ ~Fraction(queue[1])
          \/ ~Readable \/ Len(stream) < Config.size
       THEN Fail
       ELSE /\ pc' = "windows" /\ start' = 0 /\ rows' = <<>>
            /\ UNCHANGED <<stream, job, c, queue, kept, picks, table, verdict>>

\* window_index; a step of zero never leaves the first window.
WindowIndex == IF Config.step = 0 THEN 0 ELSE start \div Config.step

\* build_window_rows: one window, the whole battery.  With a step of zero the same rows are
\* added again and again; they are kept once, as nothing reads them before the loop ends.
ReplayWindow ==
    /\ pc = "windows" /\ start + Config.size <= Len(stream)
    /\ rows' = IF Config.step = 0 /\ rows # <<>> THEN rows
               ELSE rows \o WindowRows(Window(stream, start, Config.size), start, WindowIndex, queue[1])
    /\ start' = start + Config.step
    /\ UNCHANGED <<stream, job, pc, c, queue, kept, picks, table, verdict>>

\* What a report contributes: the regime rule and the grid take hedged_narrow of every
\* fraction, the grid the two delta hedges of its first fraction, the others everything.
Contribution ==
    IF SeveralHedges
    THEN Pick([j \in DOMAIN rows |-> [rows[j] EXCEPT !.hedge = queue[1]]],
              {j \in DOMAIN rows :
                \/ rows[j].policy = "hedged_narrow"
                \/ /\ job.command = "grid" /\ queue[1] = Min(Fractions)
                   /\ rows[j].policy \in {"delta_hedged", "hedged_wide"}})
    ELSE rows

\* Bug: a report with too few windows is dropped instead of ending the command.
FinishReport_bug ==
    /\ pc = "windows" /\ start + Config.size > Len(stream)
    /\ Cardinality(Windows(rows)) >= Config.min
    /\ pc' = "report" /\ queue' = Tail(queue) /\ kept' = kept \o Contribution
    /\ UNCHANGED <<stream, job, c, start, rows, picks, table, verdict>>

FinishReport ==
    /\ pc = "windows" /\ start + Config.size > Len(stream)
    /\ IF Cardinality(Windows(rows)) < Config.min THEN Fail
       ELSE /\ pc' = "report" /\ queue' = Tail(queue)
            /\ kept' = kept \o Contribution
            /\ UNCHANGED <<stream, job, c, start, rows, picks, table, verdict>>

\* The configuration is judged, or the table of the other two commands is made.
Summarize ==
    /\ pc = "report" /\ queue = <<>>
    /\ IF ~Gate
       THEN /\ pc' = "done"
            /\ table' = IF job.command = "grid"
                        THEN [scores |-> GridTable(kept), regimes |-> RegimeTable(kept)]
                        ELSE PolicyTable(kept)
            /\ picks' = IF job.command = "grid"
                        THEN <<Selected("lagged_regime_rule", Of("hedged_narrow", kept))>> ELSE picks
            /\ UNCHANGED <<stream, job, c, queue, start, rows, kept, verdict>>
       ELSE IF Selected(job.policy, kept) = <<>> THEN Fail
       ELSE /\ pc' = "config" /\ c' = c + 1
            /\ picks' = Append(picks, Selected(job.policy, kept))
            /\ LET stats == Summary(picks'[c])
               IN  table' = Append(table, [stats |-> stats, reasons |-> Reasons(Config, stats)])
            /\ UNCHANGED <<stream, job, queue, start, rows, kept, verdict>>

\* Bug: the verdict does not wait for the longer windows.
Decide_bug ==
    /\ pc = "config" /\ c > 1
    /\ pc' = "done" /\ verdict' = Verdict(table)
    /\ UNCHANGED <<stream, job, c, queue, start, rows, kept, picks, table>>

Decide ==
    /\ pc = "config" /\ c > Len(Configs)
    /\ pc' = "done" /\ verdict' = Verdict(table)
    /\ UNCHANGED <<stream, job, c, queue, start, rows, kept, picks, table>>

Next == ReplayWhole \/ Start \/ OpenConfig \/ BeginReport \/ ReplayWindow \/ FinishReport \/ Summarize \/ Decide

\* One process runs its loops to the end.
Spec == Init /\ [][Next]_vars /\ WF_vars(Next)

(***************************************************************************)
(* Properties.                                                              *)
(***************************************************************************)
\* The labels another stream gives to the windows of a configuration.
Labelled(s, config) ==
    [j \in 1 .. (Len(s) - config.size) \div config.step + 1 |->
        [w |-> j - 1, regime |-> Regime(Window(s, (j - 1) * config.step, config.size))]]

SamePast(s, t, n) == Len(s) = Len(t) /\ SubSeq(s, 1, n) = SubSeq(t, 1, n)

\* What a lagged rule chooses for a window, seen in the row it selected.
Chosen(r) == CASE job.policy = "lagged_regime_rule"   -> r.hedge
               [] job.policy = "lagged_policy_switch" -> r.policy

DecidedByThePast(k) ==
    \A t \in {Oriented(Loaded(s)) : s \in Streams}, j \in DOMAIN picks[k] :
        SamePast(stream, t, picks[k][j].start) =>
            Chosen(picks[k][j]) = Choice(Labelled(t, Configs[k]), picks[k][j].w)

Choosing == Gate /\ job.policy \in {"lagged_regime_rule", "lagged_policy_switch"}

\* With windows that do not overlap, a lagged rule's choice for a window is a function of the
\* swaps before it: on any other stream with the same past, the same rule chooses the same.
NoLookahead ==
    Choosing => \A k \in DOMAIN picks : Configs[k].step >= Configs[k].size => DecidedByThePast(k)

\* The documented promise for every configuration: "a no-lookahead lagged_regime_rule"
\* (docs/hot-pool-autoresearch.md:355), the configurations with overlapping windows included.
NoLookaheadEver == Choosing => \A k \in DOMAIN picks : DecidedByThePast(k)

\* The gate judges its rule with the very fractions the rule names, never with a neighbour, and
\* no window before the second is counted.
ExactHedge ==
    Gate /\ job.policy = "lagged_regime_rule" =>
        \A k \in DOMAIN picks : \A j \in DOMAIN picks[k] :
            picks[k][j].w = j /\ picks[k][j].hedge \in RuleValues

\* Every row that decides a verdict replays its own stretch of the stream.
Evidence(r, config) ==
    LET w == Window(stream, r.start, config.size)
        mode == CHOOSE m \in Range(Battery(job.params, r.hedge)) : m.policy = r.policy
    IN  r.pnl = Replay(w, mode).pnl /\ r.apr = Apr(r.pnl, w)

\* A candidate for shadow monitoring has, in every window configuration, enough windows, and
\* none of them lost more than the drawdown allowed or stayed below the APR asked for; with up
\* to twenty windows the fifth percentile is the worst one.  Windows within one block have no APR.
CandidateIsSafe ==
    verdict = "candidate_shadow" =>
        \A k \in DOMAIN Configs :
            /\ Len(picks[k]) >= Configs[k].min
            /\ \E j \in DOMAIN picks[k] : picks[k][j].apr # None
            /\ \A j \in DOMAIN picks[k] :
                /\ picks[k][j].dd <= MaxDrawdown
                /\ Len(picks[k]) <= 20 => picks[k][j].apr = None \/ picks[k][j].apr >= MinP05
                /\ picks[k][j].policy \in {"hedged_narrow", "delta_hedged", "hedged_wide", "delta_trend_stop"}
                        => Evidence(picks[k][j], Configs[k])

Ended == pc \in {"done", "failed"}

\* Only the grid does not refuse a step of zero (main.rs:6862, against 6606 and 7151).
Endless ==
    /\ job.command = "grid" /\ ~Refused /\ Readable /\ Fraction(Min(job.hedges))
    /\ job.configs[1].step = 0 /\ job.configs[1].size <= Len(stream)

\* Every command comes to an end, a report or an error, but for one: the hedge grid with a step
\* of zero, on a stream that has a window at all, replays that window for ever.
JobEnds == (Endless => []~Ended) /\ (~Endless => <>Ended)
=============================================================================

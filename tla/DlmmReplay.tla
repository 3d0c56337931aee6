----------------------------- MODULE DlmmReplay -----------------------------
(***************************************************************************)
(* The bin replay of crates/backtest/src/dlmm.rs and the two commands of    *)
(* apps/cli/src/main.rs that run it: replay-dlmm-bins over a whole file,    *)
(* replay-dlmm-bin-windows over rolling windows with a gate at the end.     *)
(* The three modes read the same observations, so they advance together.    *)
(* Abstracted: one bin doubles the price (the code: 1 + bin_step / 10000),  *)
(* dollars are integers and divisions round down, APRs are scaled, an       *)
(* average is a total next to a number.  Left out: caveats and printing.    *)
(***************************************************************************)
EXTENDS WindowStats

CONSTANTS
    Streams, Jobs,              \* the inputs
    Capital, FeeBps, CostFixed, SlipBps, AprScale,
    MinP05, MinVsHold, MinWinPct, MaxDrawdown, MaxRatioPct

Observation == [block : Nat, bin : Int, liquidity : Nat, amount : Nat]

ASSUME StreamAssumption == Streams \subseteq Seq(Observation)
ASSUME JobAssumption == \A j \in Jobs : /\ j.command \in {"bins", "windows"} /\ j.half \in Int
                                         /\ j.size \in Nat /\ j.step \in Nat /\ j.min \in Nat
ASSUME MoneyAssumption == {Capital, FeeBps, CostFixed, SlipBps} \subseteq Nat /\ AprScale \in Int
ASSUME GateAssumption == {MinP05, MinVsHold, MinWinPct, MaxDrawdown, MaxRatioPct} \subseteq Int
ASSUME NoneAssumption == None \notin Int

Modes == {"hold_inventory", "static_bin_range", "centered_bin_rebalance"}

VARIABLES
    stream,     \* the observations, by block
    job,        \* command line and replay spec
    pc,         \* start, open, observe, done, failed
    start,      \* observation_start of the window
    i,          \* observations of the window that were read
    pos,        \* for every mode, the loop's variables
    rows,       \* one row per finished window and mode
    table       \* for every mode, its summary and its gate reasons

vars == <<stream, job, pc, start, i, pos, rows, table>>

\* load_dlmm_bin_observations: by block only, otherwise in the order of the file.
Insert(sorted, o) ==
    LET p == Cardinality({j \in DOMAIN sorted : sorted[j].block <= o.block})
    IN  SubSeq(sorted, 1, p) \o <<o>> \o SubSeq(sorted, p + 1, Len(sorted))

Loaded(s) ==
    LET sorted[k \in 0..Len(s)] == IF k = 0 THEN <<>> ELSE Insert(sorted[k - 1], s[k])
    IN  sorted[Len(s)]

Size == IF job.command = "bins" THEN Len(stream) ELSE job.size
Half == Max({job.half, 0})
Obs  == stream[start + i + 1]

(***************************************************************************)
(* Values.                                                                  *)
(***************************************************************************)
\* dlmm_bin_price_ratio over k bins.
Doubled(k) == LET price[j \in 0..k] == IF j = 0 THEN 1 ELSE 2 * price[j - 1] IN price[k]

\* dlmm_inventory_value_usd: half the capital is held in each token from the entry on.
InventoryValue(deployed, entry, bin) ==
    (deployed + (IF bin >= entry THEN deployed * Doubled(bin - entry)
                                 ELSE deployed \div Doubled(entry - bin))) \div 2

\* dlmm_fee_share_usd: the share of the active bin's liquidity.
FeeShare(deployed, o) ==
    IF o.amount <= 0 \/ o.liquidity <= 0 \/ deployed <= 0 THEN 0
    ELSE (o.amount * FeeBps * deployed) \div (10000 * (o.liquidity + deployed))

Mark(p, bin)   == InventoryValue(p.deployed, p.entry, bin)
Equity(p, bin) == Mark(p, bin) + p.fees - p.costs

InRange(p, bin) == p.entry - Half <= bin /\ bin <= p.entry + Half

\* Bug: the entry bin stays behind.
Recenter_bug(p, bin) ==
    LET value == Max({Mark(p, bin), 0})
    IN  [p EXCEPT !.costs = @ + (value * SlipBps) \div 10000 + CostFixed,
                  !.deployed = value, !.rebalances = @ + 1]

\* The centered range follows the active bin with the value it has then.
Recenter(p, bin) ==
    LET value == Max({Mark(p, bin), 0})
    IN  [p EXCEPT !.costs = @ + (value * SlipBps) \div 10000 + CostFixed,
                  !.deployed = value, !.entry = bin, !.rebalances = @ + 1]

\* Bug: fees are charged to the position instead of credited.
Collect_bug(p, o) == [p EXCEPT !.inRange = @ + 1, !.costs = @ + FeeShare(p.deployed, o)]

Collect(p, o) == [p EXCEPT !.inRange = @ + 1, !.fees = @ + FeeShare(p.deployed, o)]

\* Bug: the drawdown of a step is not compared with the earlier ones, and the peak not kept.
Track_bug(p, bin) == [p EXCEPT !.peak = Equity(p, bin), !.dd = Max({0, @ - Equity(p, bin)})]

\* The peak starts at the capital.
Track(p, bin) ==
    LET peak == Max({p.peak, Equity(p, bin)})
    IN  [p EXCEPT !.peak = peak, !.dd = Max({@, peak - Equity(p, bin)})]

\* One observation of run_dlmm_bin_policy, or of dlmm_hold_max_drawdown.
Read(mode, p, o) ==
    Track(IF mode = "hold_inventory" THEN p
          ELSE IF InRange(p, o.bin) THEN Collect(p, o)
          ELSE IF mode = "centered_bin_rebalance" THEN Recenter(p, o.bin)
          ELSE p, o.bin)

Opened(bin) == [deployed |-> Capital, entry |-> bin, fees |-> 0, costs |-> 0, rebalances |-> 0,
                inRange |-> 0, peak |-> Capital, dd |-> 0]

(***************************************************************************)
(* Rows and the gate.                                                       *)
(***************************************************************************)
\* dlmm_annualized_apr: none for one observation or within one block.
Apr(pnl, w) ==
    LET span == w[Len(w)].block - w[1].block
    IN  IF Len(w) < 2 \/ Capital = 0 \/ span <= 0 THEN None ELSE (pnl * AprScale) \div span

\* Capital over the average active liquidity of the window, in percent.
Ratio(w) == LET total == Total(Column("liquidity", w))
            IN  IF total > 0 THEN (100 * Capital * Len(w)) \div total ELSE None

Pnl(mode, w) == Equity(pos[mode], w[Len(w)].bin) - Capital

Row(mode, w) ==
    [start |-> start, policy |-> mode, pnl |-> Pnl(mode, w),
     vsHold |-> Pnl(mode, w) - Pnl("hold_inventory", w), fees |-> pos[mode].fees,
     apr |-> Apr(Pnl(mode, w), w), dd |-> pos[mode].dd, rebalances |-> pos[mode].rebalances,
     ratio |-> Ratio(w)]

Of(mode, rs)  == Pick(rs, {j \in DOMAIN rs : rs[j].policy = mode})
Starts(rs)    == {rs[j].start : j \in DOMAIN rs}
Rated(rs)     == Pick(rs, {j \in DOMAIN rs : rs[j].ratio # None})

\* Bug: without any active liquidity the capacity is taken to be free.
OverCapacity_bug(rs) == Total(Column("ratio", Rated(rs))) > MaxRatioPct * Len(Rated(rs))

\* The mean ratio of the windows that have one; with none at all it is infinite.
OverCapacity(rs) == \/ Rated(rs) = <<>>
                    \/ Total(Column("ratio", Rated(rs))) > MaxRatioPct * Len(Rated(rs))

GateChecks == {"win_rate", "mean_vs_hold", "left_tail_apr", "drawdown", "capacity"}

\* dlmm_window_gate_fail_reasons
FailReasons(s, rs) ==
    {r \in GateChecks :
        \/ r = "win_rate" /\ 100 * s.wins < MinWinPct * s.windows
        \/ r = "mean_vs_hold" /\ s.vsHold < MinVsHold * s.windows
        \/ r = "left_tail_apr" /\ (s.p05 = None \/ s.p05 < MinP05)
        \/ r = "drawdown" /\ s.dd > MaxDrawdown
        \/ r = "capacity" /\ OverCapacity(rs)}

Position == [deployed : Nat, entry : Int, fees : Nat, costs : Nat, rebalances : Nat,
             inRange : Nat, peak : Nat, dd : Nat]

TypeOK ==
    /\ stream \in Seq(Observation) /\ job \in Jobs
    /\ pc \in {"start", "open", "observe", "done", "failed"}
    /\ start \in Nat /\ i \in 0..Len(stream)
    /\ pos \in [Modes -> Position]
    /\ \A m \in Modes : pos[m].peak >= Capital /\ pos[m].inRange + pos[m].rebalances <= i
    /\ table \in {<<>>} \cup [Modes -> [stats : Stats, reasons : SUBSET GateChecks]]

Init ==
    /\ job \in Jobs /\ stream \in {Loaded(s) : s \in Streams}
    /\ pc = "start" /\ start = 0 /\ i = 0 /\ rows = <<>> /\ table = <<>>
    /\ pos = [m \in Modes |-> Opened(0)]

\* The spec, the file, and enough observations for one window.
Refused ==
    \/ job.command = "windows" /\ (job.size = 0 \/ job.step = 0)
    \/ job.model # "dlmm_bin_replay" \/ ~job.binStep
    \/ job.command = "bins" /\ stream = <<>>
    \/ Len(stream) < Size

\* replay_dlmm_bins runs the modes over the whole file as over one window.
Begin ==
    /\ pc = "start"
    /\ pc' = IF Refused THEN "failed" ELSE "open"
    /\ UNCHANGED <<stream, job, start, i, pos, rows, table>>

\* The next window: all modes start at its first bin with the whole capital.
OpenWindow ==
    /\ pc = "open" /\ start + Size <= Len(stream)
    /\ pc' = "observe" /\ i' = 0
    /\ pos' = [m \in Modes |-> Opened(stream[start + 1].bin)]
    /\ UNCHANGED <<stream, job, start, rows, table>>

Observe ==
    /\ pc = "observe" /\ i < Size
    /\ pos' = [m \in Modes |-> Read(m, pos[m], Obs)]
    /\ i' = i + 1
    /\ UNCHANGED <<stream, job, pc, start, rows, table>>

\* The window's rows; a whole file is printed at once.
CloseWindow ==
    /\ pc = "observe" /\ i = Size
    /\ LET w == SubSeq(stream, start + 1, start + Size)
       IN  rows' = rows \o <<Row("hold_inventory", w), Row("static_bin_range", w),
                             Row("centered_bin_rebalance", w)>>
    /\ IF job.command = "bins" THEN pc' = "done" /\ UNCHANGED start
                               ELSE pc' = "open" /\ start' = start + job.step
    /\ UNCHANGED <<stream, job, i, pos, table>>

\* Too few windows end the command, otherwise every mode is summed up and judged.
Summarize ==
    /\ pc = "open" /\ start + Size > Len(stream)
    /\ IF Cardinality(Starts(rows)) < job.min
       THEN pc' = "failed" /\ UNCHANGED table
       ELSE /\ pc' = "done"
            /\ table' = [m \in Modes |->
                            LET s == Summary(Of(m, rows))
                            IN  [stats |-> s, reasons |-> FailReasons(s, Of(m, rows))]]
    /\ UNCHANGED <<stream, job, start, i, pos, rows>>

Next == Begin \/ OpenWindow \/ Observe \/ CloseWindow \/ Summarize

Spec == Init /\ [][Next]_vars

(***************************************************************************)
(* Properties.                                                              *)
(***************************************************************************)
CurrentBin == stream[start + i].bin

\* A static range is the held inventory plus its fees, at every observation: the replay knows no
\* divergence loss, so in no window can the static range trail holding.
StaticIsHoldPlusFees ==
    /\ pc = "observe" /\ i > 0 =>
        Equity(pos["static_bin_range"], CurrentBin)
            = Equity(pos["hold_inventory"], CurrentBin) + pos["static_bin_range"].fees
    /\ \A j \in DOMAIN rows :
        rows[j].policy = "static_bin_range" => rows[j].vsHold = rows[j].fees /\ rows[j].vsHold >= 0

\* Whenever the price is back in the bin where the window began, the centered inventory is worth
\* at least the capital: recentring never books a loss of its own, its costs are kept apart.
RoundTripKeeps ==
    pc = "observe" /\ i > 0 /\ CurrentBin = stream[start + 1].bin =>
        Mark(pos["centered_bin_rebalance"], CurrentBin) >= Capital

\* left: for every observation, how often the value may still be halved when the range is
\* centered there, once for the mean and once for each bin the price falls until a later one.
Halvings(s, left) ==
    /\ left \in [1..Len(s) -> Nat]
    /\ \A j \in 1..Len(s) : Capital % Doubled(left[j]) = 0
    /\ \A j, k \in 1..Len(s) : j < k =>
          left[k] + 1 <= left[j] /\ left[k] + 1 + (s[j].bin - s[k].bin) <= left[j]

\* The unit of money is fine enough for no value on the way to leave a rest.  RoundTripKeeps is
\* about such units: with a coarser one the rounding itself loses some.
UnitIsFine == \A s \in Streams : \E left \in [1..Len(s) -> Nat] : Halvings(Loaded(s), left)

\* A mode that passes the gate did so on windows with active liquidity, and no window lost more
\* than allowed or (with up to twenty of them) fell below the APR asked for.
PassedIsSafe ==
    table # <<>> => \A m \in Modes : table[m].reasons = {} =>
        LET rs == Of(m, rows) IN
        /\ \E j \in DOMAIN rs : rs[j].ratio # None /\ rs[j].ratio <= MaxRatioPct
        /\ \A j \in DOMAIN rs : /\ rs[j].dd <= MaxDrawdown
                                /\ Len(rs) <= 20 => rs[j].apr = None \/ rs[j].apr >= MinP05
=============================================================================

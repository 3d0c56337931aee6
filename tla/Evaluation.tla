----------------------------- MODULE Evaluation -----------------------------
(***************************************************************************)
(* The evaluations of crates/backtest/src/replay.rs that go beyond one run  *)
(* over one stream, with the commands that start them: walk-forward         *)
(* (calibrate on a train window, test on the next swaps), multi-path (a     *)
(* moving-block bootstrap of the stream) and replay-scenario (a synthetic   *)
(* stream).                                                                 *)
(* Abstracted: run_policy is the constant Replay, a function of the swaps   *)
(* and the mode; a swap is a tick and a block; the random generator is a    *)
(* free choice; the sine of the chop scenario is any value of its range.    *)
(* Left out: fee-minus-lvr and deviation columns, printing.                 *)
(***************************************************************************)
EXTENDS Integers, Sequences, FiniteSets

CONSTANTS
    Streams, Jobs,
    Replay(_, _),       \* swaps, mode -> [net, dd]
    Policies,           \* the battery, hold_50_50 among them
    Noise(_)            \* rounded noise of an amplitude

\* The command line's sizes and counts are unsigned.
ASSUME StreamAssumption == Streams \subseteq Seq([tick : Int, block : Nat])
ASSUME JobAssumption ==
    \A j \in Jobs : /\ {j.train, j.test, j.paths, j.block, j.swaps} \subseteq Nat
                    /\ {j.penalty, j.cap, j.tick, j.move} \subseteq Int
                    /\ j.thresholds \in Seq(Int) /\ j.halves \in Seq(Int)
ASSUME NoiseAssumption  == \A amplitude \in {30, 40, 50} : Noise(amplitude) \subseteq Int

VARIABLES
    stream, job,
    pc,         \* start, fold, test, draw, copy, battery, generate, done, failed
    start,      \* first swap of the train window
    chosen,     \* parameters calibrated for the fold
    folds, totals,
    path,       \* swaps of the path being built
    level,      \* its unrounded tick, times the swaps of the stream less one
    cursor, left,   \* next source swap of the drawn block, and how many of it are left
    nets        \* for every finished path, the net of each policy

vars == <<stream, job, pc, start, chosen, folds, totals, path, level, cursor, left, nets>>
walk == <<start, chosen, folds, totals>>
boot == <<path, level, cursor, left, nets>>

n == Len(stream)
Larger(a, b)  == IF a >= b THEN a ELSE b
Smaller(a, b) == IF a <= b THEN a ELSE b

\* f64::round of a quotient with a positive divisor: halves away from zero.
Round(a, b) == IF a >= 0 THEN (2 * a + b) \div (2 * b) ELSE -((b - 2 * a) \div (2 * b))

(***************************************************************************)
(* Walk-forward.                                                            *)
(***************************************************************************)
AdaptiveMode(j, p) ==
    [policy |-> "adaptive_regime", threshold |-> p.threshold, floor |-> Larger(p.half \div 2, 1), cap |-> j.cap]

StaticMode(half) == [policy |-> "narrow_static", threshold |-> 0, floor |-> half, cap |-> half]
HoldMode         == [policy |-> "hold_50_50", threshold |-> 0, floor |-> 0, cap |-> 0]

Median(values) ==
    CHOOSE v \in {values[j] : j \in DOMAIN values} :
        /\ Cardinality({j \in DOMAIN values : values[j] < v}) <= Len(values) \div 2
        /\ Len(values) \div 2 < Cardinality({j \in DOMAIN values : values[j] <= v})

\* The parameters of the baseline, and of a fold without anything to calibrate on.
Fixed(j) == [threshold |-> IF j.thresholds = <<>> THEN 6 ELSE Median(j.thresholds),
             half      |-> IF j.halves = <<>> THEN 300 ELSE Median(j.halves)]

\* The grid in the order of the two nested loops.
Grid(j) == [k \in 1 .. Len(j.thresholds) * Len(j.halves) |->
               [threshold |-> j.thresholds[((k - 1) \div Len(j.halves)) + 1],
                half      |-> j.halves[((k - 1) % Len(j.halves)) + 1]]]

Score(j, swaps, p) ==
    LET result == Replay(swaps, AdaptiveMode(j, p)) IN result.net - j.penalty * result.dd

\* The first pair of the grid that no other beats.
Best(j, swaps) ==
    LET grid == Grid(j)
    IN  IF swaps = <<>> \/ grid = <<>> THEN Fixed(j)
        ELSE grid[CHOOSE k \in DOMAIN grid :
                    /\ \A i \in DOMAIN grid : Score(j, swaps, grid[i]) <= Score(j, swaps, grid[k])
                    /\ \A i \in 1..k - 1 : Score(j, swaps, grid[i]) < Score(j, swaps, grid[k])]

TrainEnd == start + job.train

\* Bug: the last swap of the stream is left out.
TestEnd_bug == Smaller(TrainEnd + job.test, n - 1)

TestEnd  == Smaller(TrainEnd + job.test, n)
MoreFolds == TrainEnd < n /\ TestEnd > TrainEnd

\* Bug: calibration sees the test window.
Train_bug == SubSeq(stream, start + 1, TestEnd)

Train == SubSeq(stream, start + 1, TrainEnd)
Test  == SubSeq(stream, TrainEnd + 1, TestEnd)

(***************************************************************************)
(* Bootstrap and scenarios.                                                 *)
(***************************************************************************)
Drift == IF job.demean /\ n > 1 THEN stream[n].tick - stream[1].tick ELSE 0

\* Bug: the first swap of the source is taken to follow the last one.
TickMove_bug(k) == IF k = 1 THEN stream[1].tick - stream[n].tick ELSE stream[k].tick - stream[k - 1].tick

\* What a source swap adds to a path, in ticks and blocks.
TickMove(k)  == IF k = 1 THEN 0 ELSE stream[k].tick - stream[k - 1].tick
BlockMove(k) == IF k = 1 THEN 1 ELSE Larger(stream[k].block - stream[k - 1].block, 0)

Rise(l) == l + (n - 1) * TickMove(cursor) - Drift

Length == Larger(job.swaps, 2)

\* The collapse is over after a third of the stream, the pump takes all of it.
Crash(i) == Round(job.move * Smaller(3 * i, Length - 1), Length - 1)
Pump(i)  == -Round(job.move * i, Length - 1)

\* Ticks the scenario may have at swap i.
ScenarioTicks(i) ==
    CASE job.scenario = "calm"  -> {job.tick + x : x \in Noise(40)}
      [] job.scenario = "pump"  -> {job.tick + Pump(i) + x : x \in Noise(30)}
      [] job.scenario = "crash" -> {job.tick + Crash(i) + x : x \in Noise(30)}
      [] job.scenario = "chop"  -> {job.tick + w + x : w \in -job.move..job.move, x \in Noise(50)}

\* The net of every policy of the battery on the finished path.
Battery == [p \in Policies |-> Replay(path, [HoldMode EXCEPT !.policy = p]).net]

\* percentile: the nearest of the sorted values, not the one percentile_f64 takes.
Percentile(values, pct) ==
    LET index == Round((Len(values) - 1) * pct, 100)
    IN  IF values = <<>> THEN 0
        ELSE CHOOSE v \in {values[j] : j \in DOMAIN values} :
                /\ Cardinality({j \in DOMAIN values : values[j] < v}) <= index
                /\ index < Cardinality({j \in DOMAIN values : values[j] <= v})

\* PolicyDistribution: what multi-path reports of a policy.
Distribution(p) ==
    LET values == [k \in DOMAIN nets |-> nets[k][p]]
    IN  [p05 |-> Percentile(values, 5), p50 |-> Percentile(values, 50), p95 |-> Percentile(values, 95),
         wins |-> Cardinality({k \in DOMAIN nets : nets[k][p] > nets[k]["hold_50_50"]})]

Swaps == Seq([tick : Int, block : Nat])
Pair  == [threshold : Int, half : Int]

TypeOK ==
    /\ stream \in Swaps /\ job \in Jobs
    /\ pc \in {"start", "fold", "test", "draw", "copy", "battery", "generate", "done", "failed"}
    /\ start \in Nat /\ chosen \in Pair \cup {<<>>}
    /\ \A k \in DOMAIN folds : folds[k].chosen \in Pair /\ folds[k].dd <= totals.dd
    /\ totals \in [oos : Int, dd : Nat, fixed : Int, static : Int, hold : Int, tested : Nat]
    /\ path \in Swaps /\ level \in Int /\ cursor \in Nat /\ left \in Nat
    /\ pc = "copy" => cursor \in 1..n /\ left > 0 /\ Len(path) < n
    /\ pc = "done" => \A p \in Policies :
            LET d == Distribution(p) IN d.p05 <= d.p50 /\ d.p50 <= d.p95 /\ d.wins <= Len(nets)

Init ==
    /\ stream \in Streams /\ job \in Jobs /\ pc = "start"
    /\ start = 0 /\ chosen = <<>> /\ folds = <<>>
    /\ totals = [oos |-> 0, dd |-> 0, fixed |-> 0, static |-> 0, hold |-> 0, tested |-> 0]
    /\ path = <<>> /\ level = 0 /\ cursor = 0 /\ left = 0 /\ nets = <<>>

\* A path starts at the source's first tick.
NewPath ==
    /\ path' = <<>> /\ cursor' = 0 /\ left' = 0
    /\ level' = (n - 1) * stream[1].tick

StartWalk ==
    /\ pc = "start" /\ job.command = "walk"
    /\ pc' = IF stream = <<>> THEN "failed" ELSE "fold"
    /\ UNCHANGED <<stream, job, walk, boot>>

StartPaths ==
    /\ pc = "start" /\ job.command = "multi"
    /\ IF n < Larger(job.block, 2)
       THEN pc' = "failed" /\ UNCHANGED boot
       ELSE /\ pc' = IF job.paths = 0 THEN "done" ELSE "draw"
            /\ NewPath /\ UNCHANGED nets
    /\ UNCHANGED <<stream, job, walk>>

StartScenario ==
    /\ pc = "start" /\ job.command = "scenario"
    /\ pc' = IF job.scenario \in {"calm", "pump", "crash", "chop"} THEN "generate" ELSE "failed"
    /\ UNCHANGED <<stream, job, walk, boot>>

\* The train window alone decides.
Calibrate ==
    /\ pc = "fold" /\ MoreFolds
    /\ chosen' = Best(job, Train) /\ pc' = "test"
    /\ UNCHANGED <<stream, job, start, folds, totals, boot>>

\* The chosen pair and three baselines on the test segment; the windows move on by its length.
TestFold ==
    /\ pc = "test"
    /\ LET result == Replay(Test, AdaptiveMode(job, chosen))
       IN  /\ folds' = Append(folds, [start |-> start, trainEnd |-> TrainEnd, testEnd |-> TestEnd,
                                      chosen |-> chosen, net |-> result.net, dd |-> result.dd])
           /\ totals' = [oos    |-> totals.oos + result.net,
                         dd     |-> Larger(totals.dd, result.dd),
                         fixed  |-> totals.fixed + Replay(Test, AdaptiveMode(job, Fixed(job))).net,
                         static |-> totals.static + Replay(Test, StaticMode(Fixed(job).half)).net,
                         hold   |-> totals.hold + Replay(Test, HoldMode).net,
                         tested |-> totals.tested + Len(Test)]
    /\ start' = start + job.test /\ pc' = "fold"
    /\ UNCHANGED <<stream, job, chosen, boot>>

\* Bug: an empty test window, which does not move the windows on, is not the end.
EndFolds_bug ==
    /\ pc = "fold" /\ TrainEnd >= n
    /\ pc' = "done" /\ UNCHANGED <<stream, job, walk, boot>>

EndFolds ==
    /\ pc = "fold" /\ ~MoreFolds
    /\ pc' = "done" /\ UNCHANGED <<stream, job, walk, boot>>

\* A block begins anywhere in the source.
DrawBlock ==
    /\ pc = "draw"
    /\ \E k \in 1..n : cursor' = k
    /\ left' = Larger(job.block, 1) /\ pc' = "copy"
    /\ UNCHANGED <<stream, job, walk, path, level, nets>>

\* One swap of the block: its moves on top of the path so far.  A block ends at its length, at
\* the end of the source, or with the path.
CopySwap ==
    /\ pc = "copy"
    /\ level' = Rise(level)
    /\ path' = Append(path, [tick |-> Round(level', n - 1), block |->
            BlockMove(cursor) + (IF path = <<>> THEN stream[1].block ELSE path[Len(path)].block)])
    /\ cursor' = cursor + 1 /\ left' = left - 1
    /\ pc' = IF Len(path') = n THEN "battery" ELSE IF left' = 0 \/ cursor' > n THEN "draw" ELSE "copy"
    /\ UNCHANGED <<stream, job, walk, nets>>

\* Bug: the next path goes on where the last one ended.
RunPath_bug ==
    /\ pc = "battery" /\ job.command = "multi"
    /\ nets' = Append(nets, Battery) /\ path' = <<>>
    /\ pc' = IF Len(nets') >= job.paths THEN "done" ELSE "copy"
    /\ UNCHANGED <<stream, job, walk, level, cursor, left>>

RunPath ==
    /\ pc = "battery" /\ job.command = "multi"
    /\ nets' = Append(nets, Battery)
    /\ pc' = IF Len(nets') >= job.paths THEN "done" ELSE "draw"
    /\ NewPath
    /\ UNCHANGED <<stream, job, walk>>

Generate ==
    /\ pc = "generate"
    /\ \E tick \in ScenarioTicks(Len(path)) :
            path' = Append(path, [tick |-> tick, block |-> 1000 + Len(path)])
    /\ pc' = IF Len(path') = Length THEN "battery" ELSE "generate"
    /\ UNCHANGED <<stream, job, walk, level, cursor, left, nets>>

RunScenario ==
    /\ pc = "battery" /\ job.command = "scenario"
    /\ nets' = <<Battery>> /\ pc' = "done"
    /\ UNCHANGED <<stream, job, walk, path, level, cursor, left>>

Next ==
    \/ StartWalk \/ StartPaths \/ StartScenario
    \/ Calibrate \/ TestFold \/ EndFolds
    \/ DrawBlock \/ CopySwap \/ RunPath
    \/ Generate \/ RunScenario

\* One process runs its loops to the end.
Spec == Init /\ [][Next]_vars /\ WF_vars(Next)

(***************************************************************************)
(* Properties.                                                              *)
(***************************************************************************)
Segments ==
    /\ \A k \in DOMAIN folds :
            /\ folds[k].start = (k - 1) * job.test
            /\ folds[k].trainEnd = folds[k].start + job.train
            /\ folds[k].trainEnd < folds[k].testEnd /\ folds[k].testEnd <= n
            /\ k < Len(folds) => folds[k].testEnd = folds[k + 1].trainEnd
    /\ folds # <<>> => totals.tested = folds[Len(folds)].testEnd - job.train

\* Test segments are contiguous and do not overlap, and at the end they have tested every swap
\* behind the first train window exactly once: what "their nets sum to an honest OOS total"
\* rests on (docs/walk-forward.md).
TestsPartition ==
    /\ Segments
    /\ pc = "done" /\ job.command = "walk" /\ job.test > 0 /\ job.train < n =>
            folds # <<>> /\ folds[Len(folds)].testEnd = n

\* A fold's parameters are a function of the swaps before its test segment: every stream with
\* the same past calibrates to the same pair.
NoPeeking ==
    \A t \in Streams, k \in DOMAIN folds :
        LET past(s) == SubSeq(s, 1, folds[k].trainEnd)
        IN  Len(t) = n /\ past(t) = past(stream) =>
                folds[k].chosen = Best(job, SubSeq(t, folds[k].start + 1, folds[k].trainEnd))

\* A path only ever makes moves that the source made, and its blocks never run backwards.
SourceMoves == {0} \cup {stream[k].tick - stream[k - 1].tick : k \in 2..n}

NoInventedMove ==
    job.command = "multi" /\ ~job.demean =>
        \A k \in DOMAIN path :
            LET before == IF k = 1 THEN stream[1] ELSE path[k - 1]
            IN  path[k].tick - before.tick \in SourceMoves /\ path[k].block >= before.block

\* Every evaluation ends.
Ends == <>(pc \in {"done", "failed"})
=============================================================================

# TLA+ verification of ailp-research

TLA+ modules, TLC configurations and TLAPS proofs for the parts of this
repository that keep state over time. `PROJECT.json` maps every definition to the
lines of the source that it stands for, and lists for every property a faulty variant
(a definition whose name ends in `_bug`) that breaks it.

    tlc -workers 2 -config Backfill.cfg MCBackfill     # one run
    tlapm BackfillProofs.tla                           # the proofs of one module

## 1. The system

ailp-research studies automated liquidity provision: it indexes swaps of
concentrated-liquidity pools (Aerodrome Slipstream on Base, Raydium, Orca and
Meteora DLMM on Solana), replays them against LP policies, gates the results and
plans (never signs) a rebalance. Everything is a command of one CLI
(`apps/cli/src/main.rs`) or a script under `scripts/`; commands meet only through
files (JSONL records, checkpoints, cursors, pool specs). There are no threads:
the hard behaviour is in processes that die between two writes, files that
outlive the flags they were written under, remote calls that fail or lag, and
long single passes with many hand-written branches.

| component | state | operations | what makes it correct |
|---|---|---|---|
| Slipstream backfill (`backfill_slipstream_events`) | events.jsonl and a checkpoint per pool; pass, window and chunk cursors | start, pass, open window, fetch topic and append, save checkpoint | no swap below a checkpoint is missing; duplicates bounded; a bounded run ends; a live one catches up |
| Readers of the events (`load_swaps`, `summarize_slipstream_events`) | none | parse, sort, count | refuse a torn record rather than skip it |
| Policy replay (`run_policy`) | position, money leg, short, books, tail metrics | one step per swap: accrue, act, rehedge, mark | books balance across every branch; no look-ahead; hedge follows position; gates hold |
| Live shadow (`meteora-dlmm-live-shadow.sh` and its scripts) | flow and snapshot JSONL, cursor file, joined proxy | snapshot, page, fetch, append, save cursor, join, gate, replay | no swap lost or doubled over heartbeats and deaths; replay sees whole and current files |
| Rolling windows, promotion gate | window rows per configuration | read, replay windows, classify, select by prior regime, verdict | a rule decides from the past only; a candidate is safe in every window |
| DLMM bin replay (`dlmm.rs`) and its windows | position over bins, books, window rows | open window, observe, close, judge | books as for the policy replay; an unsupported window passes no gate |
| Walk-forward, multi-path, scenarios | folds, paths | calibrate, test; draw block, copy; generate | out-of-sample segments follow their training windows and partition the rest; paths invent nothing |
| Solana sampler, merge of samples | page cursor, samples, files | page, fetch, parse, write, merge | order within a slot, no duplicates, no silent holes |
| RPC clients | attempt counter | call, try again, give up | retries end; real errors are not retried |
| Rebalance planner, fork simulation | what was read, the plan, transactions to send | read state, size swap, build calls, gate, send | each step can execute after the ones before it, at a bounded loss |
| Position monitor | the row under construction, JSONL | read, alert, kill switch | an alarm that should be raised comes |
| Risk model, range optimizer | none | score, decide | guard precedence |
| Adapters, core records, reports | none | fetch, convert, print | plain conversions |

Interaction: the backfill writes what the replay engine reads (`load_swaps`); the
sampler and the live shadow write what the window replays and the gate read; the
gate's policy is what the planner would execute and the monitor watch.

## 2. Plan

Order: the components that persist state first (a wrong file silently spoils every
later result), then the engine that all verdicts rest on, then the gates, then
what would touch a chain. All of these are written:

1. `Backfill`, which implements the abstract `EventHistory`; `BackfillProofs`.
2. `Liquidity`, `PolicyReplay`; `SwapsProofs`.
3. `LiveShadow`; `LiveShadowProofs`.
4. `WindowStats`, `PromotionGate`, `DlmmReplay`; `WindowStatsProofs`, which
   `PromotionGateProofs` and `DlmmReplayProofs` use.
5. `Evaluation`; `EvaluationProofs`.
6. `RpcClient`, `SwapSampler`; `SwapsProofs`, which holds the theorems about both ends of a
   normalized swap's way, the merge that writes the stream and the replay that reads it.
7. `PoolChain`, `RebalancePlan`, `PositionMonitor`, and `Desk`, which composes them;
   `DeskProofs`.

What could follow: the range optimizer as pure operators against its documented
guards; two indexers on one data directory.

## 3. Modules

### Backfill, EventHistory

`Backfill` is one process of `backfill-slipstream-events` at a time, over the files
of its data directory. `pc` is where it is:

    down -Start-> pass -BeginPass-> pool -OpenWindow-> fetch -FetchTopic-> ...
      -> truncate -TruncateCheckpoint-> save -SaveCheckpoint-> pool -EndPass-> pass | done

`FetchTopic` is one eth_getLogs with its append; `write_checkpoint` is two steps
because `fs::write` truncates first. `Die` ends the process anywhere, `DieInAppend` in
the middle of an append: a prefix of the records is in the file, the last line may
lack its newline or be broken off. A later record then shares a line with it (`garbled`),
which the readers refuse. `Start` picks any of the command lines in `Configs`, so the
files outlive the flags. `Mine` grows the chain; the head a pass reads may trail it.

`EventHistory` says what a reader may rely on: an interval of blocks per pool that only
grows, all of whose swaps can be loaded unless the file is visibly broken. `Backfill`
implements it under the mapping in `Backfill!History`.

### Liquidity, PolicyReplay

`Liquidity` is `struct Position` and the regime estimate on a grid of integer sqrt
prices: each price divides `Grid`, so that amounts and values are exact and only
divisions into whole money units round. A tick is its sqrt price; the code uses only
that one grows with the other. Square roots are avoided by comparing squares.

`PolicyReplay` is the loop of `run_policy`: each action processes one swap.
`Accrued` is the income and loss of the position the swap finds, before the policy
acts; `Settle` is what follows (rehedge, one-sided run, equity, drawdown). In between,
one action per branch: `StandDown` (a gate or the adaptive exit), `StopOut` (hard exit),
`Recenter`, `Resume` (a gate opens), `Return` (the others re-enter), `KeepPosition`,
`StayParked`. `Executed` is `price_after_delay`. `past` is a history variable for the
properties.

### LiveShadow

One heartbeat of the script at a time; `pc` is the command it is in. The JSONL files
are sequences of lines, a line is the sequence of what was written to it, so an append
after a torn one continues the line, and `Keys` (the dedupe of the append step) and
`Malformed` (what the join refuses) read the same lines. `Page` is
getSignaturesForAddress, `FetchTx` one getTransaction, which may fail or return null
(`refused`). When it brings the last row that `FLOW_LIMIT` allows, the loop ends and the rest of
the page stays unread, although the cursor is already at the page's end: `dropped`, like
`refused`, is a history variable and keeps those transactions. `Die` ends the heartbeat
anywhere, also inside an append or between the truncation and the write of the cursor.

### WindowStats, PromotionGate, DlmmReplay

`WindowStats` is what the rolling-window commands share: percentiles by nearest rank,
sums, wins, the rows that have an APR. Filters and sorts (`Pick`, `Ascending`) are
functions, so that they can be proved about.

`PromotionGate` is replay-normalized-windows, replay-normalized-hedge-grid and
replay-promotion-gate: `Start` refuses or begins, `OpenConfig` goes to the next window
configuration, `BeginReport` reads the files anew for one hedge fraction, `ReplayWindow`
adds the rows of one window, `FinishReport` and `Summarize` select and sum up,
`Decide` gives the verdict; `ReplayWhole` is replay-normalized-swaps.
`run_policy` is the constant `Replay`, a function of a window and a mode: the module is
about which windows and which labels decide what, and holds for any such function.
`Loaded` is the stable sort of `load_normalized_swaps`, one insertion per swap.
The hedge grid takes its window and its step unchecked. A window of no swaps has no rows; with
a step of zero `ReplayWindow` finds the same window again and again, and the command never
ends (`Endless`). The code then adds the same rows each time; the model keeps them once, as
nothing reads them before the loop ends.

`DlmmReplay` is `replay_dlmm_bins` and its windowed form: `OpenWindow`, one `Observe` per
observation (the three modes read the same ones, so they advance together),
`CloseWindow`, `Summarize` with the gate. A bin doubles the price (`Doubled`), which
keeps values whole.

### Evaluation

Walk-forward (`Calibrate`, `TestFold`, `EndFolds`), the moving-block bootstrap
(`DrawBlock`, `CopySwap`, `RunPath`) and synthetic scenarios (`Generate`, `RunScenario`).
The random generator is a free choice of the next block and of the noise; the path's
unrounded tick is kept as an integer times the length of the stream.

### RpcClient, SwapSampler

`RpcClient` says which replies the two JSON-RPC clients try again: the EVM client after
throttling and a body cut short, but not after other HTTP errors; the Solana client after
every HTTP error, but not after a body that does not parse. `SwapSampler` uses it for
each request of sample-solana-pool-swaps: `ListPage` and `ListFails`, `FetchTx` and
`TxFails` (the attempt in `Retry`), `PageDone`, `WriteFile`; `Grow` adds to the chain
between any two requests. A later run starts from the cursor an earlier one printed, and
`Merge` is merge-normalized-swaps over the files of several runs.
Rows are gathered as functions of their places (the sample and its log line, or the input
and its row), whose order is the order the code pushes them in; `InOrder` is the stable
sort, each row at its rank, and `Unique` keeps the first of each key.
`ChainAssumption` is what the pool's programs log and the code relies on: an event of the
pool comes from inside an invocation labelled a swap, in a transaction that succeeded and
moved tokens; slots do not fall; and two swaps of one slot differ in what the key compares.
Names are the sampler's own (`SamplerSpec`, `SamplerTypeOK`), so that one module can
extend it and `PolicyReplay`.

### PoolChain, RebalancePlan, PositionMonitor, Desk

`PoolChain` is the pool, the wallet and the position manager's NFTs, as far as the
calldata built by the planner touches them; the contracts are external and modelled from
how `dry_run_rebalance` and `scripts/fork-sim-rebalance.sh` use them. `RebalancePlan` is
dry-run-rebalance: one `ReadForPlan` per RPC call whose answer can change, `Build`
(band, inventory, the bisection of the swap, the mint's amounts, the calls and gates),
`Decide`, and one `Send` per transaction of the fork script. `PositionMonitor` is
monitor-position: one `ReadForRow` per call, `WriteRow`. Its pool is `given` by
`--pool-address` or looked up by getPool; a lookup answered by no address is not an error to
the code (evm/src/lib.rs:806-814), and the row is then written without a price: not in and not
out of range, the kill switch off, and the loop goes on. `Desk` puts two planner runs
and a monitor over one chain whose price moves between any two of their calls.

## 4. Runs

| run | shows |
|---|---|
| `backfill` | two pools, live and historical command lines over the same files: `NoSilentGap` (no checkpoint vouches for blocks whose swaps were not stored), `DuplicatesBounded`, `SettledBlocksStay`, `ImplementsHistory`; `CatchesUp` and `BoundedRunEnds` under fairness |
| `backfill_restart` | **violated** `CheckpointAllowsRestart`: a death inside `write_checkpoint` leaves a file no later run starts from |
| `replay_policies` | `NoLpInTrend`, `HedgeFollows`, `TailMatchesHistory`, `ImmediateExitIsOneWay` over every five-swap path, at once and two blocks late |
| `shadow` | `NoDuplicateRows`, `CursorCovers` (what the cursor has passed is stored, was refused, or stood behind the row limit), `ReplayIsComplete`, `BackfillMovesBack`, and `ReachesOldest` under fairness |
| `shadow_limit` | **violated** `BatchesAreContinuous`: a heartbeat that meets `FLOW_LIMIT` within a page saves the cursor of the whole page, and the swaps behind the limit are never read |
| `gate` | `NoLookahead` (windows that do not overlap), `ExactHedge`, `CandidateIsSafe`, for every command and gate policy, and `JobEnds` under fairness: every command ends, except a hedge grid with a step of zero on a stream that has a window, which never does |
| `gate_overlap` | **violated** `NoLookaheadEver`: with a step shorter than the window, as in all default configurations, the label that decides a window is computed from swaps of that very window |
| `dlmm` | `StaticIsHoldPlusFees`, `RoundTripKeeps`, `PassedIsSafe` |
| `evaluation` | `TestsPartition`, `NoPeeking`, `NoInventedMove`, `Ends` |
| `sampler` | `SampleIsExact` (between its ends a file holds the pool's swaps once, and resumed files join without a gap), `MergeIsExact` |
| `desk` | `MintIsFunded`, `QuietRebalanceSucceeds`, `GateBoundsLoss`, and `AlarmComes` under fairness: a position out of range for good raises the alarm or the monitor ends, provided the pool is given or its price is read again and again |
| `rebalance_order` | **violated** `RebalanceExecutable`: a rebalance that needs a swap reverts in either order of its two transactions |

Every passing run also checks its module's `TypeOK` (`SamplerTypeOK` in `sampler`). The violated properties state what
the repository's documents say; `findings` in `PROJECT.json` quotes them.

Bounds, and why they are enough.

- `backfill`: two pools, blocks 0..3, two starts, a head that may trail by one. Two
  starts allow a crash between any two writes, the recovery, and a change of flags in
  between; windows of two blocks end with, before and after the chunks and the head.
- `replay_policies`: paths of five swaps on four ticks, one policy of each kind: exit,
  re-entry and another exit, inside, above and below the range, evenly and unevenly
  spaced in blocks.
- `shadow`: five transactions, two of them in one slot, pages of two, two pages a
  heartbeat, one death, a limit of two rows, met inside a page and at its end. Full, partial
  and empty pages occur, and one death is at every line of the script. `shadow_limit` has the
  same bounds.
- `gate`: twelve streams of eight swaps that share pasts of three to five swaps and then
  part, windows of two, three and four swaps; every regime label, every command, every
  reason to refuse; hedge grids with a step of zero, a window of zero, both, and a step of
  zero with a window longer than the stream.
- `dlmm`: every walk of five observations over four bins, with liquidity, without, and
  with changing liquidity; windows that overlap, touch and leave gaps.
- `evaluation`: streams of up to seven swaps with every train and test length from 0 to 3;
  resampling of three swaps with blocks of 0 to 3; scenarios of two and five swaps.
- `sampler`: seven transactions in four slots (routed through another pool, failed, without
  a swap, with two swaps), two attempts, the chain growing twice, two files.
- `desk`: three sqrt prices, one move of the price, two planner runs, two band widths, a
  pool shallow enough for swaps on both sides of the impact gate, monitors with and without
  the pool's address. One move lands between
  any two calls or transactions, and two runs are a mint and the rebalance of it.

Deadlock is not checked where the modelled program stops: the backfill at its last
iteration, the replays at the end of their stream, a command at its report, the desk when
the runs are used up. It is checked in `shadow`, whose heartbeats always go on.

Fairness. `Backfill!FairSpec`: weak fairness of the process's own steps, since an async
task runs on while the process lives; neither the chain nor a restart is fair.
`LiveShadow!FairSpec`: weak fairness of the heartbeats, steps and starts alike, as the
documents run it as a recurring job; deaths are finitely many, and nothing forces a
transaction to be returned. `PromotionGate` and `Evaluation`: weak fairness of `Next`, one
process that runs its loops. `Desk!FairSpec`: weak fairness of the monitor's step alone,
whose calls come back, if only as errors; planner, operator and chain may stop.

## 5. Proofs

For every value of the constants. The assumptions are the modules' named ASSUMEs, which
type the constants (pools, logs, command lines, grid, streams, page sizes), and in some
theorems a hypothesis of their own, written in the statement: `HalvesSpan`,
`ReplayTyped`, `UnitIsFine`, `Ample`.

`BackfillProofs`:

- `TypeCorrect`: `Spec => []TypeOK`;
- `NoGap`: `Spec => []NoSilentGap`. `NoSilentGap` is not inductive: while a window is
  open, the swaps already passed must be in the file and the window must begin where the
  promise ends and end at a mined block. That is `WindowInv`; the
  proof goes action by action over TypeOK, WindowInv and NoSilentGap together;
- `SettledStay`: `Spec => SettledBlocksStay`, from the same invariant;
- `RefinesHistory`: `Spec => ImplementsHistory`: the initial states map to initial
  states and each action to a step of `EventHistory` or a stutter;
- `OncePerProcess`: `Spec => []DuplicatesBounded`. The count alone is not inductive: `DupInv`
  adds that a log still ahead of the running process was stored by earlier ones only.

`SwapsProofs`, first the replay engine, for streams of any length and any fee, cost, half width, threshold,
band and delay; the assumptions are that ticks lie in 1..Grid, that streams are sorted by
block, and that a gate's low threshold is below its high one:

- `ReplayTypes`: `Spec => []TypeOK`. The inductive invariant `ReplayInv` says that inputs do
  not change, that an open position is sound (its range surrounds the price where it was
  opened), that a range is kept after its end and, for the policies with a fixed half width,
  is always that wide, that a following short is not negative, and types the books. Every
  action ends in `Settle`, so the proof has one lemma for what that does (`SettleStep`) and
  one for each thing an action leaves: no position, the same, one around a tick;
- `NoLiquidityInTrend`: `Spec => []NoLpInTrend`. The gate that closes and the gate that opens
  read the same window and cannot both answer (`TrendingOrRanging`), so no re-entry undoes
  the exit of the same swap;
- `HedgeInBand`: `Spec => []HedgeFollows`, from `Rehedged`;
- `ImmediateExitOneWay`: `Spec => ImmediateExitIsOneWay`, from the fixed width: a range is
  recentered only below the old one, and a return is at most at its centre;
- `TailMetrics`: `Spec => []TailMatchesHistory`. The metrics alone are not inductive:
  `TailInv` adds that the peak is the highest equity so far and that `riskStart` is the block
  where the running hold began, with a swap below the range's top before it. That longer
  holds take more blocks is where the order of the stream is used.

The sum in the regime estimate is a recursive function; that it is an integer is proved with
a least counterexample, which needs no induction theorem.

`SwapsProofs`, then the sampler and the merge, for any chain within `ChainAssumption`, any
command lines, page sizes, attempts, failures, growth of the chain and number of runs:

- `SamplerTypes`: `SamplerSpec => []SamplerTypeOK`, with the order of the samples;
- `FilesSound`: `SamplerSpec => []SampleIsExact`. What a file says is not inductive while a
  run is on its way: `SamplerInv` adds `IdleInv` (nothing of a run is left between
  processes), `Walk` and `FileOK`. `Walk(P, S, L, c, t)` is the heart: what the run has
  sampled (S) or not got (L) is newer than what the page still holds (P), and every
  transaction between the cursor c and the first one listed t is in one of the three or
  swaps nothing. So a file that ends early, at its goal or at its last page, has no hole
  above its oldest sample. `FileOK` keeps, once a file is written, that its cursor is its
  oldest transaction and that a resumed file ends right behind the cursor it began with,
  from which two files join. That the rows hold each swap once is `RowsExact`: ranks under
  a strict total order of places are a bijection (`InOrderFacts`), places are finitely many
  (`FinitePlaces`), and the swaps of one slot differ;
- `MergeSound`: `SamplerSpec => []MergeIsExact`. `UniqueFacts`: among the rows with one key
  one is first, and it alone is kept; `InOrderFacts` then gives order and numbers;
- `MergeFeedsReplay`: `SamplerSpec => []StreamIsSorted`: what a merge leaves has the order
  of blocks that `PolicyReplay` assumes of its streams and `TailMetrics` needs.

`EvaluationProofs`, for any stream, window sizes, grid and replay function:

- `FoldsPartition`: `Spec => []TestsPartition` and `NoLookInto`: `Spec => []NoPeeking`. The
  inductive invariant `WalkInv` adds the walk's own variables to the finished folds:
  `Windows` says that before a fold the tested swaps end where its test segment will begin,
  `Calibrated` that the pair chosen for the fold under test and for each finished one is
  `Best` of its train window. That window lies within the past two streams share, so both
  give the same one;
- `MovesAreSourceMoves`: `Spec => []NoInventedMove`. The invariant `PathInv` says that without
  demeaning the unrounded level is a whole number of ticks (`WholeLevel`), which rounds to
  itself, so the move written is the source's;
- `EvaluationTypes`: `ReplayTyped => (Spec => []TypeOK)`, where `ReplayTyped` says that the
  replay returns a net result and a drawdown that is not negative. The lemmas show that the
  best pair of a finite grid exists and is in it (`HasBest`), that medians are integers, and
  that nearest ranks ascend (`RanksAscend`, by counting).

`DeskProofs`, for any prices, planned widths, capital, pool liquidity, fee below 100% and
slippage up to 100%; prices are whole fractions of the grid (`OnGrid`):

- `FreshMintFunded`: `Spec => []MintIsFunded`. Until the swap the wallet holds the capital; a
  swap that does not revert returns at least its minimum; and what the mint asks for is
  what is left of the capital plus that minimum, at most. The monitor and the price move
  between the transactions and touch neither;
- `LossBounded`: `Spec => []GateBoundsLoss`. The gate on the way of the price compares an
  exact fraction of square roots, and what the swap loses is bounded by that fraction;
- `QuietSucceeds`: `Spec => [](Ample => QuietRebalanceSucceeds)`. Until a rebalance without
  a swap is sent, its NFT is as it was read (`NftStays`), and since no swap is needed only
  if the principal already has the range's ratio, the mint asks for exactly that principal
  (`PlanIsWhole`, `FitWhole`). The four calls are then followed one by one
  (`RebalancePays`): at the planned price the second collect pays what the mint takes.
  `Ample` says of the state that the slippage allowed on what is minted covers the rounding
  of the mint's liquidity to whole units; with less, as on a balance of a few units, the
  mint may revert, and the property with it. The run `desk` reaches such rebalances, of
  liquidity 38 at 10%;
- `DeskTypes`: `HalvesSpan => (Spec => []TypeOK)`. `HalvesSpan` asks half widths of at least
  half a spacing: below, `snap_range` may give a band of no width, which the code does not
  check (main.rs:8205), and then the type of a planned band is wrong. What a multicall of
  several calls leaves is a recursive function, followed with a least counterexample.

`WindowStatsProofs` holds the lemmas on the statistics: a recursive function over a sequence
is what its equations say (`Recursion`, with a least counterexample), what `Pick` keeps and
in which order (`PickFacts`), that `Ascending` lists a finite set of integers once and in
order, that a percentile exists and is one of the values (`PercentileFacts`), and that the
fifth of up to twenty is the least of them (`PercentileLeast`).

`DlmmReplayProofs`, for any observations, half width, window, capital, costs and thresholds.
The inductive invariant `Inv` types the loop's variables and the rows, and says of the static
position that it is the held inventory: same capital, same entry, no costs.

- `DlmmTypes`: `Spec => []TypeOK`;
- `StaticNeverTrails`: `Spec => []StaticIsHoldPlusFees`, from that equality, carried from
  the open window into the rows it leaves;
- `GatePassesSafe`: `Spec => []PassedIsSafe`. A mean within its bound has a ratio within it
  (`MeanCapacity`), the worst drawdown bounds all, and the fifth percentile is
  `PercentileLeast`;
- `RoundTripsKeep`: `UnitIsFine => (Spec => []RoundTripKeeps)`. Prices are powers of two and
  a value is the mean of its two halves, so the square of what a recentring deploys is at
  least the old square times the ratio of the prices (`MeanOfTwo`): `Keeps` says that of
  what is deployed against the capital, and at the first price it is the claim itself. Each
  mean and each bin the price falls divides by two, and a rest would be lost; `UnitIsFine`
  says that the capital can be halved as often as any walk of the input asks, which
  `Halves` carries along. The code has f64 there, whose rounding the model does not cover;
  with a coarse unit the property is false. `MCDlmmReplay` evaluates the hypothesis for the
  run's own streams (`FineAssumption`: 4096 and at most ten halvings).

`PromotionGateProofs`, for any streams, jobs, replay function and thresholds. What a
configuration is judged on is built over many steps, so the properties need `Inv`, the
conjunction of `Control` (what each value of `pc` implies for the other variables),
`Queued` (the fractions still to be replayed are of `Fractions`, once and in order), `Reported` (the
open report has exactly the rows of the windows before `start`), `Keeping` (`kept` has
exactly the rows of every window that fits, for every mode of the finished fractions) and
`Judged` (a finished configuration's pick is `Selected` from such a complete set). It is
stated with sets of rows and holds whatever `Replay` returns. It speaks of jobs whose windows
and steps are positive (`Regular`); the other ones, hedge grids all, have an invariant
of their own (`Odd`): no report of theirs is finished with a row and they give no verdict, so the properties hold of them
as well, and the lemmas `AnyInit` and `AnyNext` put the two cases together:

- `NeverLooksAhead`: `Spec => []NoLookahead`. Windows are numbered without a gap, so
  every window but the first has a predecessor and its label (`PriorLabel`); where they do
  not overlap, that one lies within the past that two streams share (`PastDecides`);
- `HedgeOfTheRule`: `Spec => []ExactHedge`. The rule's fractions are among the replayed
  ones, so the nearest is the rule's own (`NearestRow`);
- `CandidatesAreSafe`: `ReplayTyped => (Spec => []CandidateIsSafe)`. `ReplayTyped` says that
  the replay of a window with a swap returns an integer result and a drawdown and a count
  that are not negative. A verdict is given when all configurations are judged, and every
  selected row replays its own window with its own mode (`ReplayedIsEvidence`);
- `GateTypes`: `ReplayTyped => (Spec => []TypeOK)`.

`LiveShadowProofs`, for any chain, page size, number of pages, heartbeats and deaths:

- `HeartbeatTypes` and `RowsOnce`: `Spec => []TypeOK`, `Spec => []NoDuplicateRows`. The
  invariant `FilesInv` says of each file that its lines are whole records, or torn and
  continued, and that what is still to be written has keys no line holds and ascends. The
  lemmas on lines (`Glue`, `ContinuedLine`, `WriteShape`, `TornKeeps`, ...) carry it over
  an append and over a torn one;
- `WalkMovesBack`: `Spec => BackfillMovesBack`. `WalkBack` says that the walk's
  position never is newer than the cursor it began with;
- `CursorSound`: `Spec => []CursorCovers`. `CursorInv` follows a swap from the chain through
  the page, the rows collected and the append to the file, so that when the cursor is saved
  everything above it is stored, was refused, or stood behind the row limit of a heartbeat
  (`dropped`), whatever that limit is and wherever it is met;
- `ReplaySound`: `Spec => []ReplayIsComplete`, from `JoinInv` (the joined file is as new as
  the files it was joined from) and `CursorCovers`.

Only model-checked: all liveness properties (`CatchesUp`, `BoundedRunEnds`, `ReachesOldest`,
`JobEnds`, `Ends`, `AlarmComes`), as fairness is out of the prover's reach, and
`QuietRebalanceSucceeds` where it is not `Ample`.

## 6. What the models leave out

Everywhere: floating point (money is whole units, so rounding differs in the last unit),
wording and layout of reports, waiting times.

- Backfill: reorganisations of the chain and incomplete eth_getLogs answers (the code has no
  answer to either); two processes on one data directory. A checkpoint of a `--swaps-only`
  run also vouches for the other events, and an error of one pool keeps the ones behind it
  from being read; no property speaks of either.
- Policy replay: the mix of swap directions and volumes (a swap in range earns a constant
  fee), pool liquidity, toxic fees and the average width, which are reports only. A policy
  whose floor exceeds its cap panics in `clamp` and is not among the inputs. The last
  actions of a path execute at its last swap, however short the delay then is. Exits and
  recenterings take gas and slippage out of what is redeployed (replay.rs:665-671, 721-730,
  838-847) and book them as costs as well, which equity subtracts again (911-914): the model
  has these bookings as they are, and no run judges them. `ImmediateExitIsOneWay` is about
  policies that act at once; with a delay the code changes its state at the trigger and takes
  price and tick from later, and no property speaks of that.
- Live shadow: a record after a torn one is glued to it and the file refused from then on;
  `ReplayIsComplete` is about the files the join accepts. A transaction the RPC does not
  return is never asked for again; `CursorCovers` and `ReachesOldest` take it as lost.
- Windows: fee-minus-lvr columns. A hedge grid with a step of zero never ends, which `JobEnds`
  states as it is, for no text of the repository promises otherwise; the memory its rows take
  meanwhile is left out. Windows within one block have no APR and drop out of the percentile, so the gate says nothing
  of them.
- DLMM replay: the code itself knows no divergence loss, which `StaticIsHoldPlusFees` states.
- Evaluation: the sine of the chop scenario is any value of its range; demeaned paths are
  not covered by `NoInventedMove`, for the drift is spread over one swap too few.
- Sampler: pauses, the raw samples file; log payloads are a pool and a tick. `SampleIsExact`
  takes transactions that cannot be fetched as lost, and a page that fails (a throttled 200
  answer among them, which the client does not retry) as the end of the run.
- Desk: unstaking, staking, burning and the quoter, for which no calldata is built;
  deadlines, approvals, gas, trading fees owed. A fresh mint is planned only with the
  capital in the wallet, since the planner never reads it. The impact of the operator's
  own swap is within "the price moves". A monitor that has to look its pool up and from some
  point on is answered by no address (main.rs:8570-8607) never raises an alarm: its rows are
  in the model, and `AlarmComes` asks for a price that is read again and again. A failed read of the decimals silences the monitor's
  share alarm, and `AlarmComes` therefore is about the range only.

Not modelled at all: the risk model and range optimizer and the library's own replay
backtester (one-shot arithmetic that no command drives through states), the Aerodrome,
DefiLlama and Solana adapters and the core records (one request and a mapping of its
fields), hot-pool discovery and experiment plans, the capacity audit, the pool activity scan
and the DLMM account probe (filters and reports over a fetched list), argument parsing and
output. None of them keeps state between calls. Of the RPC clients the decoding of ABI values and the
back-off times, of the event summaries everything but what the readers refuse.

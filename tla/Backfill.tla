------------------------------ MODULE Backfill ------------------------------
(***************************************************************************)
(* The checkpointed event indexer of the CLI: the command                  *)
(* backfill-slipstream-events (apps/cli/src/main.rs).  One process walks    *)
(* the resolved pools in order; for each it fetches one window of blocks,   *)
(* chunk by chunk and topic by topic, appends the logs to the pool's        *)
(* events.jsonl and then overwrites the pool's checkpoint file.  The        *)
(* process dies at any step (kill, a full disk, an RPC error that `?`       *)
(* propagates) and is started again, perhaps with other flags, over the     *)
(* files it left.                                                           *)
(*                                                                          *)
(* Durable state: copies, garbled, lineEnd (events.jsonl) and ckpt (the     *)
(* checkpoint file).  Process memory: everything from pc to topic.          *)
(* Bookkeeping of the model: starts (bounds the runs of the program) and    *)
(* promised (the interval of blocks the checkpoint vouches for).            *)
(*                                                                          *)
(* Simplifications: a log is a record [topic, block, index]; the chain is   *)
(* never reorganised and getLogs is complete up to the head; block numbers  *)
(* stay far below 2^64, so the saturating additions never saturate.         *)
(***************************************************************************)
EXTENDS Integers

CONSTANTS
    NPools,     \* number of resolved pools, visited in the order 1..NPools
    NTopics,    \* EVENT_TOPICS; topic 1 is the Swap event
    Logs,       \* Logs[p]: every log the chain will ever hold for pool p
    MaxHead,    \* bound: the last block the model's chain mines
    HeadLag,    \* bound: how far eth_blockNumber may trail the head
    MaxStarts,  \* bound: how many times the program is started
    Configs,    \* the command lines it may be started with
    None,       \* an absent option, an absent checkpoint file
    Corrupt     \* a checkpoint file that is not JSON

Pool  == 1..NPools
Topic == 1..NTopics
Log   == [topic : Topic, block : Nat, index : Nat]

\* The flags that steer the loop (BackfillConfig).
Config == [lookback : Nat, maxRun : Nat, chunk : Nat, iterations : Nat,
           from : Nat \cup {None}, to : Nat \cup {None}, swapsOnly : BOOLEAN]

ASSUME PoolsAssumption  == NPools \in Nat /\ NTopics \in Nat \ {0}
ASSUME LogsAssumption   == Logs \in [Pool -> SUBSET Log]
ASSUME BoundsAssumption == MaxHead \in Nat /\ HeadLag \in Nat /\ MaxStarts \in Nat
ASSUME ConfigAssumption == Configs \subseteq Config
ASSUME NoneAssumption   == None \notin Nat \cup [lo : Nat, hi : Nat] /\ Corrupt \notin Nat \cup {None}

VARIABLES
    head,       \* last block of the chain
    copies,     \* copies[p][l]: how often log l was written to p's events.jsonl
    garbled,    \* garbled[p]: two records of p's file share one line
    lineEnd,    \* lineEnd[p]: how the last line of p's file ends
    ckpt,       \* ckpt[p]: next_block of p's checkpoint file
    pc,         \* where the process is
    cfg,        \* its flags
    iteration,  \* passes begun (counted only when --iterations bounds them)
    latest,     \* chain head it read at the start of the pass
    allDone,    \* all_done: no pool had work so far in this pass
    idx,        \* pool it is at
    start,      \* first block of the window
    winEnd,     \* to_block: last block of the window
    cursor,     \* first block of the current chunk
    topic,      \* topic to fetch next for that chunk
    starts,     \* number of processes started so far
    promised    \* promised[p]: blocks the last checkpoint of p vouches for

disk  == <<copies, garbled, lineEnd, ckpt>>
local == <<cfg, iteration, latest, allDone, idx, start, winEnd, cursor, topic>>
vars  == <<head, disk, pc, local, starts, promised>>

Least(a, b) == IF a <= b THEN a ELSE b
AtLeastOne(n) == IF n = 0 THEN 1 ELSE n

(***************************************************************************)
(* Derived values of the pass and the window.                              *)
(***************************************************************************)
\* (Names that end in _bug are faulty variants of the definition that follows them;
\* no specification uses them.  They show that a property can fail.)

\* Bug: the window end is not capped at the chain head.
TargetEnd_bug == IF cfg.to = None THEN latest ELSE cfg.to

\* Upper bound to collect to: a fixed window end, or the chain head.
TargetEnd == IF cfg.to = None THEN latest ELSE Least(cfg.to, latest)

\* Bug: plain instead of saturating subtraction.
DefaultStart_bug == IF cfg.from # None THEN cfg.from ELSE latest - (AtLeastOne(cfg.lookback) - 1)

\* Where a pool without a checkpoint begins.
DefaultStart ==
    IF cfg.from # None THEN cfg.from
    ELSE LET back == AtLeastOne(cfg.lookback) - 1
         IN  IF latest >= back THEN latest - back ELSE 0

Historical == cfg.to # None \/ cfg.from # None

ChunkEnd == Least(cursor + AtLeastOne(cfg.chunk) - 1, winEnd)

\* The window's swaps are fetched up to here: topic 1 comes first in each chunk.
Passed(b) == b < cursor \/ (topic > 1 /\ b <= ChunkEnd)

LastTopic == IF cfg.swapsOnly THEN 1 ELSE NTopics

\* Bug: the last block of the range is left out.
GetLogs_bug(p, t, a, b) ==
    {l \in Logs[p] : l.topic = t /\ a <= l.block /\ l.block < b /\ l.block <= head}

\* eth_getLogs of one pool and topic: what the chain holds in that range.
GetLogs(p, t, a, b) ==
    {l \in Logs[p] : l.topic = t /\ a <= l.block /\ l.block <= Least(b, head)}

Precedes(k, l) == k.block < l.block \/ (k.block = l.block /\ k.index < l.index)

(***************************************************************************)
(* The events file, as its readers see it.  load_swaps and                 *)
(* summarize-slipstream-events refuse the whole file when one line is not   *)
(* a record; otherwise each line counts, sorted by (block, log_index).      *)
(***************************************************************************)
Readable(p)   == ~garbled[p] /\ lineEnd[p] # "partial"
Visible(p, l) == copies[p][l] > 0
Swaps(p)      == {l \in Logs[p] : l.topic = 1}

\* append_event_logs wrote the records L and left the last line in state `end`.
\* A record written after a line without its newline lands on that line.
Append(p, L, end) ==
    /\ copies'  = [copies EXCEPT ![p] =
                     [l \in Logs[p] |-> IF l \in L THEN @[l] + 1 ELSE @[l]]]
    /\ garbled' = [garbled EXCEPT ![p] =
                     @ \/ (lineEnd[p] # "newline" /\ (L # {} \/ end = "partial"))]
    /\ lineEnd' = [lineEnd EXCEPT ![p] = IF L # {} \/ end = "partial" THEN end ELSE @]

-----------------------------------------------------------------------------
Init ==
    /\ head = 0
    /\ copies   = [p \in Pool |-> [l \in Logs[p] |-> 0]]
    /\ garbled  = [p \in Pool |-> FALSE]
    /\ lineEnd  = [p \in Pool |-> "newline"]
    /\ ckpt     = [p \in Pool |-> None]
    /\ promised = [p \in Pool |-> None]
    /\ pc = "down"
    /\ cfg \in Configs
    /\ iteration = 0 /\ latest = 0 /\ allDone = TRUE /\ idx = 1
    /\ start = 0 /\ winEnd = 0 /\ cursor = 0 /\ topic = 1
    /\ starts = 0

\* The environment mines a block.
Mine ==
    /\ head < MaxHead
    /\ head' = head + 1
    /\ UNCHANGED <<disk, pc, local, starts, promised>>

\* What a process knows besides its flags when it starts, or once it is gone.
FreshMemory ==
    /\ iteration' = 0 /\ latest' = 0 /\ allDone' = TRUE /\ idx' = 1
    /\ start' = 0 /\ winEnd' = 0 /\ cursor' = 0 /\ topic' = 1

\* An operator runs the command (again) over the same data directory.
Start ==
    /\ pc \in {"down", "done"}
    /\ starts < MaxStarts
    /\ starts' = starts + 1
    /\ cfg' \in Configs
    /\ pc' = "pass"
    /\ FreshMemory
    /\ UNCHANGED <<head, disk, promised>>

\* Bug: all_done is set once, before the loop.
BeginPass_bug ==
    /\ pc = "pass"
    /\ iteration' = IF cfg.iterations = 0 THEN iteration ELSE iteration + 1
    /\ \E h \in 0..head : head <= h + HeadLag /\ latest' = h
    /\ idx' = 1
    /\ pc' = "pool"
    /\ UNCHANGED <<head, disk, cfg, allDone, start, winEnd, cursor, topic, starts, promised>>

\* loop head: read the chain head, reset all_done, go to the first pool.
BeginPass ==
    /\ pc = "pass"
    /\ iteration' = IF cfg.iterations = 0 THEN iteration ELSE iteration + 1
    /\ \E h \in 0..head : head <= h + HeadLag /\ latest' = h
    /\ allDone' = TRUE
    /\ idx' = 1
    /\ pc' = "pool"
    /\ UNCHANGED <<head, disk, cfg, start, winEnd, cursor, topic, starts, promised>>

\* Skip the pool that idx is at, or open its window at block s.
OpenAt(s, skip) ==
    /\ pc = "pool" /\ idx \in Pool
    /\ ckpt[idx] # Corrupt
    /\ IF skip
       THEN /\ idx' = idx + 1
            /\ UNCHANGED <<pc, allDone, start, winEnd, cursor, topic>>
       ELSE /\ allDone' = FALSE
            /\ start' = s
            /\ winEnd' = Least(s + AtLeastOne(cfg.maxRun) - 1, TargetEnd)
            /\ cursor' = s
            /\ topic' = 1
            /\ pc' = "fetch"
            /\ UNCHANGED idx
    /\ UNCHANGED <<head, disk, cfg, iteration, latest, starts, promised>>

ResumeAt == IF ckpt[idx] = None THEN DefaultStart ELSE ckpt[idx]

\* Bug: the checkpoint is not read back.
OpenWindow_bug == OpenAt(DefaultStart, DefaultStart > TargetEnd)

\* Bug: a pool with one block left is skipped.
OpenWindow_late_bug == OpenAt(ResumeAt, ResumeAt >= TargetEnd)

\* read_next_block, then skip the pool or open its next window.
OpenWindow == OpenAt(ResumeAt, ResumeAt > TargetEnd)

\* A checkpoint that does not parse is an error: the command ends.
RefuseCheckpoint ==
    /\ pc = "pool" /\ idx \in Pool
    /\ ckpt[idx] = Corrupt
    /\ pc' = "down"
    /\ FreshMemory
    /\ UNCHANGED <<head, disk, cfg, starts, promised>>

\* One get_logs call of backfill_candidate_window and the append of its answer.
FetchTopic ==
    /\ pc = "fetch"
    /\ Append(idx, GetLogs(idx, topic, cursor, ChunkEnd), "newline")
    /\ IF topic < LastTopic
       THEN topic' = topic + 1 /\ UNCHANGED <<cursor, pc>>
       ELSE /\ topic' = 1
            /\ cursor' = ChunkEnd + 1
            /\ pc' = IF ChunkEnd = winEnd THEN "truncate" ELSE "fetch"
    /\ UNCHANGED <<head, ckpt, cfg, iteration, latest, allDone, idx, start, winEnd,
                   starts, promised>>

\* fs::write opens the checkpoint with truncation ...
TruncateCheckpoint ==
    /\ pc = "truncate"
    /\ ckpt' = [ckpt EXCEPT ![idx] = Corrupt]
    /\ pc' = "save"
    /\ UNCHANGED <<head, copies, garbled, lineEnd, local, starts, promised>>

\* The pool's checkpoint becomes `next`; the loop moves to the next pool.
SaveAs(next) ==
    /\ pc = "save"
    /\ ckpt' = [ckpt EXCEPT ![idx] = next]
    /\ promised' = [promised EXCEPT ![idx] =
                      [lo |-> IF @ = None THEN start ELSE @.lo, hi |-> next]]
    /\ idx' = idx + 1
    /\ pc' = "pool"
    /\ UNCHANGED <<head, copies, garbled, lineEnd, cfg, iteration, latest, allDone,
                   start, winEnd, cursor, topic, starts>>

\* Bug: the checkpoint names the last block collected, not the next one.
SaveCheckpoint_bug == SaveAs(winEnd)

\* Bug: the checkpoint is one block too far.
SaveCheckpoint_far_bug == SaveAs(winEnd + 2)

\* ... and then writes it.
SaveCheckpoint == SaveAs(winEnd + 1)

\* After the last pool: a historical window with nothing left ends the command,
\* so does the last pass of --iterations; otherwise sleep and go round again.
EndPass ==
    /\ pc = "pool" /\ idx > NPools
    /\ pc' = IF \/ Historical /\ allDone
                \/ cfg.iterations # 0 /\ iteration >= cfg.iterations
             THEN "done" ELSE "pass"
    /\ UNCHANGED <<head, disk, local, starts, promised>>

\* The process ends between two steps: a kill, or an error passed up by `?`.
Die ==
    /\ pc \in {"pass", "pool", "fetch", "truncate", "save"}
    /\ pc' = "down"
    /\ FreshMemory
    /\ UNCHANGED <<head, disk, cfg, starts, promised>>

\* It ends inside append_event_logs: a prefix of the answer was written, and the
\* last line may lack its newline or part of its text (writeln! is not atomic).
DieInAppend ==
    /\ pc = "fetch"
    /\ LET S == GetLogs(idx, topic, cursor, ChunkEnd)
       IN  \E L \in SUBSET S :
             /\ \A l \in L, k \in S : Precedes(k, l) => k \in L
             /\ \/ L # {} /\ Append(idx, L, "newline")
                \/ L # {} /\ Append(idx, L, "whole")
                \/ L # S  /\ Append(idx, L, "partial")
    /\ pc' = "down"
    /\ FreshMemory
    /\ UNCHANGED <<head, ckpt, cfg, starts, promised>>

Step == \/ BeginPass \/ OpenWindow \/ RefuseCheckpoint \/ FetchTopic
        \/ TruncateCheckpoint \/ SaveCheckpoint \/ EndPass

Next == Mine \/ Start \/ Step \/ Die \/ DieInAppend

Spec == Init /\ [][Next]_vars

\* The tokio task runs on while the process lives; nothing restarts it, and
\* nothing makes the chain grow.
FairSpec == Spec /\ WF_vars(Step)

-----------------------------------------------------------------------------
TypeOK ==
    /\ head \in Nat /\ latest \in Nat /\ iteration \in Nat /\ starts \in Nat
    /\ DOMAIN copies = Pool
    /\ \A p \in Pool : copies[p] \in [Logs[p] -> Nat]
    /\ garbled \in [Pool -> BOOLEAN]
    /\ lineEnd \in [Pool -> {"newline", "whole", "partial"}]
    /\ ckpt \in [Pool -> Nat \cup {None, Corrupt}]
    /\ promised \in [Pool -> [lo : Nat, hi : Nat] \cup {None}]
    /\ pc \in {"down", "pass", "pool", "fetch", "truncate", "save", "done"}
    /\ cfg \in Configs
    /\ allDone \in BOOLEAN
    /\ idx \in 1..NPools + 1
    /\ pc \in {"fetch", "truncate", "save"} => idx \in Pool
    /\ start \in Nat /\ winEnd \in Nat /\ cursor \in Nat /\ topic \in Topic

\* Why no window leaves a gap: its first block is the checkpoint that was read, the
\* swaps before the cursor are stored (those of the whole chunk once topic 1 is
\* done), and it ends at a block the chain has mined.
WindowInv ==
    /\ latest <= head
    /\ \A p \in Pool : /\ ckpt[p] = None => promised[p] = None
                       /\ ckpt[p] \in Nat => promised[p] # None /\ promised[p].hi = ckpt[p]
    /\ pc \in {"fetch", "truncate", "save"} =>
         /\ promised[idx] # None => promised[idx].hi = start
         /\ start <= cursor /\ start <= winEnd /\ winEnd <= latest
         /\ pc = "fetch" => cursor <= winEnd
         /\ pc # "fetch" => cursor = winEnd + 1 /\ topic = 1
         /\ Readable(idx) =>
              \A l \in Swaps(idx) : start <= l.block /\ Passed(l.block) => Visible(idx, l)

\* A file that its readers accept holds every swap of every block its checkpoint
\* vouches for: however the process died and with whatever flags it came back, a
\* window is never checkpointed over logs that were not stored, and the checkpoint
\* never passes the chain head (Logs holds the logs of blocks still to come).
NoSilentGap ==
    \A p \in Pool :
        Readable(p) /\ promised[p] # None =>
            \A l \in Swaps(p) :
                promised[p].lo <= l.block /\ l.block < promised[p].hi => Visible(p, l)

\* Re-fetching after a death may store a log again, at most once per process:
\* load_swaps drops no duplicates, so this is how far a replay can over-count.
DuplicatesBounded == \A p \in Pool : \A l \in Logs[p] : copies[p][l] <= starts

\* No step writes a log of a block the checkpoint has passed, nor lets the promise
\* shrink: a checkpoint read back by a later process never sends it over old blocks.
SettledBlocksStay ==
    [][\A p \in Pool : promised[p] # None =>
          /\ promised'[p] # None
          /\ promised'[p].lo = promised[p].lo /\ promised'[p].hi >= promised[p].hi
          /\ \A l \in Logs[p] : l.block < promised[p].hi => copies'[p][l] = copies[p][l]]_vars

\* The indexer implements the at-least-once event history: however processes die
\* and come back, a reader sees records grow, promises grow over held swaps only,
\* and a refused record never come back with something missing.
History == INSTANCE EventHistory
           WITH Swap    <- [p \in Pool |-> Swaps(p)],
                loaded  <- [p \in Pool |-> {l \in Swaps(p) : Visible(p, l)}],
                refused <- [p \in Pool |-> ~Readable(p)],
                window  <- promised

ImplementsHistory == History!Spec

\* With the process alive, each block of the chain that the node's answers cannot trail any
\* more ends up behind every pool's checkpoint, unless the process ends (Die, or the last of
\* --iterations).
CatchesUp ==
    \A b \in 0..MaxHead : \A p \in Pool :
        (head >= b + HeadLag) ~> (pc \in {"down", "done"} \/ (ckpt[p] \in Nat /\ ckpt[p] > b))

\* "the run stops once every pool has passed [--to-block] (even with --iterations 0)"
\* (apps/cli/src/main.rs:462): a started bounded run does not go on for ever.
BoundedRunEnds == [](pc = "pass" /\ cfg.to # None => <>(pc \in {"down", "done"}))

\* "writes restart checkpoints" (docs/pilot-base-aerodrome.md:222): whatever
\* checkpoint a dead process left, the next one can start from it.
CheckpointAllowsRestart == pc = "down" => \A p \in Pool : ckpt[p] # Corrupt
=============================================================================

--------------------------- MODULE BackfillProofs ---------------------------
(***************************************************************************)
(* Theorems about Backfill for any pools, logs, command lines and bounds:  *)
(* type correctness, the window invariant, NoSilentGap and the action       *)
(* property SettledBlocksStay.                                              *)
(***************************************************************************)
EXTENDS Backfill, TLAPS

USE PoolsAssumption, LogsAssumption, BoundsAssumption, ConfigAssumption, NoneAssumption

-----------------------------------------------------------------------------
(***************************************************************************)
(* Facts about the operators.                                              *)
(***************************************************************************)
\* The derived block numbers are naturals, and a chunk lies in its window.
LEMMA BlockArithmetic ==
    ASSUME TypeOK
    PROVE  /\ TargetEnd \in Nat /\ TargetEnd <= latest
           /\ DefaultStart \in Nat
           /\ ChunkEnd \in Nat /\ ChunkEnd <= winEnd
           /\ cursor <= winEnd => cursor <= ChunkEnd
<1>1. cfg \in Config
  BY DEF TypeOK
<1>2. /\ cfg.lookback \in Nat /\ cfg.chunk \in Nat
      /\ cfg.from \in Nat \cup {None} /\ cfg.to \in Nat \cup {None}
  BY <1>1 DEF Config
<1>3. AtLeastOne(cfg.lookback) \in Nat \ {0} /\ AtLeastOne(cfg.chunk) \in Nat \ {0}
  BY <1>2 DEF AtLeastOne
<1>4. TargetEnd \in Nat /\ TargetEnd <= latest
  BY <1>2 DEF TargetEnd, Least, TypeOK
<1>5. DefaultStart \in Nat
  BY <1>2, <1>3 DEF DefaultStart, TypeOK
<1>6. /\ ChunkEnd \in Nat /\ ChunkEnd <= winEnd
      /\ cursor <= winEnd => cursor <= ChunkEnd
  <2>. DEFINE c == cursor + AtLeastOne(cfg.chunk) - 1
  <2>1. c \in Nat /\ cursor <= c
    BY <1>3 DEF TypeOK
  <2>. HIDE DEF c
  <2>2. ChunkEnd = Least(c, winEnd)
    BY DEF ChunkEnd, c
  <2>. QED  BY <2>1, <2>2 DEF Least, TypeOK
<1>. QED  BY <1>4, <1>5, <1>6

\* An append keeps the types of the file, forgets no record and repairs no file;
\* in a file that stays readable each record written is visible.
LEMMA AppendFacts ==
    ASSUME TypeOK, NEW p \in Pool, NEW L \in SUBSET Logs[p],
           NEW end \in {"newline", "whole", "partial"}, Append(p, L, end)
    PROVE  /\ DOMAIN copies' = Pool
           /\ \A q \in Pool : copies'[q] \in [Logs[q] -> Nat]
           /\ garbled' \in [Pool -> BOOLEAN]
           /\ lineEnd' \in [Pool -> {"newline", "whole", "partial"}]
           /\ \A q \in Pool : Readable(q)' => Readable(q)
           /\ \A q \in Pool : \A l \in Logs[q] : Visible(q, l) => Visible(q, l)'
           /\ \A l \in L : Visible(p, l)'
           /\ \A q \in Pool : \A l \in Logs[q] :
                  ~(q = p /\ l \in L) => copies'[q][l] = copies[q][l]
<1>1. /\ copies' = [copies EXCEPT ![p] =
                     [l \in Logs[p] |-> IF l \in L THEN @[l] + 1 ELSE @[l]]]
      /\ DOMAIN copies = Pool
      /\ \A q \in Pool : copies[q] \in [Logs[q] -> Nat]
  BY DEF Append, TypeOK
<1>2. DOMAIN copies' = Pool
  BY <1>1
<1>3. \A q \in Pool : q # p => copies'[q] = copies[q]
  BY <1>1
<1>4. copies'[p] = [l \in Logs[p] |-> IF l \in L THEN copies[p][l] + 1 ELSE copies[p][l]]
  BY <1>1
<1>5. \A q \in Pool : copies'[q] \in [Logs[q] -> Nat]
  BY <1>1, <1>3, <1>4
<1>6. garbled' \in [Pool -> BOOLEAN] /\ lineEnd' \in [Pool -> {"newline", "whole", "partial"}]
  BY DEF Append, TypeOK
<1>7. \A q \in Pool : Readable(q)' => Readable(q)
  BY ZenonT(60) DEF Append, TypeOK, Readable
<1>8. \A q \in Pool : \A l \in Logs[q] : Visible(q, l) => Visible(q, l)'
  BY <1>1, <1>3, <1>4 DEF Visible
<1>9. \A l \in L : Visible(p, l)'
  BY <1>1, <1>4 DEF Visible
<1>10. \A q \in Pool : \A l \in Logs[q] : ~(q = p /\ l \in L) => copies'[q][l] = copies[q][l]
  BY <1>3, <1>4
<1>. QED  BY <1>2, <1>5, <1>6, <1>7, <1>8, <1>9, <1>10

-----------------------------------------------------------------------------
(***************************************************************************)
(* Type correctness.                                                       *)
(***************************************************************************)
\* Files, checkpoints, promises and process memory keep their types: every value
\* read back from disk after a crash is one some process wrote.
LEMMA InitTypeOK == Init => TypeOK
<1>. SUFFICES ASSUME Init PROVE TypeOK
  OBVIOUS
<1>1. \A p \in Pool : copies[p] \in [Logs[p] -> Nat]
  BY DEF Init
<1>2. 1 \in 1..NPools + 1 /\ 1 \in Topic
  BY DEF Topic
<1>. QED  BY <1>1, <1>2 DEF Init, TypeOK

\* No action leaves the types.
LEMMA StepTypeOK == TypeOK /\ [Next]_vars => TypeOK'
<1>. SUFFICES ASSUME TypeOK, [Next]_vars PROVE TypeOK'
  OBVIOUS
<1>. USE DEF TypeOK
<1>0. 1 \in 1..NPools + 1 /\ 1 \in Topic
  BY DEF Topic
<1>1. CASE Mine
  BY <1>1 DEF Mine, disk, local
<1>2. CASE Start
  BY <1>0, <1>2 DEF Start, FreshMemory, disk
<1>3. CASE BeginPass
  BY <1>0, <1>3 DEF BeginPass, disk
<1>4. CASE OpenWindow
  <2>1. cfg \in Config /\ cfg.maxRun \in Nat
    BY DEF Config
  <2>. DEFINE s == IF ckpt[idx] = None THEN DefaultStart ELSE ckpt[idx]
  <2>2. s \in Nat /\ idx \in Pool
    BY <1>4, BlockArithmetic DEF OpenWindow, OpenAt, ResumeAt
  <2>3. AtLeastOne(cfg.maxRun) \in Nat \ {0}
    BY <2>1 DEF AtLeastOne
  <2>4. CASE s > TargetEnd
    <3>1. idx + 1 \in 1..NPools + 1
      BY <2>2 DEF Pool
    <3>. QED  BY <1>4, <2>4, <3>1 DEF OpenWindow, OpenAt, ResumeAt, disk
  <2>5. CASE ~(s > TargetEnd)
    <3>. DEFINE w == s + AtLeastOne(cfg.maxRun) - 1
    <3>. HIDE DEF s
    <3>1. w \in Nat
      BY <2>2, <2>3
    <3>. HIDE DEF w
    <3>2. Least(w, TargetEnd) \in Nat
      BY <3>1, BlockArithmetic DEF Least
    <3>3. /\ allDone' = FALSE /\ start' = s /\ cursor' = s /\ topic' = 1
          /\ winEnd' = Least(w, TargetEnd)
          /\ pc' = "fetch"
          /\ UNCHANGED <<idx, head, disk, cfg, iteration, latest, starts, promised>>
      BY <1>4, <2>5 DEF OpenWindow, OpenAt, ResumeAt, w, s
    <3>. QED  BY <1>0, <2>2, <3>2, <3>3 DEF disk
  <2>. QED  BY <2>4, <2>5
<1>5. CASE RefuseCheckpoint
  BY <1>0, <1>5 DEF RefuseCheckpoint, FreshMemory, disk
<1>6. CASE FetchTopic
  <2>. DEFINE L == GetLogs(idx, topic, cursor, ChunkEnd)
  <2>1. idx \in Pool
    BY <1>6 DEF FetchTopic
  <2>2. L \in SUBSET Logs[idx] /\ Append(idx, L, "newline")
    BY <1>6 DEF FetchTopic, GetLogs
  <2>. HIDE DEF L
  <2>3. /\ DOMAIN copies' = Pool
        /\ \A q \in Pool : copies'[q] \in [Logs[q] -> Nat]
        /\ garbled' \in [Pool -> BOOLEAN]
        /\ lineEnd' \in [Pool -> {"newline", "whole", "partial"}]
    BY <2>1, <2>2, AppendFacts
  <2>4. /\ UNCHANGED <<head, ckpt, cfg, iteration, latest, allDone, idx, start,
                       winEnd, starts, promised>>
        /\ pc' \in {"fetch", "truncate"}
        /\ topic' \in Topic /\ cursor' \in Nat
    <3>1. LastTopic \in Topic
      BY <1>0 DEF LastTopic, Topic
    <3>2. ChunkEnd + 1 \in Nat
      BY BlockArithmetic
    <3>3. CASE topic < LastTopic
      BY <1>6, <3>1, <3>3 DEF FetchTopic, Topic
    <3>4. CASE ~(topic < LastTopic)
      BY <1>0, <1>6, <3>2, <3>4 DEF FetchTopic
    <3>. QED  BY <3>3, <3>4
  <2>. QED  BY <2>1, <2>3, <2>4
<1>7. CASE TruncateCheckpoint
  BY <1>7 DEF TruncateCheckpoint, local
<1>8. CASE SaveCheckpoint
  <2>1. idx \in Pool /\ idx + 1 \in 1..NPools + 1
    BY <1>8 DEF SaveCheckpoint, SaveAs, Pool
  <2>2. [lo |-> IF promised[idx] = None THEN start ELSE promised[idx].lo,
         hi |-> winEnd + 1] \in [lo : Nat, hi : Nat]
    BY <2>1
  <2>. QED  BY <1>8, <2>1, <2>2 DEF SaveCheckpoint, SaveAs
<1>9. CASE EndPass
  BY <1>9 DEF EndPass, disk, local
<1>10. CASE Die
  BY <1>0, <1>10 DEF Die, FreshMemory, disk
<1>11. CASE DieInAppend
  <2>1. PICK L \in SUBSET GetLogs(idx, topic, cursor, ChunkEnd),
             end \in {"newline", "whole", "partial"} : Append(idx, L, end)
    BY <1>11, Zenon DEF DieInAppend
  <2>2. idx \in Pool /\ L \in SUBSET Logs[idx]
    BY <1>11 DEF DieInAppend, GetLogs
  <2>3. /\ DOMAIN copies' = Pool
        /\ \A q \in Pool : copies'[q] \in [Logs[q] -> Nat]
        /\ garbled' \in [Pool -> BOOLEAN]
        /\ lineEnd' \in [Pool -> {"newline", "whole", "partial"}]
    BY <2>1, <2>2, AppendFacts
  <2>. QED  BY <1>0, <1>11, <2>3 DEF DieInAppend, FreshMemory
<1>12. CASE UNCHANGED vars
  BY <1>12 DEF vars, disk, local
<1>. QED
  BY <1>1, <1>2, <1>3, <1>4, <1>5, <1>6, <1>7, <1>8, <1>9, <1>10, <1>11, <1>12
     DEF Next, Step

\* Types hold in every behaviour, for all pools, logs, flags and bounds.
THEOREM TypeCorrect == Spec => []TypeOK
BY InitTypeOK, StepTypeOK, PTL DEF Spec

-----------------------------------------------------------------------------
(***************************************************************************)
(* No silent gap.  NoSilentGap alone is not inductive: SaveCheckpoint       *)
(* extends the promise to the window, so what the window has fetched must   *)
(* be known; that is WindowInv.  Together with the types they are.          *)
(***************************************************************************)
GapInv == WindowInv /\ NoSilentGap

\* Both hold before any process ran: nothing is promised.
LEMMA InitGapInv == Init => GapInv
BY DEF Init, GapInv, WindowInv, NoSilentGap

\* Appending to a pool's file keeps every promise: records only arrive.
LEMMA AppendKeepsPromises ==
    ASSUME TypeOK, NoSilentGap, UNCHANGED promised,
           NEW p \in Pool, NEW L \in SUBSET Logs[p],
           NEW end \in {"newline", "whole", "partial"}, Append(p, L, end)
    PROVE  NoSilentGap'
<1>1. \A q \in Pool : Readable(q)' => Readable(q)
  BY AppendFacts
<1>2. \A q \in Pool : \A l \in Swaps(q) : Visible(q, l) => Visible(q, l)'
  BY AppendFacts DEF Swaps
<1>. QED  BY <1>1, <1>2 DEF NoSilentGap, Swaps

\* Fetching topic 1 of a chunk stores the chunk's swaps, all of them mined.
LEMMA FetchKeepsGapInv == TypeOK /\ GapInv /\ FetchTopic => GapInv'
<1>. SUFFICES ASSUME TypeOK, GapInv, FetchTopic PROVE GapInv'
  OBVIOUS
<1>. DEFINE L == GetLogs(idx, topic, cursor, ChunkEnd)
<1>1. idx \in Pool /\ pc = "fetch"
  BY DEF FetchTopic, TypeOK
<1>2. L \in SUBSET Logs[idx] /\ Append(idx, L, "newline")
  BY DEF FetchTopic, GetLogs
<1>. HIDE DEF L
<1>3. UNCHANGED <<head, ckpt, latest, idx, start, winEnd, promised>>
  BY DEF FetchTopic
<1>4. NoSilentGap'
  BY <1>1, <1>2, <1>3, AppendKeepsPromises DEF GapInv
<1>5. /\ start <= cursor /\ start <= winEnd /\ winEnd <= latest /\ latest <= head
      /\ cursor <= winEnd /\ cursor <= ChunkEnd /\ ChunkEnd <= winEnd
      /\ ChunkEnd \in Nat /\ cursor \in Nat /\ topic \in Nat /\ topic >= 1
      /\ start \in Nat /\ winEnd \in Nat /\ head \in Nat /\ latest \in Nat
  BY <1>1, BlockArithmetic DEF GapInv, WindowInv, TypeOK, Topic
<1>6. \/ topic' = topic + 1 /\ cursor' = cursor /\ pc' = "fetch" /\ cfg' = cfg
      \/ topic' = 1 /\ cursor' = ChunkEnd + 1 /\ pc' = "fetch" /\ ChunkEnd # winEnd
      \/ topic' = 1 /\ cursor' = ChunkEnd + 1 /\ pc' = "truncate" /\ ChunkEnd = winEnd
  BY <1>1 DEF FetchTopic
<1>7. \A b \in Nat : Passed(b)' => Passed(b) \/ (topic = 1 /\ cursor <= b /\ b <= ChunkEnd)
  <2>1. CASE topic' = topic + 1 /\ cursor' = cursor /\ pc' = "fetch" /\ cfg' = cfg
    <3>1. ChunkEnd' = ChunkEnd
      BY <1>3, <2>1 DEF ChunkEnd
    <3>. QED  BY <1>5, <2>1, <3>1 DEF Passed
  <2>2. CASE topic' = 1 /\ cursor' = ChunkEnd + 1
    BY <1>5, <2>2 DEF Passed
  <2>. QED  BY <1>6, <2>1, <2>2
<1>8. ASSUME Readable(idx)', NEW l \in Swaps(idx), start <= l.block, Passed(l.block)'
      PROVE  Visible(idx, l)'
  <2>1. l \in Logs[idx] /\ l.topic = 1 /\ l.block \in Nat
    BY <1>1 DEF Swaps, Log
  <2>2. CASE Passed(l.block)
    <3>1. Readable(idx)
      BY <1>1, <1>2, <1>3, <1>8, AppendFacts
    <3>2. Visible(idx, l)
      BY <1>1, <1>8, <2>2, <3>1 DEF GapInv, WindowInv
    <3>. QED  BY <1>1, <1>2, <1>3, <2>1, <3>2, AppendFacts
  <2>3. CASE topic = 1 /\ cursor <= l.block /\ l.block <= ChunkEnd
    <3>1. l \in L
      BY <1>5, <2>1, <2>3 DEF L, GetLogs, Least
    <3>. QED  BY <1>1, <1>2, <1>3, <3>1, AppendFacts
  <2>. QED  BY <1>7, <1>8, <2>1, <2>2, <2>3
<1>9. WindowInv'
  <2>1. latest' <= head'
    BY <1>3, <1>5
  <2>2. \A p \in Pool : /\ ckpt'[p] = None => promised'[p] = None
                        /\ ckpt'[p] \in Nat => promised'[p] # None /\ promised'[p].hi = ckpt'[p]
    BY <1>3 DEF GapInv, WindowInv
  <2>3. /\ promised'[idx'] # None => promised'[idx'].hi = start'
        /\ start' <= winEnd' /\ winEnd' <= latest'
    BY <1>1, <1>3, <1>5 DEF GapInv, WindowInv
  <2>4. /\ start' <= cursor'
        /\ pc' = "fetch" => cursor' <= winEnd'
        /\ pc' # "fetch" => cursor' = winEnd' + 1 /\ topic' = 1
    BY <1>3, <1>5, <1>6
  <2>5. (\A l \in Swaps(idx) : start <= l.block /\ Passed(l.block) => Visible(idx, l))'
           \/ ~Readable(idx)'
    BY <1>3, <1>8 DEF Swaps
  <2>. QED  BY <2>1, <2>2, <2>3, <2>4, <2>5 DEF WindowInv
<1>. QED  BY <1>4, <1>9 DEF GapInv

\* Opening a window starts it at the promise and ends it at a mined block.
LEMMA OpenKeepsGapInv == TypeOK /\ GapInv /\ OpenWindow => GapInv'
<1>. SUFFICES ASSUME TypeOK, GapInv, OpenWindow PROVE GapInv'
  OBVIOUS
<1>. DEFINE s == IF ckpt[idx] = None THEN DefaultStart ELSE ckpt[idx]
<1>1. /\ idx \in Pool /\ pc = "pool" /\ ckpt[idx] # Corrupt
      /\ UNCHANGED <<head, copies, garbled, lineEnd, ckpt, latest, promised>>
  BY DEF OpenWindow, OpenAt, ResumeAt, disk
<1>2. NoSilentGap'
  BY <1>1 DEF GapInv, NoSilentGap, Readable, Visible, Swaps
<1>3. /\ latest' <= head'
      /\ \A p \in Pool : /\ ckpt'[p] = None => promised'[p] = None
                         /\ ckpt'[p] \in Nat => promised'[p] # None /\ promised'[p].hi = ckpt'[p]
  BY <1>1 DEF GapInv, WindowInv
<1>4. CASE s > TargetEnd
  <2>1. pc' = "pool"
    BY <1>1, <1>4 DEF OpenWindow, OpenAt, ResumeAt
  <2>. QED  BY <1>2, <1>3, <2>1 DEF GapInv, WindowInv
<1>5. CASE ~(s > TargetEnd)
  <2>1. /\ start' = s /\ cursor' = s /\ topic' = 1 /\ pc' = "fetch" /\ idx' = idx
        /\ winEnd' = Least(s + AtLeastOne(cfg.maxRun) - 1, TargetEnd)
    BY <1>5 DEF OpenWindow, OpenAt, ResumeAt
  <2>2. s \in Nat /\ (promised[idx] # None => promised[idx].hi = s)
    BY <1>1, BlockArithmetic DEF TypeOK, GapInv, WindowInv
  <2>. HIDE DEF s
  <2>3. s <= TargetEnd /\ TargetEnd \in Nat /\ TargetEnd <= latest /\ latest \in Nat
    BY <1>5, <2>2, BlockArithmetic DEF TypeOK
  <2>4. AtLeastOne(cfg.maxRun) \in Nat \ {0}
    BY DEF AtLeastOne, TypeOK, Config
  <2>5. winEnd' \in Nat /\ s <= winEnd' /\ winEnd' <= latest
    <3>. DEFINE w == s + AtLeastOne(cfg.maxRun) - 1
    <3>1. w \in Nat /\ s <= w
      BY <2>2, <2>4
    <3>2. winEnd' = Least(w, TargetEnd)
      BY <2>1
    <3>. HIDE DEF w
    <3>. QED  BY <2>2, <2>3, <3>1, <3>2 DEF Least
  <2>6. \A b \in Nat : ~(s <= b /\ Passed(b)')
    BY <2>1, <2>2 DEF Passed
  <2>7. \A l \in Swaps(idx') : l.block \in Nat
    BY <1>1, <2>1 DEF Swaps, Log
  <2>8. WindowInv'
    BY <1>1, <1>3, <2>1, <2>2, <2>5, <2>6, <2>7 DEF WindowInv
  <2>. QED  BY <1>2, <2>8 DEF GapInv
<1>. QED  BY <1>4, <1>5

\* Saving a checkpoint extends the promise by exactly the window just stored.
LEMMA SaveKeepsGapInv == TypeOK /\ GapInv /\ SaveCheckpoint => GapInv'
<1>. SUFFICES ASSUME TypeOK, GapInv, SaveCheckpoint PROVE GapInv'
  OBVIOUS
<1>. DEFINE lo == IF promised[idx] = None THEN start ELSE promised[idx].lo
<1>1. /\ idx \in Pool /\ pc = "save" /\ pc' = "pool" /\ winEnd + 1 \in Nat /\ lo \in Nat
      /\ UNCHANGED <<head, copies, garbled, lineEnd, latest>>
  BY DEF SaveCheckpoint, SaveAs, TypeOK
<1>2. /\ ckpt' = [ckpt EXCEPT ![idx] = winEnd + 1]
      /\ promised' = [promised EXCEPT ![idx] = [lo |-> lo, hi |-> winEnd + 1]]
  BY DEF SaveCheckpoint, SaveAs
<1>3. /\ cursor = winEnd + 1 /\ (promised[idx] # None => promised[idx].hi = start)
      /\ Readable(idx) => \A l \in Swaps(idx) : start <= l.block /\ l.block < cursor => Visible(idx, l)
  BY <1>1 DEF GapInv, WindowInv, Passed
<1>4. /\ promised'[idx] = [lo |-> lo, hi |-> winEnd + 1]
      /\ ckpt'[idx] = winEnd + 1
      /\ \A p \in Pool : p # idx => promised'[p] = promised[p] /\ ckpt'[p] = ckpt[p]
  BY <1>1, <1>2 DEF TypeOK
<1>5. promised'[idx] # None /\ promised'[idx].lo = lo /\ promised'[idx].hi = winEnd + 1
  <2>1. [lo |-> lo, hi |-> winEnd + 1] \in [lo : Nat, hi : Nat]
    BY <1>1
  <2>. QED  BY <1>4, <2>1
<1>6. WindowInv'
  <2>1. latest' <= head'
    BY <1>1 DEF GapInv, WindowInv
  <2>2. \A p \in Pool : /\ ckpt'[p] = None => promised'[p] = None
                        /\ ckpt'[p] \in Nat => promised'[p] # None /\ promised'[p].hi = ckpt'[p]
    BY <1>1, <1>4, <1>5 DEF GapInv, WindowInv
  <2>. QED  BY <1>1, <2>1, <2>2 DEF WindowInv
<1>7. ASSUME NEW p \in Pool, Readable(p)', promised'[p] # None, NEW l \in Swaps(p),
             promised'[p].lo <= l.block, l.block < promised'[p].hi
      PROVE  Visible(p, l)'
  <2>1. Readable(p) /\ (Visible(p, l) => Visible(p, l)') /\ l.block \in Nat
    BY <1>1, <1>7 DEF Readable, Visible, Swaps, Log
  <2>2. CASE p # idx
    BY <1>4, <1>7, <2>1, <2>2 DEF GapInv, NoSilentGap
  <2>3. CASE p = idx /\ start <= l.block
    BY <1>1, <1>3, <1>5, <1>7, <2>1, <2>3
  <2>4. CASE p = idx /\ ~(start <= l.block)
    <3>1. promised[p] # None /\ promised[p].lo <= l.block /\ l.block < promised[p].hi
      BY <1>1, <1>3, <1>5, <1>7, <2>1, <2>4 DEF TypeOK
    <3>. QED  BY <1>7, <2>1, <3>1 DEF GapInv, NoSilentGap
  <2>. QED  BY <2>2, <2>3, <2>4
<1>8. NoSilentGap'
  BY <1>7 DEF NoSilentGap, Swaps
<1>. QED  BY <1>6, <1>8 DEF GapInv

\* The gap invariant survives every step, those of a dying process included.
LEMMA StepGapInv == TypeOK /\ GapInv /\ [Next]_vars => GapInv'
<1>. SUFFICES ASSUME TypeOK, GapInv, [Next]_vars PROVE GapInv'
  OBVIOUS
<1>1. CASE pc' \notin {"fetch", "truncate", "save"} /\ latest' <= head'
           /\ UNCHANGED <<copies, garbled, lineEnd, ckpt, promised>>
  BY <1>1 DEF GapInv, WindowInv, NoSilentGap, Readable, Visible, Swaps
<1>2. CASE Mine
  <2>1. latest' <= head'
    BY <1>2 DEF Mine, local, GapInv, WindowInv, TypeOK
  <2>. QED
    BY <1>2, <2>1 DEF Mine, disk, local, GapInv, WindowInv, NoSilentGap, Readable, Visible,
                      Swaps, Passed, ChunkEnd
<1>3. CASE Start \/ RefuseCheckpoint \/ Die
  BY <1>1, <1>3 DEF Start, RefuseCheckpoint, Die, FreshMemory, disk, TypeOK
<1>4. CASE BeginPass
  <2>1. latest' <= head'
    BY <1>4 DEF BeginPass, TypeOK
  <2>. QED  BY <1>1, <1>4, <2>1 DEF BeginPass, disk
<1>5. CASE EndPass
  BY <1>1, <1>5 DEF EndPass, disk, local, GapInv, WindowInv
<1>6. CASE TruncateCheckpoint
  <2>1. /\ idx \in Pool /\ ckpt' = [ckpt EXCEPT ![idx] = Corrupt] /\ pc' = "save"
        /\ pc = "truncate"
        /\ UNCHANGED <<head, copies, garbled, lineEnd, local, promised>>
    BY <1>6 DEF TruncateCheckpoint, TypeOK
  <2>2. \A p \in Pool : /\ ckpt'[p] = None => promised'[p] = None
                        /\ ckpt'[p] \in Nat => promised'[p] # None /\ promised'[p].hi = ckpt'[p]
    BY <2>1 DEF GapInv, WindowInv, TypeOK
  <2>3. NoSilentGap'
    BY <2>1 DEF GapInv, NoSilentGap, Readable, Visible, Swaps
  <2>4. WindowInv'
    BY <2>1, <2>2 DEF local, GapInv, WindowInv, Readable, Visible, Swaps, Passed, ChunkEnd
  <2>. QED  BY <2>3, <2>4 DEF GapInv
<1>7. CASE DieInAppend
  <2>1. PICK L \in SUBSET GetLogs(idx, topic, cursor, ChunkEnd),
             end \in {"newline", "whole", "partial"} : Append(idx, L, end)
    BY <1>7, Zenon DEF DieInAppend
  <2>2. idx \in Pool /\ L \in SUBSET Logs[idx]
    BY <1>7 DEF DieInAppend, GetLogs, TypeOK
  <2>3. pc' = "down" /\ latest' = 0 /\ UNCHANGED <<head, ckpt, promised>>
    BY <1>7 DEF DieInAppend, FreshMemory
  <2>4. NoSilentGap'
    BY <2>1, <2>2, <2>3, AppendKeepsPromises DEF GapInv
  <2>5. WindowInv'
    BY <2>3 DEF GapInv, WindowInv, TypeOK
  <2>. QED  BY <2>4, <2>5 DEF GapInv
<1>8. CASE UNCHANGED vars
  BY <1>8 DEF vars, disk, local, GapInv, WindowInv, NoSilentGap, Readable, Visible,
              Swaps, Passed, ChunkEnd
<1>. QED
  BY <1>2, <1>3, <1>4, <1>5, <1>6, <1>7, <1>8, FetchKeepsGapInv, OpenKeepsGapInv,
     SaveKeepsGapInv DEF Next, Step

\* However processes die and with whatever flags they come back, a file its readers
\* accept holds every swap of every block its checkpoint vouches for.
THEOREM NoGap == Spec => []NoSilentGap
<1>1. Spec => []GapInv
  BY InitGapInv, StepGapInv, TypeCorrect, PTL DEF Spec
<1>2. GapInv => NoSilentGap
  BY DEF GapInv
<1>. QED  BY <1>1, <1>2, PTL

-----------------------------------------------------------------------------
(***************************************************************************)
(* No step touches what is settled.                                        *)
(***************************************************************************)
Settled ==
    \A p \in Pool : promised[p] # None =>
        /\ promised'[p] # None
        /\ promised'[p].lo = promised[p].lo /\ promised'[p].hi >= promised[p].hi
        /\ \A l \in Logs[p] : l.block < promised[p].hi => copies'[p][l] = copies[p][l]

\* What an append writes lies in the window, hence behind no promise of its pool.
LEMMA AppendSettled ==
    ASSUME TypeOK, GapInv, pc = "fetch", UNCHANGED promised,
           NEW L \in SUBSET GetLogs(idx, topic, cursor, ChunkEnd),
           NEW end \in {"newline", "whole", "partial"}, Append(idx, L, end)
    PROVE  Settled
<1>1. /\ idx \in Pool /\ L \in SUBSET Logs[idx] /\ cursor \in Nat /\ start \in Nat
      /\ start <= cursor /\ (promised[idx] # None => promised[idx].hi = start)
  BY DEF GetLogs, TypeOK, GapInv, WindowInv
<1>2. \A q \in Pool : \A l \in Logs[q] : ~(q = idx /\ l \in L) => copies'[q][l] = copies[q][l]
  BY <1>1 DEF Append, TypeOK
<1>3. \A l \in L : cursor <= l.block /\ l.block \in Nat
  BY <1>1 DEF GetLogs, Log
<1>4. \A p \in Pool : promised[p] # None => promised[p].hi \in Nat
  BY DEF TypeOK
<1>5. \A p \in Pool : promised[p] # None =>
        \A l \in Logs[p] : l.block < promised[p].hi => copies'[p][l] = copies[p][l]
  BY <1>1, <1>2, <1>3, <1>4
<1>. QED  BY <1>4, <1>5 DEF Settled

\* Every step leaves the settled blocks alone.
LEMMA StepSettled == TypeOK /\ GapInv /\ Next => Settled
<1>. SUFFICES ASSUME TypeOK, GapInv, Next PROVE Settled
  OBVIOUS
<1>0. \A p \in Pool : promised[p] # None => promised[p].hi \in Nat
  BY DEF TypeOK
<1>1. CASE UNCHANGED <<copies, promised>>
  BY <1>0, <1>1 DEF Settled
<1>2. CASE FetchTopic
  BY <1>2, AppendSettled DEF FetchTopic
<1>3. CASE DieInAppend
  <2>1. PICK L \in SUBSET GetLogs(idx, topic, cursor, ChunkEnd),
             end \in {"newline", "whole", "partial"} : Append(idx, L, end)
    BY <1>3, Zenon DEF DieInAppend
  <2>. QED  BY <1>3, <2>1, AppendSettled DEF DieInAppend
<1>4. CASE SaveCheckpoint
  <2>1. /\ idx \in Pool /\ UNCHANGED copies
        /\ start \in Nat /\ winEnd \in Nat /\ start <= winEnd
        /\ promised[idx] # None => promised[idx].hi = start
    BY <1>4 DEF SaveCheckpoint, SaveAs, TypeOK, GapInv, WindowInv
  <2>2. \A p \in Pool : p # idx => promised'[p] = promised[p]
    BY <1>4 DEF SaveCheckpoint, SaveAs, TypeOK
  <2>3. ASSUME promised[idx] # None
        PROVE  /\ promised'[idx] # None
               /\ promised'[idx].lo = promised[idx].lo /\ promised'[idx].hi = winEnd + 1
    <3>1. promised'[idx] = [lo |-> promised[idx].lo, hi |-> winEnd + 1]
      BY <1>4, <2>1, <2>3 DEF SaveCheckpoint, SaveAs, TypeOK
    <3>2. promised'[idx] \in [lo : Nat, hi : Nat]
      BY <2>1, <2>3, <3>1 DEF TypeOK
    <3>. QED  BY <3>1, <3>2
  <2>. QED  BY <1>0, <2>1, <2>2, <2>3 DEF Settled
<1>5. CASE Mine \/ Start \/ BeginPass \/ OpenWindow \/ RefuseCheckpoint
           \/ TruncateCheckpoint \/ EndPass \/ Die
  BY <1>1, <1>5 DEF Mine, Start, BeginPass, OpenWindow, OpenAt, ResumeAt, RefuseCheckpoint,
                    TruncateCheckpoint, EndPass, Die, disk
<1>. QED  BY <1>2, <1>3, <1>4, <1>5 DEF Next, Step

\* No step of any process writes a log of a block the checkpoint has passed, nor
\* lets a promise shrink.
THEOREM SettledStay == Spec => SettledBlocksStay
<1>1. Spec => [](TypeOK /\ GapInv)
  BY InitGapInv, StepGapInv, TypeCorrect, PTL DEF Spec
<1>2. TypeOK /\ GapInv /\ [Next]_vars => [Settled]_vars
  BY StepSettled
<1>. QED  BY <1>1, <1>2, PTL DEF Spec, SettledBlocksStay, Settled

-----------------------------------------------------------------------------
(***************************************************************************)
(* The indexer implements EventHistory.                                    *)
(***************************************************************************)
loadedBar  == [p \in Pool |-> {l \in Swaps(p) : Visible(p, l)}]
refusedBar == [p \in Pool |-> ~Readable(p)]

\* Nothing is stored, refused or promised at the start.
LEMMA InitRefines == Init => History!Init
<1>. SUFFICES ASSUME Init PROVE History!Init
  OBVIOUS
<1>1. loadedBar = [p \in Pool |-> {}]
  BY DEF Init, Visible, Swaps, loadedBar
<1>2. refusedBar = [p \in Pool |-> FALSE]
  <2>1. \A p \in Pool : Readable(p)
    BY DEF Init, Readable
  <2>. QED  BY <2>1, Zenon DEF refusedBar
<1>3. promised = [p \in Pool |-> None]
  BY DEF Init
<1>. QED  BY <1>1, <1>2, <1>3 DEF History!Init, loadedBar, refusedBar

\* An append delivers swaps, or damages the record.
LEMMA AppendRefines ==
    ASSUME TypeOK, UNCHANGED promised, NEW p \in Pool, NEW L \in SUBSET Logs[p],
           NEW end \in {"newline", "whole", "partial"}, Append(p, L, end)
    PROVE  History!Deliver(p) \/ History!Damage(p)
<1>. DEFINE S == {l \in Swaps(p) : Visible(p, l)'}
            swap == [q \in Pool |-> Swaps(q)]
<1>1. \A q \in Pool : q # p => /\ copies'[q] = copies[q] /\ garbled'[q] = garbled[q]
                              /\ lineEnd'[q] = lineEnd[q]
  BY DEF Append, TypeOK
<1>2. \A q \in Pool : \A l \in Logs[q] : Visible(q, l) => Visible(q, l)'
  BY AppendFacts
<1>3. S \in SUBSET swap[p]
  OBVIOUS
<1>4. loadedBar' = [loadedBar EXCEPT ![p] = @ \cup S]
  <2>1. \A q \in Pool : loadedBar'[q] = [loadedBar EXCEPT ![p] = @ \cup S][q]
    BY <1>1, <1>2 DEF loadedBar, Visible, Swaps
  <2>. QED  BY <2>1 DEF loadedBar
<1>5. refusedBar' = refusedBar \/ refusedBar' = [refusedBar EXCEPT ![p] = TRUE]
  <2>1. \A q \in Pool : q # p => (Readable(q)' <=> Readable(q))
    BY <1>1 DEF Readable
  <2>2. Readable(p)' => Readable(p)
    BY AppendFacts
  <2>. QED  BY <2>1, <2>2 DEF refusedBar
<1>. QED
  BY <1>3, <1>4, <1>5 DEF History!Deliver, History!Damage, loadedBar, refusedBar

\* Saving a checkpoint extends the promise over swaps that are held.
LEMMA SaveRefines == TypeOK /\ GapInv /\ SaveCheckpoint => History!Extend(idx)
<1>. SUFFICES ASSUME TypeOK, GapInv, SaveCheckpoint PROVE History!Extend(idx)
  OBVIOUS
<1>1. /\ idx \in Pool /\ UNCHANGED <<copies, garbled, lineEnd>>
      /\ start \in Nat /\ winEnd \in Nat /\ start <= winEnd
      /\ promised[idx] # None => promised[idx].hi = start
  BY DEF SaveCheckpoint, SaveAs, TypeOK, GapInv, WindowInv
<1>2. /\ promised'[idx] = [lo |-> IF promised[idx] = None THEN start ELSE promised[idx].lo,
                          hi |-> winEnd + 1]
      /\ promised' = [promised EXCEPT ![idx] = promised'[idx]]
  BY <1>1 DEF SaveCheckpoint, SaveAs, TypeOK
<1>3. /\ promised'[idx] \in [lo : Nat, hi : Nat]
      /\ promised[idx] # None => /\ promised'[idx].lo = promised[idx].lo
                                /\ promised'[idx].hi >= promised[idx].hi
  BY <1>1, <1>2 DEF TypeOK
<1>4. NoSilentGap'
  BY SaveKeepsGapInv DEF GapInv
<1>5. Readable(idx) =>
        \A l \in Swaps(idx) : promised'[idx].lo <= l.block /\ l.block < promised'[idx].hi
                                 => Visible(idx, l)
  <2>1. promised'[idx] # None
    BY <1>3
  <2>. QED  BY <1>1, <1>4, <2>1 DEF NoSilentGap, Readable, Visible, Swaps
<1>6. UNCHANGED <<loadedBar, refusedBar>>
  BY <1>1 DEF loadedBar, refusedBar, Visible, Readable, Swaps
<1>7. refusedBar[idx] \/ History!Held(idx, promised'[idx], loadedBar[idx])
  BY <1>1, <1>5 DEF refusedBar, loadedBar, History!Held
<1>. QED
  BY <1>2, <1>3, <1>6, <1>7 DEF History!Extend, loadedBar, refusedBar

\* Every step is a step of the event history or leaves it as it was.
LEMMA StepRefines == TypeOK /\ GapInv /\ [Next]_vars => [History!Next]_(History!vars)
<1>. SUFFICES ASSUME TypeOK, GapInv, [Next]_vars PROVE [History!Next]_(History!vars)
  OBVIOUS
<1>1. CASE UNCHANGED <<copies, garbled, lineEnd, promised>>
  BY <1>1 DEF History!vars, Visible, Readable, Swaps
<1>2. ASSUME NEW L \in SUBSET Logs[idx], NEW end \in {"newline", "whole", "partial"},
             idx \in Pool, Append(idx, L, end), UNCHANGED promised
      PROVE  History!Next
  BY <1>2, AppendRefines DEF History!Next
<1>3. CASE FetchTopic
  <2>1. /\ idx \in Pool /\ UNCHANGED promised
        /\ GetLogs(idx, topic, cursor, ChunkEnd) \in SUBSET Logs[idx]
        /\ Append(idx, GetLogs(idx, topic, cursor, ChunkEnd), "newline")
    BY <1>3 DEF FetchTopic, GetLogs, TypeOK
  <2>. QED  BY <1>2, <2>1
<1>4. CASE DieInAppend
  <2>1. PICK L \in SUBSET GetLogs(idx, topic, cursor, ChunkEnd),
             end \in {"newline", "whole", "partial"} : Append(idx, L, end)
    BY <1>4, Zenon DEF DieInAppend
  <2>2. idx \in Pool /\ L \in SUBSET Logs[idx] /\ UNCHANGED promised
    BY <1>4 DEF DieInAppend, GetLogs, TypeOK
  <2>. QED  BY <1>2, <2>1, <2>2
<1>5. CASE SaveCheckpoint
  <2>1. idx \in Pool
    BY <1>5 DEF SaveCheckpoint, SaveAs, TypeOK
  <2>. QED  BY <1>5, <2>1, SaveRefines DEF History!Next
<1>6. CASE Mine \/ Start \/ BeginPass \/ OpenWindow \/ RefuseCheckpoint
           \/ TruncateCheckpoint \/ EndPass \/ Die
  BY <1>1, <1>6 DEF Mine, Start, BeginPass, OpenWindow, OpenAt, ResumeAt, RefuseCheckpoint,
                    TruncateCheckpoint, EndPass, Die, disk
<1>7. CASE UNCHANGED vars
  BY <1>1, <1>7 DEF vars, disk
<1>. QED  BY <1>3, <1>4, <1>5, <1>6, <1>7 DEF Next, Step

\* The indexer with its crashes, restarts and changing flags implements the
\* at-least-once event history.
THEOREM RefinesHistory == Spec => ImplementsHistory
<1>1. Spec => [](TypeOK /\ GapInv)
  BY InitGapInv, StepGapInv, TypeCorrect, PTL DEF Spec
<1>. QED
  BY <1>1, InitRefines, StepRefines, PTL DEF Spec, ImplementsHistory, History!Spec

-----------------------------------------------------------------------------
(***************************************************************************)
(* How often a log is stored.  A process fetches no log twice: the ones it  *)
(* has not come to were stored by earlier processes only.                   *)
(***************************************************************************)
Alive == pc \notin {"down", "done"}

\* The running process has not fetched l: it lies behind the chunk or is of a topic still to
\* come, behind the window being saved, or behind the checkpoint the next window starts at.
Ahead(p, l) ==
    IF pc = "fetch" /\ idx = p THEN l.block > ChunkEnd \/ (l.block >= cursor /\ l.topic >= topic)
    ELSE IF pc \in {"truncate", "save"} /\ idx = p THEN l.block > winEnd
    ELSE ckpt[p] = None \/ (ckpt[p] \in Nat /\ l.block >= ckpt[p])

FetchedOnce ==
    Alive => \A p \in Pool : \A l \in Logs[p] : Ahead(p, l) => copies[p][l] + 1 <= starts

DupInv == DuplicatesBounded /\ FetchedOnce

LEMMA LogFields ==
    ASSUME NEW p \in Pool, NEW l \in Logs[p]
    PROVE  l.block \in Nat /\ l.topic \in Nat
BY DEF Log, Topic

LEMMA InitDup == Init => DupInv
<1>. SUFFICES ASSUME Init PROVE DupInv
  OBVIOUS
<1>1. pc = "down" /\ starts = 0 /\ \A p \in Pool : \A l \in Logs[p] : copies[p][l] = 0
  BY DEF Init
<1>. QED  BY <1>1 DEF DupInv, DuplicatesBounded, FetchedOnce, Alive

\* A step that writes nothing and brings no log into reach of the process.
LEMMA NothingWritten ==
    ASSUME DupInv, UNCHANGED <<copies, starts>>,
           Alive' => Alive /\ \A p \in Pool : \A l \in Logs[p] : Ahead(p, l)' => Ahead(p, l)
    PROVE  DupInv'
BY DEF DupInv, DuplicatesBounded, FetchedOnce

\* What an answer adds was ahead of the process, so each log stays within its processes.
LEMMA AppendCounts ==
    ASSUME TypeOK, DupInv, UNCHANGED starts, pc = "fetch", cursor <= winEnd,
           NEW L \in SUBSET GetLogs(idx, topic, cursor, ChunkEnd),
           NEW end \in {"newline", "whole", "partial"}, Append(idx, L, end)
    PROVE  /\ DuplicatesBounded'
           /\ \A p \in Pool : \A l \in Logs[p] :
                ~(p = idx /\ l \in L) => copies'[p][l] = copies[p][l]
<1>1. idx \in Pool /\ L \in SUBSET Logs[idx] /\ cursor \in Nat /\ topic \in Nat /\ starts \in Nat /\ Alive
  BY DEF TypeOK, GetLogs, Topic, Alive
<1>2. \A q \in Pool : \A l \in Logs[q] : ~(q = idx /\ l \in L) => copies'[q][l] = copies[q][l]
  BY <1>1, AppendFacts
<1>3. \A l \in L : copies'[idx][l] = copies[idx][l] + 1
  BY <1>1 DEF Append, TypeOK
<1>4. \A l \in L : Ahead(idx, l)
  <2>. SUFFICES ASSUME NEW l \in L PROVE Ahead(idx, l)
    OBVIOUS
  <2>1. l.topic = topic /\ cursor <= l.block /\ l.block \in Nat
    BY <1>1, LogFields DEF GetLogs
  <2>. QED  BY <1>1, <2>1 DEF Ahead
<1>5. \A l \in L : copies'[idx][l] <= starts
  BY <1>1, <1>3, <1>4 DEF DupInv, FetchedOnce
<1>6. DuplicatesBounded'
  <2>. SUFFICES ASSUME NEW p \in Pool, NEW l \in Logs[p] PROVE copies'[p][l] <= starts
    BY DEF DuplicatesBounded
  <2>1. CASE p = idx /\ l \in L
    BY <1>5, <2>1
  <2>2. CASE ~(p = idx /\ l \in L)
    BY <1>2, <2>2 DEF DupInv, DuplicatesBounded
  <2>. QED  BY <2>1, <2>2
<1>. QED  BY <1>2, <1>6

LEMMA FetchCounts == TypeOK /\ GapInv /\ DupInv /\ FetchTopic => DupInv'
<1>. SUFFICES ASSUME TypeOK, GapInv, DupInv, FetchTopic PROVE DupInv'
  OBVIOUS
<1>. DEFINE L == GetLogs(idx, topic, cursor, ChunkEnd)
<1>1. /\ pc = "fetch" /\ idx \in Pool /\ cursor \in Nat /\ winEnd \in Nat /\ cursor <= winEnd /\ topic \in Nat
      /\ ChunkEnd \in Nat /\ cursor <= ChunkEnd /\ ChunkEnd <= winEnd /\ topic >= 1
  BY BlockArithmetic DEF FetchTopic, TypeOK, GapInv, WindowInv, Topic
<1>2. /\ Append(idx, L, "newline") /\ UNCHANGED <<ckpt, cfg, idx, winEnd, starts>>
      /\ \/ topic' = topic + 1 /\ cursor' = cursor /\ pc' = "fetch" /\ ChunkEnd' = ChunkEnd
         \/ topic' = 1 /\ cursor' = ChunkEnd + 1 /\ pc' = "fetch" /\ ChunkEnd # winEnd
         \/ topic' = 1 /\ cursor' = ChunkEnd + 1 /\ pc' = "truncate" /\ ChunkEnd = winEnd
  BY <1>1 DEF FetchTopic, ChunkEnd
<1>3. DuplicatesBounded'
      /\ \A p \in Pool : \A l \in Logs[p] : ~(p = idx /\ l \in L) => copies'[p][l] = copies[p][l]
  BY <1>1, <1>2, AppendCounts
<1>4. ASSUME NEW l \in Logs[idx], Ahead(idx, l)' PROVE Ahead(idx, l) /\ l \notin L
  <2>1. l.block \in Nat /\ l.topic \in Nat
    BY <1>1, LogFields
  <2>2. CASE topic' = topic + 1 /\ cursor' = cursor /\ pc' = "fetch" /\ ChunkEnd' = ChunkEnd
    <3>1. l.block > ChunkEnd \/ (l.block >= cursor /\ l.topic >= topic + 1)
      BY <1>2, <1>4, <2>2 DEF Ahead
    <3>2. l.block > ChunkEnd => l \notin L
      BY <1>1, <2>1 DEF GetLogs, Least, TypeOK
    <3>3. l.topic >= topic + 1 => l \notin L
      BY <1>1, <2>1 DEF GetLogs
    <3>. QED  BY <1>1, <2>1, <3>1, <3>2, <3>3 DEF Ahead
  <2>3. CASE topic' = 1 /\ cursor' = ChunkEnd + 1 /\ pc' \in {"fetch", "truncate"}
    <3>1. l.block > ChunkEnd
      <4>1. CASE pc' = "fetch" /\ ChunkEnd # winEnd
        <5>1. ChunkEnd' \in Nat /\ cursor' <= ChunkEnd'
          <6>1. cursor' \in Nat /\ cursor' <= winEnd /\ winEnd' = winEnd
            BY <1>1, <1>2, <2>3, <4>1
          <6>2. cfg' = cfg /\ AtLeastOne(cfg.chunk) \in Nat \ {0}
            BY <1>2 DEF TypeOK, Config, AtLeastOne
          <6>. DEFINE c == cursor' + AtLeastOne(cfg.chunk) - 1
          <6>3. c \in Nat /\ cursor' <= c
            BY <6>1, <6>2
          <6>4. ChunkEnd' = Least(c, winEnd)
            BY <6>1, <6>2 DEF ChunkEnd
          <6>. HIDE DEF c
          <6>. QED  BY <1>1, <6>1, <6>3, <6>4 DEF Least
        <5>2. l.block > ChunkEnd' \/ l.block >= ChunkEnd + 1
          BY <1>2, <1>4, <2>3, <4>1 DEF Ahead
        <5>. QED  BY <1>1, <2>1, <2>3, <5>1, <5>2
      <4>2. CASE pc' = "truncate" /\ ChunkEnd = winEnd
        BY <1>2, <1>4, <4>2 DEF Ahead
      <4>3. (pc' = "fetch" /\ ChunkEnd # winEnd) \/ (pc' = "truncate" /\ ChunkEnd = winEnd)
        BY <1>1, <1>2, <2>3
      <4>. QED  BY <4>1, <4>2, <4>3
    <3>2. l \notin L
      BY <1>1, <2>1, <3>1 DEF GetLogs, Least, TypeOK
    <3>. QED  BY <1>1, <3>1, <3>2 DEF Ahead
  <2>. QED  BY <1>2, <2>2, <2>3
<1>5. ASSUME NEW p \in Pool, NEW l \in Logs[p], Ahead(p, l)' PROVE copies'[p][l] + 1 <= starts
  <2>1. Ahead(p, l) /\ ~(p = idx /\ l \in L)
    <3>1. CASE p = idx
      <4>. HIDE DEF L
      <4>1. l \in Logs[idx] /\ Ahead(idx, l)'
        BY <1>2, <1>5, <3>1
      <4>2. Ahead(idx, l) /\ l \notin L
        BY <1>4, <4>1
      <4>. QED  BY <3>1, <4>2
    <3>2. CASE p # idx
      BY <1>2, <1>5, <3>2 DEF Ahead
    <3>. QED  BY <3>1, <3>2
  <2>. QED  BY <1>1, <1>3, <2>1 DEF DupInv, FetchedOnce, Alive
<1>. QED  BY <1>2, <1>3, <1>5 DEF DupInv, FetchedOnce

LEMMA OpenCounts == TypeOK /\ DupInv /\ OpenWindow => DupInv'
<1>. SUFFICES ASSUME TypeOK, DupInv, OpenWindow PROVE DupInv'
  OBVIOUS
<1>1. /\ pc = "pool" /\ idx \in Pool /\ ckpt[idx] # Corrupt
      /\ UNCHANGED <<copies, ckpt, starts, cfg>>
  BY DEF OpenWindow, OpenAt, disk
<1>2. CASE pc' = "pool"
  <2>1. Alive /\ \A p \in Pool : \A l \in Logs[p] : Ahead(p, l)' => Ahead(p, l)
    BY <1>1, <1>2 DEF Ahead, Alive
  <2>. QED  BY <1>1, <2>1, NothingWritten
<1>3. CASE pc' # "pool"
  <2>1. /\ pc' = "fetch" /\ idx' = idx /\ cursor' = ResumeAt /\ topic' = 1 /\ ~(ResumeAt > TargetEnd)
        /\ winEnd' = Least(ResumeAt + AtLeastOne(cfg.maxRun) - 1, TargetEnd)
    BY <1>1, <1>3 DEF OpenWindow, OpenAt
  <2>2. ResumeAt \in Nat /\ TargetEnd \in Nat
    BY <1>1, BlockArithmetic DEF ResumeAt, TypeOK
  <2>3. AtLeastOne(cfg.maxRun) \in Nat \ {0} /\ AtLeastOne(cfg.chunk) \in Nat \ {0}
    BY DEF AtLeastOne, TypeOK, Config
  <2>4. ChunkEnd' \in Nat /\ ResumeAt <= ChunkEnd'
    <3>. DEFINE s == ResumeAt
                w == s + AtLeastOne(cfg.maxRun) - 1
                c == s + AtLeastOne(cfg.chunk) - 1
    <3>0. winEnd' = Least(w, TargetEnd) /\ ChunkEnd' = Least(c, winEnd') /\ s \in Nat /\ ~(s > TargetEnd)
      BY <1>1, <2>1, <2>2 DEF ChunkEnd
    <3>. HIDE DEF s
    <3>1. w \in Nat /\ s <= w /\ c \in Nat /\ s <= c
      BY <2>3, <3>0
    <3>. HIDE DEF w, c
    <3>2. winEnd' \in Nat /\ s <= winEnd'
      BY <2>2, <3>0, <3>1 DEF Least
    <3>3. ChunkEnd' \in Nat /\ s <= ChunkEnd'
      BY <3>0, <3>1, <3>2 DEF Least
    <3>. QED  BY <3>3 DEF s
  <2>5. ASSUME NEW p \in Pool, NEW l \in Logs[p], Ahead(p, l)' PROVE Ahead(p, l)
    <3>1. l.block \in Nat /\ l.topic \in Nat
      BY LogFields
    <3>2. CASE p # idx
      BY <1>1, <2>1, <2>5, <3>2 DEF Ahead
    <3>3. CASE p = idx
      <4>1. l.block > ChunkEnd' \/ l.block >= ResumeAt
        BY <2>1, <2>5, <3>3 DEF Ahead
      <4>2. l.block >= ResumeAt
        BY <2>2, <2>4, <3>1, <4>1
      <4>. QED  BY <1>1, <3>3, <4>2 DEF Ahead, ResumeAt, TypeOK
    <3>. QED  BY <3>2, <3>3
  <2>. QED  BY <1>1, <2>5, NothingWritten DEF Alive
<1>. QED  BY <1>2, <1>3

LEMMA StepDup == TypeOK /\ GapInv /\ DupInv /\ [Next]_vars => DupInv'
<1>. SUFFICES ASSUME TypeOK, GapInv, DupInv, [Next]_vars PROVE DupInv'
  OBVIOUS
<1>1. CASE Mine \/ UNCHANGED vars
  <2>1. UNCHANGED <<copies, starts, pc, idx, ckpt, cursor, topic, winEnd, cfg>>
    BY <1>1 DEF Mine, vars, disk, local
  <2>2. Alive' => Alive /\ \A p \in Pool : \A l \in Logs[p] : Ahead(p, l)' => Ahead(p, l)
    BY <2>1 DEF Ahead, Alive, ChunkEnd
  <2>. QED  BY <2>1, <2>2, NothingWritten
<1>2. CASE Start
  <2>1. UNCHANGED copies /\ starts' = starts + 1 /\ starts \in Nat
        /\ \A p \in Pool : \A l \in Logs[p] : copies[p][l] <= starts /\ copies[p][l] \in Nat
    BY <1>2 DEF Start, disk, TypeOK, DupInv, DuplicatesBounded
  <2>2. \A p \in Pool : \A l \in Logs[p] : copies'[p][l] <= starts' /\ copies'[p][l] + 1 <= starts'
    BY <2>1
  <2>. QED  BY <2>2 DEF DupInv, DuplicatesBounded, FetchedOnce
<1>3. CASE BeginPass \/ EndPass
  <2>1. UNCHANGED <<copies, starts, ckpt>> /\ pc \in {"pass", "pool"} /\ pc' \in {"pass", "pool", "done"}
    BY <1>3 DEF BeginPass, EndPass, disk
  <2>2. Alive /\ \A p \in Pool : \A l \in Logs[p] : Ahead(p, l)' => Ahead(p, l)
    BY <2>1 DEF Ahead, Alive
  <2>. QED  BY <2>1, <2>2, NothingWritten
<1>4. CASE RefuseCheckpoint \/ Die
  <2>1. UNCHANGED <<copies, starts>> /\ ~Alive'
    BY <1>4 DEF RefuseCheckpoint, Die, disk, Alive
  <2>. QED  BY <2>1, NothingWritten
<1>5. CASE TruncateCheckpoint
  <2>1. UNCHANGED <<copies, starts, idx, winEnd>> /\ pc = "truncate" /\ pc' = "save"
        /\ \A p \in Pool : p # idx => ckpt'[p] = ckpt[p]
    BY <1>5 DEF TruncateCheckpoint, local, TypeOK
  <2>2. Alive /\ \A p \in Pool : \A l \in Logs[p] : Ahead(p, l)' => Ahead(p, l)
    BY <2>1 DEF Ahead, Alive
  <2>. QED  BY <2>1, <2>2, NothingWritten
<1>6. CASE SaveCheckpoint
  <2>1. UNCHANGED <<copies, starts, winEnd>> /\ pc = "save" /\ pc' = "pool" /\ winEnd \in Nat /\ idx \in Pool
        /\ ckpt'[idx] = winEnd + 1 /\ \A p \in Pool : p # idx => ckpt'[p] = ckpt[p]
    BY <1>6 DEF SaveCheckpoint, SaveAs, TypeOK
  <2>2. ASSUME NEW p \in Pool, NEW l \in Logs[p], Ahead(p, l)' PROVE Ahead(p, l)
    <3>1. CASE p = idx
      <4>1. winEnd + 1 # None
        BY <2>1
      <4>2. l.block >= winEnd + 1 /\ l.block \in Nat
        BY <2>1, <2>2, <3>1, <4>1, LogFields DEF Ahead
      <4>. QED  BY <2>1, <3>1, <4>2 DEF Ahead
    <3>2. CASE p # idx
      BY <2>1, <2>2, <3>2 DEF Ahead
    <3>. QED  BY <3>1, <3>2
  <2>. QED  BY <2>1, <2>2, NothingWritten DEF Alive
<1>7. CASE DieInAppend
  <2>1. PICK L \in SUBSET GetLogs(idx, topic, cursor, ChunkEnd),
             end \in {"newline", "whole", "partial"} : Append(idx, L, end)
    BY <1>7, Zenon DEF DieInAppend
  <2>2. pc = "fetch" /\ pc' = "down" /\ UNCHANGED starts /\ cursor <= winEnd
    BY <1>7 DEF DieInAppend, GapInv, WindowInv
  <2>3. DuplicatesBounded'
    BY <2>1, <2>2, AppendCounts
  <2>. QED  BY <2>2, <2>3 DEF DupInv, FetchedOnce, Alive
<1>. QED  BY <1>1, <1>2, <1>3, <1>4, <1>5, <1>6, <1>7, FetchCounts, OpenCounts DEF Next, Step

\* Re-fetching after a death stores a log again, but no process stores one twice, whatever its
\* flags and however often the earlier ones died inside an append.
THEOREM OncePerProcess == Spec => []DuplicatesBounded
<1>1. DupInv => DuplicatesBounded
  BY DEF DupInv
<1>2. Spec => [](TypeOK /\ GapInv)
  BY InitGapInv, StepGapInv, TypeCorrect, PTL DEF Spec
<1>. QED  BY <1>1, <1>2, InitDup, StepDup, PTL DEF Spec
=============================================================================

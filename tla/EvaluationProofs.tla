--------------------------- MODULE EvaluationProofs ---------------------------
(***************************************************************************)
(* Theorems about Evaluation for streams, window sizes, block lengths and   *)
(* parameter grids of any length.  Walk-forward: the test segments          *)
(* partition what follows the first train window, and calibration does not  *)
(* see the segment it is tested on.  Multi-path: a path that is not         *)
(* demeaned makes its source's moves.  Both: the types, reports included.   *)
(***************************************************************************)
EXTENDS Evaluation, TLAPS, FiniteSetTheorems, WellFoundedInduction

-----------------------------------------------------------------------------
(***************************************************************************)
(* Facts about the operators.                                              *)
(***************************************************************************)
LEMMA AppendFacts ==
    ASSUME NEW S, NEW s \in Seq(S), NEW e
    PROVE  /\ Append(s, e) \in Seq(S \cup {e})
           /\ Len(Append(s, e)) = Len(s) + 1
           /\ DOMAIN s = 1..Len(s) /\ DOMAIN Append(s, e) = 1..Len(s) + 1
           /\ \A k \in 1..Len(s) : Append(s, e)[k] = s[k]
           /\ Append(s, e)[Len(s) + 1] = e
           /\ Append(s, e) # <<>>
<1>1. s \in Seq(S \cup {e}) /\ e \in S \cup {e}
  OBVIOUS
<1>. QED  BY <1>1

\* What two streams share up to a place, they share in every window that ends there.
LEMMA SharedPast ==
    ASSUME NEW S, NEW s \in Seq(S), NEW t \in Seq(S), Len(s) = Len(t),
           NEW a \in Nat, NEW e \in Nat, e <= Len(s), SubSeq(t, 1, e) = SubSeq(s, 1, e)
    PROVE  SubSeq(t, a + 1, e) = SubSeq(s, a + 1, e)
<1>1. \A k \in 1..e : t[k] = s[k]
  <2>. SUFFICES ASSUME NEW k \in 1..e PROVE t[k] = s[k]
    OBVIOUS
  <2>1. SubSeq(t, 1, e)[k] = t[k] /\ SubSeq(s, 1, e)[k] = s[k]
    OBVIOUS
  <2>. QED  BY <2>1
<1>2. \A k \in 1..(e - a) : t[a + k] = s[a + k]
  BY <1>1
<1>. QED  BY <1>2

LEMMA WindowLength ==
    ASSUME NEW S, NEW s \in Seq(S), NEW a \in Nat, NEW e \in Nat, a < e, e <= Len(s)
    PROVE  Len(SubSeq(s, a + 1, e)) = e - a
OBVIOUS

LEMMA WindowTyped ==
    ASSUME NEW S, NEW s \in Seq(S), NEW a \in Nat, NEW e \in Nat, e <= Len(s)
    PROVE  SubSeq(s, a + 1, e) \in Seq(S)
OBVIOUS

-----------------------------------------------------------------------------
(***************************************************************************)
(* The inductive invariant.                                                *)
(***************************************************************************)
\* The input does not change, and folds is a sequence.
Input ==
    /\ stream \in Seq([tick : Int, block : Nat]) /\ stream \in Streams /\ job \in Jobs
    /\ \E S : folds \in Seq(S)

\* The windows are where the number of tested folds puts them.
Windows ==
    /\ start = Len(folds) * job.test
    /\ pc = "test" => MoreFolds
    /\ \A k \in DOMAIN folds : folds[k].testEnd \in Nat
    /\ folds = <<>> => totals.tested = 0
    /\ folds # <<>> => folds[Len(folds)].testEnd = Smaller(TrainEnd, n)

\* What each fold, and the one under way, was calibrated on.
Calibrated ==
    /\ pc = "test" => chosen = Best(job, Train)
    /\ \A k \in DOMAIN folds :
            folds[k].chosen = Best(job, SubSeq(stream, folds[k].start + 1, folds[k].trainEnd))

WalkInv == Input /\ Windows /\ TestsPartition /\ Calibrated

LEMMA Sizes ==
    ASSUME Input
    PROVE  n \in Nat /\ job.train \in Nat /\ job.test \in Nat /\ Len(folds) \in Nat
           /\ DOMAIN folds = 1..Len(folds) /\ (folds = <<>> <=> Len(folds) = 0)
BY JobAssumption DEF Input, n

LEMMA InitWalk == Init => WalkInv
<1>. SUFFICES ASSUME Init PROVE WalkInv
  OBVIOUS
<1>1. Input
  BY StreamAssumption DEF Init, Input
<1>2. folds = <<>> /\ Len(folds) = 0 /\ DOMAIN folds = {} /\ start = 0 /\ pc = "start" /\ totals.tested = 0
  BY DEF Init
<1>. QED  BY <1>1, <1>2, Sizes DEF WalkInv, Windows, TestsPartition, Segments, Calibrated

\* The end of a walk: nothing is left behind the last test segment.
LEMMA EndOfWalk ==
    ASSUME WalkInv, ~MoreFolds, job.test > 0, job.train < n
    PROVE  folds # <<>> /\ folds[Len(folds)].testEnd = n
<1>1. Input /\ Windows
  BY DEF WalkInv
<1>2. n \in Nat /\ job.train \in Nat /\ job.test \in Nat /\ Len(folds) \in Nat
  BY <1>1, Sizes
<1>3. start \in Nat
  BY <1>1, <1>2 DEF Windows
<1>4. TrainEnd >= n
  BY <1>2, <1>3, SMTT(60) DEF MoreFolds, TestEnd, TrainEnd, Smaller
<1>5. folds # <<>>
  BY <1>1, <1>2, <1>4, Sizes DEF Windows, TrainEnd
<1>6. TrainEnd \in Nat
  BY <1>2, <1>3 DEF TrainEnd
<1>. QED  BY <1>1, <1>2, <1>4, <1>5, <1>6 DEF Windows, Smaller

\* A step that leaves the walk's variables alone, and is not the end of a walk.
LEMMA OtherSteps ==
    ASSUME WalkInv, UNCHANGED <<stream, job, walk>>, pc' # "test",
           pc' = "done" => job.command # "walk" \/ ~MoreFolds
    PROVE  WalkInv'
<1>1. UNCHANGED <<stream, job, start, chosen, folds, totals, n, TrainEnd>>
  BY DEF walk, n, TrainEnd
<1>2. Input' /\ Windows' /\ Calibrated' /\ Segments'
  BY <1>1 DEF WalkInv, Input, Windows, Calibrated, TestsPartition, Segments
<1>3. TestsPartition'
  BY <1>1, <1>2, EndOfWalk DEF TestsPartition
<1>. QED  BY <1>2, <1>3 DEF WalkInv

LEMMA CalibrateStep == WalkInv /\ Calibrate => WalkInv'
<1>. SUFFICES ASSUME WalkInv, Calibrate PROVE WalkInv'
  OBVIOUS
<1>1. /\ UNCHANGED <<stream, job, start, folds, totals, n, TrainEnd, TestEnd, MoreFolds, Train>>
      /\ pc' = "test" /\ MoreFolds /\ chosen' = Best(job, Train)
  BY DEF Calibrate, n, TrainEnd, TestEnd, MoreFolds, Train
<1>. QED  BY <1>1 DEF WalkInv, Input, Windows, Calibrated, TestsPartition, Segments

LEMMA TestStep == WalkInv /\ TestFold => WalkInv'
<1>. SUFFICES ASSUME WalkInv, TestFold PROVE WalkInv'
  OBVIOUS
<1>. DEFINE f == [start |-> start, trainEnd |-> TrainEnd, testEnd |-> TestEnd, chosen |-> chosen,
                  net |-> Replay(Test, AdaptiveMode(job, chosen)).net,
                  dd  |-> Replay(Test, AdaptiveMode(job, chosen)).dd]
            m == Len(folds)
<1>1. /\ folds' = Append(folds, f) /\ start' = start + job.test
      /\ totals'.tested = totals.tested + Len(Test)
      /\ pc = "test" /\ pc' = "fold" /\ UNCHANGED <<stream, job, chosen, n>>
  BY DEF TestFold, n
<1>2. /\ f.start = start /\ f.trainEnd = TrainEnd /\ f.testEnd = TestEnd /\ f.chosen = chosen
  OBVIOUS
<1>3. Input /\ Windows /\ Calibrated /\ Segments
  BY DEF WalkInv, TestsPartition
<1>4. n \in Nat /\ job.train \in Nat /\ job.test \in Nat /\ m \in Nat
      /\ DOMAIN folds = 1..m /\ (folds = <<>> <=> m = 0)
  BY <1>3, Sizes
<1>5. start = m * job.test /\ start \in Nat
  BY <1>3, <1>4 DEF Windows
<1>6. /\ TrainEnd = start + job.train /\ TrainEnd \in Nat /\ TestEnd \in Nat
      /\ TrainEnd < TestEnd /\ TestEnd <= n /\ TestEnd = Smaller(TrainEnd + job.test, n)
  <2>1. start \in Nat /\ MoreFolds
    BY <1>1, <1>3, <1>5 DEF Windows
  <2>. QED  BY <1>4, <2>1, SMTT(60) DEF MoreFolds, TrainEnd, TestEnd, Smaller
<1>7. \E S : folds \in Seq(S)
  BY <1>3 DEF Input
<1>. HIDE DEF f
<1>8. /\ \E S : folds' \in Seq(S)
      /\ Len(folds') = m + 1 /\ DOMAIN folds' = 1..m + 1
      /\ \A k \in 1..m : folds'[k] = folds[k]
      /\ folds'[m + 1] = f /\ folds' # <<>>
  <2>1. PICK S : folds \in Seq(S)
    BY <1>7
  <2>2. /\ Append(folds, f) \in Seq(S \cup {f})
        /\ Len(Append(folds, f)) = Len(folds) + 1
        /\ DOMAIN Append(folds, f) = 1..Len(folds) + 1
        /\ \A k \in 1..Len(folds) : Append(folds, f)[k] = folds[k]
        /\ Append(folds, f)[Len(folds) + 1] = f
        /\ Append(folds, f) # <<>>
    BY <2>1, AppendFacts
  <2>. QED  BY <1>1, <2>2
<1>. HIDE DEF m
<1>9. start' = (m + 1) * job.test /\ TrainEnd' = TrainEnd + job.test
  <2>1. (m + 1) * job.test = m * job.test + job.test
    BY <1>4, SMTT(60)
  <2>2. start' = (m + 1) * job.test
    BY <1>1, <1>5, <2>1
  <2>3. TrainEnd' = (start + job.test) + job.train
    BY <1>1 DEF TrainEnd
  <2>4. start \in Nat
    BY <1>5
  <2>5. TrainEnd' = TrainEnd + job.test
    BY <1>4, <1>6, <2>3, <2>4, SMTT(60)
  <2>. QED  BY <2>2, <2>5
<1>10. Input'
  BY <1>1, <1>3, <1>8 DEF Input
<1>11. Windows'
  <2>1. start' = Len(folds') * job'.test
    BY <1>1, <1>8, <1>9
  <2>2. \A k \in DOMAIN folds' : folds'[k].testEnd \in Nat
    BY <1>2, <1>3, <1>4, <1>6, <1>8, SMTT(60) DEF Windows
  <2>3. folds'[Len(folds')].testEnd = Smaller(TrainEnd', n')
    BY <1>1, <1>2, <1>6, <1>8, <1>9
  <2>. QED  BY <1>1, <1>8, <2>1, <2>2, <2>3 DEF Windows
<1>12. m # 0 => folds[m].testEnd = TrainEnd
  BY <1>3, <1>4, <1>6 DEF Windows, Smaller, m
<1>13. Segments'
  <2>1. \A k \in 1..m + 1 :
            /\ folds'[k].start = (k - 1) * job.test
            /\ folds'[k].trainEnd = folds'[k].start + job.train
            /\ folds'[k].trainEnd < folds'[k].testEnd /\ folds'[k].testEnd <= n
            /\ k < m + 1 => folds'[k].testEnd = folds'[k + 1].trainEnd
    <3>1. CASE m = 0
      BY <1>2, <1>4, <1>5, <1>6, <1>8, <3>1
    <3>2. ASSUME NEW k \in 1..m
          PROVE  /\ folds'[k].start = (k - 1) * job.test
                 /\ folds'[k].trainEnd = folds'[k].start + job.train
                 /\ folds'[k].trainEnd < folds'[k].testEnd /\ folds'[k].testEnd <= n
                 /\ folds'[k].testEnd = folds'[k + 1].trainEnd
      <4>1. folds'[k] = folds[k] /\ k \in DOMAIN folds /\ (k < m => folds'[k + 1] = folds[k + 1])
        BY <1>4, <1>8, <3>2
      <4>2. CASE k < m
        BY <1>3, <1>4, <4>1, <4>2 DEF Segments, m
      <4>3. CASE k = m
        BY <1>2, <1>3, <1>4, <1>6, <1>8, <1>12, <4>1, <4>3, SMTT(60) DEF Segments
      <4>. QED  BY <1>4, <4>2, <4>3
    <3>3. folds'[m + 1].start = m * job.test /\ folds'[m + 1].trainEnd = folds'[m + 1].start + job.train
          /\ folds'[m + 1].trainEnd < folds'[m + 1].testEnd /\ folds'[m + 1].testEnd <= n
      BY <1>2, <1>5, <1>6, <1>8
    <3>4. \A k \in 1..m + 1 : k \in 1..m \/ (k = m + 1 /\ k - 1 = m)
      BY <1>4
    <3>5. SUFFICES ASSUME NEW k \in 1..m + 1
          PROVE  /\ folds'[k].start = (k - 1) * job.test
                 /\ folds'[k].trainEnd = folds'[k].start + job.train
                 /\ folds'[k].trainEnd < folds'[k].testEnd /\ folds'[k].testEnd <= n
                 /\ k < m + 1 => folds'[k].testEnd = folds'[k + 1].trainEnd
      OBVIOUS
    <3>6. CASE k \in 1..m
      BY <3>2, <3>6
    <3>7. CASE k = m + 1 /\ k - 1 = m
      <4>1. ~(k < m + 1)
        BY <1>4, <3>7
      <4>2. /\ folds'[k].start = (k - 1) * job.test
            /\ folds'[k].trainEnd = folds'[k].start + job.train
            /\ folds'[k].trainEnd < folds'[k].testEnd /\ folds'[k].testEnd <= n
        BY <3>3, <3>7, Zenon
      <4>. QED  BY <4>1, <4>2, Zenon
    <3>. QED  BY <3>4, <3>5, <3>6, <3>7
  <2>2. totals.tested = TrainEnd - job.train
    <3>1. CASE m = 0
      <4>1. 0 * job.test = 0
        BY <1>4
      <4>2. start = 0 /\ totals.tested = 0
        BY <1>3, <1>4, <1>5, <3>1, <4>1 DEF Windows
      <4>. QED  BY <1>4, <1>6, <4>2
    <3>2. CASE m # 0
      BY <1>3, <1>4, <1>12, <3>2 DEF Segments, m
    <3>. QED  BY <3>1, <3>2
  <2>3. Len(Test) = TestEnd - TrainEnd
    BY <1>3, <1>4, <1>6, WindowLength, ZenonT(60) DEF Test, Input, n
  <2>4. totals'.tested = folds'[m + 1].testEnd - job.train
    BY <1>1, <1>2, <1>4, <1>6, <1>8, <2>2, <2>3, SMTT(60)
  <2>. QED  BY <1>1, <1>8, <2>1, <2>4 DEF Segments
<1>14. Calibrated'
  <2>1. f.chosen = Best(job, SubSeq(stream, f.start + 1, f.trainEnd))
    BY <1>1, <1>2, <1>3 DEF Calibrated, Train
  <2>2. \A k \in 1..m + 1 :
            folds'[k].chosen = Best(job, SubSeq(stream, folds'[k].start + 1, folds'[k].trainEnd))
    BY <1>3, <1>4, <1>8, <2>1, SMTT(60) DEF Calibrated
  <2>. QED  BY <1>1, <1>8, <2>2 DEF Calibrated
<1>. QED  BY <1>1, <1>10, <1>11, <1>13, <1>14 DEF WalkInv, TestsPartition

LEMMA NextWalk == WalkInv /\ [Next]_vars => WalkInv'
<1>. SUFFICES ASSUME WalkInv, [Next]_vars PROVE WalkInv'
  OBVIOUS
<1>1. CASE StartWalk
  BY <1>1, OtherSteps DEF StartWalk
<1>2. CASE StartPaths
  BY <1>2, OtherSteps DEF StartPaths
<1>3. CASE StartScenario
  BY <1>3, OtherSteps DEF StartScenario
<1>4. CASE Calibrate
  BY <1>4, CalibrateStep
<1>5. CASE TestFold
  BY <1>5, TestStep
<1>6. CASE EndFolds
  BY <1>6, OtherSteps DEF EndFolds
<1>7. CASE DrawBlock
  BY <1>7, OtherSteps DEF DrawBlock, walk
<1>8. CASE CopySwap
  BY <1>8, OtherSteps DEF CopySwap
<1>9. CASE RunPath
  BY <1>9, OtherSteps DEF RunPath
<1>10. CASE Generate
  BY <1>10, OtherSteps DEF Generate
<1>11. CASE RunScenario
  BY <1>11, OtherSteps DEF RunScenario
<1>12. CASE UNCHANGED vars
  BY <1>12 DEF vars, WalkInv, Input, Windows, TestsPartition, Segments, Calibrated, MoreFolds,
               TestEnd, TrainEnd, Train, n
<1>. QED  BY <1>1, <1>2, <1>3, <1>4, <1>5, <1>6, <1>7, <1>8, <1>9, <1>10, <1>11, <1>12 DEF Next

LEMMA WalkAlways == Spec => []WalkInv
BY InitWalk, NextWalk, PTL DEF Spec

-----------------------------------------------------------------------------
\* walk_forward: whatever the stream and the sizes of the windows, test segments do not overlap,
\* leave no swap out between them, and at the end they have tested every swap behind the first
\* train window once.
THEOREM FoldsPartition == Spec => []TestsPartition
<1>1. WalkInv => TestsPartition
  BY DEF WalkInv
<1>. QED  BY <1>1, WalkAlways, PTL

\* walk_forward: the parameters of a fold are those that any stream with the same swaps before
\* its test segment would be given, for every replay, score and grid.
THEOREM NoLookInto == Spec => []NoPeeking
<1>1. WalkInv => NoPeeking
  <2>. SUFFICES ASSUME WalkInv, NEW t \in Streams, NEW k \in DOMAIN folds, Len(t) = n,
                       SubSeq(t, 1, folds[k].trainEnd) = SubSeq(stream, 1, folds[k].trainEnd)
                PROVE  folds[k].chosen = Best(job, SubSeq(t, folds[k].start + 1, folds[k].trainEnd))
    BY DEF NoPeeking
  <2>1. Input /\ Windows /\ Segments /\ Calibrated
    BY DEF WalkInv, TestsPartition
  <2>2. n \in Nat /\ job.train \in Nat /\ job.test \in Nat /\ k \in Nat /\ k >= 1
    BY <2>1, Sizes
  <2>3. folds[k].start = (k - 1) * job.test /\ folds[k].start \in Nat
    <3>1. (k - 1) * job.test \in Nat
      BY <2>2, SMTT(60)
    <3>. QED  BY <2>1, <3>1 DEF Segments
  <2>4. folds[k].trainEnd \in Nat /\ folds[k].trainEnd <= n
    <3>1. folds[k].trainEnd = folds[k].start + job.train /\ folds[k].testEnd \in Nat
          /\ folds[k].trainEnd < folds[k].testEnd /\ folds[k].testEnd <= n
      BY <2>1 DEF Segments, Windows
    <3>2. folds[k].start \in Nat
      BY <2>3
    <3>. QED  BY <2>2, <3>1, <3>2, SMTT(60)
  <2>5. SubSeq(t, folds[k].start + 1, folds[k].trainEnd) = SubSeq(stream, folds[k].start + 1, folds[k].trainEnd)
    <3>1. t \in Seq([tick : Int, block : Nat]) /\ stream \in Seq([tick : Int, block : Nat])
      BY <2>1, StreamAssumption DEF Input
    <3>. QED  BY <2>3, <2>4, <3>1, SharedPast, ZenonT(60) DEF n
  <2>. QED  BY <2>1, <2>5 DEF Calibrated
<1>. QED  BY <1>1, WalkAlways, PTL

-----------------------------------------------------------------------------
(***************************************************************************)
(* Rounding, ranks and the best pair of the grid.                          *)
(***************************************************************************)
LEMMA HasLeast ==
    ASSUME NEW T, T \subseteq Nat, T # {}
    PROVE  \E x \in T : \A y \in T : x <= y
<1>1. PICK x \in T : \A y \in T : <<y, x>> \notin OpToRel(<, Nat)
  BY NatLessThanWellFounded, WFMin, Zenon
<1>2. \A y \in T : ~(y < x)
  BY <1>1 DEF OpToRel
<1>. QED  BY <1>2

\* Numbers in a row have a greatest one, and a first greatest one.
LEMMA HasBest ==
    ASSUME NEW K \in Nat \ {0}, NEW f \in [1..K -> Int]
    PROVE  \E k \in 1..K : /\ \A i \in 1..K : f[i] <= f[k]
                           /\ \A i \in 1..k - 1 : f[i] < f[k]
<1>. DEFINE First(k, m) == /\ \A i \in 1..m : f[i] <= f[k]
                           /\ \A i \in 1..k - 1 : f[i] < f[k]
            Without == {m \in 1..K : ~\E k \in 1..m : First(k, m)}
<1>0. Without \subseteq Nat /\ \A m \in 1..K : m \in Without <=> ~\E k \in 1..m : First(k, m)
  BY SMTT(60)
<1>1. ASSUME Without # {} PROVE FALSE
  <2>0. \E m \in Without : \A y \in Without : m <= y
    <3>. HIDE DEF Without
    <3>. QED  BY <1>0, <1>1, HasLeast
  <2>1. PICK m \in Without : \A y \in Without : m <= y
    BY <2>0
  <2>2. m \in 1..K /\ ~\E k \in 1..m : First(k, m)
    BY <2>1
  <2>3. CASE m = 1
    BY <2>2, <2>3
  <2>4. CASE m # 1
    <3>1. m - 1 \in 1..K /\ ~(m <= m - 1)
      BY <2>2, <2>4
    <3>1a. m - 1 \notin Without
      <4>. HIDE DEF Without
      <4>. QED  BY <2>1, <3>1
    <3>1b. \E k \in 1..m - 1 : First(k, m - 1)
      <4>. HIDE DEF Without, First
      <4>. QED  BY <1>0, <3>1, <3>1a
    <3>2. PICK k \in 1..m - 1 : First(k, m - 1)
      BY <3>1b
    <3>3. CASE f[m] <= f[k]
      <4>1. First(k, m)
        BY <2>2, <3>2, <3>3
      <4>. QED  BY <2>2, <3>2, <4>1, SMTT(60)
    <3>4. CASE f[k] < f[m]
      <4>1. First(m, m)
        BY <2>2, <3>2, <3>4, SMTT(60)
      <4>. QED  BY <2>2, <4>1
    <3>5. f[m] \in Int /\ f[k] \in Int
      BY <2>2, <3>2
    <3>. QED  BY <3>3, <3>4, <3>5
  <2>. QED  BY <2>3, <2>4
<1>2. K \in 1..K
  OBVIOUS
<1>3. \E k \in 1..K : First(k, K)
  <2>. HIDE DEF Without, First
  <2>. QED  BY <1>0, <1>1, <1>2
<1>. QED  BY <1>3

LEMMA DivExact ==
    ASSUME NEW q \in Int, NEW d \in Nat \ {0}, NEW r \in 0..d - 1
    PROVE  (d * q + r) \div d = q
<1>1. d * q \in Int
  OBVIOUS
<1>. DEFINE p == d * q
            x == (p + r) \div d
<1>2. x \in Int /\ d * x <= p + r /\ p + r < d * x + d
  BY <1>1
<1>3. CASE x < q
  <2>1. d * (x + 1) <= d * q
    BY <1>2, <1>3
  <2>. QED  BY <1>1, <1>2, <2>1
<1>4. CASE q < x
  <2>1. d * (q + 1) <= d * x
    BY <1>2, <1>4
  <2>. QED  BY <1>1, <1>2, <2>1
<1>. QED  BY <1>2, <1>3, <1>4

LEMMA RoundInt ==
    ASSUME NEW a \in Int, NEW b \in Nat \ {0}
    PROVE  Round(a, b) \in Int
BY DEF Round

\* A product rounds to its other factor.
LEMMA RoundExact ==
    ASSUME NEW x \in Int, NEW b \in Nat \ {0}
    PROVE  Round(b * x, b) = x
<1>. DEFINE a == b * x
<1>1. a \in Int
  OBVIOUS
<1>2. CASE a >= 0
  <2>1. 2 * a + b = (2 * b) * x + b /\ b \in 0..2 * b - 1 /\ 2 * b \in Nat \ {0}
    OBVIOUS
  <2>2. ((2 * b) * x + b) \div (2 * b) = x
    BY <2>1, DivExact
  <2>. HIDE DEF a
  <2>3. (2 * a + b) \div (2 * b) = x
    BY <2>1, <2>2, Zenon
  <2>. QED  BY <1>2, <2>3 DEF Round, a
<1>3. CASE ~(a >= 0)
  <2>1. b - 2 * a = (2 * b) * (-x) + b /\ b \in 0..2 * b - 1 /\ 2 * b \in Nat \ {0} /\ -x \in Int
    OBVIOUS
  <2>2. ((2 * b) * (-x) + b) \div (2 * b) = -x
    BY <2>1, DivExact
  <2>. HIDE DEF a
  <2>3. (b - 2 * a) \div (2 * b) = -x
    BY <2>1, <2>2, Zenon
  <2>. QED  BY <1>3, <2>3 DEF Round, a
<1>. QED  BY <1>2, <1>3

\* How many values are below v, and how many are at most v.
Below(values, v) == {j \in DOMAIN values : values[j] < v}
Within(values, v) == {j \in DOMAIN values : values[j] <= v}

\* v has rank r in the sorted values.
Ranked(values, r, v) ==
    /\ v \in {values[j] : j \in DOMAIN values}
    /\ Cardinality(Below(values, v)) <= r
    /\ r < Cardinality(Within(values, v))

LEMMA SubsetCount ==
    ASSUME NEW K \in Nat, NEW S, NEW T, S \subseteq T, T \subseteq 1..K
    PROVE  Cardinality(S) \in Nat /\ Cardinality(T) \in Nat /\ Cardinality(S) <= Cardinality(T)
           /\ Cardinality(T) <= K
<1>1. IsFiniteSet(1..K) /\ Cardinality(1..K) = K
  BY FS_Interval
<1>2. IsFiniteSet(T) /\ Cardinality(T) <= K
  BY <1>1, FS_Subset, ZenonT(60)
<1>3. IsFiniteSet(S) /\ Cardinality(S) <= Cardinality(T)
  BY <1>2, FS_Subset
<1>. QED  BY <1>2, <1>3, FS_CardinalityType

\* Every rank below the number of values is taken by one of them.
LEMMA RankTaken ==
    ASSUME NEW K \in Nat \ {0}, NEW values \in [1..K -> Int], NEW r \in Nat, r < K
    PROVE  \E v : Ranked(values, r, v)
<1>. DEFINE Enough(j) == r < Cardinality(Within(values, values[j]))
<1>0. \A j \in 1..K : values[j] \in Int
  OBVIOUS
<1>1. PICK top \in 1..K : \A i \in 1..K : values[i] <= values[top]
  BY HasBest
<1>2. Enough(top)
  <2>1. Within(values, values[top]) = 1..K
    BY <1>1 DEF Within
  <2>. QED  BY <2>1, FS_Interval
<1>. DEFINE low == [j \in 1..K |-> IF Enough(j) THEN -values[j] ELSE -values[top]]
<1>3. low \in [1..K -> Int]
  OBVIOUS
<1>4. PICK k \in 1..K : \A i \in 1..K : low[i] <= low[k]
  BY <1>3, HasBest
<1>5. PICK least \in 1..K : Enough(least) /\ \A i \in 1..K : Enough(i) => values[least] <= values[i]
  <2>. HIDE DEF Enough
  <2>1. CASE Enough(k)
    BY <1>0, <1>4, <2>1, SMTT(60)
  <2>2. CASE ~Enough(k)
    BY <1>0, <1>2, <1>4, <2>2, SMTT(60)
  <2>. QED  BY <2>1, <2>2
<1>6. Cardinality(Below(values, values[least])) <= r
  <2>. SUFFICES ASSUME ~(Cardinality(Below(values, values[least])) <= r) PROVE FALSE
    OBVIOUS
  <2>1. Below(values, values[least]) # {}
    <3>1. SUFFICES ASSUME Below(values, values[least]) = {} PROVE FALSE
      OBVIOUS
    <3>. QED  BY <3>1, FS_EmptySet
  <2>2. PICK b \in 1..K : values[b] < values[least]
    BY <2>1 DEF Below
  <2>. DEFINE high == [j \in 1..K |-> IF values[j] < values[least] THEN values[j] ELSE values[b]]
  <2>3. high \in [1..K -> Int]
    OBVIOUS
  <2>4. PICK h \in 1..K : \A i \in 1..K : high[i] <= high[h]
    BY <2>3, HasBest, ZenonT(60)
  <2>5. PICK next \in 1..K : /\ values[next] < values[least]
                             /\ \A i \in 1..K : values[i] < values[least] => values[i] <= values[next]
    <3>1. CASE values[h] < values[least]
      BY <1>0, <2>4, <3>1
    <3>2. CASE ~(values[h] < values[least])
      BY <1>0, <2>2, <2>4, <3>2
    <3>. QED  BY <3>1, <3>2
  <2>6. Below(values, values[least]) \subseteq Within(values, values[next])
        /\ Within(values, values[next]) \subseteq 1..K
    BY <2>5 DEF Below, Within
  <2>7. Cardinality(Below(values, values[least])) <= Cardinality(Within(values, values[next]))
        /\ Cardinality(Below(values, values[least])) \in Nat /\ Cardinality(Within(values, values[next])) \in Nat
    BY <2>6, SubsetCount
  <2>8. Enough(next)
    BY <2>7
  <2>. HIDE DEF Enough
  <2>9. values[least] <= values[next]
    BY <1>5, <2>8
  <2>. QED  BY <1>0, <2>5, <2>9
<1>. QED  BY <1>5, <1>6 DEF Ranked

\* A value of a higher rank is not below one of a lower rank.
LEMMA RanksAscend ==
    ASSUME NEW K \in Nat \ {0}, NEW values \in [1..K -> Int], NEW r \in Nat, NEW q \in Nat, r <= q,
           NEW v, Ranked(values, r, v), NEW w, Ranked(values, q, w)
    PROVE  v <= w
<1>1. v \in Int /\ w \in Int
  BY DEF Ranked
<1>2. SUFFICES ASSUME w < v PROVE FALSE
  BY <1>1
<1>3. Within(values, w) \subseteq Below(values, v) /\ Below(values, v) \subseteq 1..K
  BY <1>1, <1>2, SMTT(60) DEF Within, Below
<1>4. Cardinality(Within(values, w)) <= Cardinality(Below(values, v))
      /\ Cardinality(Within(values, w)) \in Nat /\ Cardinality(Below(values, v)) \in Nat
  BY <1>3, SubsetCount
<1>. QED  BY <1>4 DEF Ranked

LEMMA ProductGrows ==
    ASSUME NEW a \in Nat, NEW b \in Nat, NEW c \in Nat, a <= b
    PROVE  c * a <= c * b /\ c * a \in Nat /\ c * b \in Nat
<1>. DEFINE e == b - a
<1>1. e \in Nat /\ b = a + e
  OBVIOUS
<1>. HIDE DEF e
<1>2. c * b = c * a + c * e /\ c * a \in Nat /\ c * e \in Nat
  BY <1>1
<1>. QED  BY <1>2

LEMMA MedianInt ==
    ASSUME NEW values \in Seq(Int), values # <<>>
    PROVE  Median(values) \in Int
<1>. DEFINE K == Len(values)
            r == K \div 2
<1>1. K \in Nat \ {0} /\ values \in [1..K -> Int] /\ DOMAIN values = 1..K
  OBVIOUS
<1>2. r \in Nat /\ r < K
  BY <1>1
<1>3. \E v : Ranked(values, r, v)
  <2>. HIDE DEF r, K
  <2>. QED  BY <1>1, <1>2, RankTaken
<1>4. \E v \in {values[j] : j \in DOMAIN values} :
        /\ Cardinality({j \in DOMAIN values : values[j] < v}) <= r
        /\ r < Cardinality({j \in DOMAIN values : values[j] <= v})
  BY <1>3 DEF Ranked, Below, Within
<1>5. Median(values) \in {values[j] : j \in DOMAIN values}
  BY <1>4 DEF Median
<1>. QED  BY <1>1, <1>5

\* The percentiles of a report ascend.
LEMMA PercentilesAscend ==
    ASSUME NEW values \in Seq(Int), NEW p \in 0..95, NEW q \in 0..95, p <= q
    PROVE  Percentile(values, p) <= Percentile(values, q)
<1>. DEFINE K == Len(values)
            Rank(pct) == Round((K - 1) * pct, 100)
<1>1. CASE values = <<>>
  BY <1>1 DEF Percentile
<1>2. CASE values # <<>>
  <2>1. K \in Nat \ {0} /\ values \in [1..K -> Int] /\ DOMAIN values = 1..K
    BY <1>2
  <2>2. \A pct \in 0..95 : /\ (K - 1) * pct \in Nat
                           /\ (K - 1) * pct <= 95 * (K - 1)
                           /\ Rank(pct) = (2 * ((K - 1) * pct) + 100) \div 200
    <3>. SUFFICES ASSUME NEW pct \in 0..95
                  PROVE  /\ (K - 1) * pct \in Nat
                         /\ (K - 1) * pct <= 95 * (K - 1)
                         /\ Rank(pct) = (2 * ((K - 1) * pct) + 100) \div 200
      OBVIOUS
    <3>1. K - 1 \in Nat
      BY <2>1
    <3>. HIDE DEF K
    <3>2. (K - 1) * pct \in Nat
      BY <3>1
    <3>3. (K - 1) * pct <= 95 * (K - 1)
      <4>1. pct \in Nat /\ pct <= 95
        OBVIOUS
      <4>. DEFINE c == K - 1
      <4>2. c \in Nat
        BY <3>1
      <4>. HIDE DEF c
      <4>3. c * pct <= c * 95
        BY <4>1, <4>2, ProductGrows
      <4>4. c * 95 = 95 * c
        BY <4>2
      <4>. QED  BY <4>3, <4>4 DEF c
    <3>. QED  BY <3>2, <3>3 DEF Round
  <2>3. \A pct \in 0..95 : Rank(pct) \in Nat /\ Rank(pct) < K
    <3>. SUFFICES ASSUME NEW pct \in 0..95 PROVE Rank(pct) \in Nat /\ Rank(pct) < K
      OBVIOUS
    <3>. DEFINE a == (K - 1) * pct
    <3>1. a \in Nat /\ a <= 95 * (K - 1) /\ Rank(pct) = (2 * a + 100) \div 200
      BY <2>2, ZenonT(60)
    <3>. HIDE DEF a, Rank, K
    <3>. QED  BY <2>1, <3>1
  <2>4. Rank(p) <= Rank(q)
    <3>. DEFINE a == (K - 1) * p
                b == (K - 1) * q
    <3>0. K - 1 \in Nat
      BY <2>1
    <3>1. a \in Nat /\ Rank(p) = (2 * a + 100) \div 200 /\ b \in Nat /\ Rank(q) = (2 * b + 100) \div 200
      BY <2>2, ZenonT(60)
    <3>2. a <= b
      <4>. HIDE DEF K
      <4>1. p \in Nat /\ q \in Nat
        OBVIOUS
      <4>. QED  BY <3>0, <4>1, ProductGrows
    <3>. HIDE DEF a, b, Rank
    <3>. QED  BY <3>1, <3>2
  <2>5. \A pct \in 0..95 : Ranked(values, Rank(pct), Percentile(values, pct))
    <3>. SUFFICES ASSUME NEW pct \in 0..95 PROVE Ranked(values, Rank(pct), Percentile(values, pct))
      OBVIOUS
    <3>1. \E v : Ranked(values, Rank(pct), v)
      <4>. HIDE DEF Rank, K
      <4>. QED  BY <2>1, <2>3, RankTaken
    <3>2. \E v \in {values[j] : j \in DOMAIN values} :
            /\ Cardinality({j \in DOMAIN values : values[j] < v}) <= Rank(pct)
            /\ Rank(pct) < Cardinality({j \in DOMAIN values : values[j] <= v})
      <4>. HIDE DEF Rank
      <4>. QED  BY <3>1 DEF Ranked, Below, Within
    <3>3. Percentile(values, pct) = CHOOSE v \in {values[j] : j \in DOMAIN values} :
            /\ Cardinality({j \in DOMAIN values : values[j] < v}) <= Rank(pct)
            /\ Rank(pct) < Cardinality({j \in DOMAIN values : values[j] <= v})
      BY <1>2, Zenon DEF Percentile
    <3>. HIDE DEF Rank
    <3>. QED  BY <3>2, <3>3 DEF Ranked, Below, Within
  <2>. HIDE DEF Rank, K
  <2>. QED  BY <2>1, <2>3, <2>4, <2>5, RanksAscend
<1>. QED  BY <1>1, <1>2

\* The modes run_policy is called with.
Mode == [policy    : Policies \cup {"adaptive_regime", "narrow_static", "hold_50_50"},
         threshold : Int, floor : Int, cap : Int]

\* run_policy returns numbers, and a drawdown is not negative.
ReplayTyped ==
    \A swaps \in Swaps, mode \in Mode : swaps # <<>> => Replay(swaps, mode) \in [net : Int, dd : Nat]

LEMMA JobFacts ==
    ASSUME NEW j \in Jobs
    PROVE  /\ j.train \in Nat /\ j.test \in Nat /\ j.paths \in Nat /\ j.block \in Nat /\ j.swaps \in Nat
           /\ j.penalty \in Int /\ j.cap \in Int /\ j.tick \in Int /\ j.move \in Int
           /\ j.thresholds \in Seq(Int) /\ j.halves \in Seq(Int)
BY JobAssumption

LEMMA FixedPair ==
    ASSUME NEW j \in Jobs
    PROVE  Fixed(j) \in Pair
<1>1. j.thresholds \in Seq(Int) /\ j.halves \in Seq(Int)
  BY JobFacts
<1>2. j.thresholds # <<>> => Median(j.thresholds) \in Int
  BY <1>1, MedianInt
<1>3. j.halves # <<>> => Median(j.halves) \in Int
  BY <1>1, MedianInt
<1>. QED  BY <1>2, <1>3 DEF Fixed, Pair

LEMMA AdaptiveTyped ==
    ASSUME NEW j \in Jobs, NEW p \in Pair
    PROVE  AdaptiveMode(j, p) \in Mode
<1>1. j.cap \in Int /\ p.threshold \in Int /\ p.half \in Int
  BY JobFacts DEF Pair
<1>2. Larger(p.half \div 2, 1) \in Int
  BY <1>1 DEF Larger
<1>. QED  BY <1>1, <1>2 DEF AdaptiveMode, Mode

LEMMA OtherModes ==
    /\ \A half \in Int : StaticMode(half) \in Mode
    /\ HoldMode \in Mode
BY DEF StaticMode, HoldMode, Mode

\* Calibration returns a pair of the grid, or the medians.
LEMMA BestPair ==
    ASSUME ReplayTyped, NEW j \in Jobs, NEW swaps \in Swaps
    PROVE  Best(j, swaps) \in Pair
<1>. DEFINE grid == Grid(j)
            T == Len(j.thresholds)
            H == Len(j.halves)
            K == T * H
<1>0. j.thresholds \in Seq(Int) /\ j.halves \in Seq(Int) /\ j.penalty \in Int
  BY JobFacts
<1>1. T \in Nat /\ H \in Nat /\ K \in Nat /\ j.thresholds \in [1..T -> Int] /\ j.halves \in [1..H -> Int] /\ j.penalty \in Int
  <2>1. T \in Nat /\ H \in Nat /\ j.thresholds \in [1..T -> Int] /\ j.halves \in [1..H -> Int]
    BY <1>0
  <2>2. K \in Nat
    <3>. HIDE DEF T, H
    <3>. QED  BY <2>1
  <2>. HIDE DEF T, H, K
  <2>. QED  BY <1>0, <2>1, <2>2
<1>2. grid = [k \in 1..K |-> [threshold |-> j.thresholds[((k - 1) \div H) + 1], half |-> j.halves[((k - 1) % H) + 1]]]
  BY DEF Grid
<1>3. ASSUME NEW k \in 1..K
      PROVE  ((k - 1) \div H) + 1 \in 1..T /\ ((k - 1) % H) + 1 \in 1..H
  <2>0. H # 0
    <3>1. SUFFICES ASSUME H = 0 PROVE FALSE
      OBVIOUS
    <3>2. T * 0 = 0
      BY <1>1
    <3>. HIDE DEF T, H
    <3>3. K = 0
      BY <3>1, <3>2
    <3>. QED  BY <3>3, <1>3
  <2>. DEFINE d == (k - 1) \div H
  <2>. HIDE DEF T, H
  <2>1. k - 1 \in Nat /\ H \in Nat \ {0} /\ k <= T * H /\ k \in Nat
    BY <1>1, <1>3, <2>0
  <2>2. d \in Nat /\ H * d <= k - 1
    BY <2>1
  <2>3. d < T
    <3>1. SUFFICES ASSUME T <= d PROVE FALSE
      BY <1>1, <2>2
    <3>. HIDE DEF d
    <3>2. H * T <= H * d
      BY <1>1, <2>1, <2>2, <3>1, ProductGrows
    <3>3. H * T = T * H /\ T * H \in Nat /\ H * d \in Nat
      BY <1>1, <2>1, <2>2
    <3>. DEFINE u == T * H
                w == H * d
    <3>. HIDE DEF u, w, d
    <3>4. u \in Nat /\ w \in Nat /\ k <= u /\ w <= k - 1 /\ u <= w
      BY <2>1, <2>2, <3>2, <3>3 DEF u, w
    <3>. QED  BY <2>1, <3>4
  <2>4. (k - 1) % H \in 0..H - 1
    BY <2>1
  <2>. QED  BY <1>1, <2>1, <2>2, <2>3, <2>4
<1>. HIDE DEF T, H, K
<1>4. grid \in [1..K -> Pair]
  <2>1. \A k \in 1..K : [threshold |-> j.thresholds[((k - 1) \div H) + 1], half |-> j.halves[((k - 1) % H) + 1]] \in Pair
    <3>. SUFFICES ASSUME NEW k \in 1..K
                  PROVE  [threshold |-> j.thresholds[((k - 1) \div H) + 1], half |-> j.halves[((k - 1) % H) + 1]] \in Pair
      OBVIOUS
    <3>1. j.thresholds[((k - 1) \div H) + 1] \in Int /\ j.halves[((k - 1) % H) + 1] \in Int
      BY <1>1, <1>3, Zenon
    <3>. QED  BY <3>1, Zenon DEF Pair
  <2>. HIDE DEF grid
  <2>. QED  BY <1>2, <2>1, Zenon
<1>. HIDE DEF grid
<1>5. CASE swaps = <<>> \/ grid = <<>>
  BY <1>5, FixedPair DEF Best, grid
<1>6. CASE ~(swaps = <<>> \/ grid = <<>>)
  <2>1. K # 0
    BY <1>4, <1>6
  <2>. DEFINE score == [k \in 1..K |-> Score(j, swaps, grid[k])]
  <2>2. \A k \in 1..K : Score(j, swaps, grid[k]) \in Int
    <3>. SUFFICES ASSUME NEW k \in 1..K PROVE Score(j, swaps, grid[k]) \in Int
      OBVIOUS
    <3>1. grid[k] \in Pair
      BY <1>4
    <3>2. AdaptiveMode(j, grid[k]) \in Mode
      BY <3>1, AdaptiveTyped
    <3>. DEFINE res == Replay(swaps, AdaptiveMode(j, grid[k]))
    <3>3. res \in [net : Int, dd : Nat]
      BY <1>6, <3>2 DEF ReplayTyped, Mode
    <3>4. Score(j, swaps, grid[k]) = res.net - j.penalty * res.dd
      BY DEF Score
    <3>. HIDE DEF res
    <3>. QED  BY <1>1, <3>3, <3>4
  <2>3. score \in [1..K -> Int]
    BY <2>2
  <2>4. \E k \in 1..K : /\ \A i \in 1..K : score[i] <= score[k]
                        /\ \A i \in 1..k - 1 : score[i] < score[k]
    <3>. HIDE DEF score
    <3>. QED  BY <1>1, <2>1, <2>3, HasBest
  <2>5. \E k \in DOMAIN grid :
            /\ \A i \in DOMAIN grid : Score(j, swaps, grid[i]) <= Score(j, swaps, grid[k])
            /\ \A i \in 1..k - 1 : Score(j, swaps, grid[i]) < Score(j, swaps, grid[k])
    <3>1. DOMAIN grid = 1..K
      BY <1>4
    <3>2. PICK k \in 1..K : /\ \A i \in 1..K : score[i] <= score[k]
                            /\ \A i \in 1..k - 1 : score[i] < score[k]
      BY <2>4
    <3>3. \A i \in 1..k - 1 : i \in 1..K
      BY <1>1
    <3>. QED  BY <3>1, <3>2, <3>3
  <2>6. Best(j, swaps) = grid[CHOOSE k \in DOMAIN grid :
            /\ \A i \in DOMAIN grid : Score(j, swaps, grid[i]) <= Score(j, swaps, grid[k])
            /\ \A i \in 1..k - 1 : Score(j, swaps, grid[i]) < Score(j, swaps, grid[k])]
    BY <1>6, Zenon DEF Best, grid
  <2>7. DOMAIN grid = 1..K
    BY <1>4
  <2>. DEFINE at == CHOOSE k \in DOMAIN grid :
            /\ \A i \in DOMAIN grid : Score(j, swaps, grid[i]) <= Score(j, swaps, grid[k])
            /\ \A i \in 1..k - 1 : Score(j, swaps, grid[i]) < Score(j, swaps, grid[k])
  <2>8. at \in DOMAIN grid
    BY <2>5, Zenon
  <2>. HIDE DEF at
  <2>. QED  BY <1>4, <2>6, <2>7, <2>8 DEF at
<1>. QED  BY <1>5, <1>6

-----------------------------------------------------------------------------
(***************************************************************************)
(* Paths: what is appended to one, for every stream and every draw.        *)
(***************************************************************************)
\* The last tick of the path, or the one it starts at.
LastTick == IF path = <<>> THEN stream[1].tick ELSE path[Len(path)].tick

PathTypes ==
    /\ stream \in Swaps /\ job \in Jobs
    /\ pc \in {"start", "fold", "test", "draw", "copy", "battery", "generate", "done", "failed"}
    /\ path \in Swaps /\ level \in Int /\ cursor \in Nat /\ left \in Nat

\* What the loops have established where the process is.
Phases ==
    /\ pc \in {"draw", "copy"} => job.command = "multi" /\ n >= 2 /\ Len(path) < n
    /\ pc = "copy" => cursor \in 1..n /\ left > 0
    /\ pc = "battery" => path # <<>> /\ (job.command = "multi" => n >= 2)
    /\ pc = "generate" => job.command = "scenario" /\ job.scenario \in {"calm", "pump", "crash", "chop"}

\* Without demeaning the level is a whole number of ticks at every swap, so it rounds exactly.
WholeLevel == pc \in {"draw", "copy"} /\ ~job.demean => level = (n - 1) * LastTick

PathInv == PathTypes /\ Phases /\ WholeLevel /\ NoInventedMove

LEMMA Elements ==
    ASSUME NEW S, NEW s \in Seq(S), NEW k \in 1..Len(s)
    PROVE  s[k] \in S
OBVIOUS

LEMMA SwapFields ==
    ASSUME NEW s \in Swaps, NEW k \in 1..Len(s)
    PROVE  s[k].tick \in Int /\ s[k].block \in Nat
<1>1. s[k] \in [tick : Int, block : Nat]
  BY Elements DEF Swaps
<1>. QED  BY <1>1

LEMMA InitPath == Init => PathInv
<1>. SUFFICES ASSUME Init PROVE PathInv
  OBVIOUS
<1>1. stream \in Swaps /\ path = <<>> /\ DOMAIN path = {} /\ path \in Swaps /\ pc = "start"
      /\ level = 0 /\ cursor = 0 /\ left = 0 /\ job \in Jobs
  BY StreamAssumption DEF Init, Swaps
<1>. QED  BY <1>1 DEF PathInv, PathTypes, Phases, WholeLevel, NoInventedMove

\* A step that leaves the path alone and enters none of its loops.
LEMMA PathStays ==
    ASSUME PathInv, UNCHANGED <<stream, job, boot>>,
           pc' \in {"start", "fold", "test", "done", "failed"}
    PROVE  PathInv'
<1>1. UNCHANGED <<stream, job, path, level, cursor, left, n, SourceMoves>>
  BY DEF boot, n, SourceMoves
<1>. QED  BY <1>1 DEF PathInv, PathTypes, Phases, WholeLevel, NoInventedMove

LEMMA NewPathStep ==
    ASSUME PathInv, UNCHANGED <<stream, job>>, NewPath, job.command = "multi", n >= 2, pc' \in {"draw", "done"}
    PROVE  PathInv'
<1>1. /\ path' = <<>> /\ DOMAIN path' = {} /\ Len(path') = 0 /\ path' \in Swaps
      /\ cursor' = 0 /\ left' = 0 /\ level' = (n - 1) * stream[1].tick
      /\ n' = n /\ SourceMoves' = SourceMoves
  BY DEF NewPath, n, SourceMoves, Swaps
<1>2. n \in Nat /\ stream \in Swaps
  BY DEF PathInv, PathTypes, n, Swaps
<1>3. stream[1].tick \in Int
  <2>1. 1 \in 1..Len(stream)
    BY <1>2 DEF n
  <2>. QED  BY <1>2, <2>1, SwapFields
<1>4. (n - 1) * stream[1].tick \in Int
  <2>. DEFINE x == stream[1].tick
  <2>. HIDE DEF x
  <2>1. x \in Int
    BY <1>3 DEF x
  <2>2. (n - 1) * x \in Int
    BY <1>2, <2>1
  <2>. QED  BY <2>2 DEF x
<1>5. LastTick' = stream[1].tick
  BY <1>1 DEF LastTick
<1>. QED  BY <1>1, <1>2, <1>4, <1>5 DEF PathInv, PathTypes, Phases, WholeLevel, NoInventedMove

LEMMA DrawStep == PathInv /\ DrawBlock => PathInv'
<1>. SUFFICES ASSUME PathInv, DrawBlock PROVE PathInv'
  OBVIOUS
<1>1. /\ pc = "draw" /\ pc' = "copy" /\ cursor' \in 1..n /\ left' = Larger(job.block, 1)
      /\ UNCHANGED <<stream, job, path, level, n, SourceMoves, LastTick>>
  BY DEF DrawBlock, n, SourceMoves, LastTick
<1>2. job.block \in Nat /\ n \in Nat
  BY JobFacts DEF PathInv, PathTypes, n, Swaps
<1>3. left' \in Nat /\ left' > 0 /\ cursor' \in Nat
  BY <1>1, <1>2 DEF Larger
<1>. QED  BY <1>1, <1>3 DEF PathInv, PathTypes, Phases, WholeLevel, NoInventedMove

\* Appending a swap to the path.
LEMMA PathGrows ==
    ASSUME NEW s \in Swaps, NEW e \in [tick : Int, block : Nat]
    PROVE  /\ Append(s, e) \in Swaps /\ Len(Append(s, e)) = Len(s) + 1 /\ Append(s, e) # <<>>
           /\ DOMAIN Append(s, e) = 1..Len(s) + 1 /\ DOMAIN s = 1..Len(s)
           /\ \A k \in 1..Len(s) : Append(s, e)[k] = s[k]
           /\ Append(s, e)[Len(s) + 1] = e
BY SMTT(60) DEF Swaps

LEMMA CopyStep == PathInv /\ CopySwap => PathInv'
<1>. SUFFICES ASSUME PathInv, CopySwap PROVE PathInv'
  OBVIOUS
<1>. DEFINE lastBlock == IF path = <<>> THEN stream[1].block ELSE path[Len(path)].block
            e == [tick |-> Round(level', n - 1), block |-> BlockMove(cursor) + lastBlock]
            move == TickMove(cursor)
            m == Len(path)
<1>1. /\ pc = "copy" /\ level' = Rise(level) /\ path' = Append(path, e)
      /\ cursor' = cursor + 1 /\ left' = left - 1
      /\ pc' = IF Len(path') = n THEN "battery" ELSE IF left' = 0 \/ cursor' > n THEN "draw" ELSE "copy"
      /\ UNCHANGED <<stream, job, n, SourceMoves>>
  BY DEF CopySwap, n, SourceMoves
<1>2. /\ stream \in Swaps /\ path \in Swaps /\ level \in Int /\ cursor \in 1..n /\ left \in Nat /\ left > 0
      /\ n \in Nat /\ n >= 2 /\ m \in Nat /\ m < n /\ job \in Jobs /\ job.command = "multi"
  <2>1. PathTypes /\ Phases /\ pc = "copy"
    BY <1>1 DEF PathInv
  <2>2. /\ stream \in Swaps /\ path \in Swaps /\ level \in Int /\ cursor \in Nat /\ left \in Nat
        /\ job \in Jobs
    BY <2>1 DEF PathTypes
  <2>3. n \in Nat /\ m \in Nat
    BY <2>2 DEF n, Swaps
  <2>4. job.command = "multi" /\ n >= 2 /\ m < n /\ cursor \in 1..n /\ left > 0
    BY <2>1 DEF Phases
  <2>. QED  BY <2>2, <2>3, <2>4
<1>3. /\ \A k \in 1..n : stream[k].tick \in Int /\ stream[k].block \in Nat
      /\ path # <<>> => m \in 1..m /\ path[m].tick \in Int /\ path[m].block \in Nat
      /\ path = <<>> <=> m = 0
  <2>1. \A k \in 1..n : stream[k].tick \in Int /\ stream[k].block \in Nat
    BY <1>2, SwapFields DEF n
  <2>2. path = <<>> <=> m = 0
    BY <1>2 DEF Swaps
  <2>3. path # <<>> => m \in 1..m
    BY <1>2, <2>2
  <2>. QED  BY <1>2, <2>1, <2>2, <2>3, SwapFields
<1>4. move \in Int /\ move \in SourceMoves
  BY <1>2, <1>3 DEF TickMove, SourceMoves
<1>5. BlockMove(cursor) \in Nat
  <2>1. CASE cursor = 1
    BY <2>1 DEF BlockMove
  <2>2. CASE cursor # 1
    <3>1. cursor - 1 \in 1..n
      BY <1>2, <2>2
    <3>. QED  BY <1>2, <1>3, <2>2, <3>1 DEF BlockMove, Larger
  <2>. QED  BY <2>1, <2>2
<1>6. lastBlock \in Nat /\ LastTick \in Int /\ stream[1].tick \in Int /\ stream[n].tick \in Int
  <2>1. 1 \in 1..n /\ n \in 1..n
    BY <1>2
  <2>. QED  BY <1>3, <2>1 DEF LastTick
<1>. DEFINE w == n - 1
<1>7. w \in Nat \ {0}
  BY <1>2
<1>8. Drift \in Int /\ (~job.demean => Drift = 0)
  BY <1>6 DEF Drift
<1>. HIDE DEF move, lastBlock, m
<1>9. level' = level + w * move - Drift
  BY <1>1 DEF Rise, move
<1>. HIDE DEF w
<1>10. level' \in Int
  <2>1. w * move \in Int
    BY <1>4, <1>7
  <2>. QED  BY <1>2, <1>8, <1>9, <2>1
<1>11. e.tick = Round(level', w) /\ e.block = BlockMove(cursor) + lastBlock
  BY DEF w
<1>12. e \in [tick : Int, block : Nat]
  <2>1. Round(level', w) \in Int
    BY <1>7, <1>10, RoundInt
  <2>. QED  BY <1>5, <1>6, <2>1 DEF w
<1>. HIDE DEF e
<1>13. /\ path' \in Swaps /\ Len(path') = m + 1 /\ path' # <<>> /\ DOMAIN path' = 1..m + 1 /\ DOMAIN path = 1..m
       /\ \A k \in 1..m : path'[k] = path[k]
       /\ path'[m + 1] = e
  BY <1>1, <1>2, <1>12, PathGrows, SMTT(60) DEF m
<1>14. PathTypes'
  <2>1. cursor' \in Nat /\ left' \in Nat
    BY <1>1, <1>2
  <2>2. pc' \in {"draw", "copy", "battery"}
    BY <1>1
  <2>. QED  BY <1>1, <1>2, <1>10, <1>13, <2>1, <2>2 DEF PathTypes
<1>15. Phases'
  <2>1. pc' = "battery" \/ Len(path') # n
    BY <1>1
  <2>2. pc' = "copy" => left' # 0 /\ ~(cursor' > n)
    BY <1>1
  <2>. QED  BY <1>1, <1>2, <1>13, <2>1, <2>2 DEF Phases
<1>16. ~job.demean => level' = w * (LastTick + move) /\ e.tick = LastTick + move
  <2>. SUFFICES ASSUME ~job.demean PROVE level' = w * (LastTick + move) /\ e.tick = LastTick + move
    OBVIOUS
  <2>1. level = w * LastTick
    BY <1>1 DEF PathInv, WholeLevel, w
  <2>2. w * LastTick + w * move = w * (LastTick + move) /\ w * LastTick \in Int /\ w * move \in Int
    BY <1>4, <1>6, <1>7
  <2>3. level' = w * (LastTick + move)
    BY <1>8, <1>9, <2>1, <2>2
  <2>4. Round(w * (LastTick + move), w) = LastTick + move
    <3>1. LastTick + move \in Int
      BY <1>4, <1>6
    <3>. QED  BY <1>7, <3>1, RoundExact
  <2>. QED  BY <1>11, <2>3, <2>4
<1>17. WholeLevel'
  <2>1. LastTick' = e.tick
    BY <1>2, <1>13 DEF LastTick
  <2>2. ~job.demean => level' = w * LastTick'
    BY <1>16, <2>1
  <2>. QED  BY <1>1, <2>2 DEF WholeLevel, w
<1>18. NoInventedMove'
  <2>. SUFFICES ASSUME ~job.demean, NEW k \in 1..m + 1
                PROVE  LET before == IF k = 1 THEN stream[1] ELSE path'[k - 1]
                       IN  path'[k].tick - before.tick \in SourceMoves /\ path'[k].block >= before.block
    BY <1>1, <1>13 DEF NoInventedMove
  <2>. DEFINE before == IF k = 1 THEN stream[1] ELSE path'[k - 1]
  <2>1. CASE k \in 1..m
    <3>1. path'[k] = path[k] /\ (k # 1 => path'[k - 1] = path[k - 1])
      BY <1>2, <1>13, <2>1
    <3>2. LET b == IF k = 1 THEN stream[1] ELSE path[k - 1]
          IN  path[k].tick - b.tick \in SourceMoves /\ path[k].block >= b.block
      BY <1>2, <1>13, <2>1 DEF PathInv, NoInventedMove
    <3>. QED  BY <3>1, <3>2
  <2>2. CASE k = m + 1
    <3>1. before.tick = LastTick /\ before.block = lastBlock
      <4>1. CASE m = 0
        BY <1>3, <2>2, <4>1 DEF LastTick, lastBlock, m
      <4>2. CASE m # 0
        <5>1. k # 1 /\ k - 1 = m /\ m \in 1..m
          BY <1>2, <2>2, <4>2
        <5>2. path'[k - 1] = path[m]
          BY <1>13, <5>1
        <5>. QED  BY <1>3, <4>2, <5>1, <5>2 DEF LastTick, lastBlock, m
      <4>. QED  BY <4>1, <4>2
    <3>2. path'[k].tick - LastTick = move
      BY <1>4, <1>6, <1>13, <1>16, <2>2
    <3>3. path'[k].block >= lastBlock
      BY <1>5, <1>6, <1>11, <1>13, <2>2
    <3>. QED  BY <1>4, <3>1, <3>2, <3>3
  <2>3. k \in 1..m \/ k = m + 1
    BY <1>2
  <2>. QED  BY <2>1, <2>2, <2>3
<1>. QED  BY <1>14, <1>15, <1>17, <1>18 DEF PathInv

LEMMA RunPathStep == PathInv /\ RunPath => PathInv'
<1>. SUFFICES ASSUME PathInv, RunPath PROVE PathInv'
  OBVIOUS
<1>1. UNCHANGED <<stream, job>> /\ NewPath /\ job.command = "multi" /\ pc' \in {"draw", "done"} /\ n >= 2
  BY DEF RunPath, PathInv, Phases
<1>. QED  BY <1>1, NewPathStep

LEMMA StartPathsStep == PathInv /\ StartPaths => PathInv'
<1>. SUFFICES ASSUME PathInv, StartPaths PROVE PathInv'
  OBVIOUS
<1>1. CASE n < Larger(job.block, 2)
  BY <1>1, PathStays DEF StartPaths
<1>2. CASE ~(n < Larger(job.block, 2))
  <2>1. UNCHANGED <<stream, job>> /\ NewPath /\ job.command = "multi" /\ pc' \in {"draw", "done"}
    BY <1>2 DEF StartPaths
  <2>2. n \in Nat /\ job.block \in Nat
    BY JobFacts DEF PathInv, PathTypes, n, Swaps
  <2>3. n >= 2
    BY <1>2, <2>2 DEF Larger
  <2>. QED  BY <2>1, <2>3, NewPathStep
<1>. QED  BY <1>1, <1>2

\* Any tick a scenario may have is a whole number.
LEMMA ScenarioInt ==
    ASSUME PathInv, pc = "generate", NEW tick \in ScenarioTicks(Len(path))
    PROVE  tick \in Int
<1>. DEFINE i == Len(path)
<1>1. job \in Jobs /\ i \in Nat /\ job.scenario \in {"calm", "pump", "crash", "chop"}
  BY DEF PathInv, PathTypes, Phases, Swaps
<1>2. job.tick \in Int /\ job.move \in Int /\ job.swaps \in Nat
  BY <1>1, JobFacts
<1>3. Length \in Nat /\ Length - 1 \in Nat \ {0}
  BY <1>2 DEF Length, Larger
<1>4. Noise(30) \subseteq Int /\ Noise(40) \subseteq Int /\ Noise(50) \subseteq Int
  BY NoiseAssumption
<1>. HIDE DEF i
<1>5. Crash(i) \in Int /\ Pump(i) \in Int
  <2>1. Smaller(3 * i, Length - 1) \in Int
    BY <1>1, <1>3 DEF Smaller
  <2>2. job.move * Smaller(3 * i, Length - 1) \in Int /\ job.move * i \in Int
    BY <1>1, <1>2, <2>1
  <2>3. Round(job.move * Smaller(3 * i, Length - 1), Length - 1) \in Int /\ Round(job.move * i, Length - 1) \in Int
    BY <1>3, <2>2, RoundInt
  <2>. QED  BY <2>3 DEF Crash, Pump
<1>6. tick \in ScenarioTicks(i)
  BY DEF i
<1>7. CASE job.scenario = "calm"
  <2>1. tick \in {job.tick + x : x \in Noise(40)}
    BY <1>6, <1>7 DEF ScenarioTicks
  <2>. QED  BY <1>2, <1>4, <2>1
<1>8. CASE job.scenario = "pump"
  <2>1. tick \in {job.tick + Pump(i) + x : x \in Noise(30)}
    BY <1>6, <1>8 DEF ScenarioTicks
  <2>. QED  BY <1>2, <1>4, <1>5, <2>1, SMTT(60)
<1>9. CASE job.scenario = "crash"
  <2>1. tick \in {job.tick + Crash(i) + x : x \in Noise(30)}
    BY <1>6, <1>9 DEF ScenarioTicks
  <2>. QED  BY <1>2, <1>4, <1>5, <2>1
<1>10. CASE job.scenario = "chop"
  <2>1. tick \in {job.tick + w + x : w \in -job.move..job.move, x \in Noise(50)}
    BY <1>6, <1>10 DEF ScenarioTicks
  <2>2. PICK w \in -job.move..job.move, x \in Noise(50) : tick = job.tick + w + x
    BY <2>1
  <2>3. w \in Int
    BY <1>2
  <2>4. x \in Int
    BY <1>4
  <2>. QED  BY <1>2, <2>2, <2>3, <2>4
<1>. QED  BY <1>1, <1>7, <1>8, <1>9, <1>10

LEMMA GenerateStep == PathInv /\ Generate => PathInv'
<1>. SUFFICES ASSUME PathInv, Generate PROVE PathInv'
  OBVIOUS
<1>1. PICK tick \in ScenarioTicks(Len(path)) : path' = Append(path, [tick |-> tick, block |-> 1000 + Len(path)])
  BY DEF Generate
<1>2. /\ pc = "generate" /\ pc' \in {"battery", "generate"} /\ job.command = "scenario"
      /\ job.scenario \in {"calm", "pump", "crash", "chop"}
      /\ UNCHANGED <<stream, job, level, cursor, left>>
  BY DEF Generate, PathInv, Phases
<1>3. tick \in Int
  BY <1>1, <1>2, ScenarioInt
<1>4. path \in Swaps /\ Len(path) \in Nat
  BY DEF PathInv, PathTypes, Swaps
<1>5. path' \in Swaps /\ path' # <<>>
  <2>. DEFINE e == [tick |-> tick, block |-> 1000 + Len(path)]
  <2>1. e \in [tick : Int, block : Nat]
    BY <1>3, <1>4
  <2>. HIDE DEF e
  <2>2. Append(path, e) \in Swaps /\ Append(path, e) # <<>>
    BY <1>4, <2>1, PathGrows
  <2>. QED  BY <1>1, <2>2 DEF e
<1>6. PathTypes'
  BY <1>2, <1>5 DEF PathInv, PathTypes
<1>. QED  BY <1>2, <1>5, <1>6 DEF PathInv, Phases, WholeLevel, NoInventedMove

LEMMA NextPath == PathInv /\ [Next]_vars => PathInv'
<1>. SUFFICES ASSUME PathInv, [Next]_vars PROVE PathInv'
  OBVIOUS
<1>1. CASE StartWalk
  BY <1>1, PathStays DEF StartWalk
<1>2. CASE StartPaths
  BY <1>2, StartPathsStep
<1>3. CASE StartScenario
  <2>1. /\ job.command = "scenario" /\ UNCHANGED <<stream, job, path, level, cursor, left, n>>
        /\ pc' \in {"generate", "failed"} /\ (pc' = "generate" => job.scenario \in {"calm", "pump", "crash", "chop"})
    BY <1>3 DEF StartScenario, boot, n
  <2>. QED  BY <2>1 DEF PathInv, PathTypes, Phases, WholeLevel, NoInventedMove
<1>4. CASE Calibrate
  BY <1>4, PathStays DEF Calibrate
<1>5. CASE TestFold
  BY <1>5, PathStays DEF TestFold
<1>6. CASE EndFolds
  BY <1>6, PathStays DEF EndFolds
<1>7. CASE DrawBlock
  BY <1>7, DrawStep
<1>8. CASE CopySwap
  BY <1>8, CopyStep
<1>9. CASE RunPath
  BY <1>9, RunPathStep
<1>10. CASE Generate
  BY <1>10, GenerateStep
<1>11. CASE RunScenario
  <2>1. UNCHANGED <<stream, job, path, level, cursor, left, n, SourceMoves>> /\ pc' = "done"
    BY <1>11 DEF RunScenario, n, SourceMoves
  <2>. QED  BY <2>1 DEF PathInv, PathTypes, Phases, WholeLevel, NoInventedMove
<1>12. CASE UNCHANGED vars
  BY <1>12 DEF vars, PathInv, PathTypes, Phases, WholeLevel, NoInventedMove, LastTick, SourceMoves, n
<1>. QED  BY <1>1, <1>2, <1>3, <1>4, <1>5, <1>6, <1>7, <1>8, <1>9, <1>10, <1>11, <1>12 DEF Next

LEMMA PathAlways == Spec => []PathInv
BY InitPath, NextPath, PTL DEF Spec

\* multi_path_eval: a path that is not demeaned only makes moves its source made, and its blocks
\* never run backwards, for every source, block length and draw.
THEOREM MovesAreSourceMoves == Spec => []NoInventedMove
<1>1. PathInv => NoInventedMove
  BY DEF PathInv
<1>. QED  BY <1>1, PathAlways, PTL

-----------------------------------------------------------------------------
(***************************************************************************)
(* Types.                                                                  *)
(***************************************************************************)
Totals == [oos : Int, dd : Nat, fixed : Int, static : Int, hold : Int, tested : Nat]

WalkTypes ==
    /\ start \in Nat /\ chosen \in Pair \cup {<<>>} /\ totals \in Totals
    /\ pc = "test" => chosen \in Pair
    /\ \A k \in DOMAIN folds : folds[k].chosen \in Pair /\ folds[k].dd \in Nat /\ folds[k].dd <= totals.dd

NetTypes == nets \in Seq([Policies -> Int])

EvalInv == WalkInv /\ PathInv /\ WalkTypes /\ NetTypes

LEMMA InitEval == Init => EvalInv
<1>. SUFFICES ASSUME Init PROVE EvalInv
  OBVIOUS
<1>1. WalkTypes
  BY DEF Init, WalkTypes, Totals
<1>2. NetTypes
  BY DEF Init, NetTypes
<1>. QED  BY <1>1, <1>2, InitWalk, InitPath DEF EvalInv

\* The nets of the battery are numbers.
LEMMA BatteryTyped ==
    ASSUME ReplayTyped, PathInv, pc = "battery"
    PROVE  Battery \in [Policies -> Int]
<1>1. path \in Swaps /\ path # <<>>
  BY DEF PathInv, PathTypes, Phases
<1>2. ASSUME NEW p \in Policies PROVE Replay(path, [HoldMode EXCEPT !.policy = p]).net \in Int
  <2>1. [HoldMode EXCEPT !.policy = p] \in Mode
    BY DEF HoldMode, Mode
  <2>2. Replay(path, [HoldMode EXCEPT !.policy = p]) \in [net : Int, dd : Nat]
    BY <1>1, <2>1 DEF ReplayTyped
  <2>. QED  BY <2>2
<1>. QED  BY <1>2 DEF Battery

LEMMA CalibrateTypes ==
    ASSUME ReplayTyped, EvalInv, Calibrate
    PROVE  WalkTypes' /\ NetTypes'
<1>1. /\ chosen' = Best(job, Train) /\ pc' = "test" /\ UNCHANGED <<start, folds, totals, nets>>
  BY DEF Calibrate, boot
<1>2. job \in Jobs /\ stream \in Swaps /\ start \in Nat /\ n \in Nat /\ TrainEnd \in Nat /\ TrainEnd <= n
  <2>1. job \in Jobs /\ stream \in Swaps /\ start \in Nat
    BY DEF EvalInv, PathInv, PathTypes, WalkTypes
  <2>2. job.train \in Nat /\ n \in Nat
    BY <2>1, JobFacts DEF n, Swaps
  <2>. QED  BY <2>1, <2>2 DEF Calibrate, MoreFolds, TrainEnd
<1>3. Train \in Swaps
  BY <1>2, WindowTyped DEF Train, Swaps, n
<1>4. chosen' \in Pair
  BY <1>1, <1>2, <1>3, BestPair
<1>. QED  BY <1>1, <1>4 DEF EvalInv, WalkTypes, NetTypes

LEMMA TestTypes ==
    ASSUME ReplayTyped, EvalInv, TestFold
    PROVE  WalkTypes' /\ NetTypes'
<1>. DEFINE result == Replay(Test, AdaptiveMode(job, chosen))
            base   == Replay(Test, AdaptiveMode(job, Fixed(job)))
            static == Replay(Test, StaticMode(Fixed(job).half))
            hold   == Replay(Test, HoldMode)
            f == [start |-> start, trainEnd |-> TrainEnd, testEnd |-> TestEnd,
                  chosen |-> chosen, net |-> result.net, dd |-> result.dd]
            m == Len(folds)
<1>1. /\ pc = "test" /\ pc' = "fold" /\ folds' = Append(folds, f) /\ start' = start + job.test
      /\ totals' = [oos    |-> totals.oos + result.net,
                    dd     |-> Larger(totals.dd, result.dd),
                    fixed  |-> totals.fixed + base.net,
                    static |-> totals.static + static.net,
                    hold   |-> totals.hold + hold.net,
                    tested |-> totals.tested + Len(Test)]
      /\ UNCHANGED <<chosen, nets>>
  BY DEF TestFold, boot
<1>2. /\ job \in Jobs /\ stream \in Swaps /\ start \in Nat /\ n \in Nat /\ job.test \in Nat /\ MoreFolds
      /\ chosen \in Pair /\ Fixed(job) \in Pair /\ totals \in Totals
      /\ \A k \in DOMAIN folds : folds[k].chosen \in Pair /\ folds[k].dd \in Nat /\ folds[k].dd <= totals.dd
  <2>1. /\ job \in Jobs /\ stream \in Swaps /\ start \in Nat /\ chosen \in Pair /\ MoreFolds /\ totals \in Totals
        /\ \A k \in DOMAIN folds : folds[k].chosen \in Pair /\ folds[k].dd \in Nat /\ folds[k].dd <= totals.dd
    BY <1>1 DEF EvalInv, WalkInv, Windows, PathInv, PathTypes, WalkTypes
  <2>2. job.test \in Nat /\ n \in Nat
    BY <2>1, JobFacts DEF n, Swaps
  <2>. QED  BY <2>1, <2>2, FixedPair
<1>3. Test \in Swaps /\ Test # <<>> /\ Len(Test) \in Nat
  <2>1. job.train \in Nat
    BY <1>2, JobFacts
  <2>2. TrainEnd \in Nat /\ TestEnd \in Nat /\ TrainEnd < TestEnd /\ TestEnd <= Len(stream)
    BY <1>2, <2>1 DEF MoreFolds, TrainEnd, TestEnd, Smaller, n
  <2>3. Len(Test) = TestEnd - TrainEnd
    BY <1>2, <2>2, WindowLength DEF Test, Swaps
  <2>4. Test \in Swaps
    BY <1>2, <2>2, WindowTyped DEF Test, Swaps
  <2>. QED  BY <2>2, <2>3, <2>4
<1>4. /\ result \in [net : Int, dd : Nat] /\ base \in [net : Int, dd : Nat]
      /\ static \in [net : Int, dd : Nat] /\ hold \in [net : Int, dd : Nat]
  <2>1. AdaptiveMode(job, chosen) \in Mode /\ AdaptiveMode(job, Fixed(job)) \in Mode
    BY <1>2, AdaptiveTyped
  <2>2. StaticMode(Fixed(job).half) \in Mode /\ HoldMode \in Mode
    <3>1. Fixed(job).half \in Int
      BY <1>2 DEF Pair
    <3>. QED  BY <3>1, OtherModes
  <2>. QED  BY <1>3, <2>1, <2>2 DEF ReplayTyped
<1>. HIDE DEF result, base, static, hold
<1>5. f.chosen = chosen /\ f.dd = result.dd
  OBVIOUS
<1>. HIDE DEF f
<1>6. /\ Len(folds') = m + 1 /\ DOMAIN folds' = 1..m + 1 /\ DOMAIN folds = 1..m /\ m \in Nat
      /\ \A k \in 1..m : folds'[k] = folds[k]
      /\ folds'[m + 1] = f
  <2>1. PICK S : folds \in Seq(S)
    BY DEF EvalInv, WalkInv, Input
  <2>2. /\ Append(folds, f) \in Seq(S \cup {f})
        /\ Len(Append(folds, f)) = Len(folds) + 1
        /\ DOMAIN folds = 1..Len(folds) /\ DOMAIN Append(folds, f) = 1..Len(folds) + 1
        /\ \A k \in 1..Len(folds) : Append(folds, f)[k] = folds[k]
        /\ Append(folds, f)[Len(folds) + 1] = f
    BY <2>1, AppendFacts
  <2>3. Len(folds) \in Nat
    BY <2>1
  <2>. QED  BY <1>1, <2>2, <2>3
<1>. HIDE DEF m
<1>7. totals' \in Totals /\ totals.dd <= totals'.dd /\ result.dd <= totals'.dd /\ totals.dd \in Nat /\ totals'.dd \in Nat
  <2>1. /\ totals.oos \in Int /\ totals.dd \in Nat /\ totals.fixed \in Int
        /\ totals.static \in Int /\ totals.hold \in Int /\ totals.tested \in Nat
    BY <1>2 DEF Totals
  <2>2. /\ result.net \in Int /\ result.dd \in Nat /\ base.net \in Int /\ static.net \in Int /\ hold.net \in Int
    BY <1>4
  <2>. DEFINE top == Larger(totals.dd, result.dd)
  <2>3. top \in Nat /\ totals.dd <= top /\ result.dd <= top
    BY <2>1, <2>2 DEF Larger
  <2>. HIDE DEF top
  <2>4. totals' = [oos |-> totals.oos + result.net, dd |-> top, fixed |-> totals.fixed + base.net,
                   static |-> totals.static + static.net, hold |-> totals.hold + hold.net,
                   tested |-> totals.tested + Len(Test)]
    BY <1>1 DEF top
  <2>4a. /\ totals.oos + result.net \in Int /\ totals.fixed + base.net \in Int /\ totals.static + static.net \in Int
         /\ totals.hold + hold.net \in Int /\ totals.tested + Len(Test) \in Nat
    <3>1. totals.tested + Len(Test) \in Nat
      BY <1>3, <2>1
    <3>2. totals.oos + result.net \in Int
      BY <2>1, <2>2
    <3>3. totals.fixed + base.net \in Int
      BY <2>1, <2>2
    <3>4. totals.static + static.net \in Int
      BY <2>1, <2>2
    <3>5. totals.hold + hold.net \in Int
      BY <2>1, <2>2
    <3>. QED  BY <3>1, <3>2, <3>3, <3>4, <3>5
  <2>5. totals' \in Totals /\ totals'.dd = top
    BY <2>3, <2>4, <2>4a, Zenon DEF Totals
  <2>. QED  BY <2>1, <2>3, <2>5
<1>8. start' \in Nat /\ chosen' \in Pair
  BY <1>1, <1>2
<1>9. \A k \in 1..m + 1 : folds'[k].chosen \in Pair /\ folds'[k].dd \in Nat /\ folds'[k].dd <= totals'.dd
  <2>. SUFFICES ASSUME NEW k \in 1..m + 1
                PROVE  folds'[k].chosen \in Pair /\ folds'[k].dd \in Nat /\ folds'[k].dd <= totals'.dd
    OBVIOUS
  <2>1. CASE k \in 1..m
    BY <1>2, <1>6, <1>7, <2>1
  <2>2. CASE k = m + 1
    BY <1>2, <1>4, <1>5, <1>6, <1>7, <2>2
  <2>. QED  BY <1>6, <2>1, <2>2
<1>. QED  BY <1>1, <1>6, <1>7, <1>8, <1>9 DEF WalkTypes, NetTypes, EvalInv

LEMMA NextEval == ReplayTyped /\ EvalInv /\ [Next]_vars => EvalInv'
<1>. SUFFICES ASSUME ReplayTyped, EvalInv, [Next]_vars PROVE EvalInv'
  OBVIOUS
<1>0. WalkInv' /\ PathInv'
  BY NextWalk, NextPath DEF EvalInv
<1>1. ASSUME UNCHANGED walk, pc' # "test" PROVE WalkTypes'
  BY <1>1 DEF EvalInv, walk, WalkTypes
<1>2. ASSUME UNCHANGED boot PROVE NetTypes'
  BY <1>2 DEF EvalInv, boot, NetTypes
<1>3. CASE StartWalk
  BY <1>0, <1>1, <1>2, <1>3 DEF StartWalk, EvalInv
<1>4. CASE StartPaths
  <2>1. UNCHANGED walk /\ UNCHANGED nets /\ pc' # "test"
    BY <1>4 DEF StartPaths, boot
  <2>. QED  BY <1>0, <1>1, <2>1 DEF EvalInv, NetTypes
<1>5. CASE StartScenario
  BY <1>0, <1>1, <1>2, <1>5 DEF StartScenario, EvalInv
<1>6. CASE Calibrate
  BY <1>0, <1>6, CalibrateTypes DEF EvalInv
<1>7. CASE TestFold
  BY <1>0, <1>7, TestTypes DEF EvalInv
<1>8. CASE EndFolds
  BY <1>0, <1>1, <1>2, <1>8 DEF EndFolds, EvalInv
<1>9. CASE DrawBlock
  <2>1. UNCHANGED walk /\ UNCHANGED nets /\ pc' # "test"
    BY <1>9 DEF DrawBlock
  <2>. QED  BY <1>0, <1>1, <2>1 DEF EvalInv, NetTypes
<1>10. CASE CopySwap
  <2>1. UNCHANGED walk /\ UNCHANGED nets /\ pc' # "test"
    BY <1>10 DEF CopySwap
  <2>. QED  BY <1>0, <1>1, <2>1 DEF EvalInv, NetTypes
<1>11. CASE RunPath
  <2>1. UNCHANGED walk /\ nets' = Append(nets, Battery) /\ pc' # "test" /\ pc = "battery"
    BY <1>11 DEF RunPath
  <2>2. Battery \in [Policies -> Int]
    BY <2>1, BatteryTyped DEF EvalInv
  <2>3. NetTypes'
    BY <2>1, <2>2 DEF EvalInv, NetTypes
  <2>. QED  BY <1>0, <1>1, <2>1, <2>3 DEF EvalInv
<1>12. CASE Generate
  <2>1. UNCHANGED walk /\ UNCHANGED nets /\ pc' # "test"
    BY <1>12 DEF Generate
  <2>. QED  BY <1>0, <1>1, <2>1 DEF EvalInv, NetTypes
<1>13. CASE RunScenario
  <2>1. UNCHANGED walk /\ nets' = <<Battery>> /\ pc' # "test" /\ pc = "battery"
    BY <1>13 DEF RunScenario
  <2>2. Battery \in [Policies -> Int]
    BY <2>1, BatteryTyped DEF EvalInv
  <2>3. NetTypes'
    BY <2>1, <2>2 DEF NetTypes
  <2>. QED  BY <1>0, <1>1, <2>1, <2>3 DEF EvalInv
<1>14. CASE UNCHANGED vars
  <2>1. UNCHANGED <<walk, nets, pc>>
    BY <1>14 DEF vars, walk
  <2>2. WalkTypes'
    BY <2>1 DEF EvalInv, WalkTypes, walk
  <2>. QED  BY <1>0, <2>1, <2>2 DEF EvalInv, NetTypes
<1>. QED  BY <1>3, <1>4, <1>5, <1>6, <1>7, <1>8, <1>9, <1>10, <1>11, <1>12, <1>13, <1>14 DEF Next

\* What a report says of a policy is in order.
LEMMA DistributionOrdered ==
    ASSUME NetTypes, NEW p \in Policies
    PROVE  LET d == Distribution(p) IN d.p05 <= d.p50 /\ d.p50 <= d.p95 /\ d.wins <= Len(nets)
<1>. DEFINE values == [k \in DOMAIN nets |-> nets[k][p]]
            won == {k \in DOMAIN nets : nets[k][p] > nets[k]["hold_50_50"]}
<1>1. values \in Seq(Int)
  <2>1. DOMAIN nets = 1..Len(nets) /\ Len(nets) \in Nat
    BY DEF NetTypes
  <2>2. ASSUME NEW k \in 1..Len(nets) PROVE nets[k][p] \in Int
    <3>1. nets[k] \in [Policies -> Int]
      BY Elements DEF NetTypes
    <3>. QED  BY <3>1
  <2>. QED  BY <2>1, <2>2
<1>2. Percentile(values, 5) <= Percentile(values, 50) /\ Percentile(values, 50) <= Percentile(values, 95)
  <2>. HIDE DEF values
  <2>. QED  BY <1>1, PercentilesAscend, SMTT(60)
<1>3. Cardinality(won) <= Len(nets)
  <2>1. DOMAIN nets = 1..Len(nets) /\ Len(nets) \in Nat
    BY DEF NetTypes
  <2>2. won \subseteq 1..Len(nets)
    BY <2>1
  <2>. HIDE DEF won
  <2>. QED  BY <2>1, <2>2, SubsetCount
<1>. HIDE DEF values, won
<1>4. Distribution(p) = [p05 |-> Percentile(values, 5), p50 |-> Percentile(values, 50), p95 |-> Percentile(values, 95),
                         wins |-> Cardinality(won)]
  BY Zenon DEF Distribution, values, won
<1>. QED  BY <1>2, <1>3, <1>4

\* Folds, paths and reports have their types whatever the streams, windows and grid, where the
\* replay returns numbers: a fold's pair is one of the grid or the medians, its drawdown is
\* within the total's, and the percentiles of a report ascend.
THEOREM EvaluationTypes == ReplayTyped => (Spec => []TypeOK)
<1>. SUFFICES ASSUME ReplayTyped PROVE Spec => []TypeOK
  OBVIOUS
<1>1. EvalInv => TypeOK
  BY DistributionOrdered DEF EvalInv, PathInv, PathTypes, Phases, WalkTypes, NetTypes, Totals, TypeOK
<1>2. EvalInv /\ [Next]_vars => EvalInv'
  BY NextEval
<1>. QED  BY <1>1, <1>2, InitEval, PTL DEF Spec
=============================================================================

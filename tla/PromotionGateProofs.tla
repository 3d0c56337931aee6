------------------------- MODULE PromotionGateProofs -------------------------
(***************************************************************************)
(* Proofs about PromotionGate, for streams of any length, any number and    *)
(* size of window configurations, any rule and any replay.                  *)
(*                                                                          *)
(* The argument: while a configuration is evaluated the rows kept are       *)
(* exactly those of every window that fits, for every mode that is replayed *)
(* and every fraction whose report is finished.  What a policy selects is   *)
(* therefore selected from a complete set of rows, and what the gate says   *)
(* of a selection follows from completeness alone.  The hedge grid also     *)
(* runs with a window or a step of zero: it then lists nothing or replays   *)
(* one window for ever, which is an invariant of its own.                   *)
(***************************************************************************)
EXTENDS PromotionGate, WindowStatsProofs, SequenceTheorems

-----------------------------------------------------------------------------
(***************************************************************************)
(* Numbers.                                                                 *)
(***************************************************************************)
LEMMA MulMono ==
    ASSUME NEW a \in Int, NEW b \in Int, NEW d \in Nat, a <= b
    PROVE  a * d \in Int /\ b * d \in Int /\ a * d <= b * d
OBVIOUS

LEMMA DistanceFacts ==
    ASSUME NEW a \in Int, NEW b \in Int
    PROVE  L!Distance(a, b) \in Nat /\ L!Distance(a, a) = 0 /\ (L!Distance(a, b) = 0 => a = b)
BY DEF L!Distance, L!Larger, L!Smaller

LEMMA DivExact ==
    ASSUME NEW n \in Nat, NEW d \in Nat, d > 0
    PROVE  (n * d) \div d = n
OBVIOUS

LEMMA DivBound ==
    ASSUME NEW n \in Nat, NEW d \in Nat, d > 0, NEW l \in Nat, n * d <= l
    PROVE  l \div d \in Nat /\ n <= l \div d
<1>1. l \div d \in Nat
  OBVIOUS
<1>2. n <= l \div d
  <2>. DEFINE q == l \div d
  <2>1. q \in Nat /\ l < (q + 1) * d
    OBVIOUS
  <2>. HIDE DEF q
  <2>2. ASSUME q + 1 <= n PROVE FALSE
    <3>1. (q + 1) * d <= n * d /\ (q + 1) * d \in Int /\ n * d \in Int
      <4>1. q + 1 \in Int /\ n \in Int
        BY <2>1
      <4>. QED  BY <2>2, <4>1, MulMono
    <3>. QED  BY <2>1, <3>1
  <2>3. n <= q
    BY <2>1, <2>2
  <2>. QED  BY <2>3 DEF q
<1>. QED  BY <1>1, <1>2

-----------------------------------------------------------------------------
(***************************************************************************)
(* Sequences.                                                               *)
(***************************************************************************)
IsSeq(s) == Len(s) \in Nat /\ DOMAIN s = 1..Len(s) /\ s \in Seq(Range(s))

LEMMA SeqIsSeq ==
    ASSUME NEW S, NEW s \in Seq(S)
    PROVE  IsSeq(s)
BY DEF IsSeq, Range

LEMMA FunctionIsSeq ==
    ASSUME NEW n \in Nat, NEW S, NEW q \in [1..n -> S]
    PROVE  IsSeq(q) /\ Len(q) = n
<1>1. q \in Seq(S) /\ Len(q) = n
  OBVIOUS
<1>. QED  BY <1>1, SeqIsSeq

LEMMA ConcatRange ==
    ASSUME NEW s, NEW t, IsSeq(s), IsSeq(t)
    PROVE  /\ IsSeq(s \o t) /\ Len(s \o t) = Len(s) + Len(t)
           /\ \A r : r \in Range(s \o t) <=> r \in Range(s) \/ r \in Range(t)
<1>. DEFINE S == Range(s) \cup Range(t)
<1>1. s \in Seq(S) /\ t \in Seq(S) /\ Len(s) \in Nat /\ Len(t) \in Nat
      /\ DOMAIN s = 1..Len(s) /\ DOMAIN t = 1..Len(t)
  <2>1. Range(s) \subseteq S /\ Range(t) \subseteq S
    OBVIOUS
  <2>. HIDE DEF S
  <2>. QED  BY <2>1 DEF IsSeq
<1>. HIDE DEF S
<1>2. /\ s \o t \in Seq(S) /\ Len(s \o t) = Len(s) + Len(t)
      /\ \A i \in 1..Len(s) + Len(t) : (s \o t)[i] = IF i <= Len(s) THEN s[i] ELSE t[i - Len(s)]
  BY <1>1
<1>. DEFINE u == s \o t
<1>. HIDE DEF u
<1>3. DOMAIN u = 1..Len(s) + Len(t)
  BY <1>2 DEF u
<1>4. ASSUME NEW r \in Range(u) PROVE r \in Range(s) \/ r \in Range(t)
  <2>1. PICK i \in 1..Len(s) + Len(t) : r = u[i]
    BY <1>3 DEF Range
  <2>2. CASE i <= Len(s)
    <3>1. i \in 1..Len(s) /\ r = s[i]
      BY <1>1, <1>2, <2>1, <2>2 DEF u
    <3>. QED  BY <1>1, <3>1 DEF Range
  <2>3. CASE ~(i <= Len(s))
    <3>1. i - Len(s) \in 1..Len(t) /\ r = t[i - Len(s)]
      BY <1>1, <1>2, <2>1, <2>3 DEF u
    <3>. QED  BY <1>1, <3>1 DEF Range
  <2>. QED  BY <2>2, <2>3
<1>5. ASSUME NEW r \in Range(s) PROVE r \in Range(u)
  <2>1. PICK i \in 1..Len(s) : r = s[i]
    BY <1>1 DEF Range
  <2>2. i \in 1..Len(s) + Len(t) /\ u[i] = r
    BY <1>1, <1>2, <2>1 DEF u
  <2>. QED  BY <1>3, <2>2 DEF Range
<1>6. ASSUME NEW r \in Range(t) PROVE r \in Range(u)
  <2>1. PICK i \in 1..Len(t) : r = t[i]
    BY <1>1 DEF Range
  <2>2. i + Len(s) \in 1..Len(s) + Len(t) /\ ~(i + Len(s) <= Len(s)) /\ (i + Len(s)) - Len(s) = i
    BY <1>1, <2>1
  <2>3. u[i + Len(s)] = r
    BY <1>2, <2>1, <2>2 DEF u
  <2>. QED  BY <1>3, <2>2, <2>3 DEF Range
<1>7. IsSeq(u)
  BY <1>2, SeqIsSeq DEF u
<1>. QED  BY <1>2, <1>4, <1>5, <1>6, <1>7 DEF u

LEMMA PickRange ==
    ASSUME NEW s, IsSeq(s), NEW I
    PROVE  /\ IsSeq(Pick(s, I))
           /\ \A r : r \in Range(Pick(s, I)) <=> \E i \in DOMAIN s : i \in I /\ r = s[i]
<1>. DEFINE q == Pick(s, I)
            S == Range(s)
<1>1. s \in Seq(S)
  BY DEF IsSeq
<1>. HIDE DEF S, q
<1>2. /\ q \in Seq(S)
      /\ \A k \in DOMAIN q : \E i \in I \cap DOMAIN s : q[k] = s[i]
      /\ \A i \in I \cap DOMAIN s : \E k \in DOMAIN q : q[k] = s[i]
  BY <1>1, PickFacts, SMTT(60) DEF q
<1>3. IsSeq(q)
  BY <1>2, SeqIsSeq
<1>4. \A r : r \in Range(q) <=> \E i \in DOMAIN s : i \in I /\ r = s[i]
  BY <1>2 DEF Range
<1>. QED  BY <1>3, <1>4 DEF q

\* The numbers from 1 to n in increasing order are just themselves.
LEMMA AscendingInterval ==
    ASSUME NEW n \in Nat
    PROVE  Cardinality(1..n) = n /\ \A k \in 1..n : Ascending(1..n)[k] = k
<1>1. Cardinality(1..n) = n
  BY FS_Interval
<1>2. ASSUME NEW x \in 1..n PROVE Cardinality({y \in 1..n : y < x}) = x - 1
  <2>1. {y \in 1..n : y < x} = 1..x - 1
    OBVIOUS
  <2>2. Cardinality(1..x - 1) = x - 1
    BY FS_Interval
  <2>. QED  BY <2>1, <2>2
<1>3. ASSUME NEW k \in 1..n PROVE Ascending(1..n)[k] = k
  <2>1. Ascending(1..n)[k] = CHOOSE x \in 1..n : Cardinality({y \in 1..n : y < x}) = k - 1
    BY <1>1 DEF Ascending
  <2>2. \A x \in 1..n : Cardinality({y \in 1..n : y < x}) = k - 1 <=> x = k
    <3>1. TAKE x \in 1..n
    <3>. DEFINE z == Cardinality({y \in 1..n : y < x})
    <3>2. z = x - 1
      BY <1>2
    <3>. HIDE DEF z
    <3>3. z = k - 1 <=> x = k
      BY <3>2
    <3>. QED  BY <3>3 DEF z
  <2>. DEFINE C(x) == Cardinality({y \in 1..n : y < x}) = k - 1
  <2>3. Ascending(1..n)[k] = CHOOSE x \in 1..n : C(x)
    BY <2>1
  <2>4. \A x \in 1..n : C(x) <=> x = k
    BY <2>2
  <2>. HIDE DEF C
  <2>. QED  BY <2>3, <2>4
<1>. QED  BY <1>1, <1>3

-----------------------------------------------------------------------------
(***************************************************************************)
(* The battery and its rows.                                                *)
(***************************************************************************)
Names == <<"hold_50_50", "passive_wide", "narrow_static", "narrow_rebalance", "vol_scaled_rebalance",
           "hard_exit_stop", "hedged_narrow", "adaptive_regime", "regime_gated", "delta_hedged",
           "delta_trend_stop", "hedged_wide">>

LEMMA Twelve ==
    \A k \in 1..12 : \/ k = 1 \/ k = 2 \/ k = 3 \/ k = 4 \/ k = 5 \/ k = 6
                     \/ k = 7 \/ k = 8 \/ k = 9 \/ k = 10 \/ k = 11 \/ k = 12
OBVIOUS

LEMMA NamesDiffer == \A j, k \in 1..12 : Names[j] = Names[k] => j = k
<1>1. ASSUME NEW j \in 1..12, NEW k \in 1..12, Names[j] = Names[k], j < k PROVE FALSE
  BY <1>1, Twelve DEF Names
<1>. QED  BY <1>1

\* The modes have the names in their order; only hedged_narrow depends on the fraction.
LEMMA BatteryFacts ==
    ASSUME NEW p, NEW f
    PROVE  /\ DOMAIN Battery(p, f) = 1..12
           /\ \A k \in 1..12 : Battery(p, f)[k].policy = Names[k]
           /\ Battery(p, f)[7].hedge = f
           /\ \A k \in 1..12 : k # 7 => Battery(p, f)[k].hedge = 0 /\ Battery(p, f)[k] = Battery(p, 0)[k]
<1>. DEFINE b == Battery(p, f)
            z == Battery(p, 0)
<1>1. DOMAIN b = 1..12
  BY DEF Battery
<1>2. /\ b[1].policy = "hold_50_50" /\ b[2].policy = "passive_wide" /\ b[3].policy = "narrow_static"
      /\ b[4].policy = "narrow_rebalance" /\ b[5].policy = "vol_scaled_rebalance"
      /\ b[6].policy = "hard_exit_stop" /\ b[7].policy = "hedged_narrow"
      /\ b[8].policy = "adaptive_regime" /\ b[9].policy = "regime_gated"
      /\ b[10].policy = "delta_hedged" /\ b[11].policy = "delta_trend_stop" /\ b[12].policy = "hedged_wide"
  BY DEF Battery
<1>3. /\ b[1] = z[1] /\ b[2] = z[2] /\ b[3] = z[3] /\ b[4] = z[4] /\ b[5] = z[5] /\ b[6] = z[6]
      /\ b[8] = z[8] /\ b[9] = z[9] /\ b[10] = z[10] /\ b[11] = z[11] /\ b[12] = z[12]
  BY DEF Battery
<1>4. /\ b[1].hedge = 0 /\ b[2].hedge = 0 /\ b[3].hedge = 0 /\ b[4].hedge = 0 /\ b[5].hedge = 0
      /\ b[6].hedge = 0 /\ b[7].hedge = f /\ b[8].hedge = 0 /\ b[9].hedge = 0 /\ b[10].hedge = 0
      /\ b[11].hedge = 0 /\ b[12].hedge = 0
  BY DEF Battery
<1>. HIDE DEF b, z
<1>5. \A k \in 1..12 : b[k].policy = Names[k]
  BY <1>2, Twelve DEF Names
<1>6. \A k \in 1..12 : k # 7 => b[k].hedge = 0 /\ b[k] = z[k]
  BY <1>3, <1>4, Twelve
<1>. QED  BY <1>1, <1>4, <1>5, <1>6 DEF b, z

\* The modes of a battery, by name.
LEMMA ModeFacts ==
    ASSUME NEW p, NEW f, NEW mode \in Range(Battery(p, f))
    PROVE  /\ mode.policy = "hedged_narrow" => mode = Battery(p, f)[7]
           /\ mode \in Range(Battery(p, mode.hedge))
           /\ \A other \in Range(Battery(p, f)) : other.policy = mode.policy => other = mode
<1>. DEFINE b == Battery(p, f)
<1>1. PICK k \in 1..12 : mode = b[k]
  BY BatteryFacts DEF Range
<1>. HIDE DEF b
<1>2. Names[7] = "hedged_narrow"
  BY DEF Names
<1>3. \A other \in Range(b) : other.policy = mode.policy => other = mode
  <2>1. TAKE other \in Range(b)
  <2>2. PICK j \in 1..12 : other = b[j]
    BY BatteryFacts DEF Range, b
  <2>3. HAVE other.policy = mode.policy
  <2>4. Names[j] = Names[k]
    BY <1>1, <2>2, <2>3, BatteryFacts, SMTT(60) DEF b
  <2>. QED  BY <1>1, <2>2, <2>4, NamesDiffer
<1>4. 7 \in 1..12
  OBVIOUS
<1>5. mode.policy = "hedged_narrow" => mode = b[7]
  <2>1. HAVE mode.policy = "hedged_narrow"
  <2>2. Names[k] = Names[7]
    BY <1>1, <1>2, <2>1, BatteryFacts DEF b
  <2>. QED  BY <1>1, <1>4, <2>2, NamesDiffer
<1>6. mode \in Range(Battery(p, mode.hedge))
  <2>1. CASE k = 7
    <3>1. mode.hedge = f
      BY <1>1, <2>1, BatteryFacts DEF b
    <3>. QED  BY <3>1
  <2>2. CASE k # 7
    <3>1. mode.hedge = 0 /\ mode = Battery(p, 0)[k]
      BY <1>1, <2>2, BatteryFacts DEF b
    <3>2. DOMAIN Battery(p, 0) = 1..12
      BY BatteryFacts
    <3>. QED  BY <3>1, <3>2 DEF Range
  <2>. QED  BY <2>1, <2>2
<1>. QED  BY <1>3, <1>5, <1>6 DEF b

\* Every name is that of a mode.
LEMMA ModeNamed ==
    ASSUME NEW p, NEW f
    PROVE  /\ \A k \in 1..12 : \E mode \in Range(Battery(p, f)) : mode.policy = Names[k]
           /\ \A policy \in {"hold_50_50", "passive_wide", "narrow_rebalance", "delta_hedged", "hedged_wide"} :
                \E mode \in Range(Battery(p, f)) : mode.policy = policy
<1>1. \A k \in 1..12 : \E mode \in Range(Battery(p, f)) : mode.policy = Names[k]
  BY BatteryFacts, SMTT(60) DEF Range
<1>2. /\ Names[1] = "hold_50_50" /\ Names[2] = "passive_wide" /\ Names[4] = "narrow_rebalance"
      /\ Names[10] = "delta_hedged" /\ Names[12] = "hedged_wide"
      /\ 1 \in 1..12 /\ 2 \in 1..12 /\ 4 \in 1..12 /\ 10 \in 1..12 /\ 12 \in 1..12
  BY DEF Names
<1>. QED  BY <1>1, <1>2

-----------------------------------------------------------------------------
\* The row of a window in a mode, for windows of a configuration.
RowAt(config, n, mode) ==
    WindowRow(Window(stream, n * config.step, config.size), n * config.step, n, mode)

\* The label of a window.
Label(config, n) == Regime(Window(stream, n * config.step, config.size))

LEMMA RegimeTyped ==
    ASSUME NEW w
    PROVE  Regime(w) \in Regimes
<1>1. \/ Regime(w) = "trend_up_risk" \/ Regime(w) = "trend_down_money"
      \/ Regime(w) = "volatile_range" \/ Regime(w) = "range"
  BY ZenonT(60) DEF Regime
<1>. QED  BY <1>1 DEF Regimes

LEMMA RowAtFields ==
    ASSUME NEW config, NEW n, NEW mode
    PROVE  LET r == RowAt(config, n, mode)
               w == Window(stream, n * config.step, config.size)
           IN  /\ r = [w |-> n, start |-> n * config.step, policy |-> mode.policy, hedge |-> mode.hedge,
                       regime |-> Label(config, n), pnl |-> Replay(w, mode).pnl,
                       vsHold |-> Replay(w, mode).pnl - Replay(w, Battery(job.params, 0)[1]).pnl,
                       apr |-> Apr(Replay(w, mode).pnl, w), dd |-> Replay(w, mode).dd,
                       rebalances |-> Replay(w, mode).rebalances]
               /\ r.w = n /\ r.start = n * config.step /\ r.policy = mode.policy /\ r.hedge = mode.hedge
               /\ r.regime = Label(config, n) /\ r.regime \in Regimes
               /\ r.pnl = Replay(w, mode).pnl /\ r.apr = Apr(r.pnl, w)
BY RegimeTyped DEF RowAt, WindowRow, Label

-----------------------------------------------------------------------------
(***************************************************************************)
(* Windows that fit, and complete sets of rows.                             *)
(***************************************************************************)
IsConfig(config) == config.size \in Nat /\ config.step \in Nat /\ config.min \in Nat /\ Positive(config)

Fitting(config) == {n \in 0..Len(stream) : n * config.step + config.size <= Len(stream)}

Modes(F) == IF SeveralHedges THEN {Battery(job.params, f)[7] : f \in F}
            ELSE UNION {Range(Battery(job.params, f)) : f \in F}

\* A row for every window that fits and every mode, and no others.
Complete(rs, config) ==
    /\ IsSeq(rs) /\ IsConfig(config) /\ config.size <= Len(stream)
    /\ \A r : r \in Range(rs) <=> \E n \in Fitting(config), mode \in Modes(Fractions) : r = RowAt(config, n, mode)

\* The grid alone takes a window or a step of zero; its other jobs are like everyone's.
Regular(j) == j.command = "grid" => Positive(j.configs[1])

\* The inputs of an accepted command.
Accepted == stream \in Seq(Swap) /\ job \in Jobs /\ Regular(job) /\ ~Refused /\ job.command # "swaps"

LEMMA FittingFacts ==
    ASSUME stream \in Seq(Swap), NEW config, IsConfig(config)
    PROVE  /\ \A n : n \in Fitting(config) <=> n \in Nat /\ n * config.step + config.size <= Len(stream)
           /\ \A n \in Fitting(config), k \in Nat : k <= n => k \in Fitting(config)
           /\ config.size <= Len(stream) => \E m \in Nat : Fitting(config) = 0..m
<1>. DEFINE l == Len(stream)
            d == config.step
            z == config.size
<1>1. l \in Nat /\ d \in Nat /\ z \in Nat /\ z > 0 /\ d > 0
  BY DEF IsConfig, Positive
<1>2. \A n : n \in Fitting(config) <=> n \in 0..l /\ n * d + z <= l
  BY DEF Fitting
<1>. HIDE DEF l, d, z
<1>3. ASSUME NEW n \in Nat, n * d + z <= l PROVE n \in 0..l
  <2>. DEFINE x == n * d
  <2>1. x \in Int /\ n <= x
    BY <1>1
  <2>2. x + z <= l
    BY <1>3
  <2>. HIDE DEF x
  <2>. QED  BY <1>1, <2>1, <2>2
<1>4. \A n : n \in Fitting(config) <=> n \in Nat /\ n * d + z <= l
  BY <1>1, <1>2, <1>3, SMTT(60)
<1>5. ASSUME NEW n \in Fitting(config), NEW k \in Nat, k <= n PROVE k \in Fitting(config)
  <2>. DEFINE x == n * d
              y == k * d
  <2>1. n \in Nat /\ x + z <= l
    BY <1>4
  <2>2. x \in Int /\ y \in Int /\ y <= x
    BY <1>1, <1>5, <2>1, MulMono
  <2>3. y + z <= l
    <3>. HIDE DEF x, y
    <3>. QED  BY <1>1, <2>1, <2>2
  <2>. QED  BY <1>4, <2>3
<1>6. z <= l => \E m \in Nat : Fitting(config) = 0..m
  <2>1. HAVE z <= l
  <2>. DEFINE F == Fitting(config)
  <2>2. 0 \in F
    BY <1>1, <1>4, <2>1
  <2>3. F \subseteq Int /\ F \subseteq 0..l /\ IsFiniteSet(F)
    <3>1. F \subseteq 0..l /\ 0..l \subseteq Int
      BY <1>1, <1>2
    <3>2. IsFiniteSet(0..l)
      BY <1>1, FS_Interval
    <3>. HIDE DEF F
    <3>. QED  BY <3>1, <3>2, FS_Subset
  <2>4. PICK m \in F : \A y \in F : y <= m
    <3>. HIDE DEF F
    <3>. QED  BY <2>2, <2>3, HasBounds
  <2>5. m \in Nat
    BY <1>4
  <2>6. \A k \in Nat : k <= m => k \in F
    BY <1>5
  <2>7. \A k \in F : k \in Nat
    BY <1>4
  <2>. HIDE DEF F
  <2>8. \A k : k \in F <=> k \in 0..m
    <3>1. \A k \in F : k \in Nat /\ k <= m
      BY <2>4, <2>7
    <3>2. \A k \in 0..m : k \in F
      BY <2>5, <2>6
    <3>3. \A k \in Nat : k <= m => k \in 0..m
      BY <2>5
    <3>. QED  BY <3>1, <3>2, <3>3, Zenon
  <2>9. F = 0..m
    BY <2>8
  <2>. QED  BY <2>5, <2>9 DEF F
<1>. QED  BY <1>4, <1>5, <1>6 DEF l, d, z

LEMMA JobFacts ==
    ASSUME job \in Jobs
    PROVE  /\ RuleValues # {} /\ IsFiniteSet(RuleValues) /\ \A g \in Regimes : job.rule[g] \in RuleValues
           /\ job.hedges \subseteq Int /\ IsFiniteSet(job.hedges) /\ job.params.hedge \in Int
           /\ ~(Gate /\ job.policy = "lagged_policy_switch") => RuleValues \subseteq Int
           /\ Gate /\ job.policy = "lagged_policy_switch" => RuleValues \subseteq SwitchPolicies
<1>1. /\ job.hedges \subseteq Int /\ IsFiniteSet(job.hedges) /\ job.params.hedge \in Int
      /\ job.rule \in [Regimes -> IF Gate /\ job.policy = "lagged_policy_switch" THEN SwitchPolicies ELSE Int]
  BY JobAssumption DEF Gate
<1>2. IsFiniteSet(RuleValues)
  <2>. DEFINE f == <<job.rule["range"], job.rule["volatile_range"],
                     job.rule["trend_up_risk"], job.rule["trend_down_money"]>>
              V == RuleValues
  <2>1. \A v \in V : \E j \in 1..4 : v = f[j]
    BY DEF RuleValues, Regimes
  <2>. HIDE DEF f, V
  <2>2. IsFiniteSet(V)
    <3>1. 4 \in Nat
      OBVIOUS
    <3>. QED  BY <2>1, <3>1, FiniteValues, SMTT(60)
  <2>. QED  BY <2>2 DEF V
<1>3. "range" \in Regimes
  BY DEF Regimes
<1>. QED  BY <1>1, <1>2, <1>3 DEF RuleValues

LEMMA FractionsFacts ==
    ASSUME job \in Jobs, ~Refused
    PROVE  /\ Fractions \subseteq Int /\ IsFiniteSet(Fractions) /\ Fractions # {}
           /\ Gate /\ job.policy = "lagged_regime_rule" => RuleValues \subseteq Fractions
<1>1. CASE Gate /\ job.policy = "lagged_regime_rule"
  BY <1>1, JobFacts, FS_Union DEF Fractions
<1>2. CASE ~(Gate /\ job.policy = "lagged_regime_rule") /\ job.command = "grid"
  BY <1>2, JobFacts DEF Fractions, Refused
<1>3. CASE ~(Gate /\ job.policy = "lagged_regime_rule") /\ job.command # "grid"
  BY <1>3, JobFacts, FS_Singleton DEF Fractions
<1>. QED  BY <1>1, <1>2, <1>3

LEMMA ConfigFacts ==
    ASSUME job \in Jobs, Regular(job), ~Refused, job.command # "swaps", NEW k \in 1..Len(Configs)
    PROVE  IsConfig(Configs[k]) /\ Len(Configs) \in Nat
<1>1. /\ job.command \in {"swaps", "windows", "grid", "gate"}
      /\ job.configs \in Seq([size : Nat, step : Nat, min : Nat])
      /\ job.command \in {"windows", "grid"} => Len(job.configs) = 1
  BY JobAssumption
<1>2. Configs \in Seq([size : Nat, step : Nat, min : Nat])
  <2>1. DefaultConfigs \in Seq([size : Nat, step : Nat, min : Nat])
    BY DEF DefaultConfigs
  <2>. QED  BY <1>1, <2>1 DEF Configs
<1>3. Len(Configs) \in Nat /\ Configs[k] \in [size : Nat, step : Nat, min : Nat]
  <2>. DEFINE C == [size : Nat, step : Nat, min : Nat]
  <2>1. Configs \in Seq(C)
    BY <1>2
  <2>. HIDE DEF C
  <2>2. Len(Configs) \in Nat /\ Configs[k] \in C
    BY <2>1
  <2>. QED  BY <2>2 DEF C
<1>4. Configs[k].size \in Nat /\ Configs[k].step \in Nat /\ Configs[k].min \in Nat
  BY <1>3
<1>5. Positive(Configs[k])
  <2>1. CASE Gate
    BY <1>2, <2>1 DEF Refused
  <2>2. CASE ~Gate
    <3>1. Configs = job.configs /\ Len(Configs) = 1 /\ job.command \in {"windows", "grid"}
      BY <1>1, <2>2 DEF Configs, Gate
    <3>2. k = 1
      BY <3>1
    <3>. QED  BY <1>1, <3>1, <3>2 DEF Refused, Regular
  <2>. QED  BY <2>1, <2>2
<1>. QED  BY <1>3, <1>4, <1>5 DEF IsConfig

\* The windows of a complete set of rows are those that fit.
LEMMA CompleteWindows ==
    ASSUME Accepted, NEW rs, NEW config, Complete(rs, config)
    PROVE  /\ \A w : w \in Windows(rs) <=> w \in Fitting(config)
           /\ \E m \in Nat : Windows(rs) = 0..m /\ Fitting(config) = 0..m
           /\ Modes(Fractions) # {}
<1>1. \A r : r \in Range(rs) <=> \E n \in Fitting(config), mode \in Modes(Fractions) : r = RowAt(config, n, mode)
  BY DEF Complete
<1>2. Modes(Fractions) # {}
  <2>1. PICK f \in Fractions : TRUE
    BY FractionsFacts DEF Accepted
  <2>2. Battery(job.params, f)[7] \in Range(Battery(job.params, f))
    <3>1. 7 \in DOMAIN Battery(job.params, f)
      BY BatteryFacts
    <3>. QED  BY <3>1 DEF Range
  <2>. QED  BY <2>1, <2>2 DEF Modes
<1>3. \A w : w \in Windows(rs) <=> \E r \in Range(rs) : r.w = w
  BY DEF Windows, Range
<1>4. \A w : w \in Windows(rs) <=> w \in Fitting(config)
  BY <1>1, <1>2, <1>3, RowAtFields
<1>5. PICK m \in Nat : Fitting(config) = 0..m
  BY FittingFacts DEF Complete, Accepted
<1>6. Windows(rs) = Fitting(config)
  BY <1>4
<1>. QED  BY <1>2, <1>4, <1>5, <1>6

\* The label a lagged rule reads is that of the window before.
LEMMA PriorLabel ==
    ASSUME Accepted, NEW rs, NEW config, Complete(rs, config), NEW w \in Fitting(config), w > 0
    PROVE  /\ PriorRegime(rs, w) = Label(config, w - 1)
           /\ Choice(rs, w) = job.rule[Label(config, w - 1)] /\ Choice(rs, w) \in RuleValues
<1>. DEFINE C(j) == rs[j].w + 1 = w
            k == CHOOSE j \in DOMAIN rs : C(j)
<1>1. \A r : r \in Range(rs) <=> \E n \in Fitting(config), mode \in Modes(Fractions) : r = RowAt(config, n, mode)
  BY DEF Complete
<1>2. w \in Nat /\ w - 1 \in Fitting(config) /\ \A n \in Fitting(config) : n \in Nat
  <2>1. IsConfig(config) /\ stream \in Seq(Swap)
    BY DEF Complete, Accepted
  <2>2. w \in Nat /\ w - 1 \in Nat /\ w - 1 <= w
    BY <2>1, FittingFacts
  <2>. QED  BY <2>1, <2>2, FittingFacts
<1>3. \E j \in DOMAIN rs : C(j)
  <2>1. PICK mode \in Modes(Fractions) : TRUE
    BY CompleteWindows
  <2>2. RowAt(config, w - 1, mode) \in Range(rs) /\ RowAt(config, w - 1, mode).w + 1 = w
    BY <1>1, <1>2, RowAtFields
  <2>. QED  BY <2>2 DEF Range
<1>4. PriorRegime(rs, w) = rs[k].regime
  BY Zenon DEF PriorRegime
<1>5. k \in DOMAIN rs /\ rs[k].w + 1 = w
  <2>1. k \in DOMAIN rs /\ C(k)
    <3>. HIDE DEF C
    <3>. QED  BY <1>3
  <2>. QED  BY <2>1
<1>. HIDE DEF k
<1>6. rs[k] \in Range(rs)
  BY <1>5 DEF Range
<1>7. PICK n \in Fitting(config), mode \in Modes(Fractions) : rs[k] = RowAt(config, n, mode)
  BY <1>1, <1>6
<1>8. n = w - 1
  <2>1. rs[k].w = n
    BY <1>7, RowAtFields
  <2>. QED  BY <1>2, <1>5, <2>1
<1>9. rs[k].regime = Label(config, w - 1) /\ Label(config, w - 1) \in Regimes
  BY <1>7, <1>8, RowAtFields
<1>10. Choice(rs, w) = job.rule[Label(config, w - 1)] /\ Choice(rs, w) \in RuleValues
  BY <1>4, <1>9 DEF Choice, RuleValues
<1>. QED  BY <1>4, <1>9, <1>10

-----------------------------------------------------------------------------
(***************************************************************************)
(* What the lagged rules select.                                            *)
(***************************************************************************)
\* The fraction nearest to a rule's is the rule's own when it was replayed.
LEMMA NearestRow ==
    ASSUME Accepted, SeveralHedges, NEW rs, NEW config, Complete(rs, config),
           NEW w \in Fitting(config), NEW target \in Int
    PROVE  \E f \in Fractions : /\ NearestHedge(rs, w, target) = RowAt(config, w, Battery(job.params, f)[7])
                                /\ target \in Fractions => f = target
<1>. DEFINE of == {j \in DOMAIN rs : rs[j].w = w}
            away(j) == L!Distance(rs[j].hedge, target)
            Least(j) == \A i \in of : away(j) < away(i) \/ (away(j) = away(i) /\ j <= i)
            k == CHOOSE j \in of : Least(j)
            Mode(f) == Battery(job.params, f)[7]
<1>1. /\ DOMAIN rs = 1..Len(rs) /\ Len(rs) \in Nat
      /\ \A r : r \in Range(rs) <=> \E n \in Fitting(config), f \in Fractions : r = RowAt(config, n, Mode(f))
  BY DEF Complete, IsSeq, Modes
<1>2. Fractions \subseteq Int /\ Fractions # {}
  BY FractionsFacts DEF Accepted
<1>3. \A f : Mode(f).hedge = f
  BY BatteryFacts
<1>. HIDE DEF Mode
<1>4. ASSUME NEW f \in Fractions PROVE \E j \in of : rs[j] = RowAt(config, w, Mode(f))
  <2>1. RowAt(config, w, Mode(f)) \in Range(rs) /\ RowAt(config, w, Mode(f)).w = w
    BY <1>1, RowAtFields
  <2>. QED  BY <2>1 DEF Range
<1>5. ASSUME NEW j \in of
      PROVE  j \in Nat /\ away(j) \in Nat /\ \E f \in Fractions : rs[j] = RowAt(config, w, Mode(f)) /\ rs[j].hedge = f
  <2>1. rs[j] \in Range(rs) /\ rs[j].w = w /\ j \in Nat
    BY <1>1 DEF Range
  <2>2. PICK n \in Fitting(config), f \in Fractions : rs[j] = RowAt(config, n, Mode(f))
    BY <1>1, <2>1
  <2>3. n = w /\ rs[j].hedge = f
    BY <1>3, <2>1, <2>2, RowAtFields
  <2>4. away(j) \in Nat
    BY <1>2, <2>3, DistanceFacts
  <2>. QED  BY <2>1, <2>2, <2>3, <2>4
<1>6. NearestHedge(rs, w, target) = rs[k]
  BY Zenon DEF NearestHedge
<1>7. \E j \in of : Least(j)
  <2>. DEFINE A == {away(j) : j \in of}
  <2>1. A \subseteq Nat /\ A # {}
    BY <1>2, <1>4, <1>5, ZenonT(60)
  <2>2. PICK a \in A : \A b \in A : a <= b
    <3>. HIDE DEF A
    <3>. QED  BY <2>1, HasLeast
  <2>. DEFINE T == {j \in of : away(j) = a}
  <2>3. T \subseteq Nat /\ T # {}
    BY <1>5
  <2>4. PICK j \in T : \A i \in T : j <= i
    <3>. HIDE DEF T
    <3>. QED  BY <2>3, HasLeast
  <2>5. ASSUME NEW i \in of PROVE away(j) < away(i) \/ (away(j) = away(i) /\ j <= i)
    <3>1. away(j) = a /\ away(i) \in A /\ away(i) \in Nat /\ a \in Nat /\ j \in of
      BY <1>5, <2>1
    <3>2. a <= away(i)
      BY <2>2, <3>1
    <3>3. away(i) = a => j <= i
      BY <2>4
    <3>. HIDE DEF away, of, A
    <3>. QED  BY <3>1, <3>2, <3>3
  <2>. QED  BY <2>5
<1>8. k \in of /\ Least(k)
  <2>. HIDE DEF Least, of
  <2>. QED  BY <1>7
<1>. HIDE DEF k
<1>9. PICK f \in Fractions : rs[k] = RowAt(config, w, Mode(f)) /\ rs[k].hedge = f
  BY <1>5, <1>8
<1>10. target \in Fractions => f = target
  <2>1. HAVE target \in Fractions
  <2>2. PICK i \in of : rs[i] = RowAt(config, w, Mode(target))
    BY <1>4, <2>1
  <2>3. rs[i].hedge = target
    BY <1>3, <2>2, RowAtFields
  <2>4. away(i) = 0
    BY <2>3, DistanceFacts
  <2>5. away(k) = 0
    BY <1>5, <1>8, <2>4
  <2>. QED  BY <1>2, <1>9, <2>5, DistanceFacts
<1>. QED  BY <1>6, <1>9, <1>10 DEF Mode

\* One row of a window is that of a policy.
LEMMA NamedRow ==
    ASSUME Accepted, ~SeveralHedges, NEW rs, NEW config, Complete(rs, config),
           NEW w \in Fitting(config),
           NEW policy \in {"hold_50_50", "passive_wide", "narrow_rebalance", "delta_hedged", "hedged_wide"}
    PROVE  \E mode \in Modes(Fractions) : mode.policy = policy /\ RowOf(rs, w, policy) = RowAt(config, w, mode)
<1>. DEFINE C(j) == rs[j].w = w /\ rs[j].policy = policy
            k == CHOOSE j \in DOMAIN rs : C(j)
<1>1. /\ \A r : r \in Range(rs) <=> \E n \in Fitting(config), mode \in Modes(Fractions) : r = RowAt(config, n, mode)
      /\ Modes(Fractions) = UNION {Range(Battery(job.params, f)) : f \in Fractions}
  BY DEF Complete, Modes
<1>2. PICK f \in Fractions : TRUE
  BY FractionsFacts DEF Accepted
<1>3. PICK m0 \in Range(Battery(job.params, f)) : m0.policy = policy
  BY ModeNamed
<1>4. m0 \in Modes(Fractions)
  BY <1>1
<1>5. \E j \in DOMAIN rs : C(j)
  <2>1. RowAt(config, w, m0) \in Range(rs) /\ RowAt(config, w, m0).w = w /\ RowAt(config, w, m0).policy = policy
    BY <1>1, <1>3, <1>4, RowAtFields
  <2>. QED  BY <2>1 DEF Range
<1>6. RowOf(rs, w, policy) = rs[k]
  BY Zenon DEF RowOf
<1>7. k \in DOMAIN rs /\ rs[k].w = w /\ rs[k].policy = policy
  <2>1. k \in DOMAIN rs /\ C(k)
    <3>. HIDE DEF C
    <3>. QED  BY <1>5
  <2>. QED  BY <2>1
<1>. HIDE DEF k
<1>8. rs[k] \in Range(rs)
  BY <1>7 DEF Range
<1>9. PICK n \in Fitting(config), mode \in Modes(Fractions) : rs[k] = RowAt(config, n, mode)
  BY <1>1, <1>8
<1>10. n = w /\ mode.policy = policy
  BY <1>7, <1>9, RowAtFields
<1>. QED  BY <1>6, <1>9, <1>10

\* A lagged policy selects one row of every window but the first.
LEMMA LaggedShape ==
    ASSUME Accepted, NEW rs, NEW config, Complete(rs, config), NEW policy \in Lagged
    PROVE  /\ IsSeq(Selected(policy, rs))
           /\ \A j \in DOMAIN Selected(policy, rs) :
                /\ j \in Fitting(config) /\ j \in Nat /\ j > 0
                /\ Selected(policy, rs)[j] = LaggedRow(policy, rs, j)
<1>1. PICK m \in Nat : Windows(rs) = 0..m /\ Fitting(config) = 0..m
  BY CompleteWindows
<1>. DEFINE row == [w \in 1..m |-> LaggedRow(policy, rs, w)]
            p == Selected(policy, rs)
            a == Ascending(1..m)
<1>2. {w \in Windows(rs) : w > 0} = 1..m
  BY <1>1
<1>3. p = [j \in 1..Cardinality(1..m) |-> row[a[j]]]
  <2>. HIDE DEF a
  <2>1. p = LET decided == {w \in Windows(rs) : w > 0}
                q == [w \in decided |-> LaggedRow(policy, rs, w)]
            IN  [j \in 1..Cardinality(decided) |-> q[Ascending(decided)[j]]]
    BY Zenon DEF Selected
  <2>. QED  BY <1>2, <2>1, Zenon DEF a
<1>4. Cardinality(1..m) = m /\ \A j \in 1..m : a[j] = j
  BY AscendingInterval
<1>. HIDE DEF p, a
<1>5. p \in [1..m -> Range(p)] /\ \A j \in 1..m : p[j] = LaggedRow(policy, rs, j)
  <2>1. DOMAIN p = 1..m
    BY <1>3, <1>4
  <2>2. \A j \in 1..m : p[j] = row[j]
    BY <1>3, <1>4
  <2>. HIDE DEF row
  <2>3. p = [j \in 1..m |-> p[j]]
    BY <1>3, <1>4, <2>1
  <2>. QED  BY <2>1, <2>2, <2>3 DEF row, Range
<1>6. p \in Seq(Range(p)) /\ Len(p) = m /\ DOMAIN p = 1..m
  BY <1>5
<1>. QED  BY <1>1, <1>5, <1>6 DEF p, IsSeq

\* The rule of a blend that got past OpenConfig.
BlendAccepted == Gate /\ job.policy = "lagged_policy_blend" => RuleValues \subseteq 0..100

LEMMA HedgeRow ==
    ASSUME Accepted, Gate, job.policy = "lagged_regime_rule", NEW rs, NEW config, Complete(rs, config),
           NEW w \in Fitting(config), w > 0
    PROVE  /\ Choice(rs, w) \in RuleValues /\ Choice(rs, w) \in Fractions
           /\ LaggedRow(job.policy, rs, w) = RowAt(config, w, Battery(job.params, Choice(rs, w))[7])
           /\ Battery(job.params, Choice(rs, w))[7] \in Modes(Fractions)
<1>1. SeveralHedges
  BY DEF SeveralHedges
<1>2. Choice(rs, w) \in RuleValues /\ Choice(rs, w) \in Fractions /\ Choice(rs, w) \in Int
  BY PriorLabel, FractionsFacts DEF Accepted
<1>3. LaggedRow(job.policy, rs, w) = NearestHedge(rs, w, Choice(rs, w))
  BY Zenon DEF LaggedRow
<1>4. PICK f \in Fractions : /\ NearestHedge(rs, w, Choice(rs, w)) = RowAt(config, w, Battery(job.params, f)[7])
                             /\ Choice(rs, w) \in Fractions => f = Choice(rs, w)
  BY <1>1, <1>2, NearestRow
<1>. QED  BY <1>1, <1>2, <1>3, <1>4 DEF Modes

LEMMA SwitchRow ==
    ASSUME Accepted, Gate, job.policy = "lagged_policy_switch", NEW rs, NEW config, Complete(rs, config),
           NEW w \in Fitting(config), w > 0
    PROVE  \E mode \in Modes(Fractions) :
             \/ LaggedRow(job.policy, rs, w) = RowAt(config, w, mode) /\ mode.policy = Choice(rs, w)
             \/ LaggedRow(job.policy, rs, w) = CashRow(RowAt(config, w, mode)) /\ Choice(rs, w) = "stand_down_cash"
<1>1. ~SeveralHedges
  BY DEF SeveralHedges, Gate
<1>2. Choice(rs, w) \in SwitchPolicies
  BY PriorLabel, JobFacts DEF Accepted
<1>3. LaggedRow(job.policy, rs, w) = IF Choice(rs, w) = "stand_down_cash" THEN CashRow(RowOf(rs, w, "hold_50_50"))
                                     ELSE RowOf(rs, w, Choice(rs, w))
  BY Zenon DEF LaggedRow
<1>4. CASE Choice(rs, w) = "stand_down_cash"
  <2>1. \E mode \in Modes(Fractions) : mode.policy = "hold_50_50" /\ RowOf(rs, w, "hold_50_50") = RowAt(config, w, mode)
    BY <1>1, NamedRow
  <2>. QED  BY <1>3, <1>4, <2>1
<1>5. CASE Choice(rs, w) # "stand_down_cash"
  <2>1. Choice(rs, w) \in {"hold_50_50", "passive_wide", "narrow_rebalance", "delta_hedged", "hedged_wide"}
    BY <1>2, <1>5 DEF SwitchPolicies
  <2>2. \E mode \in Modes(Fractions) : mode.policy = Choice(rs, w) /\ RowOf(rs, w, Choice(rs, w)) = RowAt(config, w, mode)
    BY <1>1, <2>1, NamedRow
  <2>. QED  BY <1>3, <1>5, <2>2
<1>. QED  BY <1>4, <1>5

LEMMA MixedRow ==
    ASSUME Accepted, BlendAccepted, Gate, job.policy = "lagged_policy_blend", NEW rs, NEW config,
           Complete(rs, config), NEW w \in Fitting(config), w > 0
    PROVE  /\ Choice(rs, w) \in 0..100
           /\ \E d, h \in Modes(Fractions) :
                LaggedRow(job.policy, rs, w) = BlendRow(Choice(rs, w), RowAt(config, w, d), RowAt(config, w, h))
<1>1. ~SeveralHedges
  BY DEF SeveralHedges, Gate
<1>2. Choice(rs, w) \in 0..100
  BY PriorLabel DEF BlendAccepted
<1>3. LaggedRow(job.policy, rs, w)
        = BlendRow(Choice(rs, w), RowOf(rs, w, "delta_hedged"), RowOf(rs, w, "hedged_wide"))
  BY Zenon DEF LaggedRow
<1>4. PICK d \in Modes(Fractions) : RowOf(rs, w, "delta_hedged") = RowAt(config, w, d)
  BY <1>1, NamedRow
<1>5. PICK h \in Modes(Fractions) : RowOf(rs, w, "hedged_wide") = RowAt(config, w, h)
  BY <1>1, NamedRow
<1>. QED  BY <1>2, <1>3, <1>4, <1>5

\* A row of a policy that holds a position is a replayed row.
Replayed(r, config) == \E n \in Fitting(config), mode \in Modes(Fractions) : r = RowAt(config, n, mode)

Positions == {"hedged_narrow", "delta_hedged", "hedged_wide", "delta_trend_stop"}

LEMMA OtherPolicies ==
    ASSUME NEW config, NEW n, NEW d, NEW h, NEW x
    PROVE  /\ CashRow(RowAt(config, n, d)).policy = "stand_down_cash"
           /\ BlendRow(x, RowAt(config, n, d), RowAt(config, n, h)).policy = "lagged_policy_blend"
BY RowAtFields DEF CashRow, BlendRow

\* What the gate selects of a complete set of rows.
LEMMA SelectedRows ==
    ASSUME Accepted, BlendAccepted, Gate, NEW rs, NEW config, Complete(rs, config)
    PROVE  /\ IsSeq(Selected(job.policy, rs))
           /\ \A j \in DOMAIN Selected(job.policy, rs) :
                Selected(job.policy, rs)[j].policy \in Positions => Replayed(Selected(job.policy, rs)[j], config)
<1>. DEFINE p == Selected(job.policy, rs)
<1>1. /\ IsSeq(rs)
      /\ \A r : r \in Range(rs) <=> \E n \in Fitting(config), mode \in Modes(Fractions) : r = RowAt(config, n, mode)
  BY DEF Complete
<1>2. CASE job.policy \notin Lagged
  <2>1. p = Pick(rs, {j \in DOMAIN rs : rs[j].policy = job.policy})
    BY <1>2, Zenon DEF Selected, Of
  <2>. HIDE DEF p
  <2>2. IsSeq(p) /\ \A r \in Range(p) : r \in Range(rs)
    BY <1>1, <2>1, PickRange DEF Range
  <2>3. \A j \in DOMAIN p : p[j] \in Range(rs)
    BY <2>2 DEF Range
  <2>. QED  BY <1>1, <2>2, <2>3 DEF p, Replayed
<1>3. CASE job.policy \in Lagged
  <2>1. /\ IsSeq(p)
        /\ \A j \in DOMAIN p : j \in Fitting(config) /\ j \in Nat /\ j > 0 /\ p[j] = LaggedRow(job.policy, rs, j)
    BY <1>3, LaggedShape
  <2>2. ASSUME NEW j \in DOMAIN p, p[j].policy \in Positions PROVE Replayed(p[j], config)
    <3>1. CASE job.policy = "lagged_regime_rule"
      BY <2>1, <3>1, HedgeRow DEF Replayed
    <3>2. CASE job.policy = "lagged_policy_switch"
      <4>. DEFINE row == LaggedRow(job.policy, rs, j)
                  choice == Choice(rs, j)
      <4>1. \E mode \in Modes(Fractions) :
              \/ row = RowAt(config, j, mode) /\ mode.policy = choice
              \/ row = CashRow(RowAt(config, j, mode)) /\ choice = "stand_down_cash"
        BY <2>1, <3>2, SwitchRow
      <4>2. p[j] = row
        BY <2>1
      <4>. HIDE DEF row, choice, p
      <4>. QED  BY <2>1, <2>2, <4>1, <4>2, OtherPolicies, ZenonT(60) DEF Replayed, Positions
    <3>3. CASE job.policy = "lagged_policy_blend"
      <4>. DEFINE row == LaggedRow(job.policy, rs, j)
                  choice == Choice(rs, j)
      <4>1. \E d, h \in Modes(Fractions) : row = BlendRow(choice, RowAt(config, j, d), RowAt(config, j, h))
        BY <2>1, <3>3, MixedRow
      <4>2. p[j] = row
        BY <2>1
      <4>. HIDE DEF row, choice, p
      <4>3. p[j].policy = "lagged_policy_blend"
        BY <4>1, <4>2, OtherPolicies
      <4>. QED  BY <2>2, <4>3 DEF Positions
    <3>. QED  BY <1>3, <3>1, <3>2, <3>3 DEF Lagged
  <2>. QED  BY <2>1, <2>2 DEF p
<1>. QED  BY <1>2, <1>3 DEF p

\* A lagged rule selects, for every window after the first, what it chooses by the label of
\* the window before.
LEMMA SelectedChoice ==
    ASSUME Accepted, Choosing, NEW rs, NEW config, Complete(rs, config),
           NEW j \in DOMAIN Selected(job.policy, rs)
    PROVE  /\ j \in Fitting(config) /\ j \in Nat /\ j > 0
           /\ Selected(job.policy, rs)[j].w = j
           /\ Selected(job.policy, rs)[j].start = j * config.step
           /\ Chosen(Selected(job.policy, rs)[j]) = job.rule[Label(config, j - 1)]
           /\ job.policy = "lagged_regime_rule" => Selected(job.policy, rs)[j].hedge \in RuleValues
<1>. DEFINE p == Selected(job.policy, rs)
            choice == Choice(rs, j)
<1>1. Gate /\ job.policy \in Lagged /\ (job.policy = "lagged_regime_rule" \/ job.policy = "lagged_policy_switch")
  BY DEF Choosing, Lagged
<1>2. j \in Fitting(config) /\ j \in Nat /\ j > 0 /\ p[j] = LaggedRow(job.policy, rs, j)
  BY <1>1, LaggedShape
<1>3. choice = job.rule[Label(config, j - 1)]
  BY <1>2, PriorLabel
<1>4. CASE job.policy = "lagged_regime_rule"
  <2>. DEFINE mode == Battery(job.params, choice)[7]
  <2>1. choice \in RuleValues /\ p[j] = RowAt(config, j, mode)
    BY <1>1, <1>2, <1>4, HedgeRow
  <2>2. mode.hedge = choice
    BY BatteryFacts
  <2>. HIDE DEF mode, choice, p
  <2>3. p[j].w = j /\ p[j].start = j * config.step /\ p[j].hedge = choice
    BY <2>1, <2>2, RowAtFields
  <2>4. Chosen(p[j]) = p[j].hedge
    BY <1>4, Zenon DEF Chosen
  <2>. QED  BY <1>2, <1>3, <2>1, <2>3, <2>4 DEF p
<1>5. CASE job.policy = "lagged_policy_switch"
  <2>1. PICK mode \in Modes(Fractions) :
          \/ p[j] = RowAt(config, j, mode) /\ mode.policy = choice
          \/ p[j] = CashRow(RowAt(config, j, mode)) /\ choice = "stand_down_cash"
    BY <1>1, <1>2, <1>5, SwitchRow
  <2>. HIDE DEF choice, p
  <2>2. p[j].w = j /\ p[j].start = j * config.step /\ p[j].policy = choice
    <3>1. CASE p[j] = RowAt(config, j, mode) /\ mode.policy = choice
      BY <3>1, RowAtFields
    <3>2. CASE p[j] = CashRow(RowAt(config, j, mode)) /\ choice = "stand_down_cash"
      <4>. DEFINE r == RowAt(config, j, mode)
      <4>1. /\ r.w = j /\ r.start = j * config.step
            /\ DOMAIN r = {"w", "start", "policy", "hedge", "regime", "pnl", "vsHold", "apr", "dd", "rebalances"}
        BY RowAtFields
      <4>. HIDE DEF r
      <4>2. CashRow(r).w = j /\ CashRow(r).start = j * config.step
        BY <4>1 DEF CashRow
      <4>. QED  BY <3>2, <4>2, OtherPolicies DEF r
    <3>. QED  BY <2>1, <3>1, <3>2
  <2>3. Chosen(p[j]) = p[j].policy
    BY <1>5, Zenon DEF Chosen
  <2>. QED  BY <1>2, <1>3, <1>5, <2>2, <2>3 DEF p
<1>. QED  BY <1>1, <1>4, <1>5

-----------------------------------------------------------------------------
(***************************************************************************)
(* Two streams with the same past.                                          *)
(***************************************************************************)
LEMMA SamePieces ==
    ASSUME NEW S, NEW s \in Seq(S), NEW t \in Seq(S), NEW n \in Nat, n <= Len(s), SamePast(s, t, n),
           NEW a \in Nat, NEW b \in Nat, a + b <= n
    PROVE  Window(s, a, b) = Window(t, a, b)
<1>1. n <= Len(t) /\ Len(t) = Len(s)
  BY DEF SamePast
<1>2. ASSUME NEW i \in 1..n PROVE s[i] = t[i]
  <2>1. SubSeq(s, 1, n)[i] = s[i]
    OBVIOUS
  <2>2. SubSeq(t, 1, n)[i] = t[i]
    BY <1>1
  <2>. QED  BY <2>1, <2>2 DEF SamePast
<1>. DEFINE u == SubSeq(s, a + 1, a + b)
            v == SubSeq(t, a + 1, a + b)
<1>3. u \in Seq(S) /\ Len(u) = b /\ \A i \in 1..b : u[i] = s[i + a]
  BY SubSeqProperties
<1>4. v \in Seq(S) /\ Len(v) = b /\ \A i \in 1..b : v[i] = t[i + a]
  BY <1>1, SubSeqProperties
<1>5. \A i \in 1..b : i + a \in 1..n
  OBVIOUS
<1>. HIDE DEF u, v
<1>6. \A i \in 1..b : u[i] = v[i]
  BY <1>2, <1>3, <1>4, <1>5
<1>7. u = v
  BY <1>3, <1>4, <1>6, SeqEqual
<1>. QED  BY <1>7 DEF Window, u, v

\* With windows apart, the label a choice reads is that of any stream with the same past.
LEMMA PastDecides ==
    ASSUME Accepted, NEW config, IsConfig(config), config.step >= config.size,
           NEW j \in Fitting(config), j > 0, NEW t \in Seq(Swap), SamePast(stream, t, j * config.step)
    PROVE  Choice(Labelled(t, config), j) = job.rule[Label(config, j - 1)]
<1>. DEFINE d == config.step
            z == config.size
            l == Len(stream)
            n == j * d
            a == (j - 1) * d
            N == (l - z) \div d + 1
            Q == Labelled(t, config)
            C(i) == Q[i].w + 1 = j
            k == CHOOSE i \in DOMAIN Q : C(i)
<1>1. j \in Nat /\ d \in Nat /\ z \in Nat /\ d > 0 /\ d >= z /\ l \in Nat /\ stream \in Seq(Swap) /\ Len(t) = l
  BY FittingFacts DEF IsConfig, Positive, Accepted, SamePast
<1>2. n + z <= l
  BY FittingFacts DEF IsConfig, Positive, Accepted
<1>3. n \in Nat /\ a \in Nat /\ n = a + d
  <2>1. j - 1 \in Nat
    BY <1>1
  <2>. HIDE DEF d
  <2>. QED  BY <1>1, <2>1
<1>4. j \in 1..N
  <2>1. l - z \in Nat /\ n <= l - z
    <3>. HIDE DEF n, l, z
    <3>. QED  BY <1>1, <1>2, <1>3, SMTT(60)
  <2>2. (l - z) \div d \in Nat /\ j <= (l - z) \div d
    <3>. DEFINE y == l - z
    <3>1. y \in Nat /\ j * d <= y
      BY <2>1
    <3>. HIDE DEF y, d
    <3>2. y \div d \in Nat /\ j <= y \div d
      BY <1>1, <3>1, DivBound
    <3>. QED  BY <3>2 DEF y
  <2>. HIDE DEF l, z, d
  <2>. QED  BY <1>1, <2>2
<1>5. Window(stream, a, z) = Window(t, a, z)
  <2>1. a + z <= n /\ n <= l
    <3>. HIDE DEF a, n, l, z, d
    <3>. QED  BY <1>1, <1>2, <1>3
  <2>2. SamePast(stream, t, n)
    OBVIOUS
  <2>. HIDE DEF a, n, z
  <2>. QED  BY <1>1, <1>3, <2>1, <2>2, SamePieces, SMTT(60)
<1>6. /\ DOMAIN Q = 1..N
      /\ \A i \in 1..N : Q[i].w = i - 1 /\ Q[i].regime = Regime(Window(t, (i - 1) * d, z))
  <2>1. Q = [i \in 1 .. (Len(t) - z) \div d + 1 |-> [w |-> i - 1, regime |-> Regime(Window(t, (i - 1) * d, z))]]
    BY Zenon DEF Labelled
  <2>. HIDE DEF Q, d, z
  <2>. QED  BY <1>1, <2>1
<1>. HIDE DEF Q
<1>7. \A i \in 1..N : C(i) <=> i = j
  <2>. HIDE DEF N
  <2>1. \A i \in 1..N : i \in Int
    BY DEF N
  <2>. QED  BY <1>1, <1>6, <2>1
<1>8. k = j
  <2>. HIDE DEF C, N
  <2>. QED  BY <1>4, <1>6, <1>7
<1>9. PriorRegime(Q, j) = Q[k].regime
  BY Zenon DEF PriorRegime
<1>10. Q[j].regime = Label(config, j - 1)
  <2>1. Q[j].regime = Regime(Window(t, a, z))
    BY <1>4, <1>6
  <2>. QED  BY <1>5, <2>1 DEF Label
<1>11. Choice(Q, j) = job.rule[Label(config, j - 1)]
  BY <1>8, <1>9, <1>10 DEF Choice
<1>. QED  BY <1>11 DEF Q

-----------------------------------------------------------------------------
(***************************************************************************)
(* The stream after loading.                                                *)
(***************************************************************************)
LEMMA InsertTyped ==
    ASSUME NEW s \in Seq(Swap), NEW o \in Swap
    PROVE  Insert(s, o) \in Seq(Swap)
<1>. DEFINE B == {j \in DOMAIN s : ~Earlier(o, s[j])}
            p == Cardinality(B)
            n == Len(s)
<1>1. n \in Nat /\ DOMAIN s = 1..n /\ \A j \in 1..n : s[j] \in Swap
  OBVIOUS
<1>2. p \in 0..n
  <2>1. B \subseteq 1..n
    BY <1>1
  <2>. HIDE DEF B, n
  <2>2. IsFiniteSet(1..n) /\ Cardinality(1..n) = n
    BY <1>1, FS_Interval
  <2>3. Cardinality(B) \in Nat /\ Cardinality(B) <= n
    BY <1>1, <2>1, <2>2, SubsetCount
  <2>. QED  BY <2>3
<1>3. Insert(s, o) = SubSeq(s, 1, p) \o <<o>> \o SubSeq(s, p + 1, n)
  BY Zenon DEF Insert
<1>. HIDE DEF p, n
<1>4. SubSeq(s, 1, p) \in Seq(Swap)
  <2>1. \A i_1 \in 1..p : s[i_1] \in Swap
    BY <1>1, <1>2
  <2>. QED  BY <1>2, <2>1, SubSeqProperties
<1>5. SubSeq(s, p + 1, n) \in Seq(Swap)
  <2>1. \A i_1 \in p + 1..n : s[i_1] \in Swap
    BY <1>1, <1>2
  <2>2. p + 1 \in Int /\ n \in Int
    BY <1>1, <1>2
  <2>. QED  BY <2>1, <2>2, SubSeqProperties
<1>6. <<o>> \in Seq(Swap)
  OBVIOUS
<1>. DEFINE x == SubSeq(s, 1, p)
            y == SubSeq(s, p + 1, n)
<1>. HIDE DEF x, y
<1>7. (x \o <<o>>) \o y \in Seq(Swap)
  BY <1>4, <1>5, <1>6 DEF x, y
<1>. QED  BY <1>3, <1>7 DEF x, y

LEMMA LoadedTyped ==
    ASSUME NEW s \in Seq(Swap)
    PROVE  Loaded(s) \in Seq(Swap)
<1>. DEFINE E == Seq(Swap)
            e0 == <<>>
            m == Len(s)
            Defines(f) == f = [k \in 0..m |-> IF k = 0 THEN <<>> ELSE Insert(f[k - 1], s[k])]
            sorted == CHOOSE f : Defines(f)
            G == [k \in 1..m |-> [q \in E |-> Insert(q, s[k])]]
<1>1. m \in Nat /\ e0 \in E /\ \A k \in 1..m : s[k] \in Swap
  OBVIOUS
<1>2. G \in [1..m -> [E -> E]]
  <2>1. \A k \in 1..m, q \in E : Insert(q, s[k]) \in E
    BY <1>1, InsertTyped
  <2>. HIDE DEF E
  <2>. QED  BY <2>1
<1>3. \A k \in 1..m, q \in E : G[k][q] = Insert(q, s[k])
  OBVIOUS
<1>. HIDE DEF G
<1>4. PICK f \in [0..m -> E] : f[0] = e0 /\ \A k \in 1..m : f[k] = G[k][f[k - 1]]
  <2>1. m \in Nat /\ e0 \in E /\ G \in [1..m -> [E -> E]]
    BY <1>1, <1>2
  <2>. HIDE DEF m, E, e0
  <2>2. \E f \in [0..m -> E] : f[0] = e0 /\ \A k \in 1..m : f[k] = G[k][f[k - 1]]
    BY <2>1, Recursion, SMTT(60)
  <2>. QED  BY <2>2
<1>5. Defines(f)
  <2>1. ASSUME NEW k \in 1..m PROVE f[k] = Insert(f[k - 1], s[k])
    <3>1. k - 1 \in 0..m
      BY <1>1
    <3>2. f[k - 1] \in E
      <4>. HIDE DEF E, m
      <4>. QED  BY <3>1
    <3>. QED  BY <1>3, <1>4, <3>2
  <2>2. \A k \in 0..m : k # 0 => k \in 1..m
    BY <1>1
  <2>. HIDE DEF m
  <2>. QED  BY <1>4, <2>1, <2>2
<1>6. Defines(sorted)
  BY <1>5
<1>7. Loaded(s) = sorted[m]
  BY Zenon DEF Loaded
<1>. HIDE DEF sorted, m
<1>8. sorted[0] = e0 /\ \A k \in 1..m : sorted[k] = Insert(sorted[k - 1], s[k])
  <2>1. \A k \in 0..m : sorted[k] = IF k = 0 THEN <<>> ELSE Insert(sorted[k - 1], s[k])
    BY <1>6
  <2>2. 0 \in 0..m /\ \A k \in 1..m : k \in 0..m /\ k # 0
    BY <1>1
  <2>. QED  BY <2>1, <2>2
<1>. DEFINE T == {k \in 0..m : sorted[k] \in E}
<1>9. \A k \in 0..m : k \in T
  <2>1. 0 \in T
    <3>1. sorted[0] \in E /\ 0 \in 0..m
      BY <1>1, <1>8
    <3>. QED  BY <3>1
  <2>2. ASSUME NEW k \in 1..m, k - 1 \in T PROVE k \in T
    <3>1. k \in 0..m /\ sorted[k - 1] \in E
      BY <1>1, <2>2
    <3>2. Insert(sorted[k - 1], s[k]) \in E
      BY <1>1, <3>1, InsertTyped
    <3>. QED  BY <1>8, <3>1, <3>2
  <2>. HIDE DEF T
  <2>. QED  BY <1>1, <2>1, <2>2, Climb
<1>10. m \in 0..m
  BY <1>1
<1>. QED  BY <1>7, <1>9, <1>10

LEMMA OrientedTyped ==
    ASSUME NEW s \in Seq(Swap)
    PROVE  Oriented(Loaded(s)) \in Seq(Swap)
<1>. DEFINE q == Loaded(s)
            Turn(r) == [r EXCEPT !.tick = -@]
            turned == [j \in DOMAIN q |-> Turn(q[j])]
<1>1. q \in Seq(Swap)
  BY LoadedTyped
<1>2. Oriented(Loaded(s)) = IF job.spec.invert THEN turned ELSE q
  BY Zenon DEF Oriented, q
<1>. HIDE DEF q
<1>3. \A r \in Swap : Turn(r) \in Swap
  <2>1. TAKE r \in Swap
  <2>2. -r.tick \in Int
    BY DEF Swap
  <2>. QED  BY <2>2 DEF Swap
<1>. HIDE DEF Turn
<1>4. DOMAIN q = 1..Len(q) /\ Len(q) \in Nat /\ \A j \in 1..Len(q) : q[j] \in Swap
  BY <1>1
<1>5. turned \in [1..Len(q) -> Swap]
  BY <1>3, <1>4
<1>6. turned \in Seq(Swap)
  <2>. HIDE DEF turned
  <2>. QED  BY <1>4, <1>5
<1>. QED  BY <1>1, <1>2, <1>6

-----------------------------------------------------------------------------
(***************************************************************************)
(* The queue of fractions.                                                  *)
(***************************************************************************)
Increasing(q) == \A i, j \in DOMAIN q : i < j => q[i] < q[j]

LEMMA AscendingQueue ==
    ASSUME NEW S, S \subseteq Int, IsFiniteSet(S)
    PROVE  /\ Ascending(S) \in Seq(Int) /\ Increasing(Ascending(S))
           /\ Range(Ascending(S)) = S
<1>. DEFINE n == Cardinality(S)
            a == Ascending(S)
<1>1. /\ n \in Nat /\ a \in [1..n -> S]
      /\ \A x \in S : \E k \in 1..n : a[k] = x
      /\ \A j, k \in 1..n : j < k => a[j] < a[k]
  BY AscendingFacts
<1>. HIDE DEF a, n
<1>2. a \in Seq(Int) /\ DOMAIN a = 1..n
  <2>1. a \in [1..n -> Int]
    BY <1>1
  <2>. QED  BY <1>1, <2>1
<1>3. Increasing(a)
  BY <1>1, <1>2 DEF Increasing
<1>4. Range(a) = S
  BY <1>1, <1>2 DEF Range
<1>. QED  BY <1>2, <1>3, <1>4 DEF a

LEMMA TailQueue ==
    ASSUME NEW q \in Seq(Int), q # <<>>, Increasing(q)
    PROVE  /\ Tail(q) \in Seq(Int) /\ Increasing(Tail(q)) /\ q[1] \in Range(q) /\ q[1] \in Int
           /\ \A x : x \in Range(Tail(q)) <=> x \in Range(q) /\ x # q[1]
<1>. DEFINE t == Tail(q)
            n == Len(q)
<1>1. n \in Nat /\ n > 0 /\ DOMAIN q = 1..n /\ 1 \in 1..n
  OBVIOUS
<1>2. t \in Seq(Int) /\ DOMAIN t = 1..n - 1 /\ \A i \in 1..n - 1 : t[i] = q[i + 1]
  OBVIOUS
<1>. HIDE DEF t, n
<1>3. \A i \in 1..n - 1 : i + 1 \in 1..n
  BY <1>1
<1>4. Increasing(t)
  <2>1. ASSUME NEW i \in 1..n - 1, NEW j \in 1..n - 1, i < j PROVE t[i] < t[j]
    <3>1. i + 1 \in 1..n /\ j + 1 \in 1..n /\ i + 1 < j + 1
      BY <1>1, <2>1
    <3>2. q[i + 1] < q[j + 1]
      BY <1>1, <3>1 DEF Increasing
    <3>. QED  BY <1>2, <3>2
  <2>. QED  BY <1>2, <2>1 DEF Increasing
<1>5. ASSUME NEW x \in Range(t) PROVE x \in Range(q) /\ x # q[1]
  <2>1. PICK i \in 1..n - 1 : x = q[i + 1]
    BY <1>2 DEF Range
  <2>2. i + 1 \in 1..n /\ 1 < i + 1
    BY <1>1, <2>1
  <2>3. q[1] < q[i + 1] /\ q[1] \in Int /\ q[i + 1] \in Int
    BY <1>1, <2>2 DEF Increasing
  <2>. QED  BY <1>1, <2>1, <2>2, <2>3 DEF Range
<1>6. ASSUME NEW x \in Range(q), x # q[1] PROVE x \in Range(t)
  <2>1. PICK i \in 1..n : x = q[i]
    BY <1>1 DEF Range
  <2>2. i - 1 \in 1..n - 1 /\ (i - 1) + 1 = i
    BY <1>1, <1>6, <2>1
  <2>3. t[i - 1] = x
    BY <1>2, <2>1, <2>2
  <2>. QED  BY <1>2, <2>2, <2>3 DEF Range
<1>7. q[1] \in Range(q) /\ q[1] \in Int
  BY <1>1 DEF Range
<1>. QED  BY <1>2, <1>4, <1>5, <1>6, <1>7 DEF t

-----------------------------------------------------------------------------
(***************************************************************************)
(* What a report contributes.                                               *)
(***************************************************************************)
\* The rows the grid keeps next to those of hedged_narrow.
Extra(r) == job.command = "grid" /\ r.policy # "hedged_narrow"

\* Exactly the rows of these windows and modes; and exactly them but for extra rows.
HasRows(rs, config, ns, modes) ==
    IsSeq(rs) /\ \A r : r \in Range(rs) <=> \E n \in ns, mode \in modes : r = RowAt(config, n, mode)

KeepsRows(rs, config, ns, modes) ==
    IsSeq(rs) /\ \A r : r \in Range(rs) /\ ~Extra(r) <=> \E n \in ns, mode \in modes : r = RowAt(config, n, mode)

\* Writing the fraction into a row changes nothing else of it.
LEMMA HedgeWritten ==
    ASSUME NEW config, NEW n, NEW mode, NEW f
    PROVE  /\ [RowAt(config, n, mode) EXCEPT !.hedge = f].policy = mode.policy
           /\ mode.hedge = f => [RowAt(config, n, mode) EXCEPT !.hedge = f] = RowAt(config, n, mode)
<1>. DEFINE r == RowAt(config, n, mode)
            field == "hedge"
<1>1. /\ DOMAIN r = {"w", "start", "policy", "hedge", "regime", "pnl", "vsHold", "apr", "dd", "rebalances"}
      /\ r.policy = mode.policy /\ r.hedge = mode.hedge /\ r = [x \in DOMAIN r |-> r[x]]
  BY RowAtFields
<1>. HIDE DEF r
<1>2. [r EXCEPT !.hedge = f].policy = mode.policy
  BY <1>1
<1>3. mode.hedge = f => [r EXCEPT !.hedge = f] = r
  <2>1. HAVE mode.hedge = f
  <2>2. r[field] = f
    BY <1>1, <2>1
  <2>. HIDE DEF field
  <2>3. [r EXCEPT ![field] = f] = r
    BY <1>1, <2>2
  <2>. QED  BY <2>3 DEF field
<1>. QED  BY <1>2, <1>3 DEF r

LEMMA ContributionRows ==
    ASSUME NEW config, NEW ns, HasRows(rows, config, ns, Range(Battery(job.params, queue[1])))
    PROVE  KeepsRows(Contribution, config, ns, Modes({queue[1]}))
<1>. DEFINE f == queue[1]
            turned == [j \in DOMAIN rows |-> [rows[j] EXCEPT !.hedge = f]]
            I == {j \in DOMAIN rows :
                    \/ rows[j].policy = "hedged_narrow"
                    \/ /\ job.command = "grid" /\ f = Min(Fractions)
                       /\ rows[j].policy \in {"delta_hedged", "hedged_wide"}}
            p == Contribution
            B == Range(Battery(job.params, f))
            hedged == Battery(job.params, f)[7]
<1>0. IsSeq(rows) /\ \A r : r \in Range(rows) <=> \E n \in ns, mode \in B : r = RowAt(config, n, mode)
  BY DEF HasRows
<1>1. CASE ~SeveralHedges
  <2>1. p = rows /\ Modes({f}) = B /\ \A r : ~Extra(r)
    BY <1>1 DEF Contribution, Modes, Extra, SeveralHedges
  <2>. QED  BY <1>0, <2>1 DEF KeepsRows
<1>2. CASE SeveralHedges
  <2>1. p = Pick(turned, I)
    BY <1>2, Zenon DEF Contribution
  <2>2. Modes({f}) = {hedged} /\ hedged \in B /\ hedged.policy = "hedged_narrow" /\ hedged.hedge = f
    <3>1. Modes({f}) = {hedged}
      BY <1>2 DEF Modes
    <3>2. DOMAIN Battery(job.params, f) = 1..12 /\ 7 \in 1..12 /\ Names[7] = "hedged_narrow"
      BY BatteryFacts DEF Names
    <3>3. hedged.policy = "hedged_narrow" /\ hedged.hedge = f
      BY <3>2, BatteryFacts
    <3>. QED  BY <3>1, <3>2, <3>3 DEF Range
  <2>. HIDE DEF hedged
  <2>3. DOMAIN rows = 1..Len(rows) /\ Len(rows) \in Nat
    BY <1>0 DEF IsSeq
  <2>4. IsSeq(turned) /\ DOMAIN turned = DOMAIN rows /\ \A j \in DOMAIN rows : turned[j] = [rows[j] EXCEPT !.hedge = f]
    <3>1. turned = [j \in 1..Len(rows) |-> turned[j]] /\ DOMAIN turned = DOMAIN rows
      BY <2>3
    <3>2. \A j \in DOMAIN rows : turned[j] = [rows[j] EXCEPT !.hedge = f]
      OBVIOUS
    <3>. HIDE DEF turned
    <3>3. turned \in [1..Len(rows) -> Range(turned)]
      BY <2>3, <3>1 DEF Range
    <3>4. turned \in Seq(Range(turned))
      BY <2>3, <3>3
    <3>. QED  BY <3>1, <3>2, <3>4, SeqIsSeq
  <2>. HIDE DEF turned
  <2>5. IsSeq(p) /\ \A r : r \in Range(p) <=> \E i \in DOMAIN turned : i \in I /\ r = turned[i]
    <3>. HIDE DEF I, p
    <3>. QED  BY <2>1, <2>4, PickRange
  <2>. HIDE DEF p
  <2>6. ASSUME NEW i \in DOMAIN rows
        PROVE  /\ turned[i].policy = rows[i].policy
               /\ rows[i].policy = "hedged_narrow" =>
                    turned[i] = rows[i] /\ \E n \in ns : rows[i] = RowAt(config, n, hedged)
    <3>1. rows[i] \in Range(rows)
      BY DEF Range
    <3>2. PICK n \in ns, mode \in B : rows[i] = RowAt(config, n, mode)
      BY <1>0, <3>1
    <3>3. rows[i].policy = mode.policy
      BY <3>2, RowAtFields
    <3>4. mode.policy = "hedged_narrow" => mode = hedged
      BY ModeFacts DEF hedged
    <3>5. turned[i] = [RowAt(config, n, mode) EXCEPT !.hedge = f]
      BY <2>4, <3>2
    <3>6. turned[i].policy = rows[i].policy
      BY <3>3, <3>5, HedgeWritten
    <3>7. mode = hedged => turned[i] = rows[i]
      BY <2>2, <3>2, <3>5, HedgeWritten
    <3>. QED  BY <3>2, <3>3, <3>4, <3>6, <3>7
  <2>7. ASSUME NEW r \in Range(p), ~Extra(r) PROVE \E n \in ns : r = RowAt(config, n, hedged)
    <3>1. PICK i \in DOMAIN rows : i \in I /\ r = turned[i]
      BY <2>4, <2>5
    <3>2. rows[i].policy = "hedged_narrow"
      <4>1. r.policy = rows[i].policy
        BY <2>6, <3>1
      <4>. QED  BY <2>7, <3>1, <4>1 DEF Extra
    <3>. QED  BY <2>6, <3>1, <3>2
  <2>8. ASSUME NEW n \in ns PROVE RowAt(config, n, hedged) \in Range(p) /\ ~Extra(RowAt(config, n, hedged))
    <3>1. RowAt(config, n, hedged).policy = "hedged_narrow" /\ RowAt(config, n, hedged) \in Range(rows)
      BY <1>0, <2>2, RowAtFields
    <3>2. PICK i \in DOMAIN rows : rows[i] = RowAt(config, n, hedged)
      BY <3>1 DEF Range
    <3>3. i \in I /\ turned[i] = rows[i]
      BY <2>6, <3>1, <3>2
    <3>. QED  BY <2>4, <2>5, <3>1, <3>2, <3>3 DEF Extra
  <2>9. \A r : (\E n \in ns, mode \in Modes({f}) : r = RowAt(config, n, mode)) <=> \E n \in ns : r = RowAt(config, n, hedged)
    BY <2>2
  <2>. QED  BY <2>5, <2>7, <2>8, <2>9, ZenonT(60) DEF KeepsRows, p
<1>. QED  BY <1>1, <1>2

-----------------------------------------------------------------------------
(***************************************************************************)
(* The invariant.                                                           *)
(***************************************************************************)
Control ==
    /\ stream \in Seq(Swap) /\ job \in Jobs /\ Regular(job)
    /\ pc \in {"start", "config", "report", "windows", "done", "failed"}
    /\ c \in Nat /\ c >= 1 /\ c <= Len(Configs) + 1 /\ queue \in Seq(Int) /\ start \in Nat
    /\ pc \in {"report", "windows"} => c <= Len(Configs)
    /\ pc \in {"config", "report", "windows"} \/ c > 1 => Accepted
    /\ pc \in {"report", "windows"} \/ c > 1 => BlendAccepted
    /\ ~Gate => c = 1

\* The fractions whose report is still to be built.
Queued ==
    pc \in {"report", "windows"} =>
        /\ Range(queue) \subseteq Fractions /\ Increasing(queue)
        /\ pc = "windows" => queue # <<>>
        /\ pc = "windows" \/ Range(queue) # Fractions => Config.size <= Len(stream)

\* The report being built has all modes of the windows before `start`.
Reported ==
    pc = "windows" => \E m \in Nat :
        /\ start = m * Config.step /\ \A k \in Nat : k < m => k \in Fitting(Config)
        /\ HasRows(rows, Config, {k \in Nat : k < m}, Range(Battery(job.params, queue[1])))

\* The finished reports have all windows of all modes of their fractions.
Keeping ==
    pc \in {"report", "windows"} =>
        KeepsRows(kept, Config, Fitting(Config), Modes(Fractions \ Range(queue)))

\* A judged configuration was judged on a selection from a complete set of rows.
Judged ==
    /\ Gate => /\ IsSeq(picks) /\ Len(picks) = c - 1 /\ IsSeq(table) /\ Len(table) = c - 1
               /\ \A k \in 1..c - 1 :
                    /\ \E rs : Complete(rs, Configs[k]) /\ picks[k] = Selected(job.policy, rs)
                    /\ table[k] = [stats |-> Summary(picks[k]), reasons |-> Reasons(Configs[k], Summary(picks[k]))]
    /\ verdict # NoVerdict => pc = "done" /\ Gate /\ c = Len(Configs) + 1 /\ verdict = Verdict(table)

Inv == Control /\ Queued /\ Reported /\ Keeping /\ Judged

\* The inputs never change, and nor does what is derived from them.
LEMMA Steady ==
    ASSUME UNCHANGED <<stream, job>>
    PROVE  /\ Gate' = Gate /\ SeveralHedges' = SeveralHedges /\ Configs' = Configs /\ Fractions' = Fractions
           /\ Accepted' = Accepted /\ BlendAccepted' = BlendAccepted /\ Refused' = Refused
           /\ \A config : Fitting(config)' = Fitting(config)
           /\ \A F : Modes(F)' = Modes(F)
           /\ \A config, n, mode : RowAt(config, n, mode)' = RowAt(config, n, mode)
           /\ \A rs, config : Complete(rs, config)' = Complete(rs, config)
           /\ \A policy, rs : Selected(policy, rs)' = Selected(policy, rs)
           /\ \A r : Extra(r)' = Extra(r)
<1>1. Gate' = Gate /\ SeveralHedges' = SeveralHedges
  BY DEF Gate, SeveralHedges
<1>2. Configs' = Configs /\ RuleValues' = RuleValues
  BY <1>1, Zenon DEF Configs, RuleValues
<1>3. Fractions' = Fractions
  BY <1>1, <1>2, Zenon DEF Fractions
<1>4. Refused' = Refused
  BY <1>1, <1>2, Zenon DEF Refused, Usable
<1>5. Accepted' = Accepted /\ BlendAccepted' = BlendAccepted
  BY <1>1, <1>2, <1>4, Zenon DEF Accepted, BlendAccepted
<1>6. \A config : Fitting(config)' = Fitting(config)
  BY Zenon DEF Fitting
<1>7. \A F : Modes(F)' = Modes(F)
  BY <1>1, Zenon DEF Modes
<1>8. \A config, n, mode : RowAt(config, n, mode)' = RowAt(config, n, mode)
  <2>1. TAKE config, n, mode
  <2>2. job' = job /\ stream' = stream
    OBVIOUS
  <2>3. RowAt(config, n, mode)' = RowAt(config, n, mode)
    BY <2>2 DEF RowAt, WindowRow
  <2>. QED  BY <2>3
<1>9. \A rs, config : Complete(rs, config)' = Complete(rs, config)
  <2>1. TAKE rs, config
  <2>2. Fitting(config)' = Fitting(config) /\ Modes(Fractions)' = Modes(Fractions) /\ Len(stream)' = Len(stream)
    BY <1>3, <1>7, <1>6
  <2>3. Complete(rs, config)' = Complete(rs, config)
    BY <2>2, <1>8, Zenon DEF Complete
  <2>. QED  BY <2>3
<1>10. \A rs, w : Choice(rs, w)' = Choice(rs, w)
  BY Zenon DEF Choice
<1>11. \A policy, rs, w : LaggedRow(policy, rs, w)' = LaggedRow(policy, rs, w)
  BY <1>10, ZenonT(60) DEF LaggedRow
<1>12. \A policy, rs : Selected(policy, rs)' = Selected(policy, rs)
  <2>1. TAKE policy, rs
  <2>. DEFINE D == {w \in Windows(rs) : w > 0}
              row == [w \in D |-> LaggedRow(policy, rs, w)]
  <2>2. row' = row
    BY <1>11
  <2>3. Selected(policy, rs) = IF policy \notin Lagged THEN Of(policy, rs)
                               ELSE [j \in 1..Cardinality(D) |-> row[Ascending(D)[j]]]
    BY Zenon DEF Selected
  <2>4. Selected(policy, rs)' = IF policy \notin Lagged THEN Of(policy, rs)
                                ELSE [j \in 1..Cardinality(D) |-> row'[Ascending(D)[j]]]
    BY Zenon DEF Selected
  <2>5. Selected(policy, rs)' = Selected(policy, rs)
    <3>. HIDE DEF row, D
    <3>. QED  BY <2>2, <2>3, <2>4, Zenon
  <2>. QED  BY <2>5
<1>13. \A r : Extra(r)' = Extra(r)
  BY Zenon DEF Extra
<1>. QED  BY <1>1, <1>2, <1>3, <1>4, <1>5, <1>6, <1>7, <1>8, <1>9, <1>12, <1>13

LEMMA ConfigsTyped ==
    ASSUME job \in Jobs
    PROVE  /\ Len(Configs) \in Nat
           /\ job.command \in {"swaps", "windows", "grid", "gate"}
           /\ job.command \in {"windows", "grid"} => Len(Configs) = 1
<1>1. /\ job.configs \in Seq([size : Nat, step : Nat, min : Nat])
      /\ job.command \in {"swaps", "windows", "grid", "gate"}
      /\ job.command \in {"windows", "grid"} => Len(job.configs) = 1
  BY JobAssumption
<1>2. DefaultConfigs \in Seq([size : Nat, step : Nat, min : Nat])
  BY DEF DefaultConfigs
<1>3. Len(Configs) \in Nat
  BY <1>1, <1>2 DEF Configs
<1>. QED  BY <1>1, <1>3 DEF Configs, Gate

LEMMA InitInv == Init /\ Regular(job) => Inv
<1>1. HAVE Init /\ Regular(job)
<1>2. stream \in Seq(Swap)
  <2>1. PICK s \in Streams : stream = Oriented(Loaded(s))
    BY <1>1 DEF Init
  <2>2. s \in Seq(Swap)
    BY StreamAssumption
  <2>. QED  BY <2>1, <2>2, OrientedTyped
<1>3. Control
  <2>1. job \in Jobs /\ Regular(job) /\ pc = "start" /\ c = 1 /\ start = 0 /\ queue = <<>>
    BY <1>1 DEF Init
  <2>2. 1 <= Len(Configs) + 1
    BY <2>1, ConfigsTyped
  <2>. QED  BY <1>2, <2>1, <2>2 DEF Control
<1>4. Queued /\ Reported /\ Keeping
  BY <1>1 DEF Init, Queued, Reported, HasRows, Keeping, KeepsRows
<1>5. Judged
  <2>1. picks = <<>> /\ table = <<>> /\ c = 1 /\ verdict = NoVerdict
    BY <1>1 DEF Init
  <2>2. IsSeq(<<>>)
    BY DEF IsSeq
  <2>3. \A k \in 1..c - 1 : FALSE
    BY <2>1
  <2>4. Len(picks) = c - 1 /\ Len(table) = c - 1
    BY <2>1
  <2>. QED  BY <2>1, <2>2, <2>3, <2>4 DEF Judged
<1>. QED  BY <1>3, <1>4, <1>5 DEF Inv

LEMMA CompleteStays ==
    ASSUME UNCHANGED <<stream, job>>, NEW rs, NEW k, Complete(rs, Configs[k])
    PROVE  Complete(rs, Configs[k])'
<1>1. PICK config : config = Configs[k]
  OBVIOUS
<1>2. Complete(rs, config)' = Complete(rs, config) /\ Configs' = Configs
  BY Steady
<1>3. Complete(rs, config)' /\ config = Configs'[k]
  BY <1>1, <1>2
<1>. QED  BY <1>3 DEF Complete

LEMMA JudgedKept ==
    ASSUME Judged, pc # "done" \/ UNCHANGED <<pc, table>>,
           UNCHANGED <<stream, job, c, verdict>>, Gate => UNCHANGED <<picks, table>>
    PROVE  Judged'
<1>1. /\ Gate' = Gate /\ Configs' = Configs /\ c' = c
      /\ \A rs, config : Complete(rs, config)' = Complete(rs, config)
      /\ \A policy, rs : Selected(policy, rs)' = Selected(policy, rs)
  BY Steady
<1>2. ASSUME Gate
      PROVE  /\ IsSeq(picks') /\ Len(picks') = c' - 1 /\ IsSeq(table') /\ Len(table') = c' - 1
             /\ \A k \in 1..c' - 1 :
                  /\ \E rs : Complete(rs, Configs[k])' /\ picks'[k] = Selected(job.policy, rs)'
                  /\ table'[k] = [stats |-> Summary(picks'[k]), reasons |-> Reasons(Configs'[k], Summary(picks'[k]))]
  <2>1. picks' = picks /\ table' = table /\ job' = job
    BY <1>2
  <2>2. /\ IsSeq(picks) /\ Len(picks) = c - 1 /\ IsSeq(table) /\ Len(table) = c - 1
        /\ \A k \in 1..c - 1 :
             /\ \E rs : Complete(rs, Configs[k]) /\ picks[k] = Selected(job.policy, rs)
             /\ table[k] = [stats |-> Summary(picks[k]), reasons |-> Reasons(Configs[k], Summary(picks[k]))]
    BY <1>2, Zenon DEF Judged
  <2>3. ASSUME NEW k \in 1..c' - 1
        PROVE  /\ \E rs : Complete(rs, Configs[k])' /\ picks'[k] = Selected(job.policy, rs)'
               /\ table'[k] = [stats |-> Summary(picks'[k]), reasons |-> Reasons(Configs'[k], Summary(picks'[k]))]
    <3>1. PICK rs : Complete(rs, Configs[k]) /\ picks[k] = Selected(job.policy, rs)
      BY <1>1, <2>2
    <3>2. Complete(rs, Configs[k])'
      BY <3>1, CompleteStays
    <3>3. picks'[k] = Selected(job.policy, rs)'
      BY <1>1, <2>1, <3>1, Zenon
    <3>4. table'[k] = [stats |-> Summary(picks'[k]), reasons |-> Reasons(Configs'[k], Summary(picks'[k]))]
      BY <1>1, <2>1, <2>2, Zenon
    <3>. QED  BY <2>1, <3>2, <3>3, <3>4
  <2>. QED  BY <1>1, <2>1, <2>2, <2>3
<1>3. verdict' # NoVerdict => pc' = "done" /\ Gate' /\ c' = Len(Configs') + 1 /\ verdict' = Verdict(table')
  BY <1>1, Zenon DEF Judged
<1>. QED  BY <1>1, <1>2, <1>3 DEF Judged

\* A step after which no configuration is open.
LEMMA ClosedInv ==
    ASSUME Inv, pc # "done", UNCHANGED <<stream, job, c, verdict>>, Gate => UNCHANGED <<picks, table>>,
           queue' = queue, start' = start, pc' \in {"config", "done", "failed"},
           pc' = "config" => Accepted
    PROVE  Inv'
<1>1. Gate' = Gate /\ Configs' = Configs /\ Accepted' = Accepted /\ BlendAccepted' = BlendAccepted
  BY Steady
<1>2. Control'
  BY <1>1 DEF Inv, Control
<1>3. Queued' /\ Reported' /\ Keeping'
  BY DEF Queued, Reported, HasRows, Keeping, KeepsRows
<1>4. Judged'
  BY JudgedKept DEF Inv
<1>. QED  BY <1>2, <1>3, <1>4 DEF Inv

LEMMA FailInv == ASSUME Inv, pc # "done", Fail PROVE Inv'
BY ClosedInv DEF Fail

LEMMA ReplayWholeInv == ASSUME Inv, ReplayWhole PROVE Inv'
<1>1. pc = "start" /\ ~Gate
  BY DEF ReplayWhole, Gate
<1>2. CASE ~Readable \/ stream = <<>>
  BY <1>1, <1>2, FailInv DEF ReplayWhole
<1>3. CASE ~(~Readable \/ stream = <<>>)
  BY <1>1, <1>3, ClosedInv DEF ReplayWhole
<1>. QED  BY <1>2, <1>3

LEMMA StartInv == ASSUME Inv, Start PROVE Inv'
<1>1. pc = "start" /\ job.command # "swaps"
  BY DEF Start
<1>2. CASE Refused
  BY <1>1, <1>2, FailInv DEF Start
<1>3. CASE ~Refused
  <2>1. Accepted
    BY <1>1, <1>3 DEF Accepted, Inv, Control
  <2>. QED  BY <1>1, <1>3, <2>1, ClosedInv DEF Start
<1>. QED  BY <1>2, <1>3

LEMMA OpenConfigInv == ASSUME Inv, OpenConfig PROVE Inv'
<1>1. pc = "config" /\ c <= Len(Configs) /\ Accepted
  BY DEF OpenConfig, Inv, Control
<1>. DEFINE Bad == Gate /\ job.policy = "lagged_policy_blend" /\ (\E f \in RuleValues : f \notin 0..100)
<1>2. CASE Bad
  BY <1>1, <1>2, FailInv DEF OpenConfig
<1>3. CASE ~Bad
  <2>1. /\ pc' = "report" /\ queue' = Ascending(Fractions) /\ kept' = <<>>
        /\ UNCHANGED <<stream, job, c, start, rows, picks, table, verdict>>
    BY <1>3 DEF OpenConfig
  <2>2. /\ Gate' = Gate /\ Configs' = Configs /\ Accepted' = Accepted /\ BlendAccepted' = BlendAccepted
        /\ Fractions' = Fractions
        /\ \A F : Modes(F)' = Modes(F)
    BY <2>1, Steady
  <2>3. BlendAccepted
    BY <1>3 DEF BlendAccepted
  <2>4. queue' \in Seq(Int) /\ Increasing(queue') /\ Range(queue') = Fractions
    <3>1. Fractions \subseteq Int /\ IsFiniteSet(Fractions)
      BY <1>1, FractionsFacts DEF Accepted
    <3>. QED  BY <2>1, <3>1, AscendingQueue
  <2>5. Control'
    BY <1>1, <2>1, <2>2, <2>3, <2>4 DEF Inv, Control
  <2>6. Queued' /\ Reported'
    BY <2>1, <2>2, <2>4 DEF Queued, Reported, HasRows
  <2>7. Keeping'
    <3>1. IsSeq(<<>>) /\ \A r : r \notin Range(<<>>)
      BY DEF IsSeq, Range
    <3>2. Modes({}) = {} /\ Fractions' \ Range(queue') = {}
      BY <2>2, <2>4 DEF Modes
    <3>3. Modes(Fractions \ Range(queue))' = {}
      <4>1. Modes(Fractions \ Range(queue))' = Modes({})
        BY <2>1, <3>2 DEF Modes, SeveralHedges, Gate
      <4>. QED  BY <3>2, <4>1
    <3>. QED  BY <2>1, <3>1, <3>3 DEF Keeping, KeepsRows
  <2>8. Judged'
    BY <1>1, <2>1, JudgedKept DEF Inv
  <2>. QED  BY <2>5, <2>6, <2>7, <2>8 DEF Inv
<1>. QED  BY <1>2, <1>3

LEMMA OpenConfigFacts ==
    ASSUME Inv, pc \in {"report", "windows"}
    PROVE  Accepted /\ IsConfig(Config) /\ c \in 1..Len(Configs) /\ Len(Configs) \in Nat
<1>1. Accepted /\ c \in Nat /\ c >= 1 /\ c <= Len(Configs)
  BY DEF Inv, Control
<1>2. Len(Configs) \in Nat
  BY <1>1, ConfigsTyped DEF Accepted
<1>3. c \in 1..Len(Configs)
  BY <1>1, <1>2
<1>. QED  BY <1>1, <1>2, <1>3, ConfigFacts DEF Accepted, Config

LEMMA KeepingKept ==
    ASSUME Keeping, pc \in {"report", "windows"}, UNCHANGED <<stream, job, c, kept, queue>>
    PROVE  Keeping'
<1>1. /\ Config' = Config /\ Modes(Fractions \ Range(queue))' = Modes(Fractions \ Range(queue))
      /\ Fitting(Config)' = Fitting(Config)
  <2>1. Config' = Config
    BY Steady DEF Config
  <2>2. Modes(Fractions \ Range(queue))' = Modes(Fractions \ Range(queue))
    BY Steady, Zenon DEF Modes
  <2>3. Fitting(Config)' = Fitting(Config)
    BY <2>1, Steady, Zenon DEF Fitting
  <2>. QED  BY <2>1, <2>2, <2>3
<1>2. /\ \A config, n, mode : RowAt(config, n, mode)' = RowAt(config, n, mode)
      /\ \A r : Extra(r)' = Extra(r)
  BY Steady
<1>. DEFINE F == Fitting(Config)
            M == Modes(Fractions \ Range(queue))
            C == Config
<1>3. IsSeq(kept) /\ \A r : r \in Range(kept) /\ ~Extra(r) <=> \E n \in F, mode \in M : r = RowAt(C, n, mode)
  BY DEF Keeping, KeepsRows
<1>4. F' = F /\ M' = M /\ C' = C
  BY <1>1
<1>. HIDE DEF F, M, C
<1>5. \A r : r \in Range(kept') /\ ~Extra(r)' <=> \E n \in F', mode \in M' : r = RowAt(C, n, mode)'
  <2>1. TAKE r
  <2>2. r \in Range(kept') /\ ~Extra(r)' <=> r \in Range(kept) /\ ~Extra(r)
    BY <1>2
  <2>3. (\E n \in F', mode \in M' : r = RowAt(C, n, mode)') <=> \E n \in F, mode \in M : r = RowAt(C, n, mode)
    BY <1>2, <1>4
  <2>. QED  BY <1>3, <2>2, <2>3
<1>. QED  BY <1>3, <1>5 DEF Keeping, KeepsRows, F, M, C

LEMMA BeginReportInv == ASSUME Inv, BeginReport PROVE Inv'
<1>1. pc = "report" /\ queue # <<>>
  BY DEF BeginReport
<1>. DEFINE Bad == \/ SeveralHedges /\ ~Fraction(queue[1])
                   \/ ~Readable \/ Len(stream) < Config.size
<1>2. CASE Bad
  BY <1>1, <1>2, FailInv DEF BeginReport
<1>3. CASE ~Bad
  <2>1. /\ pc' = "windows" /\ start' = 0 /\ rows' = <<>>
        /\ UNCHANGED <<stream, job, c, queue, kept, picks, table, verdict>>
    BY <1>3 DEF BeginReport
  <2>2. /\ Gate' = Gate /\ Configs' = Configs /\ Accepted' = Accepted /\ BlendAccepted' = BlendAccepted
        /\ Fractions' = Fractions /\ Config' = Config
    BY <2>1, Steady DEF Config
  <2>3. IsConfig(Config) /\ stream \in Seq(Swap)
    BY <1>1, OpenConfigFacts DEF Accepted
  <2>4. Control'
    BY <1>1, <2>1, <2>2 DEF Inv, Control
  <2>5. Queued'
    <3>1. Config.size <= Len(stream)
      BY <1>3, <2>3 DEF IsConfig
    <3>. QED  BY <1>1, <2>1, <2>2, <3>1 DEF Inv, Queued
  <2>6. Reported'
    <3>1. start' = 0 * Config'.step
      BY <2>1, <2>2, <2>3 DEF IsConfig
    <3>2. \A k \in Nat : ~(k < 0)
      OBVIOUS
    <3>3. IsSeq(<<>>) /\ \A r : r \notin Range(<<>>)
      BY DEF IsSeq, Range
    <3>4. {k \in Nat : k < 0} = {}
      BY <3>2
    <3>. QED  BY <2>1, <3>1, <3>2, <3>3, <3>4 DEF Reported, HasRows
  <2>7. Keeping'
    BY <1>1, <2>1, KeepingKept DEF Inv
  <2>8. Judged'
    BY <1>1, <2>1, JudgedKept DEF Inv
  <2>. QED  BY <2>4, <2>5, <2>6, <2>7, <2>8 DEF Inv
<1>. QED  BY <1>2, <1>3

\* The rows of one window, with all modes of a fraction.
RowsAt(config, n, h) ==
    WindowRows(Window(stream, n * config.step, config.size), n * config.step, n, h)

\* A window that fits has swaps.
LEMMA FittingWindow ==
    ASSUME stream \in Seq(Swap), NEW config, IsConfig(config), NEW n \in Fitting(config)
    PROVE  LET w == Window(stream, n * config.step, config.size) IN w \in Seq(Swap) /\ w # <<>>
<1>. DEFINE d == n * config.step
            z == config.size
            w == Window(stream, d, z)
<1>1. n \in Nat /\ d \in Nat /\ z \in Nat /\ z > 0 /\ d + z <= Len(stream) /\ Len(stream) \in Nat
  <2>1. n \in Nat /\ d + z <= Len(stream) /\ config.step \in Nat /\ config.size \in Nat /\ config.size > 0
    BY FittingFacts DEF IsConfig, Positive
  <2>. QED  BY <2>1
<1>. HIDE DEF d, z
<1>2. w \in Seq(Swap) /\ w # <<>>
  <2>1. \A i_1 \in d + 1..d + z : stream[i_1] \in Swap
    BY <1>1
  <2>2. d + 1 \in Int /\ d + z \in Int /\ d + 1 <= d + z
    BY <1>1
  <2>3. w = SubSeq(stream, d + 1, d + z)
    BY DEF Window
  <2>. HIDE DEF w
  <2>4. w \in Seq(Swap) /\ Len(w) = (d + z) - (d + 1) + 1
    BY <2>1, <2>2, <2>3, SubSeqProperties
  <2>. QED  BY <1>1, <2>4
<1>. QED  BY <1>2 DEF d, z

LEMMA WindowRowsRange ==
    ASSUME stream \in Seq(Swap), NEW config, IsConfig(config), NEW n \in Fitting(config), NEW h
    PROVE  /\ IsSeq(RowsAt(config, n, h))
           /\ \A r : r \in Range(RowsAt(config, n, h)) <=>
                \E mode \in Range(Battery(job.params, h)) : r = RowAt(config, n, mode)
<1>. DEFINE q == RowsAt(config, n, h)
            b == Battery(job.params, h)
<1>1. DOMAIN b = 1..12
  BY BatteryFacts
<1>. HIDE DEF b
<1>2. q = [j \in 1..12 |-> RowAt(config, n, b[j])]
  <2>1. Window(stream, n * config.step, config.size) # <<>>
    BY FittingWindow
  <2>2. q = [j \in DOMAIN b |-> RowAt(config, n, b[j])]
    BY <2>1, Zenon DEF RowsAt, WindowRows, RowAt, b
  <2>. QED  BY <1>1, <2>2
<1>. HIDE DEF q
<1>3. q \in [1..12 -> Range(q)] /\ DOMAIN q = 1..12 /\ \A j \in 1..12 : q[j] = RowAt(config, n, b[j])
  BY <1>2 DEF Range
<1>4. IsSeq(q)
  <2>1. 12 \in Nat
    OBVIOUS
  <2>. QED  BY <1>3, <2>1, FunctionIsSeq
<1>5. \A r : r \in Range(q) <=> \E mode \in Range(b) : r = RowAt(config, n, mode)
  BY <1>1, <1>3 DEF Range
<1>. QED  BY <1>4, <1>5 DEF q, b

LEMMA ReplayWindowInv == ASSUME Inv, ReplayWindow PROVE Inv'
<1>. DEFINE C == Config
            d == Config.step
            z == Config.size
            B == Range(Battery(job.params, queue[1]))
            new == WindowRows(Window(stream, start, z), start, WindowIndex, queue[1])
            l == Len(stream)
<1>0. /\ pc = "windows" /\ start + z <= l
      /\ rows' = IF d = 0 /\ rows # <<>> THEN rows ELSE rows \o new
      /\ start' = start + d
      /\ UNCHANGED <<stream, job, pc, c, queue, kept, picks, table, verdict>>
  BY Zenon DEF ReplayWindow
<1>2. /\ IsConfig(C) /\ d \in Nat /\ z \in Nat /\ d > 0 /\ stream \in Seq(Swap) /\ start \in Nat
  BY <1>0, OpenConfigFacts DEF IsConfig, Positive, Accepted, Inv, Control
<1>1. /\ pc = "windows" /\ start + z <= l
      /\ rows' = rows \o new /\ start' = start + d
      /\ UNCHANGED <<stream, job, pc, c, queue, kept, picks, table, verdict>>
  <2>1. d # 0
    BY <1>2
  <2>. HIDE DEF d, new
  <2>. QED  BY <1>0, <2>1
<1>3. /\ Gate' = Gate /\ Configs' = Configs /\ Accepted' = Accepted /\ BlendAccepted' = BlendAccepted
      /\ Fractions' = Fractions /\ Config' = Config
      /\ \A config : Fitting(config)' = Fitting(config)
      /\ \A config, n, mode : RowAt(config, n, mode)' = RowAt(config, n, mode)
  BY <1>1, Steady DEF Config
<1>4. PICK m \in Nat :
        /\ start = m * d /\ \A k \in Nat : k < m => k \in Fitting(C)
        /\ IsSeq(rows)
        /\ \A r : r \in Range(rows) <=> \E n \in {k \in Nat : k < m}, mode \in B : r = RowAt(C, n, mode)
  BY <1>1 DEF Inv, Reported, HasRows
<1>5. m \in Fitting(C)
  BY <1>1, <1>2, <1>4, FittingFacts
<1>6. WindowIndex = m
  <2>1. WindowIndex = IF d = 0 THEN 0 ELSE start \div d
    BY Zenon DEF WindowIndex
  <2>. HIDE DEF d
  <2>. QED  BY <1>2, <1>4, <2>1, DivExact
<1>. HIDE DEF B, C, l
<1>7. IsSeq(new) /\ \A r : r \in Range(new) <=> \E mode \in B : r = RowAt(C, m, mode)
  <2>1. new = RowsAt(C, m, queue[1])
    BY <1>4, <1>6 DEF C, RowsAt
  <2>. HIDE DEF new
  <2>. QED  BY <1>2, <1>5, <2>1, WindowRowsRange DEF B
<1>. HIDE DEF new
<1>8. IsSeq(rows') /\ \A r : r \in Range(rows') <=> r \in Range(rows) \/ r \in Range(new)
  BY <1>1, <1>4, <1>7, ConcatRange
<1>9. /\ start' = (m + 1) * d /\ start' \in Nat /\ m + 1 \in Nat
      /\ \A k \in Nat : k < m + 1 => k \in Fitting(C)
  <2>1. (m + 1) * d = m * d + d /\ m * d \in Nat
    <3>. HIDE DEF d
    <3>. QED  BY <1>2
  <2>2. \A k \in Nat : k < m + 1 => k < m \/ k = m
    OBVIOUS
  <2>. HIDE DEF d, z
  <2>. QED  BY <1>1, <1>2, <1>4, <1>5, <2>1, <2>2
<1>10. \A r : r \in Range(rows') <=> \E n \in {k \in Nat : k < m + 1}, mode \in B : r = RowAt(C, n, mode)
  <2>1. \A n : n \in {k \in Nat : k < m + 1} <=> n \in {k \in Nat : k < m} \/ n = m
    OBVIOUS
  <2>. DEFINE Before1 == {k \in Nat : k < m}
              Before2 == {k \in Nat : k < m + 1}
  <2>. HIDE DEF Before1, Before2
  <2>2. \A r : (\E n \in Before2, mode \in B : r = RowAt(C, n, mode))
                <=> \/ \E n \in Before1, mode \in B : r = RowAt(C, n, mode)
                    \/ \E mode \in B : r = RowAt(C, m, mode)
    BY <2>1 DEF Before1, Before2
  <2>. QED  BY <1>4, <1>7, <1>8, <2>2 DEF Before1, Before2
<1>11. Control'
  BY <1>1, <1>3, <1>9 DEF Inv, Control
<1>12. Queued'
  BY <1>1, <1>3 DEF Inv, Queued
<1>13. Reported'
  <2>1. Config' = C /\ B' = B /\ pc' = "windows" /\ job' = job /\ queue' = queue
    BY <1>1, <1>3 DEF B, C
  <2>. DEFINE m1 == m + 1
  <2>2. m1 \in Nat /\ start' = m1 * C.step /\ \A k \in Nat : k < m1 => k \in Fitting(C)'
    BY <1>3, <1>9 DEF C
  <2>3. \A n, mode : RowAt(Config, n, mode)' = RowAt(C, n, mode)
    BY <1>1, <1>3, Zenon DEF RowAt, WindowRow, C
  <2>4. \A k \in Nat : k < m1 => k \in Fitting(Config)'
    BY <1>1, <1>3, <1>9, Zenon DEF Fitting, C
  <2>5. \A r : r \in Range(rows') <=> \E n \in {k \in Nat : k < m1}, mode \in B' : r = RowAt(Config, n, mode)'
    BY <1>10, <2>1, <2>3
  <2>. HIDE DEF m1
  <2>. QED  BY <1>8, <2>1, <2>2, <2>4, <2>5 DEF Reported, HasRows, B, C
<1>14. Keeping'
  BY <1>1, KeepingKept DEF Inv
<1>15. Judged'
  BY <1>1, JudgedKept DEF Inv
<1>. QED  BY <1>11, <1>12, <1>13, <1>14, <1>15 DEF Inv

LEMMA ModesSplit ==
    ASSUME NEW F, NEW f
    PROVE  \A mode : mode \in Modes(F \cup {f}) <=> mode \in Modes(F) \/ mode \in Modes({f})
<1>1. CASE SeveralHedges
  BY <1>1 DEF Modes
<1>2. CASE ~SeveralHedges
  BY <1>2 DEF Modes
<1>. QED  BY <1>1, <1>2

\* When no further window fits, the report has all windows that do.
LEMMA AllWindows ==
    ASSUME stream \in Seq(Swap), NEW config, IsConfig(config), NEW m \in Nat,
           \A k \in Nat : k < m => k \in Fitting(config), m * config.step + config.size > Len(stream)
    PROVE  Fitting(config) = {k \in Nat : k < m}
<1>. DEFINE F == Fitting(config)
            z == m * config.step + config.size
<1>1. /\ \A n : n \in F <=> n \in Nat /\ n * config.step + config.size <= Len(stream)
      /\ \A n \in F, k \in Nat : k <= n => k \in F
  BY FittingFacts
<1>2. m \notin F
  <2>1. config.step \in Nat /\ config.size \in Nat /\ Len(stream) \in Nat
    BY DEF IsConfig
  <2>2. z \in Nat /\ z > Len(stream)
    BY <2>1
  <2>3. m \in F => z <= Len(stream)
    BY <1>1
  <2>. HIDE DEF z
  <2>. QED  BY <2>1, <2>2, <2>3
<1>. HIDE DEF F
<1>3. ASSUME NEW n \in F PROVE n \in Nat /\ n < m
  <2>1. n \in Nat
    BY <1>1
  <2>2. ~(m <= n)
    BY <1>1, <1>2
  <2>. QED  BY <2>1, <2>2
<1>4. \A k \in Nat : k < m => k \in F
  BY DEF F
<1>5. \A n : n \in F <=> n \in Nat /\ n < m
  BY <1>3, <1>4
<1>6. F = {k \in Nat : k < m}
  BY <1>5
<1>. QED  BY <1>6 DEF F

LEMMA FinishReportInv == ASSUME Inv, FinishReport PROVE Inv'
<1>. DEFINE C == Config
            d == Config.step
            z == Config.size
            f == queue[1]
            F0 == Fractions \ Range(queue)
            l == Len(stream)
<1>1. pc = "windows" /\ start + z > l
  BY DEF FinishReport
<1>2. CASE Cardinality(Windows(rows)) < Config.min
  BY <1>1, <1>2, FailInv DEF FinishReport
<1>3. CASE ~(Cardinality(Windows(rows)) < Config.min)
  <2>1. /\ pc' = "report" /\ queue' = Tail(queue) /\ kept' = kept \o Contribution
        /\ UNCHANGED <<stream, job, c, start, rows, picks, table, verdict>>
    BY <1>3 DEF FinishReport
  <2>2. /\ Gate' = Gate /\ Configs' = Configs /\ Accepted' = Accepted /\ BlendAccepted' = BlendAccepted
        /\ Fractions' = Fractions /\ Config' = Config
        /\ \A config : Fitting(config)' = Fitting(config)
        /\ \A config, n, mode : RowAt(config, n, mode)' = RowAt(config, n, mode)
        /\ \A r : Extra(r)' = Extra(r)
    BY <2>1, Steady DEF Config
  <2>3. IsConfig(C) /\ stream \in Seq(Swap)
    BY <1>1, OpenConfigFacts DEF Accepted
  <2>4. PICK m \in Nat :
          /\ start = m * d /\ \A k \in Nat : k < m => k \in Fitting(C)
          /\ HasRows(rows, C, {k \in Nat : k < m}, Range(Battery(job.params, f)))
    BY <1>1 DEF Inv, Reported
  <2>5. Fitting(C) = {k \in Nat : k < m}
    <3>1. m * d + z > l
      BY <1>1, <2>4
    <3>. QED  BY <2>3, <2>4, <3>1, AllWindows
  <2>. DEFINE ns == {k \in Nat : k < m}
  <2>6. /\ IsSeq(Contribution)
        /\ \A r : r \in Range(Contribution) /\ ~Extra(r) <=> \E n \in ns, mode \in Modes({f}) : r = RowAt(C, n, mode)
    <3>. HIDE DEF ns, C
    <3>1. KeepsRows(Contribution, C, ns, Modes({queue[1]}))
      BY <2>4, ContributionRows DEF ns, C
    <3>. QED  BY <3>1 DEF KeepsRows
  <2>7. /\ Range(queue) \subseteq Fractions /\ Increasing(queue) /\ queue # <<>> /\ z <= l /\ queue \in Seq(Int)
    BY <1>1 DEF Inv, Queued, Control
  <2>8. /\ queue' \in Seq(Int) /\ Increasing(queue') /\ f \in Range(queue)
        /\ \A x : x \in Range(queue') <=> x \in Range(queue) /\ x # f
    BY <2>1, <2>7, TailQueue
  <2>9. Control'
    BY <1>1, <2>1, <2>2, <2>8 DEF Inv, Control
  <2>10. Queued'
    <3>1. Range(queue') \subseteq Fractions'
      BY <2>2, <2>7, <2>8
    <3>. QED  BY <2>1, <2>2, <2>7, <2>8, <3>1 DEF Queued
  <2>11. Reported'
    BY <2>1 DEF Reported, HasRows
  <2>12. Keeping'
    <3>1. Fractions' \ Range(queue') = F0 \cup {f}
      BY <2>2, <2>7, <2>8
    <3>2. \A r : r \in Range(kept) /\ ~Extra(r) <=> \E n \in Fitting(C), mode \in Modes(F0) : r = RowAt(C, n, mode)
      BY <1>1 DEF Inv, Keeping, KeepsRows
    <3>3. IsSeq(kept') /\ \A r : r \in Range(kept') <=> r \in Range(kept) \/ r \in Range(Contribution)
      <4>1. IsSeq(kept)
        BY <1>1 DEF Inv, Keeping, KeepsRows
      <4>. QED  BY <2>1, <2>6, <4>1, ConcatRange
    <3>4. \A mode : mode \in Modes(F0 \cup {f}) <=> mode \in Modes(F0) \/ mode \in Modes({f})
      BY ModesSplit
    <3>. HIDE DEF F0, C, f, ns
    <3>5. \A r : r \in Range(kept') /\ ~Extra(r) <=>
            \E n \in Fitting(C), mode \in Modes(F0 \cup {f}) : r = RowAt(C, n, mode)
      <4>1. Fitting(C) = ns
        BY <2>5 DEF ns
      <4>. QED  BY <2>6, <3>2, <3>3, <3>4, <4>1, SMTT(60)
    <3>6. Modes(Fractions \ Range(queue))' = Modes(F0 \cup {f})
      BY <2>1, <3>1, Zenon DEF Modes, SeveralHedges, Gate
    <3>7. Config' = C /\ Fitting(Config)' = Fitting(C)
      BY <2>1, <2>2, Zenon DEF Fitting, C
    <3>8. \A n, mode : RowAt(Config, n, mode)' = RowAt(C, n, mode)
      BY <2>1, <2>2, Zenon DEF RowAt, WindowRow, C
    <3>9. \A r : r \in Range(kept') /\ ~Extra(r)' <=>
            \E n \in Fitting(Config)', mode \in Modes(Fractions \ Range(queue))' : r = RowAt(Config, n, mode)'
      BY <2>2, <3>5, <3>6, <3>7, <3>8
    <3>. QED  BY <3>3, <3>9 DEF Keeping, KeepsRows
  <2>13. Judged'
    BY <1>1, <2>1, JudgedKept DEF Inv
  <2>. QED  BY <2>9, <2>10, <2>11, <2>12, <2>13 DEF Inv
<1>. QED  BY <1>2, <1>3

LEMMA AppendFacts ==
    ASSUME NEW s, IsSeq(s), NEW e
    PROVE  /\ IsSeq(Append(s, e)) /\ Len(Append(s, e)) = Len(s) + 1 /\ Append(s, e)[Len(s) + 1] = e
           /\ \A k \in 1..Len(s) : Append(s, e)[k] = s[k]
<1>. DEFINE S == Range(s) \cup {e}
<1>1. s \in Seq(S) /\ e \in S /\ Len(s) \in Nat
  <2>1. Range(s) \subseteq S /\ e \in S
    OBVIOUS
  <2>. HIDE DEF S
  <2>. QED  BY <2>1 DEF IsSeq
<1>. HIDE DEF S
<1>2. /\ Append(s, e) \in Seq(S) /\ Len(Append(s, e)) = Len(s) + 1 /\ Append(s, e)[Len(s) + 1] = e
      /\ \A k \in 1..Len(s) : Append(s, e)[k] = s[k]
  BY <1>1
<1>. QED  BY <1>2, SeqIsSeq

\* When the queue is empty every row is there.
LEMMA KeptComplete ==
    ASSUME Inv, pc = "report", queue = <<>>
    PROVE  /\ Accepted /\ BlendAccepted
           /\ job.command # "grid" => Complete(kept, Config)
           /\ job.command = "grid" => Complete(Of("hedged_narrow", kept), Config)
<1>1. Accepted /\ BlendAccepted /\ IsConfig(Config)
  BY OpenConfigFacts DEF Inv, Control
<1>2. Fractions # {}
  BY <1>1, FractionsFacts DEF Accepted
<1>3. Range(queue) = {}
  BY DEF Range
<1>4. Config.size <= Len(stream)
  BY <1>2, <1>3 DEF Inv, Queued
<1>5. Fractions \ Range(queue) = Fractions
  BY <1>3
<1>. DEFINE C == Config
            M == Modes(Fractions)
            q == Of("hedged_narrow", kept)
<1>6. IsSeq(kept) /\ \A r : r \in Range(kept) /\ ~Extra(r) <=> \E n \in Fitting(C), mode \in M : r = RowAt(C, n, mode)
  BY <1>5 DEF Inv, Keeping, KeepsRows
<1>7. ASSUME job.command # "grid" PROVE Complete(kept, C)
  <2>1. \A r : ~Extra(r)
    BY <1>7 DEF Extra
  <2>. HIDE DEF C
  <2>. QED  BY <1>1, <1>4, <1>6, <2>1 DEF Complete, C
<1>8. ASSUME job.command = "grid" PROVE Complete(q, C)
  <2>1. IsSeq(q) /\ \A r : r \in Range(q) <=> \E i \in DOMAIN kept : kept[i].policy = "hedged_narrow" /\ r = kept[i]
    <3>1. q = Pick(kept, {j \in DOMAIN kept : kept[j].policy = "hedged_narrow"})
      BY Zenon DEF Of
    <3>. HIDE DEF q
    <3>. QED  BY <1>6, <3>1, PickRange
  <2>. HIDE DEF q
  <2>2. \A r : r \in Range(q) <=> r \in Range(kept) /\ ~Extra(r)
    <3>1. \A r : r \in Range(kept) <=> \E i \in DOMAIN kept : r = kept[i]
      BY DEF Range
    <3>2. \A r : ~Extra(r) <=> r.policy = "hedged_narrow"
      BY <1>8 DEF Extra
    <3>. QED  BY <2>1, <3>1, <3>2
  <2>. HIDE DEF C, M
  <2>3. \A r : r \in Range(q) <=> \E n \in Fitting(C), mode \in M : r = RowAt(C, n, mode)
    BY <1>6, <2>2
  <2>. QED  BY <1>1, <1>4, <2>1, <2>3 DEF Complete, C, M
<1>. QED  BY <1>1, <1>7, <1>8

LEMMA SummarizeInv == ASSUME Inv, Summarize PROVE Inv'
<1>1. pc = "report" /\ queue = <<>>
  BY DEF Summarize
<1>2. CASE ~Gate
  <2>1. pc' = "done" /\ UNCHANGED <<stream, job, c, queue, start, rows, kept, verdict>>
    BY <1>2 DEF Summarize
  <2>. QED  BY <1>1, <1>2, <2>1, ClosedInv
<1>3. CASE Gate /\ Selected(job.policy, kept) = <<>>
  BY <1>1, <1>3, FailInv DEF Summarize
<1>4. CASE Gate /\ Selected(job.policy, kept) # <<>>
  <2>. DEFINE p == Selected(job.policy, kept)
              s == Summary(picks'[c])
              line == [stats |-> s, reasons |-> Reasons(Config, s)]
  <2>1. /\ pc' = "config" /\ c' = c + 1 /\ picks' = Append(picks, p) /\ table' = Append(table, line)
        /\ UNCHANGED <<stream, job, queue, start, rows, kept, verdict>>
    BY <1>1, <1>4, Zenon DEF Summarize
  <2>2. /\ Gate' = Gate /\ Configs' = Configs /\ Accepted' = Accepted /\ BlendAccepted' = BlendAccepted
        /\ \A rs, config : Complete(rs, config)' = Complete(rs, config)
        /\ \A policy, rs : Selected(policy, rs)' = Selected(policy, rs)
    BY <2>1, Steady
  <2>3. /\ Accepted /\ BlendAccepted /\ Complete(kept, Config) /\ c \in Nat /\ c >= 1
        /\ c <= Len(Configs) /\ Len(Configs) \in Nat
    <3>1. job.command # "grid"
      BY <1>4 DEF Gate
    <3>. QED  BY <1>1, <3>1, KeptComplete, OpenConfigFacts DEF Inv, Control
  <2>4. Control'
    <3>1. c' \in Nat /\ c' >= 1 /\ c' <= Len(Configs') + 1
      BY <2>1, <2>2, <2>3
    <3>. QED  BY <1>4, <2>1, <2>2, <2>3, <3>1 DEF Inv, Control
  <2>5. Queued' /\ Reported' /\ Keeping'
    BY <2>1 DEF Queued, Reported, Keeping
  <2>. HIDE DEF p, line
  <2>6. /\ IsSeq(picks) /\ Len(picks) = c - 1 /\ IsSeq(table) /\ Len(table) = c - 1
        /\ \A k \in 1..c - 1 :
             /\ \E rs : Complete(rs, Configs[k]) /\ picks[k] = Selected(job.policy, rs)
             /\ table[k] = [stats |-> Summary(picks[k]), reasons |-> Reasons(Configs[k], Summary(picks[k]))]
    BY <1>4, Zenon DEF Inv, Judged
  <2>7. verdict' = NoVerdict
    BY <1>1, <2>1 DEF Inv, Judged
  <2>8. /\ IsSeq(picks') /\ Len(picks') = c /\ IsSeq(table') /\ Len(table') = c
        /\ picks'[c] = p /\ table'[c] = line
        /\ \A k \in 1..c - 1 : picks'[k] = picks[k] /\ table'[k] = table[k]
    <3>1. c - 1 + 1 = c
      BY <2>3
    <3>. QED  BY <2>1, <2>6, <3>1, AppendFacts
  <2>9. ASSUME NEW k \in 1..c
        PROVE  /\ \E rs : Complete(rs, Configs[k])' /\ picks'[k] = Selected(job.policy, rs)'
               /\ table'[k] = [stats |-> Summary(picks'[k]), reasons |-> Reasons(Configs'[k], Summary(picks'[k]))]
    <3>1. CASE k = c
      <4>1. Complete(kept, Configs[k])'
        BY <2>1, <2>2, <2>3, <3>1, ZenonT(60) DEF Config, Complete
      <4>2. picks'[k] = Selected(job.policy, kept)'
        BY <2>1, <2>2, <2>8, <3>1, Zenon DEF p
      <4>3. table'[k] = [stats |-> Summary(picks'[k]), reasons |-> Reasons(Configs'[k], Summary(picks'[k]))]
        BY <2>2, <2>8, <3>1, Zenon DEF line, Config
      <4>. QED  BY <4>1, <4>2, <4>3, Zenon
    <3>2. CASE k # c
      <4>1. k \in 1..c - 1
        BY <2>3, <3>2
      <4>2. PICK rs : Complete(rs, Configs[k]) /\ picks[k] = Selected(job.policy, rs)
        BY <2>6, <4>1
      <4>3. Complete(rs, Configs[k])'
        BY <2>1, <4>2, CompleteStays
      <4>4. picks'[k] = Selected(job.policy, rs)'
        BY <2>1, <2>2, <2>8, <4>1, <4>2, Zenon
      <4>5. table'[k] = [stats |-> Summary(picks'[k]), reasons |-> Reasons(Configs'[k], Summary(picks'[k]))]
        BY <2>2, <2>6, <2>8, <4>1, Zenon
      <4>. QED  BY <4>3, <4>4, <4>5, Zenon
    <3>. QED  BY <3>1, <3>2
  <2>10. Judged'
    <3>1. c' - 1 = c
      BY <2>1, <2>3
    <3>. QED  BY <2>7, <2>8, <2>9, <3>1, Zenon DEF Judged
  <2>. QED  BY <2>4, <2>5, <2>10 DEF Inv
<1>. QED  BY <1>2, <1>3, <1>4

LEMMA DecideInv == ASSUME Inv, Decide PROVE Inv'
<1>1. /\ pc = "config" /\ c > Len(Configs) /\ pc' = "done" /\ verdict' = Verdict(table)
      /\ UNCHANGED <<stream, job, c, queue, start, rows, kept, picks, table>>
  BY DEF Decide
<1>2. /\ Gate' = Gate /\ Configs' = Configs /\ Accepted' = Accepted /\ BlendAccepted' = BlendAccepted
      /\ \A rs, config : Complete(rs, config)' = Complete(rs, config)
      /\ \A policy, rs : Selected(policy, rs)' = Selected(policy, rs)
  BY <1>1, Steady
<1>3. Control /\ Accepted
  BY <1>1 DEF Inv, Control
<1>4. c = Len(Configs) + 1 /\ Len(Configs) \in Nat
  <2>1. Len(Configs) \in Nat /\ c \in Nat /\ c <= Len(Configs) + 1
    BY <1>3, ConfigsTyped DEF Control
  <2>. QED  BY <1>1, <2>1
<1>5. Gate
  <2>1. ~Gate => c = 1 /\ job.command \in {"windows", "grid"} /\ Len(Configs) = 1
    BY <1>3, ConfigsTyped DEF Control, Accepted, Gate
  <2>. QED  BY <1>4, <2>1
<1>6. Control'
  BY <1>1, <1>2, <1>3 DEF Control
<1>7. Queued' /\ Reported' /\ Keeping'
  BY <1>1 DEF Queued, Reported, Keeping
<1>8. Judged'
  <2>1. /\ IsSeq(picks) /\ Len(picks) = c - 1 /\ IsSeq(table) /\ Len(table) = c - 1
        /\ \A k \in 1..c - 1 :
             /\ \E rs : Complete(rs, Configs[k]) /\ picks[k] = Selected(job.policy, rs)
             /\ table[k] = [stats |-> Summary(picks[k]), reasons |-> Reasons(Configs[k], Summary(picks[k]))]
    BY <1>5, Zenon DEF Inv, Judged
  <2>2. ASSUME NEW k \in 1..c' - 1
        PROVE  /\ \E rs : Complete(rs, Configs[k])' /\ picks'[k] = Selected(job.policy, rs)'
               /\ table'[k] = [stats |-> Summary(picks'[k]), reasons |-> Reasons(Configs'[k], Summary(picks'[k]))]
    <3>1. PICK rs : Complete(rs, Configs[k]) /\ picks[k] = Selected(job.policy, rs)
      BY <1>1, <2>1
    <3>2. Complete(rs, Configs[k])'
      BY <1>1, <3>1, CompleteStays
    <3>3. picks'[k] = Selected(job.policy, rs)'
      BY <1>1, <1>2, <3>1, Zenon
    <3>4. table'[k] = [stats |-> Summary(picks'[k]), reasons |-> Reasons(Configs'[k], Summary(picks'[k]))]
      BY <1>1, <1>2, <2>1, Zenon
    <3>. QED  BY <3>2, <3>3, <3>4
  <2>. QED  BY <1>1, <1>2, <1>4, <1>5, <2>1, <2>2, Zenon DEF Judged
<1>. QED  BY <1>6, <1>7, <1>8 DEF Inv

LEMMA NextInv == Inv /\ [Next]_vars => Inv'
<1>1. SUFFICES ASSUME Inv, [Next]_vars PROVE Inv'
  OBVIOUS
<1>2. CASE Next
  BY <1>1, <1>2, ReplayWholeInv, StartInv, OpenConfigInv, BeginReportInv, ReplayWindowInv,
     FinishReportInv, SummarizeInv, DecideInv DEF Next
<1>3. CASE UNCHANGED vars
  <2>1. UNCHANGED <<stream, job, pc, c, queue, start, rows, kept, picks, table, verdict>>
    BY <1>3 DEF vars
  <2>2. /\ Gate' = Gate /\ Configs' = Configs /\ Accepted' = Accepted /\ BlendAccepted' = BlendAccepted
        /\ Fractions' = Fractions /\ Config' = Config
        /\ \A config : Fitting(config)' = Fitting(config)
    BY <2>1, Steady DEF Config
  <2>3. Control'
    BY <1>1, <2>1, <2>2 DEF Inv, Control
  <2>4. Queued'
    BY <1>1, <2>1, <2>2 DEF Inv, Queued
  <2>5. Reported'
    <3>1. SUFFICES ASSUME pc' = "windows"
                   PROVE  \E m \in Nat :
                            /\ start' = m * Config'.step /\ \A k \in Nat : k < m => k \in Fitting(Config)'
                            /\ HasRows(rows, Config, {k \in Nat : k < m}, Range(Battery(job.params, queue[1])))'
      BY DEF Reported
    <3>2. PICK m \in Nat :
            /\ start = m * Config.step /\ \A k \in Nat : k < m => k \in Fitting(Config)
            /\ HasRows(rows, Config, {k \in Nat : k < m}, Range(Battery(job.params, queue[1])))
      BY <1>1, <2>1, <3>1 DEF Inv, Reported
    <3>3. start' = m * Config'.step /\ \A k \in Nat : k < m => k \in Fitting(Config)'
      BY <2>1, <2>2, <3>2, Zenon DEF Fitting
    <3>4. HasRows(rows, Config, {k \in Nat : k < m}, Range(Battery(job.params, queue[1])))'
      <4>1. \A n, mode : RowAt(Config, n, mode)' = RowAt(Config, n, mode)
        BY <2>1, <2>2, Zenon DEF RowAt, WindowRow
      <4>. DEFINE ns == {k \in Nat : k < m}
                  B == Range(Battery(job.params, queue[1]))
      <4>2. B' = B /\ rows' = rows
        BY <2>1
      <4>3. IsSeq(rows) /\ \A r : r \in Range(rows) <=> \E n \in ns, mode \in B : r = RowAt(Config, n, mode)
        BY <3>2 DEF HasRows
      <4>. HIDE DEF ns, B
      <4>4. /\ IsSeq(rows')
            /\ \A r : r \in Range(rows') <=> \E n \in ns, mode \in B' : r = RowAt(Config, n, mode)'
        BY <4>1, <4>2, <4>3
      <4>. QED  BY <4>4 DEF HasRows, ns, B
    <3>. QED  BY <3>3, <3>4
  <2>6. Keeping'
    BY <1>1, <2>1, KeepingKept DEF Inv, Keeping
  <2>7. Judged'
    BY <1>1, <2>1, JudgedKept DEF Inv
  <2>. QED  BY <2>3, <2>4, <2>5, <2>6, <2>7 DEF Inv
<1>. QED  BY <1>1, <1>2, <1>3

-----------------------------------------------------------------------------
(***************************************************************************)
(* The hedge grid with a window or a step of zero.                          *)
(***************************************************************************)
\* Without swaps in its windows the grid keeps no row; without a step it stays in the first
\* window and keeps none either.
Odd ==
    /\ stream \in Seq(Swap) /\ job \in Jobs /\ ~Regular(job)
    /\ pc \in {"start", "config", "report", "windows", "done", "failed"}
    /\ c = 1 /\ verdict = NoVerdict /\ queue \in Seq(Int) /\ start \in Nat
    /\ pc \in {"config", "report", "windows"} => ~Refused
    /\ pc = "windows" => queue # <<>> /\ (Config.size > 0 => start = 0 /\ Config.size <= Len(stream))
    /\ Config.size = 0 => rows = <<>>
    /\ IsSeq(kept) /\ Range(kept) = {} /\ \A k \in DOMAIN picks : DOMAIN picks[k] = {}

LEMMA OddFacts ==
    ASSUME job \in Jobs, ~Regular(job), c = 1
    PROVE  /\ job.command = "grid" /\ ~Gate /\ SeveralHedges /\ Len(Configs) = 1
           /\ Config \in [size : Nat, step : Nat, min : Nat]
           /\ Config.size \in Nat /\ Config.step \in Nat /\ (Config.size = 0 \/ Config.step = 0)
<1>1. /\ job.command = "grid" /\ ~Positive(job.configs[1])
      /\ job.configs \in Seq([size : Nat, step : Nat, min : Nat]) /\ Len(job.configs) = 1
  BY JobAssumption DEF Regular
<1>2. ~Gate /\ SeveralHedges /\ Configs = job.configs
  BY <1>1 DEF Gate, SeveralHedges, Configs
<1>3. Config = job.configs[1]
  BY <1>2 DEF Config
<1>. DEFINE S == [size : Nat, step : Nat, min : Nat]
<1>4. job.configs[1] \in S
  <2>1. job.configs \in Seq(S) /\ Len(job.configs) = 1
    BY <1>1
  <2>. HIDE DEF S
  <2>. QED  BY <2>1
<1>. QED  BY <1>1, <1>2, <1>3, <1>4 DEF Positive

\* Nothing picked of nothing.
LEMMA PickNothing ==
    ASSUME NEW s, IsSeq(s), Range(s) = {}, NEW I
    PROVE  IsSeq(Pick(s, I)) /\ Range(Pick(s, I)) = {} /\ DOMAIN Pick(s, I) = {}
<1>1. DOMAIN s = {}
  BY DEF Range
<1>2. IsSeq(Pick(s, I)) /\ Range(Pick(s, I)) = {}
  BY <1>1, PickRange
<1>. QED  BY <1>2 DEF Range

LEMMA OddFrame ==
    ASSUME Odd, UNCHANGED <<stream, job, c, verdict>>, queue' \in Seq(Int), start' \in Nat,
           pc' \in {"start", "config", "report", "windows", "done", "failed"},
           pc' \in {"config", "report", "windows"} => ~Refused,
           pc' = "windows" => queue' # <<>> /\ (Config.size > 0 => start' = 0 /\ Config.size <= Len(stream)),
           Config.size = 0 => rows' = <<>>,
           IsSeq(kept'), Range(kept') = {}, \A k \in DOMAIN picks' : DOMAIN picks'[k] = {}
    PROVE  Odd'
<1>1. Configs' = Configs /\ Refused' = Refused
  BY Steady
<1>2. Config' = Config
  BY <1>1 DEF Config
<1>. QED  BY <1>1, <1>2 DEF Odd

LEMMA OddInit == Init /\ ~Regular(job) => Odd
<1>1. HAVE Init /\ ~Regular(job)
<1>2. stream \in Seq(Swap)
  <2>1. PICK s \in Streams : stream = Oriented(Loaded(s))
    BY <1>1 DEF Init
  <2>2. s \in Seq(Swap)
    BY StreamAssumption
  <2>. QED  BY <2>1, <2>2, OrientedTyped
<1>3. IsSeq(<<>>) /\ Range(<<>>) = {}
  BY DEF IsSeq, Range
<1>. QED  BY <1>1, <1>2, <1>3 DEF Init, Odd

LEMMA OddFail == ASSUME Odd, Fail PROVE Odd'
BY OddFrame DEF Odd, Fail

LEMMA OddWindow == ASSUME Odd, ReplayWindow PROVE Odd'
<1>. DEFINE z == Config.size
            d == Config.step
            w == Window(stream, start, z)
            new == WindowRows(w, start, WindowIndex, queue[1])
<1>1. /\ pc = "windows" /\ start + z <= Len(stream)
      /\ rows' = IF d = 0 /\ rows # <<>> THEN rows ELSE rows \o new
      /\ start' = start + d
      /\ UNCHANGED <<stream, job, pc, c, queue, kept, picks, table, verdict>>
  BY Zenon DEF ReplayWindow
<1>2. z \in Nat /\ d \in Nat /\ (z = 0 \/ d = 0)
  BY OddFacts DEF Odd
<1>3. start \in Nat /\ queue # <<>> /\ (z > 0 => start = 0 /\ z <= Len(stream)) /\ (z = 0 => rows = <<>>)
  BY <1>1 DEF Odd
<1>4. ASSUME z = 0 PROVE rows' = <<>>
  <2>1. w = <<>>
    BY <1>3, <1>4, SubSeqEmpty DEF Window
  <2>2. new = <<>>
    BY <2>1, Zenon DEF WindowRows
  <2>3. rows' = rows \o new
    BY <1>1, <1>3, <1>4
  <2>. HIDE DEF new
  <2>4. rows' = <<>> \o <<>>
    BY <1>3, <1>4, <2>2, <2>3
  <2>. QED  BY <2>4, EmptySeq, ConcatEmptySeq
<1>5. z > 0 => start' = 0
  BY <1>1, <1>2, <1>3
<1>6. start' \in Nat
  BY <1>1, <1>2, <1>3
<1>. HIDE DEF z, d, new, w
<1>. QED  BY <1>1, <1>3, <1>4, <1>5, <1>6, OddFrame DEF Odd, z

LEMMA OddFinish == ASSUME Odd, FinishReport PROVE Odd'
<1>1. pc = "windows" /\ start + Config.size > Len(stream)
  BY DEF FinishReport
<1>2. CASE Cardinality(Windows(rows)) < Config.min
  BY <1>2, OddFail DEF FinishReport
<1>3. CASE ~(Cardinality(Windows(rows)) < Config.min)
  <2>1. /\ pc' = "report" /\ queue' = Tail(queue) /\ kept' = kept \o Contribution
        /\ UNCHANGED <<stream, job, c, start, rows, picks, table, verdict>>
    BY <1>3 DEF FinishReport
  <2>2. Config.size = 0 /\ rows = <<>>
    <3>1. Config.size \in Nat /\ Len(stream) \in Nat
      BY OddFacts DEF Odd
    <3>2. ~(Config.size > 0)
      BY <1>1, <3>1 DEF Odd
    <3>. QED  BY <3>1, <3>2 DEF Odd
  <2>3. IsSeq(Contribution) /\ Range(Contribution) = {}
    <3>. DEFINE turned == [j \in DOMAIN rows |-> [rows[j] EXCEPT !.hedge = queue[1]]]
    <3>1. \E I : Contribution = Pick(turned, I)
      BY OddFacts, Zenon DEF Odd, Contribution
    <3>2. DOMAIN rows = {}
      BY <2>2
    <3>3. turned = <<>>
      BY <2>2, <3>2
    <3>4. IsSeq(turned) /\ Range(turned) = {}
      <4>. HIDE DEF turned
      <4>1. IsSeq(<<>>) /\ Range(<<>>) = {}
        BY DEF IsSeq, Range
      <4>. QED  BY <3>3, <4>1
    <3>. HIDE DEF turned
    <3>. QED  BY <3>1, <3>4, PickNothing
  <2>4. IsSeq(kept') /\ Range(kept') = {}
    BY <2>1, <2>3, ConcatRange DEF Odd
  <2>5. queue' \in Seq(Int)
    BY <1>1, <2>1 DEF Odd
  <2>. QED  BY <1>1, <2>1, <2>2, <2>4, <2>5, OddFrame DEF Odd
<1>. QED  BY <1>2, <1>3

LEMMA OddSummary == ASSUME Odd, Summarize PROVE Odd'
<1>. DEFINE none == Of("hedged_narrow", kept)
            p == Selected("lagged_regime_rule", none)
<1>1. ~Gate /\ job.command = "grid"
  BY OddFacts DEF Odd
<1>2. pc' = "done" /\ picks' = <<p>> /\ UNCHANGED <<stream, job, c, queue, start, rows, kept, verdict>>
  BY <1>1, Zenon DEF Summarize
<1>3. DOMAIN none = {}
  BY PickNothing DEF Odd, Of
<1>. HIDE DEF none
<1>4. DOMAIN p = {}
  <2>. DEFINE D == {w \in Windows(none) : w > 0}
              row == [w \in D |-> LaggedRow("lagged_regime_rule", none, w)]
  <2>1. D = {}
    BY <1>3 DEF Windows
  <2>2. p = [j \in 1..Cardinality(D) |-> row[Ascending(D)[j]]]
    BY Zenon DEF Selected, Lagged
  <2>3. Cardinality(D) = 0
    BY <2>1, FS_EmptySet
  <2>. HIDE DEF D, row, p
  <2>. QED  BY <2>2, <2>3
<1>. HIDE DEF p
<1>5. \A k \in DOMAIN picks' : DOMAIN picks'[k] = {}
  BY <1>2, <1>4
<1>. QED  BY <1>2, <1>5, OddFrame DEF Odd

LEMMA OddNext == Odd /\ [Next]_vars => Odd'
<1>1. SUFFICES ASSUME Odd, [Next]_vars PROVE Odd'
  OBVIOUS
<1>2. job.command = "grid" /\ ~Gate /\ Len(Configs) = 1 /\ c = 1
  BY <1>1, OddFacts DEF Odd
<1>3. CASE Start
  BY <1>1, <1>3, OddFail, OddFrame DEF Start, Odd
<1>4. CASE OpenConfig
  <2>1. /\ pc = "config" /\ pc' = "report" /\ queue' = Ascending(Fractions) /\ kept' = <<>>
        /\ UNCHANGED <<stream, job, c, start, rows, picks, table, verdict>>
    BY <1>2, <1>4 DEF OpenConfig
  <2>2. ~Refused
    BY <1>1, <2>1 DEF Odd
  <2>3. queue' \in Seq(Int)
    BY <1>1, <2>1, <2>2, FractionsFacts, AscendingQueue DEF Odd
  <2>4. IsSeq(<<>>) /\ Range(<<>>) = {}
    BY DEF IsSeq, Range
  <2>. QED  BY <1>1, <2>1, <2>2, <2>3, <2>4, OddFrame DEF Odd
<1>5. CASE BeginReport
  <2>1. CASE Fail
    BY <1>1, <2>1, OddFail
  <2>2. CASE ~Fail
    <3>1. /\ pc = "report" /\ queue # <<>> /\ ~(Len(stream) < Config.size)
          /\ pc' = "windows" /\ start' = 0 /\ rows' = <<>>
          /\ UNCHANGED <<stream, job, c, queue, kept, picks, table, verdict>>
      BY <1>5, <2>2 DEF BeginReport
    <3>2. Config.size <= Len(stream)
      <4>1. Config.size \in Nat /\ Len(stream) \in Nat
        BY <1>1, OddFacts DEF Odd
      <4>. QED  BY <3>1, <4>1
    <3>. QED  BY <1>1, <3>1, <3>2, OddFrame DEF Odd
  <2>. QED  BY <2>1, <2>2
<1>6. CASE UNCHANGED vars
  BY <1>1, <1>6, OddFrame DEF vars, Odd
<1>7. ~ReplayWhole /\ ~Decide
  BY <1>2 DEF ReplayWhole, Decide
<1>. QED  BY <1>1, <1>3, <1>4, <1>5, <1>6, <1>7, OddWindow, OddFinish, OddSummary DEF Next

\* The invariant of every job.
LEMMA AnyInit == Init => Inv \/ Odd
BY InitInv, OddInit

LEMMA AnyNext == (Inv \/ Odd) /\ [Next]_vars => (Inv \/ Odd)'
BY NextInv, OddNext

\* The promises of the gate ask nothing of a grid.
LEMMA OddHolds == Odd => NoLookahead /\ ExactHedge /\ CandidateIsSafe
<1>1. HAVE Odd
<1>2. ~Gate /\ verdict # "candidate_shadow"
  BY <1>1, OddFacts DEF Odd, NoVerdict
<1>. QED  BY <1>2 DEF NoLookahead, Choosing, ExactHedge, CandidateIsSafe

-----------------------------------------------------------------------------
(***************************************************************************)
(* No look-ahead, and the hedge of the rule.                                *)
(***************************************************************************)
\* A judged configuration: the inputs were accepted and the selection is from complete rows.
LEMMA JudgedFacts ==
    ASSUME Inv, Gate, NEW k \in DOMAIN picks
    PROVE  /\ Accepted /\ BlendAccepted /\ IsConfig(Configs[k])
           /\ \E rs : Complete(rs, Configs[k]) /\ picks[k] = Selected(job.policy, rs)
<1>1. IsSeq(picks) /\ Len(picks) = c - 1 /\ c \in Nat
  BY DEF Inv, Judged, Control
<1>2. k \in 1..c - 1
  BY <1>1 DEF IsSeq
<1>3. c > 1
  BY <1>1, <1>2
<1>4. PICK rs : Complete(rs, Configs[k]) /\ picks[k] = Selected(job.policy, rs)
  BY <1>2 DEF Inv, Judged
<1>. QED  BY <1>3, <1>4 DEF Inv, Control, Complete

LEMMA ExactHedgeHolds == Inv => ExactHedge
<1>1. SUFFICES ASSUME Inv, Gate, job.policy = "lagged_regime_rule", NEW k \in DOMAIN picks, NEW j \in DOMAIN picks[k]
               PROVE  picks[k][j].w = j /\ picks[k][j].hedge \in RuleValues
  BY DEF ExactHedge
<1>2. PICK rs : Complete(rs, Configs[k]) /\ picks[k] = Selected(job.policy, rs)
  BY <1>1, JudgedFacts
<1>. QED  BY <1>1, <1>2, JudgedFacts, SelectedChoice DEF Choosing

LEMMA NoLookaheadHolds == Inv => NoLookahead
<1>1. SUFFICES ASSUME Inv, Choosing, NEW k \in DOMAIN picks, Configs[k].step >= Configs[k].size
               PROVE  DecidedByThePast(k)
  BY DEF NoLookahead
<1>. DEFINE config == Configs[k]
            p == picks[k]
<1>2. SUFFICES ASSUME NEW t \in {Oriented(Loaded(s)) : s \in Streams}, NEW j \in DOMAIN p, SamePast(stream, t, p[j].start)
               PROVE  Chosen(p[j]) = Choice(Labelled(t, config), p[j].w)
  BY DEF DecidedByThePast
<1>3. Accepted /\ IsConfig(config) /\ \E rs : Complete(rs, config) /\ p = Selected(job.policy, rs)
  BY <1>1, JudgedFacts DEF Choosing
<1>4. PICK rs : Complete(rs, config) /\ p = Selected(job.policy, rs)
  BY <1>3
<1>5. t \in Seq(Swap)
  <2>1. PICK s \in Streams : t = Oriented(Loaded(s))
    BY <1>2
  <2>2. s \in Seq(Swap)
    BY StreamAssumption
  <2>. QED  BY <2>1, <2>2, OrientedTyped
<1>. HIDE DEF config, p
<1>6. /\ j \in Fitting(config) /\ j \in Nat /\ j > 0 /\ p[j].w = j /\ p[j].start = j * config.step
      /\ Chosen(p[j]) = job.rule[Label(config, j - 1)]
  BY <1>1, <1>2, <1>3, <1>4, SelectedChoice
<1>7. Choice(Labelled(t, config), j) = job.rule[Label(config, j - 1)]
  BY <1>1, <1>2, <1>3, <1>5, <1>6, PastDecides DEF config
<1>. QED  BY <1>6, <1>7 DEF config

\* With windows that do not overlap, no choice of a lagged rule depends on a swap of its own
\* window or of a later one, whatever the stream.
THEOREM NeverLooksAhead == Spec => []NoLookahead
<1>1. Inv \/ Odd => NoLookahead
  BY NoLookaheadHolds, OddHolds
<1>. QED  BY AnyInit, AnyNext, <1>1, PTL DEF Spec

\* The gate judges the rule with the fractions the rule names.
THEOREM HedgeOfTheRule == Spec => []ExactHedge
<1>1. Inv \/ Odd => ExactHedge
  BY ExactHedgeHolds, OddHolds
<1>. QED  BY AnyInit, AnyNext, <1>1, PTL DEF Spec

-----------------------------------------------------------------------------
(***************************************************************************)
(* Typed rows.                                                              *)
(***************************************************************************)
\* What run_policy returns: amounts of money, and counts.
ReplayTyped ==
    \A w \in Seq(Swap), j \in Jobs, h \in Int :
        w # <<>> => \A mode \in Range(Battery(j.params, h)) :
                        Replay(w, mode) \in [pnl : Int, dd : Nat, rebalances : Nat]

RowOK(r) ==
    /\ r.regime \in Regimes /\ r.w \in Nat /\ r.dd \in Nat /\ r.apr \in Int \cup {None}
    /\ r.pnl \in Int /\ r.vsHold \in Int /\ r.rebalances \in Nat

LEMMA AprTyped ==
    ASSUME NEW pnl \in Int, NEW w \in Seq(Swap), w # <<>>
    PROVE  Apr(pnl, w) \in Int \cup {None}
<1>. DEFINE span == w[Len(w)].block - w[1].block
            x == pnl * AprScale
<1>1. Len(w) \in 1..Len(w) /\ 1 \in 1..Len(w) /\ \A i \in 1..Len(w) : w[i] \in Swap
  OBVIOUS
<1>2. w[Len(w)].block \in Nat /\ w[1].block \in Nat
  BY <1>1 DEF Swap
<1>3. span \in Int /\ x \in Int
  BY <1>2, ThresholdAssumption, SMTT(60)
<1>4. Apr(pnl, w) = IF span <= 0 THEN None ELSE x \div span
  BY Zenon DEF Apr
<1>. HIDE DEF span, x
<1>. QED  BY <1>3, <1>4

LEMMA RowAtTyped ==
    ASSUME ReplayTyped, job \in Jobs, stream \in Seq(Swap), NEW config, IsConfig(config),
           NEW n \in Fitting(config), NEW h \in Int, NEW mode \in Range(Battery(job.params, h))
    PROVE  RowOK(RowAt(config, n, mode))
<1>. DEFINE d == n * config.step
            z == config.size
            w == Window(stream, d, z)
            hold == Battery(job.params, 0)[1]
            r == RowAt(config, n, mode)
<1>1. n \in Nat /\ d \in Nat /\ z \in Nat /\ z > 0 /\ d + z <= Len(stream) /\ Len(stream) \in Nat
  <2>1. n \in Nat /\ d + z <= Len(stream) /\ config.step \in Nat /\ config.size \in Nat /\ config.size > 0
    BY FittingFacts DEF IsConfig, Positive
  <2>. QED  BY <2>1
<1>. HIDE DEF d, z
<1>2. w \in Seq(Swap) /\ w # <<>>
  BY FittingWindow DEF d, z
<1>. HIDE DEF w
<1>3. hold \in Range(Battery(job.params, 0))
  <2>1. 1 \in DOMAIN Battery(job.params, 0)
    BY BatteryFacts
  <2>. QED  BY <2>1 DEF Range
<1>. HIDE DEF hold
<1>4. Replay(w, mode) \in [pnl : Int, dd : Nat, rebalances : Nat]
  BY <1>2 DEF ReplayTyped
<1>5. Replay(w, hold) \in [pnl : Int, dd : Nat, rebalances : Nat]
  BY <1>2, <1>3 DEF ReplayTyped
<1>6. /\ r.w = n /\ r.regime \in Regimes /\ r.pnl = Replay(w, mode).pnl
      /\ r.vsHold = Replay(w, mode).pnl - Replay(w, hold).pnl
      /\ r.apr = Apr(Replay(w, mode).pnl, w) /\ r.dd = Replay(w, mode).dd
      /\ r.rebalances = Replay(w, mode).rebalances
  BY RowAtFields DEF w, d, z, hold
<1>. HIDE DEF r
<1>7. r.apr \in Int \cup {None}
  BY <1>2, <1>4, <1>6, AprTyped
<1>8. RowOK(r)
  BY <1>1, <1>4, <1>5, <1>6, <1>7 DEF RowOK
<1>. QED  BY <1>8 DEF r

\* The modes of a fraction are modes of a battery.
LEMMA ModesOfBattery ==
    ASSUME Accepted, NEW mode \in Modes(Fractions)
    PROVE  \E h \in Int : mode \in Range(Battery(job.params, h))
<1>1. Fractions \subseteq Int
  BY FractionsFacts DEF Accepted
<1>2. CASE SeveralHedges
  <2>1. PICK f \in Fractions : mode = Battery(job.params, f)[7]
    BY <1>2 DEF Modes
  <2>2. 7 \in DOMAIN Battery(job.params, f)
    BY BatteryFacts
  <2>. QED  BY <1>1, <2>1, <2>2 DEF Range
<1>3. CASE ~SeveralHedges
  BY <1>1, <1>3 DEF Modes
<1>. QED  BY <1>2, <1>3

LEMMA CompleteTyped ==
    ASSUME ReplayTyped, Accepted, NEW rs, NEW config, Complete(rs, config)
    PROVE  /\ \A n \in Fitting(config), mode \in Modes(Fractions) : RowOK(RowAt(config, n, mode))
           /\ \A r \in Range(rs) : RowOK(r)
<1>1. \A n \in Fitting(config), mode \in Modes(Fractions) : RowOK(RowAt(config, n, mode))
  <2>1. TAKE n \in Fitting(config), mode \in Modes(Fractions)
  <2>2. PICK h \in Int : mode \in Range(Battery(job.params, h))
    BY ModesOfBattery
  <2>. QED  BY <2>2, RowAtTyped DEF Accepted, Complete
<1>. QED  BY <1>1 DEF Complete

Fields == {"w", "start", "policy", "hedge", "regime", "pnl", "vsHold", "apr", "dd", "rebalances"}

LEMMA CashTyped ==
    ASSUME NEW r, RowOK(r), DOMAIN r = Fields
    PROVE  RowOK(CashRow(r))
<1>. DEFINE q == CashRow(r)
<1>1. /\ q.regime = r.regime /\ q.w = r.w /\ q.dd = 0 /\ q.apr = 0 /\ q.pnl = 0 /\ q.vsHold = -r.pnl /\ q.rebalances = 0
  BY DEF CashRow, Fields
<1>. HIDE DEF q
<1>2. RowOK(q)
  BY <1>1 DEF RowOK
<1>. QED  BY <1>2 DEF q

LEMMA MixTyped ==
    ASSUME NEW wide \in 0..100, NEW x \in Int, NEW y \in Int
    PROVE  /\ ((100 - wide) * x + wide * y) \div 100 \in Int
           /\ x \in Nat /\ y \in Nat => ((100 - wide) * x + wide * y) \div 100 \in Nat
<1>. DEFINE a == (100 - wide) * x
            b == wide * y
<1>1. a \in Int /\ b \in Int
  OBVIOUS
<1>2. x \in Nat /\ y \in Nat => a \in Nat /\ b \in Nat
  <2>1. 100 - wide \in Nat /\ wide \in Nat
    OBVIOUS
  <2>2. \A m, n \in Nat : m * n \in Nat
    OBVIOUS
  <2>. QED  BY <2>1, <2>2
<1>. HIDE DEF a, b
<1>3. (a + b) \div 100 \in Int
  BY <1>1
<1>4. a \in Nat /\ b \in Nat => (a + b) \div 100 \in Nat
  OBVIOUS
<1>. QED  BY <1>2, <1>3, <1>4 DEF a, b

LEMMA BlendTyped ==
    ASSUME NEW wide \in 0..100, NEW d, RowOK(d), DOMAIN d = Fields, NEW h, RowOK(h)
    PROVE  RowOK(BlendRow(wide, d, h))
<1>. DEFINE q == BlendRow(wide, d, h)
            mix(x, y) == ((100 - wide) * x + wide * y) \div 100
<1>1. /\ q.regime = d.regime /\ q.w = d.w
      /\ q.pnl = mix(d.pnl, h.pnl) /\ q.vsHold = mix(d.vsHold, h.vsHold)
      /\ q.apr = IF None \in {d.apr, h.apr} THEN None ELSE mix(d.apr, h.apr)
      /\ q.dd = mix(d.dd, h.dd) /\ q.rebalances = mix(d.rebalances, h.rebalances)
  <2>. HIDE DEF mix
  <2>1. q = [d EXCEPT !.policy = "lagged_policy_blend", !.pnl = mix(@, h.pnl), !.vsHold = mix(@, h.vsHold),
                      !.apr = IF None \in {@, h.apr} THEN None ELSE mix(@, h.apr),
                      !.dd = mix(@, h.dd), !.rebalances = mix(@, h.rebalances)]
    BY Zenon DEF BlendRow, mix
  <2>. HIDE DEF q
  <2>. QED  BY <2>1 DEF Fields
<1>2. /\ \A x, y \in Int : mix(x, y) \in Int
      /\ \A x, y \in Nat : mix(x, y) \in Nat
  BY MixTyped
<1>. HIDE DEF q, mix
<1>3. q.apr \in Int \cup {None}
  <2>1. CASE None \in {d.apr, h.apr}
    BY <1>1, <2>1
  <2>2. CASE None \notin {d.apr, h.apr}
    <3>1. d.apr \in Int /\ h.apr \in Int
      BY <2>2 DEF RowOK
    <3>. QED  BY <1>1, <1>2, <2>2, <3>1
  <2>. QED  BY <2>1, <2>2
<1>4. q.pnl \in Int /\ q.vsHold \in Int /\ q.dd \in Nat /\ q.rebalances \in Nat
  BY <1>1, <1>2 DEF RowOK
<1>5. RowOK(q)
  BY <1>1, <1>3, <1>4 DEF RowOK
<1>. QED  BY <1>5 DEF q

\* What the gate selects is typed.
LEMMA SelectedTyped ==
    ASSUME ReplayTyped, Accepted, BlendAccepted, Gate, NEW rs, NEW config, Complete(rs, config)
    PROVE  \A j \in DOMAIN Selected(job.policy, rs) : RowOK(Selected(job.policy, rs)[j])
<1>. DEFINE p == Selected(job.policy, rs)
<1>1. /\ \A n \in Fitting(config), mode \in Modes(Fractions) : RowOK(RowAt(config, n, mode))
      /\ \A r \in Range(rs) : RowOK(r)
      /\ IsSeq(rs)
  BY CompleteTyped DEF Complete
<1>0. \A n, mode : DOMAIN RowAt(config, n, mode) = Fields
  BY RowAtFields DEF Fields
<1>2. CASE job.policy \notin Lagged
  <2>1. p = Pick(rs, {j \in DOMAIN rs : rs[j].policy = job.policy})
    BY <1>2, Zenon DEF Selected, Of
  <2>. HIDE DEF p
  <2>2. \A r \in Range(p) : r \in Range(rs)
    BY <1>1, <2>1, PickRange DEF Range
  <2>3. \A j \in DOMAIN p : p[j] \in Range(rs)
    BY <2>2 DEF Range
  <2>. QED  BY <1>1, <2>3 DEF p
<1>3. CASE job.policy \in Lagged
  <2>1. \A j \in DOMAIN p : j \in Fitting(config) /\ j \in Nat /\ j > 0 /\ p[j] = LaggedRow(job.policy, rs, j)
    BY <1>3, LaggedShape
  <2>2. ASSUME NEW j \in DOMAIN p PROVE RowOK(p[j])
    <3>. DEFINE row == LaggedRow(job.policy, rs, j)
                choice == Choice(rs, j)
    <3>0. p[j] = row /\ j \in Fitting(config) /\ j > 0
      BY <2>1
    <3>1. CASE job.policy = "lagged_regime_rule"
      BY <1>1, <3>0, <3>1, HedgeRow
    <3>2. CASE job.policy = "lagged_policy_switch"
      <4>1. \E mode \in Modes(Fractions) :
              \/ row = RowAt(config, j, mode) /\ mode.policy = choice
              \/ row = CashRow(RowAt(config, j, mode)) /\ choice = "stand_down_cash"
        BY <3>0, <3>2, SwitchRow
      <4>. HIDE DEF row, choice, p
      <4>. QED  BY <1>0, <1>1, <3>0, <4>1, CashTyped
    <3>3. CASE job.policy = "lagged_policy_blend"
      <4>1. choice \in 0..100 /\ \E d, h \in Modes(Fractions) :
              row = BlendRow(choice, RowAt(config, j, d), RowAt(config, j, h))
        BY <3>0, <3>3, MixedRow
      <4>. HIDE DEF row, choice, p
      <4>. QED  BY <1>0, <1>1, <3>0, <4>1, BlendTyped
    <3>. QED  BY <1>3, <3>1, <3>2, <3>3 DEF Lagged
  <2>. QED  BY <2>2 DEF p
<1>. QED  BY <1>2, <1>3 DEF p

\* So is what the grid lists for its rule.
LEMMA GridTyped ==
    ASSUME ReplayTyped, Accepted, job.command = "grid", NEW rs, NEW config, Complete(rs, config)
    PROVE  \A j \in DOMAIN Selected("lagged_regime_rule", rs) : RowOK(Selected("lagged_regime_rule", rs)[j])
<1>. DEFINE p == Selected("lagged_regime_rule", rs)
<1>1. \A n \in Fitting(config), mode \in Modes(Fractions) : RowOK(RowAt(config, n, mode))
  BY CompleteTyped
<1>2. SeveralHedges /\ ~Gate /\ "lagged_regime_rule" \in Lagged
  BY DEF SeveralHedges, Gate, Lagged
<1>3. ASSUME NEW j \in DOMAIN p PROVE RowOK(p[j])
  <2>1. j \in Fitting(config) /\ j > 0 /\ p[j] = LaggedRow("lagged_regime_rule", rs, j)
    BY <1>2, LaggedShape
  <2>2. Choice(rs, j) \in Int
    BY <1>2, <2>1, PriorLabel, JobFacts DEF Accepted
  <2>3. p[j] = NearestHedge(rs, j, Choice(rs, j))
    BY <2>1, Zenon DEF LaggedRow
  <2>. HIDE DEF p
  <2>4. PICK f \in Fractions : p[j] = RowAt(config, j, Battery(job.params, f)[7])
    BY <1>2, <2>1, <2>2, <2>3, NearestRow
  <2>5. Battery(job.params, f)[7] \in Modes(Fractions)
    BY <1>2 DEF Modes
  <2>. QED  BY <1>1, <2>1, <2>4, <2>5
<1>. QED  BY <1>3 DEF p

-----------------------------------------------------------------------------
(***************************************************************************)
(* A candidate is safe.                                                     *)
(***************************************************************************)
\* A replayed row names its mode: its policy and its hedge single it out.
LEMMA ReplayedIsEvidence ==
    ASSUME NEW config, NEW r, Replayed(r, config)
    PROVE  Evidence(r, config)
<1>1. PICK n \in Fitting(config), mode \in Modes(Fractions) : r = RowAt(config, n, mode)
  BY DEF Replayed
<1>2. \E f : mode \in Range(Battery(job.params, f))
  <2>1. CASE SeveralHedges
    <3>1. PICK f \in Fractions : mode = Battery(job.params, f)[7]
      BY <2>1 DEF Modes
    <3>2. 7 \in DOMAIN Battery(job.params, f)
      BY BatteryFacts
    <3>. QED  BY <3>1, <3>2 DEF Range
  <2>2. CASE ~SeveralHedges
    BY <2>2 DEF Modes
  <2>. QED  BY <2>1, <2>2
<1>3. mode \in Range(Battery(job.params, mode.hedge))
  BY <1>2, ModeFacts
<1>. DEFINE w == Window(stream, r.start, config.size)
            B == Range(Battery(job.params, r.hedge))
            C(m) == m.policy = r.policy
            own == CHOOSE m \in B : C(m)
<1>4. /\ r.hedge = mode.hedge /\ r.policy = mode.policy
      /\ r.pnl = Replay(w, mode).pnl /\ r.apr = Apr(r.pnl, w)
  BY <1>1, RowAtFields
<1>5. mode \in B /\ C(mode) /\ \A m \in B : C(m) => m = mode
  BY <1>3, <1>4, ModeFacts
<1>. HIDE DEF B, C
<1>6. own = mode
  BY <1>5
<1>7. Evidence(r, config) <=> r.pnl = Replay(w, own).pnl /\ r.apr = Apr(r.pnl, w)
  BY Zenon DEF Evidence, B, C
<1>. QED  BY <1>4, <1>6, <1>7

LEMMA ReasonsFacts ==
    ASSUME NEW config, NEW s, Reasons(config, s) = {},
           config.min \in Nat, s.windows \in Nat, s.dd \in Nat, s.p05 \in Int \cup {None}
    PROVE  s.windows >= config.min /\ s.p05 \in Int /\ s.p05 >= MinP05 /\ s.dd <= MaxDrawdown
<1>1. MinP05 \in Int /\ MaxDrawdown \in Int
  BY ThresholdAssumption
<1>2. "windows" \notin Reasons(config, s) /\ "p05_apr" \notin Reasons(config, s) /\ "worst_dd" \notin Reasons(config, s)
  OBVIOUS
<1>3. ~(s.windows < config.min)
  BY <1>2 DEF Reasons
<1>4. ~(s.p05 = None \/ s.p05 < MinP05)
  BY <1>2 DEF Reasons
<1>5. ~(s.dd > MaxDrawdown)
  BY <1>2 DEF Reasons
<1>. QED  BY <1>1, <1>3, <1>4, <1>5

LEMMA CandidateHolds == ReplayTyped /\ Inv => CandidateIsSafe
<1>1. SUFFICES ASSUME ReplayTyped, Inv, verdict = "candidate_shadow", NEW k \in DOMAIN Configs
               PROVE  /\ Len(picks[k]) >= Configs[k].min
                      /\ \E j \in DOMAIN picks[k] : picks[k][j].apr # None
                      /\ \A j \in DOMAIN picks[k] :
                            /\ picks[k][j].dd <= MaxDrawdown
                            /\ Len(picks[k]) <= 20 => picks[k][j].apr = None \/ picks[k][j].apr >= MinP05
                            /\ picks[k][j].policy \in {"hedged_narrow", "delta_hedged", "hedged_wide", "delta_trend_stop"}
                                    => Evidence(picks[k][j], Configs[k])
  BY DEF CandidateIsSafe
<1>2. Gate /\ c = Len(Configs) + 1 /\ verdict = Verdict(table)
  BY <1>1 DEF Inv, Judged, NoVerdict
<1>3. /\ IsSeq(picks) /\ Len(picks) = c - 1 /\ IsSeq(table) /\ Len(table) = c - 1
      /\ \A i \in 1..c - 1 :
            table[i] = [stats |-> Summary(picks[i]), reasons |-> Reasons(Configs[i], Summary(picks[i]))]
  BY <1>1, <1>2 DEF Inv, Judged
<1>4. k \in 1..c - 1 /\ k \in DOMAIN picks /\ k \in DOMAIN table
  <2>1. Len(Configs) \in Nat /\ DOMAIN Configs = 1..Len(Configs)
    <3>1. job \in Jobs
      BY <1>1 DEF Inv, Control
    <3>2. job.configs \in Seq([size : Nat, step : Nat, min : Nat])
      BY <3>1, JobAssumption
    <3>3. DefaultConfigs \in Seq([size : Nat, step : Nat, min : Nat])
      BY DEF DefaultConfigs
    <3>. QED  BY <3>2, <3>3, SMTT(60) DEF Configs
  <2>2. k \in 1..c - 1
    BY <1>1, <1>2, <2>1
  <2>. QED  BY <1>3, <2>2 DEF IsSeq
<1>. DEFINE p == picks[k]
            config == Configs[k]
            n == Len(p)
            s == Summary(p)
<1>5. Reasons(config, s) = {}
  <2>1. \A j \in DOMAIN table : table[j].reasons = {}
    <3>. DEFINE Clean == \A j \in DOMAIN table : table[j].reasons = {}
                Losing == \E j \in DOMAIN table : LET t == table[j].stats IN t.vsHold < 0 \/ t.p05 = None \/ t.p05 < 0
    <3>1. Verdict(table) = IF Clean THEN "candidate_shadow" ELSE IF Losing THEN "reject_replay" ELSE "needs_more_data"
      BY Zenon DEF Verdict
    <3>. HIDE DEF Clean, Losing
    <3>2. Clean
      BY <1>1, <1>2, <3>1
    <3>. QED  BY <3>2 DEF Clean
  <2>2. table[k].reasons = Reasons(config, s)
    BY <1>3, <1>4
  <2>. QED  BY <1>4, <2>1, <2>2
<1>6. PICK rs : Complete(rs, config) /\ p = Selected(job.policy, rs)
  BY <1>1, <1>2, <1>4, JudgedFacts
<1>7. Accepted /\ BlendAccepted /\ IsConfig(config)
  BY <1>1, <1>2, <1>4, JudgedFacts
<1>. HIDE DEF p, config
<1>8. IsSeq(p) /\ \A j \in DOMAIN p : p[j].policy \in Positions => Replayed(p[j], config)
  BY <1>2, <1>6, <1>7, SelectedRows
<1>9. \A j \in DOMAIN p : RowOK(p[j])
  BY <1>1, <1>2, <1>6, <1>7, SelectedTyped
<1>10. n \in Nat /\ DOMAIN p = 1..n /\ \A j \in 1..n : p[j].apr \in Int \cup {None} /\ p[j].dd \in Int
  BY <1>8, <1>9 DEF IsSeq, RowOK
<1>11. /\ s.windows = n /\ s.dd \in Nat /\ \A j \in 1..n : p[j].dd <= s.dd
       /\ s.p05 \in Int \cup {None}
       /\ s.p05 # None => \E j \in 1..n : p[j].apr # None
       /\ n <= 20 => \A j \in 1..n : p[j].apr # None => s.p05 # None /\ s.p05 <= p[j].apr
  <2>. HIDE DEF s
  <2>1. None \notin Int /\ Len(p) = n
    BY NoneAssumption
  <2>2. n \in Nat /\ DOMAIN p = 1..n /\ \A j \in 1..n : p[j].apr \in Int \cup {None} /\ p[j].dd \in Int
    BY <1>10
  <2>. HIDE DEF n
  <2>. QED  BY <2>1, <2>2, SummaryFacts, SMTT(60) DEF s
<1>. HIDE DEF s, n
<1>12. s.windows >= config.min /\ s.p05 \in Int /\ s.p05 >= MinP05 /\ s.dd <= MaxDrawdown
  BY <1>5, <1>7, <1>10, <1>11, ReasonsFacts DEF IsConfig
<1>13. Len(p) >= config.min
  BY <1>11, <1>12 DEF n
<1>14. \E j \in DOMAIN p : p[j].apr # None
  BY <1>10, <1>11, <1>12, NoneAssumption
<1>15. ASSUME NEW j \in DOMAIN p
       PROVE  /\ p[j].dd <= MaxDrawdown
              /\ Len(p) <= 20 => p[j].apr = None \/ p[j].apr >= MinP05
              /\ p[j].policy \in {"hedged_narrow", "delta_hedged", "hedged_wide", "delta_trend_stop"}
                    => Evidence(p[j], config)
  <2>1. j \in 1..n /\ MinP05 \in Int /\ MaxDrawdown \in Int
    BY <1>10, ThresholdAssumption
  <2>2. p[j].dd <= MaxDrawdown
    BY <1>10, <1>11, <1>12, <2>1
  <2>3. Len(p) <= 20 => p[j].apr = None \/ p[j].apr >= MinP05
    <3>1. HAVE Len(p) <= 20
    <3>2. CASE p[j].apr # None
      <4>1. s.p05 <= p[j].apr /\ p[j].apr \in Int
        BY <1>10, <1>11, <2>1, <3>1, <3>2 DEF n
      <4>. QED  BY <1>12, <2>1, <4>1
    <3>. QED  BY <3>2
  <2>4. p[j].policy \in Positions => Evidence(p[j], config)
    BY <1>8, ReplayedIsEvidence
  <2>. QED  BY <2>2, <2>3, <2>4 DEF Positions
<1>. QED  BY <1>13, <1>14, <1>15 DEF p, config

\* A candidate has enough windows in every configuration, none of them outside the limits, and
\* every row that speaks for it replays its own stretch of the stream.
THEOREM CandidatesAreSafe == ReplayTyped => (Spec => []CandidateIsSafe)
<1>. SUFFICES ASSUME ReplayTyped PROVE Spec => []CandidateIsSafe
  OBVIOUS
<1>1. Inv \/ Odd => CandidateIsSafe
  BY CandidateHolds, OddHolds
<1>. QED  BY AnyInit, AnyNext, <1>1, PTL DEF Spec

-----------------------------------------------------------------------------
(***************************************************************************)
(* Types.                                                                   *)
(***************************************************************************)
AllOK(rs) == \A r \in Range(rs) : RowOK(r)

Typed ==
    /\ AllOK(rows) /\ AllOK(kept) /\ IsSeq(rows) /\ IsSeq(kept)
    /\ \A k \in DOMAIN picks : \A j \in DOMAIN picks[k] : RowOK(picks[k][j])

LEMMA ContributionTyped ==
    ASSUME IsSeq(rows), AllOK(rows), \A r \in Range(rows) : DOMAIN r = Fields
    PROVE  AllOK(Contribution)
<1>. DEFINE f == queue[1]
            turned == [j \in DOMAIN rows |-> [rows[j] EXCEPT !.hedge = f]]
            I == {j \in DOMAIN rows :
                    \/ rows[j].policy = "hedged_narrow"
                    \/ /\ job.command = "grid" /\ f = Min(Fractions)
                       /\ rows[j].policy \in {"delta_hedged", "hedged_wide"}}
            p == Contribution
<1>1. CASE ~SeveralHedges
  <2>1. p = rows
    BY <1>1, Zenon DEF Contribution
  <2>. QED  BY <2>1
<1>2. CASE SeveralHedges
  <2>1. p = Pick(turned, I)
    BY <1>2, Zenon DEF Contribution
  <2>2. IsSeq(turned) /\ DOMAIN turned = DOMAIN rows /\ \A j \in DOMAIN rows : turned[j] = [rows[j] EXCEPT !.hedge = f]
    <3>1. Len(rows) \in Nat /\ DOMAIN rows = 1..Len(rows)
      BY DEF IsSeq
    <3>2. turned = [j \in 1..Len(rows) |-> turned[j]] /\ DOMAIN turned = DOMAIN rows
      BY <3>1
    <3>3. \A j \in DOMAIN rows : turned[j] = [rows[j] EXCEPT !.hedge = f]
      OBVIOUS
    <3>. HIDE DEF turned
    <3>4. turned \in [1..Len(rows) -> Range(turned)]
      BY <3>1, <3>2 DEF Range
    <3>. QED  BY <3>1, <3>2, <3>3, <3>4, FunctionIsSeq
  <2>. HIDE DEF turned, I
  <2>3. \A r \in Range(p) : \E i \in DOMAIN rows : r = [rows[i] EXCEPT !.hedge = f]
    BY <2>1, <2>2, PickRange
  <2>4. ASSUME NEW i \in DOMAIN rows PROVE RowOK([rows[i] EXCEPT !.hedge = f])
    <3>. DEFINE r == rows[i]
    <3>1. RowOK(r) /\ DOMAIN r = Fields
      BY DEF AllOK, Range
    <3>. HIDE DEF r, f
    <3>2. RowOK([r EXCEPT !.hedge = f])
      BY <3>1 DEF RowOK, Fields
    <3>. QED  BY <3>2 DEF r
  <2>. HIDE DEF p
  <2>. QED  BY <2>3, <2>4 DEF AllOK, p
<1>. QED  BY <1>1, <1>2

LEMMA InitTyped == Init => Typed
<1>1. IsSeq(<<>>) /\ \A r : r \notin Range(<<>>)
  BY DEF IsSeq, Range
<1>. QED  BY <1>1 DEF Init, Typed, AllOK

LEMMA TypedStays ==
    ASSUME Typed, UNCHANGED <<rows, kept, picks>>
    PROVE  Typed'
BY DEF Typed, AllOK

LEMMA WindowTyped == ASSUME ReplayTyped, Inv, Typed, ReplayWindow PROVE Typed'
<1>1. /\ pc = "windows" /\ pc' = "windows"
      /\ UNCHANGED <<stream, job, c, queue, kept, picks>>
  BY Zenon DEF ReplayWindow
<1>2. Inv'
  BY ReplayWindowInv
<1>3. Accepted /\ IsConfig(Config) /\ queue # <<>> /\ queue \in Seq(Int)
  BY <1>1, OpenConfigFacts DEF Inv, Control, Queued
<1>4. /\ Config' = Config
      /\ \A config, n, mode : RowAt(config, n, mode)' = RowAt(config, n, mode)
      /\ \A config : Fitting(config)' = Fitting(config)
  BY <1>1, Steady DEF Config
<1>5. PICK m \in Nat :
        /\ \A k \in Nat : k < m => k \in Fitting(Config)'
        /\ HasRows(rows, Config, {k \in Nat : k < m}, Range(Battery(job.params, queue[1])))'
  BY <1>1, <1>2 DEF Inv, Reported
<1>. DEFINE ns == {k \in Nat : k < m}
            B == Range(Battery(job.params, queue[1]))
<1>6. \A k \in ns : k \in Fitting(Config)
  <2>1. Fitting(Config)' = Fitting(Config)
    BY <1>1, <1>4, Zenon DEF Fitting
  <2>. QED  BY <1>5, <2>1
<1>7. IsSeq(rows') /\ \A r : r \in Range(rows') <=> \E n \in ns, mode \in B : r = RowAt(Config, n, mode)
  <2>1. \A n, mode : RowAt(Config, n, mode)' = RowAt(Config, n, mode)
    BY <1>1, <1>4, Zenon DEF RowAt, WindowRow
  <2>2. B' = B
    BY <1>1
  <2>3. IsSeq(rows') /\ \A r : r \in Range(rows') <=> \E n \in ns, mode \in B' : r = RowAt(Config, n, mode)'
    BY <1>5 DEF HasRows
  <2>. HIDE DEF ns, B
  <2>. QED  BY <2>1, <2>2, <2>3
<1>8. queue[1] \in Int
  BY <1>3
<1>9. AllOK(rows')
  <2>. HIDE DEF ns
  <2>1. \A n \in ns, mode \in B : RowOK(RowAt(Config, n, mode))
    BY <1>3, <1>6, <1>8, RowAtTyped DEF Accepted
  <2>. HIDE DEF B
  <2>. QED  BY <1>7, <2>1 DEF AllOK
<1>. QED  BY <1>1, <1>7, <1>9 DEF Typed, AllOK

LEMMA FinishTyped == ASSUME ReplayTyped, Inv, Typed, FinishReport PROVE Typed'
<1>1. pc = "windows"
  BY DEF FinishReport
<1>2. CASE Cardinality(Windows(rows)) < Config.min
  BY <1>2, TypedStays DEF FinishReport, Fail
<1>3. CASE ~(Cardinality(Windows(rows)) < Config.min)
  <2>1. kept' = kept \o Contribution /\ UNCHANGED <<stream, job, rows, picks>> /\ pc' = "report"
    BY <1>3 DEF FinishReport
  <2>2. PICK m \in Nat : HasRows(rows, Config, {k \in Nat : k < m}, Range(Battery(job.params, queue[1])))
    BY <1>1 DEF Inv, Reported
  <2>3. IsSeq(rows) /\ \A r \in Range(rows) : DOMAIN r = Fields
    BY <2>2, RowAtFields DEF HasRows, Fields
  <2>4. IsSeq(Contribution)
    BY <2>2, ContributionRows DEF KeepsRows
  <2>5. AllOK(Contribution)
    BY <2>3, ContributionTyped DEF Typed
  <2>6. IsSeq(kept') /\ \A r : r \in Range(kept') <=> r \in Range(kept) \/ r \in Range(Contribution)
    BY <2>1, <2>4, ConcatRange DEF Typed
  <2>. QED  BY <2>1, <2>5, <2>6 DEF Typed, AllOK
<1>. QED  BY <1>2, <1>3

LEMMA SummarizeTyped == ASSUME ReplayTyped, Inv, Typed, Summarize PROVE Typed'
<1>1. pc = "report" /\ queue = <<>> /\ rows' = rows /\ kept' = kept
  BY DEF Summarize, Fail
<1>2. Accepted /\ BlendAccepted
  BY <1>1, KeptComplete
<1>3. CASE ~Gate /\ job.command # "grid"
  BY <1>1, <1>3, TypedStays DEF Summarize
<1>4. CASE ~Gate /\ job.command = "grid"
  <2>. DEFINE p == Selected("lagged_regime_rule", Of("hedged_narrow", kept))
  <2>1. picks' = <<p>>
    BY <1>4, Zenon DEF Summarize
  <2>2. \A j \in DOMAIN p : RowOK(p[j])
    BY <1>1, <1>2, <1>4, KeptComplete, GridTyped
  <2>. HIDE DEF p
  <2>3. \A k \in DOMAIN picks' : picks'[k] = p
    BY <2>1
  <2>. QED  BY <1>1, <2>2, <2>3 DEF Typed, AllOK
<1>5. CASE Gate /\ Selected(job.policy, kept) = <<>>
  BY <1>5, TypedStays DEF Summarize, Fail
<1>6. CASE Gate /\ Selected(job.policy, kept) # <<>>
  <2>. DEFINE p == Selected(job.policy, kept)
  <2>1. picks' = Append(picks, p)
    BY <1>6, Zenon DEF Summarize
  <2>2. \A j \in DOMAIN p : RowOK(p[j])
    <3>1. job.command # "grid"
      BY <1>6 DEF Gate
    <3>. QED  BY <1>1, <1>2, <1>6, <3>1, KeptComplete, SelectedTyped
  <2>. HIDE DEF p
  <2>3. IsSeq(picks)
    BY <1>6 DEF Inv, Judged
  <2>4. \A k \in DOMAIN picks' : picks'[k] = p \/ (k \in DOMAIN picks /\ picks'[k] = picks[k])
    <3>1. /\ IsSeq(picks') /\ Len(picks') = Len(picks) + 1 /\ picks'[Len(picks) + 1] = p
          /\ \A k \in 1..Len(picks) : picks'[k] = picks[k]
      BY <2>1, <2>3, AppendFacts
    <3>2. Len(picks) \in Nat /\ DOMAIN picks = 1..Len(picks) /\ DOMAIN picks' = 1..Len(picks) + 1
      BY <2>3, <3>1 DEF IsSeq
    <3>3. \A k \in 1..Len(picks) + 1 : k \in 1..Len(picks) \/ k = Len(picks) + 1
      BY <3>2
    <3>. QED  BY <3>1, <3>2, <3>3
  <2>5. \A k \in DOMAIN picks' : \A j \in DOMAIN picks'[k] : RowOK(picks'[k][j])
    BY <2>2, <2>4 DEF Typed
  <2>. QED  BY <1>1, <2>5 DEF Typed, AllOK
<1>. QED  BY <1>3, <1>4, <1>5, <1>6

LEMMA NextTyped == ReplayTyped /\ Inv /\ Typed /\ [Next]_vars => Typed'
<1>1. SUFFICES ASSUME ReplayTyped, Inv, Typed, [Next]_vars PROVE Typed'
  OBVIOUS
<1>2. CASE ReplayWhole
  BY <1>1, <1>2, TypedStays DEF ReplayWhole, Fail
<1>3. CASE Start
  BY <1>1, <1>3, TypedStays DEF Start, Fail
<1>4. CASE OpenConfig
  <2>1. IsSeq(<<>>) /\ \A r : r \notin Range(<<>>)
    BY DEF IsSeq, Range
  <2>. QED  BY <1>1, <1>4, <2>1 DEF OpenConfig, Fail, Typed, AllOK
<1>5. CASE BeginReport
  <2>1. IsSeq(<<>>) /\ \A r : r \notin Range(<<>>)
    BY DEF IsSeq, Range
  <2>. QED  BY <1>1, <1>5, <2>1 DEF BeginReport, Fail, Typed, AllOK
<1>6. CASE Decide
  BY <1>1, <1>6, TypedStays DEF Decide
<1>7. CASE UNCHANGED vars
  BY <1>1, <1>7, TypedStays DEF vars
<1>. QED  BY <1>1, <1>2, <1>3, <1>4, <1>5, <1>6, <1>7, WindowTyped, FinishTyped, SummarizeTyped DEF Next

LEMMA TypesHold == Inv /\ Typed => TypeOK
<1>1. SUFFICES ASSUME Inv, Typed PROVE TypeOK
  OBVIOUS
<1>2. /\ stream \in Seq(Swap) /\ job \in Jobs
      /\ pc \in {"start", "config", "report", "windows", "done", "failed"}
      /\ c \in 1..Len(Configs) + 1 /\ queue \in Seq(Int) /\ start \in Nat
  <2>1. job \in Jobs /\ c \in Nat /\ c >= 1 /\ c <= Len(Configs) + 1
    BY <1>1 DEF Inv, Control
  <2>2. Len(Configs) \in Nat
    BY <2>1, ConfigsTyped
  <2>. QED  BY <1>1, <2>1, <2>2 DEF Inv, Control
<1>3. verdict \in Verdicts \cup {NoVerdict}
  <2>1. verdict = NoVerdict \/ verdict = Verdict(table)
    BY <1>1 DEF Inv, Judged
  <2>2. \/ Verdict(table) = "candidate_shadow" \/ Verdict(table) = "reject_replay" \/ Verdict(table) = "needs_more_data"
    BY Zenon DEF Verdict
  <2>. QED  BY <2>1, <2>2 DEF Verdicts
<1>4. verdict # NoVerdict => pc = "done" /\ Len(picks) = Len(Configs)
  <2>1. HAVE verdict # NoVerdict
  <2>2. pc = "done" /\ c = Len(Configs) + 1 /\ Len(picks) = c - 1
    BY <1>1, <2>1 DEF Inv, Judged
  <2>3. Len(Configs) \in Nat
    BY <1>2, ConfigsTyped
  <2>. QED  BY <2>2, <2>3
<1>5. \A rs \in {rows, kept} \cup {picks[j] : j \in DOMAIN picks} : \A j \in DOMAIN rs : RowOK(rs[j])
  <2>1. \A j \in DOMAIN rows : RowOK(rows[j])
    BY <1>1 DEF Typed, AllOK, Range
  <2>2. \A j \in DOMAIN kept : RowOK(kept[j])
    BY <1>1 DEF Typed, AllOK, Range
  <2>. QED  BY <1>1, <2>1, <2>2 DEF Typed
<1>6. \A r : RowOK(r) => r.regime \in Regimes /\ r.w \in Nat /\ r.dd >= 0 /\ r.apr \in Int \cup {None}
  BY DEF RowOK
<1>. QED  BY <1>2, <1>3, <1>4, <1>5, <1>6, Zenon DEF TypeOK

\* The one row a grid without a step builds, and none at all without swaps.
OddTyped == IsSeq(rows) /\ AllOK(rows)

LEMMA OddWindowTyped == ASSUME ReplayTyped, Odd, OddTyped, ReplayWindow PROVE OddTyped'
<1>. DEFINE z == Config.size
            d == Config.step
            new == WindowRows(Window(stream, start, z), start, WindowIndex, queue[1])
<1>1. /\ pc = "windows" /\ start + z <= Len(stream)
      /\ rows' = IF d = 0 /\ rows # <<>> THEN rows ELSE rows \o new
  BY Zenon DEF ReplayWindow
<1>2. z \in Nat /\ (z = 0 \/ d = 0) /\ Config \in [size : Nat, step : Nat, min : Nat]
  BY OddFacts DEF Odd
<1>3. CASE z = 0
  <2>1. rows' = <<>>
    <3>1. Config' = Config
      BY Steady DEF Config, ReplayWindow
    <3>2. Odd'
      BY OddWindow
    <3>. QED  BY <1>3, <3>1, <3>2 DEF Odd
  <2>2. IsSeq(<<>>) /\ \A r : r \notin Range(<<>>)
    BY DEF IsSeq, Range
  <2>. QED  BY <2>1, <2>2 DEF OddTyped, AllOK
<1>4. CASE z # 0
  <2>. DEFINE C == [size |-> z, step |-> 1, min |-> Config.min]
  <2>1. d = 0 /\ start = 0 /\ z > 0 /\ stream \in Seq(Swap) /\ queue \in Seq(Int) /\ queue # <<>>
    BY <1>1, <1>2, <1>4 DEF Odd
  <2>2. IsConfig(C) /\ C.size = z /\ C.step = 1
    BY <1>2, <2>1 DEF IsConfig, Positive
  <2>3. 0 \in Fitting(C)
    BY <1>1, <2>1, <2>2, FittingFacts
  <2>4. new = RowsAt(C, 0, queue[1])
    <3>1. WindowIndex = 0
      BY <2>1 DEF WindowIndex
    <3>2. 0 * C.step = 0
      BY <2>2
    <3>. HIDE DEF C, z
    <3>. QED  BY <2>1, <2>2, <3>1, <3>2 DEF RowsAt
  <2>. HIDE DEF C, new, z
  <2>5. /\ IsSeq(new)
        /\ \A r : r \in Range(new) <=> \E mode \in Range(Battery(job.params, queue[1])) : r = RowAt(C, 0, mode)
    BY <2>1, <2>2, <2>3, <2>4, WindowRowsRange
  <2>6. queue[1] \in Int
    BY <2>1
  <2>7. AllOK(new)
    BY <2>1, <2>2, <2>3, <2>5, <2>6, RowAtTyped DEF Odd, AllOK
  <2>8. rows' = rows \/ rows' = rows \o new
    BY <1>1
  <2>. QED  BY <2>5, <2>7, <2>8, ConcatRange DEF OddTyped, AllOK
<1>. QED  BY <1>3, <1>4

LEMMA OddNextTyped == ReplayTyped /\ Odd /\ OddTyped /\ [Next]_vars => OddTyped'
<1>1. SUFFICES ASSUME ReplayTyped, Odd, OddTyped, [Next]_vars PROVE OddTyped'
  OBVIOUS
<1>2. CASE ReplayWindow
  BY <1>1, <1>2, OddWindowTyped
<1>3. CASE ~ReplayWindow
  <2>1. rows' = rows \/ rows' = <<>>
    BY <1>1, <1>3, ZenonT(60) DEF Next, vars, ReplayWhole, Start, OpenConfig, BeginReport, FinishReport, Summarize, Decide, Fail
  <2>2. IsSeq(<<>>) /\ \A r : r \notin Range(<<>>)
    BY DEF IsSeq, Range
  <2>. QED  BY <1>1, <2>1, <2>2 DEF OddTyped, AllOK
<1>. QED  BY <1>2, <1>3

LEMMA OddTypesHold == Odd /\ OddTyped => TypeOK
<1>1. SUFFICES ASSUME Odd, OddTyped PROVE TypeOK
  OBVIOUS
<1>2. c \in 1..Len(Configs) + 1 /\ Len(Configs) = 1
  BY <1>1, OddFacts DEF Odd
<1>3. \A rs \in {rows, kept} \cup {picks[j] : j \in DOMAIN picks} : \A j \in DOMAIN rs : RowOK(rs[j])
  <2>1. \A j \in DOMAIN rows : RowOK(rows[j])
    BY <1>1 DEF OddTyped, AllOK, Range
  <2>2. DOMAIN kept = {}
    BY <1>1 DEF Odd, Range
  <2>. QED  BY <1>1, <2>1, <2>2 DEF Odd
<1>4. \A r : RowOK(r) => r.regime \in Regimes /\ r.w \in Nat /\ r.dd >= 0 /\ r.apr \in Int \cup {None}
  BY DEF RowOK
<1>5. /\ stream \in Seq(Swap) /\ job \in Jobs /\ queue \in Seq(Int) /\ start \in Nat
      /\ pc \in {"start", "config", "report", "windows", "done", "failed"}
      /\ verdict \in Verdicts \cup {NoVerdict} /\ ~(verdict # NoVerdict)
  BY <1>1 DEF Odd
<1>. QED  BY <1>2, <1>3, <1>4, <1>5, Zenon DEF TypeOK

\* Every state is of the declared types, and there is a verdict only after every configuration.
THEOREM GateTypes == ReplayTyped => (Spec => []TypeOK)
<1>. SUFFICES ASSUME ReplayTyped PROVE Spec => []TypeOK
  OBVIOUS
<1>. DEFINE Always == (Inv /\ Typed) \/ (Odd /\ OddTyped)
<1>1. Init => Always
  BY AnyInit, InitTyped DEF Typed, OddTyped
<1>2. Always /\ [Next]_vars => Always'
  BY NextInv, NextTyped, OddNext, OddNextTyped
<1>3. Always => TypeOK
  BY TypesHold, OddTypesHold
<1>. HIDE DEF Always
<1>. QED  BY <1>1, <1>2, <1>3, PTL DEF Spec
=============================================================================

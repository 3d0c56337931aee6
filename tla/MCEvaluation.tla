---------------------------- MODULE MCEvaluation ----------------------------
(***************************************************************************)
(* Values for Evaluation: streams that share long pasts, all small splits   *)
(* into train and test windows, two bootstrapped paths, every scenario.     *)
(***************************************************************************)
EXTENDS Evaluation

Stream(ticks, gap) == [j \in DOMAIN ticks |-> [tick |-> ticks[j], block |-> 10 + gap * j]]

MCStreams == {Stream(t, g) : g \in {0, 2},
    t \in {<<>>, <<5>>, <<5, 7, 4>>, <<5, 7, 4, 6>>, <<5, 7, 4, 1>>, <<5, 7, 4, 6, 9, 8, 2>>, <<5, 7, 4, 6, 9, 3, 3>>}}

\* A wide range earns on quiet swaps, a low threshold on moving ones.
MCReplay(swaps, mode) ==
    LET move == swaps[Len(swaps)].tick - swaps[1].tick
        net  == (IF move \in -1..1 THEN mode.floor ELSE 4 - mode.threshold) * Len(swaps) + move
    IN  [net |-> IF mode.policy = "hold_50_50" THEN move ELSE net,
         dd |-> IF net < 0 THEN -net ELSE 1]

MCNoise(amplitude) == {-(amplitude \div 30), 0, amplitude \div 30}

Base == [command |-> "walk", train |-> 2, test |-> 2, thresholds |-> <<2, 6>>, halves |-> <<4, 10>>,
         penalty |-> 1, cap |-> 20, paths |-> 0, block |-> 1, demean |-> FALSE, scenario |-> "calm",
         tick |-> 100, swaps |-> 5, move |-> 4]

WalkJobs == {[Base EXCEPT !.train = tr, !.test = te] : tr \in 0..3, te \in 0..3}
    \cup {[Base EXCEPT !.thresholds = <<>>], [Base EXCEPT !.halves = <<>>, !.thresholds = <<3, 2, 6>>]}

MultiJobs == {[Base EXCEPT !.command = "multi", !.paths = k, !.block = b, !.demean = d] :
                k \in {0, 2}, b \in {0, 2, 3}, d \in BOOLEAN}

ScenarioJobs == {[Base EXCEPT !.command = "scenario", !.scenario = s, !.swaps = k] :
                    s \in {"calm", "pump", "crash", "chop", "boom"}, k \in {0, 5}}

MCJobs == WalkJobs \cup MultiJobs \cup ScenarioJobs

\* Long streams are walked, short ones are resampled, and a scenario needs none.
MCInit ==
    /\ Init
    /\ job.command = "multi" => n <= 3
    /\ job.command = "scenario" => n = 0 /\ stream = <<>>

MCSpec == MCInit /\ [][Next]_vars /\ WF_vars(Next)
=============================================================================

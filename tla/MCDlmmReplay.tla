---------------------------- MODULE MCDlmmReplay ----------------------------
(***************************************************************************)
(* Values for DlmmReplay: every walk of five observations over four bins,   *)
(* with and without active liquidity and with two observations in a block.  *)
(***************************************************************************)
EXTENDS DlmmReplay

CONSTANTS Length, Bins

Stream(bins, gaps, liquidity) ==
    [j \in 1..Length |-> [block |-> gaps[j], bin |-> bins[j], liquidity |-> liquidity[j], amount |-> 400]]

Blocks      == {<<1, 2, 3, 4, 5>>, <<1, 1, 4, 4, 5>>}
Liquidities == {<<4096, 4096, 4096, 4096, 4096>>, <<0, 0, 0, 0, 0>>, <<0, 0, 8192, 8192, 512>>}

MCStreams ==
    {Stream([j \in 1..Length |-> IF j = 1 THEN 0 ELSE b[j]], g, l) :
        b \in [2..Length -> Bins], g \in Blocks, l \in Liquidities} \cup {<<>>}

MCBins == -2..1

\* UnitIsFine, with a witness: the halvings of every single step add up.
HalvingsLeft(s) ==
    LET left[j \in 1..Len(s)] ==
            IF j = Len(s) THEN 0 ELSE left[j + 1] + 1 + Max({0, s[j].bin - s[j + 1].bin})
    IN  left

ASSUME FineAssumption == \A s \in Streams : Halvings(Loaded(s), HalvingsLeft(Loaded(s)))

Job(command, size, step, min, half) ==
    [command |-> command, size |-> size, step |-> step, min |-> min, half |-> half,
     model |-> "dlmm_bin_replay", binStep |-> TRUE]

MCJobs ==
    {Job("bins", 0, 0, 0, 1), Job("windows", 3, 1, 2, 0), Job("windows", 2, 2, 2, -1),
     Job("windows", 2, 3, 3, 1), Job("windows", 0, 1, 1, 1),
     [Job("bins", 0, 0, 0, 1) EXCEPT !.model = "clmm_tick_replay"],
     [Job("windows", 2, 2, 2, 1) EXCEPT !.binStep = FALSE]}
=============================================================================

---------------------------- MODULE MCSwapSampler ----------------------------
(***************************************************************************)
(* Values for SwapSampler: seven transactions in four slots.  The third is  *)
(* routed through another pool of the program, the fourth shares its slot,  *)
(* the fifth failed, the sixth swaps nothing and the last swaps twice.      *)
(***************************************************************************)
EXTENDS SwapSampler

Line(is) == [is |-> is, event |-> [pool |-> "none", tick |-> 0]]
Data(pool, tick) == [is |-> "data", event |-> [pool |-> pool, tick |-> tick]]
Swap(data) == <<Line("invoke"), Line("swap"), Line("other"), data, Line("success")>>
Tx(slot, failed, log) == [slot |-> slot, failed |-> failed, moved |-> log # <<>>, log |-> log]

MCChain == <<
    Tx(1, FALSE, Swap(Data("pool", 0))),
    Tx(1, FALSE, Swap(Data("pool", 1))),
    Tx(2, FALSE, Swap(Data("other", 9)) \o <<Line("other")>> \o Swap(Data("pool", 2))),
    Tx(2, FALSE, Swap(Data("pool", 3))),
    Tx(3, TRUE, <<>>),
    Tx(3, FALSE, <<Line("invoke"), Line("other"), Data("none", 0), Line("success")>>),
    Tx(4, FALSE, Swap(Data("pool", 4)) \o Swap(Data("pool", 5)))>>

Base == [program |-> "raydium", liquidity |-> FALSE, limit |-> 2, scan |-> 3, pages |-> 2, min |-> NoMinimum]

MCJobs == {Base, [Base EXCEPT !.limit = 5, !.scan = 1, !.pages = 4], [Base EXCEPT !.min = 3, !.pages = 0],
           [Base EXCEPT !.program = "orca", !.min = 1], [Base EXCEPT !.program = "other", !.limit = 1]}
=============================================================================

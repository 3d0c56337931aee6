------------------------------- MODULE MCDesk -------------------------------
(***************************************************************************)
(* Values for Desk: three sqrt prices, a band of two or four ticks, and a   *)
(* pool so shallow that the swaps of the capital fall on both sides of the  *)
(* impact gate.                                                             *)
(***************************************************************************)
EXTENDS Desk

MCPrices     == {3, 4, 6}
MCHalves     == {1, 2}
MCIterations == {0, 1}
=============================================================================

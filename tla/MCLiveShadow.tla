---------------------------- MODULE MCLiveShadow ----------------------------
(***************************************************************************)
(* Values for the constants of LiveShadow: a pool of five transactions, two *)
(* of them in one slot, one of them failed.  With two rows to a heartbeat   *)
(* the limit is met between pages and inside a page.                        *)
(***************************************************************************)
EXTENDS LiveShadow

MCSlotOf == <<2, 3, 3, 4, 5>>
MCKindOf == <<"swap", "swap", "failed", "swap", "other">>
=============================================================================

---------------------------- MODULE EventHistory ----------------------------
(***************************************************************************)
(* What the checkpointed backfill promises a reader of the data directory, *)
(* with no word about processes, windows or checkpoints: for each pool an   *)
(* interval of blocks that only grows, and a set of logs a reader can load. *)
(* Delivery is at least once.  A record can be lost for good (a torn line   *)
(* that a later append continued); readers then refuse it, so a refused     *)
(* record promises nothing.                                                 *)
(***************************************************************************)
EXTENDS Naturals

CONSTANTS
    Pool,     \* the pools
    Swap,     \* Swap[p]: the swaps of pool p, each with a field block
    None      \* nothing promised yet

VARIABLES
    loaded,   \* loaded[p]: the swaps a reader of p's record gets
    refused,  \* refused[p]: readers refuse p's record
    window    \* window[p]: the promised interval lo..hi-1, or None

vars == <<loaded, refused, window>>

Held(p, w, have) == {s \in Swap[p] : w.lo <= s.block /\ s.block < w.hi} \subseteq have

Init ==
    /\ loaded  = [p \in Pool |-> {}]
    /\ refused = [p \in Pool |-> FALSE]
    /\ window  = [p \in Pool |-> None]

\* Some swaps of one pool arrive (again).
Deliver(p) ==
    /\ \E S \in SUBSET Swap[p] : loaded' = [loaded EXCEPT ![p] = @ \cup S]
    /\ UNCHANGED <<refused, window>>

\* The record of a pool is damaged, while more swaps may have arrived in it.
Damage(p) ==
    /\ \E S \in SUBSET Swap[p] : loaded' = [loaded EXCEPT ![p] = @ \cup S]
    /\ refused' = [refused EXCEPT ![p] = TRUE]
    /\ UNCHANGED window

\* The promise is extended over blocks whose swaps are all there.
Extend(p) ==
    /\ window'[p] \in [lo : Nat, hi : Nat]
    /\ window[p] # None => window'[p].lo = window[p].lo /\ window'[p].hi >= window[p].hi
    /\ refused[p] \/ Held(p, window'[p], loaded[p])
    /\ window' = [window EXCEPT ![p] = window'[p]]
    /\ UNCHANGED <<loaded, refused>>

Next == \E p \in Pool : Deliver(p) \/ Damage(p) \/ Extend(p)

Spec == Init /\ [][Next]_vars
=============================================================================

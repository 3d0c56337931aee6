----------------------------- MODULE MCBackfill -----------------------------
(***************************************************************************)
(* Values for the constants of Backfill.  Two pools, Swap and one topic    *)
(* that stands for Mint, Burn and Collect, blocks 0..3.  Pool 1 has two     *)
(* swaps in one block (a torn append between them), both have a log in the  *)
(* last block of a window, and pool 2 has logs in a block mined late.       *)
(***************************************************************************)
EXTENDS Backfill

Rec(t, b, i) == [topic |-> t, block |-> b, index |-> i]

MCLogs == <<{Rec(1, 1, 0), Rec(1, 1, 1), Rec(2, 2, 0)},
            {Rec(1, 2, 0), Rec(1, 3, 1)}>>

\* One pool, for the runs about a single file.
MCLogsOne == <<{Rec(1, 1, 0), Rec(1, 1, 1), Rec(2, 1, 2), Rec(1, 3, 0)}>>

Flags(lb, run, ch, it, f, t, so) ==
    [lookback |-> lb, maxRun |-> run, chunk |-> ch, iterations |-> it,
     from |-> f, to |-> t, swapsOnly |-> so]

\* Live processes, of one pass or of any number, and historical ones, one of which may end
\* past the head, over the same files.
MCConfigs == {Flags(2, 2, 1, 0, None, None, FALSE), Flags(2, 3, 2, 0, 1, 2, TRUE),
              Flags(1, 1, 1, 1, None, None, TRUE), Flags(0, 2, 1, 0, 0, None, FALSE)}

\* Only live processes.
MCLive == {Flags(3, 2, 2, 0, None, None, FALSE), Flags(1, 1, 1, 1, None, None, TRUE)}
=============================================================================

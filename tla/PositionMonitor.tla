--------------------------- MODULE PositionMonitor ---------------------------
(***************************************************************************)
(* monitor-position of apps/cli/src/main.rs: build_position_snapshot reads  *)
(* an NFT and its pool by one RPC call after the other, each at the block   *)
(* that is then the latest, and a row with the kill switch is appended;     *)
(* then the loop waits and starts again, for ever or a number of times.     *)
(* Abstracted: calls that read what does not change are read together;      *)
(* waiting and the figures that raise alerts only are left out.             *)
(***************************************************************************)
EXTENDS PoolChain

CONSTANTS
    RiskShare,      \* --max-risk-token-share of the monitor, in percent
    Iterations      \* values of --iterations, 0 for ever

ASSUME MonitorAssumption == RiskShare \in Nat /\ Iterations \subseteq Nat

VARIABLES
    mpc,            \* off, the call under way, row, ended
    watched, left,  \* --token-id, and the iterations to go
    given,          \* --pool-address is given
    view, row

monitor == <<mpc, watched, left, given, view, row>>

\* ownerOf and positions; decimals; getPool; read_cl_pool_state with fee and gauge, whose answers
\* are only printed and may be missing (a malformed gauge counts as a failure of slot0).
MonitorReads == {"position", "decimals", "pool", "slot0"}

\* The pool is looked up only when it is not given.
Following(call) ==
    CASE call = "position" -> "decimals"
      [] call = "decimals" -> IF given THEN "slot0" ELSE "pool"
      [] call = "pool"     -> "slot0"
      [] call = "slot0"    -> "row"

NoView == [nft |-> None, decimals |-> FALSE, price |-> 0]

MonitorInit == mpc = "off" /\ watched = 0 /\ left = 0 /\ given = FALSE /\ view = NoView /\ row = None

StartMonitor ==
    /\ mpc = "off" /\ mpc' = "position"
    /\ watched' \in DOMAIN chain.nfts /\ left' \in Iterations /\ given' \in BOOLEAN
    /\ UNCHANGED <<view, row>>

Learned(what) ==
    CASE what = "position" -> [view EXCEPT !.nft = chain.nfts[watched]]
      [] what = "decimals" -> [view EXCEPT !.decimals = TRUE]
      [] what = "pool"     -> view
      [] what = "slot0"    -> [view EXCEPT !.price = chain.price]

\* A call that fails ends the monitor, but decimals only go missing; and a getPool answered by no
\* address leaves the row without a price, and the loop going on.
ReadForRow ==
    /\ mpc \in MonitorReads
    /\ \/ view' = Learned(mpc) /\ mpc' = Following(mpc) /\ UNCHANGED <<left, row>>
       \/ mpc = "decimals" /\ mpc' = Following(mpc) /\ UNCHANGED <<view, left, row>>
       \/ mpc = "pool" /\ mpc' = "row" /\ UNCHANGED <<view, left, row>>
       \/ mpc # "decimals" /\ mpc' = "ended" /\ view' = NoView /\ left' = 0 /\ row' = None
    /\ UNCHANGED <<watched, given>>

\* Bug: the upper end counts as in range.
Inside_bug(nft, tick) == nft.lower <= tick /\ tick <= nft.upper

\* in_range
Inside(nft, tick) == nft.lower <= tick /\ tick < nft.upper

\* The share cannot be told without the decimals.
ShareExceeded(v) ==
    LET have == Holding(v.nft, v.nft.liquidity, v.price)
    IN  v.decimals /\ have[2] * RiskPrice(v.price) * 100 > RiskShare * Mark(have[1], have[2], v.price)

\* Without a price neither is known, and the kill switch stays off.
KillReasons(v) ==
    {r \in {"position_out_of_range", "risk_token_share_exceeded"} :
        /\ v.price # 0
        /\ IF r = "position_out_of_range" THEN ~Inside(v.nft, v.price) ELSE ShareExceeded(v)}

WriteRow ==
    /\ mpc = "row"
    /\ row' = [price |-> view.price, kill |-> KillReasons(view)]
    /\ left' = IF left = 0 THEN 0 ELSE left - 1
    /\ mpc' = IF left = 1 THEN "ended" ELSE "position"
    /\ view' = NoView
    /\ UNCHANGED <<watched, given>>

MonitorStep == ReadForRow \/ WriteRow
=============================================================================

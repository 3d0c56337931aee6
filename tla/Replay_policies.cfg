SPECIFICATION Spec
CONSTANTS
    Grid = 840
    Streams <- MCStreams
    Policies <- MCPolicies
    Length = 5
    FirstTicks = {4, 5}
    Ticks = {3, 4, 5, 6}
    Gaps <- Uneven
    Capital = 200
    Gas = 3
    SlipPct = 5
    SwapPct = 50
    Fee = 2
    RewardPct = 2
    HaircutPct = 10
    FundingPct = 1
    None = None
INVARIANTS TypeOK NoLpInTrend HedgeFollows TailMatchesHistory
PROPERTY ImmediateExitIsOneWay
CHECK_DEADLOCK FALSE

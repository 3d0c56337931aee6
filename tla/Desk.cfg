SPECIFICATION FairSpec
CONSTANTS
    None = None
    Grid = 24
    Prices <- MCPrices
    PoolLiquidity = 400
    Fee = 5
    Capital = 240
    MaxMoves = 1
    Spacing = 2
    Halves <- MCHalves
    Slip = 10
    SlipLimit = 10
    MaxShare = 80
    MaxPlans = 2
    RiskShare = 90
    Iterations <- MCIterations
INVARIANTS TypeOK MintIsFunded QuietRebalanceSucceeds GateBoundsLoss
PROPERTY AlarmComes
CHECK_DEADLOCK FALSE

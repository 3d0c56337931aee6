SPECIFICATION Spec
CONSTANTS
    None = None
    Streams <- MCStreams
    Jobs <- MCJobs
    Length = 5
    Bins <- MCBins
    Capital = 4096
    FeeBps = 100
    CostFixed = 2
    SlipBps = 100
    AprScale = 6
    MinP05 = 0
    MinVsHold = 0
    MinWinPct = 60
    MaxDrawdown = 2000
    MaxRatioPct = 100
INVARIANTS TypeOK StaticIsHoldPlusFees RoundTripKeeps PassedIsSafe
CHECK_DEADLOCK FALSE

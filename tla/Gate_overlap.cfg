SPECIFICATION Spec
CONSTANTS
    None = None
    Streams <- MCStreams
    Jobs <- OverlapJobs
    Replay <- MCReplay
    AprScale = 6
    MinP05 = 5500
    MinVsHold = 0
    MinWinPct = 60
    MaxDrawdown = 500
INVARIANT NoLookaheadEver
CHECK_DEADLOCK FALSE

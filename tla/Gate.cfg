SPECIFICATION Spec
CONSTANTS
    None = None
    Streams <- MCStreams
    Jobs <- MCJobs
    Replay <- MCReplay
    AprScale = 6
    MinP05 = 5500
    MinVsHold = 0
    MinWinPct = 60
    MaxDrawdown = 500
INVARIANTS TypeOK NoLookahead ExactHedge CandidateIsSafe
PROPERTY JobEnds
CHECK_DEADLOCK FALSE

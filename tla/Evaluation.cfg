SPECIFICATION MCSpec
CONSTANTS
    Streams <- MCStreams
    Jobs <- MCJobs
    Replay <- MCReplay
    Noise <- MCNoise
    Policies = {"hold_50_50", "hedged_wide"}
INVARIANTS TypeOK TestsPartition NoPeeking NoInventedMove
PROPERTY Ends
CHECK_DEADLOCK FALSE

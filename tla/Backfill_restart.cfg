SPECIFICATION Spec
CONSTANTS
    NPools = 1
    NTopics = 2
    Logs <- MCLogsOne
    MaxHead = 3
    HeadLag = 1
    MaxStarts = 2
    Configs <- MCLive
    None = None
    Corrupt = Corrupt
INVARIANTS CheckpointAllowsRestart
CHECK_DEADLOCK FALSE

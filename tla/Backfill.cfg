SPECIFICATION FairSpec
CONSTANTS
    NPools = 2
    NTopics = 2
    Logs <- MCLogs
    MaxHead = 3
    HeadLag = 1
    MaxStarts = 2
    Configs <- MCConfigs
    None = None
    Corrupt = Corrupt
INVARIANTS TypeOK NoSilentGap DuplicatesBounded
PROPERTIES SettledBlocksStay ImplementsHistory CatchesUp BoundedRunEnds
CHECK_DEADLOCK FALSE

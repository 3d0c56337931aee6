SPECIFICATION SamplerSpec
CONSTANTS
    Chain <- MCChain
    Jobs <- MCJobs
    Attempts = 2
    Growth = 2
    MaxFiles = 2
INVARIANTS SamplerTypeOK SampleIsExact MergeIsExact
CHECK_DEADLOCK FALSE

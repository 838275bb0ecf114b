SPECIFICATION MCSpec
CONSTANTS
    Data <- MCData
    DroppedRefs = {}
    SendKinds = {"sample", "histogram", "floathistogram"}
    BatchSize = 2
    Capacity = 2
    ShardCounts = {1, 2}
    MaxReshards = 1
    MaxLostAnswers = 1
    Refs = {r1}
    RelabelDropped = {}
    MaxSamples = 2
    MaxSegment = 3
    MaxCheckpoints = 1
    MaxRuns = 2
    CmChunks = {1, 2, 3, 4}
    CmFileSize = 2
    CmQueue = 1
    CmTruncations = 1
    CmCrashes = 1
INVARIANTS
    
    TailIsExact
    ChunksAreFound
PROPERTIES
    RemoteProgress
CHECK_DEADLOCK FALSE

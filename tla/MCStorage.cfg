SPECIFICATION MCSpec
CONSTANTS
    RingIDs = {1, 2}
    Capacity = 2
    MaxCapacity = 8
    HsLabels = {l1}
    HsAppenders = {a1, a2}
    HsTimes = {1, 2}
    HsMaxSeries = 2
    HsMaxGc = 1
    HsKinds = {"histogram"}
    PLabels <- MCLabels
    PNames = {1, 2}
    PValues = {0, 1, 2}
    PQueries <- MCQueries
    POld = {1, 3}
    PiRefs = {1, 2, 3}
    PiCalls = 4
    BqTimes = {1, 2, 3, 4}
    BqMin = 0
    BqMax = 5
    BqLayouts <- MCLayouts
    BqCalls = 3
    MiTimes = {1, 2, 3}
    MiSources = 3
    MiCalls = 3
    MiSplit = 2
    SbTimes = {1, 2, 3, 4, 6, 8, 9}
    SbKinds = {"f", "h"}
    SbDelta = 2
    SbRing = 2
    SbSeries <- MCSeries
    SbCalls = 5
    RrTimes = {1, 2, 3}
    RrCalls = 4
    Names = {1, 2}
    Values = {1, 2}
    MaxSeries = 2
    MaxMatchers = 1
    MaxChunks = 3
    MaxBytes = 3
INVARIANTS
    
    SelectionIsExact
    LookbackIsExact
    
    SetsAreExact
PROPERTIES
    ImplementsQueue
    IteratorsAreFaithful
CHECK_DEADLOCK FALSE

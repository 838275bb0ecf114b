SPECIFICATION MCSpec
CONSTANTS
    u1 = u1
    u2 = u2
    bad = bad
    unused = unused
    QueueCapacity = 2
    MaxBatchSize = 1
    AMSets = {a}
    AMUrls = {u1, u2, bad, unused}
    DroppedUrls = {unused}
    BadUrls = {bad}
    TargetUpdates <- MCTargetUpdates
    MaxOffered = 3
    MaxAccepted = 4
    MaxReconfigs = 2
    Fingerprints = {f1, f2}
    HoldDuration = 3
    KeepFiringFor = 2
    ResolvedRetention = 3
    ResendDelay = 1
    EvalInterval = 1
    AlertLimit = 1
    ForGracePeriod = 2
    OutageTolerance = 5
    FirstTs = 2
    LastTs = 10
    MaxCrashes = 1
    MaxLost = 1
    RuleConfigs <- MCRuleConfigs
    RuleSeries <- MCRuleSeries
    MaxInstances = 3
    MaxClock = 4
    MaxCommitErrors = 1
    MaxReloads = 1
INVARIANTS
    AlertsAreAccounted
    StartAndStopInOrder
    LiveSeriesTracked
PROPERTIES
    FiringIsEarned
    AlertmanagerAgrees
    
    AlertingProgress
CHECK_DEADLOCK FALSE

SPECIFICATION MCSpec
CONSTANTS
    x = x
    y = y
    fails = fails
    SDConfigs <- MCSDConfigs
    FailingConfigs = {fails}
    EmptyStatic = empty
    Updates <- MCUpdates
    MaxProviders = 3
    MaxUpdates = 1
    MaxApplies = 2
    LegacyConfigs <- MCSDConfigs
    LegacyFailing = {fails}
    LegacyEmpty = empty
    LegacyUpdates <- MCUpdates
    MaxLegacyUpdates = 1
    MaxLegacyApplies = 2
    Jobs = {j1}
    ScrapeTargets = {t1, t2}
    JobConfigs <- MCJobConfigs
    MaxPools = 2
    MaxLoops = 4
    MaxTsets = 2
    MaxJobConfigs = 2
    m1 = m1
    m2 = m2
    m3 = m3
    d = d
    e = e
    s1 = s1
    s2 = s2
    s3 = s3
    Metrics = {m1, m2, m3, d, e}
    SeriesOf <- MCSeriesOf
    DroppedMetrics = {d}
    TimedMetrics = {e}
    Bodies <- MCBodies
    SampleLimit = 2
    FlushSlack = 1
    MaxScrapes = 2
    MaxRestarts = 1
    MaxCommitErrors = 0
INVARIANTS
    
    OldLoopsAreSilent
    StalenessIsExact
PROPERTIES
    ScrapeProgress
CHECK_DEADLOCK FALSE

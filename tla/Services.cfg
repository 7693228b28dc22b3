\* The start, the blackout schedule, the CPU Points policy and capacity, the samplers, the series, the servers, the database and the logger.
CONSTANTS
    sMaxStarts = 3
    bSpecs <- Schedules
    cObservers = {"mcp"}
    cPolicies = {1, 2}
    cTTL = 1
    cMaxWork = 1
    cMaxIncarnations = 2
    cMaxUpdates = 1
    hObservers = {"a", "b"}
    hDecisionGap = 1
    hObservationGap = 1
    hTTL = 1
    hMaxTime = 2
    hMaxResets = 1
    uUids = {1}
    uHistory = 1
    uMinSamples = 2
    uMaxTime = 6
    uMaxIO = 2
    eCallers = {1, 2}
    eMaxRuns = 3
    mCallers = {"a", "b", "c"}
    mMaxStarts = 3
    dUids = {1, 2}
    dRetention = 1
    dMaxDay = 2
    dMaxBatches = 3
    dMaxStarts = 2
    lMaxSize = 1
    lLimits = {1, 3}
    lMaxRecords = 6
    lMaxFaults = 2
    lMaxStarts = 2
SPECIFICATION ServicesSpec
VIEW ServicesView
INVARIANT StartIsTruthful
INVARIANT BlackoutAsScheduled
INVARIANT PlanIsExact
INVARIANT CapacityIsCurrent
INVARIANT UsageIsTrue
INVARIANT SeriesAreTrue
INVARIANT ServerIsOwned
INVARIANT StopIsFinal
INVARIANT HistoryIsWhole
INVARIANT LogIsASuffix
PROPERTY StreamsAreSeparate
CHECK_DEADLOCK FALSE

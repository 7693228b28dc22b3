CONSTANTS
    MaxWrites = 2
    MaxFaults = 1
    MaxEdits = 1
    MaxEvents = 2
SPECIFICATION Spec
INVARIANTS OneInstant SkippedRuns RefusedLeavesNothing
PROPERTY Settles
CHECK_DEADLOCK FALSE

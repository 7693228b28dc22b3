CONSTANTS
    Users = {u1, u2}
    MinActive = 1
    Stability = 2
    CPUDuration = 1
    IODuration = 2
    IgnoreLoad = FALSE
SPECIFICATION HSpec
INVARIANT DurationsKept
PROPERTY Released

CONSTANTS
    Slices = {s1, s2}
    Parent = parent
    Eligible = {s1}
    Policies = {1, 2}
    CPUs = {1, 2}
    MaxInv = 2
    MaxTrouble = 3
SPECIFICATION HSpec
INVARIANT ReusedPlanHolds
PROPERTIES DeactivationComplete Converges
CHECK_DEADLOCK FALSE

CONSTANTS
    Users = {1, 2}
    Policies = {1, 2}
    Selectors = {"", "8:0"}
    Hosts <- MCHosts
    RInv = 2
    RTrouble = 2
    WInv = 3
    WMoves = 2
    WFaults = 1
SPECIFICATION LimitsSpec
INVARIANT AppliedIsReleasable
PROPERTIES SuccessExact RefusalsHold Settles
CHECK_DEADLOCK FALSE

SPECIFICATION GatewaySpec
CONSTANTS
    IntMax = 262143
    Absent = Absent
    Waits <- MCWaits
    Holds <- MCHolds
    Settles <- MCSettles
    Counts <- MCCounts
    Fallbacks <- MCDefaultFallbacks
INVARIANTS
    DoesNotTimeOutOneLayerBelow
CHECK_DEADLOCK FALSE

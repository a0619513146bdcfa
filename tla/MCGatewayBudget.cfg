SPECIFICATION GatewaySpec
CONSTANTS
    IntMax = 262143
    Absent = Absent
    Waits <- MCWaits
    Holds <- MCHolds
    Settles <- MCSettles
    Counts <- MCCounts
    Fallbacks <- MCFallbacks
INVARIANTS
    GatewayTypeOK
    OutlastsTheRequestsOwnTime
CHECK_DEADLOCK FALSE

SPECIFICATION FairSpec
CONSTANTS
    TTL = 1
    StaleTTL = 2
    RetryTTL = 1
    Attempts = 2
    LoadTime = 1
    Bounds <- Behaviours
CHECK_DEADLOCK FALSE
INVARIANTS InvalidatedNotServed StalenessBounded CooledStaysOut
PROPERTIES RouteEnds

SPECIFICATION RedisSpec
CONSTANTS
    Keys = {k1, k2, k3}
    Tokens = {t1, t2}
    NoToken = NoToken
    Lease = 2
    Horizon = 1
    MaxAttempts = 1
    ClaimLimit = 2
    Capacity = 2
SYMMETRY Symmetry
INVARIANTS StructuresAgree
PROPERTIES RefinesQueue

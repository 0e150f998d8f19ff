SPECIFICATION FairSpec
CONSTANTS
    i1 = i1
    i2 = i2
    c1 = c1
    c2 = c2
    Keys = {k1}
    Tokens = {t1, t2}
    NoToken = NoToken
    Lease = 1
    Horizon = 1
    MaxAttempts = 0
    ClaimLimit = 1
    Capacity = 1
    Instances = {i1, i2}
    Callers = {c1, c2}
    Home <- SameHome
    Deployments <- Checked
    WebKeys = {k1}
    ChatKeys = {}
    ResetAfter = 1
    ProbeDelay = 1
    BackoffBase = 1
    BackoffMax = 1
    MaxFaults = 1
INVARIANTS ExhaustedHasReset
PROPERTIES UsesQueue WindowRecovers ClaimSettles

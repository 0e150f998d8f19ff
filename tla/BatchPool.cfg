SPECIFICATION FairSpec
CONSTANTS
    bulk1 = bulk1
    bulk2 = bulk2
    sync1 = sync1
    bulk = bulk
    sync = sync
    a = a
    b = b
    w1 = w1
    w2 = w2
    w3 = w3
    None = None
    Pools = {bulk1, bulk2, sync1}
    Keys = {bulk, sync}
    KeyOf <- LeaseKeys
    Batches = {a, b}
    Path <- Paths
    Workers = {w1, w2, w3}
    BatchOf <- WorkersOf
    Items <- ItemsOf
    QueueSize = 1
    Limits = {1, 2}
    StartLimit <- StartLimits
    Cancellable = {a}
    MaxEvents = 1
CHECK_DEADLOCK FALSE
INVARIANTS NothingLeaks NoLostWakeup AllItemsTallied
PROPERTIES BatchReturns

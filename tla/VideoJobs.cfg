SPECIFICATION FairSpec
CONSTANTS
    j1 = j1
    j2 = j2
    i1 = i1
    i2 = i2
    w1 = w1
    w2 = w2
    Jobs = {j1, j2}
    Instances = {i1, i2}
    Workers = {w1, w2}
    Setups <- Loads
    QueueSize = 1
    NoJob = NoJob
CHECK_DEADLOCK FALSE
INVARIANTS OneRunner RecordedAsStored ChargeFindsReservation
PROPERTIES ClosedStays JobsEnd ReservationsGo

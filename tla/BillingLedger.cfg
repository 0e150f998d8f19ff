SPECIFICATION FairSpec
CONSTANTS
    r1 = r1
    r2 = r2
    r3 = r3
    i1 = i1
    i2 = i2
    Requests = {r1, r2, r3}
    Instances = {i1, i2}
    Setups <- Keys
    Amount = 2
    Cost = 3
    QueueSize = 1
    BatchSize = 2
CHECK_DEADLOCK FALSE
INVARIANTS ColumnsAreSums WithinLimit ChargeFindsReservation
PROPERTIES ImplementsAccount RecordsEnd ExpiredIsFreed

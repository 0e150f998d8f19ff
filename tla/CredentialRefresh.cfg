SPECIFICATION FairSpec
CONSTANTS
    i1 = i1
    i2 = i2
    c1 = c1
    c2 = c2
    Instances = {i1, i2}
    Callers = {c1, c2}
    Casts <- Meetings
    None = None
    Orphan = Orphan
    Shared = TRUE
    RejectLimit = 2
    MaxTokens = 2
    MaxFaults = 1
CHECK_DEADLOCK FALSE
INVARIANTS SpentNeverPresented SuccessorKept
PROPERTIES CallsEnd DueIsServed

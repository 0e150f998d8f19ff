SPECIFICATION Spec
CONSTANTS
    i1 = i1
    i2 = i2
    Instances = {i1, i2}
    Workers = {w1}
    None = None
    Orphan = Orphan
    Deployments <- LostSignalDeployments
    MaxSignals = 3
    MaxFaults = 2
    MaxRestarts = 1
CHECK_DEADLOCK FALSE
INVARIANTS SignalHeld

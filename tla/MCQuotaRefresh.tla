---------------------------- MODULE MCQuotaRefresh ----------------------------
(* Model-checking instances of QuotaRefresh: the deployments it is checked *)
(* for. Workers are interchangeable.                                       *)
EXTENDS QuotaRefresh, TLC

CONSTANTS i1, i2

Symmetry == Permutations(Workers)

\* Two instances and Redis; nothing fails.
TwoInstances ==
    [coordinated |-> TRUE, durable |-> TRUE, console |-> FALSE, expiry |-> FALSE,
     instances |-> {i1, i2}, signals |-> 2, faults |-> 0, restarts |-> 0, unlocked |-> {}]

\* One instance with the in-process coordinator.
InProcess == [TwoInstances EXCEPT !.durable = FALSE, !.instances = {i1}]

\* A Console mode of one instance that restarts or forgets the mark.
ConsoleMode == [InProcess EXCEPT !.console = TRUE, !.expiry = TRUE, !.restarts = 1]

SafetyDeployments ==
    {[TwoInstances EXCEPT !.restarts = 1],
     [TwoInstances EXCEPT !.unlocked = {"mode"}, !.signals = 1],
     [InProcess EXCEPT !.unlocked = FlightKeys, !.faults = 1],
     [ConsoleMode EXCEPT !.unlocked = {"mode"}]}

LiveDeployments ==
    {TwoInstances,
     [TwoInstances EXCEPT !.unlocked = {"mode"}, !.signals = 1],
     [InProcess EXCEPT !.faults = 2],
     [InProcess EXCEPT !.unlocked = {"mode"}],
     [InProcess EXCEPT !.coordinated = FALSE, !.faults = 1]}

LostSignalDeployments == {InProcess}
=============================================================================

---------------------------- MODULE MCQuotaRecovery ----------------------------
(* Model-checking instances of QuotaRecovery: the deployments it is checked for. *)
EXTENDS QuotaRecovery, TLC

CONSTANTS i1, i2, c1, c2

\* Both callers run in the first instance.
SameHome == (c1 :> i1) @@ (c2 :> i1)

\* The in-process queue with two callers in its only instance.
InProcess ==
    [durable |-> FALSE, restarts |-> TRUE, faults |-> 1,
     instances |-> {i1}, callers |-> {c1, c2}]

\* The Redis queue between two instances, one of which has a caller.
Redis ==
    [durable |-> TRUE, restarts |-> TRUE, faults |-> 1,
     instances |-> {i1, i2}, callers |-> {c1}]

\* Both of them without faults, and with a fault, which may be a restart, for one caller
\* of one instance.
Checked ==
    {[InProcess EXCEPT !.faults = 0], [InProcess EXCEPT !.callers = {c1}],
     [Redis EXCEPT !.faults = 0], [Redis EXCEPT !.instances = {i1}]}

\* The in-process queue with one caller and no restart.
NoResetDeployments == {[InProcess EXCEPT !.callers = {c1}, !.restarts = FALSE]}
=============================================================================

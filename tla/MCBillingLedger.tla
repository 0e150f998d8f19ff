---------------------------- MODULE MCBillingLedger ----------------------------
(* A model-checking instance of BillingLedger. *)
EXTENDS BillingLedger, TLC

CONSTANTS r1, r2, r3, i1, i2

\* Three requests of two processes, of which the key has room for two.
Load ==
    [limit |-> 4, processes |-> {i1, i2}, home |-> (r1 :> i1 @@ r2 :> i1 @@ r3 :> i2),
     requests |-> {r1, r2, r3}, reserving |-> {r1, r2, r3}, faults |-> 0]

\* Two requests of which the key has room for one, and failures and restarts.
Trouble == [Load EXCEPT !.limit = 2, !.requests = {r1, r2}, !.reserving = {r1, r2}, !.faults = 4]

\* One of the two has no estimate.
Unpriced == [Trouble EXCEPT !.reserving = {r1}, !.faults = 3]

\* The process of both is the only one.
Alone == [Trouble EXCEPT !.processes = {i1}, !.faults = 3]

Keys == {Load, Trouble, Unpriced, Alone}
=============================================================================

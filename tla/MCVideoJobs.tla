------------------------------ MODULE MCVideoJobs ------------------------------
(* One job and two processes, for the claims, the leases and what is         *)
(* recorded; two jobs of one process, for a queue that is full; one job of   *)
(* the only process, for the marks that stay.                                *)
EXTENDS VideoJobs, TLC

CONSTANTS j1, j2, i1, i2, w1, w2

Claims == [jobs |-> {j1}, home |-> [j \in Jobs |-> i1],
           site |-> (w1 :> i1 @@ w2 :> i2), faults |-> 2]

Queues == [jobs |-> Jobs, home |-> [j \in Jobs |-> i1],
           site |-> [w \in Workers |-> i1], faults |-> 0]

Alone == [Claims EXCEPT !.site = [w \in Workers |-> i1]]

Loads == {Claims, Queues, Alone}

=============================================================================

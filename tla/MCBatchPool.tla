---------------------------- MODULE MCBatchPool ----------------------------
(* Model-checking instance of BatchPool: the batch of one process passes   *)
(* its category pool, with a lease of its own, and the parent pool, the    *)
(* batch of another one only the parent pool, whose lease they share.      *)
EXTENDS BatchPool, TLC

CONSTANTS bulk1, bulk2, sync1, bulk, sync, a, b, w1, w2, w3

LeaseKeys == (bulk1 :> bulk) @@ (bulk2 :> bulk) @@ (sync1 :> sync)

Paths == (a :> <<sync1, bulk1>>) @@ (b :> <<bulk2>>)

WorkersOf == (w1 :> a) @@ (w2 :> a) @@ (w3 :> b)

ItemsOf == (a :> 2) @@ (b :> 1)

StartLimits == (bulk1 :> 1) @@ (bulk2 :> 1) @@ (sync1 :> 2)
=============================================================================

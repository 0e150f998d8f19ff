---------------------------- MODULE MCRoutingCache ----------------------------
(* Three kinds of behaviour: loads and invalidations in every order at one time,  *)
(* a write whose event may be lost, and a failure of the account.                 *)
EXTENDS RoutingCache

W(b, o) == [base |-> b, overlay |-> o]

Races ==
    {[layers |-> Layers, writes |-> w, fails |-> FALSE, churn |-> c, ticks |-> 0] :
        <<w, c>> \in {<<W(1, 1), {"overlay"}>>, <<W(0, 1), Layers>>}}

Losses == [layers |-> {"base"}, writes |-> W(1, 0), fails |-> FALSE, churn |-> {}, ticks |-> 6]

Failures == [layers |-> {"base"}, writes |-> W(0, 0), fails |-> TRUE, churn |-> {"none"}, ticks |-> 6]

Behaviours == Races \cup {Losses, Failures}
=============================================================================

------------------------- MODULE MCCredentialRefresh -------------------------
(* Model-checking instance of CredentialRefresh: the callers that meet, on *)
(* one instance or on two.                                                 *)
EXTENDS CredentialRefresh, TLC

CONSTANTS i1, i2, c1, c2

On(i, kind) == [home |-> i, kind |-> kind]

Meet(one, other) == c1 :> one @@ c2 :> other

Meetings ==
    {Meet(On(i1, "forced"), On(i1, "request")), Meet(On(i1, "forced"), On(i2, "forced")),
     Meet(On(i1, "forced"), On(i2, "startup")), Meet(On(i1, "scheduled"), On(i1, "forced")),
     Meet(On(i1, "scheduled"), On(i2, "manual")), Meet(On(i1, "scheduled"), On(i2, "edit")),
     Meet(On(i1, "scheduled"), On(i2, "scheduled"))}
=============================================================================

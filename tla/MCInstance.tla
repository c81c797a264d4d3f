----------------------------- MODULE MCInstance -----------------------------
(* Values for the constants of InstanceController. *)
EXTENDS InstanceController, TLC

CONSTANTS p1, p2

Web == <<[name |-> "web", complete |-> TRUE, ports |-> <<p1>>]>>

ViewOf(healthy, tpl, exposed) ==
    [healthy |-> healthy, tpl |-> tpl, exposed |-> exposed]

HealthyViews == {ViewOf(TRUE, Web, "web")}

\* A Challenge that comes and goes.
WithOrWithout == HealthyViews \cup {None}

Interchangeable == Permutations(Instances)

MCContents == {Web, p1, p2, Drifted, None}
=============================================================================

----------------------------- MODULE MCKubeflag -----------------------------
(* Values for the constants of Kubeflag. *)
EXTENDS Kubeflag

CONSTANTS p1, p2

OneContainer(ports) ==
    <<[name |-> "web", complete |-> TRUE, ports |-> ports]>>

SpecOf(tpl, exposed) == [tpl |-> tpl, exposed |-> exposed, refs |-> {}]

First == SpecOf(OneContainer(<<p1>>), "web")
Unnamed == SpecOf(OneContainer(<<p1>>), None)
Second == SpecOf(OneContainer(<<p2>>), "web")
Broken == SpecOf(OneContainer(<< >>), "web")

\* Its template has a container of another name than the one to expose.
Misnomer ==
    SpecOf(<<[name |-> "app", complete |-> TRUE, ports |-> <<p2>>]>>, "api")

FirstOnly == {First}
TwoSpecs == {First, Second}
AllSpecs == {Unnamed, Misnomer, Broken}
MisnomerOnly == {Misnomer}
Rough == {Unnamed, Broken}

MCContents == Templates \cup {p1, p2, Drifted, None}
=============================================================================

---------------------------- MODULE MCReferences ----------------------------
(* Values for the constants of References. *)
EXTENDS References

CONSTANTS p1, p2, e1, e2

Web(ports, uses) ==
    <<[name |-> "web", complete |-> TRUE, ports |-> ports, uses |-> uses]>>

SpecOf(tpl, refs) == [tpl |-> tpl, exposed |-> "web", refs |-> refs]

Mounting == SpecOf(Web(<<p1>>, {"configmap"}), {"configmap"})
Plain == SpecOf(Web(<<p1>>, {}), {})

MountingOnly == {Mounting}
WithOrWithout == {Mounting, Plain}

MCEntries == {e1, e2}
OneEntry == {e1}
MCPayloads == {[text |-> {e1}, bytes |-> {}]}

MCContents == Templates \cup {p1, p2, Drifted, None}
=============================================================================

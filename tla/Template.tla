------------------------------ MODULE Template ------------------------------
(***************************************************************************)
(* The pod template of a Challenge, and the two functions that read it:    *)
(* validateTemplate, with which the challenge controller decides           *)
(* Status.Healthy, and getContainerPort, with which the instance           *)
(* controller builds the Service of an instance.                           *)
(*                                                                         *)
(* A template is the sequence of its containers.  Of a container the       *)
(* functions tell apart its name, whether image, limits and requests are   *)
(* all given ("complete"), and the sequence of its ports.                  *)
(***************************************************************************)
EXTENDS Naturals, Sequences

CONSTANT None   \* the empty name, and every other absent value

\* Containers that declare a port (containerWithPort, containersWithPort).
WithPort(tpl) == {k \in DOMAIN tpl : tpl[k].ports # << >>}

\* The verdict of validateTemplate on a template and ExposedContainerName.
\* The loop returns false at the first bad container, whichever it is.
ValidTemplate(tpl, exposed) ==
    /\ \A k \in DOMAIN tpl :
          /\ tpl[k].name # None
          /\ tpl[k].complete
          /\ exposed # None /\ tpl[k].name = exposed => tpl[k].ports # << >>
    /\ WithPort(tpl) # {}
    /\ exposed = None => \A k, m \in WithPort(tpl) : k = m

\* The ExposedContainerName that a valid template is left with.
ExposedName(tpl, exposed) ==
    IF exposed # None
    THEN exposed
    ELSE tpl[CHOOSE k \in WithPort(tpl) : TRUE].name

\* getContainerPort: the ports of the first container of that name.
ContainerPorts(tpl, name) ==
    LET named == {k \in DOMAIN tpl : tpl[k].name = name}
    IN  IF named = {}
        THEN << >>
        ELSE tpl[CHOOSE k \in named : \A m \in named : k <= m].ports

\* newService reads element 0 of that list.  An unknown container name is an
\* error and an empty list an index out of range that controller-runtime
\* recovers: either way no Service is built and the request is retried.
Exposable(tpl, name) == ContainerPorts(tpl, name) # << >>
ServicePort(tpl, name) == ContainerPorts(tpl, name)[1]
=============================================================================

----------------------------- MODULE Admission ------------------------------
(***************************************************************************)
(* The validating webhook for Challenges (pkg/webhook/challenge and        *)
(* pkg/validation), as operators on a spec [tpl, exposed, refs] and on     *)
(* what the caches of the webhook's process hold.  The API server calls it *)
(* on every create and update of a Challenge but for its status, also on   *)
(* those of the Challenge controller.                                      *)
(*                                                                         *)
(* "refs" is which of a Secret and a ConfigMap the spec refers to.  Which  *)
(* of them a template uses is noted at its containers ("uses"): in         *)
(* variables, or in volumes and pull secrets of the pod.                   *)
(***************************************************************************)
EXTENDS Template

\* getSecretsFromChallengeTemplate and getConfigMapsFromChallengeTemplate.
Used(tpl) == UNION {tpl[k].uses : k \in DOMAIN tpl}

\* ValidateContainers: a name, an image, limits and requests.
CompleteContainers(tpl) ==
    tpl # << >> /\ \A k \in DOMAIN tpl : tpl[k].name # None /\ tpl[k].complete

\* ValidateReferences: what the template uses, the spec refers to.
CompleteReferences(spec) == Used(spec.tpl) \subseteq spec.refs

\* ValidateCreate and ValidateUpdate: and what it refers to is there.
Admits(spec, known) ==
    /\ CompleteContainers(spec.tpl)
    /\ CompleteReferences(spec)
    /\ spec.refs \subseteq known
=============================================================================

----------------------------- MODULE KeyChoice ------------------------------
(***************************************************************************)
(* What EnsureSigningKey promises to the replicas of the controller        *)
(* manager, and to everyone who verifies a token: one key is chosen, once  *)
(* and for all, and a replica that holds a key holds that one.  Replicas   *)
(* forget and learn it again; the choice outlives them.                    *)
(***************************************************************************)
CONSTANTS Processes, Keys, NoKey

VARIABLES
    chosen,         \* the key everyone signs with, once there is one
    held            \* held[p]: the key p signs with

Init ==
    /\ chosen = NoKey
    /\ held = [p \in Processes |-> NoKey]

\* Some replica's key becomes the one; the replica may miss that it has.
Choose(p) ==
    /\ chosen = NoKey
    /\ \E k \in Keys :
          /\ chosen' = k
          /\ held' \in {held, [held EXCEPT ![p] = k]}

Learn(p) ==
    /\ chosen # NoKey
    /\ held' = [held EXCEPT ![p] = chosen]
    /\ UNCHANGED chosen

Forget(p) ==
    /\ held' = [held EXCEPT ![p] = NoKey]
    /\ UNCHANGED chosen

Next == \E p \in Processes : Choose(p) \/ Learn(p) \/ Forget(p)

Spec == Init /\ [][Next]_<<chosen, held>>
=============================================================================

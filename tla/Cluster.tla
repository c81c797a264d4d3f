------------------------------ MODULE Cluster -------------------------------
(***************************************************************************)
(* What Kubeflag's controllers see of Kubernetes: the ChallengeInstances   *)
(* of one Challenge, the Deployments and Services made for them in the     *)
(* namespace of the Challenge, the informer caches through which the       *)
(* manager process reads all of them, the garbage collector, the users who *)
(* create, edit and delete instances, and a clock.                         *)
(*                                                                         *)
(* Nothing here is code of the repository: it is the API server as the     *)
(* repository uses it.  "rev" is the resourceVersion of an object (every   *)
(* change raises it, a write of the stored content leaves it alone, and it *)
(* survives the object), "uid" is the rev an incarnation was created with, *)
(* "gen" is metadata.generation.                                           *)
(***************************************************************************)
EXTENDS Template

CONSTANTS
    Instances,      \* names of the ChallengeInstances
    Users,          \* values of spec.user
    TTLs,           \* durations a user asks for (None: spec.ttl left out)
    Contents,       \* the specs a workload can have
    Drifted,        \* one of them: a spec changed behind our back
    LastBirth,      \* bound: no instance is created after this time
    Horizon,        \* bound: the clock stops here
    MaxRequests,    \* bound on what users do
    MaxFaults       \* bound on disturbances: crashes, API errors, tampering

ASSUME ClusterAssumption ==
    /\ LastBirth \in Nat
    /\ Horizon \in Nat
    /\ MaxRequests \in Nat
    /\ MaxFaults \in Nat
    /\ TTLs \ {None} \subseteq Nat
    /\ None \notin Nat
    /\ None \notin Instances
    /\ {Drifted, None} \subseteq Contents

VARIABLES
    now,            \* the clock
    requests,       \* user requests made so far
    faults,         \* disturbances so far
    ns,             \* the namespace of the Challenge
    inst, instC,    \* ChallengeInstances: stored, and cached
    load, loadC     \* Deployments and Services: stored, and cached

clusterVars == <<now, requests, faults, ns, inst, instC, load, loadC>>

-----------------------------------------------------------------------------
(* Objects *)

Kinds == {"deployment", "service"}

\* A workload is named challenge-user: one Deployment and one Service a user.
Loads == Kinds \X Users

Instance ==
    [st : {"absent", "live", "deleting"}, rev : Nat, uid : Nat, gen : Nat,
     fin : BOOLEAN, label : BOOLEAN, user : Users \cup {None},
     born : Nat, ttl : TTLs \cup {None}, exp : Nat \cup {None}]

Workload ==
    [there : BOOLEAN, rev : Nat, owner : Instances \cup {None}, uid : Nat,
     spec : Contents]

NoInstance(rev) ==
    [st |-> "absent", rev |-> rev, uid |-> 0, gen |-> 0, fin |-> FALSE,
     label |-> FALSE, user |-> None, born |-> 0, ttl |-> None, exp |-> None]

\* The delete event of a workload still tells who owned it.
NoLoad(rev, owner) ==
    [there |-> FALSE, rev |-> rev, owner |-> owner, uid |-> 0, spec |-> None]

Exists(i) == inst[i].st # "absent"

\* The owner reference of a workload names an incarnation that is still there.
OwnerExists(w) ==
    load[w].owner \in Instances /\ inst[load[w].owner].uid = load[w].uid

-----------------------------------------------------------------------------
(* Operations of the API server *)

\* Whether a client that read version rev of i may write it.
Current(i, rev) == Exists(i) /\ inst[i].rev = rev

\* What an update that passed the version check leaves in the store.
Stored(i, new) ==
    IF new = inst[i] THEN new ELSE [new EXCEPT !.rev = inst[i].rev + 1]

\* Deletion: at once, or, with a finalizer, the deletion timestamp only.
Deleted(i) ==
    CASE inst[i].st = "live" /\ inst[i].fin ->
            [inst[i] EXCEPT !.st = "deleting", !.rev = @ + 1, !.gen = @ + 1]
      [] inst[i].st = "live" /\ ~inst[i].fin -> NoInstance(inst[i].rev + 1)
      [] OTHER -> inst[i]

CreateLoad(w, owner, uid, spec) ==
    load' = [load EXCEPT ![w] =
               [there |-> TRUE, rev |-> @.rev + 1, owner |-> owner,
                uid |-> uid, spec |-> spec]]

\* Only the spec is replaced; the owner reference stays what it was.
UpdateLoad(w, spec) ==
    load' = IF load[w].spec = spec
            THEN load
            ELSE [load EXCEPT ![w].spec = spec, ![w].rev = @ + 1]

RemoveLoad(w) == load' = [load EXCEPT ![w] = NoLoad(@.rev + 1, @.owner)]

-----------------------------------------------------------------------------
(* Users of the cluster *)

Request == requests < MaxRequests /\ requests' = requests + 1

Fault == faults < MaxFaults /\ faults' = faults + 1

UserCreate(i, u, t) ==
    /\ Request
    /\ ~Exists(i)
    /\ now <= LastBirth
    /\ inst' = [inst EXCEPT ![i] =
                  [st |-> "live", rev |-> @.rev + 1, uid |-> @.rev + 1,
                   gen |-> 1, fin |-> FALSE, label |-> FALSE, user |-> u,
                   born |-> now, ttl |-> t, exp |-> None]]
    /\ UNCHANGED <<now, faults, ns, instC, load, loadC>>

UserEdit(i, u, t) ==
    /\ Request
    /\ Exists(i)
    /\ <<u, t>> # <<inst[i].user, inst[i].ttl>>
    /\ inst' = [inst EXCEPT ![i].user = u, ![i].ttl = t,
                            ![i].gen = @ + 1, ![i].rev = @ + 1]
    /\ UNCHANGED <<now, faults, ns, instC, load, loadC>>

UserDelete(i) ==
    /\ Request
    /\ inst[i].st = "live"
    /\ inst' = [inst EXCEPT ![i] = Deleted(i)]
    /\ UNCHANGED <<now, faults, ns, instC, load, loadC>>

\* Somebody changes or deletes a Deployment or Service by hand.
Tamper(w) ==
    /\ Fault
    /\ load[w].there
    /\ load[w].spec # Drifted
    /\ UpdateLoad(w, Drifted)
    /\ UNCHANGED <<now, requests, ns, inst, instC, loadC>>

Uproot(w) ==
    /\ Fault
    /\ load[w].there
    /\ RemoveLoad(w)
    /\ UNCHANGED <<now, requests, ns, inst, instC, loadC>>

-----------------------------------------------------------------------------
(* The clock, the garbage collector and the namespace controller *)

Tick ==
    /\ now < Horizon
    /\ now' = now + 1
    /\ UNCHANGED <<requests, faults, ns, inst, instC, load, loadC>>

\* A workload whose owner is gone is collected.
Collect(w) ==
    /\ load[w].there
    /\ ~OwnerExists(w)
    /\ RemoveLoad(w)
    /\ UNCHANGED <<now, requests, faults, ns, inst, instC, loadC>>

\* A deleted namespace loses its content, then goes.
Empty(w) ==
    /\ ns = "terminating"
    /\ load[w].there
    /\ RemoveLoad(w)
    /\ UNCHANGED <<now, requests, faults, ns, inst, instC, loadC>>

DropNamespace ==
    /\ ns = "terminating"
    /\ \A w \in Loads : ~load[w].there
    /\ ns' = "absent"
    /\ UNCHANGED <<now, requests, faults, inst, instC, load, loadC>>

-----------------------------------------------------------------------------
ClusterTypeOK ==
    /\ now \in Nat
    /\ requests \in Nat
    /\ faults \in Nat
    /\ ns \in {"active", "terminating", "absent"}
    /\ inst \in [Instances -> Instance]
    /\ instC \in [Instances -> Instance]
    /\ load \in [Loads -> Workload]
    /\ loadC \in [Loads -> Workload]

ClusterInit ==
    /\ now = 0
    /\ requests = 0
    /\ faults = 0
    /\ ns = "absent"
    /\ inst = [i \in Instances |-> NoInstance(0)]
    /\ instC = inst
    /\ load = [w \in Loads |-> NoLoad(0, None)]
    /\ loadC = load
=============================================================================

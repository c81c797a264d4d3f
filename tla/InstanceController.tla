------------------------- MODULE InstanceController -------------------------
(***************************************************************************)
(* The ChallengeInstance controller (pkg/controllers/challengeinstance).   *)
(*                                                                         *)
(* One worker takes an instance name from the work queue, reads instance   *)
(* and Challenge from the informer caches and works through Reconcile; one *)
(* action per call to the API server, because everybody else may act       *)
(* between two of them.  Of the Challenge only the cached copy is seen     *)
(* here, and it changes as its own controller and the users please.        *)
(***************************************************************************)
EXTENDS Cluster

CONSTANTS
    Views,          \* what the cached Challenge may look like; None: missing
    Logger          \* whether Add was given a logger

ASSUME LoggerAssumption == Logger \in BOOLEAN

ASSUME ViewsAssumption ==
    \A v \in Views \ {None} :
        /\ DOMAIN v = {"healthy", "tpl", "exposed"}
        /\ v.healthy \in BOOLEAN
        /\ v.tpl \in Contents
        /\ Exposable(v.tpl, v.exposed) => ServicePort(v.tpl, v.exposed) \in Contents

VARIABLES
    chalC,          \* the cached Challenge
    queue,          \* names waiting for the worker
    pc,             \* the call Reconcile makes next
    cur,            \* the name in hand
    obj,            \* the worker's copy of the instance
    view,           \* the worker's copy of the Challenge
    timer           \* r.timers: when each TTL timer fires

workerVars == <<queue, pc, cur, obj, view, timer>>
vars == <<clusterVars, chalC, workerVars>>

Steps == {"idle", "finalize", "label", "status", "expire", "release",
          "deployment", "service"}

-----------------------------------------------------------------------------
(* Events *)

\* GenerationChangedPredicate: creations, deletions and changes of the
\* generation pass, writes of metadata and status do not.
Notable(old, new) == <<old.uid, old.gen>> # <<new.uid, new.gen>>

\* The informer catches up with instance i.
DeliverInstance(i) ==
    /\ instC[i] # inst[i]
    /\ instC' = [instC EXCEPT ![i] = inst[i]]
    /\ queue' = IF Notable(instC[i], inst[i]) THEN queue \cup {i} ELSE queue
    /\ UNCHANGED <<now, requests, faults, ns, inst, load, loadC, chalC,
                   pc, cur, obj, view, timer>>

\* Owns(): an event of a workload enqueues its controller owner, by name.
DeliverLoad(w) ==
    /\ loadC[w] # load[w]
    /\ loadC' = [loadC EXCEPT ![w] = load[w]]
    /\ queue' = queue \cup ({loadC[w].owner, load[w].owner} \ {None})
    /\ UNCHANGED <<now, requests, faults, ns, inst, instC, load, chalC,
                   pc, cur, obj, view, timer>>

\* MUTANT: the timer keeps firing.
FireTicker(i) ==
    /\ timer[i] # None
    /\ now >= timer[i]
    /\ queue' = queue \cup {i}
    /\ UNCHANGED <<clusterVars, chalC, pc, cur, obj, view, timer>>

\* The goroutine of time.AfterFunc: a GenericEvent on r.events.
FireTimer(i) ==
    /\ timer[i] # None
    /\ now >= timer[i]
    /\ timer' = [timer EXCEPT ![i] = None]
    /\ queue' = queue \cup {i}
    /\ UNCHANGED <<clusterVars, chalC, pc, cur, obj, view>>

-----------------------------------------------------------------------------
(* The start of Reconcile *)

\* Without a logger the first line of Reconcile panics, which leaves the name
\* in the queue: no visit ever starts.
Take(i) == Logger /\ pc = "idle" /\ i \in queue

Untouched == UNCHANGED <<clusterVars, chalC, timer>>

\* The instance is gone, or its Challenge is not healthy: nothing to do.
\* Nothing watches the Challenge, so nothing repeats the visit either.
Skip(i) ==
    /\ Take(i)
    /\ \/ instC[i].st = "absent"
       \/ chalC # None /\ ~chalC.healthy
    /\ queue' = queue \ {i}
    /\ Untouched /\ UNCHANGED <<pc, cur, obj, view>>

\* The Challenge cannot be read: an error, so the name stays in the queue.
\* This comes before the deletion of the instance is looked at.
Orphaned(i) ==
    /\ Take(i)
    /\ instC[i].st # "absent"
    /\ chalC = None
    /\ Untouched /\ UNCHANGED <<queue, pc, cur, obj, view>>

\* MUTANT: the finalizer is not added.
BeginUnguarded(i) ==
    /\ Take(i)
    /\ instC[i].st # "absent"
    /\ chalC # None
    /\ chalC.healthy
    /\ queue' = queue \ {i}
    /\ cur' = i
    /\ obj' = instC[i]
    /\ view' = chalC
    /\ pc' = IF instC[i].st = "deleting" THEN "release" ELSE "label"
    /\ Untouched

\* MUTANT: the Challenge is not looked at.
BeginUnchecked(i) ==
    /\ Take(i)
    /\ instC[i].st # "absent"
    /\ queue' = queue \ {i}
    /\ cur' = i
    /\ obj' = instC[i]
    /\ view' = chalC
    /\ pc' = CASE instC[i].st = "deleting"            -> "release"
               [] instC[i].st = "live" /\ instC[i].fin  -> "label"
               [] instC[i].st = "live" /\ ~instC[i].fin -> "finalize"
    /\ Untouched

Begin(i) ==
    /\ Take(i)
    /\ instC[i].st # "absent"
    /\ chalC # None
    /\ chalC.healthy
    /\ queue' = queue \ {i}
    /\ cur' = i
    /\ obj' = instC[i]
    /\ view' = chalC
    /\ pc' = CASE instC[i].st = "deleting"            -> "release"
               [] instC[i].st = "live" /\ instC[i].fin  -> "label"
               [] instC[i].st = "live" /\ ~instC[i].fin -> "finalize"
    /\ Untouched

-----------------------------------------------------------------------------
(* The calls of Reconcile *)

Goto(step) == pc' = step /\ UNCHANGED <<queue, cur, view>>

Idle == pc' = "idle" /\ cur' = None /\ obj' = NoInstance(0) /\ view' = None

Return == Idle /\ UNCHANGED queue

\* An error return: the name goes back to the queue (after a back-off).
Fail == Idle /\ queue' = queue \cup {cur} /\ UNCHANGED <<clusterVars, chalC, timer>>

\* A write of the worker's copy, refused if the copy is out of date.
Write(new) ==
    /\ Current(cur, obj.rev)
    /\ obj' = Stored(cur, new)
    /\ inst' = [inst EXCEPT ![cur] = obj']

OnlyInst == UNCHANGED <<now, requests, faults, ns, instC, load, loadC, chalC>>
OnlyLoad == UNCHANGED <<now, requests, faults, ns, inst, instC, loadC, chalC>>

AddFinalizer ==
    /\ pc = "finalize"
    /\ Write([obj EXCEPT !.fin = TRUE])
    /\ Goto("label")
    /\ OnlyInst /\ UNCHANGED timer

\* MUTANT: the labels are patched into whatever has the name.
PatchLabels ==
    /\ pc = "label"
    /\ Exists(cur)
    /\ obj' = Stored(cur, [inst[cur] EXCEPT !.label = TRUE])
    /\ inst' = [inst EXCEPT ![cur] = obj']
    /\ Goto("status")
    /\ OnlyInst /\ UNCHANGED timer

SetLabels ==
    /\ pc = "label"
    /\ Write([obj EXCEPT !.label = TRUE])
    /\ Goto("status")
    /\ OnlyInst /\ UNCHANGED timer

\* MUTANT: no timer is set.
SetExpirationOnly ==
    /\ pc = "status"
    /\ obj.ttl # None
    /\ LET expiration == obj.born + obj.ttl
       IN  /\ Write([obj EXCEPT !.exp = expiration])
           /\ Goto(IF now > expiration THEN "expire" ELSE "deployment")
    /\ OnlyInst /\ UNCHANGED timer

\* MUTANT: an instance expires at its expiration time, not after it.
SetExpirationEarly ==
    /\ pc = "status"
    /\ obj.ttl # None
    /\ LET expiration == obj.born + obj.ttl
       IN  /\ Write([obj EXCEPT !.exp = expiration])
           /\ IF now >= expiration
              THEN Goto("expire") /\ UNCHANGED timer
              ELSE Goto("deployment") /\ timer' = [timer EXCEPT ![cur] = expiration]
    /\ OnlyInst

\* The status update, the test for expiry that follows it and, if the TTL
\* has not run out, manageInstanceTTL.
SetExpiration ==
    /\ pc = "status"
    /\ obj.ttl # None
    /\ LET expiration == obj.born + obj.ttl
       IN  /\ Write([obj EXCEPT !.exp = expiration])
           /\ IF now > expiration
              THEN Goto("expire") /\ UNCHANGED timer
              ELSE Goto("deployment") /\ timer' = [timer EXCEPT ![cur] = expiration]
    /\ OnlyInst

\* r.Delete carries no precondition: it deletes whatever has the name.
DeleteExpired ==
    /\ pc = "expire"
    /\ Exists(cur)
    /\ inst' = [inst EXCEPT ![cur] = Deleted(cur)]
    /\ Return
    /\ OnlyInst /\ UNCHANGED timer

RemoveFinalizer ==
    /\ pc = "release"
    /\ Current(cur, obj.rev)
    /\ inst' = [inst EXCEPT ![cur] = NoInstance(@.rev + 1)]
    /\ Return
    /\ OnlyInst /\ UNCHANGED timer

\* The version check of an update fails, or the instance is gone.
Conflict ==
    /\ \/ pc \in {"finalize", "label", "status", "release"} /\ ~Current(cur, obj.rev)
       \/ pc = "expire" /\ ~Exists(cur)
    /\ Fail

\* spec.ttl is dereferenced without a test; the panic is recovered.
PanicNoTTL ==
    /\ pc = "status"
    /\ obj.ttl = None
    /\ Fail

-----------------------------------------------------------------------------
(* reconcileDeployment and reconcileService *)

Target == <<pc, obj.user>>
Workloads == pc \in Kinds

\* newService fails without a port; newDeployment does not.
Buildable == pc = "service" => Exposable(view.tpl, view.exposed)

Desired ==
    IF pc = "deployment" THEN view.tpl ELSE ServicePort(view.tpl, view.exposed)

Proceed ==
    \/ pc = "deployment" /\ Goto("service") /\ UNCHANGED obj
    \/ pc = "service" /\ Return

Create ==
    /\ Workloads
    /\ Buildable
    /\ ~loadC[Target].there
    /\ ~load[Target].there
    /\ ns = "active"
    /\ CreateLoad(Target, cur, obj.uid, Desired)
    /\ Proceed
    /\ OnlyLoad /\ UNCHANGED timer

\* MUTANT: what is there is left as it is.
LeaveWorkload ==
    /\ Workloads
    /\ Buildable
    /\ loadC[Target].there
    /\ UNCHANGED load
    /\ Proceed
    /\ OnlyLoad /\ UNCHANGED timer

\* A Deployment is always sent (its replicas never compare equal), a Service
\* only if it differs; the API server ignores an update that changes nothing.
Update ==
    /\ Workloads
    /\ Buildable
    /\ loadC[Target].there
    /\ \/ loadC[Target].rev = load[Target].rev /\ UpdateLoad(Target, Desired)
       \/ pc = "service" /\ loadC[Target].spec = Desired /\ UNCHANGED load
    /\ Proceed
    /\ OnlyLoad /\ UNCHANGED timer

\* No port, a create that finds the object or no usable namespace, or an
\* update of a stale copy.
CannotApply ==
    /\ Workloads
    /\ \/ ~Buildable
       \/ ~loadC[Target].there /\ (load[Target].there \/ ns # "active")
       \/ /\ Buildable
          /\ loadC[Target].there
          /\ loadC[Target].rev # load[Target].rev
          /\ pc = "service" => loadC[Target].spec # Desired
    /\ Fail

-----------------------------------------------------------------------------
(* Failures *)

\* MUTANT: the error is swallowed.
ApiErrorSwallowed ==
    /\ Fault
    /\ pc # "idle"
    /\ Idle
    /\ UNCHANGED <<now, requests, ns, inst, instC, load, loadC, chalC, timer, queue>>

\* Any call may fail for a reason of its own.
ApiError ==
    /\ Fault
    /\ pc # "idle"
    /\ Idle
    /\ queue' = queue \cup {cur}
    /\ UNCHANGED <<now, requests, ns, inst, instC, load, loadC, chalC, timer>>

\* The manager restarts: fresh caches, no timers, and every object is new to it.
Restart ==
    /\ Fault
    /\ instC' = inst
    /\ loadC' = load
    /\ queue' = {i \in Instances : Exists(i)}
                  \cup ({load[w].owner : w \in Loads} \ {None})
    /\ Idle
    /\ timer' = [i \in Instances |-> None]
    /\ chalC' \in Views
    /\ UNCHANGED <<now, requests, ns, inst, load>>

-----------------------------------------------------------------------------
(* What the challenge controller and the administrators do *)

\* The informer delivers another version of the Challenge.
ChangeView ==
    /\ chalC' \in Views
    /\ chalC' # chalC
    /\ UNCHANGED <<clusterVars, workerVars>>

\* The namespace is deleted, an instance of a deleted Challenge is deleted, a
\* workload of an outdated template is deleted.
DeleteNamespace ==
    /\ ns = "active"
    /\ ns' = "terminating"
    /\ UNCHANGED <<now, requests, inst, instC, load, loadC, chalC, workerVars>>

Evict(i) ==
    /\ inst[i].st = "live"
    /\ inst' = [inst EXCEPT ![i] = Deleted(i)]
    /\ UNCHANGED <<now, requests, ns, instC, load, loadC, chalC, workerVars>>

Purge(w) ==
    /\ load[w].there
    /\ RemoveLoad(w)
    /\ UNCHANGED <<now, requests, ns, inst, instC, loadC, chalC, workerVars>>

\* The challenge controller makes the namespace anew.
CreateNamespace ==
    /\ ns = "absent"
    /\ ns' = "active"
    /\ UNCHANGED <<now, requests, faults, inst, instC, load, loadC, chalC,
                   workerVars>>

-----------------------------------------------------------------------------
Call ==
    \/ AddFinalizer \/ SetLabels \/ SetExpiration \/ DeleteExpired
    \/ RemoveFinalizer \/ Conflict \/ PanicNoTTL
    \/ Create \/ Update \/ CannotApply

Start(i) == Skip(i) \/ Orphaned(i) \/ Begin(i)

Neighbour ==
    \/ DeleteNamespace
    \/ \E i \in Instances : Evict(i)
    \/ \E w \in Loads : Purge(w)

Outside == UNCHANGED <<chalC, workerVars>>

UserStep(i) ==
    /\ \/ \E u \in Users, t \in TTLs : UserCreate(i, u, t) \/ UserEdit(i, u, t)
       \/ UserDelete(i)
    /\ Outside

Vandalism == (\E w \in Loads : Tamper(w) \/ Uproot(w)) /\ Outside
Clock == Tick /\ Outside
GarbageCollector(w) == Collect(w) /\ Outside
NamespaceController == (DropNamespace \/ \E w \in Loads : Empty(w)) /\ Outside

Init ==
    /\ ClusterInit
    /\ chalC \in Views
    /\ queue = {}
    /\ pc = "idle"
    /\ cur = None
    /\ obj = NoInstance(0)
    /\ view = None
    /\ timer = [i \in Instances |-> None]

\* All steps but those that involve the cached Challenge or the namespace.
Step ==
    \/ \E i \in Instances :
          UserStep(i) \/ DeliverInstance(i) \/ FireTimer(i) \/ Start(i)
    \/ \E w \in Loads : DeliverLoad(w) \/ GarbageCollector(w)
    \/ Call
    \/ ApiError
    \/ Clock \/ NamespaceController \/ Vandalism

Inside == Step \/ Restart \/ ChangeView \/ CreateNamespace

\* Checked alone, the controller meets MaxFaults acts of its neighbours at
\* most; what is proved about it holds for as many as they like.
Next == Inside \/ (Fault /\ Neighbour)
OpenNext == Inside \/ (faults' \in {faults, faults + 1} /\ Neighbour)

OpenSpec == Init /\ [][OpenNext]_vars

Spec == Init /\ [][Next]_vars

\* The caches catch up, timers fire, the worker runs and its FIFO queue
\* starves no name; the clock, the collector and the namespace controller do
\* their work.  Users and faults owe nothing.
Fairness ==
    /\ \A i \in Instances :
          WF_vars(DeliverInstance(i)) /\ WF_vars(FireTimer(i)) /\ SF_vars(Start(i))
    /\ \A w \in Loads : WF_vars(DeliverLoad(w)) /\ WF_vars(GarbageCollector(w))
    /\ WF_vars(Call)
    /\ WF_vars(Clock)
    /\ WF_vars(NamespaceController)
    /\ WF_vars(CreateNamespace)

FairSpec == Spec /\ Fairness
-----------------------------------------------------------------------------
(* Properties *)

TypeOK ==
    /\ ClusterTypeOK
    /\ chalC \in Views
    /\ queue \subseteq Instances
    /\ pc \in Steps
    /\ cur \in Instances \cup {None}
    /\ pc # "idle" => cur \in Instances /\ view # None
    /\ obj \in Instance
    /\ view \in Views \cup {None}
    /\ timer \in [Instances -> Nat \cup {None}]

\* A Deployment or Service is only ever created for an incarnation of an
\* instance that still exists and holds the cleanup finalizer, whatever
\* users, caches and restarts did since Reconcile read it.
CreatedForGuarded ==
    [][\A w \in Loads :
          ~load[w].there /\ load'[w].there =>
             /\ inst[load'[w].owner].uid = load'[w].uid
             /\ inst[load'[w].owner].fin]_vars

\* The unconditional Delete of Reconcile only ever hits the incarnation it
\* judged, and only after the expirationTime published in its status.
DeletesOnlyExpired ==
    [][\A i \in Instances :
          pc = "expire" /\ pc' # pc /\ inst'[i] # inst[i] =>
             /\ inst[i].uid = obj.uid
             /\ inst[i].exp # None
             /\ now > inst[i].exp]_vars

\* A copy of instance i is an older version of it or the stored one.
CopyOf(copy, i) ==
    /\ copy.rev <= inst[i].rev
    /\ copy.rev = inst[i].rev => copy = inst[i]

Copies ==
    /\ \A i \in Instances : CopyOf(instC[i], i)
    /\ pc # "idle" => CopyOf(obj, cur)

\* Past the writes, the incarnation the worker read is still there and
\* guarded: nobody but the worker takes the finalizer away.
Guarded ==
    /\ pc \in {"finalize", "label", "status"} => obj.st = "live"
    /\ pc \in {"label", "status"} => obj.fin
    /\ pc \in {"expire"} \cup Kinds =>
          Exists(cur) /\ inst[cur].fin /\ inst[cur].uid = obj.uid

Judged ==
    pc = "expire" =>
       obj.exp # None /\ now > obj.exp /\ inst[cur].exp = obj.exp

\* The invariant behind the two action properties above: the version check of
\* the label update makes a stale copy harmless, and the finalizer keeps the
\* incarnation in place until the worker is done with it.
InstanceInv == Copies /\ Guarded /\ Judged

\* The TTL of an instance runs out before the clock of the model stops.
Due(i) ==
    Exists(i) /\ inst[i].ttl # None /\ inst[i].born + inst[i].ttl < Horizon

Healthy == chalC # None /\ chalC.healthy

\* If the Challenge ends up healthy, an instance whose TTL runs out is
\* eventually gone: the timer, lost in a restart and armed anew by the next
\* visit, or that visit itself sees to it.
Expires == <>[]Healthy => \A i \in Instances : Due(i) ~> ~Due(i)

\* If the Challenge ends up healthy, a deleted instance is eventually released.
Released ==
    <>[]Healthy =>
       \A i \in Instances : inst[i].st = "deleting" ~> inst[i].st # "deleting"

Serviceable == Healthy /\ Exposable(chalC.tpl, chalC.exposed)

Provisioned(i) ==
    \A k \in Kinds :
       LET w == <<k, inst[i].user>>
       IN  /\ load[w].there
           /\ load[w].spec = IF k = "deployment" THEN chalC.tpl
                             ELSE ServicePort(chalC.tpl, chalC.exposed)

\* Once users and faults have done their worst and the Challenge stays
\* healthy, every instance whose TTL has not run out has its Deployment and
\* Service with the content of the Challenge: created, recreated when
\* removed, reverted when changed, retried after every error.
Heals ==
    <>[]Serviceable =>
       <>[](\A i \in Instances :
              /\ Serviceable
              /\ inst[i].st = "live" /\ inst[i].ttl # None /\ ~Due(i)
              => Provisioned(i))

\* If moreover nobody leaves out spec.ttl, the controller comes to rest: its
\* own writes do not keep waking it.
Quiesces ==
    <>[](Serviceable /\ \A i \in Instances : Exists(i) => inst[i].ttl # None) =>
       <>[](queue = {} /\ pc = "idle")
=============================================================================

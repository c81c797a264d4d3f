------------------------------ MODULE Kubeflag ------------------------------
(***************************************************************************)
(* The two controllers together, as controller-manager runs them: one      *)
(* process, one worker and one work queue for each, one set of caches.     *)
(* The instance controller is the specification InstanceController with    *)
(* the Challenge in the cache as its view of the Challenge; its steps      *)
(* interleave with those of ChallengeController.                           *)
(***************************************************************************)
EXTENDS ChallengeController

CONSTANT Logger                             \* as in InstanceController

\* Workloads can have the content that Challenges ask for, and Challenges
\* refer to no data: those that do are the subject of References.
ASSUME KubeflagAssumption ==
    /\ \A s \in Specs : s.refs = {}
    /\ Logger \in BOOLEAN
    /\ Templates \subseteq Contents
    /\ \A t \in Templates, n \in Names :
          Exposable(t, n) => ServicePort(t, n) \in Contents

VARIABLES queue, pc, cur, obj, view, timer  \* as in InstanceController

instanceWorker == <<queue, pc, cur, obj, view, timer>>

vars == <<clusterVars, chalVars, instanceWorker>>

\* What the instance controller reads of the cached Challenge.
Seen ==
    IF chC.st = "absent"
    THEN None
    ELSE [healthy |-> chC.healthy, tpl |-> chC.tpl, exposed |-> chC.exposed]

IC == INSTANCE InstanceController
         WITH chalC <- Seen,
              Views <- {None} \cup [healthy : BOOLEAN, tpl : Templates,
                                    exposed : Names]

-----------------------------------------------------------------------------
\* A step of the instance controller, of the users or of the cluster.  The
\* event of an instance also goes to the challenge controller, whose handler
\* enqueues the name of the instance.
InstanceStep ==
    /\ UNCHANGED <<chal, chC, nsC, chWorker, edits, errors>>
    /\ IC!Step
    /\ LET events == {i \in Instances : instC'[i] # instC[i]}
       IN  chQueued' = (chQueued \/ \E i \in events : MatchesChallengeRef(i))

ChallengeStep == ChStep /\ UNCHANGED instanceWorker

\* The process restarts: fresh caches, and everything there is enqueued.
ManagerRestart ==
    /\ ChResume
    /\ IC!Restart

Init ==
    /\ ChInit
    /\ IC!Init

Next == InstanceStep \/ ChallengeStep \/ ManagerRestart

Spec == Init /\ [][Next]_vars

\* As for the instance controller alone, and likewise for the other one.
InstanceRuns(A) == UNCHANGED chalVars /\ A
ChallengeRuns(A) == UNCHANGED instanceWorker /\ A

Fairness ==
    /\ \A i \in Instances :
          /\ WF_vars(InstanceRuns(IC!DeliverInstance(i)))
          /\ WF_vars(InstanceRuns(IC!FireTimer(i)))
          /\ SF_vars(InstanceRuns(IC!Start(i)))
    /\ \A w \in Loads :
          /\ WF_vars(InstanceRuns(IC!DeliverLoad(w)))
          /\ WF_vars(InstanceRuns(IC!GarbageCollector(w)))
    /\ WF_vars(InstanceRuns(IC!Call))
    /\ WF_vars(InstanceRuns(IC!Clock))
    /\ WF_vars(InstanceRuns(IC!NamespaceController))
    /\ WF_vars(ChallengeRuns(DeliverChallenge))
    /\ WF_vars(ChallengeRuns(DeliverNamespace))
    /\ WF_vars(ChallengeRuns(ChStart))
    /\ WF_vars(ChallengeRuns(ChCall))
    /\ WF_vars(ChallengeRuns(CollectNamespace))

FairSpec == Spec /\ Fairness
-----------------------------------------------------------------------------
(* Properties *)

TypeOK ==
    /\ IC!TypeOK
    /\ chal \in Challenge
    /\ chC \in Challenge
    /\ chObj \in Challenge
    /\ nsC \in {"active", "terminating", "absent"}
    /\ chQueued \in BOOLEAN
    /\ chPc \in ChSteps
    /\ chPc = "idle" <=> chObj = NoChallenge
    /\ chPc \in {"evict", "purge deployment", "purge service"} => todo # << >>
    /\ edits \in Nat
    /\ errors \in Nat

\* The controllers, the author and the API server together never do to the
\* instance controller what its own specification, and so what is proved from
\* it, does not allow for.
Implements == IC!OpenSpec

Valid == ValidTemplate(chal.tpl, chal.exposed)

\* Status.Healthy never turns true for a spec that is not valid or does not say
\* which container to expose, although the spec may change between the verdict
\* and the write of it, and the name may be one the controller fills in.
HealthyIsEarned ==
    [][~chal.healthy /\ chal'.healthy =>
          /\ ValidTemplate(chal'.tpl, chal'.exposed)
          /\ chal'.exposed # None]_vars

\* Somebody is going to look at the Challenge again.
Pending ==
    chQueued \/ chPc # "idle" \/ ChallengeNotable

\* No wake-up is lost: while the status claims too much of the spec, or a
\* finalizer or the hash is missing, another visit is due.
NothingForgotten ==
    chal.st = "live" =>
       \/ Pending
       \/ /\ chal.healthy => Valid /\ chal.exposed # None
          /\ chal.hash = chal.tpl
          /\ "instances" \in chal.fins
          /\ ns # "absent"

\* What the one controller calls healthy, the other can expose: unless another
\* visit is due, newService finds the port of a Service for the instances of a
\* healthy Challenge.  The code does not keep this: ExposedContainerName is not
\* validated if it is provided (ch:272).
HealthyIsServable ==
    chal.st = "live" /\ chal.healthy =>
       Pending \/ Exposable(chal.tpl, chal.exposed)

\* The spec is as its author wrote it, name included, and no container of the
\* template has that name.
Misnamed ==
    \E s \in Specs :
       /\ chal.tpl = s.tpl /\ chal.exposed = s.exposed
       /\ s.exposed # None
       /\ \A k \in DOMAIN s.tpl : s.tpl[k].name # s.exposed

\* What it does keep: a healthy Challenge that cannot be exposed owes it to its
\* author alone.  A name the controller has filled in never ends up on another
\* template, however edits, stale copies, refused writes, errors and restarts
\* fall between the choice of the name and the write of it.
ServableAsNamed ==
    chal.st = "live" /\ chal.healthy =>
       Pending \/ Exposable(chal.tpl, chal.exposed) \/ Misnamed

\* A live Challenge is judged, hashed and has a namespace.
Settled ==
    chal.st = "live" =>
       /\ chal.healthy = Valid
       /\ chal.hash = chal.tpl
       /\ ns = "active"

\* Unless an error comes between (one failed Update of the exposed name is a
\* verdict for good), it stays so whatever its author and restarts do.
Settles == [](errors = 0) => <>[]Settled

\* A live instance of a valid Challenge has both workloads, as the Challenge
\* wants them.
Deployed(i) ==
    /\ chal.st = "live" /\ Valid
    /\ inst[i].st = "live" /\ inst[i].ttl # None
    => \A k \in Kinds :
          LET w == <<k, inst[i].user>>
          IN  /\ load[w].there
              /\ load[w].spec = IF k = "deployment" THEN chal.tpl
                                ELSE ServicePort(chal.tpl, chal.exposed)

\* Every instance is deployed in the end.
Deploys == <>[](\A i \in Instances : Deployed(i))

\* A new template reaches the instances, although caches lag, workloads of the
\* old template are deleted while the instance controller writes them, and
\* either worker may meet conflicts: if a hash of another template is on
\* record and the instance shows its label.
RollsOut ==
    \A i \in Instances :
       /\ chal.st = "live" /\ chal.hash \notin {None, chal.tpl}
       /\ i \in Labelled
       ~> Deployed(i)

\* No error, no restart, and nobody edits the Challenge once it is deleted.
Undisturbed ==
    /\ errors = 0
    /\ faults = 0
    /\ chal.st = "deleting" => edits = MaxEdits

\* Deleting the Challenge deletes its namespace, and the Challenge goes.  The
\* condition is needed: a visit that fails between the deletion of the
\* namespace and the release of its finalizer is not made good by another.
Razes ==
    []Undisturbed => (chal.st = "deleting" ~> chal.st = "absent" /\ ns = "absent")

\* Deleting the Challenge deletes its instances.
Evicts ==
    \A i \in Instances :
       chal.st = "deleting" /\ inst[i].st = "live" ~> inst[i].st # "live"
=============================================================================

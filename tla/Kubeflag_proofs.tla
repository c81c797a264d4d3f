--------------------------- MODULE Kubeflag_proofs ---------------------------
(***************************************************************************)
(* Proofs about the two controllers together.  They do to the instance     *)
(* controller nothing that its own specification does not allow for, so    *)
(* what InstanceController_proofs shows of it holds in the composition.    *)
(* And the challenge controller, which judges, writes and forgets from     *)
(* caches, never calls a spec healthy that is not valid, and never rests   *)
(* while something is to be done.                                          *)
(***************************************************************************)
EXTENDS Kubeflag, ChallengeController_proofs

ICP == INSTANCE InstanceController_proofs
         WITH chalC <- Seen,
              Views <- {None} \cup [healthy : BOOLEAN, tpl : Templates,
                                    exposed : Names]

-----------------------------------------------------------------------------
(* IC and ICP are instances of one module: what they define is the same *)

LEMMA SameType == IC!TypeOK <=> ICP!TypeOK
BY DEF IC!TypeOK, ICP!TypeOK, IC!ClusterTypeOK, ICP!ClusterTypeOK, IC!Steps,
       ICP!Steps, IC!Instance, ICP!Instance, IC!Loads, ICP!Loads, IC!Workload,
       ICP!Workload, IC!Kinds, ICP!Kinds

LEMMA SameInit == IC!Init <=> ICP!Init
BY DEF IC!Init, ICP!Init, IC!ClusterInit, ICP!ClusterInit, IC!NoInstance,
       ICP!NoInstance, IC!NoLoad, ICP!NoLoad, IC!Loads, ICP!Loads, IC!Kinds,
       ICP!Kinds

LEMMA SameVars == IC!vars = ICP!vars
BY DEF IC!vars, ICP!vars, IC!clusterVars, ICP!clusterVars, IC!workerVars,
       ICP!workerVars

LEMMA SameNext == IC!OpenNext <=> ICP!OpenNext
BY DEF IC!OpenNext, ICP!OpenNext, IC!Inside, ICP!Inside, IC!Step, ICP!Step,
       IC!Steps, ICP!Steps,
       IC!ContainerPorts, IC!Exposable, IC!ServicePort, IC!clusterVars,
       IC!Kinds, IC!Loads, IC!NoInstance, IC!NoLoad, IC!Exists,
       IC!OwnerExists, IC!Current, IC!Stored, IC!Deleted, IC!CreateLoad,
       IC!UpdateLoad, IC!RemoveLoad, IC!Request, IC!Fault, IC!UserCreate,
       IC!UserEdit, IC!UserDelete, IC!Tamper, IC!Uproot, IC!Tick, IC!Collect,
       IC!Empty, IC!DropNamespace, IC!workerVars, IC!Notable,
       IC!DeliverInstance, IC!DeliverLoad, IC!FireTimer, IC!Take,
       IC!Untouched, IC!Skip, IC!Orphaned, IC!Begin, IC!Goto, IC!Idle,
       IC!Return, IC!Fail, IC!Write, IC!OnlyInst, IC!OnlyLoad,
       IC!AddFinalizer, IC!SetLabels, IC!SetExpiration, IC!DeleteExpired,
       IC!RemoveFinalizer, IC!Conflict, IC!PanicNoTTL, IC!Target,
       IC!Workloads, IC!Buildable, IC!Desired, IC!Proceed, IC!Create,
       IC!Update, IC!CannotApply, IC!ApiError, IC!Restart, IC!ChangeView,
       IC!DeleteNamespace, IC!Evict, IC!Purge, IC!CreateNamespace, IC!Call,
       IC!Start, IC!Neighbour, IC!Outside, IC!UserStep, IC!Vandalism,
       IC!Clock, IC!GarbageCollector, IC!NamespaceController,
       ICP!ContainerPorts, ICP!Exposable, ICP!ServicePort, ICP!clusterVars,
       ICP!Kinds, ICP!Loads, ICP!NoInstance, ICP!NoLoad, ICP!Exists,
       ICP!OwnerExists, ICP!Current, ICP!Stored, ICP!Deleted, ICP!CreateLoad,
       ICP!UpdateLoad, ICP!RemoveLoad, ICP!Request, ICP!Fault, ICP!UserCreate,
       ICP!UserEdit, ICP!UserDelete, ICP!Tamper, ICP!Uproot, ICP!Tick,
       ICP!Collect, ICP!Empty, ICP!DropNamespace, ICP!workerVars, ICP!Notable,
       ICP!DeliverInstance, ICP!DeliverLoad, ICP!FireTimer, ICP!Take,
       ICP!Untouched, ICP!Skip, ICP!Orphaned, ICP!Begin, ICP!Goto, ICP!Idle,
       ICP!Return, ICP!Fail, ICP!Write, ICP!OnlyInst, ICP!OnlyLoad,
       ICP!AddFinalizer, ICP!SetLabels, ICP!SetExpiration, ICP!DeleteExpired,
       ICP!RemoveFinalizer, ICP!Conflict, ICP!PanicNoTTL, ICP!Target,
       ICP!Workloads, ICP!Buildable, ICP!Desired, ICP!Proceed, ICP!Create,
       ICP!Update, ICP!CannotApply, ICP!ApiError, ICP!Restart, ICP!ChangeView,
       ICP!DeleteNamespace, ICP!Evict, ICP!Purge, ICP!CreateNamespace,
       ICP!Call, ICP!Start, ICP!Neighbour, ICP!Outside, ICP!UserStep,
       ICP!Vandalism, ICP!Clock, ICP!GarbageCollector, ICP!NamespaceController

\* What the instance controller assumes of its constants is so here.
LEMMA Assumptions ==
    ICP!ClusterAssumption /\ ICP!LoggerAssumption /\ ICP!ViewsAssumption
BY ClusterAssumption, KubeflagAssumption
   DEF ICP!ClusterAssumption, ICP!LoggerAssumption, ICP!ViewsAssumption,
       Exposable, ServicePort, ContainerPorts, ICP!Exposable, ICP!ServicePort,
       ICP!ContainerPorts

LEMMA InstanceTypeStep == IC!TypeOK /\ [IC!OpenNext]_(IC!vars) => IC!TypeOK'
<1>1. ICP!TypeOK /\ [ICP!OpenNext]_(ICP!vars) => ICP!TypeOK'
  BY ICP!TypeStep, Assumptions
<1>2. IC!TypeOK' <=> ICP!TypeOK'
  BY DEF IC!TypeOK, ICP!TypeOK, IC!ClusterTypeOK, ICP!ClusterTypeOK, IC!Steps,
         ICP!Steps, IC!Instance, ICP!Instance, IC!Loads, ICP!Loads, IC!Workload,
         ICP!Workload, IC!Kinds, ICP!Kinds
<1>3. (IC!vars)' = (ICP!vars)'
  BY DEF IC!vars, ICP!vars, IC!clusterVars, ICP!clusterVars, IC!workerVars,
         ICP!workerVars
<1>. QED
  BY <1>1, <1>2, <1>3, SameType, SameNext, SameVars

-----------------------------------------------------------------------------
(* The types of both controllers *)

KInv == IC!TypeOK /\ ChalInv

\* What the lemmas about the challenge controller ask of the cluster.
LEMMA Around ==
    ASSUME KInv
    PROVE  ChalInv /\ now \in Nat /\ ns \in {"active", "terminating", "absent"}
BY DEF KInv, IC!TypeOK, IC!ClusterTypeOK

-----------------------------------------------------------------------------
(* The composition implements the specification of the instance controller *)

\* What the challenge controller does to the cluster is the making or the
\* deletion of the namespace, an eviction or a purge.
LEMMA ClusterStep ==
    ASSUME KInv, ChStep
    PROVE  \/ UNCHANGED clusterVars
           \/ UNCHANGED chC /\ \/ MakeNamespace
                               \/ RazeNamespace \/ CollectNamespace
                               \/ EvictInstance \/ PurgeWorkload
BY DEF ChStep, ChStart, ChSkip, ChBegin, ChBeginDelete, ChCall, ChUpdate, ChOther,
   AddInstanceFinalizer, SetExposed, OwnNamespace, Disown, ReleaseNamespace,
   StaleExposed, WriteHealth, HasNamespace, NothingToPurge, WriteHash,
   NothingToRaze, ChRetry, ChApiError, DeliverChallenge, DeliverNamespace,
   DeleteChallenge, EditChallenge, OnlyChallenge, MakeNamespace, RazeNamespace,
   CollectNamespace, EvictInstance, PurgeWorkload, chalVars

LEMMA ChallengeStepImplements ==
    ASSUME KInv, ChallengeStep
    PROVE  [IC!OpenNext]_(IC!vars)
<1>. USE DEF clusterVars, instanceWorker, IC!vars, IC!clusterVars, IC!workerVars
<1>0. /\ UNCHANGED instanceWorker /\ ChStep
      /\ inst \in [Instances -> IC!Instance]
      /\ load \in [IC!Loads -> IC!Workload]
      /\ ns \in {"active", "terminating", "absent"}
  BY DEF ChallengeStep, KInv, IC!TypeOK, IC!ClusterTypeOK
<1>1. CASE UNCHANGED clusterVars
  <2>1. chC' \in Version
    BY <1>0, Around, ChStepInv DEF ChalInv
  <2>2. Seen' \in {None} \cup [healthy : BOOLEAN, tpl : Templates, exposed : Names]
    BY <2>1 DEF Seen, Version, Challenge
  <2>. QED
    BY <1>0, <1>1, <2>2 DEF IC!OpenNext, IC!Inside, IC!ChangeView
<1>2. ASSUME UNCHANGED chC
      PROVE  Seen' = Seen
  BY <1>2 DEF Seen
<1>3. CASE UNCHANGED chC /\ MakeNamespace
  <2>1. IC!CreateNamespace
    BY <1>0, <1>2, <1>3 DEF MakeNamespace, IC!CreateNamespace
  <2>. QED
    BY <2>1 DEF IC!OpenNext, IC!Inside
<1>4. CASE UNCHANGED chC /\ (RazeNamespace \/ CollectNamespace)
  <2>1. /\ ns # "absent" /\ ns' = "terminating"
        /\ UNCHANGED <<now, requests, faults, inst, instC, load, loadC>>
    BY <1>4 DEF RazeNamespace, CollectNamespace
  <2>2. CASE ns = "active"
    <3>1. IC!DeleteNamespace
      BY <1>0, <1>2, <1>4, <2>1, <2>2 DEF IC!DeleteNamespace
    <3>. QED
      BY <2>1, <3>1 DEF IC!OpenNext, IC!Neighbour
  <2>3. CASE ns = "terminating"
    BY <1>0, <1>2, <1>4, <2>1, <2>3
  <2>. QED
    BY <1>0, <2>1, <2>2, <2>3
<1>5. CASE UNCHANGED chC /\ EvictInstance
  <2>. DEFINE i == Head(todo)
  <2>1. /\ inst' = [inst EXCEPT ![i] = Deleted(i)]
        /\ UNCHANGED <<now, requests, faults, ns, instC, load, loadC>>
    BY <1>5 DEF EvictInstance
  <2>. HIDE DEF i
  <2>2. CASE i \in Instances /\ inst[i].st = "live"
    <3>1. Deleted(i) = IC!Deleted(i)
      BY DEF Deleted, IC!Deleted, NoInstance, IC!NoInstance
    <3>2. IC!Evict(i)
      BY <1>0, <1>2, <1>5, <2>1, <2>2, <3>1 DEF IC!Evict
    <3>. QED
      BY <2>1, <2>2, <3>2 DEF IC!OpenNext, IC!Neighbour
  <2>3. CASE ~(i \in Instances /\ inst[i].st = "live")
    <3>1. i \in Instances => Deleted(i) = inst[i]
      BY <2>3 DEF Deleted
    <3>2. inst' = inst
      BY <1>0, <2>1, <3>1
    <3>. QED
      BY <1>0, <1>2, <1>5, <2>1, <3>2
  <2>. QED
    BY <2>2, <2>3
<1>6. CASE UNCHANGED chC /\ PurgeWorkload
  <2>. DEFINE w == Outdated
  <2>1. /\ load[w].there /\ RemoveLoad(w)
        /\ UNCHANGED <<now, requests, faults, ns, inst, instC, loadC>>
    BY <1>6 DEF PurgeWorkload
  <2>. HIDE DEF w
  <2>2. CASE w \in IC!Loads
    <3>1. IC!RemoveLoad(w)
      BY <2>1 DEF RemoveLoad, IC!RemoveLoad, NoLoad, IC!NoLoad
    <3>2. IC!Purge(w)
      BY <1>0, <1>2, <1>6, <2>1, <3>1 DEF IC!Purge
    <3>. QED
      BY <2>1, <2>2, <3>2 DEF IC!OpenNext, IC!Neighbour
  <2>3. CASE w \notin IC!Loads
    <3>1. load' = load
      BY <1>0, <2>1, <2>3 DEF RemoveLoad
    <3>. QED
      BY <1>0, <1>2, <1>6, <2>1, <3>1
  <2>. QED
    BY <2>2, <2>3
<1>. QED
  BY <1>0, <1>1, <1>3, <1>4, <1>5, <1>6, ClusterStep

\* Every step of the two controllers is one that the specification of the
\* instance controller allows, or none for it.
LEMMA StepImplements ==
    ASSUME KInv, [Next]_vars
    PROVE  [IC!OpenNext]_(IC!vars)
<1>1. CASE InstanceStep
  BY <1>1 DEF InstanceStep, IC!OpenNext, IC!Inside
<1>2. CASE ChallengeStep
  BY <1>2, ChallengeStepImplements
<1>3. CASE ManagerRestart
  BY <1>3 DEF ManagerRestart, IC!OpenNext, IC!Inside
<1>4. CASE UNCHANGED vars
  BY <1>4 DEF vars, clusterVars, chalVars, instanceWorker, Seen, IC!vars,
     IC!clusterVars, IC!workerVars
<1>. QED
  BY <1>1, <1>2, <1>3, <1>4 DEF Next

LEMMA KInvStep == KInv /\ [Next]_vars => KInv'
<1>. SUFFICES ASSUME KInv, [Next]_vars
              PROVE  KInv'
  OBVIOUS
<1>1. IC!TypeOK'
  BY StepImplements, InstanceTypeStep DEF KInv
<1>2. CASE InstanceStep
  <2>1. UNCHANGED <<chal, chC, nsC, chWorker, edits, errors>> /\ chQueued' \in BOOLEAN
    BY <1>2 DEF InstanceStep, KInv, ChalInv
  <2>. QED
    BY <1>1, <2>1 DEF KInv, ChalInv, chWorker
<1>3. CASE ChallengeStep
  BY <1>1, <1>3, Around, ChStepInv DEF ChallengeStep, KInv
<1>4. CASE ManagerRestart
  BY <1>1, <1>4, Around, ResumeInv DEF ManagerRestart, KInv
<1>5. CASE UNCHANGED vars
  BY <1>1, <1>5 DEF vars, chalVars, chWorker, KInv, ChalInv
<1>. QED
  BY <1>2, <1>3, <1>4, <1>5 DEF Next

LEMMA InstanceInitType == IC!Init => IC!TypeOK
<1>1. ICP!Init => ICP!TypeOK
  BY ICP!InitInv, Assumptions DEF ICP!IInv
<1>. QED
  BY <1>1, SameInit, SameType

LEMMA KInvariant == Spec => []KInv
<1>1. Init => KInv
  BY ChInitInv, InstanceInitType DEF Init, KInv
<1>. QED
  BY <1>1, KInvStep, PTL DEF Spec

\* Every variable of the two controllers and the cluster keeps its type, a
\* worker at work holds a Challenge, and no loop runs off its list.
THEOREM TypeCorrect == Spec => []TypeOK
<1>1. KInv => TypeOK
  BY NoChallengeType DEF KInv, ChalInv, Version, TypeOK
<1>. QED
  BY <1>1, KInvariant, PTL

\* The challenge controller, its author and the restarts of the process do to
\* the instance controller only what its own specification allows for.
THEOREM ImplementsHolds == Spec => Implements
<1>1. Init => IC!Init
  BY DEF Init
<1>2. KInv /\ [Next]_vars => [IC!OpenNext]_(IC!vars)
  BY StepImplements
<1>. QED
  BY <1>1, <1>2, KInvariant, PTL DEF Spec, Implements, IC!OpenSpec

\* The two controllers run the instance controller as its own specification
\* has it, in the words of either instance of the module.
LEMMA Opened == Spec => ICP!OpenSpec
<1>1. Init => ICP!Init
  BY SameInit DEF Init
<1>2. KInv /\ [Next]_vars => [ICP!OpenNext]_(ICP!vars)
  <2>1. (IC!vars)' = (ICP!vars)'
    BY DEF IC!vars, ICP!vars, IC!clusterVars, ICP!clusterVars, IC!workerVars,
           ICP!workerVars
  <2>. QED
    BY <2>1, StepImplements, SameNext, SameVars
<1>. QED
  BY <1>1, <1>2, KInvariant, PTL DEF Spec, ICP!OpenSpec

\* So its inductive invariant holds next to the challenge controller.
THEOREM InstanceInvariantHolds == Spec => []IC!InstanceInv
<1>1. ICP!OpenSpec => []ICP!InstanceInv
  BY ICP!InstanceInvariant, Assumptions
<1>2. ICP!InstanceInv => IC!InstanceInv
  BY DEF IC!InstanceInv, ICP!InstanceInv, IC!Copies, ICP!Copies, IC!CopyOf,
         ICP!CopyOf, IC!Guarded, ICP!Guarded, IC!Judged, ICP!Judged, IC!Kinds,
         ICP!Kinds, IC!Exists, ICP!Exists
<1>. QED
  BY <1>1, <1>2, Opened, PTL

\* And with evictions, purges and the deletion of the namespace around it, no
\* workload is made for an incarnation that is gone or not guarded.
THEOREM CreatedForGuardedHolds == Spec => IC!CreatedForGuarded
<1>1. ICP!OpenSpec => ICP!CreatedForGuarded
  BY ICP!CreatedForGuardedHolds, Assumptions
<1>2. [\A w \in ICP!Loads :
          ~load[w].there /\ load'[w].there =>
             /\ inst[load'[w].owner].uid = load'[w].uid
             /\ inst[load'[w].owner].fin]_(ICP!vars)
      => [\A w \in IC!Loads :
             ~load[w].there /\ load'[w].there =>
                /\ inst[load'[w].owner].uid = load'[w].uid
                /\ inst[load'[w].owner].fin]_(IC!vars)
  BY DEF IC!Loads, ICP!Loads, IC!Kinds, ICP!Kinds, IC!vars, ICP!vars,
         IC!clusterVars, ICP!clusterVars, IC!workerVars, ICP!workerVars
<1>. QED
  BY <1>1, <1>2, Opened, PTL DEF ICP!CreatedForGuarded, IC!CreatedForGuarded

\* Nor does the unconditional Delete hit one that has not expired.
THEOREM DeletesOnlyExpiredHolds == Spec => IC!DeletesOnlyExpired
<1>1. ICP!OpenSpec => ICP!DeletesOnlyExpired
  BY ICP!DeletesOnlyExpiredHolds, Assumptions
<1>2. [\A i \in Instances :
          pc = "expire" /\ pc' # pc /\ inst'[i] # inst[i] =>
             /\ inst[i].uid = obj.uid
             /\ inst[i].exp # None
             /\ now > inst[i].exp]_(ICP!vars)
      => [\A i \in Instances :
             pc = "expire" /\ pc' # pc /\ inst'[i] # inst[i] =>
                /\ inst[i].uid = obj.uid
                /\ inst[i].exp # None
                /\ now > inst[i].exp]_(IC!vars)
  BY DEF IC!vars, ICP!vars, IC!clusterVars, ICP!clusterVars, IC!workerVars,
         ICP!workerVars
<1>. QED
  BY <1>1, <1>2, Opened, PTL DEF ICP!DeletesOnlyExpired, IC!DeletesOnlyExpired

-----------------------------------------------------------------------------
(* What the challenge controller knows of the stored Challenge *)

\* No container without a port has the name of one with a port.  Of such a
\* template validateTemplate thinks otherwise once it has filled in the name.
UnmixedNames ==
    \A t \in Templates : \A k, m \in DOMAIN t :
       t[k].name = t[m].name /\ t[k].ports # << >> => t[m].ports # << >>

\* Stages past the verdict, and stages of the deletion.
After ==
    {"namespace", "own", "annotate", "purge deployment", "purge service", "hash"}
Farewell == {"evict", "disown", "raze", "release", "unannotate", "unrefer"}

Quiet == ~chQueued /\ ~ChallengeNotable
Fresh == chObj.rev = chal.rev

Revs ==
    /\ chC.rev <= chal.rev
    /\ chC.rev = chal.rev => chC = chal
    /\ chal.st # "absent" => chC.gen <= chal.gen
    /\ chal.st = "live" => chC.st # "deleting"
    /\ chPc # "idle" => chObj.rev <= chal.rev

\* Until the verdict is written, it is one on the spec that is stored or the
\* write of it will be refused.
Verdict ==
    /\ chPc \in {"expose", "status"} =>
          /\ "instances" \in chObj.fins
          /\ Fresh => chObj.tpl = chal.tpl /\ chObj.fins = chal.fins
    /\ chPc = "expose" => ValidTemplate(chObj.tpl, None)
    /\ chPc = "status" /\ chObj.healthy =>
          /\ ValidTemplate(chObj.tpl, chObj.exposed) /\ chObj.exposed # None
          /\ Fresh => chObj.exposed = chal.exposed

\* Past it, an edit either makes the rest of the visit fail or is notable.
Sequel ==
    /\ chPc \in After /\ Fresh =>
          /\ "instances" \in chal.fins
          /\ chObj.tpl = chal.tpl /\ chObj.hash = chal.hash
          /\ chObj.fins = chal.fins
          /\ chObj.healthy = chal.healthy
          /\ chal.healthy => /\ Valid /\ chal.exposed # None
                            /\ chObj.exposed = chal.exposed
    /\ chPc \in After /\ chal.st = "live" /\ Quiet => Fresh

\* The namespace of a live Challenge stays, once it is there.
Space ==
    chal.st = "live" =>
       /\ ns # "terminating"
       /\ nsC # "absent" => ns # "absent"
       /\ chPc \notin Farewell
       /\ chPc \in After \ {"namespace"} => ns # "absent"

EInv == Revs /\ Verdict /\ Sequel /\ Space /\ NothingForgotten

LEMMA Numbers ==
    ASSUME ChalInv
    PROVE  /\ chal.rev \in Nat /\ chC.rev \in Nat /\ chObj.rev \in Nat
           /\ chal.gen \in Nat /\ chC.gen \in Nat
BY DEF ChalInv, Version, Challenge

\* Versions of the Challenge after a write of it.
LEMMA Grown ==
    ASSUME ChalInv, Revs, UNCHANGED chC,
           chal' = chal \/ chal'.rev = chal.rev + 1,
           chal'.st # "absent" => /\ chal.st # "absent"
                                  /\ chal'.gen \in {chal.gen, chal.gen + 1},
           chal'.st = "live" => chal.st = "live",
           chPc' # "idle" => chObj'.rev <= chal'.rev
    PROVE  Revs'
BY Numbers DEF Revs

\* Steps that leave the Challenge and its worker alone.
LEMMA KeepInv ==
    ASSUME KInv, EInv,
           UNCHANGED <<chal, chObj, chPc>>,
           \/ chC' = chC /\ chQueued' \in {chQueued, TRUE}
           \/ chC' = chal /\ chQueued' = (chQueued \/ ChallengeNotable),
           ns' = ns \/ ns = "terminating" \/ chal.st = "absent",
           nsC' \in {nsC, ns}
    PROVE  EInv'
<1>. USE DEF EInv
<1>0. ChalInv
  BY DEF KInv
<1>1. Revs'
  <2>1. CASE chC' = chC
    BY <2>1 DEF Revs
  <2>2. CASE chC' = chal
    BY <1>0, <2>2, Numbers DEF Revs
  <2>. QED
    BY <2>1, <2>2
<1>2. Quiet' => Quiet
  BY <1>0 DEF Quiet, ChallengeNotable, ChalInv
<1>3. Verdict'
  BY DEF Verdict, Fresh, ValidTemplate, WithPort
<1>4. Sequel'
  BY <1>2 DEF Sequel, Fresh, Valid, ValidTemplate, WithPort
<1>5. Space'
  BY DEF Space
<1>6. NothingForgotten'
  BY <1>2, <1>5 DEF NothingForgotten, Pending, Quiet, Valid, Space, ValidTemplate, WithPort
<1>. QED
  BY <1>1, <1>3, <1>4, <1>5, <1>6

\* Visits end in a retry unless everything is done or the Challenge is not live.
LEMMA EndInv ==
    ASSUME KInv, EInv, ChIdle,
           UNCHANGED <<chC, nsC, ns>>,
           chal' = chal \/ chal'.rev = chal.rev + 1,
           chal'.st # "absent" => /\ chal.st # "absent"
                                  /\ chal'.gen \in {chal.gen, chal.gen + 1},
           chal'.st = "live" => chal.st = "live",
           NothingForgotten'
    PROVE  EInv'
<1>1. chPc' = "idle"
  BY DEF ChIdle
<1>2. Revs'
  BY <1>1, Grown DEF KInv, EInv
<1>3. Verdict' /\ Sequel' /\ Space'
  BY <1>1 DEF Verdict, Sequel, Space, EInv, After, Farewell
<1>. QED
  BY <1>2, <1>3 DEF EInv

LEMMA RetryInv ==
    ASSUME KInv, EInv, ChFail, UNCHANGED <<chal, chC, nsC, ns>>
    PROVE  EInv'
<1>1. NothingForgotten'
  BY DEF ChFail, NothingForgotten, Pending
<1>2. chal'.st # "absent" => chal'.gen \in {chal.gen, chal.gen + 1}
  OBVIOUS
<1>. QED
  BY <1>1, <1>2, EndInv DEF ChFail

\* A Challenge that is not live needs no more than its versions in order.
LEMMA FarewellInv ==
    ASSUME KInv, EInv, chal'.st # "live",
           UNCHANGED chC,
           chal' = chal \/ chal'.rev = chal.rev + 1,
           chal'.st # "absent" => /\ chal.st # "absent"
                                  /\ chal'.gen \in {chal.gen, chal.gen + 1},
           chPc' \in Farewell \cup {"idle"},
           chPc' # "idle" => chObj'.rev <= chal'.rev
    PROVE  EInv'
<1>1. Revs'
  BY Grown DEF KInv, EInv
<1>2. Verdict' /\ Sequel' /\ Space' /\ NothingForgotten'
  BY DEF Verdict, Sequel, Space, NothingForgotten, After, Farewell
<1>. QED
  BY <1>1, <1>2 DEF EInv

LEMMA EStart ==
    ASSUME KInv, EInv, ChStart, UNCHANGED ns
    PROVE  EInv'
<1>0. /\ ChalInv /\ chC \in Version /\ chal \in Version /\ Revs
      /\ chC.rev \in Nat /\ chal.rev \in Nat
  BY Numbers DEF KInv, ChalInv, EInv
<1>1. CASE ChSkip
  <2>1. /\ chC.st = "absent" /\ chPc = "idle"
        /\ UNCHANGED <<chal, chC, nsC, chPc, chObj, ns>>
    BY <1>1 DEF ChSkip, ChTake, chWorker, clusterVars
  <2>2. Revs' /\ Verdict' /\ Sequel' /\ Space'
    BY <2>1 DEF EInv, Revs, Verdict, Sequel, Space, After, Farewell
  <2>3. NothingForgotten'
    BY <2>1 DEF NothingForgotten, Pending, ChallengeNotable
  <2>. QED
    BY <2>2, <2>3 DEF EInv
<1>2. CASE ChBegin
  <2>1. /\ chC.st = "live" /\ UNCHANGED <<chal, chC, nsC, ns>>
    BY <1>2 DEF ChBegin
  <2>2. chal'.st # "absent" => chal'.gen \in {chal.gen, chal.gen + 1}
    BY <2>1
  <2>3. CASE "instances" \in chC.fins
    <3>1. chC.fins # {} /\ Validate(chC)
      BY <1>2, <2>3 DEF ChBegin
    <3>2. /\ chObj'.tpl = chC.tpl /\ chObj'.exposed = chC.exposed
          /\ chObj'.rev = chC.rev /\ chObj'.fins = chC.fins
          /\ chObj'.healthy = ValidTemplate(chC.tpl, chC.exposed)
          /\ \/ chPc' = "expose" /\ chC.exposed = None /\ chObj'.healthy
             \/ chPc' = "status"
      BY <1>0, <2>1, <3>1, ValidateStage
    <3>3. Revs'
      BY <1>0, <2>1, <2>2, <3>2, Grown DEF Revs
    <3>4. Fresh' => chC = chal
      BY <1>0, <2>1, <3>2 DEF Fresh, Revs
    <3>5. chPc' = "expose" => ValidTemplate(chObj.tpl, None)'
      BY <3>2 DEF ValidTemplate, WithPort
    <3>6. /\ chObj'.healthy => ValidTemplate(chObj.tpl, chObj.exposed)'
          /\ chPc' = "status" /\ chObj'.healthy => chObj'.exposed # None
      BY <1>0, <2>1, <3>1, <3>2, ValidateStage DEF ValidTemplate, WithPort
    <3>7. Verdict'
      BY <2>1, <2>3, <3>2, <3>4, <3>5, <3>6 DEF Verdict
    <3>8. Sequel' /\ Space' /\ NothingForgotten'
      BY <2>1, <3>2 DEF EInv, Sequel, Space, NothingForgotten, Pending, After, Farewell
    <3>. QED
      BY <3>3, <3>7, <3>8 DEF EInv
  <2>4. CASE "instances" \notin chC.fins
    <3>1. chObj' = chC /\ chPc' = "finalize"
      BY <1>2, <2>4 DEF ChBegin, ChGoto
    <3>2. Revs'
      BY <1>0, <2>1, <2>2, <3>1, Grown DEF Revs
    <3>3. Verdict' /\ Sequel' /\ Space' /\ NothingForgotten'
      BY <2>1, <3>1 DEF EInv, Verdict, Sequel, Space, NothingForgotten, Pending,
         After, Farewell
    <3>. QED
      BY <3>2, <3>3 DEF EInv
  <2>. QED
    BY <2>3, <2>4
<1>3. CASE ChBeginDelete
  <2>1. /\ chC.st = "deleting" /\ chObj' = chC
        /\ UNCHANGED <<chal, chC, nsC, ns>>
        /\ chPc' \in Farewell
    BY <1>3, ForgetStage DEF ChBeginDelete, ChGoto, Farewell
  <2>2. chal'.st # "absent" => chal'.gen \in {chal.gen, chal.gen + 1}
    BY <2>1
  <2>3. chal'.st # "live" /\ chObj'.rev <= chal'.rev
    BY <1>0, <2>1 DEF Revs
  <2>. QED
    BY <2>1, <2>2, <2>3, FarewellInv
<1>. QED
  BY <1>1, <1>2, <1>3 DEF ChStart

\* Writes before the verdict is known.
LEMMA EFinalize ==
    ASSUME KInv, EInv, AddInstanceFinalizer
    PROVE  EInv'
<1>. DEFINE new == [chObj EXCEPT !.fins = @ \cup {"instances"}]
<1>0. /\ ChalInv /\ chal \in Version /\ chObj \in Version
      /\ chObj.fins \in SUBSET {"instances", "namespace", "data"}
      /\ chObj.exposed \in Names
  BY DEF KInv, ChalInv, Version, Challenge
<1>1. /\ new.fins = chObj.fins \cup {"instances"}
      /\ new.exposed = chObj.exposed
  BY <1>0 DEF Version, Challenge
<1>2. UpdateChallenge(new) /\ Validate(chal') /\ UNCHANGED <<chC, nsC, ns>>
  BY DEF AddInstanceFinalizer, OnlyChallenge, clusterVars
<1>. HIDE DEF new
<1>3. /\ chal' \in Version /\ chal'.fins = chObj.fins \cup {"instances"}
      /\ chal'.st = chal.st /\ chal.st # "absent"
      /\ chal' = chal \/ chal'.rev = chal.rev + 1
      /\ chal'.gen \in {chal.gen, chal.gen + 1}
  BY <1>0, <1>1, <1>2, UpdateType
<1>4. /\ chObj'.tpl = chal'.tpl /\ chObj'.exposed = chal'.exposed
      /\ chObj'.rev = chal'.rev /\ chObj'.fins = chal'.fins
      /\ chObj'.healthy = ValidTemplate(chal'.tpl, chal'.exposed)
      /\ \/ chPc' = "expose" /\ chal'.exposed = None /\ chObj'.healthy
         \/ chPc' = "status"
  BY <1>2, <1>3, ValidateStage
<1>5. chal'.rev \in Nat
  BY <1>3 DEF Version, Challenge
<1>6. Revs'
  BY <1>0, <1>2, <1>3, <1>4, <1>5, Grown DEF EInv
<1>7. chPc' = "expose" => ValidTemplate(chObj.tpl, None)'
  BY <1>4 DEF ValidTemplate, WithPort
<1>8. /\ chObj'.healthy => ValidTemplate(chObj.tpl, chObj.exposed)'
      /\ chPc' = "status" /\ chObj'.healthy => chObj'.exposed # None
  <2>1. chPc' = "status" /\ chObj'.healthy => chal'.exposed # None
    BY <1>2, <1>3, ValidateStage
  <2>. QED
    BY <1>4, <2>1 DEF ValidTemplate, WithPort
<1>9. Verdict'
  BY <1>3, <1>4, <1>7, <1>8 DEF Verdict
<1>10. Sequel' /\ Space' /\ NothingForgotten'
  BY <1>2, <1>3, <1>4 DEF EInv, Sequel, Space, NothingForgotten, Pending, After, Farewell
<1>. QED
  BY <1>6, <1>9, <1>10 DEF EInv

\* A template that is valid as it stands is valid with the name filled in.
LEMMA NameKeepsValid ==
    ASSUME UnmixedNames, NEW t \in Templates, ValidTemplate(t, None)
    PROVE  ValidTemplate(t, ExposedName(t, None)) /\ ExposedName(t, None) # None
<1>1. PICK k \in WithPort(t) : k = CHOOSE m \in WithPort(t) : TRUE
  BY DEF ValidTemplate
<1>2. k \in DOMAIN t /\ t[k].ports # << >>
  BY DEF WithPort
<1>3. ExposedName(t, None) = t[k].name
  BY <1>1 DEF ExposedName
<1>4. t[k].name # None
  BY <1>2 DEF ValidTemplate
<1>5. \A m \in DOMAIN t : t[m].name = t[k].name => t[m].ports # << >>
  BY <1>2 DEF UnmixedNames
<1>. QED
  BY <1>3, <1>4, <1>5 DEF ValidTemplate

LEMMA EExpose ==
    ASSUME UnmixedNames, KInv, EInv, SetExposed
    PROVE  EInv'
<1>. DEFINE name == ExposedName(chObj.tpl, None)
            new == [chObj EXCEPT !.exposed = name]
<1>0. /\ ChalInv /\ chal \in Version /\ chObj \in Version
      /\ chObj.fins \in SUBSET {"instances", "namespace", "data"}
      /\ chPc = "expose"
  BY DEF KInv, ChalInv, Version, Challenge, SetExposed
<1>1. chObj.st # "absent" /\ WithPort(chObj.tpl) # {} /\ chObj.fins # {}
  BY <1>0 DEF ChalInv
<1>2. name \in Names
  BY <1>0, <1>1, ExposedNameType
<1>3. /\ UpdateChallenge(new) /\ chObj' = [chal' EXCEPT !.healthy = TRUE]
      /\ chPc' = "status" /\ UNCHANGED <<chC, nsC, ns>>
  BY DEF SetExposed, ChGoto, OnlyChallenge, clusterVars
<1>11. /\ "instances" \in chObj.fins
       /\ ValidTemplate(chObj.tpl, None)
       /\ Fresh => chObj.tpl = chal.tpl
  BY <1>0 DEF EInv, Verdict
<1>12. ValidTemplate(chObj.tpl, name) /\ name # None
  BY <1>0, <1>1, <1>11, NameKeepsValid DEF Version
<1>. HIDE DEF name
<1>4. new.exposed = name /\ new.fins = chObj.fins
  BY <1>0, <1>2, ExposedType
<1>. HIDE DEF new
<1>5. /\ chal' \in Version /\ chal'.fins = chObj.fins
      /\ chal'.st = chal.st /\ chal.st # "absent"
      /\ chal' = chal \/ chal'.rev = chal.rev + 1
      /\ chal'.gen \in {chal.gen, chal.gen + 1}
      /\ chal'.tpl = chal.tpl /\ chal'.exposed = name
      /\ chObj.rev = chal.rev
  BY <1>0, <1>1, <1>2, <1>3, <1>4, UpdateType
<1>6. /\ chObj'.tpl = chal'.tpl /\ chObj'.exposed = chal'.exposed
      /\ chObj'.rev = chal'.rev /\ chObj'.fins = chal'.fins
  BY <1>3, <1>5, HealthyType
<1>7. chal'.rev \in Nat
  BY <1>5 DEF Version, Challenge
<1>8. Revs'
  BY <1>0, <1>3, <1>5, <1>6, <1>7, Grown DEF EInv
<1>13. chObj'.tpl = chObj.tpl /\ chObj'.exposed = name
  BY <1>5, <1>6, <1>11 DEF Fresh
<1>14. ValidTemplate(chObj.tpl, chObj.exposed)' /\ chObj'.exposed # None
  BY <1>12, <1>13 DEF ValidTemplate, WithPort
<1>9. Verdict'
  BY <1>3, <1>5, <1>6, <1>11, <1>14 DEF Verdict
<1>10. Sequel' /\ Space' /\ NothingForgotten'
  BY <1>3, <1>5 DEF EInv, Sequel, Space, NothingForgotten, Pending, After, Farewell
<1>. QED
  BY <1>8, <1>9, <1>10 DEF EInv

\* A verdict for want of an update.
LEMMA ENotExposed ==
    ASSUME KInv, EInv, NotExposed, UNCHANGED <<chal, chC, nsC, ns>>
    PROVE  EInv'
<1>1. /\ chPc' = "status" /\ chPc = "expose" /\ ~chObj'.healthy
      /\ chObj'.rev = chObj.rev /\ chObj'.tpl = chObj.tpl
      /\ chObj'.fins = chObj.fins
  BY NotExposedStage DEF KInv
<1>2. Revs'
  BY <1>1 DEF EInv, Revs
<1>3. Verdict'
  BY <1>1 DEF EInv, Verdict, Fresh
<1>4. Sequel' /\ Space' /\ NothingForgotten'
  BY <1>1 DEF EInv, Sequel, Space, NothingForgotten, Pending, After, Farewell
<1>. QED
  BY <1>2, <1>3, <1>4 DEF EInv

\* The verdict is written over the spec it is about.
LEMMA EWriteHealth ==
    ASSUME KInv, EInv, WriteHealth
    PROVE  /\ EInv'
           /\ chal'.healthy => /\ ValidTemplate(chal.tpl, chal.exposed)'
                               /\ chal'.exposed # None
<1>. DEFINE new == [chObj EXCEPT !.active = Cardinality(Labelled)]
<1>0. /\ ChalInv /\ chal \in Version /\ chObj \in Version /\ now \in Nat
      /\ chPc = "status" /\ chObj.exposed \in Names
  BY DEF KInv, ChalInv, WriteHealth, IC!TypeOK, IC!ClusterTypeOK, Version, Challenge
<1>1. /\ new.healthy = chObj.healthy /\ new.healthy \in BOOLEAN
  BY <1>0 DEF Version, Challenge
<1>2. new.hash = chObj.hash /\ new.hash \in Templates \cup {None}
  BY <1>0 DEF Version, Challenge
<1>3. new.active \in Nat
  BY <1>0, LabelledCount DEF Version, Challenge
<1>4. /\ UpdateStatus(new) /\ chObj' = [chal' EXCEPT !.exposed = chObj.exposed]
      /\ chPc' = "namespace" /\ UNCHANGED <<chC, nsC, ns>>
  BY DEF WriteHealth, ChGoto, OnlyChallenge, clusterVars
<1>. HIDE DEF new
<1>5. /\ chal' \in Version
      /\ chal'.st = chal.st /\ chal.st # "absent"
      /\ chal'.tpl = chal.tpl /\ chal'.exposed = chal.exposed
      /\ chal'.fins = chal.fins /\ chal'.healthy = chObj.healthy
      /\ chal'.gen = chal.gen /\ chObj.rev = chal.rev
      /\ chal' = chal \/ chal'.rev = chal.rev + 1
  BY <1>0, <1>1, <1>2, <1>3, <1>4, StatusType
<1>6. /\ chObj'.tpl = chal'.tpl /\ chObj'.exposed = chObj.exposed
      /\ chObj'.rev = chal'.rev /\ chObj'.fins = chal'.fins
      /\ chObj'.hash = chal'.hash /\ chObj'.healthy = chal'.healthy
  BY <1>0, <1>4, <1>5, ExposedType
<1>7. /\ "instances" \in chObj.fins /\ chObj.tpl = chal.tpl /\ chObj.fins = chal.fins
      /\ chObj.healthy => /\ ValidTemplate(chObj.tpl, chObj.exposed)
                          /\ chObj.exposed # None
                          /\ chObj.exposed = chal.exposed
  BY <1>0, <1>5 DEF EInv, Verdict, Fresh
<1>8. chal'.healthy => /\ ValidTemplate(chal.tpl, chal.exposed)'
                       /\ chal'.exposed # None
  BY <1>5, <1>7 DEF ValidTemplate, WithPort
<1>9. chal'.rev \in Nat
  BY <1>5 DEF Version, Challenge
<1>10. Revs'
  BY <1>0, <1>4, <1>5, <1>6, <1>9, Grown DEF EInv
<1>11. Sequel'
  BY <1>5, <1>6, <1>7, <1>8 DEF Sequel, Fresh, Valid
<1>12. Verdict' /\ Space' /\ NothingForgotten'
  BY <1>4, <1>5 DEF EInv, Verdict, Space, NothingForgotten, Pending, Farewell
<1>. QED
  BY <1>8, <1>10, <1>11, <1>12 DEF EInv

\* A step from one stage past the verdict to the next, or to the end when the
\* hash is the right one.
LEMMA AfterInv ==
    ASSUME KInv, EInv, chPc \in After,
           UNCHANGED <<chal, chC, nsC, chQueued>>,
           \/ chPc' \in After /\ chObj' = chObj
           \/ ChIdle /\ chObj.hash = chObj.tpl,
           chal.st = "live" => ns' # "absent" /\ ns' # "terminating"
    PROVE  EInv'
<1>. USE DEF EInv
<1>1. Revs'
  <2>1. chPc # "idle"
    BY DEF After
  <2>. QED
    BY <2>1 DEF Revs, ChIdle
<1>2. Verdict'
  BY DEF Verdict, After, ChIdle
<1>3. Space'
  BY DEF Space, After, Farewell, ChIdle
<1>4. (Quiet' <=> Quiet) /\ (Valid' <=> Valid)
  BY DEF Quiet, ChallengeNotable, Valid, ValidTemplate, WithPort
<1>5. Sequel'
  <2>1. CASE chPc' \in After /\ chObj' = chObj
    <3>1. Fresh' <=> Fresh
      BY <2>1 DEF Fresh
    <3>. QED
      BY <1>4, <2>1, <3>1 DEF Sequel
  <2>2. CASE ChIdle
    BY <2>2 DEF Sequel, ChIdle, After
  <2>. QED
    BY <2>1, <2>2
<1>6. NothingForgotten'
  <2>1. CASE chPc' \in After
    BY <2>1 DEF NothingForgotten, Pending, After
  <2>2. CASE chal.st = "live" /\ Quiet /\ chObj.hash = chObj.tpl
    <3>1. /\ "instances" \in chal.fins
          /\ chal.hash = chal.tpl
          /\ chal.healthy => Valid /\ chal.exposed # None
      BY <2>2 DEF Sequel
    <3>. QED
      BY <1>4, <2>2, <3>1 DEF NothingForgotten
  <2>3. CASE ~(chal.st = "live" /\ Quiet)
    BY <1>4, <2>3 DEF NothingForgotten, Pending, Quiet
  <2>. QED
    BY <2>1, <2>2, <2>3
<1>. QED
  BY <1>1, <1>2, <1>3, <1>5, <1>6

LEMMA EMakeNamespace ==
    ASSUME KInv, EInv, MakeNamespace
    PROVE  EInv'
<1>1. /\ chPc = "namespace" /\ chPc' = "own" /\ ns' = "active"
      /\ UNCHANGED <<chal, chC, nsC, chQueued, chObj>>
  BY DEF MakeNamespace, ChGoto
<1>. QED
  BY <1>1, AfterInv DEF After

LEMMA EHasNamespace ==
    ASSUME KInv, EInv, HasNamespace
    PROVE  EInv'
<1>1. /\ chPc = "namespace" /\ nsC # "absent" /\ Refer(chObj)
      /\ UNCHANGED <<chal, chC, nsC, chQueued, ns>>
  BY DEF HasNamespace, OnlyChallenge, clusterVars
<1>2. chObj \in Version /\ chObj.st # "absent"
  BY <1>1 DEF KInv, ChalInv
<1>3. \/ ChIdle /\ chObj.hash = chObj.tpl
      \/ /\ chObj' = chObj
         /\ chPc' \in {"hash", "purge deployment", "annotate"}
  BY <1>1, <1>2, ReferStage
<1>4. chal.st = "live" => ns' # "absent" /\ ns' # "terminating"
  BY <1>1 DEF EInv, Space
<1>. QED
  BY <1>1, <1>3, <1>4, AfterInv DEF After

LEMMA EPurge ==
    ASSUME KInv, EInv, PurgeWorkload \/ NothingToPurge
    PROVE  EInv'
<1>1. /\ Purging /\ PurgeOn
      /\ UNCHANGED <<chal, chC, nsC, chQueued, chObj, ns>>
  BY DEF PurgeWorkload, NothingToPurge, OnlyChallenge, clusterVars, PurgeOn
<1>2. /\ chPc \in {"purge deployment", "purge service"}
      /\ chPc' \in {"purge deployment", "purge service", "hash"}
  BY <1>1 DEF Purging, PurgeOn, ChGoto
<1>3. chal.st = "live" => ns' # "absent" /\ ns' # "terminating"
  BY <1>1, <1>2 DEF EInv, Space, After
<1>. QED
  BY <1>1, <1>2, <1>3, AfterInv DEF After

\* The finalizer for the namespace goes in over a spec that was judged.
LEMMA EOwn ==
    ASSUME KInv, EInv, OwnNamespace
    PROVE  EInv'
<1>. DEFINE new == [chObj EXCEPT !.fins = @ \cup {"namespace"}]
<1>0. /\ ChalInv /\ chal \in Version /\ chObj \in Version
      /\ chObj.fins \in SUBSET {"instances", "namespace", "data"}
      /\ chObj.exposed \in Names
  BY DEF KInv, ChalInv, Version, Challenge
<1>1. /\ new.fins = chObj.fins \cup {"namespace"}
      /\ new.exposed = chObj.exposed
  BY <1>0 DEF Version, Challenge
<1>2. /\ chPc = "own" /\ UpdateChallenge(new) /\ Refer(chal')
      /\ UNCHANGED <<chC, nsC, chQueued, ns>>
  BY DEF OwnNamespace, OnlyChallenge, clusterVars
<1>. HIDE DEF new
<1>3. /\ chal' \in Version /\ chal'.fins = chObj.fins \cup {"namespace"}
      /\ chal'.st # "absent" /\ chal'.st = chal.st
      /\ chal'.tpl = chal.tpl /\ chal'.exposed = chObj.exposed
      /\ chal'.healthy = chal.healthy /\ chal'.hash = chal.hash
      /\ chal'.gen \in {chal.gen, chal.gen + 1}
      /\ chal' = chal \/ chal'.rev = chal.rev + 1
      /\ chal.st # "absent" /\ Fresh
  BY <1>0, <1>1, <1>2, UpdateType DEF Fresh
<1>4. chal'.rev \in Nat
  BY <1>3 DEF Version, Challenge
<1>5. \/ ChIdle /\ chal'.hash = chal'.tpl
      \/ /\ chObj' = chal'
         /\ chPc' \in {"hash", "purge deployment", "annotate"}
  BY <1>2, <1>3, ReferStage
<1>6. /\ "instances" \in chal'.fins
      /\ chal.healthy => /\ Valid /\ chal.exposed # None
                         /\ chal'.exposed = chal.exposed
      /\ chal.st = "live" => ns # "terminating" /\ ns # "absent"
  BY <1>2, <1>3 DEF EInv, Sequel, Space, After
<1>7. chal'.healthy => Valid' /\ chal'.exposed # None
  BY <1>3, <1>6 DEF Valid, ValidTemplate, WithPort
<1>8. CASE ChIdle /\ chal'.hash = chal'.tpl
  <2>1. NothingForgotten'
    BY <1>2, <1>3, <1>6, <1>7, <1>8 DEF NothingForgotten
  <2>2. /\ chal'.st # "absent" => /\ chal.st # "absent"
                                  /\ chal'.gen \in {chal.gen, chal.gen + 1}
        /\ chal'.st = "live" => chal.st = "live"
        /\ chal' = chal \/ chal'.rev = chal.rev + 1
    BY <1>3
  <2>3. ChIdle /\ UNCHANGED <<chC, nsC, ns>>
    BY <1>2, <1>8
  <2>. QED
    BY <2>1, <2>2, <2>3, EndInv
<1>9. CASE /\ chObj' = chal'
           /\ chPc' \in {"hash", "purge deployment", "annotate"}
  <2>1. chObj'.rev = chal'.rev
    BY <1>9
  <2>2. \A n \in Nat : n <= n
    OBVIOUS
  <2>3. chObj'.rev <= chal'.rev
    BY <1>4, <2>1, <2>2
  <2>4. /\ chal'.st # "absent" => /\ chal.st # "absent"
                                  /\ chal'.gen \in {chal.gen, chal.gen + 1}
        /\ chal'.st = "live" => chal.st = "live"
        /\ chal' = chal \/ chal'.rev = chal.rev + 1
    BY <1>3
  <2>5. ChalInv /\ Revs /\ UNCHANGED chC
    BY <1>0, <1>2 DEF EInv
  <2>6. Revs'
    BY <2>3, <2>4, <2>5, Grown
  <2>7. Fresh'
    BY <1>9 DEF Fresh
  <2>8. Sequel'
    BY <1>6, <1>7, <1>9, <2>7 DEF Sequel
  <2>9. Space'
    BY <1>2, <1>3, <1>6, <1>9 DEF Space, Farewell
  <2>10. Verdict' /\ NothingForgotten'
    BY <1>9 DEF Verdict, NothingForgotten, Pending
  <2>. QED
    BY <2>6, <2>8, <2>9, <2>10 DEF EInv
<1>. QED
  BY <1>5, <1>8, <1>9

\* The hash is written last, over a spec that was judged and a namespace that
\* is there.
LEMMA EWriteHash ==
    ASSUME KInv, EInv, WriteHash
    PROVE  EInv' /\ chal'.healthy = chal.healthy
<1>. DEFINE new == [chObj EXCEPT !.hash = chObj.tpl]
<1>0. /\ chal \in Version /\ chObj \in Version /\ now \in Nat
      /\ chPc = "hash"
  BY DEF KInv, ChalInv, WriteHash, IC!TypeOK, IC!ClusterTypeOK
<1>1. chObj.tpl \in Templates \cup {None}
  BY <1>0 DEF Version, Challenge
<1>2. new.hash = chObj.tpl
  BY <1>0 DEF Version, Challenge
<1>3. new.healthy = chObj.healthy /\ new.healthy \in BOOLEAN
  BY <1>0 DEF Version, Challenge
<1>4. new.active \in Nat
  BY <1>0 DEF Version, Challenge
<1>5. UpdateStatus(new) /\ ChIdle /\ UNCHANGED <<chC, nsC, chQueued, ns>>
  BY DEF WriteHash, OnlyChallenge, clusterVars
<1>. HIDE DEF new
<1>6. /\ chal'.st = chal.st /\ chal.st # "absent"
      /\ chal'.tpl = chal.tpl /\ chal'.exposed = chal.exposed
      /\ chal'.fins = chal.fins /\ chal'.healthy = chObj.healthy
      /\ chal'.hash = chObj.tpl /\ chal'.gen = chal.gen /\ Fresh
      /\ chal' = chal \/ chal'.rev = chal.rev + 1
  BY <1>0, <1>1, <1>2, <1>3, <1>4, <1>5, StatusType DEF Fresh
<1>7. /\ "instances" \in chal.fins /\ chObj.tpl = chal.tpl
      /\ chObj.healthy = chal.healthy
      /\ chal.healthy => Valid /\ chal.exposed # None
      /\ chal.st = "live" => ns # "absent"
  BY <1>0, <1>6 DEF EInv, Sequel, Space, After
<1>8. chal'.healthy => Valid' /\ chal'.exposed # None
  BY <1>6, <1>7 DEF Valid, ValidTemplate, WithPort
<1>9. NothingForgotten'
  BY <1>5, <1>6, <1>7, <1>8 DEF NothingForgotten
<1>10. chal'.gen \in {chal.gen, chal.gen + 1}
  BY <1>6
<1>. QED
  BY <1>5, <1>6, <1>7, <1>9, <1>10, EndInv

-----------------------------------------------------------------------------
(* The rest of the steps *)

\* reconcileDelete runs for a Challenge that is not live.
LEMMA EFarewell ==
    ASSUME KInv, EInv,
           \/ Disown \/ ReleaseNamespace \/ EvictInstance \/ RazeNamespace
           \/ NothingToRaze
    PROVE  EInv'
<1>0. /\ chal \in Version /\ chObj \in Version
      /\ chObj.fins \in SUBSET {"instances", "namespace", "data"}
      /\ chObj.exposed \in Names
      /\ chPc # "idle" => chObj.rev <= chal.rev
  BY DEF KInv, ChalInv, EInv, Revs, Version, Challenge
<1>1. chPc \in Farewell => chal.st # "live"
  BY DEF EInv, Space
<1>2. CASE EvictInstance \/ RazeNamespace \/ NothingToRaze
  <2>1. /\ UNCHANGED <<chal, chC>>
        /\ chPc \in Farewell /\ chPc # "idle"
        /\ chPc' \in Farewell \cup {"idle"}
        /\ chPc' # "idle" => chObj' = chObj
    BY <1>2 DEF EvictInstance, RazeNamespace, NothingToRaze, OnlyChallenge, ChGoto,
       ChIdle, Farewell
  <2>2. chal'.st # "live" /\ (chPc' # "idle" => chObj'.rev <= chal'.rev)
    BY <1>0, <1>1, <2>1
  <2>3. chal'.st # "absent" => /\ chal.st # "absent"
                               /\ chal'.gen \in {chal.gen, chal.gen + 1}
    BY <2>1
  <2>. QED
    BY <2>1, <2>2, <2>3, FarewellInv
<1>3. CASE Disown
  <2>. DEFINE new == [chObj EXCEPT !.fins = @ \ {"instances"}]
  <2>1. /\ new.fins = chObj.fins \ {"instances"}
        /\ new.exposed = chObj.exposed
    BY <1>0 DEF Version, Challenge
  <2>2. /\ UpdateChallenge(new) /\ UNCHANGED chC /\ chPc = "disown"
        /\ ChIdle \/ (chObj' = chal' /\ Forget(chal'))
    BY <1>3 DEF Disown, OnlyChallenge
  <2>. HIDE DEF new
  <2>3. /\ chal' \in Version /\ chal.st # "absent"
        /\ chal' = chal \/ chal'.rev = chal.rev + 1
        /\ chal'.st # "absent" => /\ chal'.st = chal.st
                                  /\ chal'.gen \in {chal.gen, chal.gen + 1}
    BY <1>0, <2>1, <2>2, UpdateType
  <2>4. chal'.rev \in Nat
    BY <2>3 DEF Version, Challenge
  <2>5. chal'.st # "live"
    BY <1>1, <2>2, <2>3 DEF Farewell
  <2>6. /\ chPc' \in Farewell \cup {"idle"}
        /\ chPc' # "idle" => chObj' = chal'
    BY <2>2, ForgetStage DEF ChIdle, Farewell
  <2>. QED
    BY <2>2, <2>3, <2>4, <2>5, <2>6, FarewellInv
<1>4. CASE ReleaseNamespace
  <2>. DEFINE new == [chObj EXCEPT !.fins = @ \ {"namespace"}]
  <2>1. /\ new.fins = chObj.fins \ {"namespace"}
        /\ new.exposed = chObj.exposed
    BY <1>0 DEF Version, Challenge
  <2>2. /\ UpdateChallenge(new) /\ UNCHANGED chC /\ chPc = "release"
        /\ chPc' = "idle"
    BY <1>4 DEF ReleaseNamespace, OnlyChallenge, ChIdle
  <2>. HIDE DEF new
  <2>3. /\ chal.st # "absent"
        /\ chal' = chal \/ chal'.rev = chal.rev + 1
        /\ chal'.st # "absent" => /\ chal'.st = chal.st
                                  /\ chal'.gen \in {chal.gen, chal.gen + 1}
    BY <1>0, <2>1, <2>2, UpdateType
  <2>4. chal'.st # "live"
    BY <1>1, <2>2, <2>3 DEF Farewell
  <2>. QED
    BY <2>2, <2>3, <2>4, FarewellInv
<1>. QED
  BY <1>2, <1>3, <1>4

\* The author's writes make what the worker holds stale, and are notable.
LEMMA EAuthor ==
    ASSUME KInv, EInv, DeleteChallenge \/ \E s \in Specs : EditChallenge(s)
    PROVE  EInv'
<1>0. /\ ChalInv /\ chal \in Version
      /\ chal.rev \in Nat /\ chal.gen \in Nat /\ chC.gen \in Nat
      /\ chObj.rev \in Nat
  BY Numbers DEF KInv, ChalInv
<1>1. /\ UNCHANGED <<chC, nsC, chQueued, chPc, chObj, ns>>
      /\ chal.st # "absent"
  BY DEF DeleteChallenge, EditChallenge, chWorker, clusterVars
<1>2. /\ chal'.rev = chal.rev + 1
      /\ chal'.st = "live" => chal.st = "live"
      /\ chal'.st # "absent" => chal'.gen = chal.gen + 1
  BY <1>0, DeleteStored, EditStored
<1>3. chPc # "idle" => chObj.rev <= chal.rev
  BY DEF EInv, Revs
<1>4. Revs'
  BY <1>0, <1>1, <1>2, <1>3, Grown DEF EInv
<1>5. chPc' # "idle" => ~Fresh'
  BY <1>0, <1>1, <1>2, <1>3 DEF Fresh
<1>6. chal'.st = "live" => ChallengeNotable'
  <2>1. chC.gen <= chal.gen
    BY <1>1 DEF EInv, Revs
  <2>. QED
    BY <1>0, <1>1, <1>2, <2>1 DEF ChallengeNotable
<1>7. Verdict'
  <2>1. (chPc' = "expose" => ValidTemplate(chObj.tpl, None)')
        /\ (chPc' = "status" /\ chObj'.healthy =>
              ValidTemplate(chObj.tpl, chObj.exposed)' /\ chObj'.exposed # None)
    BY <1>1 DEF EInv, Verdict, ValidTemplate, WithPort
  <2>2. chPc' \in {"expose", "status"} => "instances" \in chObj'.fins
    BY <1>1 DEF EInv, Verdict
  <2>. QED
    BY <1>5, <2>1, <2>2 DEF Verdict
<1>8. Sequel'
  BY <1>5, <1>6 DEF Sequel, Quiet, After
<1>9. Space'
  BY <1>1, <1>2 DEF EInv, Space
<1>10. NothingForgotten'
  BY <1>6 DEF NothingForgotten, Pending
<1>. QED
  BY <1>4, <1>7, <1>8, <1>9, <1>10 DEF EInv

\* The namespace controller is the only other one to touch the namespace.
LEMMA InstanceStepSpace ==
    ASSUME IC!Step
    PROVE  ns' = ns \/ ns = "terminating"
<1>. USE DEF IC!clusterVars
<1>1. ASSUME NEW i \in Instances,
             IC!UserStep(i) \/ IC!DeliverInstance(i) \/ IC!FireTimer(i) \/ IC!Start(i)
      PROVE  ns' = ns
  BY <1>1 DEF IC!UserStep, IC!UserCreate, IC!UserEdit, IC!UserDelete,
     IC!DeliverInstance, IC!FireTimer, IC!Start, IC!Skip, IC!Orphaned, IC!Begin,
     IC!Untouched
<1>2. ASSUME NEW w \in IC!Loads, IC!DeliverLoad(w) \/ IC!GarbageCollector(w)
      PROVE  ns' = ns
  BY <1>2 DEF IC!DeliverLoad, IC!GarbageCollector, IC!Collect
<1>3. CASE IC!Call
  BY <1>3 DEF IC!Call, IC!AddFinalizer, IC!SetLabels, IC!SetExpiration,
     IC!DeleteExpired, IC!RemoveFinalizer, IC!Conflict, IC!PanicNoTTL, IC!Create,
     IC!Update, IC!CannotApply, IC!Fail, IC!OnlyInst, IC!OnlyLoad
<1>4. CASE IC!ApiError
  BY <1>4 DEF IC!ApiError
<1>5. CASE IC!Clock \/ IC!Vandalism
  BY <1>5 DEF IC!Clock, IC!Tick, IC!Vandalism, IC!Tamper, IC!Uproot
<1>6. CASE IC!NamespaceController
  BY <1>6 DEF IC!NamespaceController, IC!DropNamespace, IC!Empty
<1>. QED
  BY <1>1, <1>2, <1>3, <1>4, <1>5, <1>6 DEF IC!Step

LEMMA EInstanceStep ==
    ASSUME KInv, EInv, InstanceStep
    PROVE  EInv'
<1>1. /\ UNCHANGED <<chal, chC, nsC, chPc, chObj>> /\ IC!Step
      /\ chQueued' \in {chQueued, TRUE}
  <2>1. chQueued \in BOOLEAN
    BY DEF KInv, ChalInv
  <2>2. chQueued' = (chQueued \/ \E i \in {j \in Instances : instC'[j] # instC[j]} :
                                    MatchesChallengeRef(i))
    BY DEF InstanceStep
  <2>3. chQueued' \in {chQueued, TRUE}
    BY <2>1, <2>2
  <2>. QED
    BY <2>3 DEF InstanceStep, chWorker
<1>2. ns' = ns \/ ns = "terminating"
  BY <1>1, InstanceStepSpace
<1>. QED
  BY <1>1, <1>2, KeepInv

LEMMA ERestart ==
    ASSUME KInv, EInv, ManagerRestart
    PROVE  EInv'
<1>1. /\ chC' = chal /\ chal' = chal /\ nsC' = ns /\ ns' = ns
      /\ chQueued' = (chal.st # "absent") /\ chPc' = "idle"
  BY DEF ManagerRestart, ChResume, ChIdle, IC!Restart
<1>2. Revs'
  BY <1>1, Numbers DEF KInv, Revs
<1>3. Verdict' /\ Sequel' /\ Space' /\ NothingForgotten'
  BY <1>1 DEF EInv, Verdict, Sequel, Space, NothingForgotten, Pending, After, Farewell
<1>. QED
  BY <1>2, <1>3 DEF EInv

LEMMA EInit == Init => EInv
<1>. SUFFICES ASSUME Init
              PROVE  EInv
  OBVIOUS
<1>1. PICK s \in Drafts :
          chal = [NoChallenge EXCEPT !.st = "live", !.rev = 1, !.gen = 1,
                    !.tpl = s.tpl, !.exposed = s.exposed, !.refs = s.refs]
  BY DEF Init, ChInit
<1>2. /\ chal.st = "live" /\ chal.rev = 1 /\ chal.gen = 1
      /\ chC.st = "absent" /\ chC.rev = 0 /\ chC.gen = 0
  BY <1>1 DEF Init, ChInit, NoChallenge
<1>3. chPc = "idle" /\ nsC = "absent" /\ ns = "absent"
  BY DEF Init, ChInit, IC!Init, IC!ClusterInit
<1>4. Revs
  BY <1>2, <1>3 DEF Revs
<1>5. Verdict /\ Sequel /\ Space /\ NothingForgotten
  BY <1>2, <1>3 DEF Verdict, Sequel, Space, NothingForgotten, Pending,
     ChallengeNotable, After, Farewell
<1>. QED
  BY <1>4, <1>5 DEF EInv

LEMMA EChallengeStep ==
    ASSUME UnmixedNames, KInv, EInv, ChallengeStep
    PROVE  EInv'
<1>0. ChStep
  BY DEF ChallengeStep
<1>1. CASE ChStart
  BY <1>1, EStart DEF ChStart, ChSkip, ChBegin, ChBeginDelete, clusterVars
<1>2. CASE ChUpdate
  BY <1>2, EFinalize, EExpose, EOwn, EFarewell DEF ChUpdate
<1>3. CASE ChOther
  <2>1. CASE StaleExposed
    BY <2>1, ENotExposed DEF StaleExposed, OnlyChallenge, clusterVars
  <2>2. CASE ChRetry
    BY <2>2, RetryInv DEF ChRetry, clusterVars
  <2>. QED
    BY <1>3, <2>1, <2>2, EWriteHealth, EMakeNamespace, EHasNamespace, EPurge,
       EWriteHash, EFarewell DEF ChOther
<1>4. CASE ChApiError
  BY <1>4, RetryInv, ENotExposed DEF ChApiError, clusterVars
<1>5. CASE DeleteChallenge \/ \E s \in Specs : EditChallenge(s)
  BY <1>5, EAuthor
<1>6. CASE DeliverChallenge \/ DeliverNamespace \/ CollectNamespace
  <2>1. /\ UNCHANGED <<chal, chObj, chPc>>
        /\ \/ chC' = chC /\ chQueued' \in {chQueued, TRUE}
           \/ chC' = chal /\ chQueued' = (chQueued \/ ChallengeNotable)
        /\ ns' = ns \/ chal.st = "absent"
        /\ nsC' \in {nsC, ns}
    BY <1>6 DEF DeliverChallenge, DeliverNamespace, CollectNamespace, chalVars,
       chWorker, clusterVars
  <2>. QED
    BY <2>1, KeepInv
<1>. QED
  BY <1>0, <1>1, <1>2, <1>3, <1>4, <1>5, <1>6 DEF ChStep, ChCall

LEMMA EInvStep ==
    ASSUME UnmixedNames, KInv, EInv, [Next]_vars
    PROVE  EInv'
<1>1. CASE UNCHANGED vars
  <2>1. UNCHANGED <<chal, chObj, chPc, chC, chQueued, ns, nsC>>
    BY <1>1 DEF vars, clusterVars, chalVars, chWorker
  <2>2. chQueued' \in {chQueued, TRUE} /\ nsC' \in {nsC, ns}
    BY <2>1
  <2>. QED
    BY <2>1, <2>2, KeepInv
<1>. QED
  BY <1>1, EInstanceStep, EChallengeStep, ERestart DEF Next

LEMMA EInvariant ==
    ASSUME UnmixedNames
    PROVE  Spec => []EInv
<1>1. Init => EInv
  BY EInit
<1>2. KInv /\ EInv /\ [Next]_vars => EInv'
  BY EInvStep
<1>. QED
  BY <1>1, <1>2, KInvariant, PTL DEF Spec

\* Steps that do not judge do not make the status healthier.
LEMMA HealthyKept ==
    ASSUME KInv, EInv, [Next]_vars, ~WriteHealth
    PROVE  chal'.healthy => chal.healthy
<1>0. /\ chal \in Version /\ chObj \in Version
      /\ chObj.fins \in SUBSET {"instances", "namespace", "data"}
      /\ chObj.exposed \in Names
  BY DEF KInv, ChalInv, Version, Challenge
<1>1. CASE UNCHANGED chal
  BY <1>1
<1>2. CASE ChUpdate
  <2>1. CASE AddInstanceFinalizer
    <3>. DEFINE new == [chObj EXCEPT !.fins = @ \cup {"instances"}]
    <3>1. /\ new.fins = chObj.fins \cup {"instances"}
          /\ new.exposed = chObj.exposed /\ UpdateChallenge(new)
      BY <1>0, <2>1 DEF AddInstanceFinalizer, Version, Challenge
    <3>. HIDE DEF new
    <3>. QED
      BY <1>0, <3>1, UpdateType
  <2>2. CASE SetExposed
    <3>. DEFINE name == ExposedName(chObj.tpl, None)
                new == [chObj EXCEPT !.exposed = name]
    <3>1. chObj.st # "absent" /\ WithPort(chObj.tpl) # {}
      BY <2>2 DEF SetExposed, KInv, ChalInv
    <3>2. name \in Names
      BY <1>0, <3>1, ExposedNameType
    <3>3. UpdateChallenge(new)
      BY <2>2 DEF SetExposed
    <3>. HIDE DEF name
    <3>4. new.exposed = name /\ new.fins = chObj.fins
      BY <1>0, <3>2, ExposedType
    <3>. HIDE DEF new
    <3>. QED
      BY <1>0, <3>2, <3>3, <3>4, UpdateType
  <2>3. CASE OwnNamespace
    <3>. DEFINE new == [chObj EXCEPT !.fins = @ \cup {"namespace"}]
    <3>1. /\ new.fins = chObj.fins \cup {"namespace"}
          /\ new.exposed = chObj.exposed /\ UpdateChallenge(new)
      BY <1>0, <2>3 DEF OwnNamespace, Version, Challenge
    <3>. HIDE DEF new
    <3>. QED
      BY <1>0, <3>1, UpdateType
  <2>4. CASE Disown
    <3>. DEFINE new == [chObj EXCEPT !.fins = @ \ {"instances"}]
    <3>1. /\ new.fins = chObj.fins \ {"instances"}
          /\ new.exposed = chObj.exposed /\ UpdateChallenge(new)
      BY <1>0, <2>4 DEF Disown, Version, Challenge
    <3>. HIDE DEF new
    <3>. QED
      BY <1>0, <3>1, UpdateType
  <2>5. CASE ReleaseNamespace
    <3>. DEFINE new == [chObj EXCEPT !.fins = @ \ {"namespace"}]
    <3>1. /\ new.fins = chObj.fins \ {"namespace"}
          /\ new.exposed = chObj.exposed /\ UpdateChallenge(new)
      BY <1>0, <2>5 DEF ReleaseNamespace, Version, Challenge
    <3>. HIDE DEF new
    <3>. QED
      BY <1>0, <3>1, UpdateType
  <2>. QED
    BY <1>2, <2>1, <2>2, <2>3, <2>4, <2>5 DEF ChUpdate
<1>3. CASE WriteHash
  BY <1>3, EWriteHash
<1>4. CASE DeleteChallenge \/ \E s \in Specs : EditChallenge(s)
  BY <1>0, <1>4, DeleteStored, EditStored
<1>5. \/ UNCHANGED chal \/ ChUpdate \/ WriteHash \/ DeleteChallenge
      \/ \E s \in Specs : EditChallenge(s)
  BY DEF Next, InstanceStep, ChallengeStep, ManagerRestart, ChResume, ChStep,
     ChStart, ChSkip, ChBegin, ChBeginDelete, ChCall, ChOther, StaleExposed,
     MakeNamespace, HasNamespace, PurgeWorkload, NothingToPurge, EvictInstance,
     RazeNamespace, NothingToRaze, ChRetry, ChApiError, DeliverChallenge,
     DeliverNamespace, CollectNamespace, chalVars, vars
<1>. QED
  BY <1>1, <1>2, <1>3, <1>4, <1>5

\* Whatever the author and the caches do between the verdict and the write of
\* it, Healthy never turns true for a spec that is not valid or names no
\* container to expose.
THEOREM HealthyIsEarnedHolds ==
    ASSUME UnmixedNames
    PROVE  Spec => HealthyIsEarned
<1>1. ASSUME KInv, EInv, [Next]_vars
      PROVE  [~chal.healthy /\ chal'.healthy =>
                 /\ ValidTemplate(chal'.tpl, chal'.exposed)
                 /\ chal'.exposed # None]_vars
  <2>1. CASE WriteHealth
    <3>1. chal'.healthy => /\ ValidTemplate(chal.tpl, chal.exposed)'
                           /\ chal'.exposed # None
      BY <1>1, <2>1, EWriteHealth
    <3>. QED
      BY <3>1 DEF ValidTemplate, WithPort
  <2>2. CASE ~WriteHealth
    BY <1>1, <2>2, HealthyKept
  <2>. QED
    BY <2>1, <2>2
<1>2. KInv /\ EInv /\ [Next]_vars =>
         [~chal.healthy /\ chal'.healthy =>
             /\ ValidTemplate(chal'.tpl, chal'.exposed)
             /\ chal'.exposed # None]_vars
  BY <1>1
<1>. QED
  BY <1>2, EInvariant, KInvariant, PTL DEF Spec, HealthyIsEarned

\* However edits, deliveries, conflicts, errors and restarts fall, a visit is
\* due as long as the status claims too much or something is missing.
THEOREM NothingForgottenHolds ==
    ASSUME UnmixedNames
    PROVE  Spec => []NothingForgotten
<1>1. EInv => NothingForgotten
  BY DEF EInv
<1>. QED
  BY <1>1, EInvariant, PTL
-----------------------------------------------------------------------------
(* What is healthy can be exposed, if its author allows *)

\* Every set of numbers has a least one.
LEMMA Least ==
    ASSUME NEW S \in SUBSET Nat, S # {}
    PROVE  \E k \in S : \A m \in S : k <= m
<1>. DEFINE Below(n) == 1 .. n
            B == {Below(k) : k \in S}
            F == FiniteSubsetsOf(Nat)
            R == StrictSubsetOrdering(Nat)
<1>1. \A n \in Nat : Below(n) \in F
  BY FS_Interval DEF FiniteSubsetsOf
<1>2. PICK T \in B : \A U \in B : <<U, T>> \notin R
  <2>1. B \subseteq F /\ B # {} /\ IsWellFoundedOn(R, F)
    BY <1>1, FS_StrictSubsetOrderingWellFounded
  <2>. HIDE DEF B, F, R
  <2>. QED
    BY <2>1, WFMin
<1>3. PICK k \in S : T = Below(k)
  BY <1>2
<1>4. ASSUME NEW m \in S, m < k
      PROVE  FALSE
  <2>1. Below(m) \subseteq Below(k) /\ k \in Below(k) /\ k \notin Below(m)
    BY <1>4
  <2>2. Below(m) \in B /\ Below(m) \in SUBSET Nat /\ Below(k) \in SUBSET Nat
    BY <1>4
  <2>3. <<Below(m), Below(k)>> \in R
    BY <2>1, <2>2 DEF StrictSubsetOrdering
  <2>. QED
    BY <1>2, <1>3, <2>2, <2>3
<1>. QED
  BY <1>3, <1>4

NamesContainer(tpl, name) == name # None => \E k \in DOMAIN tpl : tpl[k].name = name

\* An author wrote the name with the template.
AsWritten(tpl, name) == \E s \in Specs : s.tpl = tpl /\ s.exposed = name

\* The controller does not look whether an author's name is that of a container
\* (ValidTemplate), but it makes up no such name itself.
Rightful(tpl, name) == NamesContainer(tpl, name) \/ AsWritten(tpl, name)

\* Of a valid template, a container that is named has a first port.
LEMMA NamedIsExposable ==
    ASSUME NEW t \in Templates, NEW name, name # None, NamesContainer(t, name),
           ValidTemplate(t, name)
    PROVE  Exposable(t, name)
<1>. DEFINE named == {k \in DOMAIN t : t[k].name = name}
<1>1. named # {} /\ named \in SUBSET Nat
  <2>1. DOMAIN t = 1 .. Len(t)
    BY ChallengeAssumption DEF Templates
  <2>. QED
    BY <2>1 DEF NamesContainer
<1>. DEFINE first == CHOOSE k \in named : \A m \in named : k <= m
<1>2. first \in named
  <2>. HIDE DEF named
  <2>. QED
    BY <1>1, Least
<1>3. ContainerPorts(t, name) = t[first].ports
  BY <1>1 DEF ContainerPorts
<1>4. t[first].ports # << >>
  BY <1>2 DEF ValidTemplate
<1>. QED
  BY <1>3, <1>4 DEF Exposable

\* What is stored, cached and in hand has a rightful name, or none;
\* and what is in hand can only be written over the template it was read with.
NameInv ==
    /\ chal.st # "absent" => Rightful(chal.tpl, chal.exposed)
    /\ chC.st # "absent" => Rightful(chC.tpl, chC.exposed)
    /\ chPc # "idle" => Rightful(chObj.tpl, chObj.exposed)
    /\ chPc # "idle" /\ Fresh => chObj.tpl = chal.tpl

LEMMA NInit == Init => NameInv
<1>. SUFFICES ASSUME Init
              PROVE  NameInv
  OBVIOUS
<1>1. PICK s \in Drafts :
          chal = [NoChallenge EXCEPT !.st = "live", !.rev = 1, !.gen = 1,
                    !.tpl = s.tpl, !.exposed = s.exposed, !.refs = s.refs]
  BY DEF Init, ChInit
<1>2. chal.tpl = s.tpl /\ chal.exposed = s.exposed
  BY <1>1 DEF NoChallenge
<1>3. chC.st = "absent" /\ chPc = "idle"
  BY DEF Init, ChInit, NoChallenge
<1>4. Rightful(s.tpl, s.exposed)
  BY ChallengeAssumption DEF Rightful, AsWritten
<1>. QED
  BY <1>2, <1>3, <1>4 DEF NameInv

\* Steps that write nothing, and leave the worker where it is or end its visit.
LEMMA NKeep ==
    ASSUME NameInv, chal' = chal, chC' \in {chC, chal},
           chPc' = "idle" \/ (chObj' = chObj /\ chPc # "idle")
    PROVE  NameInv'
BY DEF NameInv, Fresh, Rightful

\* A visit begins with what the cache has.
LEMMA NStart ==
    ASSUME KInv, EInv, NameInv, ChBegin \/ ChBeginDelete
    PROVE  NameInv'
<1>0. /\ chC \in Version /\ UNCHANGED <<chal, chC>> /\ chC.st # "absent"
      /\ chC.rev = chal.rev => chC = chal
  BY DEF KInv, ChalInv, EInv, Revs, ChBegin, ChBeginDelete
<1>1. /\ chObj'.tpl = chC.tpl /\ chObj'.exposed = chC.exposed
      /\ chObj'.rev = chC.rev
  <2>1. CASE ChBegin /\ "instances" \in chC.fins
    <3>1. chC.fins # {} /\ Validate(chC)
      BY <2>1 DEF ChBegin
    <3>. QED
      BY <1>0, <3>1, ValidateStage
  <2>2. CASE ~(ChBegin /\ "instances" \in chC.fins)
    <3>1. chObj' = chC
      BY <2>2 DEF ChBegin, ChBeginDelete
    <3>. QED
      BY <3>1
  <2>. QED
    BY <2>1, <2>2
<1>. QED
  BY <1>0, <1>1 DEF NameInv, Fresh, Rightful

\* A write of metadata and spec sends the name in hand, over the template that
\* was read with it.
LEMMA NWrite ==
    ASSUME KInv, NameInv, NEW new, UpdateChallenge(new), UNCHANGED chC,
           new.fins \in SUBSET {"instances", "namespace", "data"},
           new.exposed \in Names,
           chPc # "idle", Rightful(chObj.tpl, new.exposed),
           chal'.st # "absent" => \/ chPc' = "idle"
                                  \/ /\ chObj'.tpl = chal'.tpl
                                     /\ chObj'.exposed = chal'.exposed,
           chal'.st = "absent" => chPc' = "idle"
    PROVE  NameInv'
<1>1. chal \in Version
  BY DEF KInv, ChalInv
<1>2. /\ chObj.tpl = chal.tpl
      /\ chal'.st # "absent" => chal'.tpl = chal.tpl /\ chal'.exposed = new.exposed
  BY <1>1, UpdateType DEF NameInv, Fresh
<1>. QED
  BY <1>2 DEF NameInv, Fresh, Rightful

\* The updates of the Challenge but for the one that fills in a name.
LEMMA NUpdate ==
    ASSUME KInv, NameInv,
           AddInstanceFinalizer \/ OwnNamespace \/ Disown \/ ReleaseNamespace
    PROVE  NameInv'
<1>0. /\ chal \in Version /\ chObj \in Version
      /\ chObj.fins \in SUBSET {"instances", "namespace", "data"}
      /\ chObj.exposed \in Names
  BY DEF KInv, ChalInv, Version, Challenge
<1>1. PICK g \in SUBSET {"instances", "namespace", "data"} :
          UpdateChallenge([chObj EXCEPT !.fins = g])
  BY <1>0 DEF AddInstanceFinalizer, OwnNamespace, Disown, ReleaseNamespace
<1>. DEFINE new == [chObj EXCEPT !.fins = g]
<1>3. new.fins = g /\ new.exposed = chObj.exposed
  BY <1>0 DEF Version, Challenge
<1>4. UpdateChallenge(new) /\ UNCHANGED chC /\ chPc # "idle"
  BY <1>1 DEF AddInstanceFinalizer, OwnNamespace, Disown, ReleaseNamespace,
     OnlyChallenge
<1>. HIDE DEF new
<1>5. Rightful(chObj.tpl, new.exposed)
  BY <1>3, <1>4 DEF NameInv
<1>6. chal' \in Version /\ (chal'.fins # {} => chal'.st # "absent")
  BY <1>0, <1>3, <1>4, UpdateType
<1>7. CASE AddInstanceFinalizer
  <2>. DEFINE wider == [chObj EXCEPT !.fins = @ \cup {"instances"}]
  <2>1. UpdateChallenge(wider) /\ Validate(chal')
    BY <1>7 DEF AddInstanceFinalizer
  <2>2. wider.fins = chObj.fins \cup {"instances"} /\ wider.exposed = chObj.exposed
    BY <1>0 DEF Version, Challenge
  <2>. HIDE DEF wider
  <2>3. chal'.fins = wider.fins
    BY <1>0, <2>1, <2>2, UpdateType
  <2>4. chal'.fins # {} /\ chal'.st # "absent"
    BY <1>6, <2>2, <2>3
  <2>5. chObj'.tpl = chal'.tpl /\ chObj'.exposed = chal'.exposed
    BY <1>6, <2>1, <2>4, ValidateStage
  <2>. QED
    BY <1>0, <1>3, <1>4, <1>5, <2>4, <2>5, NWrite
<1>8. CASE OwnNamespace
  <2>. DEFINE wider == [chObj EXCEPT !.fins = @ \cup {"namespace"}]
  <2>1. UpdateChallenge(wider) /\ Refer(chal')
    BY <1>8 DEF OwnNamespace
  <2>2. wider.fins = chObj.fins \cup {"namespace"} /\ wider.exposed = chObj.exposed
    BY <1>0 DEF Version, Challenge
  <2>. HIDE DEF wider
  <2>3. chal'.fins = wider.fins
    BY <1>0, <2>1, <2>2, UpdateType
  <2>4. chal'.st # "absent"
    BY <1>6, <2>2, <2>3
  <2>5. chPc' = "idle" \/ chObj' = chal'
    BY <1>6, <2>1, <2>4, ReferStage DEF ChIdle
  <2>. QED
    BY <1>0, <1>3, <1>4, <1>5, <2>4, <2>5, NWrite
<1>9. CASE Disown
  <2>1. chPc' = "idle" \/ (chal'.fins # {} /\ chObj' = chal')
    BY <1>9 DEF Disown, ChIdle
  <2>. QED
    BY <1>0, <1>3, <1>4, <1>5, <1>6, <2>1, NWrite
<1>10. CASE ReleaseNamespace
  <2>1. chPc' = "idle"
    BY <1>10 DEF ReleaseNamespace, ChIdle
  <2>. QED
    BY <1>0, <1>3, <1>4, <1>5, <2>1, NWrite
<1>. QED
  BY <1>7, <1>8, <1>9, <1>10

\* The name that is filled in is one of a container.
LEMMA ExposedIsNamed ==
    ASSUME NEW t, WithPort(t) # {}
    PROVE  Rightful(t, ExposedName(t, None))
<1>1. PICK k \in WithPort(t) : k = CHOOSE m \in WithPort(t) : TRUE
  OBVIOUS
<1>. QED
  BY <1>1 DEF WithPort, ExposedName, NamesContainer, Rightful

LEMMA NExpose ==
    ASSUME KInv, NameInv, SetExposed
    PROVE  NameInv'
<1>. DEFINE name == ExposedName(chObj.tpl, None)
            new == [chObj EXCEPT !.exposed = name]
<1>0. /\ ChalInv /\ chal \in Version /\ chObj \in Version
      /\ chObj.fins \in SUBSET {"instances", "namespace", "data"}
      /\ chPc = "expose"
  BY DEF KInv, ChalInv, Version, Challenge, SetExposed
<1>1. chObj.st # "absent" /\ WithPort(chObj.tpl) # {} /\ chObj.fins # {}
  BY <1>0 DEF ChalInv
<1>2. name \in Names /\ Rightful(chObj.tpl, name)
  BY <1>0, <1>1, ExposedNameType, ExposedIsNamed
<1>3. /\ UpdateChallenge(new) /\ chObj' = [chal' EXCEPT !.healthy = TRUE]
      /\ UNCHANGED chC
  BY DEF SetExposed, OnlyChallenge
<1>. HIDE DEF name
<1>4. new.exposed = name /\ new.fins = chObj.fins
  BY <1>0, <1>2, ExposedType
<1>. HIDE DEF new
<1>5. chal' \in Version /\ chal'.fins = chObj.fins /\ (chal'.fins # {} => chal'.st # "absent")
  BY <1>0, <1>2, <1>3, <1>4, UpdateType
<1>6. chal'.st # "absent"
  BY <1>1, <1>5
<1>7. chObj'.tpl = chal'.tpl /\ chObj'.exposed = chal'.exposed
  BY <1>3, <1>5, HealthyType
<1>. QED
  BY <1>0, <1>2, <1>3, <1>4, <1>6, <1>7, NWrite

LEMMA NNotExposed ==
    ASSUME KInv, NameInv, NotExposed, UNCHANGED <<chal, chC>>
    PROVE  NameInv'
<1>1. /\ chObj'.rev = chObj.rev /\ chObj'.tpl = chObj.tpl /\ chPc = "expose"
  BY NotExposedStage DEF KInv
<1>2. chObj \in Version /\ chObj.st # "absent" /\ WithPort(chObj.tpl) # {}
  BY <1>1 DEF KInv, ChalInv
<1>. DEFINE name == ExposedName(chObj.tpl, None)
            c == [chObj EXCEPT !.healthy = FALSE]
<1>3. name \in Names /\ Rightful(chObj.tpl, name)
  BY <1>2, ExposedNameType, ExposedIsNamed
<1>4. chObj' = [c EXCEPT !.exposed = name]
  BY DEF NotExposed
<1>. HIDE DEF name
<1>5. c \in Version
  BY <1>2, HealthyType
<1>. HIDE DEF c
<1>6. chObj'.exposed = name
  BY <1>3, <1>4, <1>5, ExposedType
<1>. QED
  BY <1>1, <1>3, <1>6 DEF NameInv, Fresh, Rightful

\* Writes of the status leave the spec alone.
LEMMA NStatus ==
    ASSUME KInv, NameInv, WriteHealth \/ WriteHash
    PROVE  NameInv'
<1>0. /\ ChalInv /\ chal \in Version /\ chObj \in Version /\ now \in Nat
      /\ chObj.exposed \in Names /\ chPc # "idle" /\ UNCHANGED chC
  BY DEF KInv, ChalInv, WriteHealth, WriteHash, OnlyChallenge, IC!TypeOK,
     IC!ClusterTypeOK, Version, Challenge
<1>1. CASE WriteHealth
  <2>. DEFINE new == [chObj EXCEPT !.active = Cardinality(Labelled)]
  <2>1. /\ new.healthy = chObj.healthy /\ new.healthy \in BOOLEAN
    BY <1>0 DEF Version, Challenge
  <2>2. new.hash = chObj.hash /\ new.hash \in Templates \cup {None}
    BY <1>0 DEF Version, Challenge
  <2>3. new.active \in Nat
    BY <1>0, LabelledCount DEF Version, Challenge
  <2>4. /\ UpdateStatus(new) /\ chObj' = [chal' EXCEPT !.exposed = chObj.exposed]
    BY <1>1 DEF WriteHealth
  <2>. HIDE DEF new
  <2>5. /\ chal' \in Version /\ chal'.st # "absent" /\ chal.st # "absent"
        /\ chal'.tpl = chal.tpl /\ chal'.exposed = chal.exposed
        /\ chObj.rev = chal.rev
    BY <1>0, <2>1, <2>2, <2>3, <2>4, StatusType
  <2>6. chObj'.tpl = chal'.tpl /\ chObj'.exposed = chObj.exposed
    BY <1>0, <2>4, <2>5, ExposedType
  <2>. QED
    BY <1>0, <2>5, <2>6 DEF NameInv, Fresh, Rightful
<1>2. CASE WriteHash
  <2>. DEFINE new == [chObj EXCEPT !.hash = chObj.tpl]
  <2>1. chObj.tpl \in Templates \cup {None}
    BY <1>0 DEF Version, Challenge
  <2>2. new.hash = chObj.tpl
    BY <1>0 DEF Version, Challenge
  <2>3. new.healthy = chObj.healthy /\ new.healthy \in BOOLEAN
    BY <1>0 DEF Version, Challenge
  <2>4. new.active \in Nat
    BY <1>0 DEF Version, Challenge
  <2>5. UpdateStatus(new) /\ chPc' = "idle"
    BY <1>2 DEF WriteHash, ChIdle
  <2>. HIDE DEF new
  <2>6. chal.st # "absent" /\ chal'.tpl = chal.tpl /\ chal'.exposed = chal.exposed
    BY <1>0, <2>1, <2>2, <2>3, <2>4, <2>5, StatusType
  <2>. QED
    BY <1>0, <2>5, <2>6 DEF NameInv, Rightful
<1>. QED
  BY <1>1, <1>2

\* What an author writes is rightful.
LEMMA NAuthor ==
    ASSUME KInv, EInv, NameInv,
           DeleteChallenge \/ \E s \in Specs : EditChallenge(s)
    PROVE  NameInv'
<1>0. /\ chal \in Version /\ chal.rev \in Nat /\ chObj.rev \in Nat
      /\ UNCHANGED <<chC, chPc, chObj>>
  BY Numbers DEF KInv, ChalInv, DeleteChallenge, EditChallenge, chWorker
<1>1. chPc # "idle" => chObj.rev <= chal.rev
  BY DEF EInv, Revs
<1>2. chal'.rev = chal.rev + 1
  BY <1>0, DeleteStored, EditStored
<1>3. chPc' # "idle" => ~Fresh'
  BY <1>0, <1>1, <1>2 DEF Fresh
<1>4. chal'.st # "absent" => Rightful(chal'.tpl, chal'.exposed)
  <2>1. CASE DeleteChallenge
    <3>1. chal.st # "absent"
      BY <2>1 DEF DeleteChallenge
    <3>2. \/ chal'.st = "absent"
          \/ chal'.tpl = chal.tpl /\ chal'.exposed = chal.exposed
      BY <1>0, <2>1 DEF DeleteChallenge, StoredChallenge, NoChallenge, Version, Challenge
    <3>. QED
      BY <3>1, <3>2 DEF NameInv, Rightful
  <2>2. ASSUME NEW s \in Specs, EditChallenge(s)
        PROVE  Rightful(chal'.tpl, chal'.exposed)
    <3>1. chal'.tpl = s.tpl /\ chal'.exposed = s.exposed
      BY <1>0, <2>2 DEF EditChallenge, Version, Challenge
    <3>. QED
      BY <3>1 DEF Rightful, AsWritten
  <2>. QED
    BY <2>1, <2>2
<1>. QED
  BY <1>0, <1>3, <1>4 DEF NameInv, Rightful

LEMMA NStep ==
    ASSUME KInv, EInv, NameInv, [Next]_vars
    PROVE  NameInv'
<1>1. CASE UNCHANGED vars \/ InstanceStep \/ ManagerRestart
  BY <1>1, NKeep DEF vars, chalVars, chWorker, InstanceStep, ManagerRestart, ChResume,
     ChIdle
<1>2. CASE ChallengeStep
  <2>1. CASE \/ DeliverChallenge \/ DeliverNamespace \/ CollectNamespace \/ ChSkip
             \/ MakeNamespace \/ PurgeWorkload \/ NothingToPurge
             \/ EvictInstance \/ RazeNamespace \/ NothingToRaze \/ ChRetry
    BY <2>1, NKeep DEF DeliverChallenge, DeliverNamespace, CollectNamespace, ChSkip,
       MakeNamespace, PurgeWorkload, NothingToPurge, Purging, PurgeOn, EvictInstance,
       RazeNamespace, NothingToRaze, ChRetry, ChFail, ChIdle, ChGoto, OnlyChallenge,
       chalVars, chWorker
  <2>2. CASE HasNamespace
    <3>1. chObj \in Version /\ chObj.st # "absent" /\ chPc = "namespace"
      BY <2>2 DEF HasNamespace, KInv, ChalInv
    <3>2. chPc' = "idle" \/ chObj' = chObj
      BY <2>2, <3>1, ReferStage DEF HasNamespace, ChIdle
    <3>. QED
      BY <2>2, <3>1, <3>2, NKeep DEF HasNamespace, OnlyChallenge
  <2>3. CASE StaleExposed \/ ChApiError
    <3>1. CASE NotExposed
      BY <2>3, <3>1, NNotExposed DEF StaleExposed, ChApiError, OnlyChallenge
    <3>2. CASE ChFail
      BY <2>3, <3>2, NKeep DEF StaleExposed, ChApiError, ChFail, ChIdle, OnlyChallenge
    <3>. QED
      BY <2>3, <3>1, <3>2 DEF StaleExposed, ChApiError
  <2>4. CASE WriteHealth \/ WriteHash
    BY <2>4, NStatus
  <2>5. CASE ChUpdate
    BY <2>5, NUpdate, NExpose DEF ChUpdate
  <2>6. CASE ChBegin \/ ChBeginDelete
    BY <2>6, NStart
  <2>7. CASE DeleteChallenge \/ \E s \in Specs : EditChallenge(s)
    BY <2>7, NAuthor
  <2>. QED
    BY <1>2, <2>1, <2>2, <2>3, <2>4, <2>5, <2>6, <2>7
       DEF ChallengeStep, ChStep, ChStart, ChCall, ChOther
<1>. QED
  BY <1>1, <1>2 DEF Next

\* Whatever edits, lags, conflicts, errors and restarts there are: when no visit
\* is due, the instance controller finds the port of what is called healthy, but
\* for a name of no container that the author wrote with this template.
THEOREM ServableAsNamedHolds ==
    ASSUME UnmixedNames
    PROVE  Spec => []ServableAsNamed
<1>1. KInv /\ EInv /\ NameInv => ServableAsNamed
  <2>. SUFFICES ASSUME KInv, EInv, NameInv, chal.st = "live", chal.healthy, ~Pending,
                       ~Misnamed
                PROVE  Exposable(chal.tpl, chal.exposed)
    BY DEF ServableAsNamed
  <2>1. Valid /\ chal.exposed # None
    BY DEF EInv, NothingForgotten
  <2>2. chal.tpl \in Templates
    BY DEF KInv, ChalInv, Version
  <2>3. NamesContainer(chal.tpl, chal.exposed)
    <3>1. CASE AsWritten(chal.tpl, chal.exposed)
      BY <2>1, <3>1 DEF AsWritten, Misnamed, NamesContainer
    <3>2. CASE ~AsWritten(chal.tpl, chal.exposed)
      BY <3>2 DEF NameInv, Rightful
    <3>. QED
      BY <3>1, <3>2
  <2>. QED
    BY <2>1, <2>2, <2>3, NamedIsExposable DEF Valid
<1>2. Init => NameInv
  BY NInit
<1>3. KInv /\ EInv /\ NameInv /\ [Next]_vars => NameInv'
  BY NStep
<1>. QED
  BY <1>1, <1>2, <1>3, EInvariant, KInvariant, PTL DEF Spec
=============================================================================

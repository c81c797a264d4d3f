------------------------ MODULE ChallengeController -------------------------
(***************************************************************************)
(* The Challenge controller (pkg/controllers/challenge) of one Challenge:  *)
(* it judges the template, keeps the status and the namespace, deletes the *)
(* workloads of an outdated template and, when the Challenge is deleted,   *)
(* instances and namespace.  One action per call to the API server; the    *)
(* calls on the Secrets and ConfigMaps that a Challenge refers to are in   *)
(* References.                                                             *)
(***************************************************************************)
EXTENDS Cluster, FiniteSets, SequencesExt

CONSTANTS
    ChallengeName,
    Specs,          \* [tpl, exposed, refs] records an author may write
    Drafts,         \* those the Challenge may be created with
    MaxEdits,       \* bound on what the author does
    MaxErrors       \* bound on API errors this controller meets

ASSUME ChallengeAssumption ==
    /\ Drafts \subseteq Specs
    /\ \A s \in Specs : /\ DOMAIN s.tpl = 1 .. Len(s.tpl)
                         /\ s.refs \subseteq {"secret", "configmap"}
    /\ IsFiniteSet(Instances)
    /\ MaxEdits \in Nat
    /\ MaxErrors \in Nat

VARIABLES
    chal, chC,      \* the Challenge: stored, and cached
    nsC,            \* the cached namespace
    chQueued,       \* whether the Challenge is in the work queue
    chPc,           \* the call its Reconcile makes next
    chObj,          \* the worker's copy of the Challenge
    todo,           \* what a loop of Reconcile has yet to visit
    edits, errors   \* acts of the author, and API errors, so far

chWorker == <<chPc, chObj, todo>>
chalVars == <<chal, chC, nsC, chQueued, chWorker, edits, errors>>

ChSteps == {"idle", "finalize", "expose", "status", "namespace", "own",
            "purge deployment", "purge service", "hash",
            "evict", "disown", "raze", "release",
            "annotate", "refer", "unannotate", "unrefer"}

\* What a Challenge can refer to: one Secret and one ConfigMap.
RefKinds == {"secret", "configmap"}

Templates == {s.tpl : s \in Specs}

Names ==
    {None} \cup {s.exposed : s \in Specs}
      \cup UNION {{t[k].name : k \in DOMAIN t} : t \in Templates}

Challenge ==
    [st : {"absent", "live", "deleting"}, rev : Nat, gen : Nat,
     fins : SUBSET {"instances", "namespace", "data"},
     tpl : Templates \cup {None}, exposed : Names, refs : SUBSET RefKinds,
     healthy : BOOLEAN, hash : Templates \cup {None},
     active : Nat, updated : Nat]

NoChallenge ==
    [st |-> "absent", rev |-> 0, gen |-> 0, fins |-> {}, tpl |-> None,
     exposed |-> None, refs |-> {}, healthy |-> FALSE, hash |-> None, active |-> 0,
     updated |-> 0]

-----------------------------------------------------------------------------
(* The API server, for the Challenge *)

ChallengeCurrent == chal.st # "absent" /\ chObj.rev = chal.rev

\* What an update leaves in the store: the last finalizer of a deleted object
\* takes the object with it.
StoredChallenge(new) ==
    IF new.st = "deleting" /\ new.fins = {}
    THEN [NoChallenge EXCEPT !.rev = chal.rev + 1]
    ELSE [new EXCEPT !.rev = chal.rev + 1]

\* MUTANT: metadata and name are patched, whatever the version.
PatchChallenge(new) ==
    /\ chal.st # "absent"
    /\ LET written ==
             [chal EXCEPT !.fins = new.fins, !.exposed = new.exposed,
                !.gen = IF new.exposed = chal.exposed THEN @ ELSE @ + 1]
       IN  chal' = IF written = chal THEN chal ELSE StoredChallenge(written)

\* Update sends metadata and spec: the status in the store stays.
UpdateChallenge(new) ==
    /\ ChallengeCurrent
    /\ LET written ==
             [chal EXCEPT !.fins = new.fins, !.exposed = new.exposed,
                !.gen = IF new.exposed = chal.exposed THEN @ ELSE @ + 1]
       IN  chal' = IF written = chal THEN chal ELSE StoredChallenge(written)

\* MUTANT: the status is patched, whatever the version.
PatchStatus(new) ==
    /\ chal.st # "absent"
    /\ LET written == [chal EXCEPT !.healthy = new.healthy, !.updated = now,
                         !.active = new.active, !.hash = new.hash]
       IN  chal' = IF written = chal THEN chal ELSE [written EXCEPT !.rev = @ + 1]

\* Status().Update sends the status only, with LastUpdated set to the time; an
\* update that changes nothing leaves the version alone.
UpdateStatus(new) ==
    /\ ChallengeCurrent
    /\ LET written == [chal EXCEPT !.healthy = new.healthy, !.updated = now,
                         !.active = new.active, !.hash = new.hash]
       IN  chal' = IF written = chal THEN chal ELSE [written EXCEPT !.rev = @ + 1]

-----------------------------------------------------------------------------
(* Events *)

\* GenerationChangedPredicate, as in the instance controller.
ChallengeNotable ==
    \/ chC.gen # chal.gen
    \/ (chC.st = "absent") # (chal.st = "absent")

\* MUTANT: changes of the spec are filtered out.
DeliverCreation ==
    /\ chC # chal
    /\ chC' = chal
    /\ chQueued' = (chQueued \/ (chC.st = "absent") # (chal.st = "absent"))
    /\ UNCHANGED <<clusterVars, chal, nsC, chWorker, edits, errors>>

DeliverChallenge ==
    /\ chC # chal
    /\ chC' = chal
    /\ chQueued' = (chQueued \/ ChallengeNotable)
    /\ UNCHANGED <<clusterVars, chal, nsC, chWorker, edits, errors>>

\* MUTANT: nobody watches the namespace.
DeliverNamespaceUnseen ==
    /\ nsC # ns
    /\ nsC' = ns
    /\ UNCHANGED <<clusterVars, chal, chC, chQueued, chWorker, edits, errors>>

\* Owns(Namespace).
DeliverNamespace ==
    /\ nsC # ns
    /\ nsC' = ns
    /\ chQueued' = TRUE
    /\ UNCHANGED <<clusterVars, chal, chC, chWorker, edits, errors>>

\* The predicate on the events of instances: it compares the challengeRef,
\* which is ChallengeName for each of them, with the name of the instance.
MatchesChallengeRef(i) == i = ChallengeName

-----------------------------------------------------------------------------
(* The start of Reconcile *)

\* The instances a List by label returns.
Labelled == {i \in Instances : instC[i].st # "absent" /\ instC[i].label}

ChTake == chPc = "idle" /\ chQueued /\ chQueued' = FALSE

ChIdle == chPc' = "idle" /\ chObj' = NoChallenge /\ todo' = << >>

ChGoto(step) == chPc' = step /\ UNCHANGED todo

\* validateTemplate up to the update in it.
Validate(c) ==
    LET valid == ValidTemplate(c.tpl, c.exposed)
    IN  /\ chObj' = [c EXCEPT !.healthy = valid]
        /\ ChGoto(IF valid /\ c.exposed = None THEN "expose" ELSE "status")

ChSkip ==
    /\ ChTake
    /\ chC.st = "absent"
    /\ UNCHANGED <<clusterVars, chal, chC, nsC, chWorker, edits, errors>>

ChBegin ==
    /\ ChTake
    /\ chC.st = "live"
    /\ IF "instances" \in chC.fins
       THEN Validate(chC)
       ELSE chObj' = chC /\ ChGoto("finalize")
    /\ UNCHANGED <<clusterVars, chal, chC, nsC, edits, errors>>

\* The references in the order in which the controller goes through them.
RefList(refs) ==
    LET only(k) == IF k \in refs THEN <<k>> ELSE << >>
    IN  only("secret") \o only("configmap")

\* reconcileDelete, past the finalizer for the instances.
Forget(c) ==
    IF "data" \in c.fins
    THEN /\ todo' = RefList(c.refs)
         /\ chPc' = IF todo' = << >> THEN "unrefer" ELSE "unannotate"
    ELSE ChGoto("raze")

\* reconcileDelete visits the instances only if status.activeInstances says
\* that there are some.
ChBeginDelete ==
    /\ ChTake
    /\ chC.st = "deleting"
    /\ chObj' = chC
    /\ IF "instances" \notin chC.fins
       THEN Forget(chC)
       ELSE IF chC.active > 0 /\ Labelled # {}
            THEN chPc' = "evict" /\ todo' \in SetToSeqs(Labelled)
            ELSE ChGoto("disown")
    /\ UNCHANGED <<clusterVars, chal, chC, nsC, edits, errors>>

-----------------------------------------------------------------------------
(* The calls of Reconcile *)

OnlyChallenge ==
    UNCHANGED <<clusterVars, chC, nsC, chQueued, edits, errors>>

AddInstanceFinalizer ==
    /\ chPc = "finalize"
    /\ UpdateChallenge([chObj EXCEPT !.fins = @ \cup {"instances"}])
    /\ Validate(chal')
    /\ OnlyChallenge

\* The container to expose is filled in; the verdict survives the update.
SetExposed ==
    /\ chPc = "expose"
    /\ UpdateChallenge([chObj EXCEPT !.exposed = ExposedName(chObj.tpl, None)])
    /\ chObj' = [chal' EXCEPT !.healthy = TRUE]
    /\ ChGoto("status")
    /\ OnlyChallenge

\* An update that fails is no error of Reconcile: it makes the Challenge
\* unhealthy.  The worker's copy keeps the name of the container.
NotExposed ==
    /\ chPc = "expose"
    /\ chObj' = [chObj EXCEPT !.healthy = FALSE,
                               !.exposed = ExposedName(chObj.tpl, None)]
    /\ ChGoto("status")

\* The answer is decoded over the worker's copy, which so keeps a name that the
\* store does not have (exposedContainerName is omitempty).
WriteHealth ==
    /\ chPc = "status"
    /\ UpdateStatus([chObj EXCEPT !.active = Cardinality(Labelled)])
    /\ chObj' = [chal' EXCEPT !.exposed = chObj.exposed]
    /\ ChGoto("namespace")
    /\ OnlyChallenge

\* MUTANT: the hash is written, the workloads are left alone.
RecordHash(c) ==
    \/ c.hash = c.tpl /\ ChIdle
    \/ c.hash # c.tpl /\ chObj' = c /\ ChGoto("hash")

\* The hash of the template against the one in the status: none yet, the
\* same, or different; then the workloads of the instances are deleted first.
CompareHash(c) ==
    \/ c.hash = c.tpl /\ ChIdle
    \/ /\ c.hash # c.tpl
       /\ c.hash = None \/ Labelled = {}
       /\ chObj' = c
       /\ ChGoto("hash")
    \/ /\ c.hash \notin {None, c.tpl}
       /\ Labelled # {}
       /\ chObj' = c
       /\ chPc' = "purge deployment"
       /\ \E s \in SetToSeqs(Labelled) :
             todo' = [k \in DOMAIN s |-> instC[s[k]].user]

\* reconcileReferences comes between the namespace and the hash.
Refer(c) ==
    IF c.refs = {}
    THEN CompareHash(c)
    ELSE chObj' = c /\ chPc' = "annotate" /\ todo' = RefList(c.refs)

MakeNamespace ==
    /\ chPc = "namespace"
    /\ nsC = "absent"
    /\ ns = "absent"
    /\ ns' = "active"
    /\ ChGoto("own")
    /\ UNCHANGED <<now, requests, faults, inst, instC, load, loadC, chal, chC,
                   nsC, chQueued, chObj, edits, errors>>

OwnNamespace ==
    /\ chPc = "own"
    /\ UpdateChallenge([chObj EXCEPT !.fins = @ \cup {"namespace"}])
    /\ Refer(chal')
    /\ OnlyChallenge

\* A namespace that is there is left alone, the finalizer too.
HasNamespace ==
    /\ chPc = "namespace"
    /\ nsC # "absent"
    /\ Refer(chObj)
    /\ UNCHANGED chal
    /\ OnlyChallenge

-----------------------------------------------------------------------------
(* updateChallengeInstances and updateChallengeStatus *)

Purging == chPc \in {"purge deployment", "purge service"}

Outdated ==
    <<IF chPc = "purge deployment" THEN "deployment" ELSE "service", Head(todo)>>

PurgeOn ==
    /\ UNCHANGED chObj
    /\ IF chPc = "purge deployment"
       THEN ChGoto("purge service")
       ELSE /\ todo' = Tail(todo)
            /\ chPc' = IF todo' = << >> THEN "hash" ELSE "purge deployment"

PurgeWorkload ==
    /\ Purging
    /\ loadC[Outdated].there
    /\ load[Outdated].there
    /\ RemoveLoad(Outdated)
    /\ PurgeOn
    /\ UNCHANGED <<now, requests, faults, ns, inst, instC, loadC, chal, chC,
                   nsC, chQueued, edits, errors>>

NothingToPurge ==
    /\ Purging
    /\ ~loadC[Outdated].there
    /\ PurgeOn
    /\ UNCHANGED chal
    /\ OnlyChallenge

WriteHash ==
    /\ chPc = "hash"
    /\ UpdateStatus([chObj EXCEPT !.hash = chObj.tpl])
    /\ ChIdle
    /\ OnlyChallenge

-----------------------------------------------------------------------------
(* reconcileDelete *)

\* MUTANT: the instance is removed in spite of its finalizer.
EvictForced ==
    /\ chPc = "evict"
    /\ inst' = [inst EXCEPT ![Head(todo)] = NoInstance(@.rev + 1)]
    /\ todo' = Tail(todo)
    /\ chPc' = IF todo' = << >> THEN "disown" ELSE "evict"
    /\ UNCHANGED <<now, requests, faults, ns, instC, load, loadC, chal, chC,
                   nsC, chQueued, chObj, edits, errors>>

\* MUTANT: the loop runs once too often.
EvictOneMore ==
    /\ chPc = "evict"
    /\ inst' = [inst EXCEPT ![Head(todo)] = Deleted(Head(todo))]
    /\ todo' = Tail(todo)
    /\ chPc' = IF todo = << >> THEN "disown" ELSE "evict"
    /\ UNCHANGED <<now, requests, faults, ns, instC, load, loadC, chal, chC,
                   nsC, chQueued, chObj, edits, errors>>

EvictInstance ==
    /\ chPc = "evict"
    /\ inst' = [inst EXCEPT ![Head(todo)] = Deleted(Head(todo))]
    /\ todo' = Tail(todo)
    /\ chPc' = IF todo' = << >> THEN "disown" ELSE "evict"
    /\ UNCHANGED <<now, requests, faults, ns, instC, load, loadC, chal, chC,
                   nsC, chQueued, chObj, edits, errors>>

\* The finalizer goes without waiting for the instances to go.
Disown ==
    /\ chPc = "disown"
    /\ UpdateChallenge([chObj EXCEPT !.fins = @ \ {"instances"}])
    /\ IF chal'.fins = {}
       THEN ChIdle
       ELSE chObj' = chal' /\ Forget(chal')
    /\ OnlyChallenge

RazeNamespace ==
    /\ chPc = "raze"
    /\ "namespace" \in chObj.fins
    /\ nsC # "absent"
    /\ ns # "absent"
    /\ ns' = "terminating"
    /\ ChGoto("release")
    /\ UNCHANGED <<now, requests, faults, inst, instC, load, loadC, chal, chC,
                   nsC, chQueued, chObj, edits, errors>>

\* No finalizer of the namespace, or no namespace in the cache: Reconcile is
\* done, and in the second case the finalizer stays.
NothingToRaze ==
    /\ chPc = "raze"
    /\ "namespace" \notin chObj.fins \/ nsC = "absent"
    /\ ChIdle
    /\ UNCHANGED chal
    /\ OnlyChallenge

ReleaseNamespace ==
    /\ chPc = "release"
    /\ UpdateChallenge([chObj EXCEPT !.fins = @ \ {"namespace"}])
    /\ ChIdle
    /\ OnlyChallenge

-----------------------------------------------------------------------------
(* Failures *)

\* A stale copy, a namespace that exists although the cache has none or has
\* gone although the cache has it, a workload that has gone likewise.
Refused ==
    \/ /\ chPc \in {"finalize", "status", "own", "hash", "disown", "release",
                   "refer", "unrefer"}
       /\ ~ChallengeCurrent
    \/ chPc = "namespace" /\ nsC = "absent" /\ ns # "absent"
    \/ Purging /\ loadC[Outdated].there /\ ~load[Outdated].there
    \/ chPc = "raze" /\ "namespace" \in chObj.fins /\ nsC # "absent" /\ ns = "absent"

ChFail == ChIdle /\ chQueued' = TRUE

\* MUTANT: what is refused is forgotten.
ChGiveUp ==
    /\ Refused
    /\ ChIdle
    /\ UNCHANGED <<clusterVars, chal, chC, nsC, chQueued, edits, errors>>

ChRetry ==
    /\ Refused
    /\ ChFail
    /\ UNCHANGED <<clusterVars, chal, chC, nsC, edits, errors>>

StaleExposed ==
    /\ ~ChallengeCurrent
    /\ NotExposed
    /\ UNCHANGED chal
    /\ OnlyChallenge

\* Any call may fail for a reason of its own.
ChApiError ==
    /\ errors < MaxErrors
    /\ errors' = errors + 1
    /\ \/ chPc \notin {"idle", "expose"} /\ ChFail
       \/ NotExposed /\ UNCHANGED chQueued
    /\ UNCHANGED <<clusterVars, chal, chC, nsC, edits>>

-----------------------------------------------------------------------------
(* The author of the Challenge, and the garbage collector *)

EditChallenge(s) ==
    /\ edits < MaxEdits
    /\ edits' = edits + 1
    /\ chal.st # "absent"
    /\ s # [tpl |-> chal.tpl, exposed |-> chal.exposed, refs |-> chal.refs]
    /\ chal' = [chal EXCEPT !.tpl = s.tpl, !.exposed = s.exposed,
                            !.refs = s.refs, !.gen = @ + 1, !.rev = @ + 1]
    /\ UNCHANGED <<clusterVars, chC, nsC, chQueued, chWorker, errors>>

DeleteChallenge ==
    /\ edits < MaxEdits
    /\ edits' = edits + 1
    /\ chal.st = "live"
    /\ chal' = StoredChallenge([chal EXCEPT !.st = "deleting", !.gen = @ + 1])
    /\ UNCHANGED <<clusterVars, chC, nsC, chQueued, chWorker, errors>>

\* The namespace is owned by the Challenge.
CollectNamespace ==
    /\ chal.st = "absent"
    /\ ns = "active"
    /\ ns' = "terminating"
    /\ UNCHANGED <<now, requests, faults, inst, instC, load, loadC, chalVars>>

-----------------------------------------------------------------------------
ChStart == ChSkip \/ ChBegin \/ ChBeginDelete

\* The updates of the Challenge but for its status.
ChUpdate ==
    \/ AddInstanceFinalizer \/ SetExposed \/ OwnNamespace \/ Disown
    \/ ReleaseNamespace

ChOther ==
    \/ StaleExposed \/ WriteHealth
    \/ MakeNamespace \/ HasNamespace
    \/ PurgeWorkload \/ NothingToPurge \/ WriteHash
    \/ EvictInstance
    \/ RazeNamespace \/ NothingToRaze
    \/ ChRetry

ChCall == ChUpdate \/ ChOther

ChStep ==
    \/ DeliverChallenge \/ DeliverNamespace
    \/ ChStart \/ ChCall \/ ChApiError
    \/ DeleteChallenge \/ \E s \in Specs : EditChallenge(s)
    \/ CollectNamespace

\* The process restarts: fresh caches, and the Challenge is new to it.
ChResume ==
    /\ chC' = chal
    /\ nsC' = ns
    /\ chQueued' = (chal.st # "absent")
    /\ ChIdle
    /\ UNCHANGED <<chal, edits, errors>>

\* An author has just written the Challenge.
ChInit ==
    /\ \E s \in Drafts :
          chal = [NoChallenge EXCEPT !.st = "live", !.rev = 1, !.gen = 1,
                    !.tpl = s.tpl, !.exposed = s.exposed, !.refs = s.refs]
    /\ chC = NoChallenge
    /\ nsC = "absent"
    /\ chQueued = FALSE
    /\ chPc = "idle"
    /\ chObj = NoChallenge
    /\ todo = << >>
    /\ edits = 0
    /\ errors = 0
=============================================================================

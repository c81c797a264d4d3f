----------------------------- MODULE References -----------------------------
(***************************************************************************)
(* A Challenge that refers to a Secret and a ConfigMap: the Challenge      *)
(* controller writes the name of the Challenge into their annotation       *)
(* (reconcileReferences, removeReferences), and the DataSyncer controller, *)
(* a second worker of the same process with the same caches, keeps copies  *)
(* of what is annotated in the namespace of the Challenge.  The webhook    *)
(* judges every update of the Challenge by the caches of its own process.  *)
(*                                                                         *)
(* The Challenge has no instances.  Secret and ConfigMap have one name and *)
(* no other Challenge refers to them.                                      *)
(***************************************************************************)
EXTENDS ChallengeController, Admission

CONSTANTS
    DataKinds,                      \* which of RefKinds there are
    Home, Entries, Payloads, MaxActs,                       \* as in DataSyncer
    MaxTrouble      \* bound on acts, faults and errors together

ASSUME DataKindsAssumption == DataKinds \subseteq RefKinds /\ MaxTrouble \in Nat

VARIABLES
    acts, source, sourceC, copy, copyC, dsQueue, dsPc, job, \* as in DataSyncer
    known           \* which sources the cache of the webhook has

dsWorker == <<dsQueue, dsPc, job>>
quiet == <<requests, inst, instC, load, loadC>>

vars == <<clusterVars, chalVars, acts, source, sourceC, copy, copyC, dsWorker,
          known>>

DS == INSTANCE DataSyncer
         WITH Kinds <- DataKinds,
              Namespaces <- {ChallengeName},
              space <- [n \in {ChallengeName} |-> ns]

ASSUME SyncAssumption == DS!DataAssumption

-----------------------------------------------------------------------------
(* reconcileReferences and removeReferences *)

Annotating == chPc \in {"annotate", "unannotate"}

Referred == Head(todo)

AnnotateResourceWithChallenges(names) ==
    IF ChallengeName \in Range(names) THEN names ELSE Append(names, ChallengeName)

RemoveChallengeFromResource(names) ==
    LET updated[k \in 0 .. Len(names)] ==
          IF k = 0
          THEN << >>
          ELSE IF names[k] = ChallengeName
               THEN updated[k - 1]
               ELSE Append(updated[k - 1], names[k])
    IN  updated[Len(names)]

\* MUTANT: the loop runs off the end of its list.
RefOnOneMore ==
    /\ UNCHANGED <<chObj, chPc>>
    /\ todo' = Tail(todo)

RefOn ==
    /\ UNCHANGED chObj
    /\ todo' = Tail(todo)
    /\ chPc' = CASE todo' # << >>                           -> chPc
                 [] todo' = << >> /\ chPc = "annotate"      -> "refer"
                 [] todo' = << >> /\ chPc = "unannotate"    -> "unrefer"

Fresh(k) == source[k].st # "absent" /\ source[k].rev = sourceC[k].rev

\* MUTANT: what was read is written back whatever is stored by now.
AnnotateBlind ==
    /\ Annotating
    /\ Referred \in DataKinds
    /\ sourceC[Referred].st # "absent"
    /\ LET Change(names) == IF chPc = "annotate"
                            THEN AnnotateResourceWithChallenges(names)
                            ELSE RemoveChallengeFromResource(names)
       IN  source' = [source EXCEPT ![Referred] =
                        DS!Stored(@, [sourceC[Referred] EXCEPT !.names = Change(@)])]
    /\ RefOn
    /\ UNCHANGED chal
    /\ OnlyChallenge

\* The object read from the cache is sent back with another annotation.
Annotate ==
    /\ Annotating
    /\ Referred \in DataKinds
    /\ sourceC[Referred].st # "absent"
    /\ Fresh(Referred)
    /\ LET Change(names) == IF chPc = "annotate"
                            THEN AnnotateResourceWithChallenges(names)
                            ELSE RemoveChallengeFromResource(names)
       IN  source' = [source EXCEPT ![Referred] =
                        DS!Stored(@, [sourceC[Referred] EXCEPT !.names = Change(@)])]
    /\ RefOn
    /\ UNCHANGED chal
    /\ OnlyChallenge

\* What the cache does not have is passed over without a word.
PassOver ==
    /\ Annotating
    /\ Referred \in DataKinds => sourceC[Referred].st = "absent"
    /\ RefOn
    /\ UNCHANGED <<chal, source>>
    /\ OnlyChallenge

\* MUTANT: a source that changed meanwhile is passed over.
OutrunPassed ==
    /\ Annotating
    /\ Referred \in DataKinds
    /\ sourceC[Referred].st # "absent"
    /\ ~Fresh(Referred)
    /\ RefOn
    /\ UNCHANGED <<chal, source>>
    /\ OnlyChallenge

Outrun ==
    /\ Annotating
    /\ Referred \in DataKinds
    /\ sourceC[Referred].st # "absent"
    /\ ~Fresh(Referred)
    /\ ChFail
    /\ UNCHANGED <<clusterVars, chal, chC, nsC, edits, errors, source>>

AddDataFinalizer ==
    /\ chPc = "refer"
    /\ UpdateChallenge([chObj EXCEPT !.fins = @ \cup {"data"}])
    /\ CompareHash(chal')
    /\ OnlyChallenge

\* MUTANT: the visit ends here, and the namespace stays.
RemoveDataFinalizerLast ==
    /\ chPc = "unrefer"
    /\ UpdateChallenge([chObj EXCEPT !.fins = @ \ {"data"}])
    /\ ChIdle
    /\ OnlyChallenge

RemoveDataFinalizer ==
    /\ chPc = "unrefer"
    /\ UpdateChallenge([chObj EXCEPT !.fins = @ \ {"data"}])
    /\ IF "namespace" \in chal'.fins
       THEN chObj' = chal' /\ ChGoto("raze")
       ELSE ChIdle
    /\ OnlyChallenge

-----------------------------------------------------------------------------
(* The webhook *)

SpecOfChallenge == [tpl |-> chal.tpl, exposed |-> chal.exposed, refs |-> chal.refs]

Admitted == chal.st # "absent" /\ Admits(SpecOfChallenge, known)

\* An update that is not admitted is an error of Reconcile, or, in
\* validateTemplate, a verdict.
Reject ==
    /\ chal.st # "absent" /\ ~Admitted
    /\ \/ /\ chPc \in {"finalize", "own", "disown", "release", "refer", "unrefer"}
          /\ ChFail
       \/ NotExposed /\ UNCHANGED chQueued
    /\ UNCHANGED <<clusterVars, chal, chC, nsC, edits, errors>>

DeliverToWebhook ==
    /\ known' = {k \in DataKinds : source[k].st # "absent"}
    /\ known' # known
    /\ UNCHANGED <<clusterVars, chalVars, acts, source, sourceC, copy, copyC,
                   dsWorker>>

-----------------------------------------------------------------------------
Others == UNCHANGED <<acts, sourceC, copy, copyC, dsWorker, known>>

ReferenceCall ==
    /\ \/ Annotate \/ PassOver \/ Outrun
       \/ /\ \/ (ChUpdate \/ AddDataFinalizer \/ RemoveDataFinalizer) /\ Admitted
             \/ ChOther
             \/ Reject
          /\ UNCHANGED source
    /\ Others

Alone == UNCHANGED source /\ Others

SyncRuns(A) == UNCHANGED <<ns, quiet, chalVars, known>> /\ A

Informers ==
    \/ (DeliverChallenge \/ DeliverNamespace) /\ Alone
    \/ SyncRuns(\E k \in DataKinds : DS!Deliver(k))
    \/ DeliverToWebhook

\* The namespace goes when the copies in it have gone.
NamespaceGone ==
    /\ DropNamespace
    /\ DS!DropSpace(ChallengeName)
    /\ UNCHANGED <<chalVars, known>>

\* The clock, the garbage collector and the namespace controller.
Surroundings ==
    \/ CollectNamespace /\ Alone
    \/ NamespaceGone
    \/ SyncRuns(DS!Tick \/ \E c \in DS!Copies : DS!EmptySpace(c))

Trouble == acts + faults + errors < MaxTrouble

ChallengeStep ==
    \/ ReferenceCall
    \/ /\ \/ ChStart
          \/ Trouble /\ ChApiError
          \/ DeleteChallenge
          \/ \E s \in Specs : Admits(s, known) /\ EditChallenge(s)
       /\ Alone

SyncStep ==
    \/ \E p \in DS!Names : SyncRuns(DS!Start(p))
    \/ SyncRuns(DS!Call)
    \/ SyncRuns(Trouble /\ DS!ApiError)
    \/ SyncRuns(Trouble /\ DS!Act /\ DS!SourceAct)

ManagerRestart ==
    /\ Trouble
    /\ UNCHANGED <<ns, quiet>>
    /\ ChResume
    /\ DS!Restart
    /\ UNCHANGED known

\* The sources have been there for a while when the Challenge is written.
Init ==
    /\ ClusterInit
    /\ DS!Init
    /\ \A k \in DataKinds : source[k].st = "live" /\ source[k].names = << >>
    /\ ChInit
    /\ known = DataKinds
    /\ Admitted

Next ==
    ChallengeStep \/ SyncStep \/ Informers \/ Surroundings \/ ManagerRestart

Spec == Init /\ [][Next]_vars

\* As for the two controllers alone.  Nothing delivers or collects for ever, so
\* one conjunct for all that does leaves none of it undone.
Fairness ==
    /\ WF_vars((ChStart /\ Alone) \/ ReferenceCall)
    /\ \A p \in DS!Names : SF_vars(SyncRuns(DS!Start(p)))
    /\ WF_vars(SyncRuns(DS!Call))
    /\ WF_vars(Informers \/ Surroundings)

FairSpec == Spec /\ Fairness
-----------------------------------------------------------------------------
(* Properties *)

TypeOK ==
    /\ DS!TypeOK
    /\ ClusterTypeOK
    /\ chal \in Challenge
    /\ chC \in Challenge
    /\ chObj \in Challenge
    /\ chPc \in ChSteps
    /\ known \subseteq DataKinds
    /\ Annotating => todo # << >>

\* What the Challenge controller, the users and the namespace controller do to
\* sources, copies and the namespace is what DataSyncer allows for.
Implements == DS!OpenSpec

NamesChallenge(k) == ChallengeName \in Range(source[k].names)

\* The finalizer for the references goes only when no source that the
\* Challenge refers to names it any more.
ForgottenFirst ==
    [][/\ "data" \in chal.fins
       /\ "data" \notin chal'.fins
       => \A k \in chal.refs \cap DataKinds : ~NamesChallenge(k)]_vars

\* The sources stay, and no two copies are replaced within one second.
Benign ==
    /\ DS!TriggersDistinct
    /\ \A k \in DataKinds : source[k].st = "live"

\* What the template of the Challenge uses is in its namespace, with the data
\* of the source.
Furnished ==
    \A k \in Used(chal.tpl) : NamesChallenge(k) /\ DS!Mirrored(k)

\* No error, no restart, no edit besides the deletion.
Undisturbed == errors = 0 /\ faults = 0 /\ edits <= 1

\* In the end a live Challenge is furnished and stays so, and the deletion of
\* an undisturbed one has taken it and its namespace with all copies along.
FurnishedOrGone ==
    []Benign =>
       <>[](IF chal.st = "live"
            THEN Furnished
            ELSE Undisturbed => chal.st = "absent" /\ ns = "absent")

\* A source is deleted fully.
SourceGoes ==
    \A k \in DataKinds : source[k].st = "deleting" ~> source[k].st # "deleting"
=============================================================================

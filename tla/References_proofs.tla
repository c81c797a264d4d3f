--------------------------- MODULE References_proofs --------------------------
(***************************************************************************)
(* Proofs about the Challenge controller next to the DataSyncer            *)
(* controller.  What it does to Secrets, ConfigMaps and the namespace is   *)
(* what the specification of the DataSyncer controller allows for, so what *)
(* DataSyncer_proofs shows of that controller holds here.  And it lets a   *)
(* Challenge go only when it has taken its name out of what the Challenge  *)
(* refers to, however its caches lag and whoever edits meanwhile.          *)
(***************************************************************************)
EXTENDS References, ChallengeController_proofs

DSP == INSTANCE DataSyncer_proofs
         WITH Kinds <- DataKinds,
              Namespaces <- {ChallengeName},
              space <- [n \in {ChallengeName} |-> ns]

-----------------------------------------------------------------------------
(* DS and DSP are instances of one module: what they define is the same *)

LEMMA SameType == (DS!TypeOK <=> DSP!TypeOK) /\ (DS!TypeOK' <=> DSP!TypeOK')
BY DEF DS!TypeOK, DSP!TypeOK, DS!Source, DSP!Source, DS!Copy, DSP!Copy,
       DS!Copies, DSP!Copies, DS!Names, DSP!Names, DS!Steps, DSP!Steps

LEMMA SameSourceInv == DS!SourceInv <=> DSP!SourceInv
BY DEF DS!SourceInv, DSP!SourceInv, DS!Older, DSP!Older, DS!Annotated,
       DSP!Annotated

LEMMA SameOrders ==
    /\ \A S : DS!SetToSeqs(S) = DSP!SetToSeqs(S)
    /\ \A f : DS!Range(f) = DSP!Range(f)
    /\ DS!NameLists = DSP!NameLists
<1>1. ASSUME NEW S
      PROVE  DS!Cardinality(S) = DSP!Cardinality(S)
  BY DEF DS!Cardinality, DSP!Cardinality
<1>2. ASSUME NEW S
      PROVE  DS!SetToSeqs(S) = DSP!SetToSeqs(S)
  BY <1>1 DEF DS!SetToSeqs, DSP!SetToSeqs
<1>3. ASSUME NEW f
      PROVE  DS!Range(f) = DSP!Range(f)
  BY DEF DS!Range, DSP!Range
<1>. QED
  BY <1>2, <1>3 DEF DS!NameLists, DSP!NameLists

LEMMA SameInit == DS!Init <=> DSP!Init
BY SameOrders
   DEF DS!Init, DSP!Init, DS!NoSource, DSP!NoSource, DS!Copies, DSP!Copies,
       DS!NoCopy, DSP!NoCopy, DS!Annotated, DSP!Annotated, DS!NoJob, DSP!NoJob

LEMMA SameVars == DS!vars = DSP!vars /\ (DS!vars)' = (DSP!vars)'
BY DEF DS!vars, DSP!vars, DS!bounds, DSP!bounds, DS!store, DSP!store,
       DS!caches, DSP!caches, DS!worker, DSP!worker

LEMMA SameNeighbour ==
    /\ DS!SourceAct <=> DSP!SourceAct
    /\ DS!Neighbour <=> DSP!Neighbour
BY SameOrders
   DEF DS!SourceAct, DSP!SourceAct, DS!Neighbour, DSP!Neighbour, DS!CopyAct,
       DSP!CopyAct, DS!DropSource, DSP!DropSource, DS!PutSource,
       DSP!PutSource, DS!DropCopy, DSP!DropCopy, DS!TamperCopy,
       DSP!TamperCopy, DS!Rename, DSP!Rename, DS!MakeSpace, DSP!MakeSpace,
       DS!DeleteSpace, DSP!DeleteSpace, DS!Copies, DSP!Copies, DS!Deleted, DSP!Deleted, DS!NoSource,
       DSP!NoSource, DS!NoCopy, DSP!NoCopy, DS!DeleteCopy, DSP!DeleteCopy,
       DS!caches, DSP!caches, DS!worker, DSP!worker

LEMMA SameFailure ==
    /\ DS!ApiError <=> DSP!ApiError
    /\ DS!Restart <=> DSP!Restart
BY DEF DS!ApiError, DSP!ApiError, DS!Restart, DSP!Restart, DS!Fault,
       DSP!Fault, DS!Fail, DSP!Fail, DS!Idle, DSP!Idle, DS!Resume,
       DSP!Resume, DS!NoJob, DSP!NoJob, DS!NoSource, DSP!NoSource,
       DS!NoCopy, DSP!NoCopy, DS!Copies, DSP!Copies, DS!Annotated,
       DSP!Annotated, DS!store, DSP!store, DS!caches, DSP!caches

LEMMA SameVisit == DS!VisitSource <=> DSP!VisitSource
<1>1. \A k : DS!Undesired(k) = DSP!Undesired(k)
  BY SameOrders DEF DS!Undesired, DSP!Undesired
<1>2. \A p : DS!Found(p) = DSP!Found(p)
  BY DEF DS!Found, DSP!Found
<1>3. \A k : DS!SetToSeqs(DS!Undesired(k)) = DSP!SetToSeqs(DSP!Undesired(k))
  BY <1>1, SameOrders
<1>4. DS!NoJob = DSP!NoJob
  BY DEF DS!NoJob, DSP!NoJob, DS!NoSource, DSP!NoSource, DS!NoCopy, DSP!NoCopy
<1>5. UNCHANGED <<DS!bounds, DS!store, DS!caches>>
        <=> UNCHANGED <<DSP!bounds, DSP!store, DSP!caches>>
  BY DEF DS!bounds, DSP!bounds, DS!store, DSP!store, DS!caches, DSP!caches
<1>. DEFINE Visit(k, undesired) ==
               /\ k = DS!Found(Home)
               /\ DS!Annotated(sourceC[k])
               /\ dsQueue' = dsQueue \ {Home}
               /\ dsPc' = IF sourceC[k].st = "deleting" /\ sourceC[k].fin
                          THEN "reap"
                          ELSE IF undesired # << >> THEN "prune" ELSE "sync"
               /\ job' = [DS!NoJob EXCEPT
                            !.kind = k, !.place = Home, !.src = sourceC[k],
                            !.todo = IF dsPc' = "prune" THEN undesired
                                     ELSE sourceC[k].names]
<1>6. DS!VisitSource
        <=> /\ DS!Take(Home)
            /\ \E k \in DataKinds :
                  \E undesired \in DS!SetToSeqs(DS!Undesired(k)) :
                     Visit(k, undesired)
            /\ UNCHANGED <<DS!bounds, DS!store, DS!caches>>
  BY DEF DS!VisitSource
<1>7. DSP!VisitSource
        <=> /\ DSP!Take(Home)
            /\ \E k \in DataKinds :
                  \E undesired \in DSP!SetToSeqs(DSP!Undesired(k)) :
                     Visit(k, undesired)
            /\ UNCHANGED <<DSP!bounds, DSP!store, DSP!caches>>
  BY <1>2, <1>4 DEF DSP!VisitSource, DS!Annotated, DSP!Annotated
<1>8. DS!Take(Home) <=> DSP!Take(Home)
  BY DEF DS!Take, DSP!Take
<1>. HIDE DEF Visit
<1>. QED
  BY <1>3, <1>5, <1>6, <1>7, <1>8

LEMMA SameStart == \A p : DS!Start(p) <=> DSP!Start(p)
BY SameVisit
   DEF DS!Start, DSP!Start, DS!Skip, DSP!Skip, DS!Take, DSP!Take, DS!Found,
       DSP!Found, DS!VisitCopy, DSP!VisitCopy, DS!DataOf, DSP!DataOf,
       DS!NoJob, DSP!NoJob, DS!NoSource, DSP!NoSource, DS!NoCopy, DSP!NoCopy,
       DS!bounds, DSP!bounds, DS!store, DSP!store, DS!caches, DSP!caches

LEMMA SameCall == DS!Call <=> DSP!Call
BY DEF DS!Call, DSP!Call, DS!Reap, DSP!Reap, DS!Unseal, DSP!Unseal, DS!Prune,
       DSP!Prune, DS!CreateCopy, DSP!CreateCopy, DS!AlreadyExists,
       DSP!AlreadyExists, DS!OverwriteCopy, DSP!OverwriteCopy, DS!Seal,
       DSP!Seal, DS!Detach, DSP!Detach, DS!Discard, DSP!Discard, DS!Trigger,
       DSP!Trigger, DS!Release, DSP!Release, DS!Revert, DSP!Revert, DS!Retry,
       DSP!Retry, DS!Refused, DSP!Refused, DS!Fail, DSP!Fail, DS!Idle,
       DSP!Idle, DS!Target, DSP!Target, DS!Mine, DSP!Mine, DS!Onward,
       DSP!Onward, DS!Calls, DSP!Calls, DS!Synced, DSP!Synced, DS!Stored,
       DSP!Stored, DS!Sent, DSP!Sent, DS!DataOf, DSP!DataOf, DS!NoJob,
       DSP!NoJob, DS!NoSource, DSP!NoSource, DS!NoCopy, DSP!NoCopy,
       DS!Deleted, DSP!Deleted, DS!DeleteCopy, DSP!DeleteCopy,
       DS!ReleaseCopy, DSP!ReleaseCopy, DS!SourceCurrent, DSP!SourceCurrent,
       DS!CopyCurrent, DSP!CopyCurrent, DS!UpdateSource, DSP!UpdateSource,
       DS!bounds, DSP!bounds, DS!store, DSP!store, DS!caches, DSP!caches

LEMMA SameStep == DS!Step <=> DSP!Step
<1>1. \A k : DS!Deliver(k) <=> DSP!Deliver(k)
  BY DEF DS!Deliver, DSP!Deliver, DS!Refresh, DSP!Refresh, DS!Noticed,
         DSP!Noticed, DS!Annotated, DSP!Annotated, DS!Copies, DSP!Copies,
         DS!bounds, DSP!bounds, DS!store, DSP!store, DS!caches, DSP!caches
<1>2. \A c : DS!EmptySpace(c) <=> DSP!EmptySpace(c)
  BY DEF DS!EmptySpace, DSP!EmptySpace, DS!DeleteCopy, DSP!DeleteCopy,
         DS!Deleted, DSP!Deleted, DS!NoCopy, DSP!NoCopy, DS!bounds, DSP!bounds,
         DS!caches, DSP!caches, DS!worker, DSP!worker
<1>3. \A n : DS!DropSpace(n) <=> DSP!DropSpace(n)
  BY DEF DS!DropSpace, DSP!DropSpace, DS!bounds, DSP!bounds, DS!caches,
         DSP!caches, DS!worker, DSP!worker
<1>4. DS!Tick <=> DSP!Tick
  BY DEF DS!Tick, DSP!Tick, DS!store, DSP!store, DS!caches, DSP!caches,
         DS!worker, DSP!worker
<1>. QED
  BY <1>1, <1>2, <1>3, <1>4, SameStart, SameCall
     DEF DS!Step, DSP!Step, DS!Names, DSP!Names, DS!Copies, DSP!Copies

LEMMA SameNext == DS!OpenNext <=> DSP!OpenNext
BY SameNeighbour, SameFailure, SameStep DEF DS!OpenNext, DSP!OpenNext

\* What the DataSyncer controller assumes of its constants is so here.
LEMMA Assumptions == DSP!DataAssumption
BY SyncAssumption
   DEF DS!DataAssumption, DSP!DataAssumption, DS!IsFiniteSet, DSP!IsFiniteSet

LEMMA SyncInv ==
    DSP!IInv /\ [DSP!OpenNext]_(DSP!vars) => DSP!IInv'
BY DSP!StepInv, Assumptions

LEMMA SyncNames ==
    ASSUME DSP!IInv, DS!Step \/ DS!ApiError \/ DS!Restart \/ DS!SourceAct,
           NEW k \in DataKinds
    PROVE  /\ \/ /\ source'[k].names = source[k].names
                 /\ source'[k].st = "absent" => source[k].st = "absent"
              \/ source'[k].names = << >>
           /\ \/ sourceC'[k] = sourceC[k]
              \/ source'[k] = source[k] /\ sourceC'[k] = source[k]
BY DSP!NamesStep, Assumptions, SameStep, SameFailure, SameNeighbour

-----------------------------------------------------------------------------
(* Annotations, and the loops over references *)

\* With one Challenge an annotation is empty or names that Challenge.
LEMMA Lists == {<< >>, <<ChallengeName>>} \subseteq DS!NameLists
<1>1. DS!Cardinality({}) = 0 /\ DS!Cardinality({ChallengeName}) = 1
  BY FS_EmptySet, FS_Singleton
     DEF DS!Cardinality, Cardinality, DS!IsFiniteSet, IsFiniteSet
<1>2. << >> \in DS!SetToSeqs({})
  BY <1>1 DEF DS!SetToSeqs
<1>3. <<ChallengeName>> \in DS!SetToSeqs({ChallengeName})
  BY <1>1 DEF DS!SetToSeqs
<1>. QED
  BY <1>2, <1>3 DEF DS!NameLists

LEMMA Ranges ==
    /\ Range(<< >>) = {}
    /\ \A a : Range(<<a>>) = {a}
    /\ \A a, b : Range(<<a, b>>) = {a, b}
BY DEF Range

\* AnnotateResourceWithChallenges and RemoveChallengeFromResource on them.
LEMMA Annotated ==
    /\ AnnotateResourceWithChallenges(<< >>) = <<ChallengeName>>
    /\ AnnotateResourceWithChallenges(<<ChallengeName>>) = <<ChallengeName>>
BY Ranges DEF AnnotateResourceWithChallenges

LEMMA Removed ==
    /\ RemoveChallengeFromResource(<< >>) = << >>
    /\ RemoveChallengeFromResource(<<ChallengeName>>) = << >>
<1>1. RemoveChallengeFromResource(<< >>) = << >>
  <2>. DEFINE Loop(f) == [k \in 0 .. 0 |->
                            IF k = 0
                            THEN << >>
                            ELSE IF << >>[k] = ChallengeName
                                 THEN f[k - 1]
                                 ELSE Append(f[k - 1], << >>[k])]
              updated == CHOOSE f : f = Loop(f)
  <2>1. updated[0] = RemoveChallengeFromResource(<< >>)
    BY DEF RemoveChallengeFromResource
  <2>2. [k \in 0 .. 0 |-> << >>] = Loop([k \in 0 .. 0 |-> << >>])
    OBVIOUS
  <2>3. updated = Loop(updated)
    BY <2>2
  <2>. QED
    BY <2>1, <2>3
<1>2. RemoveChallengeFromResource(<<ChallengeName>>) = << >>
  <2>. DEFINE Loop(f) == [k \in 0 .. 1 |->
                            IF k = 0
                            THEN << >>
                            ELSE IF <<ChallengeName>>[k] = ChallengeName
                                 THEN f[k - 1]
                                 ELSE Append(f[k - 1], <<ChallengeName>>[k])]
              updated == CHOOSE f : f = Loop(f)
  <2>1. updated[1] = RemoveChallengeFromResource(<<ChallengeName>>)
    BY DEF RemoveChallengeFromResource
  <2>2. [k \in 0 .. 1 |-> << >>] = Loop([k \in 0 .. 1 |-> << >>])
    OBVIOUS
  <2>3. updated = Loop(updated)
    BY <2>2
  <2>4. updated[0] = << >>
    BY <2>3
  <2>5. updated[1] = updated[0]
    BY <2>3
  <2>. QED
    BY <2>1, <2>4, <2>5
<1>. QED
  BY <1>1, <1>2

\* A round of a loop over references leaves the others before it.
LEMMA Round ==
    ASSUME ChalInv, Annotating, RefOn
    PROVE  /\ chObj' = chObj
           /\ Range(todo) = {Referred} \cup Range(todo')
           /\ \/ todo' \in RefLists /\ chPc' = chPc
              \/ /\ todo' = << >>
                 /\ chPc' = IF chPc = "annotate" THEN "refer" ELSE "unrefer"
<1>1. todo \in RefLists /\ todo' = Tail(todo) /\ chObj' = chObj
  BY DEF ChalInv, Annotating, RefOn
<1>2. CASE todo = <<"secret", "configmap">>
  <2>1. todo' = <<"configmap">> /\ Referred = "secret" /\ todo' # << >>
    BY <1>1, <1>2 DEF Referred
  <2>2. chPc' = chPc
    BY <2>1 DEF RefOn
  <2>. QED
    BY <1>1, <1>2, <2>1, <2>2, Ranges DEF RefLists
<1>3. ASSUME NEW k, todo = <<k>>
      PROVE  /\ Range(todo) = {Referred} \cup Range(todo')
             /\ todo' = << >>
             /\ chPc' = IF chPc = "annotate" THEN "refer" ELSE "unrefer"
  <2>1. todo' = << >> /\ Referred = k
    BY <1>1, <1>3 DEF Referred
  <2>2. chPc' = IF chPc = "annotate" THEN "refer" ELSE "unrefer"
    BY <2>1 DEF RefOn, Annotating
  <2>. QED
    BY <1>3, <2>1, <2>2, Ranges
<1>. QED
  BY <1>1, <1>2, <1>3 DEF RefLists

-----------------------------------------------------------------------------
(* The inductive invariant *)

\* The Challenge has no instances, and so no workloads.
QuietInv ==
    /\ requests = 0
    /\ inst = [i \in Instances |-> NoInstance(0)]
    /\ instC = inst
    /\ load = [w \in Loads |-> NoLoad(0, None)]
    /\ loadC = load

\* An annotation names the Challenge or nothing, and nothing if the source is
\* absent or was so when the cache was last filled.
NameInv ==
    \A k \in DataKinds :
       /\ source[k].names \in {<< >>, <<ChallengeName>>}
       /\ source[k].st = "absent" \/ sourceC[k].st = "absent" =>
             source[k].names = << >>

\* While a visit takes the Challenge out of annotations, those that name it
\* still are before it.
ForgetInv ==
    chPc \in {"unannotate", "unrefer"} =>
       \A k \in chObj.refs \cap DataKinds :
          NamesChallenge(k) => chPc = "unannotate" /\ k \in Range(todo)

RInv ==
    /\ DSP!IInv
    /\ ChalInv
    /\ known \subseteq DataKinds
    /\ QuietInv
    /\ NameInv
    /\ ReadInv
    /\ ForgetInv

LEMMA SyncTypes ==
    ASSUME DSP!IInv
    PROVE  /\ now \in Nat /\ faults \in Nat /\ acts \in Nat
           /\ ns \in {"active", "terminating", "absent"}
           /\ source \in [DataKinds -> DS!Source]
           /\ sourceC \in [DataKinds -> DS!Source]
<1>1. [n \in {ChallengeName} |-> ns]
         \in [{ChallengeName} -> {"active", "terminating", "absent"}]
  BY DEF DSP!IInv, DSP!TypeOK
<1>2. ns \in {"active", "terminating", "absent"}
  BY <1>1
<1>. QED
  BY <1>2 DEF DSP!IInv, DSP!TypeOK, DS!Source, DSP!Source

-----------------------------------------------------------------------------
(* The write of an annotation *)

NewNames == IF chPc = "annotate" THEN <<ChallengeName>> ELSE << >>

LEMMA AnnotateEffect ==
    ASSUME RInv, Annotate
    PROVE  /\ Referred \in DataKinds
           /\ source[Referred].st # "absent"
           /\ sourceC[Referred].st # "absent"
           /\ \/ source[Referred].names = NewNames /\ source' = source
              \/ /\ source[Referred].names # NewNames
                 /\ source' = [source EXCEPT ![Referred].names = NewNames,
                                             ![Referred].rev = @ + 1]
<1>. DEFINE k == Referred
            old == source[k]
            Change(names) == IF chPc = "annotate"
                             THEN AnnotateResourceWithChallenges(names)
                             ELSE RemoveChallengeFromResource(names)
            new == [old EXCEPT !.names = NewNames]
<1>1. /\ k \in DataKinds /\ old.st # "absent" /\ sourceC[k].st # "absent"
      /\ old.rev = sourceC[k].rev /\ Annotating
  BY DEF Annotate, Fresh
<1>2. source \in [DataKinds -> DS!Source] /\ old \in DS!Source
  BY <1>1, SyncTypes DEF RInv
<1>3. sourceC[k] = old
  BY <1>1 DEF RInv, DSP!IInv, DSP!SourceInv, DSP!Older
<1>4. Change(old.names) = NewNames
  <2>1. old.names \in {<< >>, <<ChallengeName>>}
    BY <1>1 DEF RInv, NameInv
  <2>. QED
    BY <2>1, Annotated, Removed DEF NewNames
<1>5. source' = [source EXCEPT ![k] = DS!Stored(old, [old EXCEPT !.names = Change(old.names)])]
  BY <1>3 DEF Annotate
<1>6. source' = [source EXCEPT ![k] = DS!Stored(old, new)]
  BY <1>4, <1>5
<1>7. CASE old.names = NewNames
  <2>1. new = old
    BY <1>2, <1>7 DEF DS!Source
  <2>2. DS!Stored(old, new) = old
    BY <2>1 DEF DS!Stored
  <2>. QED
    BY <1>1, <1>2, <1>6, <1>7, <2>2
<1>8. CASE old.names # NewNames
  <2>1. new.names = NewNames
    BY <1>2 DEF DS!Source
  <2>2. DS!Stored(old, new) = [new EXCEPT !.rev = old.rev + 1]
    BY <1>8, <2>1 DEF DS!Stored
  <2>3. source' = [source EXCEPT ![k] = [old EXCEPT !.names = NewNames,
                                                  !.rev = old.rev + 1]]
    BY <1>2, <1>6, <2>2 DEF DS!Source
  <2>4. [source EXCEPT ![k].names = NewNames, ![k].rev = @ + 1]
          = [source EXCEPT ![k] = [old EXCEPT !.names = NewNames,
                                              !.rev = old.rev + 1]]
    BY <1>1, <1>2 DEF DS!Source
  <2>. QED
    BY <1>1, <1>8, <2>3, <2>4
<1>. QED
  BY <1>7, <1>8

\* It makes an annotation what it is to be, and leaves the others alone.
LEMMA AnnotateNames ==
    ASSUME RInv, Annotate, NEW k \in DataKinds
    PROVE  /\ source'[k].names = IF k = Referred THEN NewNames ELSE source[k].names
           /\ source'[k].st = source[k].st
<1>1. source \in [DataKinds -> DS!Source] /\ source[k] \in DS!Source
  BY SyncTypes DEF RInv
<1>2. CASE source[Referred].names = NewNames /\ source' = source
  BY <1>2
<1>3. CASE source' = [source EXCEPT ![Referred].names = NewNames,
                                    ![Referred].rev = @ + 1]
  <2>1. CASE k = Referred
    <3>1. source'[k] = [source[k] EXCEPT !.names = NewNames, !.rev = @ + 1]
      BY <1>1, <1>3, <2>1
    <3>2. [source[k] EXCEPT !.names = NewNames, !.rev = @ + 1].names = NewNames
      BY <1>1 DEF DS!Source
    <3>3. [source[k] EXCEPT !.names = NewNames, !.rev = @ + 1].st = source[k].st
      BY <1>1 DEF DS!Source
    <3>. QED
      BY <2>1, <3>1, <3>2, <3>3
  <2>2. CASE k # Referred
    BY <1>1, <1>3, <2>2
  <2>. QED
    BY <2>1, <2>2
<1>. QED
  BY <1>2, <1>3, AnnotateEffect

-----------------------------------------------------------------------------
(* The composition implements the specification of the DataSyncer controller *)

\* Nothing evicts or purges what is not there.
LEMMA NothingThere ==
    ASSUME RInv, EvictInstance \/ PurgeWorkload
    PROVE  UNCHANGED <<now, faults, ns, quiet>>
<1>1. /\ inst = [i \in Instances |-> NoInstance(0)]
      /\ load = [w \in Loads |-> NoLoad(0, None)]
  BY DEF RInv, QuietInv
<1>2. CASE EvictInstance
  <2>. DEFINE i == Head(todo)
  <2>1. /\ inst' = [inst EXCEPT ![i] = Deleted(i)]
        /\ UNCHANGED <<now, requests, faults, ns, instC, load, loadC>>
    BY <1>2 DEF EvictInstance
  <2>. HIDE DEF i
  <2>2. i \in Instances => inst[i].st = "absent"
    BY <1>1 DEF NoInstance
  <2>3. i \in Instances => Deleted(i) = inst[i]
    BY <2>2 DEF Deleted
  <2>4. inst' = inst
    BY <1>1, <2>1, <2>3
  <2>. QED
    BY <2>1, <2>4 DEF quiet
<1>3. CASE PurgeWorkload
  <2>. DEFINE w == Outdated
  <2>1. /\ load[w].there
        /\ load' = [load EXCEPT ![w] = NoLoad(@.rev + 1, @.owner)]
        /\ UNCHANGED <<now, requests, faults, ns, inst, instC, loadC>>
    BY <1>3 DEF PurgeWorkload, RemoveLoad
  <2>. HIDE DEF w
  <2>2. w \notin Loads
    BY <1>1, <2>1 DEF NoLoad
  <2>3. load' = load
    BY <1>1, <2>1, <2>2
  <2>. QED
    BY <2>1, <2>3 DEF quiet
<1>. QED
  BY <1>2, <1>3

\* Of all that happens around the DataSyncer controller, the Challenge
\* controller writes annotations, and makes and deletes the namespace.
Around ==
    /\ UNCHANGED <<now, faults, acts, quiet, sourceC, copy, copyC, dsWorker>>
    /\ \/ UNCHANGED <<ns, source>>
       \/ UNCHANGED ns /\ Annotate
       \/ UNCHANGED source /\ ns = "absent" /\ ns' = "active"
       \/ UNCHANGED source /\ ns # "absent" /\ ns' = "terminating"

LEMMA CallAround ==
    ASSUME RInv, ReferenceCall
    PROVE  Around
<1>. USE DEF Around, clusterVars, quiet
<1>1. UNCHANGED <<acts, sourceC, copy, copyC, dsWorker>>
  BY DEF ReferenceCall, Others
<1>2. CASE Annotate \/ PassOver \/ Outrun
  BY <1>1, <1>2 DEF Annotate, PassOver, Outrun, OnlyChallenge
<1>3. CASE (ChUpdate \/ AddDataFinalizer \/ RemoveDataFinalizer \/ Reject)
           /\ UNCHANGED source
  BY <1>1, <1>3 DEF ChUpdate, AddInstanceFinalizer, SetExposed, OwnNamespace,
     Disown, ReleaseNamespace, AddDataFinalizer, RemoveDataFinalizer, Reject,
     OnlyChallenge
<1>4. CASE (EvictInstance \/ PurgeWorkload) /\ UNCHANGED source
  BY <1>1, <1>4, NothingThere
<1>5. CASE (MakeNamespace \/ RazeNamespace) /\ UNCHANGED source
  BY <1>1, <1>5 DEF MakeNamespace, RazeNamespace
<1>6. CASE (StaleExposed \/ WriteHealth \/ HasNamespace \/ NothingToPurge
              \/ WriteHash \/ NothingToRaze \/ ChRetry) /\ UNCHANGED source
  BY <1>1, <1>6 DEF StaleExposed, WriteHealth, HasNamespace, NothingToPurge,
     WriteHash, NothingToRaze, ChRetry, OnlyChallenge
<1>. QED
  BY <1>2, <1>3, <1>4, <1>5, <1>6 DEF ReferenceCall, ChOther

\* What the Challenge controller, its caches and the author do but for calls.
Apart ==
    \/ ChStart \/ ChApiError \/ DeleteChallenge
    \/ \E s \in Specs : EditChallenge(s)
    \/ DeliverChallenge \/ DeliverNamespace \/ CollectNamespace

LEMMA ApartAround ==
    ASSUME Alone, Apart
    PROVE  Around
BY DEF Apart, Around, Alone, Others, ChStart, ChSkip, ChBegin, ChBeginDelete,
   ChApiError, DeleteChallenge, EditChallenge, DeliverChallenge,
   DeliverNamespace, CollectNamespace, clusterVars, quiet

LEMMA AroundImplements ==
    ASSUME RInv, Around
    PROVE  [DS!OpenNext]_(DS!vars)
<1>0. /\ UNCHANGED <<now, faults, acts, sourceC, copy, copyC, dsWorker>>
      /\ acts' \in {acts, acts + 1}
  BY DEF Around
<1>. USE DEF DS!vars, DS!bounds, DS!store, DS!caches, DS!worker, dsWorker
<1>1. CASE UNCHANGED <<ns, source>>
  BY <1>0, <1>1
<1>2. CASE UNCHANGED ns /\ Annotate
  <2>1. CASE source' = source
    BY <1>0, <1>2, <2>1
  <2>2. CASE source' # source
    <3>1. Referred \in DataKinds /\ NewNames \in DS!NameLists
      BY <1>2, AnnotateEffect, Lists DEF NewNames
    <3>2. DS!Rename(Referred, NewNames)
      BY <1>0, <1>2, <2>2, AnnotateEffect DEF DS!Rename
    <3>3. DS!Neighbour
      BY <3>1, <3>2 DEF DS!Neighbour
    <3>. QED
      BY <1>0, <3>3 DEF DS!OpenNext
  <2>. QED
    BY <2>1, <2>2
<1>3. CASE UNCHANGED source /\ ns = "absent" /\ ns' = "active"
  <2>1. DS!MakeSpace(ChallengeName)
    BY <1>0, <1>3 DEF DS!MakeSpace
  <2>2. DS!Neighbour
    BY <2>1 DEF DS!Neighbour
  <2>. QED
    BY <1>0, <2>2 DEF DS!OpenNext
<1>4. CASE UNCHANGED source /\ ns # "absent" /\ ns' = "terminating"
  <2>1. ns \in {"active", "terminating", "absent"}
    BY SyncTypes DEF RInv
  <2>2. CASE ns = "terminating"
    BY <1>0, <1>4, <2>2
  <2>3. CASE ns = "active"
    <3>1. DS!DeleteSpace(ChallengeName)
      BY <1>0, <1>4, <2>3 DEF DS!DeleteSpace
    <3>2. DS!Neighbour
      BY <3>1 DEF DS!Neighbour
    <3>. QED
      BY <1>0, <3>2 DEF DS!OpenNext
  <2>. QED
    BY <1>4, <2>1, <2>2, <2>3
<1>. QED
  BY <1>1, <1>2, <1>3, <1>4 DEF Around

\* What the DataSyncer controller does, or is done to it, without the
\* Challenge controller.
Sync ==
    /\ UNCHANGED <<quiet, chalVars, known>>
    /\ DS!Step \/ DS!ApiError \/ (DS!Act /\ DS!SourceAct)

LEMMA SyncSide ==
    ASSUME \/ SyncStep
           \/ SyncRuns(\E k \in DataKinds : DS!Deliver(k))
           \/ NamespaceGone
           \/ SyncRuns(DS!Tick \/ \E c \in DS!Copies : DS!EmptySpace(c))
    PROVE  Sync
<1>1. CASE NamespaceGone
  BY <1>1 DEF NamespaceGone, DropNamespace, Sync, DS!Step, quiet
<1>2. CASE SyncStep
  BY <1>2 DEF SyncStep, SyncRuns, Sync, DS!Step, DS!Names
<1>3. CASE \/ SyncRuns(\E k \in DataKinds : DS!Deliver(k))
           \/ SyncRuns(DS!Tick \/ \E c \in DS!Copies : DS!EmptySpace(c))
  BY <1>3 DEF SyncRuns, Sync, DS!Step
<1>. QED
  BY <1>1, <1>2, <1>3

\* Every step is one of four kinds.
LEMMA StepKinds ==
    ASSUME Next
    PROVE  \/ ReferenceCall
           \/ Alone /\ Apart
           \/ DeliverToWebhook
           \/ Sync
           \/ ManagerRestart
<1>1. CASE ChallengeStep
  BY <1>1 DEF ChallengeStep, Apart
<1>2. CASE SyncStep
  BY <1>2, SyncSide
<1>3. CASE Informers
  BY <1>3, SyncSide DEF Informers, Apart
<1>4. CASE Surroundings
  BY <1>4, SyncSide DEF Surroundings, Apart
<1>. QED
  BY <1>1, <1>2, <1>3, <1>4 DEF Next

LEMMA StepImplements == RInv /\ [Next]_vars => [DS!OpenNext]_(DS!vars)
<1>. SUFFICES ASSUME RInv, [Next]_vars
              PROVE  [DS!OpenNext]_(DS!vars)
  OBVIOUS
<1>1. CASE ReferenceCall
  BY <1>1, CallAround, AroundImplements
<1>2. CASE Alone /\ Apart
  BY <1>2, ApartAround, AroundImplements
<1>3. CASE Sync
  BY <1>3 DEF Sync, DS!Act, DS!OpenNext, DS!Neighbour
<1>4. CASE ManagerRestart
  BY <1>4 DEF ManagerRestart, DS!OpenNext
<1>5. CASE DeliverToWebhook \/ UNCHANGED vars
  BY <1>5 DEF DeliverToWebhook, vars, clusterVars, dsWorker, DS!vars, DS!bounds,
     DS!store, DS!caches, DS!worker
<1>. QED
  BY <1>1, <1>2, <1>3, <1>4, <1>5, StepKinds

\* So the invariant of the DataSyncer controller holds here as well.
LEMMA SyncKept ==
    ASSUME RInv, [Next]_vars
    PROVE  DSP!IInv'
<1>1. (DS!vars)' = (DSP!vars)'
  BY DEF DS!vars, DSP!vars, DS!bounds, DSP!bounds, DS!store, DSP!store,
         DS!caches, DSP!caches, DS!worker, DSP!worker
<1>2. [DSP!OpenNext]_(DSP!vars)
  BY <1>1, StepImplements, SameNext, SameVars
<1>. QED
  BY <1>2, SyncInv DEF RInv

-----------------------------------------------------------------------------
(* What the steps of the Challenge controller keep *)

Reads == Risen /\ InHand /\ chC' \in {chC, chal}

\* The finalizer for the references may go.
Forgotten == \A k \in chal.refs \cap DataKinds : ~NamesChallenge(k)

LEMMA ObjectType ==
    ASSUME ChalInv
    PROVE  /\ chal \in Version /\ chObj \in Version
           /\ chObj.fins \in SUBSET {"instances", "namespace", "data"}
           /\ chObj.exposed \in Names
BY DEF ChalInv, Version, Challenge

LEMMA FinalizerAdded ==
    ASSUME RInv, AddDataFinalizer
    PROVE  ChalInv' /\ Reads /\ KeepsData /\ AllBeforeIt
<1>. DEFINE new == [chObj EXCEPT !.fins = @ \cup {"data"}]
<1>0. ChalInv /\ ReadInv
  BY DEF RInv
<1>1. /\ new.fins = chObj.fins \cup {"data"}
      /\ new.exposed = chObj.exposed
  BY <1>0, ObjectType DEF Version, Challenge
<1>2. /\ UpdateChallenge(new) /\ CompareHash(chal') /\ OnlyChallenge
      /\ UNCHANGED chC /\ chPc # "idle"
  BY DEF AddDataFinalizer, OnlyChallenge
<1>. HIDE DEF new
<1>3. chal' \in Version /\ chal'.st # "absent"
  BY <1>0, <1>1, <1>2, ObjectType, UpdateType
<1>4. \/ ChIdle
      \/ /\ chObj' = chal' /\ chPc' \in {"hash", "purge deployment"}
         /\ chPc' = "purge deployment" => todo' # << >>
  BY <1>2, <1>3, HashStage
<1>5. Risen /\ KeepsData
  BY <1>0, <1>1, <1>2, ObjectType, UpdateKeeps
<1>6. ChalInv'
  BY <1>0, <1>2, <1>3, <1>4, IdleStage, OnlyChallengeStill, StageInv DEF ChSteps
<1>7. InHand /\ AllBeforeIt
  BY <1>2, <1>4, IdleStage DEF InHand, Handed, AllBeforeIt
<1>. QED
  BY <1>2, <1>5, <1>6, <1>7 DEF Reads

LEMMA FinalizerRemoved ==
    ASSUME RInv, RemoveDataFinalizer
    PROVE  ChalInv' /\ Reads /\ Forgotten /\ AllBeforeIt
<1>. DEFINE new == [chObj EXCEPT !.fins = @ \ {"data"}]
<1>0. ChalInv /\ ReadInv /\ ForgetInv
  BY DEF RInv
<1>1. /\ new.fins = chObj.fins \ {"data"}
      /\ new.exposed = chObj.exposed
  BY <1>0, ObjectType DEF Version, Challenge
<1>2. /\ UpdateChallenge(new) /\ OnlyChallenge
      /\ UNCHANGED chC /\ chPc = "unrefer"
  BY DEF RemoveDataFinalizer, OnlyChallenge
<1>. HIDE DEF new
<1>3. chal' \in Version /\ (chal'.fins # {} => chal'.st # "absent")
  BY <1>0, <1>1, <1>2, ObjectType, UpdateType
<1>4. ChIdle \/ (chal'.fins # {} /\ chObj' = chal' /\ chPc' = "raze")
  BY DEF RemoveDataFinalizer, ChGoto
<1>5. Risen /\ chObj.refs = chal.refs
  BY <1>0, <1>1, <1>2, ObjectType, UpdateKeeps
<1>6. ChalInv'
  BY <1>0, <1>2, <1>3, <1>4, IdleStage, OnlyChallengeStill, StageInv DEF ChSteps
<1>7. InHand /\ AllBeforeIt
  BY <1>2, <1>4, IdleStage DEF InHand, Handed, AllBeforeIt
<1>8. Forgotten
  BY <1>0, <1>2, <1>5 DEF ForgetInv, Forgotten
<1>. QED
  BY <1>2, <1>5, <1>6, <1>7, <1>8 DEF Reads

\* A round of a loop, whether it writes or not.
LEMMA RoundKeeps ==
    ASSUME RInv, Annotate \/ PassOver
    PROVE  ChalInv' /\ Reads /\ KeepsData
<1>0. ChalInv /\ Annotating /\ RefOn /\ OnlyChallenge /\ UNCHANGED chal
  BY DEF RInv, Annotate, PassOver
<1>1. /\ chObj' = chObj /\ chPc # "idle"
      /\ \/ todo' \in RefLists /\ chPc' = chPc
         \/ chPc' \in {"refer", "unrefer"}
  BY <1>0, Round DEF Annotating
<1>2. Still /\ chPc \in {"annotate", "unannotate"}
  BY <1>0, OnlyChallengeStill DEF Annotating
<1>3. ChalInv'
  BY <1>0, <1>1, <1>2, StageInv DEF ChalInv, ChSteps
<1>. QED
  BY <1>0, <1>1, <1>2, <1>3
     DEF Reads, Risen, InHand, Handed, KeepsData, Still

LEMMA RefusalKeeps ==
    ASSUME RInv, Outrun \/ Reject
    PROVE  ChalInv' /\ Reads /\ KeepsData /\ AllBeforeIt
<1>0. ChalInv /\ UNCHANGED <<chal, chC, nsC, edits, errors>>
  BY DEF RInv, Outrun, Reject
<1>1. Risen /\ KeepsData
  BY <1>0 DEF Risen, KeepsData
<1>2. CASE ChFail
  BY <1>0, <1>1, <1>2, IdleStage
     DEF ChFail, ChalInv, ChSteps, Reads, InHand, AllBeforeIt
<1>3. CASE NotExposed /\ UNCHANGED chQueued
  <2>1. /\ chPc = "expose" /\ chPc' = "status"
        /\ chObj' \in Version /\ chObj'.st # "absent" /\ Handed(chObj)
    BY <1>0, <1>3, NotExposedStage DEF Handed
  <2>2. ChalInv'
    BY <1>0, <1>3, <2>1 DEF ChalInv, ChSteps
  <2>. QED
    BY <1>0, <1>1, <2>1, <2>2 DEF Reads, InHand, AllBeforeIt
<1>. QED
  BY <1>2, <1>3 DEF Outrun, Reject

LEMMA CallKeeps ==
    ASSUME RInv, ReferenceCall
    PROVE  /\ ChalInv' /\ Reads
           /\ KeepsData \/ Forgotten
           /\ AllBeforeIt \/ Annotate \/ PassOver
<1>0. ChalInv /\ ReadInv /\ now \in Nat
  BY SyncTypes DEF RInv
<1>1. CASE ChUpdate
  BY <1>0, <1>1, ChUpdateInv, UpdateReads DEF Reads
<1>2. CASE ChOther
  BY <1>0, <1>2, ChOtherInv, OtherReads DEF Reads
<1>. QED
  BY <1>1, <1>2, FinalizerAdded, FinalizerRemoved, RoundKeeps, RefusalKeeps
     DEF ReferenceCall

LEMMA ApartKeeps ==
    ASSUME RInv, Apart
    PROVE  /\ ChalInv' /\ Reads /\ KeepsData
           /\ AllBeforeIt \/ UNCHANGED chWorker
<1>0. /\ ChalInv /\ now \in Nat /\ ns \in {"active", "terminating", "absent"}
      /\ chal \in Version
  BY SyncTypes DEF RInv, ChalInv
<1>1. ChalInv'
  BY <1>0, ChStepInv DEF Apart, ChStep
<1>2. CASE ChStart
  BY <1>0, <1>1, <1>2, StartReads DEF Reads, Risen, KeepsData
<1>3. CASE ChApiError
  <2>1. /\ UNCHANGED <<chal, chC>>
        /\ ChIdle \/ NotExposed
    BY <1>3 DEF ChApiError, ChFail
  <2>2. CASE ChIdle
    BY <1>1, <2>1, <2>2, IdleStage
       DEF Reads, Risen, KeepsData, InHand, AllBeforeIt
  <2>3. CASE NotExposed
    <3>1. chPc = "expose" /\ chPc' = "status" /\ Handed(chObj)
      BY <1>0, <2>3, NotExposedStage DEF Handed
    <3>. QED
      BY <1>1, <2>1, <3>1 DEF Reads, Risen, KeepsData, InHand, AllBeforeIt
  <2>. QED
    BY <2>1, <2>2, <2>3
<1>4. ASSUME UNCHANGED chWorker
      PROVE  InHand
  BY <1>4 DEF InHand, Handed, chWorker
<1>5. CASE DeleteChallenge \/ \E s \in Specs : EditChallenge(s)
  <2>1. /\ chal'.rev = chal.rev + 1 /\ UNCHANGED <<chC, chWorker>>
        /\ "data" \in chal.fins => "data" \in chal'.fins
    BY <1>0, <1>5, DeleteStored, EditStored DEF DeleteChallenge, EditChallenge
  <2>. QED
    BY <1>1, <1>4, <2>1 DEF Reads, Risen, KeepsData
<1>6. CASE DeliverChallenge \/ DeliverNamespace \/ CollectNamespace
  <2>1. UNCHANGED <<chal, chWorker>> /\ chC' \in {chC, chal}
    BY <1>6 DEF DeliverChallenge, DeliverNamespace, CollectNamespace, chalVars
  <2>. QED
    BY <1>1, <1>4, <2>1 DEF Reads, Risen, KeepsData
<1>. QED
  BY <1>2, <1>3, <1>5, <1>6 DEF Apart

LEMMA RestartKeeps ==
    ASSUME RInv, ManagerRestart
    PROVE  ChalInv' /\ Reads /\ KeepsData /\ AllBeforeIt
<1>0. /\ ChalInv /\ ns \in {"active", "terminating", "absent"} /\ ChResume
  BY SyncTypes DEF RInv, ManagerRestart
<1>1. UNCHANGED chal /\ chC' = chal /\ chPc' = "idle"
  BY <1>0 DEF ChResume, ChIdle
<1>. QED
  BY <1>0, <1>1, ResumeInv DEF Reads, Risen, KeepsData, InHand, AllBeforeIt

LEMMA StillKeeps ==
    ASSUME RInv, UNCHANGED chalVars
    PROVE  ChalInv' /\ Reads /\ KeepsData /\ UNCHANGED chWorker
BY DEF RInv, chalVars, chWorker, ChalInv, Reads, Risen, InHand, Handed, KeepsData

LEMMA ChallengeKept ==
    ASSUME RInv, [Next]_vars
    PROVE  /\ ChalInv' /\ Reads
           /\ KeepsData \/ Forgotten
           /\ \/ AllBeforeIt \/ UNCHANGED chWorker
              \/ ReferenceCall /\ (Annotate \/ PassOver)
<1>1. CASE DeliverToWebhook \/ Sync \/ UNCHANGED vars
  BY <1>1, StillKeeps DEF DeliverToWebhook, Sync, vars
<1>. QED
  BY <1>1, StepKinds, CallKeeps, ApartKeeps, RestartKeeps

-----------------------------------------------------------------------------
(* What all steps keep of the annotations *)

LEMMA NamesKept ==
    ASSUME RInv, [Next]_vars
    PROVE  /\ NameInv'
           /\ \/ ReferenceCall /\ Annotate
              \/ \A k \in DataKinds : NamesChallenge(k)' => NamesChallenge(k)
<1>1. CASE UNCHANGED <<source, sourceC>>
  BY <1>1 DEF RInv, NameInv, NamesChallenge
<1>2. CASE ReferenceCall /\ Annotate
  <2>1. UNCHANGED sourceC /\ sourceC[Referred].st # "absent"
        /\ source[Referred].st # "absent"
    BY <1>2, CallAround, AnnotateEffect DEF Around
  <2>. QED
    BY <1>2, <2>1, AnnotateNames DEF RInv, NameInv, NewNames
<1>3. CASE Sync \/ ManagerRestart
  <2>1. DS!Step \/ DS!ApiError \/ DS!Restart \/ DS!SourceAct
    BY <1>3 DEF Sync, ManagerRestart
  <2>2. ASSUME NEW k \in DataKinds
        PROVE  /\ source'[k].names \in {source[k].names, << >>}
               /\ source'[k].st = "absent" \/ sourceC'[k].st = "absent" =>
                     source'[k].names = << >>
    <3>1. /\ \/ /\ source'[k].names = source[k].names
                /\ source'[k].st = "absent" => source[k].st = "absent"
             \/ source'[k].names = << >>
          /\ \/ sourceC'[k] = sourceC[k]
             \/ source'[k] = source[k] /\ sourceC'[k] = source[k]
      BY <2>1, SyncNames DEF RInv
    <3>. QED
      BY <3>1 DEF RInv, NameInv
  <2>3. \A k \in DataKinds : NamesChallenge(k)' => NamesChallenge(k)
    BY <2>2, Ranges DEF NamesChallenge
  <2>. QED
    BY <2>2, <2>3 DEF RInv, NameInv
<1>4. CASE ReferenceCall /\ ~Annotate
  BY <1>1, <1>4, CallAround DEF Around
<1>5. CASE DeliverToWebhook \/ UNCHANGED vars \/ Alone
  BY <1>1, <1>5 DEF DeliverToWebhook, vars, Alone, Others
<1>. QED
  BY <1>2, <1>3, <1>4, <1>5, StepKinds

\* A loop takes the Challenge out of one annotation after the other, and
\* nobody else puts it in.
LEMMA ForgetKept ==
    ASSUME RInv, [Next]_vars
    PROVE  ForgetInv'
<1>0. ChalInv /\ NameInv /\ ForgetInv /\ DataKinds \subseteq RefKinds
  BY DataKindsAssumption DEF RInv
<1>1. CASE ~(ReferenceCall /\ (Annotate \/ PassOver))
  <2>1. AllBeforeIt \/ UNCHANGED chWorker
    BY <1>1, ChallengeKept
  <2>2. \A k \in DataKinds : NamesChallenge(k)' => NamesChallenge(k)
    BY <1>1, NamesKept
  <2>3. CASE AllBeforeIt
    BY <1>0, <2>3 DEF AllBeforeIt, ForgetInv
  <2>4. CASE UNCHANGED chWorker
    BY <1>0, <2>2, <2>4 DEF chWorker, ForgetInv
  <2>. QED
    BY <2>1, <2>3, <2>4
<1>2. CASE ReferenceCall /\ (Annotate \/ PassOver)
  <2>. SUFFICES ASSUME chPc' \in {"unannotate", "unrefer"},
                       NEW k \in DataKinds, k \in chObj'.refs,
                       NamesChallenge(k)'
                PROVE  chPc' = "unannotate" /\ k \in Range(todo')
    BY DEF ForgetInv
  <2>1. /\ chObj' = chObj
        /\ Range(todo) = {Referred} \cup Range(todo')
        /\ \/ todo' \in RefLists /\ chPc' = chPc
           \/ /\ todo' = << >>
              /\ chPc' = IF chPc = "annotate" THEN "refer" ELSE "unrefer"
    BY <1>0, <1>2, Round DEF Annotate, PassOver
  <2>2. chPc = "unannotate"
    BY <1>2, <2>1 DEF Annotate, PassOver, Annotating
  <2>3. NamesChallenge(k) /\ k # Referred
    <3>1. CASE Annotate
      <4>1. source'[k].names = IF k = Referred THEN << >> ELSE source[k].names
        BY <2>2, <3>1, AnnotateNames DEF NewNames
      <4>. QED
        BY <4>1, Ranges DEF NamesChallenge
    <3>2. CASE PassOver
      <4>1. UNCHANGED source /\ (Referred \in DataKinds => sourceC[Referred].st = "absent")
        BY <3>2 DEF PassOver
      <4>2. NamesChallenge(k)
        BY <4>1 DEF NamesChallenge
      <4>3. source[k].names # << >>
        BY <4>2, Ranges DEF NamesChallenge
      <4>. QED
        BY <1>0, <4>1, <4>2, <4>3 DEF NameInv
    <3>. QED
      BY <1>2, <3>1, <3>2
  <2>4. k \in Range(todo')
    BY <1>0, <2>1, <2>2, <2>3 DEF ForgetInv
  <2>. QED
    BY <2>1, <2>2, <2>4, Ranges
<1>. QED
  BY <1>1, <1>2

LEMMA QuietKept ==
    ASSUME RInv, [Next]_vars
    PROVE  QuietInv' /\ known' \subseteq DataKinds
<1>1. UNCHANGED quiet
  BY StepKinds, CallAround, ApartAround
     DEF Around, DeliverToWebhook, Sync, ManagerRestart, vars, clusterVars, quiet
<1>2. known' \subseteq DataKinds
  BY StepKinds DEF RInv, ReferenceCall, Alone, Others, DeliverToWebhook, Sync,
     ManagerRestart, vars
<1>. QED
  BY <1>1, <1>2 DEF RInv, QuietInv, quiet

LEMMA RInvStep == RInv /\ [Next]_vars => RInv'
<1>. SUFFICES ASSUME RInv, [Next]_vars
              PROVE  RInv'
  OBVIOUS
<1>1. ChalInv' /\ Reads
  BY ChallengeKept
<1>2. ReadInv'
  BY <1>1, ReadKept DEF Reads, RInv
<1>. QED
  BY <1>1, <1>2, SyncKept, QuietKept, NamesKept, ForgetKept DEF RInv

LEMMA RInvInit == Init => RInv
<1>. SUFFICES ASSUME Init
              PROVE  RInv
  OBVIOUS
<1>1. DSP!IInv
  BY SameInit, DSP!InitInv, Assumptions DEF Init
<1>2. ChalInv
  BY ChInitInv DEF Init
<1>3. QuietInv /\ known \subseteq DataKinds
  BY DEF Init, ClusterInit, QuietInv
<1>4. NameInv
  BY DEF Init, NameInv, DS!Init
<1>5. chPc = "idle" /\ chC = NoChallenge /\ chal.rev = 1
  <2>1. PICK s \in Drafts :
          chal = [NoChallenge EXCEPT !.st = "live", !.rev = 1, !.gen = 1,
                    !.tpl = s.tpl, !.exposed = s.exposed, !.refs = s.refs]
    BY DEF Init, ChInit
  <2>2. chal.rev = 1
    BY <2>1 DEF NoChallenge
  <2>. QED
    BY <2>2 DEF Init, ChInit
<1>6. ReadInv /\ ForgetInv
  BY <1>5 DEF ReadInv, Alike, ForgetInv, NoChallenge
<1>. QED
  BY <1>1, <1>2, <1>3, <1>4, <1>6 DEF RInv

LEMMA RInvariant == Spec => []RInv
BY RInvInit, RInvStep, PTL DEF Spec

-----------------------------------------------------------------------------
(* Theorems *)

\* Every variable of the two controllers, the cluster and the webhook keeps its
\* type, and no loop over references runs off its list (reconcileReferences,
\* removeReferences).
THEOREM TypeCorrect == Spec => []TypeOK
<1>1. RInv => TypeOK
  <2>. SUFFICES ASSUME RInv
                PROVE  TypeOK
    OBVIOUS
  <2>1. DS!TypeOK /\ now \in Nat /\ faults \in Nat
        /\ ns \in {"active", "terminating", "absent"}
    BY SameType, SyncTypes DEF RInv, DSP!IInv
  <2>2. NoInstance(0) \in Instance /\ NoLoad(0, None) \in Workload
    BY ClusterAssumption DEF NoInstance, Instance, NoLoad, Workload
  <2>3. ClusterTypeOK
    BY <2>1, <2>2 DEF ClusterTypeOK, RInv, QuietInv
  <2>4. ChalInv /\ known \subseteq DataKinds
    BY DEF RInv
  <2>5. \A l \in RefLists : l # << >>
    BY DEF RefLists
  <2>. QED
    BY <2>1, <2>3, <2>4, <2>5 DEF TypeOK, ChalInv, Version, Annotating
<1>. QED
  BY <1>1, RInvariant, PTL

\* What the Challenge controller does to sources and to the namespace
\* (AnnotateResourceWithChallenges, RemoveChallengeFromResource and the calls on
\* the namespace), and what the users and the namespace controller do, is what
\* the specification of the DataSyncer controller allows for: an annotation it
\* writes changes nothing else, for the copy it writes back is the stored one.
THEOREM ImplementsHolds == Spec => Implements
<1>1. Init => DS!Init
  BY DEF Init
<1>2. RInv /\ [Next]_vars => [DS!OpenNext]_(DS!vars)
  BY StepImplements
<1>. QED
  BY <1>1, <1>2, RInvariant, PTL DEF Spec, Implements, DS!OpenSpec

\* The finalizer for the references leaves the Challenge (removeReferences)
\* only in a step before which no source it refers to names it any more, be
\* the caches late, calls refused, or the manager restarted in between.
THEOREM ForgottenFirstHolds == Spec => ForgottenFirst
<1>1. RInv /\ [Next]_vars =>
        [/\ "data" \in chal.fins
         /\ "data" \notin chal'.fins
         => \A k \in chal.refs \cap DataKinds : ~NamesChallenge(k)]_vars
  BY ChallengeKept DEF KeepsData, Forgotten
<1>. QED
  BY <1>1, RInvariant, PTL DEF Spec, ForgottenFirst

\* The two controllers run the DataSyncer controller as its own specification
\* has it, in the words of either instance of the module.
LEMMA Opened == Spec => DSP!OpenSpec
<1>1. Init => DSP!Init
  BY SameInit DEF Init
<1>2. RInv /\ [Next]_vars => [DSP!OpenNext]_(DSP!vars)
  <2>1. (DS!vars)' = (DSP!vars)'
    BY DEF DS!vars, DSP!vars, DS!bounds, DSP!bounds, DS!store, DSP!store,
           DS!caches, DSP!caches, DS!worker, DSP!worker
  <2>. QED
    BY <2>1, StepImplements, SameNext, SameVars
<1>. QED
  BY <1>1, <1>2, RInvariant, PTL DEF Spec, DSP!OpenSpec

\* So a source that the DataSyncer controller holds in its last version is the
\* stored one here too, although the Challenge controller writes to it.
THEOREM SourceInvariantHolds == Spec => []DS!SourceInv
<1>1. DSP!OpenSpec => []DSP!SourceInv
  BY DSP!SourceInvariant, Assumptions
<1>. QED
  BY <1>1, SameSourceInv, Opened, PTL

\* And a visit of the DataSyncer controller (reconcileSourceObject,
\* reconcileCopyObject) never undoes what the Challenge controller wrote into
\* an annotation meanwhile.
THEOREM KeepsSourceHolds == Spec => DS!KeepsSource
<1>1. DSP!OpenSpec => DSP!KeepsSource
  BY DSP!KeepsSourceHolds, Assumptions
<1>2. [dsPc # "idle" /\ dsPc' # dsPc =>
          \A k \in DataKinds :
             \/ source'[k].st = "absent"
             \/ /\ source'[k].names = source[k].names
                /\ DSP!DataOf(source'[k]) = DSP!DataOf(source[k])]_(DSP!vars)
      => [dsPc # "idle" /\ dsPc' # dsPc =>
          \A k \in DataKinds :
             \/ source'[k].st = "absent"
             \/ /\ source'[k].names = source[k].names
                /\ DS!DataOf(source'[k]) = DS!DataOf(source[k])]_(DS!vars)
  BY SameVars DEF DS!DataOf, DSP!DataOf
<1>. QED
  BY <1>1, <1>2, Opened, PTL DEF DS!KeepsSource, DSP!KeepsSource
=============================================================================

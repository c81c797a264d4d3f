-------------------------- MODULE DataSyncer_proofs --------------------------
(***************************************************************************)
(* Proofs about the DataSyncer controller, for any Challenges, kinds,      *)
(* data, clock and faults, and whatever users and Challenges do around it  *)
(* (OpenSpec).                                                             *)
(***************************************************************************)
EXTENDS DataSyncer, FiniteSetTheorems, SequenceTheorems, TLAPS

-----------------------------------------------------------------------------
(* Objects and lists *)

\* An order of a set of Challenges is a sequence of Challenges.
LEMMA OrderType ==
    ASSUME NEW S \in SUBSET Namespaces, NEW names \in SetToSeqs(S)
    PROVE  names \in Seq(Namespaces)
<1>1. IsFiniteSet(S)
  BY DataAssumption, FS_Subset
<1>2. Cardinality(S) \in Nat
  BY <1>1, FS_CardinalityType
<1>. QED
  BY <1>2 DEF SetToSeqs

LEMMA NoSourceType ==
    ASSUME NEW rev \in Nat
    PROVE  NoSource(rev) \in Source
BY DEF NoSource, Source

LEMMA NoCopyType ==
    ASSUME NEW rev \in Nat
    PROVE  NoCopy(rev) \in Copy
BY DEF NoCopy, Copy

LEMMA StoredSourceType ==
    ASSUME NEW old \in Source, NEW new \in Source
    PROVE  Stored(old, new) \in Source
BY DEF Stored, Source

LEMMA StoredCopyType ==
    ASSUME NEW old \in Copy, NEW new \in Copy
    PROVE  Stored(old, new) \in Copy
BY DEF Stored, Copy

LEMMA DeleteCopyType ==
    ASSUME TypeOK, NEW c \in Copies, DeleteCopy(c)
    PROVE  copy' \in [Copies -> Copy]
<1>1. copy[c] \in Copy /\ copy[c].rev + 1 \in Nat
  BY DEF TypeOK, Copy
<1>2. NoCopy(copy[c].rev + 1) \in Copy
  BY <1>1, NoCopyType
<1>3. Deleted(copy[c], NoCopy(copy[c].rev + 1)) \in Copy
  BY <1>1, <1>2 DEF Deleted, Copy
<1>. QED
  BY <1>3 DEF TypeOK, DeleteCopy

LEMMA ReleaseCopyType ==
    ASSUME TypeOK, NEW c, ReleaseCopy(c)
    PROVE  copy' \in [Copies -> Copy]
<1>1. CASE c \in Copies
  <2>1. copy[c] \in Copy /\ copy[c].rev + 1 \in Nat
    BY <1>1 DEF TypeOK, Copy
  <2>2. NoCopy(copy[c].rev + 1) \in Copy
    BY <2>1, NoCopyType
  <2>3. [copy[c] EXCEPT !.fin = FALSE] \in Copy
    BY <2>1 DEF Copy
  <2>4. Stored(copy[c], [copy[c] EXCEPT !.fin = FALSE]) \in Copy
    BY <2>1, <2>3, StoredCopyType
  <2>. QED
    BY <2>2, <2>4 DEF TypeOK, ReleaseCopy
<1>2. CASE c \notin Copies
  BY <1>2 DEF TypeOK, ReleaseCopy
<1>. QED
  BY <1>1, <1>2

LEMMA UpdateSourceType ==
    ASSUME TypeOK, dsPc # "idle", NEW new \in Source, UpdateSource(new)
    PROVE  source' \in [Kinds -> Source]
<1>1. job.kind \in Kinds /\ source[job.kind] \in Source
  BY DEF TypeOK
<1>2. Stored(source[job.kind], new) \in Source
  BY <1>1, StoredSourceType
<1>. QED
  BY <1>2 DEF TypeOK, UpdateSource

\* The parts of a job, and the job of an idle worker.
Job == [kind : Kinds \cup {None}, place : Names \cup {None},
        src : Source, cp : Copy, todo : Seq(Namespaces)]

LEMMA NoJobType == NoJob \in Job
BY NoSourceType, NoCopyType DEF NoJob, Job

LEMMA LongList ==
    ASSUME NEW s \in Seq(Namespaces), Len(s) > 0
    PROVE  s # << >>
OBVIOUS

LEMMA TailType ==
    ASSUME NEW s \in Seq(Namespaces), Len(s) > 1
    PROVE  Tail(s) \in Seq(Namespaces) /\ Tail(s) # << >>
<1>1. s # << >>
  OBVIOUS
<1>2. Tail(s) \in Seq(Namespaces) /\ Len(Tail(s)) = Len(s) - 1
  BY <1>1, HeadTailProperties
<1>3. Len(Tail(s)) > 0
  BY <1>2, LenProperties
<1>. QED
  BY <1>2, <1>3, LongList

\* What a loop of a visit leaves for its next round, or for what follows it.
LEMMA OnwardType ==
    ASSUME TypeOK, dsPc # "idle", job.todo # << >>,
           NEW src \in Source,
           NEW step \in {"reap", "prune", "sync"},
           NEW after \in {"idle", "sync", "unseal"},
           after = "sync" => src.names # << >>,
           Onward(src, step, after)
    PROVE  /\ job' \in Job
           /\ dsPc' \in Steps
           /\ dsPc' # "idle" => job'.kind # None /\ job'.place # None
           /\ dsPc' \in {"reap", "prune", "sync", "overwrite", "seal"}
                => job'.todo # << >>
           /\ dsPc' # "idle" => job'.kind = job.kind /\ job'.place = job.place
           /\ dsPc' # "idle" => job'.src = IF Len(job.todo) > 1 THEN src ELSE job.src
<1>1. job \in Job /\ job.kind # None /\ job.place # None
  BY DEF TypeOK, Job
<1>2. CASE Len(job.todo) > 1
  <2>1. Tail(job.todo) \in Seq(Namespaces) /\ Tail(job.todo) # << >>
    BY <1>1, <1>2, TailType DEF Job
  <2>. QED
    BY <1>1, <1>2, <2>1 DEF Onward, Job, Steps
<1>3. CASE ~(Len(job.todo) > 1)
  <2>1. CASE after = "idle"
    BY <1>3, <2>1, NoJobType DEF Onward, Idle, Steps
  <2>2. CASE after = "sync"
    <3>1. src.names \in Seq(Namespaces)
      BY DEF Source
    <3>. QED
      BY <1>1, <1>3, <2>2, <3>1 DEF Onward, Job, Steps
  <2>3. CASE after = "unseal"
    <3>1. << >> \in Seq(Namespaces)
      OBVIOUS
    <3>2. dsPc' = "unseal" /\ job' = [job EXCEPT !.todo = << >>]
      BY <1>3, <2>3 DEF Onward
    <3>. QED
      BY <1>1, <1>3, <3>1, <3>2 DEF Job, Steps
  <2>. QED
    BY <2>1, <2>2, <2>3
<1>. QED
  BY <1>2, <1>3

-----------------------------------------------------------------------------
(* The inductive invariant *)

IInv == TypeOK /\ SourceInv

\* The states the two parts of the invariant look at.
Looping == {"reap", "prune", "sync", "overwrite", "seal"}

LEMMA InitInv == Init => IInv
<1>. SUFFICES ASSUME Init
              PROVE  IInv
  OBVIOUS
<1>1. source \in [Kinds -> Source]
  <2>1. PICK p \in Payloads, names \in NameLists, there \in SUBSET Kinds :
           source = [k \in Kinds |->
                      IF k \in there
                      THEN [NoSource(1) EXCEPT !.st = "live", !.names = names,
                              !.text = p.text,
                              !.bytes = IF k = "secret" THEN {} ELSE p.bytes]
                      ELSE NoSource(0)]
    BY DEF Init
  <2>2. names \in Seq(Namespaces)
    BY OrderType DEF NameLists
  <2>3. p.text \in SUBSET Entries /\ p.bytes \in SUBSET Entries
    BY DataAssumption
  <2>4. NoSource(0) \in Source /\ NoSource(1) \in Source
    BY NoSourceType
  <2>. QED
    BY <2>1, <2>2, <2>3, <2>4 DEF Source
<1>2. copy \in [Copies -> Copy]
  BY NoCopyType DEF Init
<1>3. job \in Job /\ dsPc = "idle"
  BY NoJobType DEF Init
<1>4. \A k \in Kinds : Older(sourceC[k], source[k])
  <2>1. \A k \in Kinds : source[k].rev \in Nat
    BY <1>1 DEF Source
  <2>2. sourceC = source
    BY DEF Init
  <2>. QED
    BY <2>1, <2>2 DEF Older
<1>5. dsQueue \subseteq Names
  <2>1. dsQueue = {Home} \/ dsQueue = {}
    BY DEF Init
  <2>. QED
    BY <2>1 DEF Names
<1>6. TypeOK
  BY <1>1, <1>2, <1>3, <1>5 DEF Init, TypeOK, Job, Steps
<1>7. SourceInv
  BY <1>3, <1>4 DEF SourceInv
<1>. QED
  BY <1>6, <1>7 DEF IInv

-----------------------------------------------------------------------------
(* Users, Challenges and namespaces *)

\* A change of one source that makes a new version of it.
LEMMA NewVersion ==
    ASSUME IInv, NEW k \in Kinds, NEW new \in Source,
           new.rev = source[k].rev + 1,
           source' = [source EXCEPT ![k] = new],
           UNCHANGED <<now, faults, space, copy, caches, worker>>,
           acts' \in Nat
    PROVE  IInv'
<1>1. source' \in [Kinds -> Source]
  BY DEF IInv, TypeOK
<1>2. TypeOK'
  BY <1>1 DEF IInv, TypeOK, caches, worker
<1>3. \A l \in Kinds : source[l].rev \in Nat /\ sourceC[l].rev \in Nat
  BY DEF IInv, TypeOK, Source
<1>4. ASSUME NEW o \in Source, NEW l \in Kinds, Older(o, source[l])
      PROVE  Older(o, source'[l])
  <2>1. CASE l = k
    <3>1. source'[l] = new /\ o.rev \in Nat
      BY <2>1 DEF IInv, TypeOK, Source
    <3>. QED
      BY <1>3, <1>4, <2>1, <3>1 DEF Older
  <2>2. CASE l # k
    BY <1>4, <2>2 DEF IInv, TypeOK
  <2>. QED
    BY <2>1, <2>2
<1>5. \A l \in Kinds : Older(sourceC[l], source'[l])
  BY <1>4 DEF IInv, TypeOK, SourceInv
<1>6. dsPc # "idle" => Older(job.src, source'[job.kind])
  BY <1>4 DEF IInv, TypeOK, SourceInv
<1>. QED
  BY <1>2, <1>5, <1>6 DEF IInv, SourceInv, caches, worker

LEMMA DeletedSourceType ==
    ASSUME NEW o \in Source, o.st = "live"
    PROVE  /\ Deleted(o, NoSource(o.rev + 1)) \in Source
           /\ Deleted(o, NoSource(o.rev + 1)).rev = o.rev + 1
<1>1. o.rev + 1 \in Nat
  BY DEF Source
<1>2. NoSource(o.rev + 1) \in Source /\ NoSource(o.rev + 1).rev = o.rev + 1
  BY <1>1, NoSourceType DEF NoSource
<1>. QED
  BY <1>1, <1>2 DEF Deleted, Source

LEMMA NeighbourInv ==
    ASSUME IInv, Neighbour, acts' \in {acts, acts + 1}
    PROVE  IInv'
<1>0. acts' \in Nat
  BY DEF IInv, TypeOK
<1>1. ASSUME NEW k \in Kinds, DropSource(k)
      PROVE  IInv'
  <2>1. source[k] \in Source
    BY DEF IInv, TypeOK
  <2>. QED
    BY <1>0, <1>1, <2>1, DeletedSourceType, NewVersion DEF DropSource
<1>2. ASSUME NEW k \in Kinds, NEW p \in Payloads, PutSource(k, p)
      PROVE  IInv'
  <2>1. source[k] \in Source /\ source[k].rev + 1 \in Nat
    BY DEF IInv, TypeOK, Source
  <2>2. p.text \in SUBSET Entries /\ p.bytes \in SUBSET Entries
    BY DataAssumption
  <2>. DEFINE new == [source[k] EXCEPT !.text = p.text, !.bytes = p.bytes,
                        !.rev = @ + 1, !.st = IF @ = "absent" THEN "live" ELSE @]
  <2>3. new \in Source /\ new.rev = source[k].rev + 1
    BY <2>1, <2>2 DEF Source
  <2>4. source' = [source EXCEPT ![k] = new]
    BY <1>2, <2>1 DEF PutSource, IInv, TypeOK
  <2>. QED
    BY <1>0, <1>2, <2>3, <2>4, NewVersion DEF PutSource
<1>3. ASSUME NEW k \in Kinds, NEW names \in NameLists, Rename(k, names)
      PROVE  IInv'
  <2>1. source[k] \in Source /\ source[k].rev + 1 \in Nat
    BY DEF IInv, TypeOK, Source
  <2>2. names \in Seq(Namespaces)
    BY OrderType DEF NameLists
  <2>. DEFINE new == [source[k] EXCEPT !.names = names, !.rev = @ + 1]
  <2>3. new \in Source /\ new.rev = source[k].rev + 1
    BY <2>1, <2>2 DEF Source
  <2>4. source' = [source EXCEPT ![k] = new]
    BY <1>3, <2>1 DEF Rename, IInv, TypeOK
  <2>. QED
    BY <1>0, <1>3, <2>3, <2>4, NewVersion DEF Rename
<1>4. ASSUME CopyAct
      PROVE  IInv'
  <2>1. copy' \in [Copies -> Copy]
    <3>1. ASSUME NEW c \in Copies, DropCopy(c)
          PROVE  copy' \in [Copies -> Copy]
      BY <3>1, DeleteCopyType DEF DropCopy, IInv
    <3>2. ASSUME NEW c \in Copies, NEW t \in SUBSET Entries, TamperCopy(c, t)
          PROVE  copy' \in [Copies -> Copy]
      <4>1. copy[c] \in Copy /\ copy[c].rev + 1 \in Nat
        BY DEF IInv, TypeOK, Copy
      <4>2. [copy[c] EXCEPT !.text = t, !.rev = @ + 1] \in Copy
        BY <4>1 DEF Copy
      <4>3. copy' = [copy EXCEPT ![c] = [copy[c] EXCEPT !.text = t, !.rev = @ + 1]]
        BY <3>2, <4>1 DEF TamperCopy, IInv, TypeOK
      <4>. QED
        BY <4>2, <4>3 DEF IInv, TypeOK
    <3>. QED
      BY <1>4, <3>1, <3>2 DEF CopyAct
  <2>2. UNCHANGED <<now, faults, space, source, caches, worker>>
    BY <1>4 DEF CopyAct, DropCopy, TamperCopy
  <2>. QED
    BY <1>0, <2>1, <2>2 DEF IInv, TypeOK, SourceInv, caches, worker
<1>5. ASSUME NEW n \in Namespaces, MakeSpace(n) \/ DeleteSpace(n)
      PROVE  IInv'
  BY <1>0, <1>5 DEF MakeSpace, DeleteSpace, IInv, TypeOK, SourceInv, caches, worker
<1>. QED
  BY <1>1, <1>2, <1>3, <1>4, <1>5 DEF Neighbour, SourceAct
-----------------------------------------------------------------------------
(* Around the worker *)

LEMMA DeliverInv ==
    ASSUME IInv, NEW k \in Kinds, Deliver(k)
    PROVE  IInv'
<1>1. UNCHANGED <<bounds, store, dsPc, job>> /\ Refresh(k)
  BY DEF Deliver
<1>2. Noticed(k) \subseteq Names
  BY DEF Noticed, Names
<1>3. sourceC' \in [Kinds -> Source] /\ copyC' \in [Copies -> Copy]
  BY <1>1 DEF Refresh, IInv, TypeOK
<1>4. TypeOK'
  BY <1>1, <1>2, <1>3 DEF Deliver, IInv, TypeOK, bounds, store
<1>5. \A l \in Kinds : Older(sourceC'[l], source[l])
  <2>1. \A l \in Kinds : source[l].rev \in Nat
    BY DEF IInv, TypeOK, Source
  <2>. QED
    BY <1>1, <2>1 DEF Refresh, IInv, TypeOK, SourceInv, Older
<1>. QED
  BY <1>1, <1>4, <1>5 DEF IInv, SourceInv, store

LEMMA SpaceInv ==
    ASSUME IInv, NEW c \in Copies, EmptySpace(c)
    PROVE  IInv'
<1>1. copy' \in [Copies -> Copy]
  BY DeleteCopyType DEF IInv, EmptySpace
<1>. QED
  BY <1>1 DEF EmptySpace, IInv, TypeOK, SourceInv, bounds, caches, worker

LEMMA DropSpaceInv ==
    ASSUME IInv, NEW n \in Namespaces, DropSpace(n)
    PROVE  IInv'
BY DEF DropSpace, IInv, TypeOK, SourceInv, bounds, caches, worker

LEMMA TickInv ==
    ASSUME IInv, Tick
    PROVE  IInv'
BY DEF Tick, IInv, TypeOK, SourceInv, store, caches, worker

\* The visit is given up, or a fresh manager starts.
LEMMA IdleInv ==
    ASSUME IInv, Idle, dsQueue' \subseteq Names, UNCHANGED <<now, acts, store>>,
           faults' \in Nat,
           \/ UNCHANGED caches
           \/ sourceC' = source /\ copyC' = copy
    PROVE  IInv'
<1>1. job' \in Job /\ dsPc' = "idle"
  BY NoJobType DEF Idle
<1>2. sourceC' \in [Kinds -> Source] /\ copyC' \in [Copies -> Copy]
  BY DEF IInv, TypeOK, caches
<1>3. TypeOK'
  BY <1>1, <1>2 DEF IInv, TypeOK, store, Job, Steps
<1>4. \A k \in Kinds : Older(sourceC'[k], source[k])
  <2>1. \A k \in Kinds : source[k].rev \in Nat
    BY DEF IInv, TypeOK, Source
  <2>. QED
    BY <2>1 DEF IInv, SourceInv, Older, caches
<1>. QED
  BY <1>1, <1>3, <1>4 DEF IInv, SourceInv, store

LEMMA FailQueue ==
    ASSUME IInv, Fail, dsPc # "idle"
    PROVE  dsQueue' \subseteq Names
BY DEF Fail, IInv, TypeOK

LEMMA FailureInv ==
    ASSUME IInv, Retry \/ ApiError \/ Restart
    PROVE  IInv'
<1>1. CASE Retry
  <2>1. dsPc # "idle"
    BY <1>1 DEF Retry, Refused
  <2>. QED
    BY <1>1, <2>1, FailQueue, IdleInv DEF Retry, Fail, bounds, IInv, TypeOK
<1>2. CASE ApiError
  <2>1. faults' \in Nat
    BY <1>2 DEF ApiError, Fault, IInv, TypeOK
  <2>. QED
    BY <1>2, <2>1, FailQueue, IdleInv DEF ApiError, Fail
<1>3. CASE Restart
  <2>1. faults' \in Nat
    BY <1>3 DEF Restart, Fault, IInv, TypeOK
  <2>2. dsQueue' \subseteq Names
    BY <1>3 DEF Restart, Resume, Copies, Names
  <2>. QED
    BY <1>3, <2>1, <2>2, IdleInv DEF Restart, Resume
<1>. QED
  BY <1>1, <1>2, <1>3
-----------------------------------------------------------------------------
(* The start of a visit *)

LEMMA SkipInv ==
    ASSUME IInv, NEW p \in Names, Skip(p)
    PROVE  IInv'
BY DEF Skip, IInv, TypeOK, SourceInv, bounds, store, caches

LEMMA VisitSourceInv ==
    ASSUME IInv, VisitSource
    PROVE  IInv'
<1>1. PICK k \in Kinds :
         /\ Annotated(sourceC[k])
         /\ \E undesired \in SetToSeqs(Undesired(k)) :
               \E pc \in {"reap", "prune", "sync"} :
                  \E todo \in {undesired, sourceC[k].names} :
                     /\ todo # << >>
                     /\ dsPc' = pc
                     /\ job' = [NoJob EXCEPT !.kind = k, !.place = Home,
                                  !.src = sourceC[k], !.todo = todo]
  BY DEF VisitSource, Annotated
<1>2. UNCHANGED <<bounds, store, caches>> /\ dsQueue' \subseteq dsQueue
  BY DEF VisitSource
<1>3. sourceC[k] \in Source /\ sourceC[k].names \in Seq(Namespaces)
  BY DEF IInv, TypeOK, Source
<1>4. \A undesired \in SetToSeqs(Undesired(k)) : undesired \in Seq(Namespaces)
  BY OrderType DEF Undesired
<1>5. PICK todo \in Seq(Namespaces) :
         /\ todo # << >>
         /\ dsPc' \in {"reap", "prune", "sync"}
         /\ job' = [NoJob EXCEPT !.kind = k, !.place = Home,
                                 !.src = sourceC[k], !.todo = todo]
  BY <1>1, <1>3, <1>4
<1>6. /\ job' \in Job
      /\ job'.kind = k /\ job'.place = Home /\ job'.src = sourceC[k]
      /\ job'.todo # << >>
  BY <1>3, <1>5, NoJobType DEF NoJob, Job, Names
<1>7. job'.kind # None /\ job'.place # None
  BY <1>6, DataAssumption
<1>8. TypeOK'
  BY <1>1, <1>2, <1>5, <1>6, <1>7
     DEF IInv, TypeOK, Job, Steps, bounds, store, caches
<1>9. SourceInv'
  BY <1>1, <1>2, <1>6 DEF IInv, SourceInv, store, caches
<1>. QED
  BY <1>8, <1>9 DEF IInv

LEMMA VisitCopyInv ==
    ASSUME IInv, NEW p \in Names, VisitCopy(p)
    PROVE  IInv'
<1>1. PICK k \in Kinds :
         /\ job' = [NoJob EXCEPT !.kind = k, !.place = p, !.src = sourceC[k],
                                 !.cp = copyC[<<k, p>>]]
         /\ dsPc' \in {"detach", "discard", "trigger", "release", "revert"}
  BY DEF VisitCopy
<1>2. UNCHANGED <<bounds, store, caches>> /\ dsQueue' \subseteq dsQueue /\ p # Home
  BY DEF VisitCopy
<1>3. sourceC[k] \in Source /\ copyC[<<k, p>>] \in Copy
  BY <1>2 DEF IInv, TypeOK, Names, Copies
<1>4. /\ job' \in Job
      /\ job'.kind = k /\ job'.place = p /\ job'.src = sourceC[k]
  BY <1>1, <1>3, NoJobType DEF NoJob, Job
<1>5. job'.kind # None /\ job'.place # None
  BY <1>4, DataAssumption DEF Names
<1>6. TypeOK'
  BY <1>1, <1>2, <1>4, <1>5
     DEF IInv, TypeOK, Job, Steps, bounds, store, caches
<1>7. SourceInv'
  BY <1>1, <1>2, <1>4 DEF IInv, SourceInv, store, caches
<1>. QED
  BY <1>6, <1>7 DEF IInv

-----------------------------------------------------------------------------
(* The calls of a visit *)

\* A call that leaves the sources alone, ends the visit or goes on with the
\* source in hand.
LEMMA CallInv ==
    ASSUME IInv, Calls, dsPc # "idle", UNCHANGED source,
           copy' \in [Copies -> Copy], job' \in Job, dsPc' \in Steps,
           dsPc' # "idle" => job'.kind = job.kind /\ job'.place = job.place,
           dsPc' # "idle" => job'.src = job.src,
           dsPc' \in Looping => job'.todo # << >> /\ Annotated(job.src)
    PROVE  IInv'
<1>1. TypeOK'
  BY DEF IInv, TypeOK, Calls, bounds, caches, Job, Looping
<1>2. SourceInv'
  BY DEF IInv, SourceInv, Calls, caches, Looping
<1>. QED
  BY <1>1, <1>2 DEF IInv

LEMMA IdleCallInv ==
    ASSUME IInv, Calls, dsPc # "idle", UNCHANGED source,
           copy' \in [Copies -> Copy], Idle
    PROVE  IInv'
BY CallInv, NoJobType DEF Idle, Steps, Looping

\* One more round of a loop that leaves the sources alone.
LEMMA LoopInv ==
    ASSUME IInv, Calls, dsPc \in Looping, UNCHANGED source,
           copy' \in [Copies -> Copy],
           NEW step \in {"reap", "prune", "sync"},
           NEW after \in {"idle", "sync", "unseal"},
           Onward(job.src, step, after)
    PROVE  IInv'
<1>1. job.todo # << >> /\ Annotated(job.src) /\ dsPc # "idle"
  BY DEF IInv, TypeOK, SourceInv, Looping
<1>2. TypeOK /\ job.src \in Source
  BY DEF IInv, TypeOK
<1>3. /\ job' \in Job
      /\ dsPc' \in Steps
      /\ dsPc' \in Looping => job'.todo # << >>
      /\ dsPc' # "idle" => job'.kind = job.kind /\ job'.place = job.place
      /\ dsPc' # "idle" => job'.src = job.src
  BY <1>1, <1>2, OnwardType DEF Looping, Annotated
<1>. QED
  BY <1>1, <1>3, CallInv

LEMMA TargetType ==
    ASSUME IInv, dsPc \in Looping
    PROVE  Target \in Copies
<1>1. job.kind \in Kinds /\ job.todo \in Seq(Namespaces) /\ job.todo # << >>
  BY DEF IInv, TypeOK, Looping
<1>2. Head(job.todo) \in Namespaces
  BY <1>1, HeadTailProperties
<1>. QED
  BY <1>1, <1>2 DEF Target, Copies
LEMMA DeleteTarget ==
    ASSUME IInv, dsPc \in Looping,
           DeleteCopy(Target) \/ UNCHANGED copy
    PROVE  copy' \in [Copies -> Copy]
BY TargetType, DeleteCopyType DEF IInv, TypeOK

LEMMA DeleteMine ==
    ASSUME IInv, DeleteCopy(Mine)
    PROVE  copy' \in [Copies -> Copy]
<1>1. CASE Mine \in Copies
  BY <1>1, DeleteCopyType DEF IInv
<1>2. CASE Mine \notin Copies
  BY <1>2 DEF DeleteCopy, IInv, TypeOK
<1>. QED
  BY <1>1, <1>2

LEMMA SyncedInv ==
    ASSUME IInv, Calls, dsPc \in {"sync", "overwrite"}, UNCHANGED source,
           copy' \in [Copies -> Copy], Synced
    PROVE  IInv'
<1>1. dsPc \in Looping /\ dsPc # "idle"
  BY DEF Looping
<1>2. CASE job.src.fin
  BY <1>1, <1>2, LoopInv DEF Synced
<1>3. CASE ~job.src.fin
  <2>1. dsPc' = "seal" /\ job' = job
    BY <1>3 DEF Synced
  <2>2. job \in Job /\ job.todo # << >> /\ Annotated(job.src)
    BY DEF IInv, TypeOK, SourceInv, Job
  <2>. QED
    BY <1>1, <2>1, <2>2, CallInv DEF Steps
<1>. QED
  BY <1>2, <1>3

\* An update of the source in hand.
LEMMA UpdateInv ==
    ASSUME IInv, dsPc # "idle", Calls, UNCHANGED copy,
           NEW new \in Source, new.rev = job.src.rev, UpdateSource(new),
           job' \in Job, dsPc' \in Steps,
           dsPc' # "idle" => job'.kind = job.kind /\ job'.place = job.place,
           dsPc' # "idle" => job'.src \in {job.src, source'[job.kind]},
           dsPc' \in Looping => job'.todo # << >> /\ Annotated(job'.src)
    PROVE  IInv'
<1>. DEFINE k == job.kind
<1>1. /\ k \in Kinds
      /\ source[k] \in Source
      /\ job.src \in Source
      /\ k # None
      /\ job.place # None
  BY DEF IInv, TypeOK
<1>2. source' \in [Kinds -> Source]
  BY UpdateSourceType DEF IInv
<1>3. /\ source' = [source EXCEPT ![k] = source'[k]]
      /\ source'[k] = Stored(source[k], new)
      /\ source[k].rev = job.src.rev
  BY <1>1 DEF UpdateSource, SourceCurrent, IInv, TypeOK
<1>4. \/ source'[k] = source[k]
      \/ source'[k].rev = source[k].rev + 1
  BY <1>3 DEF Stored, Source
<1>5. ASSUME NEW o \in Source, NEW l \in Kinds, Older(o, source[l])
      PROVE  Older(o, source'[l])
  <2>1. o.rev \in Nat /\ source[l].rev \in Nat
    BY DEF IInv, TypeOK, Source
  <2>2. CASE l # k \/ source'[k] = source[k]
    BY <1>2, <1>3, <1>5, <2>2 DEF IInv, TypeOK
  <2>3. CASE l = k /\ source'[k].rev = source[k].rev + 1
    BY <1>5, <2>1, <2>3 DEF Older
  <2>. QED
    BY <1>4, <2>2, <2>3
<1>6. TypeOK'
  BY <1>1, <1>2 DEF IInv, TypeOK, Calls, bounds, caches, Job, Looping
<1>7. \A l \in Kinds : Older(sourceC[l], source'[l])
  BY <1>5 DEF IInv, TypeOK, SourceInv
<1>8. dsPc' # "idle" => Older(job'.src, source'[job'.kind])
  <2>1. Older(job.src, source'[k])
    BY <1>1, <1>5 DEF IInv, SourceInv
  <2>2. Older(source'[k], source'[k])
    <3>1. source'[k].rev \in Nat
      BY <1>1, <1>2 DEF Source
    <3>. QED
      BY <3>1 DEF Older
  <2>. QED
    BY <2>1, <2>2
<1>. QED
  BY <1>6, <1>7, <1>8 DEF IInv, SourceInv, Calls, caches, Looping

LEMMA CallStep ==
    ASSUME IInv, Call
    PROVE  IInv'
<1>1. job \in Job /\ job.src \in Source /\ TypeOK
  BY DEF IInv, TypeOK, Job
<1>2. CASE Reap
  <2>1. dsPc \in Looping /\ copy' \in [Copies -> Copy]
    BY <1>2, DeleteTarget DEF Reap, Looping
  <2>. QED
    BY <1>2, <2>1, LoopInv DEF Reap
<1>3. CASE Unseal
  <2>1. dsPc # "idle" /\ job.kind \in Kinds
    BY <1>3 DEF Unseal, IInv, TypeOK
  <2>2. source[job.kind] \in Source /\ source[job.kind].rev + 1 \in Nat
    BY <2>1 DEF IInv, TypeOK, Source
  <2>. DEFINE gone == NoSource(source[job.kind].rev + 1)
  <2>3. gone \in Source /\ gone.rev = source[job.kind].rev + 1
    BY <2>2, NoSourceType DEF NoSource
  <2>4. source' = [source EXCEPT ![job.kind] = gone]
    BY <1>3 DEF Unseal
  <2>5. source' \in [Kinds -> Source]
    BY <2>3, <2>4 DEF IInv, TypeOK
  <2>6. \A l \in Kinds : Older(sourceC[l], source'[l])
    <3>1. \A l \in Kinds : sourceC[l].rev \in Nat /\ source[l].rev \in Nat
      BY DEF IInv, TypeOK, Source
    <3>. HIDE DEF gone
    <3>. QED
      BY <2>1, <2>3, <2>4, <3>1 DEF IInv, TypeOK, SourceInv, Older
  <2>7. job' \in Job /\ dsPc' = "idle"
    BY <1>3, NoJobType DEF Unseal, Idle
  <2>8. TypeOK'
    BY <1>3, <2>5, <2>7
       DEF Unseal, IInv, TypeOK, Calls, bounds, caches, Job, Steps
  <2>. QED
    BY <1>3, <2>6, <2>7, <2>8 DEF Unseal, IInv, SourceInv, Calls, caches
<1>4. CASE Prune
  <2>1. dsPc \in Looping /\ copy' \in [Copies -> Copy]
    BY <1>4, DeleteTarget DEF Prune, Looping
  <2>. QED
    BY <1>4, <2>1, LoopInv DEF Prune
<1>5. CASE CreateCopy
  <2>1. dsPc = "sync" /\ Target \in Copies
    BY <1>5, TargetType DEF CreateCopy, Looping
  <2>2. copy[Target].rev + 1 \in Nat /\ Sent(job.src) \in SUBSET Entries
    BY <1>1, <2>1 DEF TypeOK, Copy, Sent, Source
  <2>3. copy' \in [Copies -> Copy]
    BY <1>5, <2>1, <2>2 DEF CreateCopy, IInv, TypeOK, Copy
  <2>. QED
    BY <1>5, <2>1, <2>3, SyncedInv DEF CreateCopy
<1>6. CASE AlreadyExists
  <2>1. dsPc = "sync" /\ dsPc' = "overwrite" /\ UNCHANGED <<source, copy, job>>
    BY <1>6 DEF AlreadyExists
  <2>2. job.todo # << >> /\ Annotated(job.src)
    BY <2>1 DEF IInv, TypeOK, SourceInv
  <2>. QED
    BY <1>1, <1>6, <2>1, <2>2, CallInv DEF AlreadyExists, Steps, TypeOK
<1>7. CASE OverwriteCopy
  <2>1. dsPc = "overwrite" /\ Target \in Copies
    BY <1>7, TargetType DEF OverwriteCopy, Looping
  <2>2. [copy[Target] EXCEPT !.text = Sent(job.src), !.fin = TRUE] \in Copy
    <3>1. copy[Target] \in Copy
      BY <1>1, <2>1 DEF TypeOK
    <3>2. Sent(job.src) \in SUBSET Entries
      BY <1>1 DEF Sent, Source
    <3>. QED
      BY <3>1, <3>2 DEF Copy
  <2>3. copy' \in [Copies -> Copy]
    BY <1>7, <2>1, <2>2, StoredCopyType DEF OverwriteCopy, IInv, TypeOK
  <2>. QED
    BY <1>7, <2>1, <2>3, SyncedInv DEF OverwriteCopy
<1>8. CASE Seal
  <2>. DEFINE new == [job.src EXCEPT !.fin = TRUE]
              src == source'[job.kind]
  <2>1. /\ dsPc = "seal"
        /\ UpdateSource(new)
        /\ Onward(src, "sync", "idle")
        /\ UNCHANGED copy
        /\ Calls
    BY <1>8 DEF Seal
  <2>2. /\ job.kind \in Kinds
        /\ job.todo # << >>
        /\ Annotated(job.src)
    BY <2>1 DEF IInv, TypeOK, SourceInv
  <2>3. new \in Source /\ new.rev = job.src.rev /\ Annotated(new)
    BY <1>1, <2>2 DEF Source, Annotated
  <2>4. src \in Source
    BY <1>1, <2>1, <2>2, <2>3, UpdateSourceType
  <2>5. Annotated(src)
    <3>1. source[job.kind] \in Source /\ src = Stored(source[job.kind], new)
      BY <1>1, <2>1, <2>2 DEF UpdateSource, TypeOK
    <3>. QED
      BY <2>3, <3>1 DEF Stored, Annotated, Source
  <2>. HIDE DEF new, src
  <2>6. /\ job' \in Job
        /\ dsPc' \in Steps
        /\ dsPc' \in Looping => job'.todo # << >>
        /\ dsPc' # "idle" => job'.kind = job.kind /\ job'.place = job.place
        /\ dsPc' # "idle" => job'.src \in {job.src, src}
    BY <1>1, <2>1, <2>2, <2>4, OnwardType DEF Looping
  <2>7. dsPc' \in Looping => job'.todo # << >> /\ Annotated(job'.src)
    BY <2>2, <2>5, <2>6 DEF Looping
  <2>8. dsPc' # "idle" => job'.src \in {job.src, source'[job.kind]}
    BY <2>6 DEF src
  <2>. QED
    BY <2>1, <2>3, <2>6, <2>7, <2>8, UpdateInv
<1>9. CASE Detach
  <2>1. copy' \in [Copies -> Copy]
    BY <1>1, <1>9, ReleaseCopyType DEF Detach
  <2>. QED
    BY <1>1, <1>9, <2>1, CallInv DEF Detach, Steps, Looping
<1>10. CASE Discard
  <2>1. copy' \in [Copies -> Copy]
    BY <1>10, DeleteMine DEF Discard
  <2>. QED
    BY <1>10, <2>1, IdleCallInv DEF Discard
<1>11. CASE Trigger
  <2>. DEFINE new == [job.src EXCEPT !.trigger = now]
  <2>1. /\ dsPc = "trigger" /\ dsPc' = "release" /\ job' = job
        /\ UpdateSource(new) /\ UNCHANGED copy /\ Calls
    BY <1>11 DEF Trigger
  <2>2. new \in Source /\ new.rev = job.src.rev
    BY <1>1 DEF TypeOK, Source
  <2>. QED
    BY <1>1, <2>1, <2>2, UpdateInv DEF Steps, Looping
<1>12. CASE Release
  <2>1. copy' \in [Copies -> Copy]
    BY <1>1, <1>12, ReleaseCopyType DEF Release
  <2>. QED
    BY <1>12, <2>1, IdleCallInv DEF Release
<1>13. CASE Revert
  <2>1. copy' \in [Copies -> Copy]
    <3>1. DataOf(job.src) \in SUBSET Entries
      BY <1>1 DEF DataOf, Source
    <3>2. CASE Mine \in Copies
      <4>1. copy[Mine] \in Copy /\ copy[Mine].rev + 1 \in Nat
        BY <1>1, <3>2 DEF TypeOK, Copy
      <4>2. [copy[Mine] EXCEPT !.text = DataOf(job.src), !.rev = @ + 1] \in Copy
        BY <3>1, <4>1 DEF Copy
      <4>3. copy' = [copy EXCEPT ![Mine] =
                        [copy[Mine] EXCEPT !.text = DataOf(job.src), !.rev = @ + 1]]
        BY <1>1, <1>13, <3>2, <4>1 DEF Revert, TypeOK
      <4>. QED
        BY <1>1, <4>2, <4>3 DEF TypeOK
    <3>3. CASE Mine \notin Copies
      BY <1>1, <1>13, <3>3 DEF Revert, TypeOK
    <3>. QED
      BY <3>2, <3>3
  <2>. QED
    BY <1>13, <2>1, IdleCallInv DEF Revert
<1>14. CASE Retry
  BY <1>14, FailureInv
<1>. QED
  BY <1>2, <1>3, <1>4, <1>5, <1>6, <1>7, <1>8, <1>9, <1>10, <1>11, <1>12,
     <1>13, <1>14 DEF Call

LEMMA StutterInv ==
    ASSUME IInv, UNCHANGED vars
    PROVE  IInv'
BY DEF IInv, TypeOK, SourceInv, vars, bounds, store, caches, worker

LEMMA StepInv == IInv /\ [OpenNext]_vars => IInv'
<1>. SUFFICES ASSUME IInv, [OpenNext]_vars
              PROVE  IInv'
  OBVIOUS
<1>1. CASE Step
  <2>1. ASSUME NEW p \in Names, Start(p)
        PROVE  IInv'
    BY <2>1, SkipInv, VisitSourceInv, VisitCopyInv DEF Start
  <2>. QED
    BY <1>1, <2>1, DeliverInv, CallStep, SpaceInv, DropSpaceInv, TickInv DEF Step
<1>2. CASE ApiError \/ Restart
  BY <1>2, FailureInv
<1>3. CASE acts' \in {acts, acts + 1} /\ Neighbour
  BY <1>3, NeighbourInv
<1>4. CASE UNCHANGED vars
  BY <1>4, StutterInv
<1>. QED
  BY <1>1, <1>2, <1>3, <1>4 DEF OpenNext

-----------------------------------------------------------------------------
(* Theorems *)

\* What is checked with bounded acts is an instance of the specification with
\* neighbours that do as they please.
THEOREM Opens == Spec => OpenSpec
<1>1. [Next]_vars => [OpenNext]_vars
  BY DEF Next, OpenNext, Act
<1>. QED
  BY <1>1, PTL DEF Spec, OpenSpec

LEMMA Invariant == OpenSpec => []IInv
BY InitInv, StepInv, PTL DEF OpenSpec

\* The variables of the controller keep their types, and every loop over
\* Challenges has one left to go to (Reconcile and its loops).
THEOREM TypeCorrect == OpenSpec => []TypeOK
<1>1. IInv => TypeOK
  BY DEF IInv
<1>. QED
  BY <1>1, Invariant, PTL

\* A source held in its last version, by the cache or by a visit, is the
\* stored one.
THEOREM SourceInvariant == OpenSpec => []SourceInv
<1>1. IInv => SourceInv
  BY DEF IInv
<1>. QED
  BY <1>1, Invariant, PTL

\* The updates of a source by a visit (reconcileSourceObject, and the trigger
\* of reconcileCopyObject) change neither its data nor its annotation.
LEMMA KeepsSourceStep ==
    ASSUME IInv, [OpenNext]_vars, dsPc # "idle", dsPc' # dsPc, NEW k \in Kinds
    PROVE  \/ source'[k].st = "absent"
           \/ /\ source'[k].names = source[k].names
              /\ DataOf(source'[k]) = DataOf(source[k])
<1>. DEFINE Kept == source'[k].names = source[k].names
                    /\ DataOf(source'[k]) = DataOf(source[k])
<1>1. CASE UNCHANGED source
  BY <1>1
<1>2. CASE Unseal
  BY <1>2 DEF Unseal, NoSource, IInv, TypeOK
<1>3. ASSUME NEW new \in Source, UpdateSource(new),
             new.names = job.src.names, DataOf(new) = DataOf(job.src)
      PROVE  Kept
  <2>1. job.kind \in Kinds /\ job.src = source[job.kind]
    BY <1>3 DEF UpdateSource, SourceCurrent, IInv, TypeOK, SourceInv, Older
  <2>2. CASE k = job.kind
    <3>1. source'[k] = Stored(source[k], new) /\ source[k] \in Source
      BY <1>3, <2>1, <2>2 DEF UpdateSource, IInv, TypeOK
    <3>2. source'[k].names = new.names /\ DataOf(source'[k]) = DataOf(new)
      BY <3>1 DEF Stored, DataOf, Source
    <3>. QED
      BY <1>3, <2>1, <2>2, <3>2
  <2>3. CASE k # job.kind
    BY <1>3, <2>1, <2>3 DEF UpdateSource, IInv, TypeOK
  <2>. QED
    BY <2>2, <2>3
<1>4. job.src \in Source /\ now \in Nat
  BY DEF IInv, TypeOK
<1>5. CASE Seal
  <2>1. [job.src EXCEPT !.fin = TRUE] \in Source
    BY <1>4 DEF Source
  <2>. QED
    BY <1>3, <1>4, <1>5, <2>1 DEF Seal, Source, DataOf
<1>6. CASE Trigger
  <2>1. [job.src EXCEPT !.trigger = now] \in Source
    BY <1>4 DEF Source
  <2>. QED
    BY <1>3, <1>4, <1>6, <2>1 DEF Trigger, Source, DataOf
<1>7. \/ UNCHANGED source
      \/ Unseal
      \/ Seal
      \/ Trigger
  <2>1. ~Neighbour /\ ~UNCHANGED vars
    BY DEF Neighbour, SourceAct, CopyAct, DropSource, PutSource, Rename,
           DropCopy, TamperCopy, MakeSpace, DeleteSpace, vars, worker
  <2>2. CASE Call
    BY <2>2 DEF Call, Reap, Prune, CreateCopy, AlreadyExists, OverwriteCopy,
                Detach, Discard, Release, Revert, Retry, store
  <2>3. CASE Step /\ ~Call
    BY <2>3 DEF Step, Start, Skip, VisitCopy, VisitSource, Deliver, EmptySpace,
                DropSpace, Tick, store
  <2>4. CASE ApiError \/ Restart
    BY <2>4 DEF ApiError, Restart, store
  <2>. QED
    BY <2>1, <2>2, <2>3, <2>4 DEF OpenNext
<1>. QED
  BY <1>1, <1>2, <1>5, <1>6, <1>7

THEOREM KeepsSourceHolds == OpenSpec => KeepsSource
<1>1. IInv /\ [OpenNext]_vars =>
        [dsPc # "idle" /\ dsPc' # dsPc =>
          \A k \in Kinds :
             \/ source'[k].st = "absent"
             \/ /\ source'[k].names = source[k].names
                /\ DataOf(source'[k]) = DataOf(source[k])]_vars
  BY KeepsSourceStep
<1>. QED
  BY <1>1, Invariant, PTL DEF OpenSpec, KeepsSource

-----------------------------------------------------------------------------
(* The annotation of a source *)

\* A write of the worker to a source leaves its annotation.
LEMMA UpdateNames ==
    ASSUME IInv, NEW new \in Source, UpdateSource(new), dsPc # "idle",
           new.names = job.src.names, new.st = job.src.st, NEW k \in Kinds
    PROVE  source'[k].names = source[k].names /\ source'[k].st = source[k].st
<1>1. job.kind \in Kinds /\ job.src = source[job.kind]
  BY DEF UpdateSource, SourceCurrent, IInv, TypeOK, SourceInv, Older
<1>2. CASE k = job.kind
  <2>1. source'[k] = Stored(source[k], new) /\ source[k] \in Source
    BY <1>1, <1>2 DEF UpdateSource, IInv, TypeOK
  <2>2. source'[k].names = new.names /\ source'[k].st = new.st
    BY <2>1 DEF Stored, Source
  <2>. QED
    BY <1>1, <1>2, <2>2
<1>3. CASE k # job.kind
  BY <1>1, <1>3 DEF UpdateSource, IInv, TypeOK
<1>. QED
  BY <1>2, <1>3

LEMMA CallNames ==
    ASSUME IInv, Call, NEW k \in Kinds
    PROVE  \/ /\ source'[k].names = source[k].names
              /\ source'[k].st = source[k].st
           \/ source'[k].names = << >>
<1>1. CASE UNCHANGED source
  BY <1>1
<1>2. CASE Unseal
  BY <1>2 DEF Unseal, NoSource, IInv, TypeOK
<1>3. job.src \in Source /\ now \in Nat
  BY DEF IInv, TypeOK
<1>4. CASE Seal
  <2>1. [job.src EXCEPT !.fin = TRUE] \in Source
    BY <1>3 DEF Source
  <2>. QED
    BY <1>3, <1>4, <2>1, UpdateNames DEF Seal, Source
<1>5. CASE Trigger
  <2>1. [job.src EXCEPT !.trigger = now] \in Source
    BY <1>3 DEF Source
  <2>. QED
    BY <1>3, <1>5, <2>1, UpdateNames DEF Trigger, Source
<1>6. UNCHANGED source \/ Unseal \/ Seal \/ Trigger
  BY DEF Call, Reap, Prune, CreateCopy, AlreadyExists, OverwriteCopy, Detach,
     Discard, Release, Revert, Retry, store
<1>. QED
  BY <1>1, <1>2, <1>4, <1>5, <1>6

\* Whatever is done to a source but for a change of its annotation leaves the
\* annotation or takes the source with it, and a source that is absent is made
\* without one.
LEMMA NamesStep ==
    ASSUME IInv, Step \/ ApiError \/ Restart \/ SourceAct, NEW k \in Kinds
    PROVE  /\ \/ /\ source'[k].names = source[k].names
                 /\ source'[k].st = "absent" => source[k].st = "absent"
              \/ source'[k].names = << >>
           /\ \/ sourceC'[k] = sourceC[k]
              \/ source'[k] = source[k] /\ sourceC'[k] = source[k]
<1>. USE DEF IInv, TypeOK
<1>1. CASE Call
  <2>1. UNCHANGED sourceC
    BY <1>1 DEF Call, Reap, Unseal, Prune, CreateCopy, AlreadyExists,
       OverwriteCopy, Seal, Detach, Discard, Trigger, Release, Revert, Retry,
       Calls, caches
  <2>. QED
    BY <1>1, <2>1, CallNames
<1>2. CASE SourceAct
  <2>1. UNCHANGED sourceC
    BY <1>2 DEF SourceAct, DropSource, PutSource, caches
  <2>2. ASSUME NEW l \in Kinds, DropSource(l)
        PROVE  \/ /\ source'[k].names = source[k].names
                  /\ source'[k].st = "absent" => source[k].st = "absent"
               \/ source'[k].names = << >>
    <3>1. CASE l = k
      <4>1. source[k] \in Source /\ source[k].st = "live"
        BY <2>2, <3>1 DEF DropSource
      <4>2. source'[k] = Deleted(source[k], NoSource(source[k].rev + 1))
        BY <2>2, <3>1 DEF DropSource
      <4>. QED
        BY <4>1, <4>2 DEF Deleted, NoSource, Source
    <3>2. CASE l # k
      BY <2>2, <3>2 DEF DropSource
    <3>. QED
      BY <3>1, <3>2
  <2>3. ASSUME NEW l \in Kinds, NEW p \in Payloads, PutSource(l, p)
        PROVE  /\ source'[k].names = source[k].names
               /\ source'[k].st = "absent" => source[k].st = "absent"
    <3>1. CASE l = k
      <4>1. source[k] \in Source
        OBVIOUS
      <4>. DEFINE new == [source[k] EXCEPT !.text = p.text, !.bytes = p.bytes,
                           !.rev = @ + 1,
                           !.st = IF @ = "absent" THEN "live" ELSE @]
      <4>2. source'[k] = new
        BY <2>3, <3>1, <4>1 DEF PutSource
      <4>3. new.names = source[k].names
        BY <4>1 DEF Source
      <4>4. new.st # "absent"
        BY <4>1 DEF Source
      <4>. QED
        BY <4>2, <4>3, <4>4
    <3>2. CASE l # k
      BY <2>3, <3>2 DEF PutSource
    <3>. QED
      BY <3>1, <3>2
  <2>. QED
    BY <1>2, <2>1, <2>2, <2>3 DEF SourceAct
<1>3. CASE Step /\ ~Call
  <2>1. UNCHANGED source
    BY <1>3 DEF Step, Start, Skip, VisitCopy, VisitSource, Deliver, EmptySpace,
       DropSpace, Tick, store
  <2>2. UNCHANGED sourceC \/ \E l \in Kinds : sourceC' = [sourceC EXCEPT ![l] = source[l]]
    BY <1>3 DEF Step, Start, Skip, VisitCopy, VisitSource, Deliver, Refresh,
       EmptySpace, DropSpace, Tick, caches
  <2>. QED
    BY <2>1, <2>2
<1>4. CASE ApiError \/ Restart
  BY <1>4 DEF ApiError, Restart, Resume, store, caches
<1>. QED
  BY <1>1, <1>2, <1>3, <1>4
=============================================================================

----------------------------- MODULE DataSyncer -----------------------------
(***************************************************************************)
(* The DataSyncer controller (pkg/controllers/datasyncer) at one name: the *)
(* source, a Secret or ConfigMap of that name in the namespace of its user *)
(* (Home), annotated with the Challenges that refer to it, and its copies, *)
(* one in the namespace of each of those Challenges.  A request carries    *)
(* only a namespace, so a Secret and a ConfigMap of that name share it.    *)
(*                                                                         *)
(* One action per call to the API server.  "rev" is the resourceVersion,   *)
(* as in Cluster.  The informer of a kind delivers the events of all its   *)
(* objects in their order: its cache is a snapshot of the store.           *)
(***************************************************************************)
EXTENDS Naturals, FiniteSets, SequencesExt

CONSTANTS
    None,
    Home,           \* the namespace of the source
    Namespaces,     \* those of the Challenges, and the Challenges
    Kinds,          \* which of "secret" and "configmap" there may be
    Entries,        \* key-value pairs, valid text all of them
    Payloads,       \* [text, bytes] records: what users put in a source
    MaxActs,        \* bound on what users and the Challenges do
    MaxFaults,      \* bound on crashes and API errors
    Horizon         \* bound: the clock stops here

ASSUME DataAssumption ==
    /\ Kinds \subseteq {"secret", "configmap"}
    /\ IsFiniteSet(Namespaces)
    /\ Home \notin Namespaces
    /\ None \notin Nat
    /\ None \notin Kinds \cup Namespaces \cup {Home}
    /\ Payloads \subseteq [text : SUBSET Entries, bytes : SUBSET Entries]
    /\ MaxActs \in Nat
    /\ MaxFaults \in Nat
    /\ Horizon \in Nat

VARIABLES
    now,                \* the clock, in seconds
    faults,             \* crashes and API errors so far
    acts,               \* acts of users and Challenges so far
    space,              \* the namespaces of the Challenges
    source, sourceC,    \* the sources: stored, and cached
    copy, copyC,        \* the copies: stored, and cached
    dsQueue,            \* the namespaces whose object is to be visited
    dsPc,               \* the call Reconcile makes next
    job                 \* what the visit has in hand

worker == <<dsQueue, dsPc, job>>
store == <<space, source, copy>>
caches == <<sourceC, copyC>>
bounds == <<now, faults, acts>>

vars == <<bounds, store, caches, worker>>

-----------------------------------------------------------------------------
(* Objects *)

Source ==
    [st : {"absent", "live", "deleting"}, rev : Nat, names : Seq(Namespaces),
     text : SUBSET Entries, bytes : SUBSET Entries,
     trigger : Nat \cup {None}, fin : BOOLEAN]

\* Nothing fills in the binaryData of a copy.
Copy ==
    [st : {"absent", "live", "deleting"}, rev : Nat, text : SUBSET Entries,
     fin : BOOLEAN]

Copies == Kinds \X Namespaces

NoSource(rev) ==
    [st |-> "absent", rev |-> rev, names |-> << >>, text |-> {},
     bytes |-> {}, trigger |-> None, fin |-> FALSE]

NoCopy(rev) == [st |-> "absent", rev |-> rev, text |-> {}, fin |-> FALSE]

\* The lists of Challenges an annotation may hold.
NameLists == UNION {SetToSeqs(S) : S \in SUBSET Namespaces}

\* GetData: a ConfigMap has its binary data among the rest.
DataOf(s) == s.text \cup s.bytes

\* What syncToNamespace puts in a copy: of a ConfigMap, Data only.
Sent(s) == s.text

\* HasChallengesAnnotation: an annotation that is there names at least one
\* Challenge, as the Challenge controller drops an empty one; users write none.
Annotated(s) == s.names # << >>

Steps == {"idle", "reap", "unseal", "prune", "sync", "overwrite", "seal",
          "detach", "discard", "trigger", "release", "revert"}

NoJob ==
    [kind |-> None, place |-> None, src |-> NoSource(0), cp |-> NoCopy(0),
     todo |-> << >>]

\* The copy a loop of the visit is at, and the copy the visit is about.
Target == <<job.kind, Head(job.todo)>>
Mine == <<job.kind, job.place>>

-----------------------------------------------------------------------------
(* Operations of the API server *)

\* What a write leaves in the store.
Stored(old, new) == IF new = old THEN old ELSE [new EXCEPT !.rev = old.rev + 1]

\* Delete: at once, or, with a finalizer, the deletion timestamp only.
Deleted(o, none) ==
    CASE o.st = "live" /\ o.fin -> [o EXCEPT !.st = "deleting", !.rev = @ + 1]
      [] o.st = "live" /\ ~o.fin -> none
      [] OTHER -> o

DeleteCopy(c) ==
    copy' = [copy EXCEPT ![c] = Deleted(@, NoCopy(@.rev + 1))]

\* Without its finalizer a deleted object goes.
ReleaseCopy(c) ==
    copy' = [copy EXCEPT ![c] = IF @.st = "deleting"
                                THEN NoCopy(@.rev + 1)
                                ELSE Stored(@, [@ EXCEPT !.fin = FALSE])]

SourceCurrent ==
    /\ source[job.kind].st # "absent"
    /\ source[job.kind].rev = job.src.rev

\* MUTANT: no test of the version.
UpdateSourceBlind(new) ==
    /\ source[job.kind].st # "absent"
    /\ source' = [source EXCEPT ![job.kind] = Stored(@, new)]

\* An update sends back all of the copy in hand, if it is of the last version.
UpdateSource(new) ==
    /\ SourceCurrent
    /\ source' = [source EXCEPT ![job.kind] = Stored(@, new)]

CopyCurrent == copy[Mine].st # "absent" /\ copy[Mine].rev = job.cp.rev

-----------------------------------------------------------------------------
(* Users, the Challenges and the namespaces *)

Act == acts < MaxActs /\ acts' = acts + 1

\* A source is made or edited.  Who edits keeps annotations and finalizers.
PutSource(k, p) ==
    /\ k = "secret" => p.bytes = {}
    /\ <<p.text, p.bytes>> # <<source[k].text, source[k].bytes>>
    /\ source' = [source EXCEPT
                    ![k].text = p.text, ![k].bytes = p.bytes, ![k].rev = @ + 1,
                    ![k].st = IF @ = "absent" THEN "live" ELSE @]
    /\ UNCHANGED <<now, faults, space, copy, caches, worker>>

DropSource(k) ==
    /\ source[k].st = "live"
    /\ source' = [source EXCEPT ![k] = Deleted(@, NoSource(@.rev + 1))]
    /\ UNCHANGED <<now, faults, space, copy, caches, worker>>

\* The Challenges write the annotation (AnnotateResourceWithChallenges and
\* RemoveChallengeFromResource), users may.
Rename(k, names) ==
    /\ source[k].st # "absent"
    /\ source[k].names # names
    /\ source' = [source EXCEPT ![k].names = names, ![k].rev = @ + 1]
    /\ UNCHANGED <<now, faults, space, copy, caches, worker>>

\* A copy is changed or deleted by hand.
TamperCopy(c, text) ==
    /\ copy[c].st # "absent"
    /\ copy[c].text # text
    /\ copy' = [copy EXCEPT ![c].text = text, ![c].rev = @ + 1]
    /\ UNCHANGED <<now, faults, space, source, caches, worker>>

DropCopy(c) ==
    /\ copy[c].st = "live"
    /\ DeleteCopy(c)
    /\ UNCHANGED <<now, faults, space, source, caches, worker>>

MakeSpace(n) ==
    /\ space[n] = "absent"
    /\ space' = [space EXCEPT ![n] = "active"]
    /\ UNCHANGED <<now, faults, source, copy, caches, worker>>

DeleteSpace(n) ==
    /\ space[n] = "active"
    /\ space' = [space EXCEPT ![n] = "terminating"]
    /\ UNCHANGED <<now, faults, source, copy, caches, worker>>

\* The namespace controller deletes what a deleted namespace holds, and waits
\* for it to go.
EmptySpace(c) ==
    /\ space[c[2]] = "terminating"
    /\ copy[c].st = "live"
    /\ DeleteCopy(c)
    /\ UNCHANGED <<bounds, space, source, caches, worker>>

DropSpace(n) ==
    /\ space[n] = "terminating"
    /\ \A k \in Kinds : copy[<<k, n>>].st = "absent"
    /\ space' = [space EXCEPT ![n] = "absent"]
    /\ UNCHANGED <<bounds, source, copy, caches, worker>>

Tick ==
    /\ now < Horizon
    /\ now' = now + 1
    /\ UNCHANGED <<faults, acts, store, caches, worker>>

-----------------------------------------------------------------------------
(* Events *)

\* The predicate looks at the object as the event leaves it; a copy always has
\* the managed label.
Noticed(k) ==
    {n \in Namespaces : copyC[<<k, n>>] # copy[<<k, n>>]}
      \cup IF sourceC[k] # source[k]
              /\ \/ Annotated(source[k])
                 \/ source[k].st = "absent" /\ Annotated(sourceC[k])
           THEN {Home} ELSE {}

Refresh(k) ==
    /\ sourceC' = [sourceC EXCEPT ![k] = source[k]]
    /\ copyC' = [c \in Copies |-> IF c[1] = k THEN copy[c] ELSE copyC[c]]

Deliver(k) ==
    /\ Refresh(k)
    /\ caches' # caches
    /\ dsQueue' = dsQueue \cup Noticed(k)
    /\ UNCHANGED <<bounds, store, dsPc, job>>

-----------------------------------------------------------------------------
(* The start of Reconcile *)

Idle == dsPc' = "idle" /\ job' = NoJob

Take(p) == dsPc = "idle" /\ p \in dsQueue

\* A Secret is looked for first.
Found(p) ==
    LET there == {k \in Kinds : IF p = Home THEN sourceC[k].st # "absent"
                                ELSE copyC[<<k, p>>].st # "absent"}
    IN  CASE "secret" \in there -> "secret"
          [] there = {"configmap"} -> "configmap"
          [] OTHER -> None

\* There is nothing of that name, or it is a copy in order.
Skip(p) ==
    /\ Take(p)
    /\ \/ Found(p) = None
       \/ /\ p # Home /\ Found(p) # None
          /\ LET c == copyC[<<Found(p), p>>]
                 s == sourceC[Found(p)]
             IN  s.st # "absent" /\ c.st = "live" /\ c.text = DataOf(s)
    /\ dsQueue' = dsQueue \ {p}
    /\ UNCHANGED <<bounds, store, caches, dsPc, job>>

\* The cached copies of the source in namespaces it does not name.
Undesired(k) ==
    {n \in Namespaces : /\ copyC[<<k, n>>].st # "absent"
                        /\ n \notin Range(sourceC[k].names)}

\* A source without an annotation is an error, and retried as such.
VisitSource ==
    /\ Take(Home)
    /\ \E k \in Kinds :
          /\ k = Found(Home)
          /\ Annotated(sourceC[k])
          /\ dsQueue' = dsQueue \ {Home}
          /\ \E undesired \in SetToSeqs(Undesired(k)) :
                /\ dsPc' = IF sourceC[k].st = "deleting" /\ sourceC[k].fin
                           THEN "reap"
                           ELSE IF undesired # << >> THEN "prune" ELSE "sync"
                /\ job' = [NoJob EXCEPT
                              !.kind = k, !.place = Home, !.src = sourceC[k],
                              !.todo = IF dsPc' = "prune" THEN undesired
                                       ELSE sourceC[k].names]
    /\ UNCHANGED <<bounds, store, caches>>

\* The source of an orphan is missing, a deleted copy is replaced if its
\* source stays, a copy with other data is reverted.
VisitCopy(p) ==
    /\ Take(p)
    /\ p # Home
    /\ \E k \in Kinds :
          /\ k = Found(p)
          /\ LET c == copyC[<<k, p>>]
                 s == sourceC[k]
             IN  /\ s.st # "absent" => c.st = "deleting" \/ c.text # DataOf(s)
                 /\ dsPc' = CASE s.st = "absent" /\ c.fin -> "detach"
                              [] s.st = "absent" /\ ~c.fin -> "discard"
                              [] c.st = "deleting" /\ s.st = "live" -> "trigger"
                              [] c.st = "deleting" /\ s.st = "deleting" -> "release"
                              [] OTHER -> "revert"
                 /\ job' = [NoJob EXCEPT !.kind = k, !.place = p, !.src = s,
                                         !.cp = c]
    /\ dsQueue' = dsQueue \ {p}
    /\ UNCHANGED <<bounds, store, caches>>

-----------------------------------------------------------------------------
(* The visit of a source *)

Calls == UNCHANGED <<bounds, space, caches, dsQueue>>

\* MUTANT: the loop runs off the end of its list.
OnwardOneMore(src, step, after) ==
    IF Len(job.todo) > 0
    THEN /\ dsPc' = step
         /\ job' = [job EXCEPT !.src = src, !.todo = Tail(@)]
    ELSE dsPc' = after /\ job' = [job EXCEPT !.todo = src.names]

\* The loop goes on, or Reconcile with what comes after it.
Onward(src, step, after) ==
    IF Len(job.todo) > 1
    THEN /\ dsPc' = step
         /\ job' = [job EXCEPT !.src = src, !.todo = Tail(@)]
    ELSE CASE after = "idle" -> Idle
           [] after = "sync" -> dsPc' = after /\ job' = [job EXCEPT !.todo = src.names]
           [] after = "unseal" -> dsPc' = after /\ job' = [job EXCEPT !.todo = << >>]

\* cleanupCopies: the copies of the Challenges named, if the cache has them.
\* The code sorts the names first; the order of the annotation, which may be any,
\* stands for that.
Reap ==
    /\ dsPc = "reap"
    /\ IF copyC[Target].st # "absent" THEN DeleteCopy(Target) ELSE UNCHANGED copy
    /\ Onward(job.src, "reap", "unseal")
    /\ UNCHANGED source
    /\ Calls

\* The cleanup finalizer goes, and the source with it.
Unseal ==
    /\ dsPc = "unseal"
    /\ SourceCurrent
    /\ source' = [source EXCEPT ![job.kind] = NoSource(@.rev + 1)]
    /\ Idle
    /\ UNCHANGED copy
    /\ Calls

\* cleanupUndesiredCopies.
Prune ==
    /\ dsPc = "prune"
    /\ DeleteCopy(Target)
    /\ Onward(job.src, "prune", "sync")
    /\ UNCHANGED source
    /\ Calls

\* The first copy that is made is followed by the cleanup finalizer.
Synced ==
    IF job.src.fin
    THEN Onward(job.src, "sync", "idle")
    ELSE dsPc' = "seal" /\ UNCHANGED job

CreateCopy ==
    /\ dsPc = "sync"
    /\ space[Target[2]] = "active"
    /\ copy[Target].st = "absent"
    /\ copy' = [copy EXCEPT ![Target] =
                   [st |-> "live", rev |-> @.rev + 1, text |-> Sent(job.src),
                    fin |-> TRUE]]
    /\ Synced
    /\ UNCHANGED source
    /\ Calls

\* MUTANT: that the copy exists is an error.
AlreadyExistsFails ==
    /\ dsPc = "sync"
    /\ space[Target[2]] = "active"
    /\ copy[Target].st # "absent"
    /\ Idle
    /\ dsQueue' = dsQueue \cup {job.place}
    /\ UNCHANGED <<bounds, store, caches>>

AlreadyExists ==
    /\ dsPc = "sync"
    /\ space[Target[2]] = "active"
    /\ copy[Target].st # "absent"
    /\ dsPc' = "overwrite"
    /\ UNCHANGED <<source, copy, job>>
    /\ Calls

\* The update carries no version.  A copy that is being deleted stays so.
OverwriteCopy ==
    /\ dsPc = "overwrite"
    /\ copy[Target].st # "absent"
    /\ copy' = [copy EXCEPT ![Target] =
                   Stored(@, [@ EXCEPT !.text = Sent(job.src), !.fin = TRUE])]
    /\ Synced
    /\ UNCHANGED source
    /\ Calls

Seal ==
    /\ dsPc = "seal"
    /\ UpdateSource([job.src EXCEPT !.fin = TRUE])
    /\ Onward(source'[job.kind], "sync", "idle")
    /\ UNCHANGED copy
    /\ Calls

-----------------------------------------------------------------------------
(* The visit of a copy *)

Detach ==
    /\ dsPc = "detach"
    /\ CopyCurrent
    /\ ReleaseCopy(Mine)
    /\ dsPc' = "discard"
    /\ UNCHANGED <<source, job>>
    /\ Calls

Discard ==
    /\ dsPc = "discard"
    /\ DeleteCopy(Mine)
    /\ Idle
    /\ UNCHANGED source
    /\ Calls

\* MUTANT: the copy is released without a word to the source.
TriggerNot ==
    /\ dsPc = "trigger"
    /\ dsPc' = "release"
    /\ UNCHANGED <<source, copy, job>>
    /\ Calls

\* The source is touched, so that its next visit makes the copy anew: its
\* last-trigger is set to the time, to the second.
Trigger ==
    /\ dsPc = "trigger"
    /\ UpdateSource([job.src EXCEPT !.trigger = now])
    /\ dsPc' = "release"
    /\ UNCHANGED <<copy, job>>
    /\ Calls

Release ==
    /\ dsPc = "release"
    /\ CopyCurrent
    /\ ReleaseCopy(Mine)
    /\ Idle
    /\ UNCHANGED source
    /\ Calls

Revert ==
    /\ dsPc = "revert"
    /\ CopyCurrent
    /\ copy' = [copy EXCEPT ![Mine].text = DataOf(job.src), ![Mine].rev = @ + 1]
    /\ Idle
    /\ UNCHANGED source
    /\ Calls

-----------------------------------------------------------------------------
(* Failures *)

\* MUTANT: the error is swallowed, nothing is requeued.
FailForgotten == Idle /\ UNCHANGED dsQueue

Fail == Idle /\ dsQueue' = dsQueue \cup {job.place}

\* An outdated version, a namespace that takes no objects, a copy that went.
Refused ==
    \/ dsPc \in {"unseal", "seal", "trigger"} /\ ~SourceCurrent
    \/ dsPc \in {"detach", "release", "revert"} /\ ~CopyCurrent
    \/ dsPc = "sync" /\ space[Target[2]] # "active"
    \/ dsPc = "overwrite" /\ copy[Target].st = "absent"

Retry ==
    /\ Refused
    /\ Fail
    /\ UNCHANGED <<bounds, store, caches>>

Fault == faults < MaxFaults /\ faults' = faults + 1

\* MUTANT: the update that failed was made to the cached object itself.
ApiErrorInPlace ==
    /\ Fault
    /\ dsPc # "idle"
    /\ Fail
    /\ sourceC' = IF dsPc = "trigger"
                  THEN [sourceC EXCEPT ![job.kind].trigger = now]
                  ELSE sourceC
    /\ UNCHANGED <<now, acts, store, copyC>>

ApiError ==
    /\ Fault
    /\ dsPc # "idle"
    /\ Fail
    /\ UNCHANGED <<now, acts, store, caches>>

\* The manager restarts: fresh caches, and what passes the predicate is new.
Resume ==
    /\ sourceC' = source
    /\ copyC' = copy
    /\ dsQueue' = {c[2] : c \in {d \in Copies : copy[d].st # "absent"}}
                    \cup IF \E k \in Kinds : Annotated(source[k])
                         THEN {Home} ELSE {}
    /\ Idle

Restart ==
    /\ Fault
    /\ Resume
    /\ UNCHANGED <<now, acts, store>>

-----------------------------------------------------------------------------
Start(p) == Skip(p) \/ VisitCopy(p) \/ (p = Home /\ VisitSource)

Call ==
    \/ Reap \/ Unseal \/ Prune \/ CreateCopy \/ AlreadyExists \/ OverwriteCopy
    \/ Seal \/ Detach \/ Discard \/ Trigger \/ Release \/ Revert \/ Retry

SourceAct == \E k \in Kinds : DropSource(k) \/ \E p \in Payloads : PutSource(k, p)

CopyAct ==
    \E c \in Copies : DropCopy(c) \/ \E t \in SUBSET Entries : TamperCopy(c, t)

\* What the controller meets: the acts of users and of the Challenges.
Neighbour ==
    \/ SourceAct
    \/ CopyAct
    \/ \E k \in Kinds, names \in NameLists : Rename(k, names)
    \/ \E n \in Namespaces : MakeSpace(n) \/ DeleteSpace(n)

Names == {Home} \cup Namespaces

\* Any step but those of the neighbours.
Step ==
    \/ \E k \in Kinds : Deliver(k)
    \/ \E p \in Names : Start(p)
    \/ Call
    \/ \E c \in Copies : EmptySpace(c)
    \/ \E n \in Namespaces : DropSpace(n)
    \/ Tick

\* The manager has just started: its caches are filled, there are no copies.
Init ==
    /\ now = 0
    /\ faults = 0
    /\ acts = 0
    /\ space \in [Namespaces -> {"active", "absent"}]
    /\ \E p \in Payloads, names \in NameLists, there \in SUBSET Kinds :
          source = [k \in Kinds |->
                      IF k \in there
                      THEN [NoSource(1) EXCEPT !.st = "live", !.names = names,
                              !.text = p.text,
                              !.bytes = IF k = "secret" THEN {} ELSE p.bytes]
                      ELSE NoSource(0)]
    /\ sourceC = source
    /\ copy = [c \in Copies |-> NoCopy(0)]
    /\ copyC = copy
    /\ dsQueue = IF \E k \in Kinds : Annotated(source[k]) THEN {Home} ELSE {}
    /\ dsPc = "idle"
    /\ job = NoJob

Next == Step \/ ApiError \/ Restart \/ (Act /\ Neighbour)

Spec == Init /\ [][Next]_vars

\* The controller among neighbours that do as they please.
OpenNext ==
    Step \/ ApiError \/ Restart \/ (acts' \in {acts, acts + 1} /\ Neighbour)

OpenSpec == Init /\ [][OpenNext]_vars

\* The informers catch up, the worker runs, its FIFO queue starves no name;
\* time passes and the namespace controller works.  Nobody else owes anything.
Fairness ==
    /\ \A k \in Kinds : WF_vars(Deliver(k))
    /\ \A p \in Names : SF_vars(Start(p))
    /\ WF_vars(Call)
    /\ WF_vars(\E c \in Copies : EmptySpace(c))
    /\ WF_vars(\E n \in Namespaces : DropSpace(n))
    /\ WF_vars(Tick)

FairSpec == Spec /\ Fairness
-----------------------------------------------------------------------------
(* Properties *)

TypeOK ==
    /\ now \in Nat
    /\ faults \in Nat
    /\ acts \in Nat
    /\ space \in [Namespaces -> {"active", "terminating", "absent"}]
    /\ source \in [Kinds -> Source]
    /\ sourceC \in [Kinds -> Source]
    /\ copy \in [Copies -> Copy]
    /\ copyC \in [Copies -> Copy]
    /\ dsQueue \subseteq Names
    /\ dsPc \in Steps
    /\ job \in [kind : Kinds \cup {None}, place : Names \cup {None},
                src : Source, cp : Copy, todo : Seq(Namespaces)]
    /\ dsPc # "idle" => job.kind # None /\ job.place # None
    /\ dsPc \in {"reap", "prune", "sync", "overwrite", "seal"} => job.todo # << >>

\* A source that the cache or the worker holds in its last version is the
\* stored one, and a loop over Challenges is about a source that names some.
Older(o, new) == o.rev <= new.rev /\ (o.rev = new.rev => o = new)

SourceInv ==
    /\ \A k \in Kinds : Older(sourceC[k], source[k])
    /\ dsPc # "idle" => Older(job.src, source[job.kind])
    /\ dsPc \in {"reap", "prune", "sync", "overwrite", "seal"} => Annotated(job.src)

\* What the worker writes back never undoes what users and Challenges wrote
\* meanwhile: a step of it changes neither data nor annotation of a source.
KeepsSource ==
    [][dsPc # "idle" /\ dsPc' # dsPc =>
          \A k \in Kinds :
             \/ source'[k].st = "absent"
             \/ /\ source'[k].names = source[k].names
                /\ DataOf(source'[k]) = DataOf(source[k])]_vars

\* The source has a copy like it in every namespace it names.
Mirrored(k) ==
    \A n \in Range(source[k].names) :
       copy[<<k, n>>].st = "live" /\ copy[<<k, n>>].text = DataOf(source[k])

Placed(k) == \A n \in Range(source[k].names) : space[n] = "active"

\* No two copies are replaced within one second.
TriggersDistinct ==
    dsPc = "trigger" => source[job.kind].trigger # now

\* Once users, Challenges and faults have done their worst, a source in
\* service has its copies, and they are like it.
Mirrors ==
    []TriggersDistinct =>
       <>[](\A k \in Kinds :
              source[k].st = "live" /\ Annotated(source[k]) /\ Placed(k)
              => Mirrored(k))

\* A deleted source is released, if it keeps its annotation.
Cleans ==
    \A k \in Kinds :
       [](source[k].st = "deleting" => Annotated(source[k])) =>
          (source[k].st = "deleting" ~> source[k].st # "deleting")

\* If all there is to sync can be synced, the controller comes to rest: its
\* own writes do not keep waking it.
Rests ==
    <>[](\A k \in Kinds :
           source[k].st # "absent" => Annotated(source[k]) /\ Placed(k)) =>
       <>[](dsQueue = {} /\ dsPc = "idle")
=============================================================================

--------------------------- MODULE Consumer_proofs ---------------------------
(***************************************************************************)
(* Proofs about the Consumer controller, for any expiries and any number   *)
(* of requests, faults and ticks of the clock: a token is only issued for  *)
(* the stored incarnation, guarded and active.                             *)
(***************************************************************************)
EXTENDS Consumer, TLAPS

-----------------------------------------------------------------------------
(* The inductive invariant *)

\* The cached Consumer and the worker's copy are older versions of the stored
\* one, or it; only the phase may be ahead, before it is written.
Versions ==
    /\ consC.rev <= cons.rev
    /\ consC.rev = cons.rev => consC = cons
    /\ obj.rev <= cons.rev
    /\ pc # "idle" /\ pc # "phase" /\ obj.rev = cons.rev => obj = cons
    /\ pc = "phase" /\ obj.rev = cons.rev
         => obj = [cons EXCEPT !.phase = obj.phase]
    /\ cons.st = "absent" => ~cons.fin

\* A copy by which a token would be issued without another write.
Entitled(c) ==
    c.st = "live" /\ c.fin /\ c.phase = "Active" /\ ComputePhase(c) = "Active"

\* The stored Consumer is of the incarnation of c, guarded and active.
Kept(c) == cons.uid = c.uid /\ cons.fin /\ cons.phase = "Active"

\* What the worker knows at the stages of a visit.  The copy it works with is
\* no newer than the cache, but for the finalizer it has just added.
Stages ==
    /\ pc = "finalize" => obj.st = "live" /\ ~obj.fin /\ obj.rev <= consC.rev
    /\ pc \in {"judge", "phase"} =>
          obj.st = "live" /\ obj.fin /\ (obj.rev <= consC.rev \/ ~consC.fin)
    /\ pc = "phase" => obj.phase = "Active" \/ ComputePhase(obj) # "Active"
    /\ pc = "judge" /\ Entitled(obj) => Kept(obj)
    /\ pc \in {"look", "clear", "tenant", "issue", "record"} => Kept(obj)
    /\ pc \in {"cleanup", "purge", "release"} =>
          obj.st = "deleting" /\ obj.rev <= consC.rev

EntitledIsKept == Entitled(consC) => Kept(consC)

IInv == TypeOK /\ Versions /\ Stages /\ EntitledIsKept

LEMMA NoConsumerType ==
    ASSUME NEW rev \in Nat
    PROVE  NoConsumer(rev) \in ConsumerObject
BY DEF NoConsumer, ConsumerObject

LEMMA NoTokenType ==
    ASSUME NEW rev \in Nat
    PROVE  NoToken(rev) \in Token
BY DEF NoToken, Token

LEMMA StoredType ==
    ASSUME TypeOK, NEW new \in ConsumerObject
    PROVE  Stored(new) \in ConsumerObject
BY DEF TypeOK, Stored, ConsumerObject

\* What a deletion leaves of a Consumer that has the finalizer.
LEMMA DeletingType ==
    ASSUME NEW c \in ConsumerObject, NEW d,
           d = [c EXCEPT !.st = "deleting", !.rev = c.rev + 1, !.gen = c.gen + 1]
    PROVE  /\ d \in ConsumerObject
           /\ d.rev = c.rev + 1
           /\ d.st = "deleting"
           /\ d.uid = c.uid /\ d.fin = c.fin /\ d.phase = c.phase
<1>5. c.rev + 1 \in Nat /\ c.gen + 1 \in Nat
  BY DEF ConsumerObject
<1>1. d \in ConsumerObject
  BY <1>5 DEF ConsumerObject
<1>2. d.rev = c.rev + 1 /\ d.st = "deleting" /\ d.uid = c.uid
  BY DEF ConsumerObject
<1>3. d.fin = c.fin
  BY DEF ConsumerObject
<1>4. d.phase = c.phase
  BY DEF ConsumerObject
<1>. QED
  BY <1>1, <1>2, <1>3, <1>4

LEMMA PhaseType ==
    ASSUME NEW c
    PROVE  ComputePhase(c) \in Phases
BY DEF ComputePhase, Phases

LEMMA InitInv == Init => IInv
<1>. SUFFICES ASSUME Init
              PROVE  IInv
  OBVIOUS
<1>1. NoConsumer(0) \in ConsumerObject /\ NoToken(0) \in Token
  BY NoConsumerType, NoTokenType
<1>2. TypeOK
  BY <1>1 DEF Init, TypeOK, Steps
<1>3. Versions /\ Stages /\ EntitledIsKept
  BY DEF Init, Versions, Stages, EntitledIsKept, Entitled, NoConsumer
<1>. QED
  BY <1>2, <1>3 DEF IInv

-----------------------------------------------------------------------------
(* Users and the clock *)

\* A request that makes a new version of the Consumer, and takes neither its
\* incarnation nor its finalizer nor its phase away once it is guarded.
LEMMA RequestInv ==
    ASSUME IInv,
           requests' \in Nat,
           cons' \in ConsumerObject,
           cons'.rev = cons.rev + 1,
           cons.fin => /\ cons'.uid = cons.uid
                       /\ cons'.fin
                       /\ cons'.phase = cons.phase,
           cons'.st = "absent" => ~cons'.fin,
           UNCHANGED <<now, faults, token, tenant, cacheVars, workVars>>
    PROVE  IInv'
<1>1. /\ cons.rev \in Nat /\ consC.rev \in Nat /\ obj.rev \in Nat
      /\ consC.rev < cons'.rev /\ obj.rev < cons'.rev
  BY DEF IInv, TypeOK, Versions, ConsumerObject
<1>2. TypeOK'
  BY DEF IInv, TypeOK, cacheVars, workVars
<1>3. Versions'
  BY <1>1 DEF IInv, Versions, cacheVars, workVars
<1>4. \A c : Kept(c) => Kept(c)'
  BY DEF Kept
<1>5. ComputePhase(obj)' = ComputePhase(obj) /\ (Entitled(consC)' <=> Entitled(consC))
  BY DEF ComputePhase, Entitled, cacheVars, workVars
<1>. QED
  BY <1>2, <1>3 DEF IInv, Stages, EntitledIsKept, Entitled, Kept, ComputePhase,
     cacheVars, workVars

\* Users leave a guarded Consumer its incarnation, finalizer and phase.
LEMMA UserInv ==
    ASSUME IInv, User
    PROVE  IInv'
<1>. USE DEF Request
<1>1. ASSUME NEW s \in BOOLEAN, NEW e \in Expiries, UserCreate(s, e)
      PROVE  IInv'
  <2>1. e \in Nat \cup {None}
    BY ConsumerAssumption
  <2>4. cons.rev \in Nat
    BY DEF IInv, TypeOK, ConsumerObject
  <2>5. cons' = [st |-> "live", rev |-> cons.rev + 1, uid |-> cons.rev + 1,
                 gen |-> 1, fin |-> FALSE, suspended |-> s, expires |-> e,
                 phase |-> None, ref |-> FALSE]
    BY <1>1 DEF UserCreate, NoConsumer
  <2>2. /\ cons' \in ConsumerObject
        /\ cons'.rev = cons.rev + 1
        /\ cons'.st # "absent"
    BY <2>1, <2>4, <2>5 DEF ConsumerObject
  <2>3. ~cons.fin
    BY <1>1 DEF UserCreate, IInv, Versions
  <2>. QED
    BY <1>1, <2>2, <2>3, RequestInv DEF UserCreate, IInv, TypeOK
<1>2. ASSUME NEW s \in BOOLEAN, NEW e \in Expiries, UserEdit(s, e)
      PROVE  IInv'
  <2>1. e \in Nat \cup {None}
    BY ConsumerAssumption
  <2>3. /\ cons \in ConsumerObject
        /\ cons' = [cons EXCEPT !.rev = cons.rev + 1, !.gen = cons.gen + 1,
                                !.suspended = s, !.expires = e]
    BY <1>2 DEF UserEdit, IInv, TypeOK
  <2>4. cons.rev + 1 \in Nat /\ cons.gen + 1 \in Nat
    BY <2>3 DEF ConsumerObject
  <2>5. cons' \in ConsumerObject
    BY <2>1, <2>3, <2>4 DEF ConsumerObject
  <2>6. cons'.rev = cons.rev + 1 /\ cons'.st = cons.st /\ cons'.uid = cons.uid
    BY <2>3 DEF ConsumerObject
  <2>7. cons'.fin = cons.fin
    BY <2>3 DEF ConsumerObject
  <2>8. cons'.phase = cons.phase
    BY <2>3 DEF ConsumerObject
  <2>. QED
    BY <1>2, <2>5, <2>6, <2>7, <2>8, RequestInv DEF UserEdit, IInv, TypeOK, Versions
<1>3. ASSUME UserDelete
      PROVE  IInv'
  <2>1. CASE cons.fin
    <3>2. /\ cons \in ConsumerObject
          /\ cons' = [cons EXCEPT !.st = "deleting", !.rev = cons.rev + 1,
                                  !.gen = cons.gen + 1]
      BY <1>3, <2>1 DEF UserDelete, IInv, TypeOK
    <3>1. /\ cons' \in ConsumerObject
          /\ cons'.rev = cons.rev + 1
          /\ cons'.st = "deleting"
          /\ cons'.uid = cons.uid /\ cons'.fin = cons.fin
          /\ cons'.phase = cons.phase
      BY <3>2, DeletingType
    <3>. QED
      BY <1>3, <2>1, <3>1, RequestInv DEF UserDelete, IInv, TypeOK
  <2>2. CASE ~cons.fin
    <3>1. cons' = NoConsumer(cons.rev + 1)
      BY <1>3, <2>2 DEF UserDelete
    <3>2. cons' \in ConsumerObject /\ cons'.rev = cons.rev + 1 /\ ~cons'.fin
      BY <3>1, NoConsumerType DEF NoConsumer, IInv, TypeOK, ConsumerObject
    <3>. QED
      BY <1>3, <2>2, <3>2, RequestInv DEF UserDelete, IInv, TypeOK
  <2>. QED
    BY <2>1, <2>2
<1>4. ASSUME UserTenant \/ UserDropToken
      PROVE  IInv'
  <2>1. NoToken(token.rev + 1) \in Token
    BY NoTokenType DEF IInv, TypeOK, Token
  <2>4. tenant' \in BOOLEAN
    BY <1>4, Zenon DEF UserTenant, UserDropToken, IInv, TypeOK
  <2>2. TypeOK'
    BY <1>4, <2>1, <2>4 DEF UserTenant, UserDropToken, IInv, TypeOK, cacheVars, workVars
  <2>3. UNCHANGED <<now, cons, consC, pc, obj>>
    BY <1>4 DEF UserTenant, UserDropToken, cacheVars, workVars
  <2>. QED
    BY <2>2, <2>3 DEF IInv, Versions, Stages, EntitledIsKept, Entitled, Kept,
       ComputePhase
<1>. QED
  BY <1>1, <1>2, <1>3, <1>4 DEF User

\* Time only ever ends what a Consumer is entitled to.
LEMMA TickInv ==
    ASSUME IInv, Tick
    PROVE  IInv'
<1>1. TypeOK'
  BY DEF Tick, IInv, TypeOK, storeVars, cacheVars, workVars
<1>2. UNCHANGED <<cons, consC, pc, obj>>
  BY DEF Tick, storeVars, cacheVars, workVars
<1>3. ASSUME NEW c \in ConsumerObject, ComputePhase(c) # "Active"
      PROVE  ComputePhase(c)' # "Active"
  BY <1>3, ConsumerAssumption DEF Tick, ComputePhase, ConsumerObject, IInv, TypeOK
<1>4. /\ ComputePhase(obj) # "Active" => ComputePhase(obj)' # "Active"
      /\ ComputePhase(consC) # "Active" => ComputePhase(consC)' # "Active"
  BY <1>2, <1>3 DEF IInv, TypeOK, ComputePhase
<1>5. Versions'
  BY <1>2 DEF IInv, Versions
<1>6. Stages'
  BY <1>2, <1>4 DEF IInv, Stages, Entitled, Kept
<1>7. EntitledIsKept'
  BY <1>2, <1>4 DEF IInv, EntitledIsKept, Entitled, Kept
<1>. QED
  BY <1>1, <1>5, <1>6, <1>7 DEF IInv

-----------------------------------------------------------------------------
(* Events *)

\* A cache catches up, or a timer fires.
LEMMA EventInv ==
    ASSUME IInv, Deliver \/ Wake
    PROVE  IInv'
<1>1. ASSUME DeliverConsumer
      PROVE  IInv'
  <2>1. TypeOK'
    BY <1>1 DEF DeliverConsumer, IInv, TypeOK, boundVars, storeVars
  <2>2. consC' = cons /\ UNCHANGED <<now, cons, pc, obj>>
    BY <1>1 DEF DeliverConsumer, boundVars, storeVars
  <2>3. obj.rev <= consC'.rev
    BY <2>2 DEF IInv, Versions
  <2>. QED
    BY <2>1, <2>2, <2>3 DEF IInv, TypeOK, ConsumerObject, Versions, Stages,
       EntitledIsKept, Entitled, Kept, ComputePhase
<1>2. ASSUME DeliverToken \/ Wake \/ \E r \in Readers : DeliverTenant(r)
      PROVE  IInv'
  <2>1. TypeOK'
    BY <1>2 DEF DeliverToken, DeliverTenant, Wake, IInv, TypeOK, boundVars,
                storeVars, cacheVars, workVars
  <2>2. UNCHANGED <<now, cons, consC, pc, obj>>
    BY <1>2 DEF DeliverToken, DeliverTenant, Wake, boundVars, storeVars,
                cacheVars, workVars
  <2>. QED
    BY <2>1, <2>2 DEF IInv, Versions, Stages, EntitledIsKept, Entitled, Kept,
       ComputePhase
<1>. QED
  BY <1>1, <1>2 DEF Deliver

-----------------------------------------------------------------------------
(* Ends of a visit, with the stored Consumer as it was *)

\* Whatever ends a visit and leaves the Consumer alone is harmless.
LEMMA IdleInv ==
    ASSUME IInv, TypeOK', Idle, UNCHANGED <<now, cons, consC>>
    PROVE  IInv'
<1>1. pc' = "idle" /\ obj'.rev = 0
  BY DEF Idle, NoConsumer
<1>2. cons.rev \in Nat
  BY DEF IInv, TypeOK, ConsumerObject
<1>3. Versions'
  BY <1>1, <1>2 DEF IInv, Versions
<1>4. Stages'
  BY <1>1 DEF Stages
<1>5. EntitledIsKept'
  BY DEF IInv, EntitledIsKept, Entitled, Kept, ComputePhase
<1>. QED
  BY <1>3, <1>4, <1>5 DEF IInv

\* A failed call ends the visit and queues the name again.
LEMMA FailureInv ==
    ASSUME IInv, Conflict \/ Refused \/ ApiError
    PROVE  IInv'
<1>1. NoConsumer(0) \in ConsumerObject
  BY NoConsumerType
<1>2. token' \in Token
  <2>1. CASE UNCHANGED token
    BY <2>1 DEF IInv, TypeOK
  <2>2. CASE token' = [there |-> TRUE, rev |-> token.rev + 1, of |-> obj.uid]
    BY <2>2 DEF IInv, TypeOK, Token, ConsumerObject
  <2>. QED
    BY <2>1, <2>2 DEF Conflict, Refused, ApiError
<1>3. faults' \in Nat
  BY DEF Conflict, Refused, ApiError, Fault, IInv, TypeOK
<1>5. Fail /\ UNCHANGED cons
  BY DEF Conflict, Refused, ApiError
<1>6. Idle /\ UNCHANGED <<now, requests, cons, consC, tokenC, tenant, tenantC, later>>
      /\ queued' = TRUE
  BY <1>5 DEF Fail, cacheVars
<1>4. TypeOK'
  BY <1>1, <1>2, <1>3, <1>6 DEF Idle, IInv, TypeOK, Steps
<1>. QED
  BY <1>4, <1>6, IdleInv

LEMMA SkipInv ==
    ASSUME IInv, Skip
    PROVE  IInv'
<1>1. TypeOK'
  BY DEF Skip, Reads, IInv, TypeOK, boundVars, storeVars, cacheVars
<1>2. UNCHANGED <<now, cons, consC, pc, obj>>
  BY DEF Skip, Reads, boundVars, storeVars, cacheVars
<1>. QED
  BY <1>1, <1>2 DEF IInv, Versions, Stages, EntitledIsKept, Entitled, Kept,
     ComputePhase

\* A restart lists everything anew.
LEMMA RestartInv ==
    ASSUME IInv, Restart
    PROVE  IInv'
<1>1. NoConsumer(0) \in ConsumerObject /\ NoConsumer(0).rev = 0
  BY NoConsumerType DEF NoConsumer
<1>2. pc' = "idle" /\ obj' = NoConsumer(0) /\ consC' = cons /\ UNCHANGED cons
  BY DEF Restart, Idle, storeVars
<1>3. TypeOK'
  <2>1. queued' \in BOOLEAN /\ later' \in BOOLEAN
    BY Zenon DEF Restart
  <2>2. tenantC' \in [Readers -> BOOLEAN]
    BY DEF Restart, IInv, TypeOK
  <2>3. UNCHANGED <<now, requests, token, tenant>> /\ tokenC' = token /\ faults' \in Nat
    BY DEF Restart, Fault, storeVars, IInv, TypeOK
  <2>. QED
    BY <1>1, <1>2, <2>1, <2>2, <2>3 DEF IInv, TypeOK, Steps
<1>4. cons.rev \in Nat
  BY DEF IInv, TypeOK, ConsumerObject
<1>5. Versions'
  BY <1>1, <1>2, <1>4 DEF IInv, Versions
<1>6. Stages'
  BY <1>2 DEF Stages
<1>7. EntitledIsKept'
  BY <1>2 DEF EntitledIsKept, Entitled, Kept
<1>. QED
  BY <1>3, <1>5, <1>6, <1>7 DEF IInv

-----------------------------------------------------------------------------
(* Steps of a visit that write nothing *)

\* The worker takes its copy from the cache.
LEMMA BeginInv ==
    ASSUME IInv, Begin
    PROVE  IInv'
<1>1. /\ obj' = consC /\ consC.st # "absent"
      /\ UNCHANGED <<now, cons, consC>>
  BY DEF Begin, Reads, boundVars, storeVars, cacheVars
<1>2. consC.st \in {"live", "deleting"} /\ consC.rev \in Nat
  BY <1>1 DEF IInv, TypeOK, ConsumerObject
<1>3. \/ consC.st = "live" /\ ~consC.fin /\ pc' = "finalize"
      \/ consC.st = "live" /\ consC.fin /\ pc' = "judge"
      \/ consC.st = "deleting" /\ pc' = "cleanup"
  BY <1>2 DEF Begin
<1>4. TypeOK'
  BY <1>1, <1>3 DEF Begin, Reads, IInv, TypeOK, Steps, boundVars, storeVars, cacheVars
<1>5. Versions'
  BY <1>1, <1>3 DEF IInv, Versions
<1>6. EntitledIsKept'
  BY <1>1 DEF IInv, EntitledIsKept, Entitled, Kept, ComputePhase
<1>7. Entitled(obj)' => Kept(obj)'
  BY <1>1, <1>6 DEF EntitledIsKept, Entitled, Kept, ComputePhase
<1>8. Stages'
  BY <1>1, <1>2, <1>3, <1>7 DEF Stages
<1>. QED
  BY <1>4, <1>5, <1>6, <1>8 DEF IInv

\* The verdict on the phase: write it, go on, or leave.
LEMMA JudgeInv ==
    ASSUME IInv, Judge
    PROVE  IInv'
<1>1. UNCHANGED <<now, cons, consC>> /\ obj.st = "live" /\ obj.fin
  BY DEF Judge, Reads, IInv, Stages, boundVars, storeVars, cacheVars
<1>2. EntitledIsKept'
  BY <1>1 DEF IInv, EntitledIsKept, Entitled, Kept, ComputePhase
<1>3. CASE obj.phase # ComputePhase(obj) /\ pc' = "phase"
           /\ obj' = [obj EXCEPT !.phase = ComputePhase(obj)]
  <2>1. obj \in ConsumerObject
    BY DEF IInv, TypeOK
  <2>2. /\ obj'.st = obj.st /\ obj'.rev = obj.rev /\ obj'.fin = obj.fin
        /\ obj'.phase = ComputePhase(obj)
    BY <1>3, <2>1 DEF ConsumerObject
  <2>3. obj' \in ConsumerObject
    BY <1>3, <2>1, PhaseType DEF ConsumerObject
  <2>4. ComputePhase(obj)' = ComputePhase(obj)
    <3>1. obj'.suspended = obj.suspended
      BY <1>3, <2>1 DEF ConsumerObject
    <3>2. obj'.expires = obj.expires
      BY <1>3, <2>1 DEF ConsumerObject
    <3>. QED
      BY <1>1, <3>1, <3>2 DEF ComputePhase
  <2>5. TypeOK'
    BY <1>1, <1>3, <2>2, <2>3 DEF Judge, Goto, Reads, IInv, TypeOK, Steps, boundVars,
       storeVars, cacheVars
  <2>6. Versions'
    BY <1>1, <1>3, <2>2 DEF Judge, IInv, Versions
  <2>7. Stages'
    BY <1>1, <1>3, <2>2, <2>4 DEF Judge, IInv, Stages
  <2>. QED
    BY <1>2, <2>5, <2>6, <2>7 DEF IInv
<1>4. CASE obj.phase = ComputePhase(obj) /\ ComputePhase(obj) = "Active"
           /\ pc' = "look" /\ UNCHANGED obj
  <2>1. TypeOK'
    BY <1>1, <1>4 DEF Judge, Goto, Reads, IInv, TypeOK, Steps, boundVars, storeVars,
       cacheVars
  <2>2. Kept(obj)
    BY <1>1, <1>4 DEF Judge, IInv, Stages, Entitled
  <2>3. Kept(obj)'
    BY <1>1, <1>4, <2>2 DEF Kept
  <2>4. Versions'
    BY <1>1, <1>4 DEF Judge, IInv, Versions
  <2>5. Stages'
    BY <1>4, <2>3 DEF Stages
  <2>. QED
    BY <1>2, <2>1, <2>4, <2>5 DEF IInv
<1>5. CASE Return
  <2>1. TypeOK'
    BY <1>5, NoConsumerType DEF Judge, Return, Idle, Reads, IInv, TypeOK, Steps,
       boundVars, storeVars, cacheVars
  <2>. QED
    BY <1>1, <1>5, <2>1, IdleInv DEF Return
<1>. QED
  BY <1>3, <1>4, <1>5 DEF Judge, Goto

-----------------------------------------------------------------------------
(* Writes of the Consumer *)

\* A write that passes the version check makes a new version or changes nothing.
LEMMA StoredRev ==
    ASSUME TypeOK, NEW new \in ConsumerObject
    PROVE  /\ Stored(new) \in ConsumerObject
           /\ Stored(new) = cons \/ Stored(new).rev = cons.rev + 1
           /\ Stored(new).st = new.st /\ Stored(new).uid = new.uid
           /\ Stored(new).fin = new.fin
           /\ Stored(new).phase = new.phase
           /\ ComputePhase(Stored(new)) = ComputePhase(new)
<1>1. Stored(new) \in ConsumerObject
  BY StoredType
<1>2. CASE new = cons
  BY <1>1, <1>2 DEF Stored
<1>3. CASE new # cons
  <2>1. Stored(new) = [new EXCEPT !.rev = cons.rev + 1]
    BY <1>3 DEF Stored
  <2>2. Stored(new).rev = cons.rev + 1
    BY <2>1 DEF ConsumerObject
  <2>3. Stored(new).st = new.st /\ Stored(new).uid = new.uid
    BY <2>1 DEF ConsumerObject
  <2>4. Stored(new).fin = new.fin
    BY <2>1 DEF ConsumerObject
  <2>5. Stored(new).phase = new.phase
    BY <2>1 DEF ConsumerObject
  <2>6. Stored(new).suspended = new.suspended
    BY <2>1 DEF ConsumerObject
  <2>7. Stored(new).expires = new.expires
    BY <2>1 DEF ConsumerObject
  <2>8. ComputePhase(Stored(new)) = ComputePhase(new)
    BY <2>6, <2>7 DEF ComputePhase
  <2>. QED
    BY <1>1, <2>2, <2>3, <2>4, <2>5, <2>8
<1>. QED
  BY <1>2, <1>3

\* The one write that is not of a guarded Consumer.
LEMMA AddFinalizerInv ==
    ASSUME IInv, AddFinalizer
    PROVE  IInv'
<1> DEFINE new == [obj EXCEPT !.fin = TRUE]
<1>1. obj \in ConsumerObject /\ cons \in ConsumerObject /\ consC \in ConsumerObject
  BY DEF IInv, TypeOK
<1>2. /\ pc = "finalize" /\ cons.rev = obj.rev
      /\ obj' = Stored(new) /\ cons' = Stored(new)
      /\ pc' = "judge"
      /\ UNCHANGED <<now, consC>>
  BY DEF AddFinalizer, Write, Current, Goto, boundVars, cacheVars
<1>3. obj = cons /\ obj.st = "live" /\ ~obj.fin /\ obj.rev = consC.rev /\ consC = cons
  BY <1>1, <1>2 DEF IInv, Versions, Stages, ConsumerObject
<1>4. new \in ConsumerObject
  BY <1>1 DEF ConsumerObject
<1>5. new.fin
  BY <1>1 DEF ConsumerObject
<1>6. new.st = "live"
  BY <1>1, <1>3 DEF ConsumerObject
<1>7. new # cons
  BY <1>3, <1>5
<1>8. /\ cons' \in ConsumerObject
      /\ cons'.rev = cons.rev + 1
      /\ cons'.st = "live" /\ cons'.fin
  <2>. HIDE DEF new
  <2>1. TypeOK
    BY DEF IInv
  <2>2. /\ Stored(new) \in ConsumerObject /\ Stored(new).st = new.st
        /\ Stored(new).fin = new.fin
    BY <1>4, <2>1, StoredRev
  <2>3. Stored(new).rev = cons.rev + 1
    BY <1>4, <1>7 DEF Stored, ConsumerObject
  <2>. QED
    BY <1>2, <1>5, <1>6, <2>2, <2>3
<1>. HIDE DEF new
<1>9. TypeOK'
  BY <1>2, <1>8 DEF AddFinalizer, Write, Goto, IInv, TypeOK, Steps, boundVars, cacheVars
<1>10. cons.rev \in Nat
  BY <1>1 DEF ConsumerObject
<1>11. Versions'
  BY <1>2, <1>3, <1>8, <1>10 DEF Versions
<1>12. Stages'
  BY <1>2, <1>3, <1>8 DEF Stages, Entitled, Kept
<1>13. EntitledIsKept'
  BY <1>2, <1>3 DEF EntitledIsKept, Entitled
<1>. QED
  BY <1>9, <1>11, <1>12, <1>13 DEF IInv

\* The new phase is written over the version it was computed from.
LEMMA WritePhaseInv ==
    ASSUME IInv, WritePhase
    PROVE  IInv'
<1>1. TypeOK /\ obj \in ConsumerObject /\ cons \in ConsumerObject /\ consC \in ConsumerObject
  BY DEF IInv, TypeOK
<1>2. /\ pc = "phase" /\ cons.rev = obj.rev
      /\ cons' = Stored(obj)
      /\ UNCHANGED <<now, consC>>
  BY DEF WritePhase, Current, boundVars, cacheVars
<1>3. /\ obj.st = "live" /\ obj.fin
      /\ obj.phase = "Active" \/ ComputePhase(obj) # "Active"
      /\ obj.rev <= consC.rev \/ ~consC.fin
  BY <1>2 DEF IInv, Stages
<1>4. /\ cons' \in ConsumerObject
      /\ cons' = cons \/ cons'.rev = cons.rev + 1
      /\ cons'.st = "live" /\ cons'.uid = obj.uid /\ cons'.fin
      /\ cons'.phase = obj.phase
  BY <1>1, <1>2, <1>3, StoredRev
<1>5. /\ cons.rev \in Nat /\ consC.rev \in Nat /\ consC.rev <= cons.rev
      /\ consC.rev = cons.rev => consC = cons
  BY <1>1 DEF IInv, Versions, ConsumerObject
<1>6. obj = [cons EXCEPT !.phase = obj.phase]
  BY <1>2 DEF IInv, Versions
<1>7. ComputePhase(cons) = ComputePhase(obj)
  <2>1. obj.suspended = cons.suspended
    BY <1>1, <1>6 DEF ConsumerObject
  <2>2. obj.expires = cons.expires
    BY <1>1, <1>6 DEF ConsumerObject
  <2>. QED
    BY <2>1, <2>2 DEF ComputePhase
<1>8. cons.uid = obj.uid
  BY <1>1, <1>6 DEF ConsumerObject
<1>9. EntitledIsKept'
  <2>. SUFFICES ASSUME Entitled(consC)
                PROVE  Kept(consC)'
    BY <1>2 DEF EntitledIsKept, Entitled, ComputePhase
  <2>1. consC.fin /\ ComputePhase(consC) = "Active"
    BY DEF Entitled
  <2>2. consC = cons
    BY <1>2, <1>3, <1>5, <2>1
  <2>3. cons'.phase = "Active"
    BY <1>3, <1>4, <1>7, <2>1, <2>2
  <2>. QED
    BY <1>2, <1>4, <1>8, <2>2, <2>3 DEF Kept
<1>10. CASE obj.phase = "Active"
  <2>1. pc' = "look" /\ obj' = cons'
    BY <1>10 DEF WritePhase, Goto
  <2>2. TypeOK'
    BY <1>1, <1>2, <1>4, <1>10, <2>1 DEF WritePhase, Goto, TypeOK, Steps, boundVars, cacheVars
  <2>3. Versions'
    BY <1>2, <1>4, <1>5, <2>1 DEF Versions
  <2>4. Stages'
    BY <1>4, <1>10, <2>1 DEF Stages, Kept
  <2>. QED
    BY <1>9, <2>2, <2>3, <2>4 DEF IInv
<1>11. CASE obj.phase # "Active"
  <2>1. pc' = "idle" /\ obj' = NoConsumer(0) /\ UNCHANGED queued
    BY <1>11 DEF WritePhase, Return, Idle
  <2>4. NoConsumer(0) \in ConsumerObject /\ NoConsumer(0).rev = 0
    BY NoConsumerType DEF NoConsumer
  <2>2. TypeOK'
    BY <1>1, <1>2, <1>4, <2>1, <2>4 DEF WritePhase, TypeOK, Steps, boundVars, cacheVars
  <2>3. Versions'
    BY <1>2, <1>4, <1>5, <2>1, <2>4 DEF Versions
  <2>5. Stages'
    BY <2>1 DEF Stages
  <2>. QED
    BY <1>9, <2>2, <2>3, <2>5 DEF IInv
<1>. QED
  BY <1>10, <1>11

\* A write of the reference to the token, by a worker that keeps its copy or
\* ends its visit.
LEMMA WriteRefInv ==
    ASSUME IInv, NEW b \in BOOLEAN,
           pc \in {"clear", "record"},
           Current,
           cons' = Stored([obj EXCEPT !.ref = b]),
           \/ obj' = cons' /\ pc' = "tenant"
           \/ obj' = NoConsumer(0) /\ pc' = "idle",
           UNCHANGED <<queued, boundVars, token, tenant, cacheVars, later>>
    PROVE  IInv'
<1> DEFINE new == [obj EXCEPT !.ref = b]
<1>1. TypeOK /\ obj \in ConsumerObject /\ cons \in ConsumerObject /\ consC \in ConsumerObject
  BY DEF IInv, TypeOK
<1>2. cons.rev = obj.rev /\ obj = cons /\ cons.st # "absent" /\ Kept(obj)
  BY DEF Current, IInv, Versions, Stages
<1>3. new \in ConsumerObject
  BY <1>1 DEF ConsumerObject
<1>4. new.st = obj.st /\ new.uid = obj.uid
  BY <1>1 DEF ConsumerObject
<1>5. new.fin = obj.fin
  BY <1>1 DEF ConsumerObject
<1>6. new.phase = obj.phase
  BY <1>1 DEF ConsumerObject
<1>. HIDE DEF new
<1>7. cons' = Stored(new)
  BY DEF new
<1>8. /\ cons' \in ConsumerObject
      /\ cons' = cons \/ cons'.rev = cons.rev + 1
      /\ cons'.st = cons.st /\ cons'.uid = cons.uid
      /\ cons'.fin = cons.fin
      /\ cons'.phase = cons.phase
  BY <1>1, <1>2, <1>3, <1>4, <1>5, <1>6, <1>7, StoredRev
<1>9. NoConsumer(0) \in ConsumerObject /\ NoConsumer(0).rev = 0
  BY NoConsumerType DEF NoConsumer
<1>10. obj' \in ConsumerObject /\ pc' \in {"tenant", "idle"}
       /\ (pc' # "idle" => obj'.st # "absent")
  BY <1>2, <1>8, <1>9
<1>11. TypeOK'
  BY <1>1, <1>8, <1>10 DEF TypeOK, Steps, boundVars, cacheVars
<1>12. UNCHANGED <<now, consC>>
  BY DEF boundVars, cacheVars
<1>13. /\ cons.rev \in Nat /\ consC.rev \in Nat /\ consC.rev <= cons.rev
       /\ consC.rev = cons.rev => consC = cons
  BY <1>1 DEF IInv, Versions, ConsumerObject
<1>14. cons.fin
  BY <1>2 DEF Kept
<1>15. Versions'
  <2>1. cons'.st # "absent" /\ consC'.rev <= cons'.rev
    BY <1>2, <1>8, <1>12, <1>13
  <2>2. consC'.rev = cons'.rev => consC' = cons'
    BY <1>8, <1>12, <1>13
  <2>3. obj'.rev <= cons'.rev
    BY <1>8, <1>9, <1>13
  <2>. QED
    BY <1>9, <1>10, <2>1, <2>2, <2>3 DEF Versions
<1>16. Stages'
  BY <1>2, <1>8, <1>10 DEF Stages, Kept
<1>17. EntitledIsKept'
  BY <1>8, <1>12 DEF IInv, EntitledIsKept, Entitled, Kept, ComputePhase
<1>. QED
  BY <1>11, <1>15, <1>16, <1>17 DEF IInv

LEMMA RefInv ==
    ASSUME IInv, ClearRef \/ RecordRef
    PROVE  IInv'
<1>1. CASE ClearRef
  BY <1>1, WriteRefInv DEF ClearRef, Write, Goto
<1>2. CASE RecordRef
  BY <1>2, WriteRefInv DEF RecordRef, Return, Idle
<1>. QED
  BY <1>1, <1>2

-----------------------------------------------------------------------------
(* The other steps of a visit *)

\* A step to another stage that leaves the Consumer, its cached version and
\* the worker's copy alone.
LEMMA ThroughInv ==
    ASSUME IInv, TypeOK', UNCHANGED <<now, cons, consC, obj>>,
           \/ pc \in {"look", "tenant", "issue"} /\ pc' \in {"clear", "tenant", "issue", "record"}
           \/ pc \in {"cleanup", "purge"} /\ pc' \in {"purge", "release"}
    PROVE  IInv'
<1>1. Versions'
  BY DEF IInv, Versions
<1>2. Stages'
  BY DEF IInv, Stages, Kept
<1>3. EntitledIsKept'
  BY DEF IInv, EntitledIsKept, Entitled, Kept, ComputePhase
<1>. QED
  BY <1>1, <1>2, <1>3 DEF IInv

LEMMA LookInv ==
    ASSUME IInv, Look \/ FindTenant \/ Cleanup
    PROVE  IInv'
<1>1. /\ UNCHANGED <<now, requests, faults, cons, token, tenant, consC, tokenC, tenantC>>
      /\ later' \in BOOLEAN
      /\ pc # "idle"
  BY DEF Look, FindTenant, Cleanup, Reads, IInv, TypeOK, boundVars, storeVars, cacheVars
<1>2. CASE Return
  <2>1. TypeOK'
    BY <1>1, <1>2, NoConsumerType DEF Return, Idle, IInv, TypeOK, Steps
  <2>. QED
    BY <1>1, <1>2, <2>1, IdleInv DEF Return
<1>3. CASE UNCHANGED <<queued, obj>> /\
           (\/ pc \in {"look", "tenant"} /\ pc' \in {"clear", "tenant", "issue"}
            \/ pc = "cleanup" /\ pc' \in {"purge", "release"})
  <2>1. TypeOK'
    BY <1>1, <1>3 DEF IInv, TypeOK, Steps
  <2>. QED
    BY <1>1, <1>3, <2>1, ThroughInv
<1>. QED
  BY <1>2, <1>3 DEF Look, FindTenant, Cleanup, Goto

LEMMA TokenInv ==
    ASSUME IInv, Issue \/ PurgeToken
    PROVE  IInv'
<1>1. NoToken(token.rev + 1) \in Token
  BY NoTokenType DEF IInv, TypeOK, Token
<1>2. [there |-> TRUE, rev |-> token.rev + 1, of |-> obj.uid] \in Token
  BY DEF IInv, TypeOK, Token, ConsumerObject
<1>3. token' \in Token
  BY <1>1, <1>2 DEF Issue, PurgeToken, IInv, TypeOK
<1>4. /\ UNCHANGED <<now, requests, faults, cons, tenant, consC, tokenC, tenantC>>
      /\ UNCHANGED <<queued, later, obj>>
      /\ \/ pc = "issue" /\ pc' = "record"
         \/ pc = "purge" /\ pc' = "release"
  BY DEF Issue, PurgeToken, Goto, boundVars, cacheVars
<1>5. TypeOK'
  BY <1>3, <1>4 DEF IInv, TypeOK, Steps
<1>. QED
  BY <1>4, <1>5, ThroughInv

\* The finalizer goes only with the version that was cached when the visit
\* began, which was being deleted.
LEMMA RemoveFinalizerInv ==
    ASSUME IInv, RemoveFinalizer
    PROVE  IInv'
<1>1. cons \in ConsumerObject /\ consC \in ConsumerObject /\ obj \in ConsumerObject
  BY DEF IInv, TypeOK
<1>2. /\ pc = "release" /\ cons.rev = obj.rev
      /\ cons' = NoConsumer(cons.rev + 1)
      /\ pc' = "idle" /\ obj' = NoConsumer(0)
      /\ UNCHANGED <<now, requests, faults, token, tenant, consC, tokenC, tenantC, queued, later>>
  BY DEF RemoveFinalizer, Current, Return, Idle, boundVars, cacheVars
<1>3. cons.rev \in Nat
  BY <1>1 DEF ConsumerObject
<1>4. /\ cons' \in ConsumerObject /\ cons'.rev = cons.rev + 1 /\ ~cons'.fin
      /\ obj' \in ConsumerObject /\ obj'.rev = 0
  BY <1>2, <1>3, NoConsumerType DEF NoConsumer
<1>5. consC = cons /\ consC.st = "deleting"
  BY <1>1, <1>2 DEF IInv, Versions, Stages, ConsumerObject
<1>6. TypeOK'
  BY <1>2, <1>4 DEF IInv, TypeOK, Steps
<1>7. Versions'
  BY <1>2, <1>3, <1>4, <1>5 DEF Versions
<1>8. Stages'
  BY <1>2 DEF Stages
<1>9. EntitledIsKept'
  BY <1>2, <1>5 DEF EntitledIsKept, Entitled
<1>. QED
  BY <1>6, <1>7, <1>8, <1>9 DEF IInv

-----------------------------------------------------------------------------
(* The theorems *)

\* Every step preserves the inductive invariant.
LEMMA StepInv == IInv /\ [Next]_vars => IInv'
<1>. SUFFICES ASSUME IInv, [Next]_vars
              PROVE  IInv'
  OBVIOUS
<1>1. CASE UNCHANGED vars
  BY <1>1 DEF IInv, TypeOK, Versions, Stages, EntitledIsKept, Entitled, Kept,
     ComputePhase, vars, boundVars, storeVars, cacheVars, workVars
<1>2. CASE User \/ Tick
  BY <1>2, UserInv, TickInv
<1>3. CASE Deliver \/ Wake
  BY <1>3, EventInv
<1>4. CASE Skip \/ Begin \/ Judge
  BY <1>4, SkipInv, BeginInv, JudgeInv
<1>5. CASE AddFinalizer \/ WritePhase \/ ClearRef \/ RecordRef \/ RemoveFinalizer
  BY <1>5, AddFinalizerInv, WritePhaseInv, RefInv, RemoveFinalizerInv
<1>6. CASE Look \/ FindTenant \/ Cleanup \/ Issue \/ PurgeToken
  BY <1>6, LookInv, TokenInv
<1>7. CASE Conflict \/ Refused \/ ApiError \/ Restart
  BY <1>7, FailureInv, RestartInv
<1>. QED
  BY <1>1, <1>2, <1>3, <1>4, <1>5, <1>6, <1>7 DEF Next, Worker

\* The inductive invariant holds always.
LEMMA Invariant == Spec => []IInv
<1>. QED
  BY InitInv, StepInv, PTL DEF Spec

\* Every variable keeps its type, and a worker at work holds a Consumer.
THEOREM TypeCorrect == Spec => []TypeOK
<1>1. IInv => TypeOK
  BY DEF IInv
<1>. QED
  BY <1>1, Invariant, PTL

\* The Create of the token checks nothing, yet a token is only issued for the
\* stored incarnation, guarded by the finalizer and published as Active: the
\* worker's copy was the stored version when it was last written, and no
\* request takes the phase or the finalizer away afterwards.
THEOREM IssuedWhileActiveHolds == Spec => IssuedWhileActive
<1>. DEFINE Good == ~token.there /\ token'.there =>
                       /\ cons.uid = token'.of
                       /\ cons.fin
                       /\ cons.phase = "Active"
<1>1. IInv /\ [Next]_vars => [Good]_vars
  <2>. SUFFICES ASSUME IInv, Next, ~token.there, token'.there
                PROVE  cons.uid = token'.of /\ cons.fin /\ cons.phase = "Active"
    OBVIOUS
  <2>1. token' # token
    OBVIOUS
  <2>2. token' # NoToken(token.rev + 1)
    BY DEF NoToken
  <2>3. Issue \/ ApiError
    BY <2>1, <2>2 DEF Next, User, UserCreate, UserEdit, UserDelete, UserTenant,
       UserDropToken, Tick, Deliver, DeliverConsumer, DeliverToken,
       DeliverTenant, Wake, Worker, Skip, Begin, AddFinalizer, Judge, WritePhase,
       Look, ClearRef, FindTenant, RecordRef, Cleanup, PurgeToken,
       RemoveFinalizer, Conflict, Refused, Restart, Reads, Write, Fail,
       boundVars, storeVars, cacheVars, workVars
  <2>4. pc = "issue" /\ token' = [there |-> TRUE, rev |-> token.rev + 1, of |-> obj.uid]
    BY <2>1, <2>3 DEF Issue, ApiError
  <2>5. Kept(obj)
    BY <2>4 DEF IInv, Stages
  <2>. QED
    BY <2>4, <2>5 DEF Kept
<1>. QED
  BY <1>1, Invariant, PTL DEF Spec, IssuedWhileActive
=============================================================================

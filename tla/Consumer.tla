------------------------------ MODULE Consumer ------------------------------
(***************************************************************************)
(* The Consumer controller (pkg/controllers/consumer) and the webhook that *)
(* admits Consumers (pkg/webhook/consumer), for one Consumer name: nothing *)
(* the controller touches is shared between names.                         *)
(*                                                                         *)
(* The worker reads Consumer, token Secret and Tenant from the informer    *)
(* caches and writes to the API server; one action per call and one per    *)
(* reading of a cache.  The signing key is SigningKey's business.  As in   *)
(* Cluster, "rev" is the resourceVersion, "uid" the rev an incarnation was *)
(* created with, "gen" metadata.generation.                                *)
(***************************************************************************)
EXTENDS Naturals

CONSTANTS
    None,
    Expiries,       \* values of spec.expiresAt (None: not set)
    Horizon,        \* bound: the clock stops here
    MaxRequests,    \* bound on what users do
    MaxFaults       \* bound on failed calls and restarts

ASSUME ConsumerAssumption ==
    /\ None \notin Nat
    /\ Expiries \subseteq Nat \cup {None}
    /\ {Horizon, MaxRequests, MaxFaults} \subseteq Nat

VARIABLES
    now, requests, faults,
    cons, consC,        \* the Consumer: stored, and cached by the manager
    token, tokenC,      \* its token Secret: stored, and cached
    tenant, tenantC,    \* whether its Tenant exists: in truth, and as cached
                        \* by the manager and by the webhook
    queued,             \* the name waits for the worker
    later,              \* RequeueAfter
    pc,                 \* what Reconcile does next
    obj                 \* the worker's copy of the Consumer

storeVars == <<cons, token, tenant>>
cacheVars == <<consC, tokenC, tenantC>>
boundVars == <<now, requests, faults>>
workVars == <<queued, later, pc, obj>>
vars == <<boundVars, storeVars, cacheVars, workVars>>

Phases == {"Active", "Suspended", "Expired"}
Readers == {"manager", "webhook"}
Steps == {"idle", "finalize", "judge", "phase", "look", "clear", "tenant",
          "issue", "record", "cleanup", "purge", "release"}

-----------------------------------------------------------------------------
(* Objects *)

ConsumerObject ==
    [st : {"absent", "live", "deleting"}, rev : Nat, uid : Nat, gen : Nat,
     fin : BOOLEAN, suspended : BOOLEAN, expires : Nat \cup {None},
     phase : Phases \cup {None}, ref : BOOLEAN]

Token == [there : BOOLEAN, rev : Nat, of : Nat]

NoConsumer(rev) ==
    [st |-> "absent", rev |-> rev, uid |-> 0, gen |-> 0, fin |-> FALSE,
     suspended |-> FALSE, expires |-> None, phase |-> None, ref |-> FALSE]

NoToken(rev) == [there |-> FALSE, rev |-> rev, of |-> 0]

Current == cons.st # "absent" /\ cons.rev = obj.rev

Stored(new) == IF new = cons THEN new ELSE [new EXCEPT !.rev = cons.rev + 1]

\* expiresAt, when set, must lie in the future.
Admitted(expires) == expires # None => expires > now

ComputePhase(c) ==
    CASE c.suspended -> "Suspended"
      [] ~c.suspended /\ c.expires # None /\ c.expires < now -> "Expired"
      [] OTHER -> "Active"

-----------------------------------------------------------------------------
(* Users, and the webhook that judges what they ask for *)

Request == requests < MaxRequests /\ requests' = requests + 1

\* The webhook looks the Tenant up in its own cache.
UserCreate(suspended, expires) ==
    /\ Request
    /\ cons.st = "absent"
    /\ tenantC["webhook"]
    /\ Admitted(expires)
    /\ cons' = [NoConsumer(cons.rev + 1) EXCEPT
                  !.st = "live", !.uid = cons.rev + 1, !.gen = 1,
                  !.suspended = suspended, !.expires = expires]
    /\ UNCHANGED <<now, faults, token, tenant, cacheVars, workVars>>

UserEdit(suspended, expires) ==
    /\ Request
    /\ cons.st # "absent"
    /\ Admitted(expires)
    /\ <<cons.suspended, cons.expires>> # <<suspended, expires>>
    /\ cons' = [cons EXCEPT !.rev = @ + 1, !.gen = @ + 1,
                            !.suspended = suspended, !.expires = expires]
    /\ UNCHANGED <<now, faults, token, tenant, cacheVars, workVars>>

UserDelete ==
    /\ Request
    /\ cons.st = "live"
    /\ cons' = IF cons.fin
               THEN [cons EXCEPT !.st = "deleting", !.rev = @ + 1, !.gen = @ + 1]
               ELSE NoConsumer(cons.rev + 1)
    /\ UNCHANGED <<now, faults, token, tenant, cacheVars, workVars>>

\* Nothing keeps a Tenant that Consumers refer to.
UserTenant ==
    /\ Request
    /\ tenant' = ~tenant
    /\ UNCHANGED <<now, faults, cons, token, cacheVars, workVars>>

UserDropToken ==
    /\ Request
    /\ token.there
    /\ token' = NoToken(token.rev + 1)
    /\ UNCHANGED <<now, faults, cons, tenant, cacheVars, workVars>>

Tick ==
    /\ now < Horizon
    /\ now' = now + 1
    /\ UNCHANGED <<requests, faults, storeVars, cacheVars, workVars>>

-----------------------------------------------------------------------------
(* Events *)

\* GenerationChangedPredicate lets creations, deletions and spec changes pass.
DeliverConsumer ==
    /\ consC # cons
    /\ consC' = cons
    /\ queued' = (queued \/ <<consC.uid, consC.gen>> # <<cons.uid, cons.gen>>)
    /\ UNCHANGED <<boundVars, storeVars, tokenC, tenantC, later, pc, obj>>

\* The token Secret carries the name of the Consumer in a label.
DeliverToken ==
    /\ tokenC # token
    /\ tokenC' = token
    /\ queued' = TRUE
    /\ UNCHANGED <<boundVars, storeVars, consC, tenantC, later, pc, obj>>

\* Nobody is told about a Tenant.
DeliverTenant(r) ==
    /\ tenantC[r] # tenant
    /\ tenantC' = [tenantC EXCEPT ![r] = tenant]
    /\ UNCHANGED <<boundVars, storeVars, consC, tokenC, workVars>>

\* RequeueAfter comes due.
Wake ==
    /\ later
    /\ later' = FALSE
    /\ queued' = TRUE
    /\ UNCHANGED <<boundVars, storeVars, cacheVars, pc, obj>>

-----------------------------------------------------------------------------
(* Reconcile *)

Idle == pc' = "idle" /\ obj' = NoConsumer(0)
Return == Idle /\ UNCHANGED queued
Goto(step) == pc' = step /\ UNCHANGED queued

Reads == UNCHANGED <<boundVars, storeVars, cacheVars, later>>

Skip ==
    /\ pc = "idle"
    /\ queued
    /\ consC.st = "absent"
    /\ queued' = FALSE
    /\ Reads /\ UNCHANGED <<pc, obj>>

\* MUTANT: that the Consumer is not found goes unnoticed.
BeginBlind ==
    /\ pc = "idle"
    /\ queued
    /\ queued' = FALSE
    /\ obj' = consC
    /\ pc' = CASE consC.st = "live" /\ ~consC.fin -> "finalize"
               [] consC.st = "live" /\ consC.fin -> "judge"
               [] OTHER -> "cleanup"
    /\ Reads

\* MUTANT: the finalizer is not added.
BeginUnguarded ==
    /\ pc = "idle"
    /\ queued
    /\ consC.st # "absent"
    /\ queued' = FALSE
    /\ obj' = consC
    /\ pc' = IF consC.st = "live" THEN "judge" ELSE "cleanup"
    /\ Reads

Begin ==
    /\ pc = "idle"
    /\ queued
    /\ consC.st # "absent"
    /\ queued' = FALSE
    /\ obj' = consC
    /\ pc' = CASE consC.st = "live" /\ ~consC.fin -> "finalize"
               [] consC.st = "live" /\ consC.fin -> "judge"
               [] consC.st = "deleting" -> "cleanup"
    /\ Reads

\* A write that passes the version check.
Write(new) ==
    /\ Current
    /\ obj' = Stored(new)
    /\ cons' = obj'
    /\ UNCHANGED <<boundVars, token, tenant, cacheVars, later>>

\* Update passes the webhook, an update of the status does not.
AddFinalizer ==
    /\ pc = "finalize"
    /\ Admitted(obj.expires)
    /\ Write([obj EXCEPT !.fin = TRUE])
    /\ Goto("judge")

Judge ==
    /\ pc = "judge"
    /\ LET desired == ComputePhase(obj)
       IN  \/ /\ obj.phase # desired
              /\ obj' = [obj EXCEPT !.phase = desired]
              /\ Goto("phase")
           \/ /\ obj.phase = desired /\ desired = "Active"
              /\ Goto("look") /\ UNCHANGED obj
           \/ /\ obj.phase = desired /\ desired # "Active"
              /\ Return
    /\ Reads

WritePhase ==
    /\ pc = "phase"
    /\ Current
    /\ cons' = Stored(obj)
    /\ IF obj.phase = "Active" THEN Goto("look") /\ obj' = cons' ELSE Return
    /\ UNCHANGED <<boundVars, token, tenant, cacheVars, later>>

\* Is the recorded token Secret still there?
Look ==
    /\ pc = "look"
    /\ \/ ~obj.ref /\ Goto("tenant") /\ UNCHANGED obj
       \/ obj.ref /\ tokenC.there /\ Return
       \/ obj.ref /\ ~tokenC.there /\ Goto("clear") /\ UNCHANGED obj
    /\ Reads

ClearRef ==
    /\ pc = "clear"
    /\ Write([obj EXCEPT !.ref = FALSE])
    /\ Goto("tenant")

\* MUTANT: the visit is not repeated when there is no Tenant.
FindTenantOnce ==
    /\ pc = "tenant"
    /\ \/ tenantC["manager"] /\ Goto("issue") /\ UNCHANGED <<obj, later>>
       \/ ~tenantC["manager"] /\ Return /\ UNCHANGED later
    /\ UNCHANGED <<boundVars, storeVars, cacheVars>>

FindTenant ==
    /\ pc = "tenant"
    /\ \/ tenantC["manager"] /\ Goto("issue") /\ UNCHANGED <<obj, later>>
       \/ ~tenantC["manager"] /\ Return /\ later' = TRUE
    /\ UNCHANGED <<boundVars, storeVars, cacheVars>>

\* A Secret that is there already is taken for the one just issued.
Issue ==
    /\ pc = "issue"
    /\ token' = IF token.there THEN token
                ELSE [there |-> TRUE, rev |-> token.rev + 1, of |-> obj.uid]
    /\ Goto("record")
    /\ UNCHANGED <<boundVars, cons, tenant, cacheVars, later, obj>>

RecordRef ==
    /\ pc = "record"
    /\ Current
    /\ cons' = Stored([obj EXCEPT !.ref = TRUE])
    /\ Return
    /\ UNCHANGED <<boundVars, token, tenant, cacheVars, later>>

-----------------------------------------------------------------------------
(* reconcileDelete *)

Cleanup ==
    /\ pc = "cleanup"
    /\ Goto(IF obj.ref /\ tokenC.there THEN "purge" ELSE "release")
    /\ Reads /\ UNCHANGED obj

\* That there is nothing to delete is no error.
PurgeToken ==
    /\ pc = "purge"
    /\ token' = IF token.there THEN NoToken(token.rev + 1) ELSE token
    /\ Goto("release")
    /\ UNCHANGED <<boundVars, cons, tenant, cacheVars, later, obj>>

RemoveFinalizer ==
    /\ pc = "release"
    /\ Current
    /\ Admitted(obj.expires)
    /\ cons' = NoConsumer(cons.rev + 1)
    /\ Return
    /\ UNCHANGED <<boundVars, token, tenant, cacheVars, later>>

-----------------------------------------------------------------------------
(* Failures *)

Fail == Idle /\ queued' = TRUE /\ UNCHANGED <<now, requests, tenant, cacheVars, later>>

Writes == {"finalize", "phase", "clear", "record", "release"}

Conflict ==
    /\ pc \in Writes
    /\ ~Current
    /\ Fail
    /\ UNCHANGED <<faults, cons, token>>

\* The webhook turns the controller's own Update down, like anybody's.
Refused ==
    /\ pc \in {"finalize", "release"}
    /\ ~Admitted(obj.expires)
    /\ Fail
    /\ UNCHANGED <<faults, cons, token>>

Fault == faults < MaxFaults /\ faults' = faults + 1

\* MUTANT: the error is swallowed.
ApiErrorSwallowed ==
    /\ Fault
    /\ pc \in Writes \cup {"issue", "purge"}
    /\ Return
    /\ UNCHANGED <<now, requests, storeVars, cacheVars, later>>

\* Any call may fail; a Create may have taken effect all the same.
ApiError ==
    /\ Fault
    /\ pc \in Writes \cup {"issue", "purge"}
    /\ \/ UNCHANGED token
       \/ pc = "issue" /\ ~token.there
          /\ token' = [there |-> TRUE, rev |-> token.rev + 1, of |-> obj.uid]
    /\ Fail
    /\ UNCHANGED cons

\* The manager restarts, and every Consumer and token Secret is new to it.
Restart ==
    /\ Fault
    /\ consC' = cons
    /\ tokenC' = token
    /\ tenantC' = [tenantC EXCEPT !["manager"] = tenant]
    /\ queued' = (cons.st # "absent" \/ token.there)
    /\ later' = FALSE
    /\ Idle
    /\ UNCHANGED <<now, requests, storeVars>>

-----------------------------------------------------------------------------
Init ==
    /\ now = 0 /\ requests = 0 /\ faults = 0
    /\ cons = NoConsumer(0) /\ consC = NoConsumer(0)
    /\ token = NoToken(0) /\ tokenC = NoToken(0)
    /\ tenant = TRUE
    /\ tenantC = [r \in Readers |-> TRUE]
    /\ queued = FALSE /\ later = FALSE
    /\ pc = "idle" /\ obj = NoConsumer(0)

User ==
    \/ \E s \in BOOLEAN, e \in Expiries : UserCreate(s, e) \/ UserEdit(s, e)
    \/ UserDelete \/ UserTenant \/ UserDropToken

Worker ==
    \/ Skip \/ Begin \/ AddFinalizer \/ Judge \/ WritePhase
    \/ Look \/ ClearRef \/ FindTenant \/ Issue \/ RecordRef
    \/ Cleanup \/ PurgeToken \/ RemoveFinalizer
    \/ Conflict \/ Refused

Deliver == DeliverConsumer \/ DeliverToken \/ \E r \in Readers : DeliverTenant(r)

Next == User \/ Tick \/ Deliver \/ Wake \/ Worker \/ ApiError \/ Restart

Spec == Init /\ [][Next]_vars

\* The caches catch up, timers fire, the worker works on.
Fairness ==
    /\ WF_vars(DeliverConsumer)
    /\ WF_vars(DeliverToken)
    /\ \A r \in Readers : WF_vars(DeliverTenant(r))
    /\ WF_vars(Wake)
    /\ WF_vars(Worker)

FairSpec == Spec /\ Fairness
-----------------------------------------------------------------------------
(* Properties *)

TypeOK ==
    /\ now \in Nat /\ requests \in Nat /\ faults \in Nat
    /\ cons \in ConsumerObject /\ consC \in ConsumerObject
    /\ obj \in ConsumerObject
    /\ token \in Token /\ tokenC \in Token
    /\ tenant \in BOOLEAN /\ tenantC \in [Readers -> BOOLEAN]
    /\ queued \in BOOLEAN /\ later \in BOOLEAN
    /\ pc \in Steps
    /\ pc # "idle" => obj.st # "absent"

\* A token is only ever issued for the incarnation of the Consumer that is
\* stored and holds the finalizer, and while its published phase is Active:
\* the Create itself checks none of this and works from a cached copy.
IssuedWhileActive ==
    [][~token.there /\ token'.there =>
          /\ cons.uid = token'.of
          /\ cons.fin
          /\ cons.phase = "Active"]_vars

\* Without an expiry, a Consumer ends up with the phase its spec asks for,
\* and an active one whose Tenant exists with a token Secret that is there,
\* whoever deleted tokens or the Tenant, and whichever call failed, before.
Served ==
    cons.st = "live" /\ cons.expires = None =>
       /\ cons.phase = IF cons.suspended THEN "Suspended" ELSE "Active"
       /\ ~cons.suspended => token.there

Serves == <>[]tenant => <>[]Served

\* A deleted Consumer that has no expiry is eventually gone.
Released ==
    (cons.st = "deleting" /\ cons.expires = None)
       ~> (cons.st # "deleting" \/ cons.expires # None)

\* A deleted Consumer is eventually gone.
Removed == cons.st = "deleting" ~> cons.st # "deleting"
=============================================================================

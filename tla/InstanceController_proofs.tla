---------------------- MODULE InstanceController_proofs ----------------------
(***************************************************************************)
(* Proofs about the instance controller, for any number of instances,      *)
(* users, TTLs, looks of the Challenge, requests and faults, and whatever  *)
(* the challenge controller does around it (OpenSpec).                     *)
(***************************************************************************)
EXTENDS InstanceController, TLAPS

IInv == TypeOK /\ InstanceInv

\* What the API server hands out is an instance again.
LEMMA StoredType ==
    ASSUME TypeOK, NEW i \in Instances, NEW new \in Instance
    PROVE  Stored(i, new) \in Instance
<1>1. inst[i] \in Instance
  BY DEF TypeOK, ClusterTypeOK
<1>2. inst[i].rev + 1 \in Nat
  BY <1>1 DEF Instance
<1>. QED
  BY <1>2 DEF Stored, Instance

LEMMA NoInstanceType ==
    ASSUME NEW rev \in Nat
    PROVE  NoInstance(rev) \in Instance
BY DEF NoInstance, Instance

LEMMA DeletedType ==
    ASSUME TypeOK, NEW i \in Instances
    PROVE  Deleted(i) \in Instance
<1>1. inst[i] \in Instance
  BY DEF TypeOK, ClusterTypeOK
<1>2. inst[i].rev + 1 \in Nat /\ inst[i].gen + 1 \in Nat
  BY <1>1 DEF Instance
<1>3. NoInstance(inst[i].rev + 1) \in Instance
  BY <1>2, NoInstanceType
<1>. QED
  BY <1>1, <1>2, <1>3 DEF Deleted, Instance

LEMMA RemoveType ==
    ASSUME TypeOK, NEW w, RemoveLoad(w)
    PROVE  load' \in [Loads -> Workload]
<1>1. CASE w \in Loads
  <2>1. load[w] \in Workload
    BY <1>1 DEF TypeOK, ClusterTypeOK
  <2>2. NoLoad(load[w].rev + 1, load[w].owner) \in Workload
    BY <2>1, ClusterAssumption DEF NoLoad, Workload
  <2>. QED
    BY <2>2 DEF TypeOK, ClusterTypeOK, RemoveLoad
<1>2. CASE w \notin Loads
  BY <1>2 DEF TypeOK, ClusterTypeOK, RemoveLoad
<1>. QED
  BY <1>1, <1>2

LEMMA UpdateType ==
    ASSUME TypeOK, NEW w, NEW spec \in Contents, UpdateLoad(w, spec)
    PROVE  load' \in [Loads -> Workload]
<1>1. CASE w \in Loads
  <2>1. load[w] \in Workload /\ load[w].rev + 1 \in Nat
    BY <1>1 DEF TypeOK, ClusterTypeOK, Workload
  <2>2. [load[w] EXCEPT !.spec = spec, !.rev = @ + 1] \in Workload
    BY <2>1 DEF Workload
  <2>. QED
    BY <2>2 DEF TypeOK, ClusterTypeOK, UpdateLoad
<1>2. CASE w \notin Loads
  BY <1>2 DEF TypeOK, ClusterTypeOK, UpdateLoad
<1>. QED
  BY <1>1, <1>2

LEMMA CreateType ==
    ASSUME TypeOK, NEW w, NEW o \in Instances, NEW uid \in Nat,
           NEW spec \in Contents, CreateLoad(w, o, uid, spec)
    PROVE  load' \in [Loads -> Workload]
<1>1. CASE w \in Loads
  <2>1. load[w] \in Workload /\ load[w].rev + 1 \in Nat
    BY <1>1 DEF TypeOK, ClusterTypeOK, Workload
  <2>2. [there |-> TRUE, rev |-> load[w].rev + 1, owner |-> o, uid |-> uid,
         spec |-> spec] \in Workload
    BY <2>1 DEF Workload
  <2>. QED
    BY <2>2 DEF TypeOK, ClusterTypeOK, CreateLoad
<1>2. CASE w \notin Loads
  BY <1>2 DEF TypeOK, ClusterTypeOK, CreateLoad
<1>. QED
  BY <1>1, <1>2

LEMMA InitInv == Init => IInv
<1>. SUFFICES ASSUME Init PROVE IInv
  OBVIOUS
<1>. USE DEF Init, ClusterInit
<1>1. NoInstance(0) \in Instance
  BY NoInstanceType
<1>2. NoLoad(0, None) \in Workload
  BY ClusterAssumption DEF NoLoad, Workload
<1>3. TypeOK
  BY <1>1, <1>2 DEF TypeOK, ClusterTypeOK, Steps
<1>4. InstanceInv
  BY DEF InstanceInv, Copies, CopyOf, Guarded, Judged, NoInstance, Kinds
<1>. QED
  BY <1>3, <1>4 DEF IInv

-----------------------------------------------------------------------------
(* Type correctness *)

LEMMA DesiredType ==
    ASSUME TypeOK, Buildable, pc \in Kinds
    PROVE  Desired \in Contents
<1>1. view \in Views \ {None}
  BY DEF TypeOK, Kinds
<1>. QED
  BY <1>1, ViewsAssumption DEF Desired, Buildable, Kinds

LEMMA WriteType ==
    ASSUME TypeOK, cur \in Instances, NEW new \in Instance, Write(new)
    PROVE  obj' \in Instance /\ inst' \in [Instances -> Instance]
BY StoredType DEF Write, TypeOK, ClusterTypeOK

LEMMA CallType == TypeOK /\ Call => TypeOK'
<1>. SUFFICES ASSUME TypeOK, Call PROVE TypeOK'
  OBVIOUS
<1>. USE DEF TypeOK, ClusterTypeOK
<1>1. CASE AddFinalizer
  <2>1. cur \in Instances /\ [obj EXCEPT !.fin = TRUE] \in Instance
    BY <1>1 DEF AddFinalizer, Instance
  <2>. QED
    BY <1>1, <2>1, WriteType DEF AddFinalizer, Goto, OnlyInst, Steps
<1>2. CASE SetLabels
  <2>1. cur \in Instances /\ [obj EXCEPT !.label = TRUE] \in Instance
    BY <1>2 DEF SetLabels, Instance
  <2>. QED
    BY <1>2, <2>1, WriteType DEF SetLabels, Goto, OnlyInst, Steps
<1>3. CASE SetExpiration
  <2>. DEFINE expiration == obj.born + obj.ttl
  <2>1. cur \in Instances /\ expiration \in Nat
    BY <1>3, ClusterAssumption DEF SetExpiration, Instance
  <2>2. [obj EXCEPT !.exp = expiration] \in Instance
    BY <2>1 DEF Instance
  <2>3. obj' \in Instance /\ inst' \in [Instances -> Instance]
    BY <1>3, <2>1, <2>2, WriteType DEF SetExpiration
  <2>4. timer' \in [Instances -> Nat \cup {None}]
    BY <1>3, <2>1 DEF SetExpiration
  <2>. HIDE DEF expiration
  <2>. QED
    BY <1>3, <2>1, <2>3, <2>4 DEF SetExpiration, Goto, OnlyInst, Steps
<1>4. CASE DeleteExpired
  BY <1>4, DeletedType, NoInstanceType
     DEF DeleteExpired, Return, Idle, OnlyInst, Steps
<1>5. CASE RemoveFinalizer
  <2>1. inst[cur].rev + 1 \in Nat
    BY <1>5 DEF RemoveFinalizer, Instance
  <2>2. NoInstance(inst[cur].rev + 1) \in Instance
    BY <2>1, NoInstanceType
  <2>. QED
    BY <1>5, <2>2, NoInstanceType DEF RemoveFinalizer, Return, Idle, OnlyInst, Steps
<1>6. CASE Conflict \/ PanicNoTTL \/ CannotApply
  <2>1. Fail /\ cur \in Instances
    BY <1>6 DEF Conflict, PanicNoTTL, CannotApply, Workloads, Kinds
  <2>. QED
    BY <2>1, NoInstanceType DEF Fail, Idle, clusterVars, Steps
<1>7. CASE Create \/ Update
  <2>1. pc \in Kinds /\ Buildable /\ cur \in Instances /\ view # None
    BY <1>7 DEF Create, Update, Workloads, Kinds
  <2>2. Desired \in Contents /\ obj.uid \in Nat
    BY <2>1, DesiredType DEF Instance
  <2>3. load' \in [Loads -> Workload]
    BY <1>7, <2>1, <2>2, CreateType, UpdateType DEF Create, Update
  <2>. QED
    BY <1>7, <2>1, <2>3, NoInstanceType
       DEF Create, Update, Proceed, Goto, Return, Idle, OnlyLoad, Steps
<1>. QED
  BY <1>1, <1>2, <1>3, <1>4, <1>5, <1>6, <1>7 DEF Call

LEMMA TypeStep == TypeOK /\ [OpenNext]_vars => TypeOK'
<1>. SUFFICES ASSUME TypeOK, [OpenNext]_vars PROVE TypeOK'
  OBVIOUS
<1>. USE DEF TypeOK, ClusterTypeOK
<1>0. CASE UNCHANGED vars
  BY <1>0 DEF vars, clusterVars, workerVars
<1>1. ASSUME NEW i \in Instances, UserStep(i) PROVE TypeOK'
  <2>. USE DEF workerVars, Request
  <2>4. UNCHANGED <<chalC, workerVars>>
    BY <1>1 DEF UserStep, Outside
  <2>0. inst[i] \in Instance /\ inst[i].rev + 1 \in Nat /\ inst[i].gen + 1 \in Nat
    BY DEF Instance
  <2>1. ASSUME NEW u \in Users, NEW t \in TTLs, UserCreate(i, u, t) PROVE TypeOK'
    <3>1. inst'[i] \in Instance
      BY <2>0, <2>1 DEF UserCreate, Instance
    <3>. QED
      BY <2>4, <2>1, <3>1 DEF UserCreate
  <2>2. ASSUME NEW u \in Users, NEW t \in TTLs, UserEdit(i, u, t) PROVE TypeOK'
    <3>1. inst'[i] \in Instance
      BY <2>0, <2>2 DEF UserEdit, Instance
    <3>2. inst' = [inst EXCEPT ![i] = inst'[i]]
      BY <2>2 DEF UserEdit
    <3>3. inst' \in [Instances -> Instance]
      BY <3>1, <3>2
    <3>. QED
      BY <2>4, <2>2, <3>3 DEF UserEdit
  <2>3. CASE UserDelete(i)
    BY <2>4, <2>3, DeletedType DEF UserDelete
  <2>. QED
    BY <1>1, <2>1, <2>2, <2>3 DEF UserStep
<1>2. ASSUME NEW i \in Instances, DeliverInstance(i) PROVE TypeOK'
  BY <1>2 DEF DeliverInstance
<1>3. ASSUME NEW i \in Instances, FireTimer(i) PROVE TypeOK'
  BY <1>3 DEF FireTimer, clusterVars
<1>4. ASSUME NEW i \in Instances, Start(i) PROVE TypeOK'
  <2>1. CASE Skip(i) \/ Orphaned(i)
    BY <2>1 DEF Skip, Orphaned, Untouched, clusterVars
  <2>2. CASE Begin(i)
    <3>1. pc' \in {"release", "label", "finalize"}
      BY <2>2 DEF Begin, Instance
    <3>. QED
      BY <2>2, <3>1 DEF Begin, Untouched, clusterVars, Steps
  <2>. QED
    BY <1>4, <2>1, <2>2 DEF Start
<1>5. ASSUME NEW w \in Loads, DeliverLoad(w) PROVE TypeOK'
  <2>1. {loadC[w].owner, load[w].owner} \ {None} \subseteq Instances
    BY <1>5 DEF Workload
  <2>. QED
    BY <1>5, <2>1 DEF DeliverLoad
<1>6. ASSUME NEW w \in Loads, GarbageCollector(w) PROVE TypeOK'
  BY <1>6, RemoveType DEF GarbageCollector, Collect, Outside, workerVars
<1>7. CASE Call
  BY <1>7, CallType
<1>8. CASE ApiError
  BY <1>8, NoInstanceType DEF ApiError, Fault, Idle, Steps
<1>9. CASE Restart
  <2>1. {load[w].owner : w \in Loads} \ {None} \subseteq Instances
    BY DEF Workload
  <2>. QED
    BY <1>9, <2>1, NoInstanceType DEF Restart, Fault, Idle, Steps
<1>10. CASE Clock
  BY <1>10 DEF Clock, Tick, Outside, workerVars
<1>11. CASE NamespaceController
  BY <1>11, RemoveType DEF NamespaceController, DropNamespace, Empty, Outside, workerVars
<1>12. CASE Vandalism
  BY <1>12, RemoveType, UpdateType, ClusterAssumption
     DEF Vandalism, Tamper, Uproot, Fault, Outside, workerVars
<1>13. CASE ChangeView \/ CreateNamespace
  BY <1>13 DEF ChangeView, CreateNamespace, clusterVars, workerVars
<1>14. CASE Neighbour /\ faults' \in Nat
  <2>1. CASE DeleteNamespace
    BY <1>14, <2>1 DEF DeleteNamespace, workerVars
  <2>2. CASE \E i \in Instances : Evict(i)
    BY <1>14, <2>2, DeletedType DEF Evict, workerVars
  <2>3. CASE \E w \in Loads : Purge(w)
    BY <1>14, <2>3, RemoveType DEF Purge, workerVars
  <2>. QED
    BY <1>14, <2>1, <2>2, <2>3 DEF Neighbour
<1>. QED
  BY <1>0, <1>1, <1>2, <1>3, <1>4, <1>5, <1>6, <1>7, <1>8, <1>9, <1>10, <1>11,
     <1>12, <1>13, <1>14 DEF OpenNext, Inside, Step

\* Every reachable state is well typed: what clients, caches and the API server
\* hold are instances and workloads, and a busy worker has an instance in hand.
THEOREM TypeCorrect == OpenSpec => []TypeOK
<1>1. Init => TypeOK
  BY InitInv DEF IInv
<1>. QED
  BY <1>1, TypeStep, PTL DEF OpenSpec

-----------------------------------------------------------------------------
(* The inductive invariant *)

\* A version of an instance is never written twice.
Grows(i) == inst'[i] = inst[i] \/ inst'[i].rev = inst[i].rev + 1

LEMMA DeletedGrows ==
    ASSUME TypeOK, NEW i \in Instances
    PROVE  Deleted(i) = inst[i] \/ Deleted(i).rev = inst[i].rev + 1
<1>1. inst[i] \in Instance
  BY DEF TypeOK, ClusterTypeOK
<1>. QED
  BY <1>1 DEF Deleted, NoInstance, Instance

LEMMA WriteGrows ==
    ASSUME TypeOK, cur \in Instances, NEW new \in Instance, Write(new)
    PROVE  /\ \A i \in Instances : Grows(i)
           /\ obj' = inst'[cur]
           /\ obj.rev = inst[cur].rev
           /\ Exists(cur)
BY DEF Write, Stored, Current, Grows, TypeOK, ClusterTypeOK, Instance

\* Deletion leaves a guarded incarnation in place, and so does a user's step.
LEMMA DeletedKeeps ==
    ASSUME TypeOK, NEW j \in Instances, inst[j].fin, Exists(j)
    PROVE  /\ Deleted(j).st # "absent"
           /\ Deleted(j).fin
           /\ Deleted(j).uid = inst[j].uid
           /\ Deleted(j).exp = inst[j].exp
<1>1. inst[j] \in Instance
  BY DEF TypeOK, ClusterTypeOK
<1>. QED
  BY <1>1 DEF Deleted, Exists, Instance

LEMMA UserKeeps ==
    ASSUME TypeOK, NEW i \in Instances, UserStep(i), NEW j \in Instances
    PROVE  /\ Grows(j)
           /\ Exists(j) /\ inst[j].fin =>
                 /\ Exists(j)'
                 /\ inst'[j].fin
                 /\ inst'[j].uid = inst[j].uid
                 /\ inst'[j].exp = inst[j].exp
<1>. USE DEF TypeOK, ClusterTypeOK
<1>1. inst[j] \in Instance /\ inst[i] \in Instance
  OBVIOUS
<1>2. ASSUME NEW u \in Users, NEW t \in TTLs, UserCreate(i, u, t) PROVE
        /\ Grows(j)
        /\ Exists(j) /\ inst[j].fin => inst'[j] = inst[j]
  BY <1>1, <1>2 DEF UserCreate, Grows, Exists, Instance
<1>3. ASSUME NEW u \in Users, NEW t \in TTLs, UserEdit(i, u, t) PROVE
        /\ Grows(j)
        /\ inst'[j].st = inst[j].st
        /\ inst'[j].fin = inst[j].fin
        /\ inst'[j].uid = inst[j].uid
        /\ inst'[j].exp = inst[j].exp
  BY <1>1, <1>3 DEF UserEdit, Grows, Instance
<1>4. CASE UserDelete(i)
  <2>1. CASE j # i
    BY <1>4, <2>1 DEF UserDelete, Grows, Exists
  <2>2. CASE j = i
    BY <1>4, <2>2, DeletedGrows, DeletedKeeps DEF UserDelete, Grows, Exists
  <2>. QED
    BY <2>1, <2>2
<1>. QED
  BY <1>2, <1>3, <1>4 DEF UserStep, Exists

\* A copy stays a copy while versions only grow.
LEMMA CopyStays ==
    ASSUME TypeOK, NEW i \in Instances, Grows(i), NEW copy \in Instance,
           copy.rev <= inst[i].rev,
           copy.rev = inst[i].rev => copy = inst[i]
    PROVE  /\ copy.rev <= inst'[i].rev
           /\ copy.rev = inst'[i].rev => copy = inst'[i]
BY DEF Grows, TypeOK, ClusterTypeOK, Instance

LEMMA CopiesStay ==
    ASSUME TypeOK, Copies, \A i \in Instances : Grows(i), instC' = instC,
           \/ pc' = "idle"
           \/ pc # "idle" /\ cur' = cur /\ obj' = obj
           \/ obj' = inst'[cur'] /\ obj' \in Instance
    PROVE  Copies'
<1>. USE DEF TypeOK, ClusterTypeOK, Copies, CopyOf
<1>1. ASSUME NEW i \in Instances PROVE CopyOf(instC[i], i)'
  <2>1. Grows(i) /\ instC[i] \in Instance /\ CopyOf(instC[i], i)
    OBVIOUS
  <2>. QED
    BY <2>1, CopyStays
<1>2. CASE pc # "idle" /\ cur' = cur /\ obj' = obj
  BY <1>1, <1>2, CopyStays
<1>3. CASE obj' = inst'[cur'] /\ obj' \in Instance
  BY <1>1, <1>3 DEF Instance
<1>. QED
  BY <1>1, <1>2, <1>3

LEMMA InstanceStep == IInv /\ [OpenNext]_vars => InstanceInv'
<1>. SUFFICES ASSUME IInv, [OpenNext]_vars PROVE InstanceInv'
  OBVIOUS
<1>. USE DEF InstanceInv, Copies, CopyOf, Guarded, Judged, Kinds, Exists
<1>. TypeOK /\ InstanceInv
  BY DEF IInv
<1>t. /\ inst \in [Instances -> Instance] /\ instC \in [Instances -> Instance]
      /\ obj \in Instance /\ now \in Nat
      /\ pc # "idle" => cur \in Instances
  BY DEF TypeOK, ClusterTypeOK
<1>0. CASE UNCHANGED <<now, inst, instC, pc, cur, obj>>
  BY <1>0
<1>1. ASSUME NEW i \in Instances, UserStep(i) PROVE InstanceInv'
  <2>1. UNCHANGED <<now, instC, pc, cur, obj>>
    BY <1>1 DEF UserStep, UserCreate, UserEdit, UserDelete, Outside, workerVars
  <2>2. \A j \in Instances : Grows(j)
    BY <1>1, UserKeeps
  <2>3. Copies'
    BY <2>1, <2>2, CopiesStay
  <2>4. pc # "idle" /\ Exists(cur) /\ inst[cur].fin =>
           /\ Exists(cur)' /\ inst'[cur].fin
           /\ inst'[cur].uid = inst[cur].uid
           /\ inst'[cur].exp = inst[cur].exp
    BY <1>1, <1>t, <2>1, UserKeeps
  <2>5. Guarded'
    BY <1>t, <2>1, <2>4
  <2>6. Judged'
    BY <1>t, <2>1, <2>4
  <2>. QED
    BY <2>3, <2>5, <2>6
<1>2. ASSUME NEW i \in Instances, DeliverInstance(i) PROVE InstanceInv'
  BY <1>2, <1>t DEF DeliverInstance, Instance
<1>3. ASSUME NEW i \in Instances, Begin(i) PROVE InstanceInv'
  BY <1>3, <1>t DEF Begin, Untouched, clusterVars, Instance
<1>4. CASE AddFinalizer
  <2>1. [obj EXCEPT !.fin = TRUE] \in Instance /\ cur \in Instances
    BY <1>4, <1>t DEF AddFinalizer, Instance
  <2>2. /\ \A j \in Instances : Grows(j)
        /\ obj' = inst'[cur]
    BY <1>4, <2>1, WriteGrows DEF AddFinalizer
  <2>3. obj'.fin /\ obj'.st = "live"
    BY <1>4, <1>t DEF AddFinalizer, Write, Stored, Instance
  <2>4. pc' = "label" /\ UNCHANGED <<now, cur, instC>>
    BY <1>4 DEF AddFinalizer, Goto, OnlyInst
  <2>7. obj' \in Instance
    BY <2>1, <1>4, WriteType DEF AddFinalizer
  <2>5. Copies'
    BY <2>1, <2>2, <2>4, <2>7, CopiesStay
  <2>6. Guarded' /\ Judged'
    BY <2>3, <2>4
  <2>. QED
    BY <2>5, <2>6
<1>5. CASE SetLabels
  <2>1. [obj EXCEPT !.label = TRUE] \in Instance /\ cur \in Instances
    BY <1>5, <1>t DEF SetLabels, Instance
  <2>2. /\ \A j \in Instances : Grows(j)
        /\ obj' = inst'[cur]
    BY <1>5, <2>1, WriteGrows DEF SetLabels
  <2>3. obj'.fin /\ obj'.st = "live"
    BY <1>5, <1>t DEF SetLabels, Write, Stored, Instance
  <2>4. pc' = "status" /\ UNCHANGED <<now, cur, instC>>
    BY <1>5 DEF SetLabels, Goto, OnlyInst
  <2>7. obj' \in Instance
    BY <2>1, <1>5, WriteType DEF SetLabels
  <2>5. Copies'
    BY <2>1, <2>2, <2>4, <2>7, CopiesStay
  <2>6. Guarded' /\ Judged'
    BY <2>3, <2>4
  <2>. QED
    BY <2>5, <2>6
<1>6. CASE SetExpiration
  <2>. DEFINE expiration == obj.born + obj.ttl
  <2>1. expiration \in Nat /\ cur \in Instances
    BY <1>6, <1>t, ClusterAssumption DEF SetExpiration, Instance
  <2>2. [obj EXCEPT !.exp = expiration] \in Instance
    BY <1>t, <2>1 DEF Instance
  <2>3. /\ \A j \in Instances : Grows(j)
        /\ obj' = inst'[cur]
    BY <1>6, <2>1, <2>2, WriteGrows DEF SetExpiration
  <2>4. obj'.fin /\ obj'.st = "live" /\ obj'.exp = expiration
    BY <1>6, <1>t DEF SetExpiration, Write, Stored, Instance
  <2>5. pc' = "expire" => now > expiration
    BY <1>6 DEF SetExpiration, Goto
  <2>6. /\ pc' \in {"expire", "deployment"}
        /\ UNCHANGED <<now, cur, instC>>
    BY <1>6 DEF SetExpiration, Goto, OnlyInst
  <2>7. expiration # None
    BY <2>1, ClusterAssumption
  <2>11. obj' \in Instance
    BY <1>6, <2>1, <2>2, WriteType DEF SetExpiration
  <2>. HIDE DEF expiration
  <2>8. Copies'
    BY <2>3, <2>6, <2>11, CopiesStay
  <2>9. Guarded'
    BY <2>3, <2>4, <2>6
  <2>10. Judged'
    BY <2>3, <2>4, <2>5, <2>6, <2>7
  <2>. QED
    BY <2>8, <2>9, <2>10
<1>7. CASE DeleteExpired
  <2>1. cur \in Instances
    BY <1>7, <1>t DEF DeleteExpired
  <2>2. \A j \in Instances : Grows(j)
    BY <1>7, <1>t, <2>1, DeletedGrows DEF DeleteExpired, Grows
  <2>. QED
    BY <1>7, <1>t, <2>2, CopyStays DEF DeleteExpired, Return, Idle, OnlyInst
<1>8. CASE RemoveFinalizer
  <2>1. cur \in Instances
    BY <1>8, <1>t DEF RemoveFinalizer
  <2>2. \A j \in Instances : Grows(j)
    BY <1>8, <1>t, <2>1 DEF RemoveFinalizer, Grows, NoInstance
  <2>. QED
    BY <1>8, <1>t, <2>2, CopyStays DEF RemoveFinalizer, Return, Idle, OnlyInst
<1>9. CASE Conflict \/ PanicNoTTL \/ CannotApply
  BY <1>9 DEF Conflict, PanicNoTTL, CannotApply, Fail, Idle, clusterVars
<1>10. CASE Create \/ Update
  BY <1>10 DEF Create, Update, Workloads, Proceed, Goto, Return, Idle, OnlyLoad
<1>11. CASE ApiError
  BY <1>11 DEF ApiError, Idle
<1>12. CASE Restart
  BY <1>12, <1>t DEF Restart, Idle, Instance
<1>13. CASE Clock
  BY <1>13, <1>t DEF Clock, Tick, Outside, workerVars, Instance
<1>14. ASSUME NEW i \in Instances, Evict(i) PROVE InstanceInv'
  <2>1. UNCHANGED <<now, instC, pc, cur, obj>>
    BY <1>14 DEF Evict, workerVars
  <2>2. \A j \in Instances : Grows(j)
    BY <1>14, <1>t, DeletedGrows DEF Evict, Grows
  <2>3. Copies'
    BY <1>t, <2>1, <2>2, CopiesStay
  <2>4. pc # "idle" /\ Exists(cur) /\ inst[cur].fin =>
           /\ Exists(cur)' /\ inst'[cur].fin
           /\ inst'[cur].uid = inst[cur].uid
           /\ inst'[cur].exp = inst[cur].exp
    BY <1>14, <1>t, <2>1, DeletedKeeps DEF Evict
  <2>5. Guarded'
    BY <1>t, <2>1, <2>4
  <2>6. Judged'
    BY <1>t, <2>1, <2>4
  <2>. QED
    BY <2>3, <2>5, <2>6
<1>15. ASSUME \/ \E i \in Instances : FireTimer(i) \/ Skip(i) \/ Orphaned(i)
              \/ \E w \in Loads : DeliverLoad(w) \/ GarbageCollector(w) \/ Purge(w)
              \/ NamespaceController \/ Vandalism
              \/ ChangeView \/ DeleteNamespace \/ CreateNamespace
              \/ UNCHANGED vars
       PROVE  UNCHANGED <<now, inst, instC, pc, cur, obj>>
  BY <1>15
     DEF Purge, FireTimer, Skip, Orphaned, DeliverLoad, GarbageCollector, Collect,
         NamespaceController, DropNamespace, Empty, Vandalism, Tamper, Uproot,
         ChangeView, DeleteNamespace, CreateNamespace, Outside, Untouched,
         vars, clusterVars, workerVars
<1>. QED
  BY <1>0, <1>1, <1>2, <1>3, <1>4, <1>5, <1>6, <1>7, <1>8, <1>9, <1>10, <1>11,
     <1>12, <1>13, <1>14, <1>15 DEF OpenNext, Inside, Step, Neighbour, Call, Start

LEMMA Inductive == OpenSpec => []IInv
<1>1. IInv /\ [OpenNext]_vars => IInv'
  BY TypeStep, InstanceStep DEF IInv
<1>. QED
  BY <1>1, InitInv, PTL DEF OpenSpec

\* Copies are versions of the object, and past its writes the worker holds an
\* incarnation that is still there, guarded and, before the Delete, expired.
THEOREM InstanceInvariant == OpenSpec => []InstanceInv
<1>1. IInv => InstanceInv
  BY DEF IInv
<1>. QED
  BY <1>1, Inductive, PTL

-----------------------------------------------------------------------------
(* What the invariant is for *)

\* A workload that appears was created by the worker, for what it holds.
LEMMA CreatedByWorker ==
    ASSUME TypeOK, [OpenNext]_vars,
           NEW w \in Loads, ~load[w].there, load'[w].there
    PROVE  /\ pc \in Kinds
           /\ load'[w].owner = cur
           /\ load'[w].uid = obj.uid
<1>. USE DEF TypeOK, ClusterTypeOK
<1>1. CASE Create
  <2>1. w = Target
    BY <1>1 DEF Create, CreateLoad
  <2>. QED
    BY <1>1, <2>1 DEF Create, CreateLoad, Workloads
<1>2. ASSUME NEW v, NEW spec, UpdateLoad(v, spec) PROVE load'[w].there = load[w].there
  BY <1>2 DEF UpdateLoad, Workload
<1>3. ASSUME NEW v, RemoveLoad(v) PROVE ~load'[w].there
  BY <1>3 DEF RemoveLoad, NoLoad
<1>4. ASSUME NEW i \in Instances, UserStep(i) PROVE UNCHANGED load
  BY <1>4 DEF UserStep, UserCreate, UserEdit, UserDelete
<1>5. ASSUME NEW i \in Instances, Start(i) PROVE UNCHANGED load
  BY <1>5 DEF Start, Skip, Orphaned, Begin, Untouched, clusterVars
<1>6. CASE Call /\ ~Create /\ ~Update
  BY <1>6 DEF Call, AddFinalizer, SetLabels, SetExpiration, DeleteExpired,
     RemoveFinalizer, Conflict, PanicNoTTL, CannotApply, Fail, OnlyInst, clusterVars
<1>7. CASE Update
  BY <1>2, <1>7 DEF Update
<1>8. CASE Vandalism \/ NamespaceController
  BY <1>2, <1>3, <1>8 DEF Vandalism, NamespaceController, Tamper, Uproot, Empty, DropNamespace
<1>9. ASSUME NEW v \in Loads, DeliverLoad(v) \/ GarbageCollector(v) \/ Purge(v)
      PROVE  ~load'[w].there
  BY <1>3, <1>9 DEF DeliverLoad, GarbageCollector, Collect, Purge
<1>10. ASSUME \/ \E i \in Instances : DeliverInstance(i) \/ FireTimer(i) \/ Evict(i)
              \/ ApiError \/ Restart \/ Clock
              \/ ChangeView \/ DeleteNamespace \/ CreateNamespace
              \/ UNCHANGED vars
       PROVE  UNCHANGED load
  BY <1>10 DEF DeliverInstance, FireTimer, Evict, ApiError, Restart, Clock, Tick,
     ChangeView, DeleteNamespace, CreateNamespace, vars, clusterVars
<1>. QED
  BY <1>1, <1>4, <1>5, <1>6, <1>7, <1>8, <1>9, <1>10
     DEF OpenNext, Inside, Step, Neighbour

\* Every Deployment and Service ever created belongs to an incarnation that
\* exists and holds the finalizer at that moment.
THEOREM CreatedForGuardedHolds == OpenSpec => CreatedForGuarded
<1>1. IInv /\ [OpenNext]_vars =>
        [\A w \in Loads :
            ~load[w].there /\ load'[w].there =>
               /\ inst[load'[w].owner].uid = load'[w].uid
               /\ inst[load'[w].owner].fin]_vars
  <2>. SUFFICES ASSUME IInv, [OpenNext]_vars, NEW w \in Loads,
                       ~load[w].there, load'[w].there
                PROVE  /\ inst[load'[w].owner].uid = load'[w].uid
                       /\ inst[load'[w].owner].fin
    OBVIOUS
  <2>1. pc \in Kinds /\ load'[w].owner = cur /\ load'[w].uid = obj.uid
    BY CreatedByWorker DEF IInv
  <2>. QED
    BY <2>1 DEF IInv, InstanceInv, Guarded
<1>. QED
  BY <1>1, Inductive, PTL DEF OpenSpec, CreatedForGuarded

\* The controller never deletes an instance, or another incarnation that took
\* its name, before the expirationTime in its status has passed.
THEOREM DeletesOnlyExpiredHolds == OpenSpec => DeletesOnlyExpired
<1>1. IInv /\ [OpenNext]_vars =>
        [\A i \in Instances :
            pc = "expire" /\ pc' # pc /\ inst'[i] # inst[i] =>
               /\ inst[i].uid = obj.uid
               /\ inst[i].exp # None
               /\ now > inst[i].exp]_vars
  <2>. SUFFICES ASSUME IInv, [OpenNext]_vars, NEW i \in Instances,
                       pc = "expire", pc' # pc, inst'[i] # inst[i]
                PROVE  /\ inst[i].uid = obj.uid
                       /\ inst[i].exp # None
                       /\ now > inst[i].exp
    OBVIOUS
  <2>1. \A j \in Instances : ~UserStep(j) /\ ~DeliverInstance(j)
                             /\ ~FireTimer(j) /\ ~Start(j)
    BY DEF UserStep, Outside, workerVars, DeliverInstance, FireTimer, Start,
       Skip, Orphaned, Begin, Take
  <2>2. ~ApiError /\ ~Restart
    BY DEF ApiError, Restart
  <2>3. \A w \in Loads : ~DeliverLoad(w) /\ ~GarbageCollector(w)
    BY DEF DeliverLoad, GarbageCollector, Outside, workerVars
  <2>4. /\ ~Clock /\ ~NamespaceController /\ ~Vandalism
        /\ ~ChangeView /\ ~CreateNamespace /\ ~Neighbour
        /\ ~UNCHANGED vars
    BY DEF Clock, NamespaceController, Vandalism, Outside, ChangeView,
       Neighbour, Evict, Purge, DeleteNamespace, CreateNamespace, vars, workerVars
  <2>5. Call
    BY <2>1, <2>2, <2>3, <2>4 DEF OpenNext, Inside, Step
  <2>6. DeleteExpired
    BY <2>5 DEF Call, AddFinalizer, SetLabels, SetExpiration, RemoveFinalizer,
       Conflict, PanicNoTTL, CannotApply, Create, Update, Workloads, Kinds, Fail,
       clusterVars
  <2>7. i = cur
    BY <2>6 DEF DeleteExpired, IInv, TypeOK, ClusterTypeOK
  <2>. QED
    BY <2>7 DEF IInv, InstanceInv, Guarded, Judged, Kinds
<1>. QED
  BY <1>1, Inductive, PTL DEF OpenSpec, DeletesOnlyExpired

\* The bounded specification that the runs check is covered by the open one.
THEOREM Opens == Spec => OpenSpec
<1>1. [Next]_vars => [OpenNext]_vars
  BY DEF Next, OpenNext, Fault
<1>. QED
  BY <1>1, PTL DEF Spec, OpenSpec
=============================================================================

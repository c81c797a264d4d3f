-------------------------- MODULE SigningKey_proofs --------------------------
(***************************************************************************)
(* Proofs about EnsureSigningKey, for any set of replicas and of key pairs *)
(* and for any number of failed calls and restarts.                        *)
(***************************************************************************)
EXTENDS SigningKey, TLAPS

\* Whatever a replica has read or holds is the stored key, and it only tries
\* to create the Secret with a pair in hand.
FromSecret ==
    /\ \A p \in Processes : cached[p] \in {NoKey, secret}
    /\ \A p \in Processes : held[p] \in {NoKey, secret}
    /\ \A p \in Processes : step[p] = "create" => fresh[p] \in Keys

IInv == TypeOK /\ FromSecret

\* No replica has read a Secret that does not exist yet.
LEMMA InitInv == Init => IInv
<1>. SUFFICES ASSUME Init PROVE IInv
  OBVIOUS
<1>1. TypeOK
  BY KeyAssumption DEF Init, TypeOK
<1>2. FromSecret
  BY DEF Init, FromSecret
<1>. QED
  BY <1>1, <1>2 DEF IInv

\* Every call, failure and restart keeps the types.
LEMMA TypeStep == IInv /\ [Next]_vars => TypeOK'
<1>. SUFFICES ASSUME IInv, [Next]_vars PROVE TypeOK'
  OBVIOUS
<1>. USE KeyAssumption DEF IInv, TypeOK
<1>1. ASSUME NEW p \in Processes, Deliver(p) PROVE TypeOK'
  BY <1>1 DEF Deliver
<1>2. ASSUME NEW p \in Processes, Load(p) PROVE TypeOK'
  BY <1>2 DEF Load
<1>3. ASSUME NEW p \in Processes, Generate(p) PROVE TypeOK'
  BY <1>3 DEF Generate
<1>4. ASSUME NEW p \in Processes, Create(p) PROVE TypeOK'
  BY <1>4 DEF Create
<1>5. ASSUME NEW p \in Processes, Lose(p) PROVE TypeOK'
  BY <1>5 DEF Lose
<1>6. ASSUME NEW p \in Processes, Reread(p) PROVE TypeOK'
  BY <1>6 DEF Reread
<1>7. ASSUME NEW p \in Processes, Retry(p) PROVE TypeOK'
  BY <1>7 DEF Retry
<1>8. ASSUME NEW p \in Processes, CallFails(p) PROVE TypeOK'
  BY <1>8 DEF CallFails
<1>9. ASSUME NEW p \in Processes, Restart(p) PROVE TypeOK'
  BY <1>9 DEF Restart
<1>10. CASE UNCHANGED vars
  BY <1>10 DEF vars
<1>. QED
  BY <1>1, <1>2, <1>3, <1>4, <1>5, <1>6, <1>7, <1>8, <1>9, <1>10 DEF Next, Call

\* The Secret is written once, while every copy of it is still empty.
LEMMA SecretStep == IInv /\ [Next]_vars => FromSecret'
<1>. SUFFICES ASSUME IInv, [Next]_vars PROVE FromSecret'
  OBVIOUS
<1>. USE DEF IInv, TypeOK, FromSecret
<1>1. ASSUME NEW p \in Processes, Deliver(p) PROVE FromSecret'
  BY <1>1 DEF Deliver
<1>2. ASSUME NEW p \in Processes, Load(p) PROVE FromSecret'
  BY <1>2 DEF Load
<1>3. ASSUME NEW p \in Processes, Generate(p) PROVE FromSecret'
  BY <1>3 DEF Generate
<1>4. ASSUME NEW p \in Processes, Create(p) PROVE FromSecret'
  BY <1>4 DEF Create
<1>5. ASSUME NEW p \in Processes, Lose(p) PROVE FromSecret'
  BY <1>5 DEF Lose
<1>6. ASSUME NEW p \in Processes, Reread(p) PROVE FromSecret'
  BY <1>6 DEF Reread
<1>7. ASSUME NEW p \in Processes, Retry(p) PROVE FromSecret'
  BY <1>7 DEF Retry
<1>8. ASSUME NEW p \in Processes, CallFails(p) PROVE FromSecret'
  BY <1>8 DEF CallFails
<1>9. ASSUME NEW p \in Processes, Restart(p) PROVE FromSecret'
  BY <1>9 DEF Restart
<1>10. CASE UNCHANGED vars
  BY <1>10 DEF vars
<1>. QED
  BY <1>1, <1>2, <1>3, <1>4, <1>5, <1>6, <1>7, <1>8, <1>9, <1>10 DEF Next, Call

LEMMA Inductive == Spec => []IInv
<1>1. IInv /\ [Next]_vars => IInv'
  BY TypeStep, SecretStep DEF IInv
<1>. QED
  BY InitInv, <1>1, PTL DEF Spec

\* The variables keep their types.
THEOREM TypeCorrect == Spec => []TypeOK
<1>1. IInv => TypeOK
  BY DEF IInv
<1>. QED
  BY Inductive, <1>1, PTL

\* Replicas that race to create the signing key, fail and restart as they
\* may, never hold different keys.
THEOREM AgreementHolds == Spec => []Agreement
<1>1. IInv => Agreement
  BY DEF IInv, FromSecret, Agreement
<1>. QED
  BY Inductive, <1>1, PTL

\* The race for the Secret is a choice of one key for good: whoever creates it
\* chooses, whoever reads it learns, and whatever fails in between changes
\* neither the choice nor what is held.
THEOREM ImplementsHolds == Spec => Implements
<1>1. Init => Choice!Init
  BY DEF Init, Choice!Init
<1>2. IInv /\ [Next]_vars => [Choice!Next]_<<secret, held>>
  <2>. SUFFICES ASSUME IInv, [Next]_vars
                PROVE  [Choice!Next]_<<secret, held>>
    OBVIOUS
  <2>. USE DEF IInv, TypeOK, FromSecret
  <2>1. ASSUME NEW p \in Processes, Load(p) \/ Reread(p)
        PROVE  Choice!Learn(p)
    BY <2>1 DEF Load, Reread, Choice!Learn
  <2>2. ASSUME NEW p \in Processes, Create(p)
        PROVE  Choice!Choose(p)
    BY <2>2 DEF Create, Choice!Choose
  <2>3. ASSUME NEW p \in Processes, CallFails(p)
        PROVE  Choice!Choose(p) \/ UNCHANGED <<secret, held>>
    BY <2>3 DEF CallFails, Choice!Choose
  <2>4. ASSUME NEW p \in Processes, Restart(p)
        PROVE  Choice!Forget(p)
    BY <2>4 DEF Restart, Choice!Forget
  <2>5. ASSUME NEW p \in Processes, Deliver(p) \/ Generate(p) \/ Lose(p) \/ Retry(p)
        PROVE  UNCHANGED <<secret, held>>
    BY <2>5 DEF Deliver, Generate, Lose, Retry
  <2>6. CASE UNCHANGED vars
    BY <2>6 DEF vars
  <2>. QED
    BY <2>1, <2>2, <2>3, <2>4, <2>5, <2>6 DEF Next, Call, Choice!Next
<1>. QED
  BY Inductive, <1>1, <1>2, PTL DEF Spec, Implements, Choice!Spec
=============================================================================

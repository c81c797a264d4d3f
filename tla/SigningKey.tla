----------------------------- MODULE SigningKey -----------------------------
(***************************************************************************)
(* EnsureSigningKey (pkg/controllers/consumer/jwt.go): every process that  *)
(* runs the consumer controller loads the signing key from one Secret, or  *)
(* generates a pair and creates the Secret, before its first Reconcile.    *)
(* Without leader election, the default of the binary, several run at once.*)
(* Nobody deletes or changes the Secret.                                   *)
(***************************************************************************)
EXTENDS Naturals

CONSTANTS
    Processes,      \* replicas of the controller manager
    Keys,           \* the pairs GenerateKey may come up with
    NoKey,
    MaxFaults       \* bound on failed calls and restarts

ASSUME KeyAssumption == NoKey \notin Keys /\ MaxFaults \in Nat

VARIABLES
    secret,         \* the key in the Secret
    cached,         \* cached[p]: the Secret in the cache of p
    step,           \* step[p]: where p is in EnsureSigningKey
    fresh,          \* fresh[p]: the pair p generated
    held,           \* held[p]: r.signingKey of p
    faults

vars == <<secret, cached, step, fresh, held, faults>>

\* The informer of p sees the Secret.
Deliver(p) ==
    /\ cached[p] # secret
    /\ cached' = [cached EXCEPT ![p] = secret]
    /\ UNCHANGED <<secret, step, fresh, held, faults>>

\* The first Get finds the Secret.
Load(p) ==
    /\ step[p] = "get"
    /\ cached[p] # NoKey
    /\ held' = [held EXCEPT ![p] = cached[p]]
    /\ step' = [step EXCEPT ![p] = "done"]
    /\ UNCHANGED <<secret, cached, fresh, faults>>

\* The first Get does not: a new pair.
Generate(p) ==
    /\ step[p] = "get"
    /\ cached[p] = NoKey
    /\ \E k \in Keys : fresh' = [fresh EXCEPT ![p] = k]
    /\ step' = [step EXCEPT ![p] = "create"]
    /\ UNCHANGED <<secret, cached, held, faults>>

\* MUTANT: whoever creates the Secret second overwrites it.
Overwrite(p) ==
    /\ step[p] = "create"
    /\ secret' = fresh[p]
    /\ held' = [held EXCEPT ![p] = fresh[p]]
    /\ step' = [step EXCEPT ![p] = "done"]
    /\ UNCHANGED <<cached, fresh, faults>>

Create(p) ==
    /\ step[p] = "create"
    /\ secret = NoKey
    /\ secret' = fresh[p]
    /\ held' = [held EXCEPT ![p] = fresh[p]]
    /\ step' = [step EXCEPT ![p] = "done"]
    /\ UNCHANGED <<cached, fresh, faults>>

\* MUTANT: the pair that came too late is used all the same.
LoseUnaware(p) ==
    /\ step[p] = "create"
    /\ secret # NoKey
    /\ held' = [held EXCEPT ![p] = fresh[p]]
    /\ step' = [step EXCEPT ![p] = "done"]
    /\ UNCHANGED <<secret, cached, fresh, faults>>

\* AlreadyExists: read again, from the cache.
Lose(p) ==
    /\ step[p] = "create"
    /\ secret # NoKey
    /\ step' = [step EXCEPT ![p] = "reread"]
    /\ UNCHANGED <<secret, cached, fresh, held, faults>>

Reread(p) ==
    /\ step[p] = "reread"
    /\ cached[p] # NoKey
    /\ held' = [held EXCEPT ![p] = cached[p]]
    /\ step' = [step EXCEPT ![p] = "done"]
    /\ UNCHANGED <<secret, cached, fresh, faults>>

\* MUTANT: the process gives up.
Abandon(p) ==
    /\ step[p] = "reread"
    /\ cached[p] = NoKey
    /\ step' = [step EXCEPT ![p] = "done"]
    /\ UNCHANGED <<secret, cached, fresh, held, faults>>

\* The cache has yet to see it: an error of Reconcile, which is repeated.
Retry(p) ==
    /\ step[p] = "reread"
    /\ cached[p] = NoKey
    /\ step' = [step EXCEPT ![p] = "get"]
    /\ UNCHANGED <<secret, cached, fresh, held, faults>>

\* A call fails.  A Create may have taken effect all the same.
CallFails(p) ==
    /\ faults < MaxFaults
    /\ faults' = faults + 1
    /\ step[p] # "done"
    /\ \/ secret' = secret
       \/ step[p] = "create" /\ secret = NoKey /\ secret' = fresh[p]
    /\ step' = [step EXCEPT ![p] = "get"]
    /\ UNCHANGED <<cached, fresh, held>>

Restart(p) ==
    /\ faults < MaxFaults
    /\ faults' = faults + 1
    /\ held' = [held EXCEPT ![p] = NoKey]
    /\ cached' = [cached EXCEPT ![p] = secret]
    /\ step' = [step EXCEPT ![p] = "get"]
    /\ UNCHANGED <<secret, fresh>>

-----------------------------------------------------------------------------
Init ==
    /\ secret = NoKey
    /\ cached = [p \in Processes |-> NoKey]
    /\ step = [p \in Processes |-> "get"]
    /\ fresh = [p \in Processes |-> NoKey]
    /\ held = [p \in Processes |-> NoKey]
    /\ faults = 0

Call(p) == Load(p) \/ Generate(p) \/ Create(p) \/ Lose(p) \/ Reread(p) \/ Retry(p)

Next == \E p \in Processes : Deliver(p) \/ Call(p) \/ CallFails(p) \/ Restart(p)

Spec == Init /\ [][Next]_vars

\* Every process runs, and its cache catches up.
FairSpec ==
    Spec /\ \A p \in Processes : WF_vars(Deliver(p)) /\ WF_vars(Call(p))
-----------------------------------------------------------------------------
TypeOK ==
    /\ secret \in Keys \cup {NoKey}
    /\ cached \in [Processes -> Keys \cup {NoKey}]
    /\ step \in [Processes -> {"get", "create", "reread", "done"}]
    /\ fresh \in [Processes -> Keys \cup {NoKey}]
    /\ held \in [Processes -> Keys \cup {NoKey}]
    /\ faults \in Nat

\* Tokens of different replicas verify with one public key: no two processes
\* ever sign with different keys, however they race to create the Secret.
Agreement ==
    \A p, q \in Processes :
       held[p] # NoKey /\ held[q] # NoKey => held[p] = held[q]

\* The replicas together do what KeyChoice says: the key is chosen once and
\* never replaced, so that tokens signed before a restart, or by a replica that
\* has gone, verify with the key of those signed later.
Choice == INSTANCE KeyChoice WITH chosen <- secret
Implements == Choice!Spec

\* Every process gets a key in the end and starts to reconcile.
Keyed == <>[](\A p \in Processes : held[p] # NoKey)
=============================================================================

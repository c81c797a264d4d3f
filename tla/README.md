# Kubeflag in TLA+

Specifications of the controllers of [Kubeflag](../src/README.md), model-checked
with TLC and, where it counts most, proved with TLAPS.

Paths below are relative to the repository; *ch* stands for
`pkg/controllers/challenge/controller.go`, *ci* for
`pkg/controllers/challengeinstance/controller.go`, *co* for
`pkg/controllers/consumer/controller.go`, *ds* for
`pkg/controllers/datasyncer/controller.go`.

## The system

Kubeflag is a set of Kubernetes controllers in one process, `controller-manager`
(`cmd/controller-manager/app`), and a webhook server (`cmd/webhook/app`). Each
controller has one worker and one work queue (`controllers.go:51-65`). They talk
only through the API server: a controller **reads** from the informer caches of
its process, which lag behind the store, and **writes** to the store, where an
update of an outdated copy is refused. Events from the caches put names into the
work queues; predicates drop some events; an error puts the name back.

| Component | State | Operations |
|---|---|---|
| Challenge controller | `Challenge.status` (healthy, templateHash, activeInstances), two finalizers, the namespace of the Challenge | validate the template, write the status, make the namespace, purge workloads of an old template, delete instances and namespace |
| ChallengeInstance controller | finalizer, label and `status.expirationTime` of an instance, a map of TTL timers in memory, a Deployment and a Service per user | guard, label, compute expiry, delete when expired, create and revert workloads |
| Consumer controller | `Consumer.status` (phase, tokenSecretRef), a finalizer, a token Secret per Consumer, the signing key | publish the phase, issue and re-issue the token, clean up |
| Challenge references (part of the Challenge controller) | a finalizer, the annotation of the Secrets and ConfigMaps a Challenge refers to | annotate, un-annotate |
| DataSyncer controller | copies of annotated Secrets and ConfigMaps, finalizers on both sides | copy, revert, recreate, clean up |
| Webhooks | none; they read caches of their own process | validate Challenges, Consumers, Tenants; fill in defaults |

What makes this hard: caches of different age read in one visit; a sequence of
calls of which any may be refused, fail, or take effect without an answer;
events that are filtered out, so that a missed wake-up is missed for good;
objects deleted and created anew under the same name; a garbage collector and a
namespace controller working at the same time; timers lost in restarts.

What makes the components correct:

* *ChallengeInstance*: an instance is deployed, healed, and removed when its TTL
  runs out, and never earlier; nothing is created for an instance that is gone.
* *Challenge*: healthy is what the spec deserves; a change reaches the instances;
  deletion takes instances and namespace along and completes.
* *Consumer*: the phase follows the spec; an active Consumer has a token that is
  recorded; deletion takes the token along and completes; replicas sign with one key.
* *DataSyncer*: every copy follows its source and goes with it; the controller
  never undoes what users and Challenges write into a source, and comes to rest.
* *Challenge references*: what a template uses arrives in the namespace of the
  Challenge; a source is let go of before the Challenge is.

`PROJECT.json` lists the components, and under `hazards` what can go wrong at
which line and which property is about it.

## The modules

| Module | Models |
|---|---|
| `Template` | `validateTemplate`, `getContainerPort`, `newService`: pure operators on a pod template |
| `Cluster` | Kubernetes as the two challenge controllers meet it: instances, workloads, caches, users, clock, collector, namespace controller (external code) |
| `InstanceController` | *ci*, one action per API call; its neighbours are open |
| `ChallengeController` | *ch*, one action per API call |
| `Kubeflag` | both, sharing the cluster and the caches; `IC == INSTANCE InstanceController WITH chalC <- Seen` |
| `Consumer` | *co* and the webhook for Consumers |
| `SigningKey` | `EnsureSigningKey` in several processes |
| `KeyChoice` | what `EnsureSigningKey` promises: a key chosen once, learnt and forgotten by replicas; `Choice == INSTANCE KeyChoice WITH chosen <- secret` |
| `DataSyncer` | *ds*, one action per API call; users, Challenges and namespaces around it are open |
| `Admission` | the validating webhook for Challenges: operators on a spec and on what the webhook's cache has |
| `References` | `ChallengeController` with its references, `DataSyncer` and `Admission` together; `DS == INSTANCE DataSyncer` with the namespace of the Challenge as the only one |
| `InstanceController_proofs`, `Kubeflag_proofs`, `Consumer_proofs`, `SigningKey_proofs`, `DataSyncer_proofs`, `References_proofs` | theorems |
| `ChallengeController_proofs` | what `Kubeflag_proofs` and `References_proofs` both need of *ch* |
| `MCInstance`, `MCKubeflag`, `MCConsumer`, `MCSigningKey`, `MCDataSyncer`, `MCReferences` | values for TLC |

### State and actions

A Kubernetes object is a record with `rev` (resourceVersion: every change raises
it, a write that changes nothing does not, and it is not reset by deletion),
`uid` (the `rev` an incarnation was created with), `gen` (metadata.generation)
and the fields the controllers use. `inst` and `instC` are the stored and the
cached object, likewise for the others; a `Deliver...` action brings a cache up
to date and enqueues what the predicates of `Add` let pass.

A worker is a program counter (`pc`, `chPc`) that names the next API call, and a
copy of the object in hand (`obj`, `chObj`). Local computation belongs to the
call before it; where a visit reads a second cache after a call, as the Consumer
controller does, that reading is a step. A call has an action for success, and
the actions for refusal (`Conflict`, `CannotApply`, `Refused`, `ChRetry`), for an
error of its own (`ApiError`, `ChApiError`, `CallFails`) and for a restart in
mid-visit. `queue` is a set: the real queue removes duplicates too. Back-off is
left out, the retry may come at any time.

Status updates replace the status only, ordinary updates the rest, as the status
subresource of the CRDs has it. A failed Create of a token Secret or the signing
key may have taken effect.

In `DataSyncer` the informer of a kind delivers the events of all its objects in
their order, so a cache is a snapshot of the store per kind, and `Deliver`
enqueues every namespace whose object changed and passes the predicates
(*ds*:70-78). Requests carry a namespace and a name only; at one name the queue is
a set of namespaces: `Home`, where the source is, and those of the Challenges.
Objects are their data (`text`, and for ConfigMaps `bytes`, which are never
copied as such), annotation (`names`), `trigger` (last-trigger, to the second) and
finalizer. The loops over Challenges and over unwanted copies are a list, `todo`,
and one action per call in them.

`References` runs the Challenge controller and the DataSyncer as two workers of
one process: they share the cached sources (`sourceC`), and a restart hits both.
`known`, what the webhook's cache has, lags separately. Every ordinary update
of the Challenge is admitted (`Admitted`) or rejected (`Reject`), also the
controller's own; status updates are not judged.

Some lines worth pointing out because the modules keep them:
`matchesChallengeRef` (*ch*:98) compares the challengeRef of an instance with the
instance's **own** name and enqueues that name, so instances do not wake their
Challenge; a Deployment never compares equal to what is desired (*ci*:348,
replicas are defaulted by the API server), so it is updated in every visit, and
the update changes nothing; an update keeps the old owner reference; `newService`
indexes `containerPort[0]` without a test.

`Logger` in `InstanceController` says whether `Add` was given a logger. The e2e
suite does; `createInstanceController` (`controllers.go:56`) passes nil, and then
the first line of `Reconcile` (*ci*:96) panics, which controller-runtime recovers from
and retries, so that the binary deploys no instance at all, although `README.md:44`
says "Automatically deployed and exposed". With `Logger = FALSE` in `lifecycle.cfg` TLC
refutes `Heals`; the runs and their results are about the controller as the tests wire
it, and the theorems about either.

## What the runs check

Passing runs:

| Run | Properties | Bounds |
|---|---|---|
| `lifecycle` | `Expires`, `Heals`, `Released`, `Quiesces` | 1 instance, TTL short or long, 2 user requests, 1 disturbance |
| `churn` | `TypeOK`, `InstanceInv`, `CreatedForGuarded`, `DeletesOnlyExpired` | 2 instances of one user, TTL or none, Challenge there or not, 3 requests, 1 tick |
| `compose` | `TypeOK`, `Implements`, `RollsOut` | 1 instance, 2 templates, 1 edit or deletion |
| `author` | `NothingForgotten`, `ServableAsNamed`, `HealthyIsEarned`, `Settles`, `Razes` | no instance, 3 specs (no name, a name of no container, invalid), 2 edits, 1 tick, 1 error, 1 restart |
| `signing` | `Agreement`, `Implements`, `Keyed` | 3 replicas, 3 keys, 1 failure or restart |
| `consumer` | `TypeOK`, `IssuedWhileActive`, `Serves`, `Released` | 3 requests, expiry or none, 2 ticks, 1 failure or restart |
| `sync` | `TypeOK`, `SourceInv`, `KeepsSource`, `Mirrors`, `Cleans`, `Rests` | a Secret with either of 2 contents, 2 Challenges in any annotation, 1 act of others, 1 fault, 1 tick |
| `references` | `TypeOK`, `Implements`, `ForgottenFirst`, `FurnishedOrGone` | a ConfigMap, a spec that uses it and one that does not, 1 edit or deletion, and 1 act on the source, error or restart |

`compose` is the refinement: every behaviour of both controllers is a behaviour
of `IC!OpenSpec`, the open specification of the instance controller, with the
cached Challenge as its view. So what is proved from `OpenSpec` holds of the
composition. `Kubeflag_proofs` proves it for every instance; the run is checked without restarts and faults: with them the purge of
the one and the repair of the other can chase each other without bound and the
versions grow for ever.

`references` is the other refinement: what the Challenge controller, users and
the namespace controller do to sources, copies and namespaces is a behaviour of
`DS!OpenSpec`, so what is proved of the DataSyncer from `OpenSpec` holds beside the
Challenge controller too. `References_proofs` proves it for any number of disturbances.

`signing` is a refinement in the other sense, of a promise by the code that keeps it:
`KeyChoice` knows nothing of Secrets, caches and retries. Beyond `Agreement` it says
that the key stays the same when every replica that held it is gone.

Runs that find the code at variance with a doc, a comment or a test of the
repository (`findings` in `PROJECT.json` quotes them):

| Run | Property | What happens |
|---|---|---|
| `misnamed` | `HealthyIsServable` | an `ExposedContainerName` of no container is not validated: the Challenge is called healthy, and no Service can be built for its instances |
| `orphan` | `Evicts` | `activeInstances` is stale, the instances of a deleted Challenge stay |
| `barred` | `Removed` | the webhook keeps the controller from releasing an expired Consumer |
| `stranded` | `SourceGoes` | the last Challenge of a source takes the annotation along, and a deleted source then stays Terminating: the finalizer of the DataSyncer is on it and no event reaches the controller |

### Conditions on the properties, and why they are there

TLC refutes stronger forms of some properties. The conditions in their
statements are these cases, and no others:

* `Expires`, `Released`, `Heals`: "if the Challenge ends up healthy". The TTL event
  may meet an unhealthy Challenge and is spent (*ci*:119); a Challenge that turns
  healthy later wakes nobody, so that an instance visited before its Challenge is
  healthy is never deployed. `lifecycle` therefore takes a Challenge that is
  healthy whenever it is there; `churn` has one that comes and goes, for safety, and
  the theorems any.
* `Heals` is checked for one instance. Two instances of one user share workloads
  owned by the first (*ci*:199); when it goes, the other is left without.
* `ServableAsNamed`: "unless the author wrote a name of no container with this
  template". `validateTemplate` does not look whether a container named in the spec
  exists (*ch*:272 says "Validate ExposedContainerName if provided", but what follows is
  for a name that is not provided), and neither do the webhooks; run `misnamed` is
  `HealthyIsServable` without the condition. Each visit of an instance of such a
  Challenge ends in an error of `getContainerPort`. That the author is the only source
  of such names is not obvious: the controller fills in a name that it chose from a
  copy, while the template may be edited, and its copy can keep a name that the store
  does not have (*ch*:280).
* `Settles`: without API errors. One failed update of `ExposedContainerName`
  becomes the verdict that the template is invalid, without a retry (*ch*:281).
  Only where the same visit makes the namespace, and so writes the worker's copy
  once more, does the name reach the store after all.
* `Razes`: undisturbed. An error, a restart or an edit between the deletion of the
  namespace and the removal of its finalizer leaves the finalizer for good, as
  `cleanupChallengeNamespace` returns early once the namespace is gone (*ch*:336).
* `RollsOut`: for a hash on record. A template edited before the first hash is
  written is taken for the first one (*ch*:171), and instances keep what was
  deployed from the old one.
* `Serves`, `Released` of `Consumer`: without an expiry. Nothing visits a Consumer
  when its expiry passes (*co*:149), and see `barred`.
* `Serves` does not say that the token is recorded or goes with its Consumer: a
  retry may take a stale reference for present (*co*:162), and a token issued
  but not recorded when the Consumer is deleted outlives it (*co*:234).
* `Mirrors`: no two copies are replaced within one second (`TriggersDistinct`). The
  second touch of the source writes the same last-trigger, changes nothing, and no
  event follows (*ds*:228). And all namespaces the source names are there: one that
  is missing or going ends the loop with an error, and Challenges later in the
  annotation are not served (*ds*:165).
* `Mirrors` does not say that copies of Challenges no longer named go: the list of
  unwanted copies is read from the cache (*ds*:361), which may not have one just made;
  it then stays until the next event of its source. `datasyncer/doc.go:20` says that
  annotation changes are detected and outdated copies removed, and the e2e test of a
  namespace removed from the annotation (`datasyncer_e2e_test.go:286`) expects it.
* `Cleans`, `Rests`: as long as the annotation stays; see `stranded`. A request that is
  still queued when it goes is an error, retried for ever (`helper.go:36`).
* `FurnishedOrGone`: the sources stay (`Benign`). The Challenge controller passes over a
  source that is missing (*ch*:471) and nothing wakes it when it appears; and the
  webhook refuses every update of a Challenge whose source is gone, the removal of
  its finalizers included (`webhook/challenge/validation/validation.go:104`).
* That the deletion completes: if nothing disturbs it (`Undisturbed`). The finalizer for
  the references goes by one call and the namespace by the next; in between, a
  change of metadata wakes nobody (*ch*:512).
* `ForgottenFirst` is about the references of the spec at that time. A reference edited
  away is never un-annotated (*ch*:454), nor is one of a Challenge deleted before its
  finalizer was written (*ch*:480).

### Bounds

`MaxRequests`, `MaxEdits`, `MaxActs`, `MaxFaults`, `MaxErrors`, `MaxTrouble`, `Horizon`
and `LastBirth` cap what users, authors and mishaps do and how far the clock runs;
they appear in guards of users, faults, errors and ticks and limit nothing the
controllers do. Two requests are enough for create-and-delete, three
for the same name to live twice or for two instances to overlap; one edit meets
every step of a visit, since edits and steps interleave freely, and two reach the
fix of a broken spec. Each Challenge, Consumer name and Secret is independent of
the others except through the worker's time, so one of each is modelled.
Instances of a Challenge meet in the workloads of their user: two instances and
one user are the smallest case of that. Challenges meet in the annotation of a
source: two of them are the smallest case where the loop of the DataSyncer may
stop between one and the next, where an annotation loses one and keeps another,
and where one namespace goes and another stays. In `references` the two workers
multiply, and one act, error or restart besides an edit or deletion is what fits;
each of them meets every step of both workers; the data of the source is edited in
`sync` only. `CHECK_DEADLOCK FALSE` is set everywhere,
because a cluster in which nobody asks for anything and all bounds are used up
does come to rest.

### Fairness

Weak fairness of the deliveries (informers catch up), of timers, of the worker's
next call, of the clock up to `Horizon`, of the garbage collector and the
namespace controller. Starting the visit of a name is strongly fair in the
instance controller, where names compete for one worker: its queue is first in,
first out; likewise in the DataSyncer, whose names are a source and its copies.
`References` gathers its informers, the garbage collector, the namespace
controller and the clock under one weak fairness: there is only finitely much for
them to do, so none of it is put off for ever. Nothing is assumed of users, faults
or restarts. Liveness properties have the form "if the Challenge ends up healthy"
where the code only acts then.

The informers' periodic resync, ten hours by default and not configured in
`app.go`, is left out: liveness is about what happens without waiting for it. The
e2e suite waits for 30 seconds to two minutes. A resync would eventually repair
the instance visited too early, the TTL event that is lost, the second instance of
a user, the unrecorded reference, the copy whose replacement was missed and the
phase of an expired Consumer. It would not release the source of `stranded`: the
predicate filters its events too.

## What is proved

For every value of the constants: any sets of instances, users, TTLs, templates,
Challenges and data, any bound, any number of disturbances. The assumptions are
the named ones in the modules (`ClusterAssumption`, `ViewsAssumption`,
`ChallengeAssumption`, `KubeflagAssumption`, `DataAssumption` and so on); TLC
evaluates each of them in some run. Each invariant below was checked by TLC as an
invariant before it was proved.

**InstanceController** (`InstanceController_proofs`)

* `TypeCorrect`: `OpenSpec => []TypeOK`. `TypeOK` is inductive.
* `InstanceInvariant`: `OpenSpec => []InstanceInv`, with `IInv == TypeOK /\
  InstanceInv`. Type correctness alone says nothing about a stale copy.
  `InstanceInv` adds `Copies` (a cached copy with the stored version is the stored
  object, and no copy is newer), `Guarded` (past its updates, the worker's
  incarnation is stored and holds the finalizer, which only the worker removes)
  and `Judged` (a visit that is about to delete has published an expiration time
  that has passed). The argument: the update of the labels is refused for a stale
  copy, so from then on the worker's copy is of the stored incarnation; the
  finalizer keeps that incarnation in place until the worker itself lets go.
* `CreatedForGuardedHolds`, `DeletesOnlyExpiredHolds`: the two action properties of
  run `churn`, from that invariant. The Delete of an expired instance and the
  Create of a workload carry no precondition in the code; this is why they are
  safe all the same.
* `Opens`: the specification with bounded disturbances, which TLC runs, implies
  the open one.

**The two challenge controllers together** (`Kubeflag_proofs`)

* `TypeCorrect`: `Spec => []TypeOK`, from `KInv`, which adds that a template of a
  Challenge that exists is one of `Templates`, that a worker at work holds a
  Challenge, and that a loop has something left.
* `ImplementsHolds`: `Spec => Implements`. Each step of the challenge controller is,
  for the instance controller, a change of its view, an act of its neighbours
  (an eviction, a purge, the making or the deletion of the namespace), or nothing.
* `InstanceInvariantHolds`, `CreatedForGuardedHolds`, `DeletesOnlyExpiredHolds`:
  what is proved of the instance controller alone carries over by that
  refinement, without a second look at its actions. (`ICP` is an instance of its
  module of proofs; lemmas `Same...` say that it defines what `IC` does.)
* `HealthyIsEarnedHolds` and `NothingForgottenHolds`, from the invariant `EInv`:
  `Revs` (copies of the stored version are the stored Challenge, none is newer),
  `Verdict` (up to the write of the status, what is judged is the stored spec or
  the write will be refused), `Sequel` (past it, either the copy in hand is still the
  stored version or an event is on its way that the predicate lets pass), `Space`
  (the namespace of a live Challenge is not taken away) and `NothingForgotten`
  itself. The argument: the version check ties a verdict to the spec it is about;
  an author's edit raises the generation, so that it is either noticed by a check
  later in the visit, which then fails and is retried, or wakes the controller;
  and the controller's own status writes do not.
  Both theorems have a hypothesis, `UnmixedNames`: no template has a container
  without a port under the name of one that has a port. For such a template
  `validateTemplate` finds one container with a port, fills in its name and
  calls it valid, and the next visit calls it invalid, because a container
  of that name has no port (*ch*:237-285).
* `ServableAsNamedHolds`: what the challenge controller calls healthy, the instance
  controller can expose, unless another visit is due or the author wrote a name of no
  container with this very template. `EInv` has that a healthy Challenge is valid and
  names a container to expose; `NameInv` adds that what is stored, cached or in hand has
  a rightful name, one of a container **of its template** or as an author wrote it, and
  that the worker's copy is only ever written over the template it was read with.
  `NamedIsExposable` then says that the first container of that name has a first port.
  `UnmixedNames` is the only hypothesis; nothing is assumed of the names authors write.

**Consumer** (`Consumer_proofs`)

* `TypeCorrect`, and `IssuedWhileActiveHolds` from `IInv == TypeOK /\ Versions /\
  Stages /\ EntitledIsKept`: a copy with the stored version is the stored Consumer,
  and past the status update the worker's incarnation stays, guarded by its
  finalizer, which it alone removes. So a token is never created for a
  Consumer that has gone, although the Create looks at nothing but a cache.

**SigningKey** (`SigningKey_proofs`)

* `TypeCorrect`, and `AgreementHolds`: replicas never hold different signing keys.
  The invariant: what is cached or held is the stored key or none, and a replica
  about to create has a key in hand.
* `ImplementsHolds`: `Spec => Implements`, from the same invariant. A Create, also one
  that is reported as failed, chooses; a Get learns; a restart forgets.

**DataSyncer** (`DataSyncer_proofs`)

* `TypeCorrect`, `SourceInvariant` (`IInv == TypeOK /\ SourceInv`) and
  `KeepsSourceHolds`: the controller updates a source with the object it read, data
  and annotation included, and never undoes what others wrote: the version check
  refuses all but the stored version, and one version has one content.
* `Opens`: as above; `OpenSpec` is also what `References` is shown to implement.

**References** (`References_proofs`)

All from one invariant, `RInv`. Its parts, beyond the types of the Challenge
controller (`ChalInv`):

* `DSP!IInv`, the invariant of the DataSyncer. It is not proved again: a step of the
  composition is a step of `DS!OpenNext` (`StepImplements`), and of those
  `DataSyncer_proofs` says that they keep it.
* `NameInv`: an annotation is empty or names the one Challenge there is, and is empty
  when the source is absent or the cache last saw it absent. So the helpers on
  annotations, which are loops, are only ever applied to lists of length one at most,
  and what they return can be computed without induction (`Removed`, `Annotated`).
* `ReadInv`: a Challenge that was read is older than the stored one, or has its
  finalizers and references. So the references that a deletion loops over are those of
  the Challenge whose finalizer then goes.
* `ForgetInv`: while a visit un-annotates, a source of the spec that still names the
  Challenge is still before the loop. A stale copy of it is refused, and the visit is
  then repeated from the start; a source that the cache does not have is passed
  over, and that is safe by `NameInv`.
* `QuietInv`: there are no instances, which `References` leaves to `Kubeflag`.

The theorems:

* `TypeCorrect`, and `ImplementsHolds`: `Spec => Implements`, step by step. What users,
  the webhook's cache and the Challenge controller do is an act on a source or on
  the namespace, or nothing, for the DataSyncer.
* `ForgottenFirstHolds`: the finalizer for references goes only when no source of the
  spec names the Challenge, although each of them was read from a cache and others
  write them too.
* `SourceInvariantHolds`, `KeepsSourceHolds`: what `DataSyncer_proofs` shows, carried over
  by the refinement.

What is model-checked only: the liveness properties (`Expires`, `Heals`, `Released`,
`Quiesces`, `RollsOut`, `Settles`, `Razes`, `Keyed`, `Serves`, `Mirrors`, `Cleans`, `Rests`,
`FurnishedOrGone`), which are out of the prover's reach like everything that needs
fairness or `ENABLED`. Every safety property of the passing runs has a theorem; where
one has a hypothesis (`UnmixedNames`), the templates of the run meet it. The API server
rejects a pod template with two containers of one name (the CRD makes the list a map
keyed by name), so that stored templates meet it too.

## What is not modelled

* Challenges: a namespace of the right name that is there before the Challenge or has
  no `challengeRef` label; several Challenges, but for those a source of
  `DataSyncer` names; defaults filled in by the mutating webhooks.
* Workloads purged while the template is invalid and not made again once it is fixed
  (*ch*:364): two templates, an invalid one in between and an instance are more
  than TLC completes in the time a run may take.
* Instances: the workloads of the old user after `spec.user` is edited stay as they
  are; they are in the model, but no property is about them.
* Challenges with references next to the instance controller: `Kubeflag` assumes
  none, `References` has no instances.
* DataSyncer: an object that is not its copy but has the name of one; a Secret and a
  ConfigMap, or two sources, of one name; data of a ConfigMap that is not text has no run,
  because source and copy never compare equal and every visit writes.
* Tenants: `Tenant` is a flag in `Consumer`. Its policies are enforced by nothing in
  the repository.
* Consumers: the content of a token (claims, signature). A changed `expiresAt` does
  not re-issue it, which no property is about.
* Events, logging, metrics, flags, start-up and generated code.

## Plan

Done: the modules above, their runs, and the theorems. Left, in the order of use:

1. `NothingForgotten` and `HealthyIsEarned` for Challenges with references: the lemmas of
   `Kubeflag_proofs` about verdict and sequel, moved to `ChallengeController_proofs`, and
   the webhook's rejections on top of them.
2. A smaller module of an instance, to compose with a Challenge that is broken and
   fixed again (the purge of *ch*:364), or two instances of one user that come and go.
3. `DataSyncer` with data that is not text, under a bound on visits.

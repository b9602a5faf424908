# A verification project for kube-mock

kube-mock simulates Kubernetes nodes. An *operator* keeps one pod per `Node`
custom resource (a CR); in that pod runs a *simulated kubelet*, built on the
virtual-kubelet library, which registers a `v1.Node`, accepts pods, and pretends
that they run. A pod says by annotations when it becomes Running, Succeeded or
Failed.

This directory holds TLA+ models of the parts that have logic of their own, the
configurations that check them with TLC, and proofs checked by TLAPS.

    tlc -workers 2 -config DelaySchedule.cfg MCDelaySchedule.tla
    tlapm DelayScheduleProofs.tla

`PROJECT.json` lists components, runs, mutants, theorems, hazards and findings,
and maps each definition to the lines it models.

## 1. Inventory

| Part | Code | State | Operations | Modelled by |
|---|---|---|---|---|
| Delay schedule | `provider/mock_services.go`: `createDelayList`, `getNowStatus`, `patchPodStatus` | a list under construction, the clock, `pod.Status` | once a second, for each pod of the map | `DelaySchedule`; abstractly `Schedule` |
| Pod statuses | `provider/mock_services.go`: `createStatus` and what it calls | none | make a status from an annotation | `PodStatus` |
| Pod map | `provider/mock.go`, `provider/util/safemap.go` | `podsMock`: key -> pod | `CreatePod`, `UpdatePod`, `DeletePod`, `GetPod`, `UpdateMockPodsStatus` | `MockProvider`; abstractly `PodLife` |
| Mock tracker | `provider/mock_tracker.go` | none | assigns `pod.Status` in the map | `MockProvider` |
| Pods tracker | `provider/pods_tracker.go` | the listed pods, the one at hand | `updatePodsLoop`, `UpdatePodStatus`, `cleanupDanglingPods` | `MockProvider` |
| virtual-kubelet, informer, API server | outside the repository | caches, queues, known pods | callbacks into the provider, status and removal calls | `MockProvider`, external |
| Node controller | `controller/node_controller.go`, `controller/service/ensure` | none of its own; reads caches | `Reconcile` | `NodeController`; for two CRs of one name `SharedName` |
| controller-runtime, garbage collector, user | outside | caches, queue, timer | events, edits, collection | `NodeController`, external |
| Kubelet pod specification | `internal/util/node.go` | none | `CreateNodePodObj`, `IsDesired` | `NodeSpec` |
| Kubelet command | `cmd/node.go`, `provider/mock.go`: `NewMockProvider`, `ConfigureNode` | flags, environment | registers the v1.Node, ends when it does not become ready | `Kubelet`, `SharedName`; TLS, authentication and logging not modelled |
| Stats, metrics, logs, exec | `provider/mock.go` | none | read-only | not modelled |
| Manager command | `cmd/manager.go` | flags | start-up | not modelled |
| Bulk creation tool | `internal/mock/mock.go` | none | reads nodes once, writes a YAML file | not modelled |
| API types | `api/v1alpha1` | - | generated code | not modelled |

How the parts interact. virtual-kubelet calls `GetPod`, `CreatePod`, `UpdatePod`
and `DeletePod` from one worker per pod name. The pods tracker calls `GetPod` from
its own goroutine, compares what it gets with the API server's status, and calls
the notifier; virtual-kubelet then writes the status to the API server, whose
event comes back through the informer's cache. The mock tracker assigns the
statuses that the other two read. `Reconcile` and the kubelets share only the API
server's objects: the operator passes a CR's specification on as the command and the
environment of a pod, from which the kubelet in it makes a v1.Node.

What is hard:

* `createDelayList` inserts into the list it iterates over and does not leave the
  loop: items are repeated, and the list need not be sorted.
* `GetPod` is a read of the map, a list of the cache and a write of the map, with no
  lock around them, called from two goroutines.
* `pod.Status` is assigned under a *read* lock while others copy it.
* Everything is known by name, while pods are objects that come and go under a name.
* The kubelet restarts with an empty map; "not in the map" means "failed" to the
  tracker if the pod was running.
* `Reconcile` decides from caches that lag, in any list order, and any call may fail.
* `IsDesired` compares the pod with the CR after the API server had its way with both.
* A v1.Node has no namespace, is registered only when a kubelet starts, and is looked
  up by the operator only once.

What makes each part correct is stated as properties (section 3); the hazards with
their lines are in `PROJECT.json`.

## 2. The models

### DelaySchedule

One pod, created at time 0, and the goroutine that calls `patchPodStatus` for it.
`pc = "build"` is inside `createDelayList`, where `k` is the annotation looked up and
`cur` the element the inner loop is at (0 outside it); `pc = "walk"` is inside
`getNowStatus`. Each pass of each loop is one action, named for the branch it takes:
`SkipAnnotation`, `PushFront`, `StartInsert`, `InsertBefore`, `InsertAfterLast`,
`InsertBetween`, `PassElement`, then `ReturnDefault`, `StartWalk`, `ReturnNil`,
`ReturnItem`, `WalkOn`. `ContinueAt` is the loop's post statement `element.Next()`,
evaluated on the list *after* the insertion. `Tick` may happen between any two of
them; within one pass the clock is read once, as in the code.

`Schedule` is what the annotations promise: show only what is due, never go back, end
with the latest. `DelaySchedule` implements it, with the annotations' durations for its
delays (`ImplementsSchedule`).

A text that `time.ParseDuration` rejects is one model value, and counts as zero. The
status built from an annotation is that annotation's key.

### PodStatus

The operator `CreateStatus` makes the status itself from the pod's delays and the key:
phase, the conditions that readers depend on, start and finish. `DelaySchedule` uses it
to say what a watcher reads (`ShownStatus`). A pod's containers get equal statuses, so
that one stands for all; IPs, names, images and reasons are left out.

### MockProvider

The map, its trackers, and what they depend on. State and code:

| Variable | Code |
|---|---|
| `podsMock` | `MockProvider.podsMock` |
| `call[c]` | a `GetPod` call of the tracker or of a name's worker, or the pod it returned; `shared` says that this is the object in the map, so that the mock tracker's assignments reach it |
| `todo`, `tracked` | the pods of `updatePodsLoop`, and the pod in `processPodUpdates` |
| `worker`, `queued`, `received`, `dirty`, `skipped`, `killed` | virtual-kubelet's worker, its three queues and the pods it received |
| `seen`, `seenSt` | the informer's cache, which is `podsApiserver` |
| `life`, `apiSt`, `due` | the API server, and how many of a pod's delays have passed |

`GetPod` is `Read` (joined with its caller's step for the tracker), `GetPodList` and
`GetPodWrite`. `DeletePod` is `DeletePod` or `DeleteMissing`, then `UpdatePodStatus`.
`UpdatePod` is a write and a notification. The tracker's pass over a pod is
`FetchPodStatus`, `CompareStatus` and `CopyStatus`, or `PodLost`, then `NotifyStatus`.

A status is its phase, the annotation in its Desired condition and whether a
container runs. A copy made while the status is assigned takes each of these from
before or after (`Torn`). What `DelaySchedule` computes appears here as a *plan*: the
annotations in the order they fall due. `cleanupDanglingPods` calls `CleanupPod`,
which does nothing; it has no action.

Simplifications: a pod's annotations are those it was created with. The program does not
edit them; a user may, and that is not modelled, so that `UpdatePod` is called only where
the environment that virtual-kubelet fills in makes two pods differ. The early returns for a pod without a namespace or a name (`buildKey`,
as in `mock.go:109-110`) are left out, since a pod from the API server has both.

Definitions for virtual-kubelet and the API server are marked external: they say what
`src/` relies on. The important ones: `podsEqual` does not compare UIDs; a status
equal to the last received one is not sent; a status is sent for the pod received,
whatever the cache holds by then; a deletion whose containers have stopped is
confirmed without the provider.

`PodLife` is the provider with virtual-kubelet as seen from outside: a pod that is there
until its deletion is asked for and shows what has fallen due. It has no map, cache or
process. The refinement mapping takes `apiSt` for what is shown, the plans for the
schedules, and the pods with the same key for those a pod may be mistaken for.

### NodeController

One CR. `recon` is the call of `Reconcile`, with the CR as it read it, and each call to
the API server is an action of its own, which may fail (`ApiError`), conflict
(`Conflict`, when the CR was changed since it was read) or say not found. The caches
`crdSeen`, `podsSeen` and `vnodeSeen` catch up one object at a time; events of the CR
and of its pods put it into the queue, events of the v1.Node do not. `FilteredPods`
lists the active pods in *every* order, as the cache's list comes from a Go map.
`deletePods` walks its index from `FirstSurplus` down to `need`, and panics when the
index is outside the list; controller-runtime 0.15 does not recover, so the manager
dies and is restarted.

Simplifications: the CR's pods have a grace period of zero (`CreateNodePodObj` says so)
and go at once; the resource version is represented by the CR's fields and a count of
edits; the CR has no finalizer but the operator's, so that the branch for a CR that is
being deleted without it is not reached; the v1.Node has none at all and goes at once,
so that the one `Reconcile` finds has no `DeletionTimestamp` (`node_ensurer_delete.go:38`).

What a pod was made from and what `IsDesired` says of it is `NodeSpec`'s; the relation
`Desired` is computed once for the specifications of the instance.

### NodeSpec

The pod of a CR, field by field (`CreateNodePodObj`), what admission and defaulting make
of it (`Admit`), what the typed client makes of the CR that it updates (`Encode`), and
the comparison (`IsDesired`). What may be nil is an empty set or a set of one value, since
`reflect.DeepEqual` tells nil from empty: the selector, the pull secrets, and of the
resources the requests, the limits and the claims. `Admit` and `Encode` leave out each of
these that is there and empty, and write quantities canonically. A quantity is a value and
whether its text is canonical. Affinity and security context are values that pass
unchanged: what the API server might leave out inside them is not modelled. The two
constants are what the API server adds: pull secrets of the service account, and
tolerations, volumes and mounts.

A label's key and value are texts, which matter by the "," and "=" in them: a text is the
sequence of its pieces between ",", a piece the sequence of its words between "=".
`LabelsMapToStr` sorts its lines `key=value` before it joins them by ",", so that the
set of lines says all that its text does. The text also goes through `fmt.Sprintf`
as a format (`node.go:179`), which changes a "%" in it; no valid label has one, and the
models' words have none.

### Kubelet

The v1.Node that a kubelet registers: `ConfigureNode` of the pod's command and
environment, with the labels read back from the text they were passed as
(`LabelsMapToStr`, `LabelsStrToMap`): a "," in a key or a value begins a new label there,
the last one of a key wins, and what follows a second "=" is dropped. Of two lines with
one key the one that sorts last wins; which that is, is a choice, and the same each time.
What a CR may expect of its labels is said only of those that are fit to pass as such a
text (`IsFit`): with the labels `{c: "e", z: "x,c=d"}` the v1.Node has `c=d` and `z=x`,
and `StatusAsked` promises neither.

### SharedName

Two CRs of one name in two namespaces. `A` and `B` are instances of `NodeController` with
their own CR, pods and call of `Reconcile`; the v1.Node, its cache and the manager's
process are shared, and the one worker takes up one CR at a time. `node` is what the
v1.Node is like. A kubelet registers it when it starts (`RegisterA`, `RegisterB`); its
process may end (`Exit`) and its container starts again. Whether the library replaces
the taints of a v1.Node that exists is left open. `late` records the two cases in which
the operator cannot see the v1.Node it should delete. `MaxEnds` bounds the crashes, the
failed pods and the ends of processes together. The CRs are not edited
(`MaxEdits <- 0`): `Asked` speaks of one specification per CR, and what an edit does is
`NodeController`'s question.

## 3. The runs

| Run | Instance | Checks |
|---|---|---|
| `DelaySchedule` | all assignments of the delays of `MCDelays` or a malformed text to any subset of three annotations | `TypeOK`; `HeadIsEarliest`, `TailIsLatest` (the ends of the list are right although its middle is not sorted); `NeverEarly`; `NothingWithheld`; `SettlesOnLatest`; `NeverGoesBack`; `Settles`; `FinishedInThePast`, `RunsBeforeFinishing` (the times in the statuses); `ImplementsSchedule` |
| `ProviderRaces` | one pod, two delays, one torn copy, deletion | `TypeOK`, `NeverEarly` |
| `ProviderRestart` | a restart at any moment | `PodsSettle`, `DeletionCompletes`, `ImplementsPodLife` (safety and liveness) |
| `ProviderReuse` | two pods, one after the other under one name, and a restart | `NoSpuriousFailure`, `AdmittedPodsKnown`, `StepsOfPodLife` (safety) |
| `NodeController` | two pod names; two specifications; one edit, error, pod failure, crash and stale list each | `TypeOK`, `FinalizerBeforePods`, `PanicsOnlySuspended`, `OneKubelet`, `DeletionCompletes`, `OrphansCollected` |
| `SharedName` | two CRs with one pod name each and different v1.Nodes; one crash of the operator, one failed pod or one end of a kubelet's process | `NodeStays`, `NodeCleanedUp`, `NodeAsAsked` |

Six more runs each check one statement of the documentation or of a comment, and find
it violated:

* `DelayScheduleDocs`, `LatestDueShown` (`README.md:93-95`). With three annotations whose
  list comes out unsorted, the walk passes the greatest element that is due, goes on to a
  smaller one that was inserted a second time behind it, and stops there, because the next
  is not due. Running after 3, Succeeded after 2 and Failed after 1 is such a pod, and
  needs no malformed delay: the list is Failed, Succeeded, Failed, Running, and from 2 until
  3 the pod is shown as Failed. It corrects itself once all delays have passed:
  `SettlesOnLatest` holds.
* `ProviderTorn`, `PhaseFollowsDelay`. A half-copied status with the new Desired condition
  and the old phase is published, taken as up to date, and stays.
* `ProviderEarly`, `DelayFromCreation`. A pod recreated under the name of an equal one
  continues the first one's schedule.
* `ProviderDangling`, `DanglingPodsCleanedUp`. `GetPod` puts a pod back after `DeletePod`,
  and "cleaning up dangling pod" cleans nothing.
* `ProviderCollision`, `GetPodByName`. `namespace-name` is ambiguous.
* `NodeSuspend`, `SuspendStops`. Suspending a CR with a kubelet panics the manager, again
  and again, and no pod is deleted. `PanicsOnlySuspended` says that nothing else does.

Bounds. Three annotations are all there are; delays need only be compared with each
other, with zero and with the clock, so that a few values around zero give every order
and tie. The provider's hazards take two goroutines and one name, and two pods only
where a name or key is shared; races and restarts are counted, since one of each already
reaches every state of the handlers. Two pod names let the operator create a surplus pod
from a stale list and then run out of names. `MaxLags` bounds the lists taken from a
cache that lags; a list is then taken when the cache has caught up. It is needed for
liveness: a cache that is behind for ever lets `Reconcile` delete both of two pods each
time, and real caches are not behind for ever. The two specifications differ in fields
that are compared exactly, in one compared by inclusion, and in what the typed client
rewrites: the first has an empty selector, empty limits and a request that is not canonical.
Admission adds a toleration and a mount. `SharedName` gives each CR
one pod name, as its hazards are in the order of the CRs' steps and not in the number of
pods; its labels include one that overrides virtual-kubelet's and one with a "," and a
second "=". `MaxEnds` is one there, and its lists do not lag: with two ends it has 2.4
million states, with a lagging list 2.2 million, on which TLC finds nothing either, and
the theorems hold for any bounds.

Deadlock is checked for `DelaySchedule`, whose tracker never stops. In the others
everything may come to rest, and the check is off.

Fairness. `DelaySchedule`: the tracker's timer is always reset (`mock_tracker.go:39`)
and time passes. `MockProvider`: each goroutine goes on, queues are served, the informer
catches up, and delays pass; nobody need create, delete or restart. `NodeController`:
`Reconcile` goes on, the timer fires, the caches catch up, a panicked manager is
restarted, the garbage collector works; the user, failures and crashes owe nothing. All
of it is weak fairness of whole processes, not of single branches. `SharedName` is checked
without fairness: it has 1,072,386 states, on which TLC's liveness check takes longer than
the run may, and its questions are of safety.

Every property of a passing run has a mutant: a variant of one definition, as a slip in
that code would make it, for which TLC finds the property violated.

## 4. The proofs

`DelayScheduleProofs` proves, for every set of delays, `TypeOK`, `HeadIsEarliest`,
`TailIsLatest`, `NeverEarly`, `NothingWithheld` and `SettlesOnLatest`. The list is not
sorted, so sortedness cannot be the invariant. What each insertion does preserve is
that the list *spans* the annotations looked up so far (`Spans`): its first delay is at
most, its last at least, each of theirs, and every element comes from the pod
(`FromPod`). Two facts make that inductive: past the first element the loop has seen a
first delay not above the item's, so that an insertion before a later element leaves
the head alone; and the walk is at an element past the first only if that has elapsed,
so that nil is returned at the head or not at all.

`DelayOrderProofs` proves what a pod shows over time: `NeverGoesBack`,
`FinishedInThePast`, `RunsBeforeFinishing`, and that every step of `DelaySchedule` is a
step of `Schedule` or a stutter (`ImplementsScheduleSafety`). The list may hold an item
several times and out of order, so that sortedness is again no invariant. Two things hold of the
finished list (`Built`). It *skips* no delay up to that of `delayFailed`, which is inserted
last: an element below such a delay is followed by one not above it (`Follows`; `Scan` is
this within an insertion). And an item above `delayFailed`, unless it is one of the
latest, is followed by one not greater, so that the walk does not stop there. What is
shown is therefore a status that any later walk reaches, or the latest (`OrderInv`).

`MockProviderProofs` proves `TypeOK` and `NoSpuriousFailure` for any pods, names, keys
(collisions included), schedules, environments, restarts, races and reuse of names. `NoSpuriousFailure` alone
is not inductive: a tracker that misses a pod must have found it neither in the map nor,
live, in the cache. The invariant adds: the pods that are due are in their plans
(`DueInPlan`), the tracker's call belongs to its pod (`TrackerCalls`), the cache shows
only what was the case (`CacheBehind`), a listed pod is still in the cache or on its way
out (`ListedStillSeen`), and a call that missed belongs to a pod whose deletion was
asked for (`MissingIsGoing`).

`PodLifeProofs` proves the provider's `NeverEarly` and `AdmittedPodsKnown`, and that every
step of the kubelet is one of `PodLife` (`StepsOfPodLife`), whatever names are reused and
whatever keys collide. A status travels from the map through calls, trackers, queue, worker
and API server to the cache and back, and is torn, late or repeated on the way. `ShowInv`
says of each of these places that the phase and the condition it holds have each fallen
due for the pod or for one that was taken for it, a pod with the same key; or that the
provider lost the pod, which happens only when its deletion was asked for (`OnlyAsked`,
with `NoSpuriousFailure`). `KnownInv` says that the cache holds one pod of a name at most,
that a completed pod's status is not written again, and that the worker of a name has the
live pod in the map once it is idle, or is about to put it there.

Trying to prove them showed that `NeverEarly`, `AdmittedPodsKnown` and `PodLife`'s
namesakes had been stated by name where the code goes by key: with two names of one key, a
pod takes on another's status, and `DeletePod` of one takes the other out of the map. They
now speak of pods whose key is their own. The collision itself is what `ProviderCollision`
shows.

`NodeSpecProofs` is about functions rather than steps. `FreshPodDesired` says for every CR
that the pod the operator creates is valid and desired when it comes back exactly if
`LeftAlone`: none of its lists and maps is there and empty, limits and requests included;
its resources are complete and canonical; it makes no claims; it has a kubeconfig secret if
it has a certificate's; and no pull secrets are lent to it. "Valid" is about what the code
puts together itself (`IsValid`). Each field is one lemma: `StoredPod` says what is stored,
and `StoredSelector`, `StoredSecrets`, `WrittenLists` and `StoredRequests` when that is
what was sent.
`DesiredFollows` says that no pod is accepted that lacks something the CR asks for.
`ConfiguredAsAsked` takes the specification through flags and environment to the v1.Node;
its core, `LabelArrives`, is that reading the text of the labels gives back every label
that is fit to pass as text, whatever the others are. They are what `OneKubelet` and `NodeAsAsked` check on their instances'
specifications.

`NodeControllerProofs` proves `TypeOK`, `FinalizerBeforePods` and `PanicsOnlySuspended` for
any number of pods and specifications. `FinalizerBeforePods` is not inductive: a call of
`Reconcile` works from a cached CR and lasts many steps. `FinalizerFirst` adds that neither
a call that has gone beyond `addFinalizer` nor a cached CR with a finalizer exists before
the CR has one. `InsideList` is the argument for the index: it is at most the number of
surplus pods, which is inside the list as soon as one pod is to stay.

`SharedNameProofs` proves `NodeStays`, `NodeCleanedUp` and `NodeAsAsked`. It takes the lemmas
of `NodeControllerProofs` twice, as `PA` and `PB`: each step of the composition is a step of
one half, and changes of the other only what the two share (`FrameA`, `FrameB`). What is
added for both is `HasOwner`: a v1.Node that was registered in time, and that nobody has overlooked,
has a CR that is still to look for it. `NodeAsAsked` rests on `ConfiguredAsAsked`, and on a
kubelet starting only for a pod made from its CR's specification.

The assumptions are those of the modules' `ASSUME`s; TLC evaluates them on every run. They
say which sets constants belong to; that the pods' names are finitely many, since
`filteredPods` is a list of them; and, for `SharedName`, that a CR is of its Go type (`IsCr`):
the keys and values of labels are texts, and the text of a quantity is not empty. The bounds
on crashes, failures, lagging lists, restarts and edits are any numbers, except that the CRs
of `SharedName` are not edited.

With this, every invariant and every safety property of the passing runs is a theorem. Only
model-checked are the liveness properties, which are outside what the installed provers
do, together with the fairness they rest on: `Settles` (which includes that the insertion
loop ends), `PodsSettle`, `DeletionCompletes` of the provider and of the operator,
`OneKubelet`, `OrphansCollected`, and the liveness that `Schedule` and `PodLife` promise in
`ImplementsSchedule` and `ImplementsPodLife`.

## 5. Plan

Written, in this order: `DelaySchedule`, its proofs, `MockProvider`, its proofs,
`NodeController`; then `PodStatus` and `Schedule`, `PodLife`, `NodeSpec`, `Kubelet`,
`SharedName`, `NodeSpecProofs`; then `DelayOrderProofs`, `NodeControllerProofs`,
`SharedNameProofs` and `PodLifeProofs`.

Next, proofs that no run's property asks for but that the liveness arguments rest on:

1. `NodeController`: the safety half of `OneKubelet`. Once the caches are complete and
   one pod is desired and followed, no step but an edit, a failure or a deletion changes it.
2. `MockProvider`: the safety half of `PodsSettle`. Once a pod shows the end of its
   schedule, and nothing else is on its way, no step takes that back.
3. `DelaySchedule`: a measure of the insertion loop that each pass decreases, from which
   it follows that the loop ends.

## 6. Not modelled

* Stats, metrics, logs and exec: they read the map, or answer with constants, and change
  nothing.
* The kubelet's TLS and authentication set-up, the manager's command and logging: wiring
  of libraries, without state of this program's.
* The bulk creation tool (`internal/mock/mock.go`): it reads the nodes of a cluster once and
  writes a YAML file.
* `api/v1alpha1`: declarations and generated code; the fields appear in `NodeSpec`.
* IPs, reasons, messages, images and resource usage inside statuses: nothing in the
  program reads them back.
* `UpdateNodeCrdStatus`, which nothing calls, and `cleanupDanglingPods`, which changes nothing.

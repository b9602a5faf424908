--------------------------- MODULE NodeController ---------------------------
(***************************************************************************)
(* The operator (internal/controller): for a Node custom resource, a CR,   *)
(* it keeps one pod that runs a simulated kubelet, and before the CR goes  *)
(* away it deletes the v1.Node that this kubelet registered.               *)
(*                                                                         *)
(* Reconcile reads CRs, pods and v1.Nodes from the manager's caches, which *)
(* lag behind the API server, and writes to the API server.  The module is *)
(* one CR: controller-runtime runs at most one Reconcile per CR at a time. *)
(***************************************************************************)
EXTENDS NodeSpec, Sequences, FiniteSets, SequencesExt

CONSTANTS
    Specs,        \* specifications that users give the CR, by a name
    SpecOf,       \* the specification of each name
    FirstSpec,    \* the one that the CR is created with
    Pods,         \* names that GenerateName may give; free again once unused
    MaxEdits,     \* bound on the edits of the CR's specification
    MaxErrors,    \* bound on the API calls that fail for no reason of ours
    MaxFailures,  \* bound on the kubelet pods that fail
    MaxCrashes,   \* bound on the manager's restarts, panics apart
    MaxLags       \* bound on the pod lists taken from a cache that lags

ASSUME SpecsAssumption == FirstSpec \in Specs /\ Specs = DOMAIN SpecOf
ASSUME PodsAssumption == IsFiniteSet(Pods)
ASSUME BoundsAssumption == {MaxEdits, MaxErrors, MaxFailures, MaxCrashes, MaxLags} \subseteq Nat

VARIABLES
    \* The API server.
    crd,       \* the CR
    pods,      \* the pods with the CR's labels
    config,    \* the CR's specification that each of them was created from
    starting,  \* those whose kubelet has not started yet
    vnode,     \* is there a v1.Node of the CR's name?
    \* The manager's caches.
    crdSeen, podsSeen, vnodeSeen,
    \* controller-runtime's queue.
    queued,    \* the CR is in the queue
    timer,     \* the CR will be in the queue when RequeueAfter has passed
    \* The call of Reconcile.
    recon,
    \* The finalizer was removed by Reconcile; only properties read this.
    finalized,
    \* What TLC bounds.
    errors, failures, crashes, lags

apiVars == <<crd, pods, config, starting, vnode>>
cacheVars == <<crdSeen, podsSeen, vnodeSeen>>
queueVars == <<queued, timer>>
bounds == <<errors, failures, crashes, lags>>
vars == <<crd, pods, config, starting, vnode, crdSeen, podsSeen, vnodeSeen,
          queued, timer, recon, finalized, errors, failures, crashes, lags>>

(***************************************************************************)
(* A CR.  The version stands for its resource version as far as edits go;  *)
(* with the other fields it tells any two states of the CR apart.  The     *)
(* specification is encoded as the user wrote it or, after an Update by    *)
(* Reconcile, as typed, without empty lists.                               *)
(***************************************************************************)
Crd == [life : {"unborn", "live", "deleting", "gone"}, finalizer : BOOLEAN,
        suspend : BOOLEAN, config : Specs, typed : BOOLEAN, version : 0..MaxEdits]

NewCrd == [life |-> "unborn", finalizer |-> FALSE, suspend |-> FALSE,
           config |-> FirstSpec, typed |-> FALSE, version |-> 0]

\* need, in EnsureNodePod.
Need(node) == IF node.suspend THEN 0 ELSE 1

\* The specification as Reconcile reads it.
CrSpec(spec, typed) == IF typed THEN Encode(SpecOf[spec]) ELSE SpecOf[spec]

\* The pod that is created from a specification; it is the same pod from the
\* encoded one, as admission leaves out empty lists and maps, and writes quantities
\* canonically, too.
PodOf(spec) == Admit(CreateNodePodObj(SpecOf[spec]))

\* Which pods IsDesired finds as each specification asks for them: triples of a
\* specification, whether it is typed, and that of a pod.
Desired == {t \in Specs \X BOOLEAN \X Specs :
              IsDesired(CrSpec(t[1], t[2]), PodOf(t[3]))}

\* Which specifications give a pod that the API server takes.
Valid == {spec \in Specs : IsValid(CreateNodePodObj(SpecOf[spec]))}

\* IsDesired, of a listed pod.
PodIsDesired(node, p) == <<node.config, node.typed, config[p]>> \in Desired

\* FilterActivePods, on the cached list, whose order is that of a Go map.
FilteredPods == SetToSeqs({p \in Pods : podsSeen[p] = "active"})

\* Variant for the mutation runs: the length instead of the difference.
LengthAsSurplus(list, need) == Len(list)

\* Variant for the mutation runs: the difference the other way round.
NegativeSurplus(list, need) == need - Len(list)

\* deletePods: the index in filteredPods, from 0, of the pod deleted first.
FirstSurplus(list, need) == Len(list) - need

-----------------------------------------------------------------------------
(***************************************************************************)
(* Reconcile                                                               *)
(***************************************************************************)

Idle == [pc |-> "idle"]

\* Reconcile reads the CR from the cache.
Begin(pc) ==
    /\ recon.pc = "idle"
    /\ queued
    /\ queued' = FALSE
    /\ recon' = [pc |-> pc, node |-> crdSeen]
    /\ UNCHANGED <<apiVars, cacheVars, timer, finalized, bounds>>

\* Variant for the mutation runs: a CR that was not found is ensured too.
EnsureMissing ==
    /\ crdSeen.life \in {"unborn", "gone"}
    /\ Begin("list")

\* Not found: the CR must have been deleted.
IgnoreMissing ==
    /\ recon.pc = "idle"
    /\ queued
    /\ crdSeen.life \in {"unborn", "gone"}
    /\ queued' = FALSE
    /\ UNCHANGED <<apiVars, cacheVars, timer, recon, finalized, bounds>>

\* Variant for the mutation runs: finalized as soon as it has the finalizer.
FinalizeAnyway ==
    /\ crdSeen.life \in {"live", "deleting"}
    /\ crdSeen.finalizer
    /\ Begin("finalize")

\* Marked to be deleted: finalizeNode.
BeginFinalize ==
    /\ crdSeen.life = "deleting"
    /\ crdSeen.finalizer
    /\ Begin("finalize")

BeginAddFinalizer ==
    /\ crdSeen.life = "live"
    /\ ~crdSeen.finalizer
    /\ Begin("addFinalizer")

BeginEnsure ==
    /\ crdSeen.life = "live"
    /\ crdSeen.finalizer
    /\ Begin("list")

(***************************************************************************)
(* Reconcile returns: with nothing more to do until an event, with         *)
(* RequeueAfter, or with an error, which puts the CR back into the queue.  *)
(***************************************************************************)
Return ==
    /\ recon' = Idle
    /\ UNCHANGED queueVars

ReturnNormally ==
    /\ recon' = Idle
    /\ timer' = TRUE
    /\ UNCHANGED queued

ReturnError ==
    /\ recon' = Idle
    /\ queued' = TRUE
    /\ UNCHANGED timer

GoTo(pc) ==
    /\ recon' = [recon EXCEPT !.pc = pc]
    /\ UNCHANGED queueVars

\* A call to the API server fails, whatever it is.
Calls == {"addFinalizer", "deleteNode", "removeFinalizer", "create", "delete", "undesired"}

ApiError ==
    /\ recon.pc \in Calls
    /\ errors < MaxErrors
    /\ errors' = errors + 1
    /\ ReturnError
    /\ UNCHANGED <<apiVars, cacheVars, finalized, failures, crashes, lags>>

\* An Update of a CR that was changed since it was read.
Conflict ==
    /\ recon.pc \in {"addFinalizer", "removeFinalizer"}
    /\ recon.node # crd
    /\ ReturnError
    /\ UNCHANGED <<apiVars, cacheVars, finalized, bounds>>

\* Variant for the mutation runs: the error of Update is dropped.
AddFinalizerAnyway ==
    /\ recon.pc = "addFinalizer"
    /\ crd' = IF recon.node = crd THEN [crd EXCEPT !.finalizer = TRUE] ELSE crd
    /\ recon' = [pc |-> "list", node |-> recon.node]
    /\ UNCHANGED <<pods, config, starting, vnode, cacheVars, queueVars, finalized, bounds>>

\* The CR gets its finalizer, and goes on as the API server returned it.
AddFinalizer ==
    /\ recon.pc = "addFinalizer"
    /\ recon.node = crd
    /\ crd' = [crd EXCEPT !.finalizer = TRUE, !.typed = TRUE]
    /\ recon' = [pc |-> "list", node |-> crd']
    /\ UNCHANGED <<pods, config, starting, vnode, cacheVars, queueVars, finalized, bounds>>

\* Variant for the mutation runs: the v1.Node is left as it is.
LeaveNode ==
    /\ recon.pc = "finalize"
    /\ GoTo("removeFinalizer")
    /\ UNCHANGED <<apiVars, cacheVars, finalized, bounds>>

\* DeleteEnsureNode looks for the v1.Node in the cache.
GetNodeOnly ==
    /\ recon.pc = "finalize"
    /\ GoTo(IF vnodeSeen THEN "deleteNode" ELSE "removeFinalizer")
    /\ UNCHANGED <<apiVars, cacheVars, finalized, bounds>>

DeleteNode ==
    /\ recon.pc = "deleteNode"
    /\ vnode
    /\ vnode' = FALSE
    /\ GoTo("removeFinalizer")
    /\ UNCHANGED <<crd, pods, config, starting, cacheVars, finalized, bounds>>

\* It is already gone: Delete says not found, which is an error here.
DeleteNodeNotFound ==
    /\ recon.pc = "deleteNode"
    /\ ~vnode
    /\ ReturnError
    /\ UNCHANGED <<apiVars, cacheVars, finalized, bounds>>

\* Variant for the mutation runs: the CR is not updated.
ForgetFinalizer ==
    /\ recon.pc = "removeFinalizer"
    /\ recon.node = crd
    /\ Return
    /\ UNCHANGED <<apiVars, cacheVars, finalized, bounds>>

\* Without its finalizer, the CR goes away.
RemoveFinalizer ==
    /\ recon.pc = "removeFinalizer"
    /\ recon.node = crd
    /\ crd' = [crd EXCEPT !.finalizer = FALSE, !.life = "gone"]
    /\ finalized' = TRUE
    /\ Return
    /\ UNCHANGED <<pods, config, starting, vnode, cacheVars, bounds>>

(***************************************************************************)
(* EnsureNodePod lists the pods and compares their number with what is     *)
(* needed (diffPods).  If it is right, syncPods has at most one to look    *)
(* at, the only one.                                                       *)
(***************************************************************************)
ListPods ==
    /\ recon.pc = "list"
    /\ \/ podsSeen = pods /\ UNCHANGED lags
       \/ podsSeen # pods /\ lags < MaxLags /\ lags' = lags + 1
    /\ \E list \in FilteredPods :
         LET need == Need(recon.node)
             node == recon.node
         IN  \/ /\ Len(list) < need
                /\ GoTo("create")
             \/ /\ Len(list) > need
                /\ recon' = [pc |-> "delete", node |-> node, list |-> list,
                             i |-> FirstSurplus(list, need)]
                /\ UNCHANGED queueVars
             \/ /\ Len(list) = need
                /\ \A i \in 1..need : PodIsDesired(node, list[i])
                /\ ReturnNormally
             \/ /\ Len(list) = need
                /\ \E i \in 1..need : ~PodIsDesired(node, list[i])
                /\ recon' = [pc |-> "undesired", node |-> node, list |-> list, i |-> 0]
                /\ UNCHANGED queueVars
    /\ UNCHANGED <<apiVars, cacheVars, finalized, errors, failures, crashes>>

\* The names GenerateName may give: no pod, cached pod or listed pod has one.
Free == {p \in Pods : pods[p] = "none" /\ podsSeen[p] = "none"}

\* createPod.  One is missing, as one at most is needed.
CreatePod ==
    /\ recon.pc = "create"
    /\ recon.node.config \in Valid
    /\ \E p \in Free :
         /\ pods' = [pods EXCEPT ![p] = "active"]
         /\ config' = [config EXCEPT ![p] = recon.node.config]
         /\ starting' = starting \cup {p}
    /\ Return
    /\ UNCHANGED <<crd, vnode, cacheVars, finalized, bounds>>

\* The API server takes no more pods, or never this one.
CreateRefused ==
    /\ recon.pc = "create"
    /\ Free = {} \/ recon.node.config \notin Valid
    /\ ReturnError
    /\ UNCHANGED <<apiVars, cacheVars, finalized, bounds>>

\* filteredPods[i], the pod that deletePods or syncPods deletes.
Target == recon.list[recon.i + 1]

InRange == recon.i < Len(recon.list)

\* Delete.  The pods' grace period is zero, so that they go at once.
Delete(p) ==
    /\ pods[p] # "none"
    /\ pods' = [pods EXCEPT ![p] = "none"]
    /\ starting' = starting \ {p}
    /\ UNCHANGED <<crd, config, vnode, cacheVars, finalized, bounds>>

\* deletePods, from the last pod down to filteredPods[need].
DeletePod ==
    /\ recon.pc = "delete"
    /\ InRange
    /\ Delete(Target)
    /\ IF recon.i - 1 >= Need(recon.node)
         THEN recon' = [recon EXCEPT !.i = @ - 1] /\ UNCHANGED queueVars
         ELSE Return

\* syncPods.
DeleteUndesired ==
    /\ recon.pc = "undesired"
    /\ Delete(Target)
    /\ Return

\* The pod is already gone: not found is an error, and ends the loop.
DeleteNotFound ==
    /\ recon.pc \in {"delete", "undesired"}
    /\ InRange
    /\ pods[Target] = "none"
    /\ ReturnError
    /\ UNCHANGED <<apiVars, cacheVars, finalized, bounds>>

\* The index is out of range: Reconcile panics, and the manager with it.
Panic ==
    /\ recon.pc = "delete"
    /\ ~InRange
    /\ GoTo("panicked")
    /\ UNCHANGED <<apiVars, cacheVars, finalized, bounds>>

Reconcile ==
    \/ IgnoreMissing \/ BeginFinalize \/ BeginAddFinalizer \/ BeginEnsure
    \/ ApiError \/ Conflict \/ AddFinalizer
    \/ GetNodeOnly \/ DeleteNode \/ DeleteNodeNotFound \/ RemoveFinalizer
    \/ ListPods \/ CreatePod \/ CreateRefused
    \/ DeletePod \/ DeleteUndesired \/ DeleteNotFound \/ Panic

-----------------------------------------------------------------------------
(***************************************************************************)
(* controller-runtime: the timer, the caches and the manager's process     *)
(***************************************************************************)

Running == recon.pc # "panicked"

TimerFires ==
    /\ Running
    /\ timer
    /\ timer' = FALSE
    /\ queued' = TRUE
    /\ UNCHANGED <<apiVars, cacheVars, recon, finalized, bounds>>

\* For(&Node{}): each event of the CR puts it into the queue.
SyncCrd ==
    /\ Running
    /\ crdSeen # crd
    /\ crdSeen' = crd
    /\ queued' = TRUE
    /\ UNCHANGED <<apiVars, podsSeen, vnodeSeen, timer, recon, finalized, bounds>>

\* Owns(&Pod{}): each event of its pods puts the CR into the queue.
SyncPod(p) ==
    /\ Running
    /\ podsSeen[p] # pods[p]
    /\ podsSeen' = [podsSeen EXCEPT ![p] = pods[p]]
    /\ queued' = TRUE
    /\ UNCHANGED <<apiVars, crdSeen, vnodeSeen, timer, recon, finalized, bounds>>

\* Events of v1.Nodes only reach the cache.
SyncNode ==
    /\ Running
    /\ vnodeSeen # vnode
    /\ vnodeSeen' = vnode
    /\ UNCHANGED <<apiVars, crdSeen, podsSeen, queueVars, recon, finalized, bounds>>

\* The manager starts again, with caches that it has filled.
RestartManager ==
    /\ \/ ~Running /\ UNCHANGED crashes
       \/ Running /\ crashes < MaxCrashes /\ crashes' = crashes + 1
    /\ crdSeen' = crd
    /\ podsSeen' = pods
    /\ vnodeSeen' = vnode
    /\ queued' = (crd.life \in {"live", "deleting"})
    /\ timer' = FALSE
    /\ recon' = Idle
    /\ UNCHANGED <<apiVars, finalized, errors, failures, lags>>

Manager ==
    \/ TimerFires \/ SyncCrd \/ SyncNode \/ RestartManager
    \/ \E p \in Pods : SyncPod(p)

-----------------------------------------------------------------------------
(***************************************************************************)
(* The other clients of the API server                                     *)
(***************************************************************************)

managerVars == <<cacheVars, queueVars, recon, finalized>>

\* The user creates the CR.
CreateCrd ==
    /\ crd.life = "unborn"
    /\ \E s \in BOOLEAN : crd' = [crd EXCEPT !.life = "live", !.suspend = s]
    /\ UNCHANGED <<pods, config, starting, vnode, managerVars, bounds>>

EditCrd ==
    /\ crd.life = "live"
    /\ crd.version < MaxEdits
    /\ \E s \in BOOLEAN, spec \in Specs :
         crd' = [crd EXCEPT !.suspend = s, !.config = spec, !.typed = FALSE,
                             !.version = @ + 1]
    /\ UNCHANGED <<pods, config, starting, vnode, managerVars, bounds>>

\* The user deletes the CR; without the finalizer it goes at once.
DeleteCrd ==
    /\ crd.life = "live"
    /\ crd' = [crd EXCEPT !.life = IF crd.finalizer THEN "deleting" ELSE "gone"]
    /\ UNCHANGED <<pods, config, starting, vnode, managerVars, bounds>>

\* A kubelet starts in its pod and registers the v1.Node.
RegisterNode(p) ==
    /\ p \in starting
    /\ starting' = starting \ {p}
    /\ vnode' = TRUE
    /\ UNCHANGED <<crd, pods, config, managerVars, bounds>>

\* A kubelet's pod fails, and stays as it is.
FailPod(p) ==
    /\ pods[p] = "active"
    /\ failures < MaxFailures
    /\ failures' = failures + 1
    /\ pods' = [pods EXCEPT ![p] = "done"]
    /\ starting' = starting \ {p}
    /\ UNCHANGED <<crd, config, vnode, managerVars, errors, crashes, lags>>

\* Kubernetes' garbage collector deletes the pods of an owner that is gone.
CollectPod(p) ==
    /\ pods[p] # "none"
    /\ crd.life = "gone"
    /\ pods' = [pods EXCEPT ![p] = "none"]
    /\ starting' = starting \ {p}
    /\ UNCHANGED <<crd, config, vnode, managerVars, bounds>>

Clients ==
    \/ CreateCrd \/ EditCrd \/ DeleteCrd
    \/ \E p \in Pods : RegisterNode(p) \/ FailPod(p) \/ CollectPod(p)

Init ==
    /\ crd = NewCrd
    /\ pods = [p \in Pods |-> "none"]
    /\ config = [p \in Pods |-> FirstSpec]
    /\ starting = {}
    /\ vnode = FALSE
    /\ crdSeen = NewCrd
    /\ podsSeen = [p \in Pods |-> "none"]
    /\ vnodeSeen = FALSE
    /\ queued = FALSE
    /\ timer = FALSE
    /\ recon = Idle
    /\ finalized = FALSE
    /\ errors = 0
    /\ failures = 0
    /\ crashes = 0
    /\ lags = 0

Next == Reconcile \/ Manager \/ Clients

Spec == Init /\ [][Next]_vars

(***************************************************************************)
(* Reconcile goes on, the timer fires, the caches catch up, a manager that *)
(* panicked is started again, and the garbage collector works.  Users,     *)
(* failures and crashes owe nothing.                                       *)
(***************************************************************************)
Fairness ==
    /\ WF_vars(Reconcile)
    /\ WF_vars(TimerFires)
    /\ WF_vars(SyncCrd)
    /\ WF_vars(SyncNode)
    /\ WF_vars(~Running /\ RestartManager)
    /\ \A p \in Pods : WF_vars(SyncPod(p)) /\ WF_vars(CollectPod(p))

FairSpec == Spec /\ Fairness

-----------------------------------------------------------------------------
(***************************************************************************)
(* Properties                                                              *)
(***************************************************************************)

ReconStates ==
    [pc : {"idle"}]
      \cup [pc : {"finalize", "deleteNode", "removeFinalizer", "addFinalizer", "list",
                  "create"}, node : Crd]
      \cup [pc : {"delete", "undesired", "panicked"}, node : Crd, list : Seq(Pods), i : Nat]

PodStates == {"none", "active", "done"}

\* Type correctness.
TypeOK ==
    /\ crd \in Crd /\ crdSeen \in Crd
    /\ pods \in [Pods -> PodStates] /\ podsSeen \in [Pods -> PodStates]
    /\ config \in [Pods -> Specs]
    /\ starting \subseteq Pods
    /\ {vnode, vnodeSeen, queued, timer, finalized} \subseteq BOOLEAN
    /\ recon \in ReconStates
    /\ errors \in 0..MaxErrors /\ failures \in 0..MaxFailures
    /\ crashes \in 0..MaxCrashes /\ lags \in 0..MaxLags

Active == {p \in Pods : pods[p] = "active"}

\* A kubelet's pod exists only if the CR has the finalizer, or had it until
\* finalizeNode had run: no CR with a kubelet goes away uncleaned, although
\* Reconcile decides from a cached CR that may lag behind.
FinalizerBeforePods ==
    (\E p \in Pods : pods[p] # "none") => crd.finalizer \/ finalized

\* deletePods stays inside filteredPods unless the CR is suspended.
PanicsOnlySuspended == recon.pc = "panicked" => recon.node.suspend

\* The pods that have all that a specification asks for.
Following == {t \in Specs \X BOOLEAN \X Specs :
                Follows(PodOf(t[3]), CrSpec(t[1], t[2]))}

\* The specifications whose pods come back from the API server as IsDesired
\* expects them.
Stable == {t \in Specs \X BOOLEAN : LeftAlone(CrSpec(t[1], t[2]))}

\* In the end a CR that stays has one kubelet, with all that its last
\* specification asks for: in spite of stale lists, failed calls, failed pods and
\* crashes; unless the API server changes what IsDesired compares, and the
\* operator replaces its pod for ever.
OneKubelet ==
    <>[](crd.life = "live" /\ ~crd.suspend /\ <<crd.config, crd.typed>> \in Stable =>
          \E p \in Pods : Active = {p} /\ <<crd.config, crd.typed, config[p]>> \in Following)

\* No CR is left being deleted: it goes away when its deletion was asked for, even
\* if it is suspended, as there is no way back to a live one.
DeletionCompletes == <>[](crd.life # "deleting")

\* Nothing is left running of a CR that is gone, not even what a Reconcile
\* that still saw the CR has created.
OrphansCollected == <>[](crd.life = "gone" => \A p \in Pods : pods[p] = "none")

-----------------------------------------------------------------------------
(***************************************************************************)
(* What the documentation says, and the code does not do                   *)
(***************************************************************************)

\* README.md:33: suspend stops the kubelet.  A CR that stays suspended has no
\* kubelet in the end.
SuspendStops == <>[](crd.life = "live" /\ crd.suspend => Active = {})
=============================================================================

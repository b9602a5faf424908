----------------------------- MODULE SharedName -----------------------------
(***************************************************************************)
(* Two CRs of one name in two namespaces, A and B, in one cluster.  Each   *)
(* has a NodeController, with its pods and its place in the queue; they    *)
(* share the manager's process, whose one worker takes the CRs in turn,    *)
(* and the v1.Node, which has no namespace: a kubelet of A and a kubelet   *)
(* of B register the same one, and the operator looks for it by name.      *)
(*                                                                         *)
(* A kubelet registers its v1.Node when it starts and never again          *)
(* (cmd/node.go), but its process may end, as runNode does when the node   *)
(* is not ready in time, and its container is then started again.          *)
(***************************************************************************)
EXTENDS Kubelet, FiniteSets

CONSTANTS
    Pods, Specs, SpecOf,     \* as in NodeController
    FirstSpecA, FirstSpecB,  \* the specifications of A and of B
    MaxErrors, MaxFailures,  \* bounds, as in NodeController
    MaxCrashes, MaxLags,
    MaxExits,                \* bound on the ends of kubelets' processes
    MaxEnds                  \* bound on crashes, failures and exits together

ASSUME SpecsAssumption == {FirstSpecA, FirstSpecB} \subseteq Specs /\ Specs = DOMAIN SpecOf
ASSUME CrsAssumption == \A spec \in Specs : IsCr(SpecOf[spec])
ASSUME PodsAssumption == IsFiniteSet(Pods)
ASSUME BoundsAssumption == {MaxErrors, MaxFailures, MaxCrashes, MaxLags, MaxExits, MaxEnds}
                             \subseteq Nat

VARIABLES
    crdA, podsA, configA, startingA, crdSeenA, podsSeenA, queuedA, timerA, reconA, finalizedA,
    crdB, podsB, configB, startingB, crdSeenB, podsSeenB, queuedB, timerB, reconB, finalizedB,
    vnode, vnodeSeen, errors, failures, crashes, lags,
    node,   \* what the v1.Node is like, if there is one
    exits,  \* how many kubelets' processes have ended
    late    \* the operator could not see a v1.Node; only properties read this

varsA == <<crdA, podsA, configA, startingA, crdSeenA, podsSeenA, queuedA, timerA,
           reconA, finalizedA>>
varsB == <<crdB, podsB, configB, startingB, crdSeenB, podsSeenB, queuedB, timerB,
           reconB, finalizedB>>
shared == <<vnode, vnodeSeen, errors, failures, crashes, lags>>
vars == <<varsA, varsB, shared, node, exits, late>>

A == INSTANCE NodeController WITH
       MaxEdits <- 0, FirstSpec <- FirstSpecA,
       crd <- crdA, pods <- podsA, config <- configA, starting <- startingA,
       crdSeen <- crdSeenA, podsSeen <- podsSeenA, queued <- queuedA, timer <- timerA,
       recon <- reconA, finalized <- finalizedA

B == INSTANCE NodeController WITH
       MaxEdits <- 0, FirstSpec <- FirstSpecB,
       crd <- crdB, pods <- podsB, config <- configB, starting <- startingB,
       crdSeen <- crdSeenB, podsSeen <- podsSeenB, queued <- queuedB, timer <- timerB,
       recon <- reconB, finalized <- finalizedB

NoNode == [name |-> ""]

Init == A!Init /\ B!Init /\ node = NoNode /\ exits = 0 /\ late = FALSE

-----------------------------------------------------------------------------
\* The operator looks for a v1.Node that the cache does not show yet.
Overlooks(recon) == recon.pc = "finalize" /\ vnode /\ ~vnodeSeen

\* The operator deletes the v1.Node, or leaves it as it is.
Forget == node' = IF vnode' THEN node ELSE NoNode

\* The manager's only worker takes up one CR at a time.
ReconcileA ==
    /\ reconB.pc = "idle"
    /\ A!Reconcile
    /\ late' = (late \/ Overlooks(reconA))
    /\ Forget
    /\ UNCHANGED <<varsB, exits>>

ReconcileB ==
    /\ reconA.pc = "idle"
    /\ B!Reconcile
    /\ late' = (late \/ Overlooks(reconB))
    /\ Forget
    /\ UNCHANGED <<varsA, exits>>

Reconcile == ReconcileA \/ ReconcileB

Timers ==
    \/ A!TimerFires /\ UNCHANGED varsB
    \/ B!TimerFires /\ UNCHANGED varsA

SyncNode == A!SyncNode /\ UNCHANGED varsB

CatchUp ==
    \/ (A!SyncCrd \/ \E p \in Pods : A!SyncPod(p)) /\ UNCHANGED varsB
    \/ (B!SyncCrd \/ \E p \in Pods : B!SyncPod(p)) /\ UNCHANGED varsA
    \/ SyncNode

MayEnd == crashes + failures + exits < MaxEnds

\* One process: it ends and starts again for both.  It does not panic: no CR is
\* edited here, so that one that is suspended never had a pod.
RestartManager == MayEnd /\ A!RestartManager /\ B!RestartManager

Manager == (Timers \/ CatchUp \/ RestartManager) /\ UNCHANGED <<node, exits, late>>

CollectA == (\E p \in Pods : A!CollectPod(p)) /\ UNCHANGED varsB
CollectB == (\E p \in Pods : B!CollectPod(p)) /\ UNCHANGED varsA

FailA == MayEnd /\ (\E p \in Pods : A!FailPod(p)) /\ UNCHANGED varsB
FailB == MayEnd /\ (\E p \in Pods : B!FailPod(p)) /\ UNCHANGED varsA

UsersA == (A!CreateCrd \/ A!DeleteCrd) /\ UNCHANGED varsB
UsersB == (B!CreateCrd \/ B!DeleteCrd) /\ UNCHANGED varsA

Clients ==
    /\ CollectA \/ CollectB \/ FailA \/ FailB \/ UsersA \/ UsersB
    /\ UNCHANGED <<node, exits, late>>

(***************************************************************************)
(* runNode: node.Run registers the v1.Node, whoever has registered it      *)
(* before.  Of a v1.Node that is there the status and the labels are       *)
(* replaced; the taints are, or are not.                                   *)
(***************************************************************************)
Describe(spec) ==
    LET new == ConfigureNode(Admit(CreateNodePodObj(SpecOf[spec])))
    IN  \/ node' = new
        \/ vnode /\ node' = [new EXCEPT !.taints = node.taints]

RegisterA ==
    /\ \E p \in Pods : A!RegisterNode(p) /\ Describe(configA[p])
    /\ late' = (late \/ crdA.life # "live")
    /\ UNCHANGED <<varsB, exits>>

RegisterB ==
    /\ \E p \in Pods : B!RegisterNode(p) /\ Describe(configB[p])
    /\ late' = (late \/ crdB.life # "live")
    /\ UNCHANGED <<varsA, exits>>

\* runNode returns with an error, WaitReady's or the node's: the process ends,
\* and its container starts it again.
Exits(pods, starting) ==
    \E p \in Pods :
      /\ pods[p] = "active"
      /\ p \notin starting
      /\ starting' = starting \cup {p}

ExitA ==
    /\ Exits(podsA, startingA)
    /\ UNCHANGED <<crdA, podsA, configA, crdSeenA, podsSeenA, queuedA, timerA, reconA,
                   finalizedA, varsB>>

ExitB ==
    /\ Exits(podsB, startingB)
    /\ UNCHANGED <<crdB, podsB, configB, crdSeenB, podsSeenB, queuedB, timerB, reconB,
                   finalizedB, varsA>>

Exit ==
    /\ MayEnd
    /\ exits < MaxExits
    /\ exits' = exits + 1
    /\ ExitA \/ ExitB
    /\ UNCHANGED <<shared, node, late>>

Next == Reconcile \/ Manager \/ Clients \/ RegisterA \/ RegisterB \/ Exit

Spec == Init /\ [][Next]_vars

-----------------------------------------------------------------------------
(***************************************************************************)
(* Properties                                                              *)
(***************************************************************************)

\* A pod of the CR has a kubelet that has started.
Started(pods, starting) == \E p \in Pods : pods[p] = "active" /\ p \notin starting

Deleted(crd) == crd.life \in {"deleting", "gone"}

\* A kubelet that has started has its v1.Node, however the operator's caches lag,
\* unless the deletion of a CR of its name was asked for, in whatever namespace:
\* DeleteEnsureNode, which deletes by name alone, is called for nothing else.
NodeStays ==
    \/ vnode
    \/ Deleted(crdA)
    \/ Deleted(crdB)
    \/ ~Started(podsA, startingA) /\ ~Started(podsB, startingB)

\* When the last CR of a name is gone its v1.Node is gone, whichever of the two
\* was finalized first, unless a kubelet registered it after the deletion was
\* asked for, or the operator looked for it when it was not in the cache yet.
NodeCleanedUp ==
    (crdA.life = "gone" /\ crdB.life \in {"unborn", "gone"}) /\ ~late => ~vnode

\* The specifications of the CRs that there have been.
Asked ==
    LET specs == (IF crdA.life = "unborn" THEN {} ELSE {FirstSpecA})
                   \cup (IF crdB.life = "unborn" THEN {} ELSE {FirstSpecB})
    IN  {SpecOf[spec] : spec \in specs}

\* The v1.Node is what one of the CRs of its name asks for: what a CR says has
\* passed through the operator's flags and the kubelet's reading of them, and the
\* kubelets that register it in turn leave no mixture but for the taints.
NodeAsAsked ==
    vnode =>
      /\ \E cr \in Asked : StatusAsked(node, cr)
      /\ \E cr \in Asked : node.taints = cr.taints
=============================================================================

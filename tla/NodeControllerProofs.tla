------------------------ MODULE NodeControllerProofs ------------------------
(***************************************************************************)
(* What NodeController guarantees for every set of pod names, every set of *)
(* specifications and every bound, proved.                                 *)
(***************************************************************************)
EXTENDS NodeController, FiniteSetTheorems, TLAPS

-----------------------------------------------------------------------------
(***************************************************************************)
(* The inductive invariant                                                 *)
(***************************************************************************)

\* Reconcile with the CR it read, and with the list that it is deleting from.
Steps == {"finalize", "deleteNode", "removeFinalizer", "addFinalizer", "list", "create"}

ListSteps == {"delete", "undesired", "panicked"}

Guarded == crd.finalizer \/ finalized

\* Nothing acts for the CR before it has the finalizer: no pod, no call of
\* Reconcile that has gone beyond adding it, and no cached CR that would let
\* the next call do so.
FinalizerFirst ==
    \/ \E p \in Pods : pods[p] # "none"
    \/ recon.pc \in (Steps \cup ListSteps) \ {"addFinalizer"}
    \/ crdSeen.finalizer
    => Guarded

\* deletePods starts right behind the pods that stay; syncPods has one pod.
InsideList ==
    /\ recon.pc = "delete" => recon.i <= Len(recon.list) - Need(recon.node)
    /\ recon.pc = "undesired" => recon.i = 0 /\ Len(recon.list) = 1
    /\ PanicsOnlySuspended

IInv == TypeOK /\ FinalizerFirst /\ InsideList

\* The call of Reconcile, by its step.
LEMMA ReconLemma ==
    ASSUME TypeOK
    PROVE  /\ recon.pc \in {"idle"} \cup Steps \cup ListSteps
           /\ recon.pc \in Steps => recon \in [pc : Steps, node : Crd]
           /\ recon.pc \in ListSteps =>
                recon \in [pc : ListSteps, node : Crd, list : Seq(Pods), i : Nat]
  <1>1. CASE recon \in [pc : {"idle"}]
    <2>1. recon.pc = "idle"
      BY <1>1
    <2>2. QED BY <2>1 DEF Steps, ListSteps
  <1>2. CASE recon \in [pc : Steps, node : Crd]
    <2>1. recon.pc \in Steps
      BY <1>2
    <2>2. QED BY <1>2, <2>1 DEF Steps, ListSteps
  <1>3. CASE recon \in [pc : ListSteps, node : Crd, list : Seq(Pods), i : Nat]
    <2>1. recon.pc \in ListSteps
      BY <1>3
    <2>2. QED BY <1>3, <2>1 DEF Steps, ListSteps
  <1>4. QED BY <1>1, <1>2, <1>3 DEF TypeOK, ReconStates, Steps, ListSteps

\* A list of pods is a sequence of names, each of a pod that the cache has.
LEMMA ListLemma ==
    ASSUME NEW list \in FilteredPods
    PROVE  list \in Seq(Pods) /\ Len(list) \in Nat
  <1> DEFINE S == {p \in Pods : podsSeen[p] = "active"}
  <1>1. IsFiniteSet(S)
    BY PodsAssumption, FS_Subset
  <1>2. Cardinality(S) \in Nat
    BY <1>1, FS_CardinalityType
  <1>3. list \in [1..Cardinality(S) -> S]
    BY DEF FilteredPods, SetToSeqs
  <1> DEFINE n == Cardinality(S)
  <1>4. n \in Nat /\ list \in [1..n -> Pods]
    BY <1>2, <1>3
  <1> HIDE DEF n
  <1>5. QED BY <1>4

LEMMA NeedLemma ==
    ASSUME NEW node \in Crd
    PROVE  Need(node) \in {0, 1} /\ (Need(node) = 0 => node.suspend)
  BY DEF Need, Crd

LEMMA InitLemma == Init => IInv
  <1> SUFFICES ASSUME Init PROVE IInv
    OBVIOUS
  <1>1. 0 \in 0..MaxEdits /\ 0 \in 0..MaxErrors /\ 0 \in 0..MaxFailures
        /\ 0 \in 0..MaxCrashes /\ 0 \in 0..MaxLags /\ FirstSpec \in Specs
    BY BoundsAssumption, SpecsAssumption
  <1>2. NewCrd \in Crd /\ NewCrd.finalizer = FALSE
    BY <1>1 DEF NewCrd, Crd
  <1>3. recon.pc = "idle" /\ recon \in ReconStates
    BY DEF Init, Idle, ReconStates
  <1>4. TypeOK
    BY <1>1, <1>2, <1>3 DEF Init, TypeOK, PodStates
  <1>5. FinalizerFirst /\ InsideList
    BY <1>2, <1>3 DEF Init, FinalizerFirst, InsideList, PanicsOnlySuspended, Steps,
                      ListSteps
  <1>6. QED BY <1>4, <1>5 DEF IInv

-----------------------------------------------------------------------------
(***************************************************************************)
(* What the steps have in common                                           *)
(***************************************************************************)

\* A step of Reconcile that leaves the API server alone, and goes on with the
\* CR that it read or returns.
LEMMA QuietStep ==
    ASSUME IInv, recon' \in ReconStates, queued' \in BOOLEAN, timer' \in BOOLEAN,
           UNCHANGED <<apiVars, cacheVars, finalized, failures, crashes>>,
           errors' \in 0..MaxErrors, lags' \in 0..MaxLags,
           recon'.pc \in (Steps \cup ListSteps) \ {"addFinalizer"} =>
             \/ recon.pc \in (Steps \cup ListSteps) \ {"addFinalizer"}
             \/ crdSeen.finalizer,
           InsideList'
    PROVE  IInv'
  <1>1. UNCHANGED <<crd, pods, config, starting, vnode, crdSeen, podsSeen, vnodeSeen,
                    finalized, failures, crashes>>
    BY DEF apiVars, cacheVars
  <1>2. TypeOK'
    BY <1>1 DEF IInv, TypeOK
  <1>3. FinalizerFirst'
    BY <1>1 DEF IInv, FinalizerFirst, Guarded
  <1>4. QED BY <1>2, <1>3 DEF IInv

\* Reconcile returns, whatever it has done to pods that it may act on.
LEMMA ReturnLemma ==
    ASSUME TypeOK, Return \/ ReturnNormally \/ ReturnError
    PROVE  /\ recon' \in ReconStates /\ recon'.pc = "idle" /\ InsideList'
           /\ queued' \in BOOLEAN /\ timer' \in BOOLEAN
  <1>1. recon' = Idle /\ queued' \in BOOLEAN /\ timer' \in BOOLEAN
    BY DEF TypeOK, Return, ReturnNormally, ReturnError, queueVars
  <1>2. recon' \in ReconStates /\ recon'.pc = "idle"
    BY <1>1 DEF Idle, ReconStates
  <1>3. QED BY <1>1, <1>2 DEF InsideList, PanicsOnlySuspended

\* Reconcile goes on to another step with the CR it has.
LEMMA GoToLemma ==
    ASSUME TypeOK, NEW pc \in Steps, recon.pc \in Steps, GoTo(pc)
    PROVE  /\ recon' \in ReconStates /\ recon'.pc = pc /\ InsideList'
           /\ queued' \in BOOLEAN /\ timer' \in BOOLEAN
  <1>1. recon' = [recon EXCEPT !.pc = pc] /\ queued' \in BOOLEAN /\ timer' \in BOOLEAN
    BY DEF TypeOK, GoTo, queueVars
  <1>2. recon \in [pc : Steps, node : Crd]
    BY ReconLemma
  <1>3. recon' \in [pc : Steps, node : Crd] /\ recon'.pc = pc
    BY <1>1, <1>2
  <1>4. recon' \in ReconStates
    BY <1>3 DEF ReconStates, Steps
  <1>5. pc \notin ListSteps
    BY DEF Steps, ListSteps
  <1>6. QED
    BY <1>1, <1>3, <1>4, <1>5 DEF InsideList, PanicsOnlySuspended, ListSteps

-----------------------------------------------------------------------------
(***************************************************************************)
(* The steps of Reconcile                                                  *)
(***************************************************************************)

LEMMA BeginStep ==
    ASSUME IInv, IgnoreMissing \/ BeginFinalize \/ BeginAddFinalizer \/ BeginEnsure
    PROVE  IInv'
  <1>1. CASE IgnoreMissing
    <2>1. /\ recon' \in ReconStates /\ queued' \in BOOLEAN /\ timer' \in BOOLEAN
          /\ errors' \in 0..MaxErrors /\ lags' \in 0..MaxLags /\ recon' = recon
          /\ UNCHANGED <<apiVars, cacheVars, finalized, failures, crashes>>
      BY <1>1 DEF IInv, TypeOK, IgnoreMissing, bounds
    <2>2. InsideList'
      BY <2>1 DEF IInv, InsideList, PanicsOnlySuspended
    <2>3. QED BY <2>1, <2>2, QuietStep
  <1>2. ASSUME NEW pc \in Steps, Begin(pc), pc # "addFinalizer" => crdSeen.finalizer
        PROVE  IInv'
    <2>1. /\ queued' \in BOOLEAN /\ timer' \in BOOLEAN
          /\ errors' \in 0..MaxErrors /\ lags' \in 0..MaxLags
          /\ recon' = [pc |-> pc, node |-> crdSeen] /\ crdSeen \in Crd
          /\ UNCHANGED <<apiVars, cacheVars, finalized, failures, crashes>>
      BY <1>2 DEF IInv, TypeOK, Begin, bounds
    <2>2. recon' \in ReconStates /\ recon'.pc = pc
      BY <2>1 DEF ReconStates, Steps
    <2>3. InsideList'
      BY <2>2 DEF InsideList, PanicsOnlySuspended, Steps
    <2>4. QED BY <1>2, <2>1, <2>2, <2>3, QuietStep
  <1>3. CASE BeginFinalize
    BY <1>2, <1>3 DEF BeginFinalize, Steps
  <1>4. CASE BeginAddFinalizer
    BY <1>2, <1>4 DEF BeginAddFinalizer, Steps
  <1>5. CASE BeginEnsure
    BY <1>2, <1>5 DEF BeginEnsure, Steps
  <1>6. QED BY <1>1, <1>3, <1>4, <1>5

\* Reconcile returns without having changed anything.
LEMMA FailStep ==
    ASSUME IInv, ApiError \/ Conflict \/ DeleteNodeNotFound \/ CreateRefused
                 \/ DeleteNotFound
    PROVE  IInv'
  <1>1. /\ ReturnError
        /\ UNCHANGED <<apiVars, cacheVars, finalized, failures, crashes>>
        /\ errors' \in 0..MaxErrors /\ lags' \in 0..MaxLags
    BY BoundsAssumption DEF IInv, TypeOK, ApiError, Conflict, DeleteNodeNotFound,
       CreateRefused, DeleteNotFound, bounds
  <1>2. TypeOK
    BY DEF IInv
  <1>3. "idle" \notin Steps \cup ListSteps
    BY DEF Steps, ListSteps
  <1>4. QED BY <1>1, <1>2, <1>3, ReturnLemma, QuietStep

LEMMA AddFinalizerStep ==
    ASSUME IInv, AddFinalizer
    PROVE  IInv'
  <1>1. /\ crd' = [crd EXCEPT !.finalizer = TRUE, !.typed = TRUE] /\ crd \in Crd
        /\ recon' = [pc |-> "list", node |-> crd']
        /\ UNCHANGED <<pods, config, starting, vnode, crdSeen, podsSeen, vnodeSeen,
                       queued, timer, finalized, errors, failures, crashes, lags>>
    BY DEF IInv, TypeOK, AddFinalizer, cacheVars, queueVars, bounds
  <1>2. crd' \in Crd /\ crd'.finalizer
    BY <1>1 DEF Crd
  <1>3. recon' \in ReconStates /\ recon'.pc = "list"
    BY <1>1, <1>2 DEF ReconStates
  <1>4. TypeOK'
    BY <1>1, <1>2, <1>3 DEF IInv, TypeOK
  <1>5. FinalizerFirst' /\ InsideList'
    BY <1>2, <1>3 DEF FinalizerFirst, Guarded, InsideList, PanicsOnlySuspended
  <1>6. QED BY <1>4, <1>5 DEF IInv

LEMMA GetNodeOnlyStep ==
    ASSUME IInv, GetNodeOnly
    PROVE  IInv'
  <1> DEFINE pc == IF vnodeSeen THEN "deleteNode" ELSE "removeFinalizer"
  <1>1. /\ recon.pc = "finalize" /\ GoTo(pc) /\ TypeOK
        /\ errors' \in 0..MaxErrors /\ lags' \in 0..MaxLags
        /\ UNCHANGED <<apiVars, cacheVars, finalized, failures, crashes>>
    BY DEF IInv, TypeOK, GetNodeOnly, bounds
  <1>2. pc \in Steps /\ recon.pc \in (Steps \cup ListSteps) \ {"addFinalizer"}
        /\ recon.pc \in Steps
    BY <1>1 DEF Steps
  <1> HIDE DEF pc
  <1>3. QED BY <1>1, <1>2, GoToLemma, QuietStep

LEMMA DeleteNodeStep ==
    ASSUME IInv, DeleteNode
    PROVE  IInv'
  <1>1. /\ recon.pc = "deleteNode" /\ GoTo("removeFinalizer") /\ vnode' = FALSE /\ TypeOK
        /\ UNCHANGED <<crd, pods, config, starting, crdSeen, podsSeen, vnodeSeen,
                       finalized, errors, failures, crashes, lags>>
    BY DEF IInv, DeleteNode, cacheVars, bounds
  <1>2. "removeFinalizer" \in Steps /\ recon.pc \in Steps
        /\ recon.pc \in (Steps \cup ListSteps) \ {"addFinalizer"}
    BY <1>1 DEF Steps
  <1>3. /\ recon' \in ReconStates /\ InsideList'
        /\ queued' \in BOOLEAN /\ timer' \in BOOLEAN
    BY <1>1, <1>2, GoToLemma
  <1>4. TypeOK'
    BY <1>1, <1>3 DEF TypeOK
  <1>5. FinalizerFirst'
    BY <1>1, <1>2 DEF IInv, FinalizerFirst, Guarded
  <1>6. QED BY <1>3, <1>4, <1>5 DEF IInv

LEMMA RemoveFinalizerStep ==
    ASSUME IInv, RemoveFinalizer
    PROVE  IInv'
  <1>1. /\ crd' = [crd EXCEPT !.finalizer = FALSE, !.life = "gone"] /\ crd \in Crd
        /\ finalized' = TRUE /\ Return /\ TypeOK
        /\ UNCHANGED <<pods, config, starting, vnode, crdSeen, podsSeen, vnodeSeen,
                       errors, failures, crashes, lags>>
    BY DEF IInv, TypeOK, RemoveFinalizer, cacheVars, bounds
  <1>2. crd' \in Crd
    BY <1>1 DEF Crd
  <1>3. /\ recon' \in ReconStates /\ InsideList'
        /\ queued' \in BOOLEAN /\ timer' \in BOOLEAN
    BY <1>1, ReturnLemma
  <1>4. TypeOK'
    BY <1>1, <1>2, <1>3 DEF TypeOK
  <1>5. QED BY <1>1, <1>3, <1>4 DEF IInv, FinalizerFirst, Guarded

\* Reconcile takes a list into deletePods or syncPods.
LEMMA TakeListLemma ==
    ASSUME NEW pc \in ListSteps, NEW node \in Crd, NEW list \in Seq(Pods), NEW i \in Nat,
           recon' = [pc |-> pc, node |-> node, list |-> list, i |-> i]
    PROVE  recon' \in ReconStates /\ recon'.pc = pc
  BY DEF ReconStates, ListSteps

LEMMA ListPodsStep ==
    ASSUME IInv, ListPods
    PROVE  IInv'
  <1>1. /\ recon.pc = "list" /\ TypeOK
        /\ errors' \in 0..MaxErrors /\ lags' \in 0..MaxLags
        /\ UNCHANGED <<apiVars, cacheVars, finalized, failures, crashes>>
    BY BoundsAssumption DEF IInv, TypeOK, ListPods
  <1> DEFINE node == recon.node
             need == Need(node)
  <1>2. /\ recon.pc \in Steps /\ node \in Crd /\ need \in {0, 1}
        /\ recon.pc \in (Steps \cup ListSteps) \ {"addFinalizer"}
    <2>1. recon.pc \in Steps /\ recon.pc # "addFinalizer"
      BY <1>1 DEF Steps
    <2>2. QED BY <1>1, <2>1, ReconLemma, NeedLemma
  <1>3. PICK list \in FilteredPods :
          \/ /\ Len(list) < need
             /\ GoTo("create")
          \/ /\ Len(list) > need
             /\ recon' = [pc |-> "delete", node |-> node, list |-> list,
                          i |-> FirstSurplus(list, need)]
             /\ UNCHANGED queueVars
          \/ /\ Len(list) = need
             /\ ReturnNormally
          \/ /\ Len(list) = need
             /\ \E i \in 1..need : ~PodIsDesired(node, list[i])
             /\ recon' = [pc |-> "undesired", node |-> node, list |-> list, i |-> 0]
             /\ UNCHANGED queueVars
    BY DEF ListPods
  <1>4. list \in Seq(Pods) /\ Len(list) \in Nat
    BY ListLemma
  <1>5. queued \in BOOLEAN /\ timer \in BOOLEAN
    BY <1>1 DEF TypeOK
  <1> HIDE DEF node, need
  <1>6. /\ recon' \in ReconStates /\ InsideList'
        /\ queued' \in BOOLEAN /\ timer' \in BOOLEAN
    <2>1. CASE GoTo("create")
      <3>1. "create" \in Steps
        BY DEF Steps
      <3>2. QED BY <1>1, <1>2, <2>1, <3>1, GoToLemma
    <2>2. CASE /\ Len(list) > need
               /\ recon' = [pc |-> "delete", node |-> node, list |-> list,
                            i |-> FirstSurplus(list, need)]
               /\ UNCHANGED queueVars
      <3>1. FirstSurplus(list, need) \in Nat /\ FirstSurplus(list, need) = Len(list) - need
        BY <1>2, <1>4, <2>2 DEF FirstSurplus
      <3>2. recon' \in ReconStates /\ recon'.pc = "delete"
        BY <1>2, <1>4, <2>2, <3>1, TakeListLemma DEF ListSteps
      <3>3. recon'.i = Len(recon'.list) - Need(recon'.node) /\ recon'.i \in Int
        BY <2>2, <3>1 DEF need
      <3>4. InsideList'
        BY <3>2, <3>3 DEF InsideList, PanicsOnlySuspended
      <3>5. QED BY <1>5, <2>2, <3>2, <3>4 DEF queueVars
    <2>3. CASE ReturnNormally
      BY <1>1, <2>3, ReturnLemma
    <2>4. CASE /\ Len(list) = need
               /\ \E i \in 1..need : ~PodIsDesired(node, list[i])
               /\ recon' = [pc |-> "undesired", node |-> node, list |-> list, i |-> 0]
               /\ UNCHANGED queueVars
      <3>1. Len(list) = 1
        BY <1>2, <2>4
      <3>2. recon' \in ReconStates /\ recon'.pc = "undesired"
        BY <1>2, <1>4, <2>4, TakeListLemma DEF ListSteps
      <3>3. recon'.i = 0 /\ Len(recon'.list) = 1
        BY <2>4, <3>1
      <3>4. InsideList'
        BY <3>2, <3>3 DEF InsideList, PanicsOnlySuspended
      <3>5. QED BY <1>5, <2>4, <3>2, <3>4 DEF queueVars
    <2>5. QED BY <1>3, <2>1, <2>2, <2>3, <2>4
  <1>7. QED BY <1>1, <1>2, <1>6, QuietStep

LEMMA CreatePodStep ==
    ASSUME IInv, CreatePod
    PROVE  IInv'
  <1>1. /\ recon.pc = "create" /\ Return /\ TypeOK
        /\ UNCHANGED <<crd, vnode, crdSeen, podsSeen, vnodeSeen, finalized,
                       errors, failures, crashes, lags>>
    BY DEF IInv, CreatePod, cacheVars, bounds
  <1>2. PICK p \in Pods : /\ pods' = [pods EXCEPT ![p] = "active"]
                          /\ config' = [config EXCEPT ![p] = recon.node.config]
                          /\ starting' = starting \cup {p}
    BY DEF CreatePod, Free
  <1>3. recon.pc \in Steps /\ recon.pc \in (Steps \cup ListSteps) \ {"addFinalizer"}
    BY <1>1 DEF Steps
  <1>4. recon.node.config \in Specs
    BY <1>1, <1>3, ReconLemma DEF Crd
  <1>5. /\ recon' \in ReconStates /\ InsideList'
        /\ queued' \in BOOLEAN /\ timer' \in BOOLEAN
    BY <1>1, ReturnLemma
  <1>6. /\ pods' \in [Pods -> PodStates] /\ config' \in [Pods -> Specs]
        /\ starting' \subseteq Pods
    BY <1>1, <1>2, <1>4 DEF TypeOK, PodStates
  <1>7. TypeOK'
    BY <1>1, <1>5, <1>6 DEF TypeOK
  <1>8. Guarded'
    BY <1>1, <1>3 DEF IInv, FinalizerFirst, Guarded
  <1>9. QED BY <1>5, <1>7, <1>8 DEF IInv, FinalizerFirst

\* A pod is deleted.
LEMMA DeleteLemma ==
    ASSUME IInv, recon.pc \in {"delete", "undesired"}, NEW p, Delete(p),
           recon' \in ReconStates, queued' \in BOOLEAN, timer' \in BOOLEAN, InsideList'
    PROVE  IInv'
  <1>1. /\ pods' = [pods EXCEPT ![p] = "none"] /\ starting' = starting \ {p}
        /\ UNCHANGED <<crd, config, vnode, crdSeen, podsSeen, vnodeSeen, finalized,
                       errors, failures, crashes, lags>>
    BY DEF Delete, cacheVars, bounds
  <1>2. pods' \in [Pods -> PodStates] /\ starting' \subseteq Pods
    BY <1>1 DEF IInv, TypeOK, PodStates
  <1>3. TypeOK'
    BY <1>1, <1>2 DEF IInv, TypeOK
  <1>4. Guarded'
    <2>1. recon.pc \in (Steps \cup ListSteps) \ {"addFinalizer"}
      BY DEF ListSteps
    <2>2. QED BY <1>1, <2>1 DEF IInv, FinalizerFirst, Guarded
  <1>5. QED BY <1>3, <1>4 DEF IInv, FinalizerFirst

LEMMA DeletePodStep ==
    ASSUME IInv, DeletePod
    PROVE  IInv'
  <1>1. /\ recon.pc = "delete" /\ InRange /\ Delete(Target) /\ TypeOK
        /\ \/ /\ recon.i - 1 >= Need(recon.node)
              /\ recon' = [recon EXCEPT !.i = @ - 1] /\ UNCHANGED queueVars
           \/ Return
    BY DEF IInv, DeletePod
  <1>2. /\ recon \in [pc : ListSteps, node : Crd, list : Seq(Pods), i : Nat]
        /\ recon.i <= Len(recon.list) - Need(recon.node)
        /\ Need(recon.node) \in {0, 1}
    <2>1. recon.pc \in ListSteps
      BY <1>1 DEF ListSteps
    <2>2. recon \in [pc : ListSteps, node : Crd, list : Seq(Pods), i : Nat]
      BY <1>1, <2>1, ReconLemma
    <2>3. recon.node \in Crd
      BY <2>2
    <2>4. QED BY <1>1, <2>2, <2>3, NeedLemma DEF IInv, InsideList
  <1>3. /\ recon' \in ReconStates /\ InsideList'
        /\ queued' \in BOOLEAN /\ timer' \in BOOLEAN
    <2>1. CASE /\ recon.i - 1 >= Need(recon.node)
               /\ recon' = [recon EXCEPT !.i = @ - 1] /\ UNCHANGED queueVars
      <3>1. recon.i - 1 \in Nat
        BY <1>2, <2>1
      <3>2. /\ recon' \in [pc : ListSteps, node : Crd, list : Seq(Pods), i : Nat]
            /\ recon'.pc = "delete" /\ recon'.i = recon.i - 1
            /\ recon'.list = recon.list /\ recon'.node = recon.node
        BY <1>1, <1>2, <2>1, <3>1
      <3>3. recon' \in ReconStates
        BY <3>2 DEF ReconStates, ListSteps
      <3>4. Len(recon.list) \in Nat
        BY <1>2
      <3>5. recon'.i <= Len(recon'.list) - Need(recon'.node)
        BY <1>2, <3>2, <3>4
      <3>6. InsideList'
        BY <3>2, <3>5 DEF InsideList, PanicsOnlySuspended
      <3>7. QED BY <1>1, <2>1, <3>3, <3>6 DEF TypeOK, queueVars
    <2>2. CASE Return
      BY <1>1, <2>2, ReturnLemma
    <2>3. QED BY <1>1, <2>1, <2>2
  <1>4. QED BY <1>1, <1>3, DeleteLemma

LEMMA DeleteUndesiredStep ==
    ASSUME IInv, DeleteUndesired
    PROVE  IInv'
  <1>1. recon.pc = "undesired" /\ Delete(Target) /\ Return /\ TypeOK
    BY DEF IInv, DeleteUndesired
  <1>2. QED BY <1>1, ReturnLemma, DeleteLemma

LEMMA PanicStep ==
    ASSUME IInv, Panic
    PROVE  IInv'
  <1>1. /\ recon.pc = "delete" /\ ~InRange /\ TypeOK
        /\ recon' = [recon EXCEPT !.pc = "panicked"]
        /\ queued' \in BOOLEAN /\ timer' \in BOOLEAN
        /\ errors' \in 0..MaxErrors /\ lags' \in 0..MaxLags
        /\ UNCHANGED <<apiVars, cacheVars, finalized, failures, crashes>>
    BY DEF IInv, TypeOK, Panic, GoTo, queueVars, bounds
  <1>2. recon.pc \in ListSteps /\ recon.pc \in (Steps \cup ListSteps) \ {"addFinalizer"}
    BY <1>1 DEF ListSteps
  <1>3. recon \in [pc : ListSteps, node : Crd, list : Seq(Pods), i : Nat]
    BY <1>1, <1>2, ReconLemma
  <1>4. recon.node.suspend
    <2>1. recon.i <= Len(recon.list) - Need(recon.node) /\ ~(recon.i < Len(recon.list))
      BY <1>1 DEF IInv, InsideList, InRange
    <2>2. recon.i \in Nat /\ Len(recon.list) \in Nat /\ recon.node \in Crd
      BY <1>3
    <2>3. Need(recon.node) \in {0, 1} /\ (Need(recon.node) = 0 => recon.node.suspend)
      BY <2>2, NeedLemma
    <2>4. QED BY <2>1, <2>2, <2>3
  <1>5. /\ recon' \in [pc : ListSteps, node : Crd, list : Seq(Pods), i : Nat]
        /\ recon'.pc = "panicked" /\ recon'.node = recon.node
    BY <1>1, <1>3 DEF ListSteps
  <1>6. recon' \in ReconStates
    BY <1>5 DEF ReconStates, ListSteps
  <1>7. InsideList'
    BY <1>4, <1>5 DEF InsideList, PanicsOnlySuspended
  <1>8. QED BY <1>1, <1>2, <1>6, <1>7, QuietStep

LEMMA ReconcileStep ==
    ASSUME IInv, Reconcile
    PROVE  IInv'
  BY BeginStep, FailStep, AddFinalizerStep, GetNodeOnlyStep, DeleteNodeStep,
     RemoveFinalizerStep, ListPodsStep, CreatePodStep, DeletePodStep,
     DeleteUndesiredStep, PanicStep DEF Reconcile

-----------------------------------------------------------------------------
(***************************************************************************)
(* The steps around Reconcile                                              *)
(***************************************************************************)

\* A step that only changes the caches and the queue.
LEMMA SyncStep ==
    ASSUME IInv, UNCHANGED <<apiVars, recon, finalized, errors, failures, crashes, lags>>,
           queued' \in BOOLEAN, timer' \in BOOLEAN, vnodeSeen' \in BOOLEAN,
           podsSeen' \in [Pods -> PodStates], crdSeen' \in {crd, crdSeen}
    PROVE  IInv'
  <1>1. UNCHANGED <<crd, pods, config, starting, vnode, recon, finalized, errors,
                    failures, crashes, lags>>
    BY DEF apiVars
  <1>2. TypeOK'
    BY <1>1 DEF IInv, TypeOK
  <1>3. FinalizerFirst'
    BY <1>1 DEF IInv, FinalizerFirst, Guarded
  <1>4. InsideList'
    BY <1>1 DEF IInv, InsideList, PanicsOnlySuspended
  <1>5. QED BY <1>2, <1>3, <1>4 DEF IInv

LEMMA RestartManagerStep ==
    ASSUME IInv, RestartManager
    PROVE  IInv'
  <1>1. /\ crdSeen' = crd /\ podsSeen' = pods /\ vnodeSeen' = vnode
        /\ queued' \in BOOLEAN /\ timer' = FALSE /\ recon' = Idle
        /\ UNCHANGED <<crd, pods, config, starting, vnode, finalized, errors, failures,
                       lags>>
        /\ crashes' \in 0..MaxCrashes
    BY BoundsAssumption DEF IInv, TypeOK, RestartManager, apiVars
  <1>2. recon' \in ReconStates /\ recon'.pc = "idle"
    BY <1>1 DEF Idle, ReconStates
  <1>3. TypeOK'
    BY <1>1, <1>2 DEF IInv, TypeOK
  <1>4. FinalizerFirst'
    BY <1>1, <1>2 DEF IInv, FinalizerFirst, Guarded, Steps, ListSteps
  <1>5. InsideList'
    BY <1>2 DEF InsideList, PanicsOnlySuspended
  <1>6. QED BY <1>3, <1>4, <1>5 DEF IInv

LEMMA ManagerStep ==
    ASSUME IInv, Manager
    PROVE  IInv'
  <1>1. CASE TimerFires
    BY <1>1, SyncStep DEF TimerFires, cacheVars, bounds, IInv, TypeOK
  <1>2. CASE SyncCrd
    BY <1>2, SyncStep DEF SyncCrd, bounds, IInv, TypeOK
  <1>3. ASSUME NEW p \in Pods, SyncPod(p) PROVE IInv'
    <2>1. podsSeen' \in [Pods -> PodStates]
      BY <1>3 DEF SyncPod, IInv, TypeOK
    <2>2. QED BY <1>3, <2>1, SyncStep DEF SyncPod, bounds, IInv, TypeOK
  <1>4. CASE SyncNode
    BY <1>4, SyncStep DEF SyncNode, queueVars, bounds, IInv, TypeOK
  <1>5. QED BY <1>1, <1>2, <1>3, <1>4, RestartManagerStep DEF Manager

\* A step of another client of the API server, after which the CR still has
\* its finalizer if it had it, and no pods that it had not.
LEMMA ClientStep ==
    ASSUME IInv, UNCHANGED <<managerVars, config, errors, crashes, lags>>,
           crd' \in Crd, crd'.finalizer = crd.finalizer,
           pods' \in [Pods -> PodStates],
           \A p \in Pods : pods'[p] # "none" => pods[p] # "none",
           starting' \subseteq Pods, vnode' \in BOOLEAN, failures' \in 0..MaxFailures
    PROVE  IInv'
  <1>1. UNCHANGED <<config, crdSeen, podsSeen, vnodeSeen, queued, timer, recon,
                    finalized, errors, crashes, lags>>
    BY DEF managerVars, cacheVars, queueVars
  <1>2. TypeOK'
    BY <1>1 DEF IInv, TypeOK
  <1>3. FinalizerFirst'
    BY <1>1 DEF IInv, FinalizerFirst, Guarded
  <1>4. InsideList'
    BY <1>1 DEF IInv, InsideList, PanicsOnlySuspended
  <1>5. QED BY <1>2, <1>3, <1>4 DEF IInv

LEMMA ClientsStep ==
    ASSUME IInv, Clients
    PROVE  IInv'
  <1>1. /\ crd \in Crd /\ pods \in [Pods -> PodStates] /\ starting \subseteq Pods
        /\ vnode \in BOOLEAN /\ failures \in 0..MaxFailures
    BY DEF IInv, TypeOK
  <1>2. CASE CreateCrd \/ DeleteCrd
    <2>1. /\ \/ \E s \in BOOLEAN : crd' = [crd EXCEPT !.life = "live", !.suspend = s]
             \/ crd' = [crd EXCEPT !.life = IF crd.finalizer THEN "deleting" ELSE "gone"]
          /\ UNCHANGED <<pods, config, starting, vnode, managerVars, errors, failures,
                         crashes, lags>>
      BY <1>2 DEF CreateCrd, DeleteCrd, bounds
    <2>2. crd' \in Crd /\ crd'.finalizer = crd.finalizer
      BY <1>1, <2>1 DEF Crd
    <2>3. QED BY <1>1, <2>1, <2>2, ClientStep
  <1>3. CASE EditCrd
    <2>1. PICK s \in BOOLEAN, spec \in Specs :
            crd' = [crd EXCEPT !.suspend = s, !.config = spec, !.typed = FALSE,
                                !.version = @ + 1]
      BY <1>3 DEF EditCrd
    <2>2. crd.version + 1 \in 0..MaxEdits
      BY <1>1, <1>3, BoundsAssumption DEF EditCrd, Crd
    <2>3. crd' \in Crd /\ crd'.finalizer = crd.finalizer
      BY <1>1, <2>1, <2>2 DEF Crd
    <2>4. QED BY <1>1, <1>3, <2>3, ClientStep DEF EditCrd, bounds
  <1>4. ASSUME NEW p \in Pods, RegisterNode(p) \/ FailPod(p) \/ CollectPod(p)
        PROVE  IInv'
    <2>1. /\ crd' = crd /\ vnode' \in BOOLEAN /\ starting' \subseteq Pods
          /\ failures' \in 0..MaxFailures
          /\ UNCHANGED <<managerVars, config, errors, crashes, lags>>
      <3>1. CASE RegisterNode(p)
        BY <1>1, <3>1 DEF RegisterNode, bounds
      <3>2. CASE FailPod(p)
        <4>1. failures + 1 \in 0..MaxFailures
          BY <1>1, <3>2, BoundsAssumption DEF FailPod
        <4>2. QED BY <1>1, <3>2, <4>1 DEF FailPod
      <3>3. CASE CollectPod(p)
        BY <1>1, <3>3 DEF CollectPod, bounds
      <3>4. QED BY <1>4, <3>1, <3>2, <3>3
    <2>2. /\ pods' \in [Pods -> PodStates]
          /\ \A q \in Pods : pods'[q] # "none" => pods[q] # "none"
      <3>1. CASE RegisterNode(p)
        BY <1>1, <3>1 DEF RegisterNode
      <3>2. CASE FailPod(p)
        BY <1>1, <3>2 DEF FailPod, PodStates
      <3>3. CASE CollectPod(p)
        BY <1>1, <3>3 DEF CollectPod, PodStates
      <3>4. QED BY <1>4, <3>1, <3>2, <3>3
    <2>3. QED BY <1>1, <2>1, <2>2, ClientStep
  <1>5. QED BY <1>2, <1>3, <1>4 DEF Clients

-----------------------------------------------------------------------------
(***************************************************************************)
(* The CR's life                                                           *)
(***************************************************************************)

Finalizing == {"finalize", "deleteNode", "removeFinalizer"}

Ended == {"deleting", "gone"}

\* A kubelet has started.
HasStarted == \E p \in Pods : pods[p] = "active" /\ p \notin starting

\* Nothing happens for a CR that is not there yet; only one whose deletion was
\* asked for is finalized, and it is gone then; a kubelet that has not started
\* has a pod.
LifeInv ==
    /\ crd.life = "unborn" => /\ crdSeen.life = "unborn" /\ recon.pc = "idle"
                              /\ starting = {} /\ ~HasStarted
    /\ crdSeen.life \in Ended \/ recon.pc \in Finalizing => crd.life \in Ended
    /\ finalized => crd.life = "gone"
    /\ \A p \in starting : pods[p] = "active"

\* The specification of a CR that is never edited is the first one wherever it
\* was copied to.
Unedited ==
    /\ crd.config = FirstSpec /\ crdSeen.config = FirstSpec
    /\ recon.pc # "idle" => recon.node.config = FirstSpec
    /\ \A p \in Pods : config[p] = FirstSpec

LEMMA LifeInitLemma == Init => LifeInv /\ Unedited
  <1> SUFFICES ASSUME Init PROVE LifeInv /\ Unedited
    OBVIOUS
  <1>1. /\ NewCrd.life = "unborn" /\ NewCrd.config = FirstSpec /\ recon.pc = "idle"
        /\ crd = NewCrd /\ crdSeen = NewCrd /\ starting = {} /\ finalized = FALSE
        /\ config = [p \in Pods |-> FirstSpec]
    BY DEF Init, Idle, NewCrd
  <1>2. ~HasStarted
    BY DEF Init, HasStarted
  <1>3. QED BY <1>1, <1>2 DEF LifeInv, Unedited, Finalizing, Ended

\* What a step does to the pods: those it creates have no kubelet yet.
PodsMove ==
    /\ \A p \in starting' : /\ p \in starting \/ recon.pc = "create"
                            /\ pods'[p] = "active"
    /\ \A p \in Pods : (pods'[p] = "active" /\ p \notin starting')
                         => (pods[p] = "active" /\ p \notin starting)
    /\ \A p \in Pods : \/ config'[p] = config[p]
                       \/ recon.pc = "create" /\ config'[p] = recon.node.config

LEMMA PodsMoveStarted ==
    ASSUME PodsMove, HasStarted'
    PROVE  HasStarted
  BY DEF PodsMove, HasStarted

\* What a step of Reconcile does to the CR and to its call.
CallMove ==
    /\ crd'.config = crd.config
    /\ \/ crd'.life = crd.life /\ finalized' = finalized
                               /\ (crd.finalizer => crd'.finalizer)
       \/ recon.pc = "removeFinalizer" /\ crd'.life = "gone"
    /\ \/ vnode' = vnode
       \/ vnode' = FALSE /\ recon.pc = "deleteNode"
    /\ recon'.pc # "idle" =>
         \/ recon.pc # "idle" /\ recon'.node.config = recon.node.config
         \/ crdSeen.life \in {"live", "deleting"} /\ recon'.node.config = crdSeen.config
    /\ recon'.pc \in Finalizing => recon.pc \in Finalizing \/ crdSeen.life = "deleting"
    /\ recon'.pc = "removeFinalizer" =>
         \/ recon.pc = "finalize" /\ ~vnodeSeen
         \/ vnode' = FALSE

LEMMA SamePodsLemma ==
    ASSUME LifeInv, UNCHANGED <<pods, config, starting>>
    PROVE  PodsMove
  <1>1. /\ \A p \in starting : pods[p] = "active"
        /\ pods' = pods /\ config' = config /\ starting' = starting
    BY DEF LifeInv
  <1>2. QED BY <1>1 DEF PodsMove

\* Reconcile begins, or goes on to another step with the same CR, or returns.
LEMMA CallLemma ==
    ASSUME LifeInv, UNCHANGED <<apiVars, crdSeen, finalized>>,
           recon'.pc # "idle" =>
             \/ recon.pc # "idle" /\ recon'.node = recon.node
             \/ crdSeen.life \in {"live", "deleting"} /\ recon'.node = crdSeen,
           recon'.pc \in Finalizing => recon.pc \in Finalizing \/ crdSeen.life = "deleting",
           recon'.pc = "removeFinalizer" => recon.pc = "finalize" /\ ~vnodeSeen
    PROVE  CallMove /\ PodsMove /\ crdSeen' = crdSeen
  BY SamePodsLemma DEF CallMove, apiVars

LEMMA BeginMove ==
    ASSUME LifeInv, IgnoreMissing \/ BeginFinalize \/ BeginAddFinalizer \/ BeginEnsure
    PROVE  CallMove /\ PodsMove /\ crdSeen' = crdSeen
  <1>1. CASE IgnoreMissing
    BY <1>1, CallLemma DEF IgnoreMissing, cacheVars, Finalizing
  <1>2. ASSUME NEW pc, Begin(pc), crdSeen.life \in {"live", "deleting"},
               pc \in Finalizing => pc = "finalize" /\ crdSeen.life = "deleting"
        PROVE  CallMove /\ PodsMove /\ crdSeen' = crdSeen
    <2>1. /\ recon'.pc = pc /\ recon'.node = crdSeen
          /\ UNCHANGED <<apiVars, crdSeen, finalized>>
      BY <1>2 DEF Begin, cacheVars
    <2>2. QED BY <1>2, <2>1, CallLemma DEF Finalizing
  <1>3. CASE BeginFinalize
    BY <1>2, <1>3 DEF BeginFinalize
  <1>4. CASE BeginAddFinalizer
    BY <1>2, <1>4 DEF BeginAddFinalizer, Finalizing
  <1>5. CASE BeginEnsure
    BY <1>2, <1>5 DEF BeginEnsure, Finalizing
  <1>6. QED BY <1>1, <1>3, <1>4, <1>5

LEMMA FailMove ==
    ASSUME LifeInv, ApiError \/ Conflict \/ DeleteNodeNotFound \/ CreateRefused
                    \/ DeleteNotFound
    PROVE  CallMove /\ PodsMove /\ crdSeen' = crdSeen
  <1>1. recon' = Idle /\ UNCHANGED <<apiVars, crdSeen, finalized>>
    BY DEF ApiError, Conflict, DeleteNodeNotFound, CreateRefused, DeleteNotFound,
           ReturnError, cacheVars
  <1>2. recon'.pc = "idle"
    BY <1>1 DEF Idle
  <1>3. QED BY <1>1, <1>2, CallLemma DEF Finalizing

LEMMA NodeMove ==
    ASSUME IInv, LifeInv, GetNodeOnly \/ DeleteNode
    PROVE  CallMove /\ PodsMove /\ crdSeen' = crdSeen
  <1>1. recon.pc \in Steps
    BY DEF GetNodeOnly, DeleteNode, Steps
  <1>2. recon \in [pc : Steps, node : Crd]
    BY <1>1, ReconLemma DEF IInv
  <1>3. CASE GetNodeOnly
    <2>1. /\ recon.pc = "finalize" /\ UNCHANGED <<apiVars, crdSeen, finalized>>
          /\ recon' = [recon EXCEPT !.pc = IF vnodeSeen THEN "deleteNode"
                                                        ELSE "removeFinalizer"]
      BY <1>3 DEF GetNodeOnly, GoTo, cacheVars
    <2>2. /\ recon'.pc \in {"deleteNode", "removeFinalizer"} /\ recon'.node = recon.node
          /\ recon'.pc = "removeFinalizer" => ~vnodeSeen
      BY <1>2, <2>1
    <2>3. QED BY <2>1, <2>2, CallLemma DEF Finalizing
  <1>4. CASE DeleteNode
    <2>1. /\ recon.pc = "deleteNode" /\ vnode' = FALSE
          /\ recon' = [recon EXCEPT !.pc = "removeFinalizer"]
          /\ UNCHANGED <<crd, pods, config, starting, crdSeen, finalized>>
      BY <1>4 DEF DeleteNode, GoTo, cacheVars
    <2>2. recon'.pc = "removeFinalizer" /\ recon'.node = recon.node
      BY <1>2, <2>1
    <2>3. QED BY <2>1, <2>2, SamePodsLemma DEF CallMove, Finalizing
  <1>5. QED BY <1>3, <1>4

LEMMA FinalizerMove ==
    ASSUME IInv, LifeInv, AddFinalizer \/ RemoveFinalizer
    PROVE  CallMove /\ PodsMove /\ crdSeen' = crdSeen
  <1>1. crd \in Crd
    BY DEF IInv, TypeOK
  <1>2. CASE AddFinalizer
    <2>1. /\ crd' = [crd EXCEPT !.finalizer = TRUE, !.typed = TRUE]
          /\ recon.pc = "addFinalizer" /\ recon.node = crd
          /\ recon' = [pc |-> "list", node |-> crd']
          /\ UNCHANGED <<pods, config, starting, vnode, crdSeen, finalized>>
      BY <1>2 DEF AddFinalizer, cacheVars
    <2>2. crd'.config = crd.config /\ crd'.life = crd.life /\ crd'.finalizer
      BY <1>1, <2>1 DEF Crd
    <2>3. recon'.pc = "list" /\ recon'.node = crd'
      BY <2>1
    <2>4. QED BY <2>1, <2>2, <2>3, SamePodsLemma DEF CallMove, Finalizing
  <1>3. CASE RemoveFinalizer
    <2>1. /\ crd' = [crd EXCEPT !.finalizer = FALSE, !.life = "gone"]
          /\ recon.pc = "removeFinalizer" /\ recon' = Idle
          /\ UNCHANGED <<pods, config, starting, vnode, crdSeen>>
      BY <1>3 DEF RemoveFinalizer, Return, cacheVars
    <2>2. crd'.config = crd.config /\ crd'.life = "gone" /\ recon'.pc = "idle"
      BY <1>1, <2>1 DEF Crd, Idle
    <2>3. QED BY <2>1, <2>2, SamePodsLemma DEF CallMove, Finalizing
  <1>4. QED BY <1>2, <1>3

LEMMA ListMove ==
    ASSUME IInv, LifeInv, ListPods \/ Panic
    PROVE  CallMove /\ PodsMove /\ crdSeen' = crdSeen
  <1>1. UNCHANGED <<apiVars, crdSeen, finalized>> /\ recon.pc \in {"list", "delete"}
    BY DEF ListPods, Panic, cacheVars
  <1>2. recon \in [pc : Steps, node : Crd]
          \/ recon \in [pc : ListSteps, node : Crd, list : Seq(Pods), i : Nat]
    BY <1>1, ReconLemma DEF IInv, Steps, ListSteps
  <1>3. \/ recon' = [recon EXCEPT !.pc = "create"]
        \/ recon' = [recon EXCEPT !.pc = "panicked"]
        \/ recon'.pc \in {"delete", "undesired"} /\ recon'.node = recon.node
        \/ recon' = Idle
    BY DEF ListPods, Panic, GoTo, ReturnNormally
  <1>4. \/ /\ recon'.pc \in {"create", "panicked", "delete", "undesired"}
           /\ recon'.node = recon.node
        \/ recon'.pc = "idle"
    <2>1. CASE recon' = [recon EXCEPT !.pc = "create"]
      BY <1>2, <2>1
    <2>2. CASE recon' = [recon EXCEPT !.pc = "panicked"]
      BY <1>2, <2>2
    <2>3. QED BY <1>3, <2>1, <2>2 DEF Idle
  <1>5. QED BY <1>1, <1>4, CallLemma DEF Finalizing

LEMMA CreateMove ==
    ASSUME IInv, LifeInv, CreatePod
    PROVE  CallMove /\ PodsMove /\ crdSeen' = crdSeen
  <1>1. PICK p \in Pods : /\ pods' = [pods EXCEPT ![p] = "active"]
                          /\ config' = [config EXCEPT ![p] = recon.node.config]
                          /\ starting' = starting \cup {p}
    BY DEF CreatePod, Free
  <1>2. /\ recon.pc = "create" /\ recon' = Idle
        /\ UNCHANGED <<crd, vnode, crdSeen, finalized>>
    BY DEF CreatePod, Return, cacheVars
  <1>3. pods \in [Pods -> PodStates] /\ config \in [Pods -> Specs] /\ starting \subseteq Pods
    BY DEF IInv, TypeOK
  <1>4. /\ pods'[p] = "active" /\ config'[p] = recon.node.config
        /\ \A q \in Pods \ {p} : pods'[q] = pods[q] /\ config'[q] = config[q]
    BY <1>1, <1>3
  <1>5. PodsMove
    BY <1>1, <1>2, <1>3, <1>4 DEF LifeInv, PodsMove
  <1>6. recon'.pc = "idle"
    BY <1>2 DEF Idle
  <1>7. QED BY <1>2, <1>5, <1>6 DEF CallMove, Finalizing

\* A pod goes, with its kubelet.
LEMMA GonePodLemma ==
    ASSUME IInv, LifeInv, NEW p, NEW state \in {"none", "done"},
           pods' = [pods EXCEPT ![p] = state], starting' = starting \ {p},
           config' = config
    PROVE  PodsMove
  <1>1. pods \in [Pods -> PodStates] /\ starting \subseteq Pods
    BY DEF IInv, TypeOK
  <1>2. \A q \in Pods : pods'[q] = IF q = p THEN state ELSE pods[q]
    BY <1>1
  <1>3. state # "active"
    OBVIOUS
  <1>4. QED BY <1>1, <1>2, <1>3 DEF LifeInv, PodsMove

LEMMA DeleteMove ==
    ASSUME IInv, LifeInv, DeletePod \/ DeleteUndesired
    PROVE  CallMove /\ PodsMove /\ crdSeen' = crdSeen
  <1>1. /\ Delete(Target)
        /\ recon.pc \in ListSteps /\ recon.pc \in {"delete", "undesired"}
        /\ recon' = [recon EXCEPT !.i = @ - 1] \/ recon' = Idle
    BY DEF DeletePod, DeleteUndesired, Return, ListSteps
  <1>2. recon \in [pc : ListSteps, node : Crd, list : Seq(Pods), i : Nat]
    BY <1>1, ReconLemma DEF IInv
  <1>3. \/ recon'.pc = recon.pc /\ recon'.node = recon.node
        \/ recon'.pc = "idle"
    BY <1>1, <1>2 DEF Idle
  <1>4. /\ UNCHANGED <<crd, config, vnode, crdSeen, finalized>>
        /\ pods' = [pods EXCEPT ![Target] = "none"] /\ starting' = starting \ {Target}
    BY <1>1 DEF Delete, cacheVars
  <1>5. PodsMove
    BY <1>4, GonePodLemma
  <1>6. QED BY <1>1, <1>3, <1>4, <1>5 DEF CallMove, Finalizing

LEMMA ReconcileMove ==
    ASSUME IInv, LifeInv, Reconcile
    PROVE  CallMove /\ PodsMove /\ crdSeen' = crdSeen
  BY BeginMove, FailMove, NodeMove, FinalizerMove, ListMove, CreateMove, DeleteMove
     DEF Reconcile

LEMMA ReconcileLife ==
    ASSUME IInv, LifeInv, Reconcile
    PROVE  LifeInv' /\ (Unedited => Unedited')
  <1>1. CallMove /\ PodsMove /\ crdSeen' = crdSeen
    BY ReconcileMove
  <1>2. \/ crd'.life = crd.life /\ finalized' = finalized
        \/ recon.pc = "removeFinalizer" /\ crd'.life = "gone"
    BY <1>1 DEF CallMove
  <1>3. crd'.life = "unborn" =>
          /\ crdSeen'.life = "unborn" /\ recon'.pc = "idle"
          /\ starting' = {} /\ ~HasStarted'
    <2> SUFFICES ASSUME crd'.life = "unborn"
                 PROVE  /\ crdSeen'.life = "unborn" /\ recon'.pc = "idle"
                        /\ starting' = {} /\ ~HasStarted'
      OBVIOUS
    <2>1. crd.life = "unborn"
      BY <1>2
    <2>2. crdSeen.life = "unborn" /\ recon.pc = "idle" /\ starting = {} /\ ~HasStarted
      BY <2>1 DEF LifeInv
    <2>3. recon'.pc = "idle"
      BY <1>1, <2>2 DEF CallMove
    <2>4. starting' = {}
      BY <1>1, <2>2 DEF PodsMove
    <2>5. QED BY <1>1, <2>2, <2>3, <2>4, PodsMoveStarted
  <1>4. crdSeen'.life \in Ended \/ recon'.pc \in Finalizing => crd'.life \in Ended
    BY <1>1, <1>2 DEF LifeInv, CallMove, Ended
  <1>5. finalized' => crd'.life = "gone"
    BY <1>2 DEF LifeInv
  <1>6. \A p \in starting' : pods'[p] = "active"
    BY <1>1 DEF PodsMove
  <1>7. LifeInv'
    BY <1>3, <1>4, <1>5, <1>6 DEF LifeInv
  <1>8. ASSUME Unedited PROVE Unedited'
    <2>1. /\ crd'.config = FirstSpec /\ crdSeen'.config = FirstSpec
          /\ recon'.pc # "idle" => recon'.node.config = FirstSpec
      BY <1>1, <1>8 DEF Unedited, CallMove
    <2>2. \A p \in Pods : config'[p] = FirstSpec
      BY <1>1, <1>8 DEF Unedited, PodsMove
    <2>3. QED BY <2>1, <2>2 DEF Unedited
  <1>9. QED BY <1>7, <1>8

\* A step that only changes the caches and the queue, or ends Reconcile's call.
LEMMA SyncLife ==
    ASSUME LifeInv, UNCHANGED <<apiVars, finalized>>, crdSeen' \in {crdSeen, crd},
           recon' = recon \/ recon'.pc = "idle"
    PROVE  LifeInv' /\ (Unedited => Unedited')
  <1>1. UNCHANGED <<crd, pods, config, starting, finalized>>
    BY DEF apiVars
  <1> USE DEF HasStarted
  <1>2. CASE recon' = recon
    BY <1>1, <1>2 DEF LifeInv, Unedited
  <1>3. CASE recon'.pc = "idle"
    BY <1>1, <1>3 DEF LifeInv, Unedited, Finalizing
  <1>4. QED BY <1>2, <1>3

LEMMA ManagerLife ==
    ASSUME LifeInv, Manager
    PROVE  LifeInv' /\ (Unedited => Unedited')
  <1>1. /\ UNCHANGED <<apiVars, finalized>> /\ crdSeen' \in {crdSeen, crd}
        /\ recon' = recon \/ recon' = Idle
    BY DEF Manager, TimerFires, SyncCrd, SyncPod, SyncNode, RestartManager, cacheVars
  <1>2. QED BY <1>1, SyncLife DEF Idle

\* The steps of the other clients, but for edits of the specification, leave it
\* as it is.
LEMMA ClientsLife ==
    ASSUME IInv, LifeInv, Clients
    PROVE  LifeInv' /\ (Unedited /\ ~EditCrd => Unedited')
  <1>1. /\ UNCHANGED <<config, crdSeen, recon, finalized>>
        /\ crd \in Crd /\ starting \subseteq Pods
    BY DEF Clients, CreateCrd, EditCrd, DeleteCrd, RegisterNode, FailPod, CollectPod,
           managerVars, cacheVars, IInv, TypeOK
  <1>2. CASE CreateCrd \/ EditCrd \/ DeleteCrd
    <2>1. /\ UNCHANGED <<pods, starting>> /\ crd.life \in {"unborn", "live"}
          /\ crd'.life \in {"live", "deleting", "gone"}
          /\ crd.life = "live" \/ crd'.life = "live"
          /\ crd'.config = crd.config \/ EditCrd
      <3>1. CASE CreateCrd
        BY <1>1, <3>1 DEF CreateCrd, Crd
      <3>2. CASE EditCrd
        BY <1>1, <3>2 DEF EditCrd, Crd
      <3>3. CASE DeleteCrd
        BY <1>1, <3>3 DEF DeleteCrd, Crd
      <3>4. QED BY <1>2, <3>1, <3>2, <3>3
    <2>2. /\ crdSeen.life \notin Ended /\ recon.pc \notin Finalizing /\ ~finalized
          /\ \A p \in starting : pods[p] = "active"
      BY <2>1 DEF LifeInv, Ended
    <2>3. LifeInv'
      BY <1>1, <2>1, <2>2 DEF LifeInv
    <2>4. QED BY <1>1, <2>1, <2>3 DEF Unedited
  <1>3. ASSUME NEW p \in Pods, RegisterNode(p) \/ FailPod(p) \/ CollectPod(p)
        PROVE  LifeInv' /\ (Unedited => Unedited')
    <2>1. crd' = crd /\ starting' = starting \ {p}
      BY <1>3 DEF RegisterNode, FailPod, CollectPod
    <2>2. \A q \in starting' : pods'[q] = "active"
      <3>1. CASE RegisterNode(p)
        BY <2>1, <3>1 DEF RegisterNode, LifeInv
      <3>2. CASE FailPod(p) \/ CollectPod(p)
        <4>1. PodsMove
          BY <1>1, <2>1, <3>2, GonePodLemma DEF FailPod, CollectPod
        <4>2. QED BY <4>1 DEF PodsMove
      <3>3. QED BY <1>3, <3>1, <3>2
    <2>3. crd.life = "unborn" => starting' = {} /\ ~HasStarted'
      <3> SUFFICES ASSUME crd.life = "unborn" PROVE starting' = {} /\ ~HasStarted'
        OBVIOUS
      <3>1. starting = {} /\ ~HasStarted
        BY DEF LifeInv
      <3>2. FailPod(p) \/ CollectPod(p)
        BY <1>3, <3>1 DEF RegisterNode
      <3>3. PodsMove
        BY <1>1, <2>1, <3>2, GonePodLemma DEF FailPod, CollectPod
      <3>4. QED BY <2>1, <3>1, <3>3, PodsMoveStarted
    <2>4. QED BY <1>1, <2>1, <2>2, <2>3 DEF LifeInv, Unedited
  <1>4. QED BY <1>2, <1>3 DEF Clients

-----------------------------------------------------------------------------
(***************************************************************************)
(* What becomes of the v1.Node and of the kubelets                         *)
(***************************************************************************)

\* The CR does not go away before the operator has looked for the v1.Node again.
Owned == crd.life \in {"live", "deleting"} /\ crd.finalizer /\ recon.pc # "removeFinalizer"

\* The operator looks for a v1.Node that the cache does not show yet.
Overlooked == recon.pc = "finalize" /\ vnode /\ ~vnodeSeen

\* Reconcile leaves a v1.Node behind only by overlooking it, deletes it only when
\* the CR's deletion was asked for, and starts no kubelet.
LEMMA ReconcileOwned ==
    ASSUME IInv, LifeInv, Reconcile
    PROVE  /\ Owned /\ vnode' => Owned' \/ Overlooked
           /\ vnode' => vnode
           /\ vnode => vnode' \/ crd.life \in Ended
           /\ HasStarted' => HasStarted
           /\ crd.life \in Ended => crd'.life \in Ended
           /\ crd.life # "unborn" => crd'.life # "unborn"
  <1>1. CallMove /\ PodsMove
    BY ReconcileMove
  <1>2. vnode' => vnode
    BY <1>1 DEF CallMove
  <1>3. vnode => vnode' \/ crd.life \in Ended
    <2>1. CASE vnode' = vnode
      BY <2>1
    <2>2. CASE recon.pc = "deleteNode"
      BY <2>2 DEF LifeInv, Finalizing
    <2>3. QED BY <1>1, <2>1, <2>2 DEF CallMove
  <1>4. ASSUME Owned, vnode', ~Overlooked PROVE Owned'
    <2>1. crd'.life = crd.life /\ crd'.finalizer
      BY <1>1, <1>4 DEF CallMove, Owned
    <2>2. vnode' # FALSE
      BY <1>4
    <2>3. recon'.pc # "removeFinalizer"
      BY <1>1, <1>2, <1>4, <2>2 DEF CallMove, Overlooked
    <2>4. QED BY <1>4, <2>1, <2>3 DEF Owned
  <1>5. /\ crd.life \in Ended => crd'.life \in Ended
        /\ crd.life # "unborn" => crd'.life # "unborn"
    BY <1>1 DEF CallMove, Ended
  <1>6. QED BY <1>1, <1>2, <1>3, <1>4, <1>5, PodsMoveStarted

LEMMA ManagerOwned ==
    ASSUME Manager
    PROVE  /\ (Owned => Owned') /\ (HasStarted' => HasStarted)
           /\ vnode' = vnode /\ crd' = crd
  <1>1. UNCHANGED apiVars /\ (recon' = recon \/ recon' = Idle)
    BY DEF Manager, TimerFires, SyncCrd, SyncPod, SyncNode, RestartManager
  <1>2. crd' = crd /\ pods' = pods /\ starting' = starting /\ vnode' = vnode
    BY <1>1 DEF apiVars
  <1>3. recon'.pc = recon.pc \/ recon'.pc = "idle"
    BY <1>1 DEF Idle
  <1>4. Owned => Owned'
    BY <1>2, <1>3 DEF Owned
  <1>5. QED BY <1>2, <1>4 DEF HasStarted

\* The user and the garbage collector.
LEMMA ClientsOwned ==
    ASSUME IInv, LifeInv,
           CreateCrd \/ DeleteCrd \/ \E p \in Pods : CollectPod(p) \/ FailPod(p)
    PROVE  /\ (Owned => Owned') /\ vnode' = vnode /\ (HasStarted' => HasStarted)
           /\ crd.life \in Ended => crd'.life \in Ended
           /\ crd.life # "unborn" => crd'.life # "unborn"
  <1>1. crd \in Crd /\ starting \subseteq Pods
    BY DEF IInv, TypeOK
  <1>2. CASE CreateCrd \/ DeleteCrd
    <2>1. UNCHANGED <<pods, starting, vnode, recon>>
      BY <1>2 DEF CreateCrd, DeleteCrd, managerVars
    <2>2. /\ crd'.finalizer = crd.finalizer /\ crd.life \in {"unborn", "live"}
          /\ crd.life = "live" => crd'.life = IF crd.finalizer THEN "deleting" ELSE "gone"
          /\ crd.life = "unborn" => crd'.life = "live"
      BY <1>1, <1>2 DEF CreateCrd, DeleteCrd, Crd
    <2>3. QED BY <2>1, <2>2 DEF Owned, HasStarted, Ended
  <1>3. ASSUME NEW p \in Pods, CollectPod(p) \/ FailPod(p)
        PROVE  /\ UNCHANGED <<crd, recon, vnode>> /\ PodsMove
    <2>1. /\ UNCHANGED <<crd, recon, config, vnode>>
          /\ pods' = [pods EXCEPT ![p] = "none"] \/ pods' = [pods EXCEPT ![p] = "done"]
          /\ starting' = starting \ {p}
      BY <1>3 DEF CollectPod, FailPod, managerVars
    <2>2. QED BY <2>1, GonePodLemma
  <1>4. ASSUME NEW p \in Pods, CollectPod(p) \/ FailPod(p)
        PROVE  /\ (Owned => Owned') /\ vnode' = vnode /\ (HasStarted' => HasStarted)
               /\ crd' = crd
    BY <1>3, <1>4, PodsMoveStarted DEF Owned
  <1>5. QED BY <1>2, <1>4

\* A kubelet that starts while its CR is there has registered a v1.Node that
\* the operator will look for: its pod shows that the finalizer came first.
LEMMA RegisterOwned ==
    ASSUME IInv, LifeInv, NEW p \in Pods, RegisterNode(p)
    PROVE  /\ crd.life = "live" => Owned'
           /\ crd.life # "unborn" /\ vnode' /\ UNCHANGED <<crd, config, recon>>
  <1>1. p \in starting /\ vnode' = TRUE /\ UNCHANGED <<crd, config, recon>>
    BY DEF RegisterNode, managerVars
  <1>2. crd.life # "unborn"
    BY <1>1 DEF LifeInv
  <1>3. pods[p] # "none"
    BY <1>1 DEF LifeInv
  <1>4. Guarded
    BY <1>3 DEF IInv, FinalizerFirst
  <1>5. ASSUME crd.life = "live" PROVE Owned'
    <2>1. crd.finalizer
      BY <1>4, <1>5 DEF Guarded, LifeInv
    <2>2. recon.pc # "removeFinalizer"
      BY <1>5 DEF LifeInv, Finalizing, Ended
    <2>3. QED BY <1>1, <1>5, <2>1, <2>2 DEF Owned
  <1>6. QED BY <1>1, <1>2, <1>5

-----------------------------------------------------------------------------
(***************************************************************************)
(* Theorems                                                                *)
(***************************************************************************)

\* The invariant holds in every state of every execution, however far the
\* caches lag behind, wherever calls fail, and whenever the manager crashes.
THEOREM Invariance == Spec => []IInv
  <1>1. IInv /\ [Next]_vars => IInv'
    <2> SUFFICES ASSUME IInv, [Next]_vars PROVE IInv'
      OBVIOUS
    <2>1. CASE Next
      BY <2>1, ReconcileStep, ManagerStep, ClientsStep DEF Next
    <2>2. CASE UNCHANGED vars
      <3>1. UNCHANGED <<apiVars, recon, finalized, errors, failures, crashes, lags>>
            /\ UNCHANGED <<crdSeen, podsSeen, vnodeSeen, queued, timer>>
        BY <2>2 DEF vars, apiVars
      <3>2. QED BY <3>1, SyncStep DEF IInv, TypeOK
    <2>3. QED BY <2>1, <2>2
  <1>2. QED BY <1>1, InitLemma, PTL DEF Spec

\* Reconcile's steps and its index into filteredPods are what they can be.
THEOREM TypeCorrectness == Spec => []TypeOK
  <1>1. IInv => TypeOK
    BY DEF IInv
  <1>2. QED BY <1>1, Invariance, PTL

\* A kubelet's pod exists only if the CR has the finalizer, or had it until
\* finalizeNode had run: neither a cached CR nor a call of Reconcile that has
\* gone beyond adding the finalizer exists without it.
THEOREM FinalizerBeforePodsTheorem == Spec => []FinalizerBeforePods
  <1>1. IInv => FinalizerBeforePods
    BY DEF IInv, FinalizerFirst, Guarded, FinalizerBeforePods
  <1>2. QED BY <1>1, Invariance, PTL

\* deletePods runs off filteredPods only for a CR that is suspended: otherwise
\* one pod stays, and the index starts inside the list.
THEOREM PanicsOnlySuspendedTheorem == Spec => []PanicsOnlySuspended
  <1>1. IInv => PanicsOnlySuspended
    BY DEF IInv, InsideList
  <1>2. QED BY <1>1, Invariance, PTL
=============================================================================

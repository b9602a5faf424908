--------------------------- MODULE SharedNameProofs ---------------------------
(***************************************************************************)
(* Two CRs that share the name of their v1.Node, for all specifications    *)
(* and however often calls fail, the manager dies and kubelets start       *)
(* again.  What each CR's half of the model guarantees is taken from the   *)
(* proofs about NodeController, once for A and once for B.                 *)
(***************************************************************************)
EXTENDS SharedName, NodeSpecProofs

PA == INSTANCE NodeControllerProofs WITH
        MaxEdits <- 0, FirstSpec <- FirstSpecA,
        crd <- crdA, pods <- podsA, config <- configA, starting <- startingA,
        crdSeen <- crdSeenA, podsSeen <- podsSeenA, queued <- queuedA, timer <- timerA,
        recon <- reconA, finalized <- finalizedA

PB == INSTANCE NodeControllerProofs WITH
        MaxEdits <- 0, FirstSpec <- FirstSpecB,
        crd <- crdB, pods <- podsB, config <- configB, starting <- startingB,
        crdSeen <- crdSeenB, podsSeen <- podsSeenB, queued <- queuedB, timer <- timerB,
        recon <- reconB, finalized <- finalizedB

-----------------------------------------------------------------------------
(***************************************************************************)
(* A's half of the model is a NodeController                               *)
(***************************************************************************)

\* NodeController's assumptions.
LEMMA ConstantsA ==
    /\ {0, MaxErrors, MaxFailures, MaxCrashes, MaxLags} \subseteq Nat
    /\ PA!IsFiniteSet(Pods)
    /\ FirstSpecA \in Specs /\ Specs = DOMAIN SpecOf
    /\ AccountSecrets # PA!Some({})
    /\ DOMAIN Added = PA!Listed
  <1>1. PA!IsFiniteSet(Pods)
    BY PodsAssumption DEF IsFiniteSet, PA!IsFiniteSet
  <1>2. AccountSecrets # PA!Some({}) /\ DOMAIN Added = PA!Listed
    BY AddedAssumption, AccountSecretsAssumption DEF Some, PA!Some, Listed, PA!Listed
  <1>3. QED BY <1>1, <1>2, SpecsAssumption, BoundsAssumption

\* The pods that the operator finds as it wants them.
LEMMA SameDesiredA == A!Desired = PA!Desired /\ A!Valid = PA!Valid
  <1>1. ASSUME NEW cr
        PROVE  A!CreateNodeCommand(cr) = PA!CreateNodeCommand(cr)
    BY DEF A!CreateNodeCommand, PA!CreateNodeCommand, A!DefaultString, PA!DefaultString,
           A!Nil, PA!Nil, A!Some, PA!Some, A!LabelsMapToStr, PA!LabelsMapToStr,
           A!Line, PA!Line, A!Front, PA!Front, A!Last, PA!Last
  <1>2. ASSUME NEW cr
        PROVE  A!CreateNodeEnv(cr) = PA!CreateNodeEnv(cr)
    BY DEF A!CreateNodeEnv, PA!CreateNodeEnv, A!DefaultString, PA!DefaultString, A!Nil,
           PA!Nil, A!Some, PA!Some
  <1>3. ASSUME NEW cr
        PROVE  A!CreateNodeVolumes(cr) = PA!CreateNodeVolumes(cr)
    BY DEF A!CreateNodeVolumes, PA!CreateNodeVolumes, A!HasSecret, PA!HasSecret
  <1>4. ASSUME NEW cr
        PROVE  A!CreateNodePodObj(cr) = PA!CreateNodePodObj(cr)
    BY <1>1, <1>2, <1>3
       DEF A!CreateNodePodObj, PA!CreateNodePodObj, A!GetNodeLabels, PA!GetNodeLabels,
           A!CreateSecurityContext, PA!CreateSecurityContext, A!PullPolicy,
           PA!PullPolicy, A!CreateNodeVolumeMounts, PA!CreateNodeVolumeMounts, A!Nil,
           PA!Nil, A!Some, PA!Some
  <1>5. ASSUME NEW pod
        PROVE  A!Admit(pod) = PA!Admit(pod)
    BY DEF A!Admit, PA!Admit, A!OmitEmpty, PA!OmitEmpty, A!Nil, PA!Nil, A!Some, PA!Some,
           A!CanonicalList, PA!CanonicalList, A!Canonical, PA!Canonical,
           A!DefaultRequests, PA!DefaultRequests, A!Completed, PA!Completed,
           A!Written, PA!Written, A!OmitEmptyList, PA!OmitEmptyList
  <1>6. ASSUME NEW cr
        PROVE  A!Encode(cr) = PA!Encode(cr)
    BY DEF A!Encode, PA!Encode, A!OmitEmpty, PA!OmitEmpty, A!Nil, PA!Nil, A!Some,
           PA!Some, A!Written, PA!Written, A!OmitEmptyList, PA!OmitEmptyList,
           A!CanonicalList, PA!CanonicalList, A!Canonical, PA!Canonical
  <1>7. ASSUME NEW cr, NEW pod
        PROVE  A!IsDesired(cr, pod) <=> PA!IsDesired(cr, pod)
    BY <1>1, <1>2, <1>3
       DEF A!IsDesired, PA!IsDesired, A!ContainerEqual, PA!ContainerEqual,
           A!ContainsAll, PA!ContainsAll, A!GetNodeLabels, PA!GetNodeLabels,
           A!CreateSecurityContext, PA!CreateSecurityContext, A!PullPolicy,
           PA!PullPolicy, A!CreateNodeVolumeMounts, PA!CreateNodeVolumeMounts, A!Nil,
           PA!Nil, A!Some, PA!Some
  <1>8. ASSUME NEW t
        PROVE  A!IsDesired(A!CrSpec(t[1], t[2]), A!PodOf(t[3]))
                 <=> PA!IsDesired(PA!CrSpec(t[1], t[2]), PA!PodOf(t[3]))
    BY <1>4, <1>5, <1>6, <1>7 DEF A!CrSpec, PA!CrSpec, A!PodOf, PA!PodOf
  <1>9. A!Desired = PA!Desired
    BY <1>8 DEF A!Desired, PA!Desired
  <1>10. A!Valid = PA!Valid
    BY <1>4 DEF A!Valid, PA!Valid, A!IsValid, PA!IsValid
  <1>11. QED BY <1>9, <1>10

\* Reconcile, and the steps of the others that are not SharedName's own.
LEMMA SameStepsA ==
    /\ A!Reconcile => PA!Reconcile
    /\ A!TimerFires \/ A!SyncCrd \/ A!SyncNode \/ A!RestartManager
         \/ (\E p \in Pods : A!SyncPod(p)) => PA!Manager
    /\ A!CreateCrd => PA!CreateCrd
    /\ A!DeleteCrd => PA!DeleteCrd
    /\ \A p \in Pods : A!CollectPod(p) => PA!CollectPod(p)
    /\ \A p \in Pods : A!FailPod(p) => PA!FailPod(p)
    /\ \A p \in Pods : A!RegisterNode(p) => PA!RegisterNode(p)
  <1> USE DEF A!apiVars, PA!apiVars, A!cacheVars, PA!cacheVars, A!queueVars,
              PA!queueVars, A!bounds, PA!bounds, A!managerVars, PA!managerVars, A!Idle,
              PA!Idle, A!Return, PA!Return, A!ReturnNormally, PA!ReturnNormally,
              A!ReturnError, PA!ReturnError, A!GoTo, PA!GoTo
  <1>1. A!FilteredPods = PA!FilteredPods
    BY DEF A!FilteredPods, PA!FilteredPods, A!SetToSeqs, PA!SetToSeqs, A!Cardinality,
           PA!Cardinality, A!IsFiniteSet, PA!IsFiniteSet
  <1>2. A!ListPods => PA!ListPods
    BY <1>1, SameDesiredA
       DEF A!ListPods, PA!ListPods, A!Need, PA!Need, A!FirstSurplus, PA!FirstSurplus,
           A!PodIsDesired, PA!PodIsDesired
  <1>3. A!CreatePod \/ A!CreateRefused => PA!CreatePod \/ PA!CreateRefused
    BY SameDesiredA DEF A!CreatePod, PA!CreatePod, A!CreateRefused, PA!CreateRefused, A!Free, PA!Free
  <1>4. A!IgnoreMissing \/ A!BeginFinalize \/ A!BeginAddFinalizer \/ A!BeginEnsure
          => PA!Reconcile
    BY DEF PA!Reconcile, A!IgnoreMissing, PA!IgnoreMissing, A!BeginFinalize, PA!BeginFinalize,
           A!BeginAddFinalizer, PA!BeginAddFinalizer, A!BeginEnsure, PA!BeginEnsure,
           A!Begin, PA!Begin
  <1>5. A!ApiError \/ A!Conflict \/ A!AddFinalizer \/ A!RemoveFinalizer => PA!Reconcile
    BY DEF PA!Reconcile, A!ApiError, PA!ApiError, A!Conflict, PA!Conflict, A!AddFinalizer,
           PA!AddFinalizer, A!RemoveFinalizer, PA!RemoveFinalizer, A!Calls, PA!Calls
  <1>6. A!GetNodeOnly \/ A!DeleteNode \/ A!DeleteNodeNotFound => PA!Reconcile
    BY DEF PA!Reconcile, A!GetNodeOnly, PA!GetNodeOnly, A!DeleteNode, PA!DeleteNode,
           A!DeleteNodeNotFound, PA!DeleteNodeNotFound
  <1>7. A!DeletePod \/ A!DeleteUndesired \/ A!DeleteNotFound \/ A!Panic => PA!Reconcile
    BY DEF PA!Reconcile,
           A!DeletePod, PA!DeletePod, A!DeleteUndesired, PA!DeleteUndesired,
           A!DeleteNotFound, PA!DeleteNotFound, A!Panic, PA!Panic, A!Delete, PA!Delete,
           A!Target, PA!Target, A!InRange, PA!InRange, A!Need, PA!Need
  <1>8. A!Reconcile => PA!Reconcile
    BY <1>2, <1>3, <1>4, <1>5, <1>6, <1>7 DEF A!Reconcile, PA!Reconcile
  <1>9. A!TimerFires \/ A!SyncCrd \/ A!SyncNode \/ A!RestartManager
          \/ (\E p \in Pods : A!SyncPod(p)) => PA!Manager
    BY DEF PA!Manager,
           A!Running, PA!Running, A!TimerFires, PA!TimerFires, A!SyncCrd, PA!SyncCrd,
           A!SyncNode, PA!SyncNode, A!RestartManager, PA!RestartManager, A!SyncPod,
           PA!SyncPod
  <1>10. /\ A!CreateCrd => PA!CreateCrd
         /\ A!DeleteCrd => PA!DeleteCrd
    BY DEF A!CreateCrd, PA!CreateCrd, A!DeleteCrd, PA!DeleteCrd
  <1>11. /\ \A p \in Pods : A!CollectPod(p) => PA!CollectPod(p)
         /\ \A p \in Pods : A!FailPod(p) => PA!FailPod(p)
         /\ \A p \in Pods : A!RegisterNode(p) => PA!RegisterNode(p)
    BY DEF A!CollectPod, PA!CollectPod, A!FailPod, PA!FailPod, A!RegisterNode, PA!RegisterNode
  <1>12. QED BY <1>8, <1>9, <1>10, <1>11

-----------------------------------------------------------------------------
(***************************************************************************)
(* What the steps of A's half do, and that those of B's leave it alone      *)
(***************************************************************************)

HalfA == PA!IInv /\ PA!LifeInv /\ PA!Unedited

\* The CR goes one way, and no kubelet starts unseen.
OneWayA ==
    /\ crdA.life \in PA!Ended => crdA'.life \in PA!Ended
    /\ crdA.life # "unborn" => crdA'.life # "unborn"
    /\ PA!HasStarted' => PA!HasStarted

LEMMA InitA == A!Init => HalfA
  <1>1. A!Init => PA!Init
    BY DEF A!Init, PA!Init, A!NewCrd, PA!NewCrd, A!Idle, PA!Idle
  <1>2. QED BY <1>1, ConstantsA, PA!InitLemma, PA!LifeInitLemma DEF HalfA

LEMMA ReconcileAHalf ==
    ASSUME HalfA, A!Reconcile
    PROVE  /\ HalfA' /\ OneWayA
           /\ PA!Owned /\ vnode' => PA!Owned' \/ Overlooks(reconA)
           /\ vnode' => vnode
           /\ vnode => vnode' \/ crdA.life \in PA!Ended
  <1>1. PA!Reconcile /\ PA!IInv /\ PA!LifeInv /\ PA!Unedited
    BY SameStepsA DEF HalfA
  <1>2. HalfA'
    BY <1>1, ConstantsA, PA!ReconcileStep, PA!ReconcileLife DEF HalfA
  <1>3. PA!Overlooked => Overlooks(reconA)
    BY DEF PA!Overlooked, Overlooks
  <1>4. QED BY <1>1, <1>2, <1>3, ConstantsA, PA!ReconcileOwned DEF OneWayA

LEMMA ManagerAHalf ==
    ASSUME HalfA,
           A!TimerFires \/ A!SyncCrd \/ A!SyncNode \/ A!RestartManager
             \/ (\E p \in Pods : A!SyncPod(p))
    PROVE  HalfA' /\ OneWayA /\ (PA!Owned => PA!Owned') /\ vnode' = vnode
  <1>1. PA!Manager /\ PA!IInv /\ PA!LifeInv /\ PA!Unedited
    BY SameStepsA DEF HalfA
  <1>2. HalfA'
    BY <1>1, ConstantsA, PA!ManagerStep, PA!ManagerLife DEF HalfA
  <1>3. QED BY <1>1, <1>2, ConstantsA, PA!ManagerOwned DEF OneWayA

LEMMA ClientsAHalf ==
    ASSUME HalfA, A!CreateCrd \/ A!DeleteCrd \/ \E p \in Pods : A!CollectPod(p) \/ A!FailPod(p)
    PROVE  HalfA' /\ OneWayA /\ (PA!Owned => PA!Owned') /\ vnode' = vnode
  <1>1. /\ PA!CreateCrd \/ PA!DeleteCrd \/ \E p \in Pods : PA!CollectPod(p) \/ PA!FailPod(p)
        /\ PA!IInv /\ PA!LifeInv /\ PA!Unedited
    BY SameStepsA DEF HalfA
  <1>2. PA!Clients
    BY <1>1 DEF PA!Clients
  <1>3. ~PA!EditCrd
    <2>1. crdA.version \notin Int \/ ~(crdA.version < 0)
      BY <1>1 DEF PA!IInv, PA!TypeOK, PA!Crd
    <2>2. crdA.version \in Int
      BY <1>1 DEF PA!IInv, PA!TypeOK, PA!Crd
    <2>3. QED BY <2>1, <2>2 DEF PA!EditCrd
  <1>4. HalfA'
    BY <1>1, <1>2, <1>3, ConstantsA, PA!ClientsStep, PA!ClientsLife DEF HalfA
  <1>5. QED BY <1>1, <1>4, ConstantsA, PA!ClientsOwned DEF OneWayA

LEMMA RegisterAHalf ==
    ASSUME HalfA, NEW p \in Pods, A!RegisterNode(p)
    PROVE  /\ HalfA' /\ UNCHANGED <<crdA, configA>> /\ vnode'
           /\ crdA.life # "unborn" /\ configA[p] = FirstSpecA
           /\ crdA.life = "live" => PA!Owned'
           /\ PA!Owned => PA!Owned'
  <1>1. PA!RegisterNode(p) /\ PA!IInv /\ PA!LifeInv /\ PA!Unedited
    BY SameStepsA DEF HalfA
  <1>2. PA!Clients
    BY <1>1 DEF PA!Clients
  <1>3. /\ crdA.life # "unborn" /\ vnode' /\ UNCHANGED <<crdA, configA, reconA>>
        /\ crdA.life = "live" => PA!Owned'
    BY <1>1, ConstantsA, PA!RegisterOwned
  <1>4. PA!IInv' /\ PA!LifeInv'
    BY <1>1, <1>2, ConstantsA, PA!ClientsStep, PA!ClientsLife
  <1>5. PA!Unedited' /\ configA[p] = FirstSpecA
    BY <1>1, <1>3 DEF PA!Unedited, PA!RegisterNode, PA!managerVars, PA!cacheVars
  <1>6. PA!Owned => PA!Owned'
    BY <1>3 DEF PA!Owned
  <1>7. QED BY <1>3, <1>4, <1>5, <1>6 DEF HalfA

\* A kubelet's process ends.
LEMMA ExitAHalf ==
    ASSUME HalfA, ExitA, UNCHANGED shared
    PROVE  HalfA' /\ OneWayA /\ (PA!Owned => PA!Owned')
  <1>1. PA!IInv /\ PA!LifeInv /\ PA!Unedited
    BY DEF HalfA
  <1>2. PICK p \in Pods : podsA[p] = "active" /\ startingA' = startingA \cup {p}
    BY DEF ExitA, Exits
  <1>3. UNCHANGED <<crdA, podsA, configA, crdSeenA, podsSeenA, queuedA, timerA,
                    reconA, finalizedA, vnode, vnodeSeen, errors, failures, crashes,
                    lags>>
    BY DEF ExitA, shared
  <1>4. PA!IInv'
    BY <1>1, <1>2, <1>3 DEF PA!IInv, PA!TypeOK, PA!FinalizerFirst, PA!Guarded,
       PA!InsideList, PA!PanicsOnlySuspended
  <1>5. crdA.life # "unborn"
    BY <1>1, <1>2 DEF PA!LifeInv, PA!HasStarted
  <1>6. PA!LifeInv'
    BY <1>1, <1>2, <1>3, <1>5 DEF PA!LifeInv
  <1>7. QED
    BY <1>1, <1>2, <1>3, <1>4, <1>6 DEF HalfA, PA!Unedited, OneWayA, PA!Owned,
       PA!HasStarted

\* A step of the other half, which may change what they share.
LEMMA FrameA ==
    ASSUME HalfA, UNCHANGED varsA, vnode' \in BOOLEAN, vnodeSeen' \in BOOLEAN,
           errors' \in 0..MaxErrors, failures' \in 0..MaxFailures, crashes' \in 0..MaxCrashes,
           lags' \in 0..MaxLags
    PROVE  HalfA' /\ OneWayA /\ (PA!Owned => PA!Owned')
  <1>1. UNCHANGED <<crdA, podsA, configA, startingA, crdSeenA, podsSeenA,
                    queuedA, timerA, reconA, finalizedA>>
    BY DEF varsA
  <1>2. PA!IInv'
    BY <1>1 DEF HalfA, PA!IInv, PA!TypeOK, PA!FinalizerFirst, PA!Guarded,
       PA!InsideList, PA!PanicsOnlySuspended
  <1>3. QED
    BY <1>1, <1>2 DEF HalfA, PA!LifeInv, PA!Unedited, OneWayA, PA!Owned,
       PA!HasStarted

-----------------------------------------------------------------------------
(***************************************************************************)
(* B's half of the model is a NodeController                               *)
(***************************************************************************)

\* NodeController's assumptions.
LEMMA ConstantsB ==
    /\ {0, MaxErrors, MaxFailures, MaxCrashes, MaxLags} \subseteq Nat
    /\ PB!IsFiniteSet(Pods)
    /\ FirstSpecB \in Specs /\ Specs = DOMAIN SpecOf
    /\ AccountSecrets # PB!Some({})
    /\ DOMAIN Added = PB!Listed
  <1>1. PB!IsFiniteSet(Pods)
    BY PodsAssumption DEF IsFiniteSet, PB!IsFiniteSet
  <1>2. AccountSecrets # PB!Some({}) /\ DOMAIN Added = PB!Listed
    BY AddedAssumption, AccountSecretsAssumption DEF Some, PB!Some, Listed, PB!Listed
  <1>3. QED BY <1>1, <1>2, SpecsAssumption, BoundsAssumption

\* The pods that the operator finds as it wants them.
LEMMA SameDesiredB == B!Desired = PB!Desired /\ B!Valid = PB!Valid
  <1>1. ASSUME NEW cr
        PROVE  B!CreateNodeCommand(cr) = PB!CreateNodeCommand(cr)
    BY DEF B!CreateNodeCommand, PB!CreateNodeCommand, B!DefaultString, PB!DefaultString,
           B!Nil, PB!Nil, B!Some, PB!Some, B!LabelsMapToStr, PB!LabelsMapToStr,
           B!Line, PB!Line, B!Front, PB!Front, B!Last, PB!Last
  <1>2. ASSUME NEW cr
        PROVE  B!CreateNodeEnv(cr) = PB!CreateNodeEnv(cr)
    BY DEF B!CreateNodeEnv, PB!CreateNodeEnv, B!DefaultString, PB!DefaultString, B!Nil,
           PB!Nil, B!Some, PB!Some
  <1>3. ASSUME NEW cr
        PROVE  B!CreateNodeVolumes(cr) = PB!CreateNodeVolumes(cr)
    BY DEF B!CreateNodeVolumes, PB!CreateNodeVolumes, B!HasSecret, PB!HasSecret
  <1>4. ASSUME NEW cr
        PROVE  B!CreateNodePodObj(cr) = PB!CreateNodePodObj(cr)
    BY <1>1, <1>2, <1>3
       DEF B!CreateNodePodObj, PB!CreateNodePodObj, B!GetNodeLabels, PB!GetNodeLabels,
           B!CreateSecurityContext, PB!CreateSecurityContext, B!PullPolicy,
           PB!PullPolicy, B!CreateNodeVolumeMounts, PB!CreateNodeVolumeMounts, B!Nil,
           PB!Nil, B!Some, PB!Some
  <1>5. ASSUME NEW pod
        PROVE  B!Admit(pod) = PB!Admit(pod)
    BY DEF B!Admit, PB!Admit, B!OmitEmpty, PB!OmitEmpty, B!Nil, PB!Nil, B!Some, PB!Some,
           B!CanonicalList, PB!CanonicalList, B!Canonical, PB!Canonical,
           B!DefaultRequests, PB!DefaultRequests, B!Completed, PB!Completed,
           B!Written, PB!Written, B!OmitEmptyList, PB!OmitEmptyList
  <1>6. ASSUME NEW cr
        PROVE  B!Encode(cr) = PB!Encode(cr)
    BY DEF B!Encode, PB!Encode, B!OmitEmpty, PB!OmitEmpty, B!Nil, PB!Nil, B!Some,
           PB!Some, B!Written, PB!Written, B!OmitEmptyList, PB!OmitEmptyList,
           B!CanonicalList, PB!CanonicalList, B!Canonical, PB!Canonical
  <1>7. ASSUME NEW cr, NEW pod
        PROVE  B!IsDesired(cr, pod) <=> PB!IsDesired(cr, pod)
    BY <1>1, <1>2, <1>3
       DEF B!IsDesired, PB!IsDesired, B!ContainerEqual, PB!ContainerEqual,
           B!ContainsAll, PB!ContainsAll, B!GetNodeLabels, PB!GetNodeLabels,
           B!CreateSecurityContext, PB!CreateSecurityContext, B!PullPolicy,
           PB!PullPolicy, B!CreateNodeVolumeMounts, PB!CreateNodeVolumeMounts, B!Nil,
           PB!Nil, B!Some, PB!Some
  <1>8. ASSUME NEW t
        PROVE  B!IsDesired(B!CrSpec(t[1], t[2]), B!PodOf(t[3]))
                 <=> PB!IsDesired(PB!CrSpec(t[1], t[2]), PB!PodOf(t[3]))
    BY <1>4, <1>5, <1>6, <1>7 DEF B!CrSpec, PB!CrSpec, B!PodOf, PB!PodOf
  <1>9. B!Desired = PB!Desired
    BY <1>8 DEF B!Desired, PB!Desired
  <1>10. B!Valid = PB!Valid
    BY <1>4 DEF B!Valid, PB!Valid, B!IsValid, PB!IsValid
  <1>11. QED BY <1>9, <1>10

\* Reconcile, and the steps of the others that are not SharedName's own.
LEMMA SameStepsB ==
    /\ B!Reconcile => PB!Reconcile
    /\ B!TimerFires \/ B!SyncCrd \/ B!SyncNode \/ B!RestartManager
         \/ (\E p \in Pods : B!SyncPod(p)) => PB!Manager
    /\ B!CreateCrd => PB!CreateCrd
    /\ B!DeleteCrd => PB!DeleteCrd
    /\ \A p \in Pods : B!CollectPod(p) => PB!CollectPod(p)
    /\ \A p \in Pods : B!FailPod(p) => PB!FailPod(p)
    /\ \A p \in Pods : B!RegisterNode(p) => PB!RegisterNode(p)
  <1> USE DEF B!apiVars, PB!apiVars, B!cacheVars, PB!cacheVars, B!queueVars,
              PB!queueVars, B!bounds, PB!bounds, B!managerVars, PB!managerVars, B!Idle,
              PB!Idle, B!Return, PB!Return, B!ReturnNormally, PB!ReturnNormally,
              B!ReturnError, PB!ReturnError, B!GoTo, PB!GoTo
  <1>1. B!FilteredPods = PB!FilteredPods
    BY DEF B!FilteredPods, PB!FilteredPods, B!SetToSeqs, PB!SetToSeqs, B!Cardinality,
           PB!Cardinality, B!IsFiniteSet, PB!IsFiniteSet
  <1>2. B!ListPods => PB!ListPods
    BY <1>1, SameDesiredB
       DEF B!ListPods, PB!ListPods, B!Need, PB!Need, B!FirstSurplus, PB!FirstSurplus,
           B!PodIsDesired, PB!PodIsDesired
  <1>3. B!CreatePod \/ B!CreateRefused => PB!CreatePod \/ PB!CreateRefused
    BY SameDesiredB DEF B!CreatePod, PB!CreatePod, B!CreateRefused, PB!CreateRefused, B!Free, PB!Free
  <1>4. B!IgnoreMissing \/ B!BeginFinalize \/ B!BeginAddFinalizer \/ B!BeginEnsure
          => PB!Reconcile
    BY DEF PB!Reconcile, B!IgnoreMissing, PB!IgnoreMissing, B!BeginFinalize, PB!BeginFinalize,
           B!BeginAddFinalizer, PB!BeginAddFinalizer, B!BeginEnsure, PB!BeginEnsure,
           B!Begin, PB!Begin
  <1>5. B!ApiError \/ B!Conflict \/ B!AddFinalizer \/ B!RemoveFinalizer => PB!Reconcile
    BY DEF PB!Reconcile, B!ApiError, PB!ApiError, B!Conflict, PB!Conflict, B!AddFinalizer,
           PB!AddFinalizer, B!RemoveFinalizer, PB!RemoveFinalizer, B!Calls, PB!Calls
  <1>6. B!GetNodeOnly \/ B!DeleteNode \/ B!DeleteNodeNotFound => PB!Reconcile
    BY DEF PB!Reconcile, B!GetNodeOnly, PB!GetNodeOnly, B!DeleteNode, PB!DeleteNode,
           B!DeleteNodeNotFound, PB!DeleteNodeNotFound
  <1>7. B!DeletePod \/ B!DeleteUndesired \/ B!DeleteNotFound \/ B!Panic => PB!Reconcile
    BY DEF PB!Reconcile,
           B!DeletePod, PB!DeletePod, B!DeleteUndesired, PB!DeleteUndesired,
           B!DeleteNotFound, PB!DeleteNotFound, B!Panic, PB!Panic, B!Delete, PB!Delete,
           B!Target, PB!Target, B!InRange, PB!InRange, B!Need, PB!Need
  <1>8. B!Reconcile => PB!Reconcile
    BY <1>2, <1>3, <1>4, <1>5, <1>6, <1>7 DEF B!Reconcile, PB!Reconcile
  <1>9. B!TimerFires \/ B!SyncCrd \/ B!SyncNode \/ B!RestartManager
          \/ (\E p \in Pods : B!SyncPod(p)) => PB!Manager
    BY DEF PB!Manager,
           B!Running, PB!Running, B!TimerFires, PB!TimerFires, B!SyncCrd, PB!SyncCrd,
           B!SyncNode, PB!SyncNode, B!RestartManager, PB!RestartManager, B!SyncPod,
           PB!SyncPod
  <1>10. /\ B!CreateCrd => PB!CreateCrd
         /\ B!DeleteCrd => PB!DeleteCrd
    BY DEF B!CreateCrd, PB!CreateCrd, B!DeleteCrd, PB!DeleteCrd
  <1>11. /\ \A p \in Pods : B!CollectPod(p) => PB!CollectPod(p)
         /\ \A p \in Pods : B!FailPod(p) => PB!FailPod(p)
         /\ \A p \in Pods : B!RegisterNode(p) => PB!RegisterNode(p)
    BY DEF B!CollectPod, PB!CollectPod, B!FailPod, PB!FailPod, B!RegisterNode, PB!RegisterNode
  <1>12. QED BY <1>8, <1>9, <1>10, <1>11

-----------------------------------------------------------------------------
(***************************************************************************)
(* What the steps of B's half do, and that those of A's leave it alone      *)
(***************************************************************************)

HalfB == PB!IInv /\ PB!LifeInv /\ PB!Unedited

\* The CR goes one way, and no kubelet starts unseen.
OneWayB ==
    /\ crdB.life \in PB!Ended => crdB'.life \in PB!Ended
    /\ crdB.life # "unborn" => crdB'.life # "unborn"
    /\ PB!HasStarted' => PB!HasStarted

LEMMA InitB == B!Init => HalfB
  <1>1. B!Init => PB!Init
    BY DEF B!Init, PB!Init, B!NewCrd, PB!NewCrd, B!Idle, PB!Idle
  <1>2. QED BY <1>1, ConstantsB, PB!InitLemma, PB!LifeInitLemma DEF HalfB

LEMMA ReconcileBHalf ==
    ASSUME HalfB, B!Reconcile
    PROVE  /\ HalfB' /\ OneWayB
           /\ PB!Owned /\ vnode' => PB!Owned' \/ Overlooks(reconB)
           /\ vnode' => vnode
           /\ vnode => vnode' \/ crdB.life \in PB!Ended
  <1>1. PB!Reconcile /\ PB!IInv /\ PB!LifeInv /\ PB!Unedited
    BY SameStepsB DEF HalfB
  <1>2. HalfB'
    BY <1>1, ConstantsB, PB!ReconcileStep, PB!ReconcileLife DEF HalfB
  <1>3. PB!Overlooked => Overlooks(reconB)
    BY DEF PB!Overlooked, Overlooks
  <1>4. QED BY <1>1, <1>2, <1>3, ConstantsB, PB!ReconcileOwned DEF OneWayB

LEMMA ManagerBHalf ==
    ASSUME HalfB,
           B!TimerFires \/ B!SyncCrd \/ B!SyncNode \/ B!RestartManager
             \/ (\E p \in Pods : B!SyncPod(p))
    PROVE  HalfB' /\ OneWayB /\ (PB!Owned => PB!Owned') /\ vnode' = vnode
  <1>1. PB!Manager /\ PB!IInv /\ PB!LifeInv /\ PB!Unedited
    BY SameStepsB DEF HalfB
  <1>2. HalfB'
    BY <1>1, ConstantsB, PB!ManagerStep, PB!ManagerLife DEF HalfB
  <1>3. QED BY <1>1, <1>2, ConstantsB, PB!ManagerOwned DEF OneWayB

LEMMA ClientsBHalf ==
    ASSUME HalfB, B!CreateCrd \/ B!DeleteCrd \/ \E p \in Pods : B!CollectPod(p) \/ B!FailPod(p)
    PROVE  HalfB' /\ OneWayB /\ (PB!Owned => PB!Owned') /\ vnode' = vnode
  <1>1. /\ PB!CreateCrd \/ PB!DeleteCrd \/ \E p \in Pods : PB!CollectPod(p) \/ PB!FailPod(p)
        /\ PB!IInv /\ PB!LifeInv /\ PB!Unedited
    BY SameStepsB DEF HalfB
  <1>2. PB!Clients
    BY <1>1 DEF PB!Clients
  <1>3. ~PB!EditCrd
    <2>1. crdB.version \notin Int \/ ~(crdB.version < 0)
      BY <1>1 DEF PB!IInv, PB!TypeOK, PB!Crd
    <2>2. crdB.version \in Int
      BY <1>1 DEF PB!IInv, PB!TypeOK, PB!Crd
    <2>3. QED BY <2>1, <2>2 DEF PB!EditCrd
  <1>4. HalfB'
    BY <1>1, <1>2, <1>3, ConstantsB, PB!ClientsStep, PB!ClientsLife DEF HalfB
  <1>5. QED BY <1>1, <1>4, ConstantsB, PB!ClientsOwned DEF OneWayB

LEMMA RegisterBHalf ==
    ASSUME HalfB, NEW p \in Pods, B!RegisterNode(p)
    PROVE  /\ HalfB' /\ UNCHANGED <<crdB, configB>> /\ vnode'
           /\ crdB.life # "unborn" /\ configB[p] = FirstSpecB
           /\ crdB.life = "live" => PB!Owned'
           /\ PB!Owned => PB!Owned'
  <1>1. PB!RegisterNode(p) /\ PB!IInv /\ PB!LifeInv /\ PB!Unedited
    BY SameStepsB DEF HalfB
  <1>2. PB!Clients
    BY <1>1 DEF PB!Clients
  <1>3. /\ crdB.life # "unborn" /\ vnode' /\ UNCHANGED <<crdB, configB, reconB>>
        /\ crdB.life = "live" => PB!Owned'
    BY <1>1, ConstantsB, PB!RegisterOwned
  <1>4. PB!IInv' /\ PB!LifeInv'
    BY <1>1, <1>2, ConstantsB, PB!ClientsStep, PB!ClientsLife
  <1>5. PB!Unedited' /\ configB[p] = FirstSpecB
    BY <1>1, <1>3 DEF PB!Unedited, PB!RegisterNode, PB!managerVars, PB!cacheVars
  <1>6. PB!Owned => PB!Owned'
    BY <1>3 DEF PB!Owned
  <1>7. QED BY <1>3, <1>4, <1>5, <1>6 DEF HalfB

\* A kubelet's process ends.
LEMMA ExitBHalf ==
    ASSUME HalfB, ExitB, UNCHANGED shared
    PROVE  HalfB' /\ OneWayB /\ (PB!Owned => PB!Owned')
  <1>1. PB!IInv /\ PB!LifeInv /\ PB!Unedited
    BY DEF HalfB
  <1>2. PICK p \in Pods : podsB[p] = "active" /\ startingB' = startingB \cup {p}
    BY DEF ExitB, Exits
  <1>3. UNCHANGED <<crdB, podsB, configB, crdSeenB, podsSeenB, queuedB, timerB,
                    reconB, finalizedB, vnode, vnodeSeen, errors, failures, crashes,
                    lags>>
    BY DEF ExitB, shared
  <1>4. PB!IInv'
    BY <1>1, <1>2, <1>3 DEF PB!IInv, PB!TypeOK, PB!FinalizerFirst, PB!Guarded,
       PB!InsideList, PB!PanicsOnlySuspended
  <1>5. crdB.life # "unborn"
    BY <1>1, <1>2 DEF PB!LifeInv, PB!HasStarted
  <1>6. PB!LifeInv'
    BY <1>1, <1>2, <1>3, <1>5 DEF PB!LifeInv
  <1>7. QED
    BY <1>1, <1>2, <1>3, <1>4, <1>6 DEF HalfB, PB!Unedited, OneWayB, PB!Owned,
       PB!HasStarted

\* A step of the other half, which may change what they share.
LEMMA FrameB ==
    ASSUME HalfB, UNCHANGED varsB, vnode' \in BOOLEAN, vnodeSeen' \in BOOLEAN,
           errors' \in 0..MaxErrors, failures' \in 0..MaxFailures, crashes' \in 0..MaxCrashes,
           lags' \in 0..MaxLags
    PROVE  HalfB' /\ OneWayB /\ (PB!Owned => PB!Owned')
  <1>1. UNCHANGED <<crdB, podsB, configB, startingB, crdSeenB, podsSeenB,
                    queuedB, timerB, reconB, finalizedB>>
    BY DEF varsB
  <1>2. PB!IInv'
    BY <1>1 DEF HalfB, PB!IInv, PB!TypeOK, PB!FinalizerFirst, PB!Guarded,
       PB!InsideList, PB!PanicsOnlySuspended
  <1>3. QED
    BY <1>1, <1>2 DEF HalfB, PB!LifeInv, PB!Unedited, OneWayB, PB!Owned,
       PB!HasStarted

-----------------------------------------------------------------------------
(***************************************************************************)
(* The invariant                                                           *)
(***************************************************************************)

\* A v1.Node that was registered in time, and not overlooked, has a CR that does
\* not go away before the operator has looked for it.
HasOwner == vnode /\ ~late => PA!Owned \/ PB!Owned

IInv == HalfA /\ HalfB /\ HasOwner /\ NodeStays /\ NodeAsAsked

LEMMA SharedALemma ==
    ASSUME HalfA'
    PROVE  /\ vnode' \in BOOLEAN /\ vnodeSeen' \in BOOLEAN
           /\ errors' \in 0..MaxErrors /\ failures' \in 0..MaxFailures
           /\ crashes' \in 0..MaxCrashes /\ lags' \in 0..MaxLags
  BY DEF HalfA, PA!IInv, PA!TypeOK

LEMMA SharedBLemma ==
    ASSUME HalfB'
    PROVE  /\ vnode' \in BOOLEAN /\ vnodeSeen' \in BOOLEAN
           /\ errors' \in 0..MaxErrors /\ failures' \in 0..MaxFailures
           /\ crashes' \in 0..MaxCrashes /\ lags' \in 0..MaxLags
  BY DEF HalfB, PB!IInv, PB!TypeOK

\* A step that registers no v1.Node, and leaves none behind but by overlooking it.
LEMMA SteadyLemma ==
    ASSUME IInv, HalfA', HalfB', OneWayA, OneWayB,
           vnode' => vnode, vnode' => node' = node,
           vnode => vnode' \/ crdA.life \in PA!Ended \/ crdB.life \in PB!Ended,
           vnode' /\ ~late' =>
             ~late /\ (PA!Owned => PA!Owned') /\ (PB!Owned => PB!Owned')
    PROVE  IInv'
  <1>1. HasOwner'
    BY DEF IInv, HasOwner
  <1>2. /\ Started(podsA, startingA) <=> PA!HasStarted
        /\ Started(podsB, startingB) <=> PB!HasStarted
        /\ Started(podsA, startingA)' <=> PA!HasStarted'
        /\ Started(podsB, startingB)' <=> PB!HasStarted'
    BY DEF Started, PA!HasStarted, PB!HasStarted
  <1>3. /\ Deleted(crdA) <=> crdA.life \in PA!Ended
        /\ Deleted(crdB) <=> crdB.life \in PB!Ended
        /\ Deleted(crdA)' <=> crdA'.life \in PA!Ended
        /\ Deleted(crdB)' <=> crdB'.life \in PB!Ended
    BY DEF Deleted, PA!Ended, PB!Ended
  <1>4. NodeStays'
    <2>1. /\ Deleted(crdA) => Deleted(crdA)'
          /\ Deleted(crdB) => Deleted(crdB)'
          /\ Started(podsA, startingA)' => Started(podsA, startingA)
          /\ Started(podsB, startingB)' => Started(podsB, startingB)
      BY <1>2, <1>3 DEF OneWayA, OneWayB
    <2>2. vnode => vnode' \/ Deleted(crdA) \/ Deleted(crdB)
      BY <1>3
    <2>3. QED BY <2>1, <2>2 DEF IInv, NodeStays
  <1>5. Asked \subseteq Asked'
    BY DEF Asked, OneWayA, OneWayB
  <1>6. NodeAsAsked'
    <2> SUFFICES ASSUME vnode' PROVE NodeAsAsked'
      BY DEF NodeAsAsked
    <2>1. vnode /\ node' = node
      OBVIOUS
    <2>2. PICK cr \in Asked : StatusAsked(node, cr)
      BY <2>1 DEF IInv, NodeAsAsked
    <2>3. PICK ct \in Asked : node.taints = ct.taints
      BY <2>1 DEF IInv, NodeAsAsked
    <2>4. cr \in Asked' /\ ct \in Asked'
      BY <1>5
    <2>5. QED BY <2>1, <2>2, <2>3, <2>4 DEF NodeAsAsked
  <1>7. QED BY <1>1, <1>4, <1>6 DEF IInv

\* What a kubelet registers is what its CR asks for.
LEMMA DescribeLemma ==
    ASSUME NodeAsAsked, NEW spec \in Specs, SpecOf[spec] \in Asked, Asked' = Asked,
           Describe(spec)
    PROVE  NodeAsAsked'
  <1> DEFINE cr == SpecOf[spec]
             pod == Admit(CreateNodePodObj(cr))
             new == ConfigureNode(pod)
  <1>1. IsCr(cr)
    BY CrsAssumption
  <1>2. StatusAsked(new, cr) /\ new.taints = cr.taints
    BY <1>1, ConfiguredAsAsked
  <1>3. CASE node' = new
    BY <1>2, <1>3 DEF NodeAsAsked
  <1>4. CASE vnode /\ node' = [new EXCEPT !.taints = node.taints]
    <2>1. PICK ct \in Asked : node.taints = ct.taints
      BY <1>4 DEF NodeAsAsked
    <2>2. /\ node'.name = new.name /\ node'.labels = new.labels
          /\ node'.capacity = new.capacity /\ node'.address = new.address
          /\ node'.port = new.port /\ node'.taints = node.taints
      <3> HIDE DEF pod
      <3>1. new = [name     |-> new.name,
                   labels   |-> new.labels,
                   taints   |-> new.taints,
                   capacity |-> new.capacity,
                   address  |-> new.address,
                   port     |-> new.port]
        BY DEF ConfigureNode
      <3> HIDE DEF new
      <3>2. QED BY <1>4, <3>1
    <2>3. StatusAsked(node', cr)
      <3> HIDE DEF new, cr
      <3>1. QED BY <1>2, <2>2 DEF StatusAsked
    <2>4. QED BY <2>1, <2>2, <2>3 DEF NodeAsAsked
  <1>5. QED BY <1>3, <1>4 DEF Describe

-----------------------------------------------------------------------------
(***************************************************************************)
(* The steps                                                               *)
(***************************************************************************)

LEMMA ReconcileAStep ==
    ASSUME IInv, ReconcileA
    PROVE  IInv'
  <1>1. /\ HalfA /\ HalfB /\ A!Reconcile /\ UNCHANGED varsB /\ Forget
        /\ late' = (late \/ Overlooks(reconA))
    BY DEF IInv, ReconcileA
  <1>2. /\ HalfA' /\ OneWayA
        /\ PA!Owned /\ vnode' => PA!Owned' \/ Overlooks(reconA)
        /\ vnode' => vnode
        /\ vnode => vnode' \/ crdA.life \in PA!Ended
    BY <1>1, ReconcileAHalf
  <1>3. HalfB' /\ OneWayB /\ (PB!Owned => PB!Owned')
    BY <1>1, <1>2, SharedALemma, FrameB
  <1>4. vnode' => node' = node
    BY <1>1 DEF Forget
  <1>5. vnode => vnode' \/ crdA.life \in PA!Ended \/ crdB.life \in PB!Ended
    BY <1>2
  <1>6. vnode' /\ ~late' =>
          ~late /\ (PA!Owned => PA!Owned') /\ (PB!Owned => PB!Owned')
    BY <1>1, <1>2, <1>3
  <1>7. QED BY <1>2, <1>3, <1>4, <1>5, <1>6, SteadyLemma

LEMMA ReconcileBStep ==
    ASSUME IInv, ReconcileB
    PROVE  IInv'
  <1>1. /\ HalfA /\ HalfB /\ B!Reconcile /\ UNCHANGED varsA /\ Forget
        /\ late' = (late \/ Overlooks(reconB))
    BY DEF IInv, ReconcileB
  <1>2. /\ HalfB' /\ OneWayB
        /\ PB!Owned /\ vnode' => PB!Owned' \/ Overlooks(reconB)
        /\ vnode' => vnode
        /\ vnode => vnode' \/ crdB.life \in PB!Ended
    BY <1>1, ReconcileBHalf
  <1>3. HalfA' /\ OneWayA /\ (PA!Owned => PA!Owned')
    BY <1>1, <1>2, SharedBLemma, FrameA
  <1>4. vnode' => node' = node
    BY <1>1 DEF Forget
  <1>5. vnode => vnode' \/ crdA.life \in PA!Ended \/ crdB.life \in PB!Ended
    BY <1>2
  <1>6. vnode' /\ ~late' =>
          ~late /\ (PA!Owned => PA!Owned') /\ (PB!Owned => PB!Owned')
    BY <1>1, <1>2, <1>3
  <1>7. QED BY <1>2, <1>3, <1>4, <1>5, <1>6, SteadyLemma

LEMMA RegisterAStep ==
    ASSUME IInv, RegisterA
    PROVE  IInv'
  <1>1. PICK p \in Pods : A!RegisterNode(p) /\ Describe(configA[p])
    BY DEF RegisterA
  <1>2. HalfA /\ HalfB /\ UNCHANGED varsB /\ late' = (late \/ crdA.life # "live")
    BY DEF IInv, RegisterA
  <1>3. /\ HalfA' /\ UNCHANGED <<crdA, configA>> /\ vnode'
        /\ crdA.life # "unborn" /\ configA[p] = FirstSpecA
        /\ crdA.life = "live" => PA!Owned'
        /\ PA!Owned => PA!Owned'
    BY <1>1, <1>2, RegisterAHalf
  <1>4. HalfB' /\ OneWayB /\ (PB!Owned => PB!Owned')
    BY <1>2, <1>3, SharedALemma, FrameB
  <1>5. Asked' = Asked /\ SpecOf[FirstSpecA] \in Asked
    BY <1>2, <1>3 DEF Asked, varsB
  <1>6. NodeAsAsked'
    BY <1>1, <1>3, <1>5, SpecsAssumption, DescribeLemma DEF IInv
  <1>7. HasOwner'
    BY <1>2, <1>3, <1>4 DEF HasOwner
  <1>8. NodeStays'
    BY <1>3 DEF NodeStays
  <1>9. QED BY <1>3, <1>4, <1>6, <1>7, <1>8 DEF IInv

LEMMA RegisterBStep ==
    ASSUME IInv, RegisterB
    PROVE  IInv'
  <1>1. PICK p \in Pods : B!RegisterNode(p) /\ Describe(configB[p])
    BY DEF RegisterB
  <1>2. HalfA /\ HalfB /\ UNCHANGED varsA /\ late' = (late \/ crdB.life # "live")
    BY DEF IInv, RegisterB
  <1>3. /\ HalfB' /\ UNCHANGED <<crdB, configB>> /\ vnode'
        /\ crdB.life # "unborn" /\ configB[p] = FirstSpecB
        /\ crdB.life = "live" => PB!Owned'
        /\ PB!Owned => PB!Owned'
    BY <1>1, <1>2, RegisterBHalf
  <1>4. HalfA' /\ OneWayA /\ (PA!Owned => PA!Owned')
    BY <1>2, <1>3, SharedBLemma, FrameA
  <1>5. Asked' = Asked /\ SpecOf[FirstSpecB] \in Asked
    BY <1>2, <1>3 DEF Asked, varsA
  <1>6. NodeAsAsked'
    BY <1>1, <1>3, <1>5, SpecsAssumption, DescribeLemma DEF IInv
  <1>7. HasOwner'
    BY <1>2, <1>3, <1>4 DEF HasOwner
  <1>8. NodeStays'
    BY <1>3 DEF NodeStays
  <1>9. QED BY <1>3, <1>4, <1>6, <1>7, <1>8 DEF IInv

LEMMA ManagerStep ==
    ASSUME IInv, Manager
    PROVE  IInv'
  <1>1. HalfA /\ HalfB /\ UNCHANGED <<node, exits, late>>
    BY DEF IInv, Manager
  <1>2. CASE /\ UNCHANGED varsB
             /\ A!TimerFires \/ A!SyncCrd \/ A!SyncNode \/ \E p \in Pods : A!SyncPod(p)
    <2>1. HalfA' /\ OneWayA /\ (PA!Owned => PA!Owned') /\ vnode' = vnode
      BY <1>1, <1>2, ManagerAHalf
    <2>2. HalfB' /\ OneWayB /\ (PB!Owned => PB!Owned')
      BY <1>1, <1>2, <2>1, SharedALemma, FrameB
    <2>3. QED BY <1>1, <2>1, <2>2, SteadyLemma
  <1>3. CASE /\ UNCHANGED varsA
             /\ B!TimerFires \/ B!SyncCrd \/ \E p \in Pods : B!SyncPod(p)
    <2>1. HalfB' /\ OneWayB /\ (PB!Owned => PB!Owned') /\ vnode' = vnode
      BY <1>1, <1>3, ManagerBHalf
    <2>2. HalfA' /\ OneWayA /\ (PA!Owned => PA!Owned')
      BY <1>1, <1>3, <2>1, SharedBLemma, FrameA
    <2>3. QED BY <1>1, <2>1, <2>2, SteadyLemma
  <1>4. CASE RestartManager
    <2>1. A!RestartManager /\ B!RestartManager
      BY <1>4 DEF RestartManager
    <2>2. HalfA' /\ OneWayA /\ (PA!Owned => PA!Owned') /\ vnode' = vnode
      BY <1>1, <2>1, ManagerAHalf
    <2>3. HalfB' /\ OneWayB /\ (PB!Owned => PB!Owned')
      BY <1>1, <2>1, ManagerBHalf
    <2>4. QED BY <1>1, <2>2, <2>3, SteadyLemma
  <1>5. QED BY <1>2, <1>3, <1>4 DEF Manager, Timers, CatchUp, SyncNode

LEMMA ClientsStep ==
    ASSUME IInv, Clients
    PROVE  IInv'
  <1>1. HalfA /\ HalfB /\ UNCHANGED <<node, exits, late>>
    BY DEF IInv, Clients
  <1>2. CASE CollectA \/ FailA \/ UsersA
    <2>1. /\ UNCHANGED varsB
          /\ A!CreateCrd \/ A!DeleteCrd \/ \E p \in Pods : A!CollectPod(p) \/ A!FailPod(p)
      BY <1>2 DEF CollectA, FailA, UsersA
    <2>2. HalfA' /\ OneWayA /\ (PA!Owned => PA!Owned') /\ vnode' = vnode
      BY <1>1, <2>1, ClientsAHalf
    <2>3. HalfB' /\ OneWayB /\ (PB!Owned => PB!Owned')
      BY <1>1, <2>1, <2>2, SharedALemma, FrameB
    <2>4. QED BY <1>1, <2>2, <2>3, SteadyLemma
  <1>3. CASE CollectB \/ FailB \/ UsersB
    <2>1. /\ UNCHANGED varsA
          /\ B!CreateCrd \/ B!DeleteCrd \/ \E p \in Pods : B!CollectPod(p) \/ B!FailPod(p)
      BY <1>3 DEF CollectB, FailB, UsersB
    <2>2. HalfB' /\ OneWayB /\ (PB!Owned => PB!Owned') /\ vnode' = vnode
      BY <1>1, <2>1, ClientsBHalf
    <2>3. HalfA' /\ OneWayA /\ (PA!Owned => PA!Owned')
      BY <1>1, <2>1, <2>2, SharedBLemma, FrameA
    <2>4. QED BY <1>1, <2>2, <2>3, SteadyLemma
  <1>4. QED BY <1>2, <1>3 DEF Clients

LEMMA ExitStep ==
    ASSUME IInv, Exit
    PROVE  IInv'
  <1>1. HalfA /\ HalfB /\ UNCHANGED shared /\ node' = node /\ late' = late
    BY DEF IInv, Exit
  <1>2. vnode' = vnode
    BY <1>1 DEF shared
  <1>3. /\ vnode' \in BOOLEAN /\ vnodeSeen' \in BOOLEAN
        /\ errors' \in 0..MaxErrors /\ failures' \in 0..MaxFailures
        /\ crashes' \in 0..MaxCrashes /\ lags' \in 0..MaxLags
    BY <1>1 DEF shared, HalfA, PA!IInv, PA!TypeOK
  <1>4. /\ HalfA' /\ OneWayA /\ (PA!Owned => PA!Owned')
        /\ HalfB' /\ OneWayB /\ (PB!Owned => PB!Owned')
    <2>1. CASE ExitA
      <3>1. HalfA' /\ OneWayA /\ (PA!Owned => PA!Owned')
        BY <1>1, <2>1, ExitAHalf
      <3>2. UNCHANGED varsB
        BY <2>1 DEF ExitA
      <3>3. QED BY <1>1, <1>3, <3>1, <3>2, FrameB
    <2>2. CASE ExitB
      <3>1. HalfB' /\ OneWayB /\ (PB!Owned => PB!Owned')
        BY <1>1, <2>2, ExitBHalf
      <3>2. UNCHANGED varsA
        BY <2>2 DEF ExitB
      <3>3. QED BY <1>1, <1>3, <3>1, <3>2, FrameA
    <2>3. QED BY <2>1, <2>2 DEF Exit
  <1>5. QED BY <1>1, <1>2, <1>4, SteadyLemma

-----------------------------------------------------------------------------
(***************************************************************************)
(* Theorems                                                                *)
(***************************************************************************)

LEMMA InitLemma == Init => IInv
  <1> SUFFICES ASSUME Init PROVE IInv
    OBVIOUS
  <1>1. HalfA /\ HalfB
    BY InitA, InitB DEF Init
  <1>2. vnode = FALSE
    BY DEF Init, A!Init
  <1>3. ~PA!HasStarted /\ ~PB!HasStarted
    BY DEF Init, A!Init, B!Init, PA!HasStarted, PB!HasStarted
  <1>4. NodeStays
    BY <1>3 DEF NodeStays, Started, PA!HasStarted, PB!HasStarted
  <1>5. QED BY <1>1, <1>2, <1>4 DEF IInv, HasOwner, NodeAsAsked

THEOREM Invariance == Spec => []IInv
  <1>1. IInv /\ [Next]_vars => IInv'
    <2> SUFFICES ASSUME IInv, [Next]_vars PROVE IInv'
      OBVIOUS
    <2>1. CASE Next
      BY <2>1, ReconcileAStep, ReconcileBStep, ManagerStep, ClientsStep, RegisterAStep,
         RegisterBStep, ExitStep DEF Next, Reconcile
    <2>2. CASE UNCHANGED vars
      <3>1. UNCHANGED <<varsA, varsB, shared, node, late>> /\ HalfA /\ HalfB
        BY <2>2 DEF vars, IInv
      <3>2. /\ vnode' \in BOOLEAN /\ vnodeSeen' \in BOOLEAN /\ vnode' = vnode
            /\ errors' \in 0..MaxErrors /\ failures' \in 0..MaxFailures
            /\ crashes' \in 0..MaxCrashes /\ lags' \in 0..MaxLags
        BY <3>1 DEF shared, HalfA, PA!IInv, PA!TypeOK
      <3>3. /\ HalfA' /\ OneWayA /\ (PA!Owned => PA!Owned')
            /\ HalfB' /\ OneWayB /\ (PB!Owned => PB!Owned')
        BY <3>1, <3>2, FrameA, FrameB
      <3>4. QED BY <3>1, <3>2, <3>3, SteadyLemma
    <2>3. QED BY <2>1, <2>2
  <1>2. QED BY <1>1, InitLemma, PTL DEF Spec

\* A kubelet that has started has its v1.Node, unless the deletion of one of the
\* two CRs was asked for: DeleteEnsureNode is reached only from a CR that was
\* being deleted, and what is cached of a CR never runs ahead of it.
THEOREM NodeStaysTheorem == Spec => []NodeStays
  <1>1. IInv => NodeStays
    BY DEF IInv
  <1>2. QED BY <1>1, Invariance, PTL

\* The v1.Node goes with the last CR of its name, but for the two cases that
\* late stands for: a kubelet that starts while its CR is there has a CR with
\* the finalizer, which is not removed before the v1.Node is.
THEOREM NodeCleanedUpTheorem == Spec => []NodeCleanedUp
  <1>1. IInv => NodeCleanedUp
    BY DEF IInv, HasOwner, NodeCleanedUp, PA!Owned, PB!Owned
  <1>2. QED BY <1>1, Invariance, PTL

\* Whichever kubelets register it, in whatever order: the v1.Node is what one of
\* the CRs of its name asks for.
THEOREM NodeAsAskedTheorem == Spec => []NodeAsAsked
  <1>1. IInv => NodeAsAsked
    BY DEF IInv
  <1>2. QED BY <1>1, Invariance, PTL
=============================================================================

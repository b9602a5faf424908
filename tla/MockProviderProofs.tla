------------------------- MODULE MockProviderProofs -------------------------
(***************************************************************************)
(* What MockProvider guarantees for any number of pods and names, any      *)
(* schedules, restarts and races, proved: its types, and that no pod is    *)
(* reported as lost unless its deletion was asked for.                     *)
(***************************************************************************)
EXTENDS MockProvider, TLAPS

-----------------------------------------------------------------------------
(***************************************************************************)
(* The inductive invariant                                                 *)
(***************************************************************************)

\* A pod has no more annotations due than it has.
DueInPlan == \A u \in Pods : due[u] <= Len(Plan[u])

\* The tracker calls GetPod only while it works on a pod.
TrackerCalls == call[Tracker].pc # "none" => tracked.pc \in {"fetch", "copy"}

\* The cache shows the past: what it knows was created, and what it shows as
\* terminating is.
CacheBehind ==
    \A u \in Pods : /\ seen[u] # "absent" => life[u] # "unborn"
                    /\ seen[u] = "deleting" => life[u] \in {"deleting", "gone"}

\* A listed pod was created, and the cache still has it if it lives.
StillSeen(u) == life[u] # "unborn" /\ (life[u] = "live" => seen[u] = "live")

ListedStillSeen ==
    /\ \A p \in todo : StillSeen(p.uid)
    /\ tracked.pc # "idle" => StillSeen(tracked.pod.uid)

\* The provider has no pod of the name only if the listed pod is to go.
Going(u) == life[u] \in {"deleting", "gone"}

MissingIsGoing == call[Tracker].pc = "missing" => Going(tracked.pod.uid)

IInv ==
    /\ TypeOK /\ DueInPlan /\ TrackerCalls
    /\ CacheBehind /\ ListedStillSeen /\ MissingIsGoing /\ NoSpuriousFailure

-----------------------------------------------------------------------------
(***************************************************************************)
(* Lemmas about the operators                                              *)
(***************************************************************************)

\* A map that is extended or overwritten at one key.
LEMMA WithLemma ==
    ASSUME NEW f, NEW x, NEW v
    PROVE  /\ DOMAIN With(f, x, v) = DOMAIN f \cup {x}
           /\ With(f, x, v)[x] = v
           /\ \A y \in DOMAIN f \ {x} : With(f, x, v)[y] = f[y]
  BY DEF With

LEMMA WithoutLemma ==
    ASSUME NEW f, NEW x
    PROVE  /\ DOMAIN Without(f, x) = DOMAIN f \ {x}
           /\ \A y \in DOMAIN f \ {x} : Without(f, x)[y] = f[y]
  BY DEF Without

\* How the states of a call of GetPod are made, and what they hold.
LEMMA CallStatesLemma ==
    /\ \A pc \in {"none", "read", "list", "missing"} : [pc |-> pc] \in CallStates
    /\ \A p \in Pod : [pc |-> "write", pod |-> p] \in CallStates
    /\ \A p \in Pod : \A b \in BOOLEAN :
         [pc |-> "found", pod |-> p, shared |-> b] \in CallStates
    /\ \A s \in CallStates : s.pc = "write" => s.pod \in Pod
    /\ \A s \in CallStates : s.pc = "found" =>
         /\ s.pod \in Pod
         /\ s.shared \in BOOLEAN
         /\ s = [pc |-> "found", pod |-> s.pod, shared |-> s.shared]
    /\ \A s \in CallStates : s.pc \in {"none", "read", "list", "missing", "write", "found"}
  BY DEF CallStates

LEMMA TrackedStatesLemma ==
    /\ NoPodTracked \in TrackedStates
    /\ \A pc \in {"fetch", "copy", "lost", "notify"} : \A p \in Pod :
         [pc |-> pc, pod |-> p] \in TrackedStates
    /\ \A s \in TrackedStates :
         /\ s.pc \in {"idle", "fetch", "copy", "lost", "notify"}
         /\ s.pc # "idle" => s.pod \in Pod /\ s = [pc |-> s.pc, pod |-> s.pod]
  BY DEF TrackedStates, NoPodTracked

LEMMA WorkerStatesLemma ==
    /\ Idle \in WorkerStates /\ [pc |-> "collect"] \in WorkerStates
    /\ \A pc \in {"create", "updated"} : \A p \in Pod :
         [pc |-> pc, pod |-> p] \in WorkerStates
    /\ \A pc \in {"remove", "terminate"} : \A g \in SUBSET Pods :
         [pc |-> pc, gone |-> g] \in WorkerStates
    /\ \A s \in WorkerStates :
         /\ s.pc \in {"create", "updated"} =>
              s.pod \in Pod /\ s = [pc |-> s.pc, pod |-> s.pod]
         /\ s.pc \in {"remove", "terminate"} =>
              s.gone \in SUBSET Pods /\ s = [pc |-> s.pc, gone |-> s.gone]
  BY DEF WorkerStates, Idle

\* The statuses that the provider and DeletePod's handler make.
LEMMA StatusLemma ==
    /\ NewStatus \in Status /\ DefaultStatus \in Status
    /\ \A a \in Annotations : CreateStatus(a) \in Status
    /\ \A st \in Status : Terminated(st) \in Status /\ Lost(st) \in Status
  BY DEF NewStatus, DefaultStatus, Status, Annotations, CreateStatus, Terminated, Lost

LEMMA NowStatusLemma ==
    ASSUME TypeOK, DueInPlan, NEW u \in Pods, HasNowStatus(u)
    PROVE  NowStatus(u) \in Status
  <1>1. Plan[u] \in Seq(Annotations) /\ due[u] \in Nat /\ due[u] <= Len(Plan[u])
    BY PlanAssumption DEF TypeOK, DueInPlan
  <1>2. CASE Plan[u] = <<>>
    BY <1>2, StatusLemma DEF NowStatus
  <1>3. CASE Plan[u] # <<>>
    <2>1. due[u] \in 1..Len(Plan[u])
      BY <1>1, <1>3 DEF HasNowStatus
    <2>2. Plan[u][due[u]] \in Annotations
      BY <1>1, <2>1
    <2>3. QED BY <1>3, <2>2, StatusLemma DEF NowStatus
  <1>4. QED BY <1>2, <1>3

LEMMA PodLemma ==
    ASSUME TypeOK
    PROVE  /\ \A u \in Pods : CacheCopy(u) \in Pod /\ CacheCopy(u).uid = u
           /\ \A p \in Pod : \A st \in Status : /\ [p EXCEPT !.st = st] \in Pod
                                                /\ [p EXCEPT !.st = st].uid = p.uid
           /\ \A p \in Pod : p.uid \in Pods /\ p.st \in Status /\ NameOf[p.uid] \in Names
           /\ \A p \in Pod : MapKey[NameOf[p.uid]] \in MapKeys
  BY NameOfAssumption DEF TypeOK, CacheCopy, Pod

\* The callers that lose the object in the map keep what they had.
LEMMA UnsharedLemma ==
    ASSUME TypeOK, NEW key
    PROVE  /\ Unshared(key) \in [Callers -> CallStates]
           /\ \A c \in Callers : Unshared(key)[c].pc = call[c].pc
  <1>1. ASSUME NEW c \in Callers, call[c].pc = "found"
        PROVE  /\ [call[c] EXCEPT !.shared = FALSE] \in CallStates
               /\ [call[c] EXCEPT !.shared = FALSE].pc = call[c].pc
    <2>1. call[c] \in CallStates
      BY DEF TypeOK
    <2>2. PICK q \in Pod, b \in BOOLEAN : call[c] = [pc |-> "found", pod |-> q, shared |-> b]
      BY <1>1, <2>1, CallStatesLemma
    <2>3. \A x, v : [[pc |-> "found", pod |-> q, shared |-> x] EXCEPT !.shared = v] =
                      [pc |-> "found", pod |-> q, shared |-> v]
      OBVIOUS
    <2>4. [call[c] EXCEPT !.shared = FALSE] = [pc |-> "found", pod |-> q, shared |-> FALSE]
      <3>1. [[pc |-> "found", pod |-> q, shared |-> b] EXCEPT !.shared = FALSE] =
              [pc |-> "found", pod |-> q, shared |-> FALSE]
        BY <2>3, Zenon
      <3>2. QED BY <2>2, <3>1, SMT
    <2>5. QED BY <1>1, <2>4, CallStatesLemma
  <1>2. \A c \in Callers : call[c] \in CallStates
    BY DEF TypeOK
  <1>3. QED BY <1>1, <1>2 DEF Unshared

LEMMA ReadLemma ==
    ASSUME TypeOK, NEW key
    PROVE  Read(key) \in CallStates /\ Read(key).pc \in {"found", "list"}
  <1>1. CASE key \in DOMAIN podsMock
    <2>1. podsMock[key] \in Pod
      BY <1>1 DEF TypeOK
    <2>2. QED BY <1>1, <2>1, CallStatesLemma DEF Read
  <1>2. CASE key \notin DOMAIN podsMock
    BY <1>2, CallStatesLemma DEF Read
  <1>3. QED BY <1>1, <1>2

\* The notifier keeps names and pods.
LEMMA NotifyLemma ==
    ASSUME TypeOK, NEW p \in Pod, Notify(p)
    PROVE  /\ DOMAIN received' \subseteq Names
           /\ \A n \in DOMAIN received' : received'[n] \in Pod
           /\ dirty' \subseteq Names /\ skipped' \subseteq Names
  <1> DEFINE n == NameOf[p.uid]
  <1>1. n \in Names
    BY PodLemma
  <1>2. DOMAIN received \subseteq Names /\ dirty \subseteq Names /\ skipped \subseteq Names
        /\ \A m \in DOMAIN received : received[m] \in Pod
    BY DEF TypeOK
  <1>3. CASE UNCHANGED notifyVars
    BY <1>2, <1>3 DEF notifyVars
  <1>4. CASE skipped' = skipped \cup {n} /\ UNCHANGED <<received, dirty>>
    BY <1>1, <1>2, <1>4
  <1>5. CASE /\ received' = With(received, n, p)
             /\ dirty' = dirty \cup {n}
             /\ skipped' = skipped \ {n}
    <2> HIDE DEF n
    <2>1. /\ DOMAIN received' = DOMAIN received \cup {n}
          /\ received'[n] = p
          /\ \A m \in DOMAIN received \ {n} : received'[m] = received[m]
      BY <1>5 DEF With
    <2>2. QED BY <1>1, <1>2, <1>5, <2>1
  <1>6. QED BY <1>3, <1>4, <1>5 DEF Notify

\* The map after a write of a pod.
LEMMA MapWriteLemma ==
    ASSUME TypeOK, NEW key \in MapKeys, NEW p \in Pod
    PROVE  /\ DOMAIN With(podsMock, key, p) \subseteq MapKeys
           /\ \A x \in DOMAIN With(podsMock, key, p) : With(podsMock, key, p)[x] \in Pod
  <1>1. /\ DOMAIN podsMock \subseteq MapKeys
        /\ \A x \in DOMAIN podsMock : podsMock[x] \in Pod
    BY DEF TypeOK
  <1>2. /\ DOMAIN With(podsMock, key, p) = DOMAIN podsMock \cup {key}
        /\ With(podsMock, key, p)[key] = p
        /\ \A y \in DOMAIN podsMock \ {key} : With(podsMock, key, p)[y] = podsMock[y]
    BY DEF With
  <1> DEFINE m == With(podsMock, key, p)
  <1> HIDE DEF m
  <1>3. /\ DOMAIN m = DOMAIN podsMock \cup {key}
        /\ m[key] = p
        /\ \A y \in DOMAIN podsMock \ {key} : m[y] = podsMock[y]
    BY <1>2 DEF m
  <1>4. DOMAIN m \subseteq MapKeys /\ \A x \in DOMAIN m : m[x] \in Pod
    BY <1>1, <1>3
  <1>5. QED BY <1>4 DEF m

-----------------------------------------------------------------------------
(***************************************************************************)
(* Type correctness, one lemma per action or group of actions.            *)
(***************************************************************************)

LEMMA InitTypes == Init => IInv
  <1> SUFFICES ASSUME Init PROVE IInv
    OBVIOUS
  <1>1. TypeOK
    BY StatusLemma, CallStatesLemma, TrackedStatesLemma, WorkerStatesLemma
    DEF Init, TypeOK, EmptyMap, NoCall
  <1>2. ASSUME NEW u \in Pods PROVE due[u] <= Len(Plan[u])
    <2>1. due[u] = 0 /\ Plan[u] \in Seq(Annotations)
      BY PlanAssumption DEF Init
    <2>2. Len(Plan[u]) \in Nat
      BY <2>1
    <2>3. QED BY <2>1, <2>2
  <1>3. DueInPlan
    BY <1>2 DEF DueInPlan
  <1>4. call[Tracker].pc = "none" /\ tracked.pc = "idle"
    BY DEF Init, Callers, NoCall, NoPodTracked
  <1>5. QED
    BY <1>1, <1>3, <1>4 DEF Init, IInv, TrackerCalls, CacheBehind,
       ListedStillSeen, MissingIsGoing, NoSpuriousFailure

LEMMA GetPodReadTypes ==
    ASSUME TypeOK, NEW c \in Callers, GetPodRead(c)
    PROVE  TypeOK'
  <1>1. call' \in [Callers -> CallStates]
    BY ReadLemma DEF TypeOK, GetPodRead
  <1>2. QED
    BY <1>1 DEF TypeOK, GetPodRead, apiVars, cacheVars, trackerVars, notifyVars, bounds

LEMMA GetPodListTypes ==
    ASSUME TypeOK, NEW c \in Callers, GetPodList(c)
    PROVE  TypeOK'
  <1> DEFINE Live == {u \in Listed(NameOfCaller(c)) : seen[u] = "live"}
  <1>1. CASE Live = {}
    <2>1. call' = [call EXCEPT ![c] = [pc |-> "missing"]]
      BY <1>1 DEF GetPodList
    <2>2. call' \in [Callers -> CallStates]
      BY <2>1, CallStatesLemma DEF TypeOK
    <2>3. QED
      BY <2>2 DEF TypeOK, GetPodList, apiVars, cacheVars, trackerVars, notifyVars, bounds
  <1>2. CASE Live # {}
    <2> DEFINE u == CHOOSE x \in Live : TRUE
    <2>1. u \in Pods
      BY <1>2 DEF Listed
    <2>2. call' = [call EXCEPT ![c] = [pc |-> "write", pod |-> CacheCopy(u)]]
      BY <1>2 DEF GetPodList
    <2> HIDE DEF u
    <2>3. call' \in [Callers -> CallStates]
      BY <2>1, <2>2, PodLemma, CallStatesLemma DEF TypeOK
    <2>4. QED
      BY <2>3 DEF TypeOK, GetPodList, apiVars, cacheVars, trackerVars, notifyVars, bounds
  <1>3. QED BY <1>1, <1>2

\* The key of a caller is one of the map's.
LEMMA KeyOfCallerLemma ==
    ASSUME TypeOK, TrackerCalls, NEW c \in Callers, call[c].pc # "none"
    PROVE  NameOfCaller(c) \in Names /\ KeyOfCaller(c) \in MapKeys
  <1>1. CASE c = Tracker
    <2>1. tracked.pod \in Pod
      BY <1>1, TrackedStatesLemma DEF TrackerCalls, TypeOK
    <2>2. NameOf[tracked.pod.uid] \in Names
      BY <2>1, PodLemma
    <2>3. QED BY <1>1, <2>2, NameOfAssumption DEF NameOfCaller, KeyOfCaller
  <1>2. CASE c # Tracker
    <2>1. c \in Names
      BY <1>2 DEF Callers
    <2>2. QED BY <1>2, <2>1, NameOfAssumption DEF NameOfCaller, KeyOfCaller
  <1>3. QED BY <1>1, <1>2

LEMMA GetPodWriteTypes ==
    ASSUME TypeOK, TrackerCalls, NEW c \in Callers, GetPodWrite(c)
    PROVE  TypeOK'
  <1> DEFINE key == KeyOfCaller(c)
             p == call[c].pod
  <1>1. call[c] \in CallStates /\ call[c].pc = "write"
    BY DEF TypeOK, GetPodWrite
  <1>2. p \in Pod /\ key \in MapKeys
    BY <1>1, CallStatesLemma, KeyOfCallerLemma
  <1>3. /\ podsMock' = With(podsMock, key, p)
        /\ call' = [Unshared(key) EXCEPT ![c] = [pc |-> "found", pod |-> p, shared |-> FALSE]]
    BY DEF GetPodWrite
  <1> HIDE DEF key, p
  <1>4. call' \in [Callers -> CallStates]
    BY <1>2, <1>3, UnsharedLemma, CallStatesLemma
  <1>5. DOMAIN podsMock' \subseteq MapKeys /\ \A x \in DOMAIN podsMock' : podsMock'[x] \in Pod
    BY <1>2, <1>3, MapWriteLemma
  <1>6. QED
    BY <1>4, <1>5 DEF TypeOK, GetPodWrite, apiVars, cacheVars, trackerVars, notifyVars, bounds

LEMMA PatchPodStatusTypes ==
    ASSUME TypeOK, DueInPlan, NEW key \in MapKeys, PatchPodStatus(key)
    PROVE  TypeOK' /\ \A c \in Callers : call'[c].pc = call[c].pc
  <1> DEFINE st == NowStatus(podsMock[key].uid)
  <1>1. key \in DOMAIN podsMock /\ podsMock[key] \in Pod /\ podsMock[key].uid \in Pods
    BY PodLemma DEF TypeOK, PatchPodStatus
  <1>2. st \in Status
    BY <1>1, NowStatusLemma DEF PatchPodStatus
  <1>3. /\ podsMock' = [podsMock EXCEPT ![key].st = st]
        /\ call' = [c \in Callers |->
             IF call[c].pc = "found" /\ call[c].shared /\ KeyOfCaller(c) = key
               THEN [call[c] EXCEPT !.pod.st = st] ELSE call[c]]
    BY DEF PatchPodStatus
  <1> HIDE DEF st
  <1>4. /\ DOMAIN podsMock' = DOMAIN podsMock
        /\ podsMock'[key] = [podsMock[key] EXCEPT !.st = st]
        /\ \A x \in DOMAIN podsMock \ {key} : podsMock'[x] = podsMock[x]
    BY <1>1, <1>3
  <1>5. DOMAIN podsMock' \subseteq MapKeys /\ \A x \in DOMAIN podsMock' : podsMock'[x] \in Pod
    BY <1>1, <1>2, <1>4, PodLemma DEF TypeOK
  <1>6. ASSUME NEW c \in Callers
        PROVE  call'[c] \in CallStates /\ call'[c].pc = call[c].pc
    <2>1. call[c] \in CallStates
      BY DEF TypeOK
    <2>2. CASE call[c].pc = "found" /\ call[c].shared /\ KeyOfCaller(c) = key
      <3>1. PICK q \in Pod, b \in BOOLEAN : call[c] = [pc |-> "found", pod |-> q, shared |-> b]
        BY <2>1, <2>2, CallStatesLemma
      <3>2. [call[c] EXCEPT !.pod.st = st] =
              [pc |-> "found", pod |-> [q EXCEPT !.st = st], shared |-> b]
        BY <3>1
      <3>3. [q EXCEPT !.st = st] \in Pod
        BY <1>2, PodLemma
      <3>4. call'[c] = [pc |-> "found", pod |-> [q EXCEPT !.st = st], shared |-> b]
        BY <1>3, <2>2, <3>2
      <3>5. QED BY <2>2, <3>3, <3>4, CallStatesLemma
    <2>3. CASE ~(call[c].pc = "found" /\ call[c].shared /\ KeyOfCaller(c) = key)
      BY <1>3, <2>1, <2>3
    <2>4. QED BY <2>2, <2>3
  <1>7. call' \in [Callers -> CallStates]
    BY <1>3, <1>6
  <1>8. QED
    BY <1>5, <1>6, <1>7
    DEF TypeOK, PatchPodStatus, apiVars, cacheVars, trackerVars, notifyVars, bounds

LEMMA ListPodsTypes == TypeOK /\ ListPods => TypeOK'
  <1> SUFFICES ASSUME TypeOK, ListPods PROVE TypeOK'
    OBVIOUS
  <1>1. todo' \subseteq Pod
    BY PodLemma DEF ListPods
  <1>2. QED
    BY <1>1 DEF ListPods, TypeOK, apiVars, cacheVars, trackerVars, notifyVars, bounds

LEMMA FetchPodStatusTypes == TypeOK /\ FetchPodStatus => TypeOK'
  <1> SUFFICES ASSUME TypeOK, FetchPodStatus PROVE TypeOK'
    OBVIOUS
  <1>1. PICK p \in todo :
          /\ todo' = todo \ {p}
          /\ tracked' = [pc |-> "fetch", pod |-> p]
          /\ call' = [call EXCEPT ![Tracker] = Read(MapKey[NameOf[p.uid]])]
    BY DEF FetchPodStatus
  <1>2. todo' \subseteq Pod /\ tracked' \in TrackedStates
    BY <1>1, TrackedStatesLemma DEF TypeOK
  <1>3. call' \in [Callers -> CallStates]
    BY <1>1, ReadLemma DEF TypeOK
  <1>4. QED
    BY <1>2, <1>3 DEF FetchPodStatus, TypeOK, apiVars, cacheVars, trackerVars, notifyVars, bounds

LEMMA CompareStatusTypes == TypeOK /\ CompareStatus => TypeOK'
  <1> SUFFICES ASSUME TypeOK, CompareStatus PROVE TypeOK'
    OBVIOUS
  <1>1. tracked' \in TrackedStates
    <2>1. tracked = [pc |-> "fetch", pod |-> tracked.pod] /\ tracked.pod \in Pod
      BY TrackedStatesLemma DEF TypeOK, CompareStatus
    <2>2. tracked' = NoPodTracked \/ tracked' = [tracked EXCEPT !.pc = "copy"]
      BY DEF CompareStatus
    <2>3. [tracked EXCEPT !.pc = "copy"] = [pc |-> "copy", pod |-> tracked.pod]
      BY <2>1
    <2>4. QED BY <2>1, <2>2, <2>3, TrackedStatesLemma
  <1>2. call' \in [Callers -> CallStates]
    <2>1. NoCall \in CallStates
      BY CallStatesLemma DEF NoCall
    <2>2. call' = [call EXCEPT ![Tracker] = NoCall] \/ call' = call
      BY DEF CompareStatus
    <2>3. QED BY <2>1, <2>2 DEF TypeOK
  <1>3. QED
    BY <1>1, <1>2 DEF CompareStatus, TypeOK, apiVars, cacheVars, trackerVars, notifyVars, bounds

LEMMA CopyStatusTypes == TypeOK /\ CopyStatus => TypeOK'
  <1> SUFFICES ASSUME TypeOK, CopyStatus PROVE TypeOK'
    OBVIOUS
  <1>1. PICK st \in Status :
          /\ ReadStatus(Tracker, st)
          /\ tracked' = [pc |-> "notify", pod |-> [tracked.pod EXCEPT !.st = st]]
    BY DEF CopyStatus
  <1>2. tracked.pod \in Pod
    BY TrackedStatesLemma DEF TypeOK, CopyStatus
  <1>3. tracked' \in TrackedStates
    BY <1>1, <1>2, PodLemma, TrackedStatesLemma
  <1>4. call' \in [Callers -> CallStates]
    BY CallStatesLemma DEF TypeOK, CopyStatus, NoCall
  <1>5. races' \in Nat
    BY <1>1 DEF TypeOK, ReadStatus
  <1>6. QED
    BY <1>3, <1>4, <1>5 DEF CopyStatus, TypeOK, apiVars, cacheVars, trackerVars, notifyVars, bounds

LEMMA PodLostTypes == TypeOK /\ PodLost => TypeOK'
  <1> SUFFICES ASSUME TypeOK, PodLost PROVE TypeOK'
    OBVIOUS
  <1>1. tracked.pod \in Pod /\ tracked.pod.st \in Status
    BY TrackedStatesLemma, PodLemma DEF TypeOK, PodLost
  <1>2. [tracked.pod EXCEPT !.st = Lost(tracked.pod.st)] \in Pod
    BY <1>1, PodLemma, StatusLemma
  <1>3. tracked' \in TrackedStates
    BY <1>2, TrackedStatesLemma DEF PodLost
  <1>4. call' \in [Callers -> CallStates]
    BY CallStatesLemma DEF TypeOK, PodLost, NoCall
  <1>5. QED
    BY <1>3, <1>4 DEF PodLost, TypeOK, apiVars, cacheVars, trackerVars, notifyVars, bounds

LEMMA NotifyStatusTypes == TypeOK /\ NotifyStatus => TypeOK'
  <1> SUFFICES ASSUME TypeOK, NotifyStatus PROVE TypeOK'
    OBVIOUS
  <1>1. tracked.pod \in Pod
    BY TrackedStatesLemma DEF TypeOK, NotifyStatus
  <1>2. /\ DOMAIN received' \subseteq Names
        /\ \A n \in DOMAIN received' : received'[n] \in Pod
        /\ dirty' \subseteq Names /\ skipped' \subseteq Names
    BY <1>1, NotifyLemma DEF NotifyStatus
  <1>3. tracked' \in TrackedStates
    BY TrackedStatesLemma DEF NotifyStatus
  <1>4. QED
    BY <1>2, <1>3 DEF NotifyStatus, TypeOK, apiVars, cacheVars, trackerVars, notifyVars, bounds

-----------------------------------------------------------------------------
\* The worker's steps that take a name.
LEMMA TakeTypes ==
    ASSUME TypeOK, NEW n \in Names, Take(n),
           worker' \in [Names -> WorkerStates],
           call' \in [Callers -> CallStates],
           killed' \subseteq Pods
    PROVE  TypeOK'
  BY DEF Take, TypeOK, apiVars, cacheVars, trackerVars, notifyVars, bounds

LEMMA WorkerTakeTypes ==
    ASSUME TypeOK, NEW n \in Names,
           \/ TakeDeleted(n) \/ TakeStopped(n)
           \/ TakeTerminating(n) \/ TakeCompleted(n) \/ TakeLive(n)
    PROVE  TypeOK'
  <1>1. /\ worker \in [Names -> WorkerStates] /\ call \in [Callers -> CallStates]
        /\ killed \subseteq Pods /\ n \in Callers
    BY DEF TypeOK, Callers
  <1>2. [pc |-> "read"] \in CallStates /\ [pc |-> "collect"] \in WorkerStates
    BY CallStatesLemma, WorkerStatesLemma
  <1>3. CASE TakeDeleted(n)
    BY <1>1, <1>2, <1>3, TakeTypes DEF TakeDeleted
  <1>4. CASE TakeStopped(n)
    <2>1. killed' \subseteq Pods
      BY <1>1, <1>4 DEF TakeStopped, Listed
    <2>2. QED BY <1>1, <1>4, <2>1, TakeTypes DEF TakeStopped
  <1>6. CASE TakeTerminating(n)
    <2>1. PICK u \in Pods :
            worker' = [worker EXCEPT ![n] = [pc |-> "remove", gone |-> {u}]]
      BY <1>6 DEF TakeTerminating, Listed
    <2>2. [pc |-> "remove", gone |-> {u}] \in WorkerStates
      BY WorkerStatesLemma
    <2>3. worker' \in [Names -> WorkerStates]
      BY <1>1, <2>1, <2>2
    <2>4. QED BY <1>1, <1>6, <2>3, TakeTypes DEF TakeTerminating
  <1>7. CASE TakeCompleted(n)
    BY <1>1, <1>7, TakeTypes DEF TakeCompleted
  <1>8. CASE TakeLive(n)
    <2>1. PICK u \in Pods :
            worker' = [worker EXCEPT ![n] =
              [pc |-> "create", pod |-> [CacheCopy(u) EXCEPT !.env = u \in EnvPods]]]
      BY <1>8 DEF TakeLive, Listed
    <2>2. [CacheCopy(u) EXCEPT !.env = u \in EnvPods] \in Pod
      <3>1. \A e \in BOOLEAN : [CacheCopy(u) EXCEPT !.env = e] \in Pod
        BY PodLemma DEF Pod
      <3>2. (u \in EnvPods) \in BOOLEAN
        OBVIOUS
      <3>3. QED BY <3>1, <3>2, Zenon
    <2>3. worker' \in [Names -> WorkerStates]
      BY <1>1, <2>1, <2>2, WorkerStatesLemma
    <2>4. call' \in [Callers -> CallStates] /\ killed' = killed
      BY <1>1, <1>2, <1>8 DEF TakeLive
    <2>5. QED BY <1>1, <1>8, <2>3, <2>4, TakeTypes DEF TakeLive
  <1>9. QED BY <1>3, <1>4, <1>6, <1>7, <1>8

\* The worker's steps that finish with a name.
LEMMA FinishTypes ==
    ASSUME TypeOK, NEW n \in Names, Finish(n),
           call' \in [Callers -> CallStates],
           DOMAIN podsMock' \subseteq MapKeys,
           \A key \in DOMAIN podsMock' : podsMock'[key] \in Pod,
           DOMAIN received' \subseteq Names,
           \A m \in DOMAIN received' : received'[m] \in Pod,
           dirty' \subseteq Names, skipped' \subseteq Names,
           killed' \subseteq Pods, races' \in Nat
    PROVE  TypeOK'
  <1>1. worker' \in [Names -> WorkerStates]
    BY WorkerStatesLemma DEF TypeOK, Finish
  <1>2. QED
    BY <1>1 DEF Finish, TypeOK, apiVars, cacheVars, trackerVars, notifyVars, bounds

LEMMA KeepPodTypes ==
    ASSUME TypeOK, NEW n \in Names, KeepPod(n) \/ NothingToCollect(n)
    PROVE  TypeOK'
  <1>1. call' \in [Callers -> CallStates]
    BY CallStatesLemma DEF TypeOK, KeepPod, NothingToCollect, NoCall
  <1>2. QED
    BY <1>1, FinishTypes DEF KeepPod, NothingToCollect, TypeOK, notifyVars

LEMMA CreatePodTypes ==
    ASSUME TypeOK, NEW n \in Names, CreatePod(n)
    PROVE  TypeOK'
  <1>1. worker[n].pod \in Pod /\ MapKey[n] \in MapKeys /\ n \in Callers
    BY WorkerStatesLemma, NameOfAssumption DEF TypeOK, CreatePod, Callers
  <1>2. DOMAIN podsMock' \subseteq MapKeys /\ \A x \in DOMAIN podsMock' : podsMock'[x] \in Pod
    BY <1>1, MapWriteLemma DEF CreatePod
  <1>3. call' \in [Callers -> CallStates]
    BY UnsharedLemma, CallStatesLemma DEF CreatePod, NoCall
  <1>4. QED
    BY <1>2, <1>3, FinishTypes DEF CreatePod, TypeOK, notifyVars

LEMMA UpdatePodTypes ==
    ASSUME TypeOK, NEW n \in Names, UpdatePod(n)
    PROVE  TypeOK'
  <1>1. /\ worker[n] = [pc |-> "create", pod |-> worker[n].pod]
        /\ worker[n].pod \in Pod /\ MapKey[n] \in MapKeys /\ n \in Callers
    BY WorkerStatesLemma, NameOfAssumption DEF TypeOK, UpdatePod, Callers
  <1>2. DOMAIN podsMock' \subseteq MapKeys /\ \A x \in DOMAIN podsMock' : podsMock'[x] \in Pod
    BY <1>1, MapWriteLemma DEF UpdatePod
  <1>3. [pc |-> "found", pod |-> worker[n].pod, shared |-> TRUE] \in CallStates
    BY <1>1, CallStatesLemma
  <1>4. call' \in [Callers -> CallStates]
    BY <1>3, UnsharedLemma DEF UpdatePod
  <1>5. worker' \in [Names -> WorkerStates]
    <2>1. [worker[n] EXCEPT !.pc = "updated"] = [pc |-> "updated", pod |-> worker[n].pod]
      BY <1>1
    <2>2. [worker[n] EXCEPT !.pc = "updated"] \in WorkerStates
      BY <1>1, <2>1, WorkerStatesLemma
    <2>3. QED BY <2>2 DEF UpdatePod, TypeOK
  <1>6. QED
    BY <1>2, <1>4, <1>5 DEF UpdatePod, TypeOK, apiVars, cacheVars, trackerVars, notifyVars, bounds

LEMMA NotifyUpdatedTypes ==
    ASSUME TypeOK, NEW n \in Names, NotifyUpdated(n)
    PROVE  TypeOK'
  <1>1. worker[n].pod \in Pod
    BY WorkerStatesLemma DEF TypeOK, NotifyUpdated
  <1>2. PICK st \in Status : ReadStatus(n, st) /\ Notify([worker[n].pod EXCEPT !.st = st])
    BY DEF NotifyUpdated
  <1>3. /\ DOMAIN received' \subseteq Names
        /\ \A m \in DOMAIN received' : received'[m] \in Pod
        /\ dirty' \subseteq Names /\ skipped' \subseteq Names
    BY <1>1, <1>2, PodLemma, NotifyLemma
  <1>4. races' \in Nat
    BY <1>2 DEF TypeOK, ReadStatus
  <1>5. call' \in [Callers -> CallStates]
    BY CallStatesLemma DEF TypeOK, NotifyUpdated, NoCall
  <1>6. QED
    BY <1>3, <1>4, <1>5, FinishTypes DEF NotifyUpdated, TypeOK

LEMMA CollectTypes ==
    ASSUME TypeOK, NEW n \in Names, Collect(n)
    PROVE  TypeOK'
  <1>1. worker' \in [Names -> WorkerStates]
    BY WorkerStatesLemma DEF TypeOK, Collect
  <1>2. call' \in [Callers -> CallStates]
    BY CallStatesLemma DEF TypeOK, Collect, NoCall
  <1>3. QED
    BY <1>1, <1>2 DEF Collect, TypeOK, apiVars, cacheVars, trackerVars, notifyVars, bounds

LEMMA DeleteMissingTypes ==
    ASSUME TypeOK, NEW n \in Names, DeleteMissing(n)
    PROVE  TypeOK'
  <1>1. killed' \subseteq Pods
    BY WorkerStatesLemma DEF TypeOK, DeleteMissing
  <1>2. QED
    BY <1>1, FinishTypes DEF DeleteMissing, TypeOK, notifyVars

LEMMA DeletePodTypes ==
    ASSUME TypeOK, NEW n \in Names, DeletePod(n)
    PROVE  TypeOK'
  <1>1. worker' \in [Names -> WorkerStates]
    <2>1. /\ worker[n] = [pc |-> "remove", gone |-> worker[n].gone]
          /\ worker[n].gone \in SUBSET Pods
      BY WorkerStatesLemma DEF TypeOK, DeletePod
    <2>2. [worker[n] EXCEPT !.pc = "terminate"] = [pc |-> "terminate", gone |-> worker[n].gone]
      BY <2>1
    <2>3. [worker[n] EXCEPT !.pc = "terminate"] \in WorkerStates
      BY <2>1, <2>2, WorkerStatesLemma
    <2>4. QED BY <2>3 DEF DeletePod, TypeOK
  <1>2. DOMAIN podsMock' \subseteq MapKeys /\ \A x \in DOMAIN podsMock' : podsMock'[x] \in Pod
    BY DEF TypeOK, DeletePod, Without
  <1>3. call' \in [Callers -> CallStates]
    BY UnsharedLemma DEF DeletePod
  <1>4. QED
    BY <1>1, <1>2, <1>3 DEF DeletePod, TypeOK, apiVars, cacheVars, trackerVars, notifyVars, bounds

LEMMA UpdatePodStatusTypes ==
    ASSUME TypeOK, NEW n \in Names, UpdatePodStatus(n)
    PROVE  TypeOK'
  <1>1. killed' \subseteq Pods
    BY WorkerStatesLemma DEF TypeOK, UpdatePodStatus
  <1>2. /\ DOMAIN received' \subseteq Names
        /\ \A m \in DOMAIN received' : received'[m] \in Pod
        /\ dirty' \subseteq Names /\ skipped' \subseteq Names
    <2>1. CASE Listed(n) = {}
      BY <2>1 DEF UpdatePodStatus, TypeOK, notifyVars
    <2>2. CASE Listed(n) # {}
      <3>1. PICK u \in Pods : Notify([CacheCopy(u) EXCEPT !.st = Terminated(seenSt[u])])
        BY <2>2 DEF UpdatePodStatus, Listed
      <3>2. Terminated(seenSt[u]) \in Status
        BY StatusLemma DEF TypeOK
      <3>3. [CacheCopy(u) EXCEPT !.st = Terminated(seenSt[u])] \in Pod
        BY <3>2, PodLemma
      <3>4. QED BY <3>1, <3>3, NotifyLemma
    <2>3. QED BY <2>1, <2>2
  <1>3. QED
    BY <1>1, <1>2, FinishTypes DEF UpdatePodStatus, TypeOK

-----------------------------------------------------------------------------
LEMMA SendStatusTypes ==
    ASSUME TypeOK, NEW n \in Names, SendStatus(n)
    PROVE  TypeOK'
  <1>1. skipped' \subseteq Names /\ dirty' \subseteq Names
    BY DEF TypeOK, SendStatus
  <1>2. apiSt' \in [Pods -> Status]
    <2>1. CASE UNCHANGED <<skipped, apiSt>>
      BY <2>1 DEF TypeOK
    <2>2. CASE \E u \in Listed(n) : n \in DOMAIN received /\ ~IsTerminal(seenSt[u])
      <3>1. received[n] \in Pod
        BY <2>2 DEF TypeOK
      <3>2. received[n].uid \in Pods /\ received[n].st \in Status
        BY <3>1, PodLemma
      <3>3. apiSt' = apiSt \/ apiSt' = [apiSt EXCEPT ![received[n].uid] = received[n].st]
        BY <2>2 DEF SendStatus
      <3>4. QED BY <3>2, <3>3 DEF TypeOK
    <2>3. QED BY <2>1, <2>2 DEF SendStatus
  <1>3. QED
    BY <1>1, <1>2 DEF SendStatus, TypeOK, apiVars, cacheVars, trackerVars, notifyVars, bounds

LEMMA KillPodTypes ==
    ASSUME TypeOK, NEW u \in Pods, KillPod(u)
    PROVE  TypeOK'
  BY DEF KillPod, TypeOK, apiVars, cacheVars, trackerVars, notifyVars, bounds

LEMMA SyncTypes ==
    ASSUME TypeOK, NEW u \in Pods, Sync(u)
    PROVE  TypeOK'
  <1>1. NameOf[u] \in Names
    BY NameOfAssumption
  <1>2. CASE SyncAdded(u)
    BY <1>1, <1>2 DEF SyncAdded, TypeOK, apiVars, cacheVars, trackerVars, notifyVars, bounds
  <1>3. CASE SyncUpdated(u)
    BY <1>1, <1>3 DEF SyncUpdated, TypeOK, apiVars, cacheVars, trackerVars, notifyVars, bounds
  <1>4. CASE SyncDeleted(u)
    <2>1. DOMAIN received' \subseteq Names
          /\ \A n \in DOMAIN received' : received'[n] \in Pod
      BY <1>4 DEF TypeOK, SyncDeleted, Without
    <2>2. seenSt' \in [Pods -> Status]
      BY <1>4, StatusLemma DEF TypeOK, SyncDeleted
    <2>3. QED
      BY <1>1, <1>4, <2>1, <2>2 DEF SyncDeleted, TypeOK, apiVars, cacheVars, trackerVars, notifyVars, bounds
  <1>5. QED BY <1>2, <1>3, <1>4 DEF Sync

LEMMA ClientTypes ==
    ASSUME TypeOK, NEW u \in Pods, CreateApiPod(u) \/ DeleteApiPod(u) \/ FallDue(u)
    PROVE  TypeOK'
  <1>1. CASE CreateApiPod(u)
    BY <1>1 DEF CreateApiPod, kubeletVars, TypeOK, apiVars, cacheVars, trackerVars, notifyVars, bounds
  <1>2. CASE DeleteApiPod(u)
    BY <1>2 DEF DeleteApiPod, kubeletVars, TypeOK, apiVars, cacheVars, trackerVars, notifyVars, bounds
  <1>3. CASE FallDue(u)
    BY <1>3 DEF FallDue, kubeletVars, TypeOK, apiVars, cacheVars, trackerVars, notifyVars, bounds
  <1>4. QED BY <1>1, <1>2, <1>3

LEMMA RestartTypes == TypeOK /\ Restart => TypeOK'
  <1> SUFFICES ASSUME TypeOK, Restart PROVE TypeOK'
    OBVIOUS
  <1>1. /\ seenSt' \in [Pods -> Status] /\ call' \in [Callers -> CallStates]
        /\ tracked' \in TrackedStates /\ worker' \in [Names -> WorkerStates]
    BY StatusLemma, CallStatesLemma, TrackedStatesLemma, WorkerStatesLemma
    DEF Restart, NoCall
  <1>2. DOMAIN podsMock' = {} /\ DOMAIN received' = {}
    BY DEF Restart, EmptyMap
  <1>3. restarts' \in Nat
    BY DEF Restart, TypeOK
  <1>4. QED
    BY <1>1, <1>2, <1>3 DEF Restart, TypeOK, apiVars, cacheVars, trackerVars, notifyVars, bounds

\* No step leaves the types.
LEMMA NextTypes ==
    ASSUME TypeOK, DueInPlan, TrackerCalls, Next
    PROVE  TypeOK'
  <1>1. Tracker \in Callers /\ Names \subseteq Callers
    BY DEF Callers
  <1>2. CASE TrackerStep
    BY <1>1, <1>2, ListPodsTypes, FetchPodStatusTypes, GetPodListTypes,
       GetPodWriteTypes, CompareStatusTypes, CopyStatusTypes, PodLostTypes,
       NotifyStatusTypes DEF TrackerStep
  <1>3. CASE \E key \in MapKeys : PatchPodStatus(key)
    BY <1>3, PatchPodStatusTypes
  <1>4. ASSUME NEW n \in Names, WorkerStep(n)
        PROVE  TypeOK'
    <2>1. n \in Callers
      BY <1>1
    <2>2. CASE GetPodRead(n) \/ GetPodList(n) \/ GetPodWrite(n)
      BY <2>1, <2>2, GetPodReadTypes, GetPodListTypes, GetPodWriteTypes
    <2>3. CASE \/ KeepPod(n) \/ CreatePod(n) \/ UpdatePod(n) \/ NotifyUpdated(n)
               \/ NothingToCollect(n) \/ Collect(n) \/ DeleteMissing(n)
               \/ DeletePod(n) \/ UpdatePodStatus(n)
      BY <2>3, KeepPodTypes, CreatePodTypes, UpdatePodTypes, NotifyUpdatedTypes,
         CollectTypes, DeleteMissingTypes, DeletePodTypes, UpdatePodStatusTypes
    <2>4. CASE \/ TakeDeleted(n) \/ TakeStopped(n)
               \/ TakeTerminating(n) \/ TakeCompleted(n) \/ TakeLive(n)
      BY <2>4, WorkerTakeTypes
    <2>5. QED BY <1>4, <2>2, <2>3, <2>4 DEF WorkerStep
  <1>5. CASE \E n \in Names : SendStatus(n)
    BY <1>5, SendStatusTypes
  <1>6. CASE \E u \in Pods : \/ KillPod(u) \/ Sync(u) \/ CreateApiPod(u)
                             \/ DeleteApiPod(u) \/ FallDue(u)
    BY <1>6, KillPodTypes, SyncTypes, ClientTypes
  <1>7. CASE Restart
    BY <1>7, RestartTypes
  <1>8. QED BY <1>2, <1>3, <1>4, <1>5, <1>6, <1>7 DEF Next

-----------------------------------------------------------------------------
(***************************************************************************)
(* The rest of the invariant                                               *)
(***************************************************************************)

Rest ==
    /\ TrackerCalls /\ CacheBehind /\ ListedStillSeen
    /\ MissingIsGoing /\ NoSpuriousFailure

LEMMA DueStep ==
    ASSUME TypeOK, DueInPlan, [Next]_vars
    PROVE  DueInPlan'
  <1>1. CASE UNCHANGED due
    BY <1>1 DEF DueInPlan
  <1>2. CASE \E u \in Pods : FallDue(u)
    <2>1. PICK u \in Pods : due[u] < Len(Plan[u]) /\ due' = [due EXCEPT ![u] = @ + 1]
      BY <1>2 DEF FallDue
    <2>2. \A v \in Pods : due[v] \in Nat /\ Len(Plan[v]) \in Nat
      BY PlanAssumption DEF TypeOK
    <2>3. QED BY <2>1, <2>2 DEF DueInPlan, TypeOK
  <1>3. UNCHANGED due \/ \E u \in Pods : FallDue(u)
    BY DEF Next, vars, TrackerStep, ListPods, FetchPodStatus, GetPodList, GetPodWrite,
       CompareStatus, CopyStatus, PodLost, NotifyStatus, PatchPodStatus, WorkerStep,
       Take, TakeDeleted, TakeStopped, TakeTerminating, TakeCompleted,
       TakeLive, GetPodRead, KeepPod, CreatePod, UpdatePod, NotifyUpdated,
       NothingToCollect, Collect, DeleteMissing, DeletePod, UpdatePodStatus, Finish,
       SendStatus, KillPod, Sync, SyncAdded, SyncUpdated, SyncDeleted, CreateApiPod,
       DeleteApiPod, Restart, apiVars
  <1>4. QED BY <1>1, <1>2, <1>3

\* A step that leaves alone the API server, the cache and the tracker's pod,
\* and does not change where the tracker's call is.
LEMMA FrameLemma ==
    ASSUME Rest, UNCHANGED <<life, seen, todo, tracked>>,
           call'[Tracker].pc = call[Tracker].pc
    PROVE  Rest'
  BY DEF Rest, TrackerCalls, CacheBehind, ListedStillSeen, StillSeen,
     MissingIsGoing, Going, NoSpuriousFailure

\* The workers' and the mock tracker's steps are such steps.
LEMMA WorkerFrame ==
    ASSUME TypeOK, DueInPlan, Rest, NEW n \in Names, WorkerStep(n)
    PROVE  Rest'
  <1>1. n \in Callers /\ n # Tracker /\ Tracker \in Callers
    BY NamesAssumption DEF Callers
  <1>2. UNCHANGED <<life, seen, todo, tracked>>
    BY DEF WorkerStep, Take, TakeDeleted, TakeStopped, TakeTerminating,
       TakeCompleted, TakeLive, GetPodRead, GetPodList, GetPodWrite, KeepPod,
       CreatePod, UpdatePod, NotifyUpdated, NothingToCollect, Collect,
       DeleteMissing, DeletePod, UpdatePodStatus, Finish, apiVars, cacheVars,
       trackerVars
  <1>3. call \in [Callers -> CallStates]
    BY DEF TypeOK
  <1>4. \/ UNCHANGED call
        \/ \E v : call' = [call EXCEPT ![n] = v]
        \/ call' = Unshared(MapKey[n])
        \/ \E key, v : call' = [Unshared(key) EXCEPT ![n] = v]
    BY DEF WorkerStep, Take, TakeDeleted, TakeStopped, TakeTerminating,
       TakeCompleted, TakeLive, GetPodRead, GetPodList, GetPodWrite, KeepPod,
       CreatePod, UpdatePod, NotifyUpdated, NothingToCollect, Collect,
       DeleteMissing, DeletePod, UpdatePodStatus, Finish
  <1>5. call'[Tracker].pc = call[Tracker].pc
    BY <1>1, <1>3, <1>4, UnsharedLemma
  <1>6. QED BY <1>2, <1>5, FrameLemma

-----------------------------------------------------------------------------
(***************************************************************************)
(* The tracker's steps                                                     *)
(***************************************************************************)

LEMMA TrackerRest ==
    ASSUME TypeOK, Rest, TrackerStep
    PROVE  Rest'
  <1>1. /\ call \in [Callers -> CallStates] /\ Tracker \in Callers
        /\ tracked \in TrackedStates
    BY DEF TypeOK, Callers
  <1>2. UNCHANGED <<life, seen>>
    BY DEF TrackerStep, ListPods, FetchPodStatus, GetPodList, GetPodWrite,
       CompareStatus, CopyStatus, PodLost, NotifyStatus, apiVars, cacheVars
  <1>3. CacheBehind'
    BY <1>2 DEF Rest, CacheBehind
  <1>4. CASE ListPods
    <2>1. UNCHANGED <<call, tracked>> /\ tracked.pc = "idle"
      BY <1>4 DEF ListPods
    <2>2. ASSUME NEW p \in todo' PROVE StillSeen(p.uid)
      <3>1. PICK u \in Pods : p = CacheCopy(u) /\ seen[u] # "absent" /\ ~ShouldSkip(p)
        BY <1>4 DEF ListPods
      <3>2. p.uid = u /\ seen[u] # "deleting"
        BY <3>1 DEF CacheCopy, ShouldSkip
      <3>3. seen[u] = "live" /\ life[u] # "unborn"
        BY <3>1, <3>2 DEF Rest, CacheBehind, TypeOK
      <3>4. QED BY <3>2, <3>3 DEF StillSeen
    <2>3. ListedStillSeen'
      BY <1>2, <2>1, <2>2 DEF ListedStillSeen, StillSeen
    <2>4. QED
      BY <1>2, <1>3, <2>1, <2>3 DEF Rest, TrackerCalls, MissingIsGoing, Going,
         NoSpuriousFailure
  <1>5. CASE FetchPodStatus
    <2>1. PICK p \in todo :
            /\ todo' = todo \ {p}
            /\ tracked' = [pc |-> "fetch", pod |-> p]
            /\ call' = [call EXCEPT ![Tracker] = Read(MapKey[NameOf[p.uid]])]
      BY <1>5 DEF FetchPodStatus
    <2>2. call'[Tracker].pc \in {"found", "list"}
      BY <1>1, <2>1, ReadLemma
    <2>3. ListedStillSeen'
      BY <1>2, <2>1 DEF Rest, ListedStillSeen, StillSeen
    <2>4. QED
      BY <1>3, <2>1, <2>2, <2>3 DEF Rest, TrackerCalls, MissingIsGoing,
         NoSpuriousFailure
  <1>6. CASE GetPodList(Tracker)
    <2>1. UNCHANGED <<todo, tracked>> /\ call[Tracker].pc = "list"
      BY <1>6 DEF GetPodList, trackerVars
    <2>2. tracked.pc \in {"fetch", "copy"}
      BY <2>1 DEF Rest, TrackerCalls
    <2>3. tracked.pod.uid \in Pods /\ StillSeen(tracked.pod.uid)
      BY <1>1, <2>2, TrackedStatesLemma, PodLemma DEF Rest, ListedStillSeen
    <2>4. MissingIsGoing'
      <3> SUFFICES ASSUME call'[Tracker].pc = "missing"
                   PROVE  Going(tracked.pod.uid)
        BY <1>2, <2>1 DEF MissingIsGoing, Going
      <3> DEFINE Live == {u \in Listed(NameOfCaller(Tracker)) : seen[u] = "live"}
      <3>1. Live = {}
        BY <1>1, <1>6 DEF GetPodList
      <3>2. tracked.pod.uid \notin Live
        BY <3>1
      <3>3. seen[tracked.pod.uid] # "live"
        BY <2>3, <3>2 DEF Listed, NameOfCaller
      <3>4. life[tracked.pod.uid] \in {"unborn", "live", "deleting", "gone"}
        BY <2>3 DEF TypeOK
      <3>5. QED BY <2>3, <3>3, <3>4 DEF StillSeen, Going
    <2>5. QED
      BY <1>2, <1>3, <2>1, <2>2, <2>4 DEF Rest, TrackerCalls, ListedStillSeen,
         StillSeen, NoSpuriousFailure
  <1>7. CASE GetPodWrite(Tracker)
    <2>1. UNCHANGED <<todo, tracked>> /\ call[Tracker].pc = "write"
      BY <1>7 DEF GetPodWrite, trackerVars
    <2>2. call'[Tracker].pc = "found"
      BY <1>1, <1>7, UnsharedLemma DEF GetPodWrite
    <2>3. QED
      BY <1>2, <1>3, <2>1, <2>2 DEF Rest, TrackerCalls, ListedStillSeen, StillSeen,
         MissingIsGoing, NoSpuriousFailure
  <1>8. CASE CompareStatus \/ CopyStatus
    <2>1. /\ UNCHANGED todo
          /\ tracked.pc \in {"fetch", "copy"}
          /\ \/ tracked'.pc \in {"idle", "notify"} /\ call'[Tracker].pc = "none"
             \/ tracked'.pc = "copy" /\ call'[Tracker].pc = "found"
          /\ tracked'.pc # "idle" => tracked'.pod.uid = tracked.pod.uid
      <3>1. CASE CompareStatus
        <4>1. tracked = [pc |-> "fetch", pod |-> tracked.pod]
          BY <1>1, <3>1, TrackedStatesLemma DEF CompareStatus
        <4>2. [tracked EXCEPT !.pc = "copy"] = [pc |-> "copy", pod |-> tracked.pod]
          BY <4>1
        <4>3. QED BY <1>1, <3>1, <4>2 DEF CompareStatus, NoPodTracked, NoCall
      <3>2. CASE CopyStatus
        <4>1. tracked.pod \in Pod
          BY <1>1, <3>2, TrackedStatesLemma DEF CopyStatus
        <4>2. PICK st \in Status :
                tracked' = [pc |-> "notify", pod |-> [tracked.pod EXCEPT !.st = st]]
          BY <3>2 DEF CopyStatus
        <4>3. tracked'.pod.uid = tracked.pod.uid
          BY <4>1, <4>2, PodLemma
        <4>4. QED BY <1>1, <3>2, <4>2, <4>3 DEF CopyStatus, NoCall
      <3>3. QED BY <1>8, <3>1, <3>2
    <2>2. ListedStillSeen'
      BY <1>2, <2>1 DEF Rest, ListedStillSeen, StillSeen
    <2>3. QED
      BY <1>3, <2>1, <2>2 DEF Rest, TrackerCalls, MissingIsGoing, NoSpuriousFailure
  <1>9. CASE PodLost
    <2>1. /\ UNCHANGED todo /\ tracked.pc = "fetch" /\ call[Tracker].pc = "missing"
          /\ call'[Tracker].pc = "none"
          /\ \/ tracked' = NoPodTracked
             \/ tracked' = [pc |-> "lost",
                            pod |-> [tracked.pod EXCEPT !.st = Lost(tracked.pod.st)]]
      BY <1>1, <1>9 DEF PodLost, NoCall
    <2>2. tracked.pod \in Pod /\ Lost(tracked.pod.st) \in Status
      BY <1>1, <2>1, TrackedStatesLemma, PodLemma, StatusLemma
    <2> DEFINE q == [tracked.pod EXCEPT !.st = Lost(tracked.pod.st)]
    <2>3. tracked'.pc # "idle" => tracked'.pod.uid = tracked.pod.uid
      <3>1. q.uid = tracked.pod.uid
        BY <2>2, PodLemma
      <3>2. tracked' = NoPodTracked \/ tracked' = [pc |-> "lost", pod |-> q]
        BY <2>1
      <3> HIDE DEF q
      <3>3. QED BY <3>1, <3>2 DEF NoPodTracked
    <2>4. Going(tracked.pod.uid)
      BY <2>1 DEF Rest, MissingIsGoing
    <2>5. tracked'.pc \in {"idle", "lost"}
      BY <2>1 DEF NoPodTracked
    <2>6. QED
      BY <1>2, <1>3, <2>1, <2>3, <2>4, <2>5 DEF Rest, TrackerCalls,
         ListedStillSeen, StillSeen, MissingIsGoing, Going, NoSpuriousFailure
  <1>10. CASE NotifyStatus
    <2>1. UNCHANGED <<todo, call>> /\ tracked'.pc = "idle" /\ call[Tracker].pc = "none"
      BY <1>10 DEF NotifyStatus, NoPodTracked, Rest, TrackerCalls
    <2>2. QED
      BY <1>2, <1>3, <2>1 DEF Rest, TrackerCalls, ListedStillSeen, StillSeen,
         MissingIsGoing, NoSpuriousFailure
  <1>11. QED
    BY <1>4, <1>5, <1>6, <1>7, <1>8, <1>9, <1>10 DEF TrackerStep

-----------------------------------------------------------------------------
(***************************************************************************)
(* Theorems                                                                *)
(***************************************************************************)

\* A life goes on from unborn to live, deleting and gone, and the cache
\* follows, so that what was going stays so and what is live is still seen.
LEMMA LifeLemma ==
    ASSUME TypeOK, Rest, UNCHANGED <<todo, tracked, call>>,
           \A u \in Pods : \/ life'[u] = life[u]
                           \/ life[u] = "unborn" /\ life'[u] = "live" /\ seen[u] = "absent"
                           \/ Going(u)',
           \A u \in Pods : \/ seen'[u] = seen[u]
                           \/ seen'[u] = life[u] /\ life[u] \in {"live", "deleting"}
                              /\ life' = life
                           \/ seen'[u] = "absent" /\ life[u] = "gone" /\ life' = life,
           \A u \in Pods : life[u] # "unborn" => life'[u] # "unborn",
           \A u \in Pods : Going(u) => Going(u)'
    PROVE  Rest'
  <1>1. CacheBehind'
    BY DEF Rest, CacheBehind, Going
  <1>2. ASSUME NEW u \in Pods, StillSeen(u) PROVE StillSeen(u)'
    BY <1>2 DEF StillSeen, Going
  <1>3. /\ \A p \in todo : p.uid \in Pods
        /\ tracked.pc # "idle" => tracked.pod.uid \in Pods
    BY TrackedStatesLemma, PodLemma DEF TypeOK
  <1>4. ListedStillSeen'
    <2>1. \A p \in todo : StillSeen(p.uid)'
      BY <1>2, <1>3 DEF Rest, ListedStillSeen
    <2>2. tracked.pc # "idle" => StillSeen(tracked.pod.uid)'
      BY <1>2, <1>3 DEF Rest, ListedStillSeen
    <2>3. QED BY <2>1, <2>2 DEF ListedStillSeen
  <1>5. MissingIsGoing'
    BY <1>3 DEF Rest, MissingIsGoing, TrackerCalls
  <1>6. NoSpuriousFailure'
    BY <1>3 DEF Rest, NoSpuriousFailure, Going
  <1>7. QED BY <1>1, <1>4, <1>5, <1>6 DEF Rest, TrackerCalls

LEMMA RestStep ==
    ASSUME TypeOK, DueInPlan, Rest, Next
    PROVE  Rest'
  <1>1. CASE TrackerStep
    BY <1>1, TrackerRest
  <1>2. CASE \E key \in MapKeys : PatchPodStatus(key)
    <2>1. PICK key \in MapKeys : PatchPodStatus(key)
      BY <1>2
    <2>2. call'[Tracker].pc = call[Tracker].pc
      BY <2>1, PatchPodStatusTypes DEF Callers
    <2>3. UNCHANGED <<life, seen, todo, tracked>>
      BY <2>1 DEF PatchPodStatus, apiVars, cacheVars, trackerVars
    <2>4. QED BY <2>2, <2>3, FrameLemma
  <1>3. CASE \E n \in Names : WorkerStep(n)
    BY <1>3, WorkerFrame
  <1>4. CASE \E n \in Names : SendStatus(n)
    <2>1. UNCHANGED <<life, seen, todo, tracked, call>>
      BY <1>4 DEF SendStatus, cacheVars, trackerVars
    <2>2. QED BY <2>1, FrameLemma
  <1>5. ASSUME NEW v \in Pods,
               \/ KillPod(v) \/ Sync(v) \/ CreateApiPod(v) \/ DeleteApiPod(v) \/ FallDue(v)
        PROVE  Rest'
    <2>1. UNCHANGED <<todo, tracked, call>>
      BY <1>5 DEF KillPod, Sync, SyncAdded, SyncUpdated, SyncDeleted, CreateApiPod,
         DeleteApiPod, FallDue, kubeletVars, trackerVars
    <2>2. CASE KillPod(v)
      <3>1. UNCHANGED seen /\ (life' = life \/ life' = [life EXCEPT ![v] = "gone"])
        BY <2>2 DEF KillPod, cacheVars
      <3>2. QED BY <2>1, <3>1, LifeLemma DEF Going, TypeOK
    <2>3. CASE Sync(v)
      <3>1. UNCHANGED life
        BY <2>3 DEF Sync, SyncAdded, SyncUpdated, SyncDeleted, apiVars
      <3>2. \/ seen' = [seen EXCEPT ![v] = life[v]] /\ life[v] \in {"live", "deleting"}
            \/ seen' = [seen EXCEPT ![v] = "absent"] /\ life[v] = "gone"
        BY <2>3 DEF Sync, SyncAdded, SyncUpdated, SyncDeleted
      <3>3. QED BY <2>1, <3>1, <3>2, LifeLemma DEF Going, TypeOK
    <2>4. CASE CreateApiPod(v)
      <3>1. UNCHANGED seen /\ life[v] = "unborn" /\ life' = [life EXCEPT ![v] = "live"]
        BY <2>4 DEF CreateApiPod, kubeletVars, cacheVars
      <3>2. seen[v] = "absent"
        BY <3>1 DEF Rest, CacheBehind
      <3>3. QED BY <2>1, <3>1, <3>2, LifeLemma DEF Going, TypeOK
    <2>5. CASE DeleteApiPod(v)
      <3>1. /\ UNCHANGED seen
            /\ life' = [life EXCEPT ![v] = "gone"] \/ life' = [life EXCEPT ![v] = "deleting"]
        BY <2>5 DEF DeleteApiPod, kubeletVars, cacheVars
      <3>2. QED BY <2>1, <3>1, LifeLemma DEF Going, TypeOK
    <2>6. CASE FallDue(v)
      <3>1. UNCHANGED <<life, seen, todo, tracked, call>>
        BY <2>6 DEF FallDue, kubeletVars, cacheVars, trackerVars
      <3>2. QED BY <3>1, FrameLemma
    <2>7. QED BY <1>5, <2>2, <2>3, <2>4, <2>5, <2>6
  <1>6. CASE Restart
    <2>1. /\ life' = life /\ todo' = {} /\ tracked'.pc = "idle" /\ call'[Tracker].pc = "none"
          /\ \A u \in Pods : seen'[u] = "absent"
      BY <1>6 DEF Restart, NoPodTracked, NoCall, Callers, apiVars
    <2>2. QED
      BY <2>1 DEF Rest, TrackerCalls, CacheBehind, ListedStillSeen, MissingIsGoing,
         NoSpuriousFailure
  <1>7. QED BY <1>1, <1>2, <1>3, <1>4, <1>5, <1>6 DEF Next

LEMMA StutterStep == IInv /\ UNCHANGED vars => IInv'
  <1> SUFFICES ASSUME IInv, UNCHANGED vars PROVE IInv'
    OBVIOUS
  <1>1. TypeOK'
    BY DEF IInv, TypeOK, vars
  <1>2. DueInPlan'
    BY DEF IInv, DueInPlan, vars
  <1>3. Rest'
    BY FrameLemma DEF IInv, Rest, vars
  <1>4. QED BY <1>1, <1>2, <1>3 DEF IInv, Rest

\* The invariant holds through every interleaving of the tracker, the workers,
\* the informer and the clients, and through restarts and reused names.
THEOREM Invariance == Spec => []IInv
  <1>1. IInv /\ [Next]_vars => IInv'
    <2> SUFFICES ASSUME IInv, [Next]_vars PROVE IInv'
      OBVIOUS
    <2>1. CASE Next
      <3>1. TypeOK /\ DueInPlan /\ TrackerCalls /\ Rest
        BY DEF IInv, Rest
      <3>2. TypeOK' /\ DueInPlan' /\ Rest'
        BY <2>1, <3>1, NextTypes, DueStep, RestStep
      <3>3. QED BY <3>2 DEF IInv, Rest
    <2>2. CASE UNCHANGED vars
      BY <2>2, StutterStep
    <2>3. QED BY <2>1, <2>2
  <1>2. QED BY <1>1, InitTypes, PTL DEF Spec

\* The map, the calls, the trackers and the workers only ever hold pods of the
\* API server, under keys and names that exist.
THEOREM TypeCorrectness == Spec => []TypeOK
  <1>1. IInv => TypeOK
    BY DEF IInv
  <1>2. QED BY <1>1, Invariance, PTL

\* pods_tracker.go:199-222 fails a pod as lost by the provider only if its
\* deletion was asked for.
THEOREM NoSpuriousFailureTheorem == Spec => []NoSpuriousFailure
  <1>1. IInv => NoSpuriousFailure
    BY DEF IInv
  <1>2. QED BY <1>1, Invariance, PTL
=============================================================================

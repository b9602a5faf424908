--------------------------- MODULE PodLifeProofs ---------------------------
(***************************************************************************)
(* What those who watch the pods of MockProvider may rely on, for any      *)
(* number of pods and names, any schedules, restarts, races and collisions *)
(* of map keys, proved: no status is shown before it has fallen due, a     *)
(* live pod is simulated once its worker is done, and every step of the    *)
(* kubelet is a step of PodLife.                                           *)
(***************************************************************************)
EXTENDS MockProviderProofs

-----------------------------------------------------------------------------
(***************************************************************************)
(* What a status may show                                                  *)
(***************************************************************************)

Born(u) == life[u] # "unborn"

\* A pod that was created and has the pod's key in the map.
Namesake(v, u) == KeyOf(v) = KeyOf(u) /\ Born(v)

\* The phase, or the Desired condition, of a status has fallen due, for the
\* pod or for another one that was taken for it.
PhaseDue(u, st) == \E v \in Pods : Namesake(v, u) /\ \E a \in Allowed(v) : st.phase = a.phase

DesiredDue(u, st) == \E v \in Pods : Namesake(v, u) /\ \E b \in Allowed(v) : st.desired = b.desired

Shows(u, st) == Born(u) /\ DesiredDue(u, st) /\ PhaseDue(u, st)

\* The same, or the provider lost the pod.
ShowsOrLost(u, st) ==
    /\ Born(u) /\ DesiredDue(u, st)
    /\ \/ PhaseDue(u, st)
       \/ Going(u) /\ st.phase = "Failed"

LEMMA NewShows == ASSUME NEW u \in Pods, Born(u) PROVE Shows(u, NewStatus)
  BY DEF Shows, DesiredDue, PhaseDue, Namesake, Allowed

\* The status that the schedule sets now has fallen due.
LEMMA NowShows ==
    ASSUME TypeOK, DueInPlan, NEW u \in Pods, Born(u), HasNowStatus(u)
    PROVE  Shows(u, NowStatus(u))
  <1>1. NowStatus(u) \in Allowed(u)
    <2>1. CASE Plan[u] = <<>>
      BY <2>1 DEF NowStatus, Allowed
    <2>2. CASE Plan[u] # <<>>
      <3>1. due[u] \in Nat /\ due[u] > 0
        BY <2>2 DEF HasNowStatus, TypeOK
      <3>2. due[u] \in 1..due[u]
        BY <3>1
      <3>3. NowStatus(u) = CreateStatus(Plan[u][due[u]])
        BY <2>2 DEF NowStatus
      <3>4. QED BY <3>2, <3>3 DEF Allowed
    <2>3. QED BY <2>1, <2>2
  <1>2. QED BY <1>1 DEF Shows, DesiredDue, PhaseDue, Namesake

\* A status of which each field is one of two others' shows no more than they.
LEMMA TornShows ==
    ASSUME NEW u, NEW old, NEW new, Shows(u, old), Shows(u, new), NEW st \in Torn(old, new)
    PROVE  Shows(u, st)
  BY DEF Shows, DesiredDue, PhaseDue, Torn

\* A status that shows no more of a pod than has fallen due shows no more of
\* another one with the same key.
LEMMA NamesakeShows ==
    ASSUME NEW u, NEW v, NEW st, KeyOf(u) = KeyOf(v), Born(v), Shows(u, st)
    PROVE  Shows(v, st)
  BY DEF Shows, DesiredDue, PhaseDue, Namesake

LEMMA ShowsLemma ==
    ASSUME NEW u, NEW st
    PROVE  /\ Shows(u, st) => Born(u) /\ ShowsOrLost(u, st)
           /\ ShowsOrLost(u, st) /\ ~Going(u) => Shows(u, st)
           /\ ShowsOrLost(u, st) => Born(u)
  BY DEF Shows, ShowsOrLost

\* The containers of a status terminated, or the pod lost.
LEMMA TerminatedShows ==
    ASSUME NEW u, NEW st \in Status
    PROVE  /\ ShowsOrLost(u, st) => ShowsOrLost(u, Terminated(st))
           /\ Shows(u, st) /\ Going(u) => ShowsOrLost(u, Lost(st))
  <1>1. /\ Terminated(st).phase = st.phase /\ Terminated(st).desired = st.desired
        /\ Lost(st).phase = "Failed" /\ Lost(st).desired = st.desired
    BY DEF Terminated, Lost, Status
  <1>2. QED BY <1>1 DEF Shows, ShowsOrLost, PhaseDue, DesiredDue

\* Lives go on and time passes: what a status may show only grows.
LEMMA GrowsLemma ==
    ASSUME TypeOK, TypeOK',
           \A v \in Pods : /\ Born(v) => Born(v)'
                           /\ Going(v) => Going(v)'
                           /\ due[v] <= due'[v]
    PROVE  \A u \in Pods : \A st : /\ Shows(u, st) => Shows(u, st)'
                                   /\ ShowsOrLost(u, st) => ShowsOrLost(u, st)'
  <1>1. ASSUME NEW v \in Pods, NEW a \in Allowed(v) PROVE a \in Allowed(v)'
    <2>1. due[v] \in Nat /\ due'[v] \in Nat /\ due[v] <= due'[v]
      BY DEF TypeOK
    <2>2. \A i \in 1..due[v] : i \in 1..due'[v]
      BY <2>1
    <2>3. QED BY <2>2 DEF Allowed
  <1>2. ASSUME NEW u \in Pods, NEW v \in Pods, Namesake(v, u) PROVE Namesake(v, u)'
    BY <1>2 DEF Namesake, KeyOf
  <1>3. ASSUME NEW u \in Pods, NEW st
        PROVE  /\ PhaseDue(u, st) => PhaseDue(u, st)'
               /\ DesiredDue(u, st) => DesiredDue(u, st)'
    BY <1>1, <1>2 DEF PhaseDue, DesiredDue
  <1>4. QED BY <1>3 DEF Shows, ShowsOrLost

\* A step that leaves lives and time alone changes nothing about it.
LEMMA SameLemma ==
    ASSUME UNCHANGED <<life, due>>
    PROVE  /\ \A u : (Born(u)' <=> Born(u)) /\ (Going(u)' <=> Going(u))
           /\ \A u, st : /\ Shows(u, st)' <=> Shows(u, st)
                         /\ ShowsOrLost(u, st)' <=> ShowsOrLost(u, st)
  BY DEF Shows, ShowsOrLost, PhaseDue, DesiredDue, Namesake, KeyOf, Born, Going, Allowed

\* What the copy of a pod with another status has.
LEMMA PodFields ==
    ASSUME NEW p \in Pod, NEW st
    PROVE  [p EXCEPT !.st = st].uid = p.uid /\ [p EXCEPT !.st = st].st = st
  BY DEF Pod

LEMMA CacheCopyFields ==
    ASSUME NEW u, NEW e
    PROVE  /\ CacheCopy(u).uid = u /\ CacheCopy(u).st = seenSt[u]
           /\ [CacheCopy(u) EXCEPT !.env = e].uid = u
           /\ [CacheCopy(u) EXCEPT !.env = e].st = seenSt[u]
  BY DEF CacheCopy

-----------------------------------------------------------------------------
(***************************************************************************)
(* The inductive invariant: wherever a status of a pod is held, on its way *)
(* from the map to the API server, to the cache and back into the map, it  *)
(* shows no more than has fallen due.                                      *)
(***************************************************************************)

ApiShows == \A u \in Pods : apiSt[u] = NewStatus \/ ShowsOrLost(u, apiSt[u])

CacheShows ==
    \A u \in Pods : /\ seen[u] # "absent" => ShowsOrLost(u, seenSt[u])
                    /\ seen[u] = "live" => Shows(u, seenSt[u])

\* A pod of the map is under the key of its name.
MapShows ==
    \A key \in DOMAIN podsMock :
        KeyOf(podsMock[key].uid) = key /\ Shows(podsMock[key].uid, podsMock[key].st)

\* A caller of GetPod gets a pod with the key of the name it asked for.
CallsShow ==
    \A c \in Callers : call[c].pc \in {"write", "found"} =>
        KeyOf(call[c].pod.uid) = KeyOfCaller(c) /\ Shows(call[c].pod.uid, call[c].pod.st)

TodoShows == \A p \in todo : Shows(p.uid, p.st)

TrackedShows ==
    /\ tracked.pc \in {"fetch", "copy", "notify"} => Shows(tracked.pod.uid, tracked.pod.st)
    /\ tracked.pc = "lost" => ShowsOrLost(tracked.pod.uid, tracked.pod.st)

WorkersShow ==
    \A n \in Names : worker[n].pc \in {"create", "updated"} =>
        NameOf[worker[n].pod.uid] = n /\ Shows(worker[n].pod.uid, worker[n].pod.st)

ReceivedShows ==
    \A n \in DOMAIN received :
        NameOf[received[n].uid] = n /\ ShowsOrLost(received[n].uid, received[n].st)

\* Who copies a status has found a pod.
CopierFound ==
    /\ \A n \in Names : worker[n].pc = "updated" => call[n].pc = "found"
    /\ tracked.pc = "copy" => call[Tracker].pc = "found"

ShowInv ==
    /\ ApiShows /\ CacheShows /\ MapShows /\ CallsShow /\ TodoShows
    /\ TrackedShows /\ WorkersShow /\ ReceivedShows /\ CopierFound

-----------------------------------------------------------------------------
(***************************************************************************)
(* Which steps change what                                                 *)
(***************************************************************************)

\* Only the clients, the kubelet's removals and time change lives and times,
\* and they change nothing that holds a status.
holders == <<apiSt, seen, seenSt, podsMock, call, todo, tracked, worker, received>>

ClientStep == \E u \in Pods : KillPod(u) \/ CreateApiPod(u) \/ DeleteApiPod(u) \/ FallDue(u)

LEMMA ClientStepHolders ==
    ASSUME ClientStep
    PROVE  UNCHANGED holders
  BY DEF ClientStep, KillPod, CreateApiPod, DeleteApiPod, FallDue, holders, kubeletVars,
     cacheVars, trackerVars, notifyVars

KubeletStep ==
    \/ TrackerStep
    \/ \E key \in MapKeys : PatchPodStatus(key)
    \/ \E n \in Names : WorkerStep(n) \/ SendStatus(n)
    \/ \E u \in Pods : Sync(u)
    \/ Restart

LEMMA NextSplit == Next => ClientStep \/ KubeletStep
  BY DEF Next, ClientStep, KubeletStep

LEMMA WhoChanges ==
    ASSUME KubeletStep
    PROVE  /\ UNCHANGED <<life, due>>
           /\ UNCHANGED apiSt \/ \E n \in Names : SendStatus(n)
           /\ UNCHANGED <<seen, seenSt>> \/ (\E u \in Pods : Sync(u)) \/ Restart
           /\ \/ UNCHANGED podsMock
              \/ \E key \in MapKeys : PatchPodStatus(key)
              \/ \E c \in Callers : GetPodWrite(c)
              \/ \E n \in Names : CreatePod(n) \/ UpdatePod(n) \/ DeletePod(n)
              \/ Restart
           /\ UNCHANGED todo \/ ListPods \/ FetchPodStatus \/ Restart
           /\ \/ UNCHANGED tracked \/ FetchPodStatus \/ CompareStatus \/ CopyStatus
              \/ PodLost \/ NotifyStatus \/ Restart
           /\ \/ UNCHANGED worker \/ Restart
              \/ \E n \in Names : \/ TakeDeleted(n) \/ TakeTerminating(n) \/ TakeLive(n)
                                  \/ Finish(n) \/ UpdatePod(n) \/ Collect(n) \/ DeletePod(n)
           /\ \/ UNCHANGED received \/ NotifyStatus \/ Restart
              \/ \E n \in Names : NotifyUpdated(n) \/ UpdatePodStatus(n)
              \/ \E u \in Pods : SyncDeleted(u)
  <1>1. CASE TrackerStep
    <2>1. UNCHANGED <<life, due, apiSt, seen, seenSt, worker>>
      BY <1>1 DEF TrackerStep, ListPods, FetchPodStatus, GetPodList, GetPodWrite,
         CompareStatus, CopyStatus, PodLost, NotifyStatus, apiVars, cacheVars
    <2>2. UNCHANGED podsMock \/ GetPodWrite(Tracker)
      BY <1>1 DEF TrackerStep, ListPods, FetchPodStatus, GetPodList, CompareStatus,
         CopyStatus, PodLost, NotifyStatus
    <2>3. UNCHANGED todo \/ ListPods \/ FetchPodStatus
      BY <1>1 DEF TrackerStep, GetPodList, GetPodWrite, CompareStatus, CopyStatus,
         PodLost, NotifyStatus, trackerVars
    <2>4. \/ UNCHANGED tracked \/ FetchPodStatus \/ CompareStatus \/ CopyStatus
          \/ PodLost \/ NotifyStatus
      BY <1>1 DEF TrackerStep, ListPods, GetPodList, GetPodWrite, trackerVars
    <2>5. UNCHANGED received \/ NotifyStatus
      BY <1>1 DEF TrackerStep, ListPods, FetchPodStatus, GetPodList, GetPodWrite,
         CompareStatus, CopyStatus, PodLost, notifyVars
    <2>6. Tracker \in Callers
      BY DEF Callers
    <2>7. QED BY <2>1, <2>2, <2>3, <2>4, <2>5, <2>6, Zenon
  <1>2. CASE \E key \in MapKeys : PatchPodStatus(key)
    BY <1>2 DEF PatchPodStatus, apiVars, cacheVars, trackerVars, notifyVars
  <1>3. ASSUME NEW n \in Names, WorkerStep(n)
        PROVE  /\ UNCHANGED <<life, due, apiSt, seen, seenSt, todo, tracked>>
               /\ \/ UNCHANGED podsMock
                  \/ GetPodWrite(n) \/ CreatePod(n) \/ UpdatePod(n) \/ DeletePod(n)
               /\ \/ UNCHANGED worker \/ TakeDeleted(n) \/ TakeTerminating(n) \/ TakeLive(n)
                  \/ Finish(n) \/ UpdatePod(n) \/ Collect(n) \/ DeletePod(n)
               /\ UNCHANGED received \/ NotifyUpdated(n) \/ UpdatePodStatus(n)
    BY <1>3 DEF WorkerStep, Take, TakeDeleted, TakeStopped, TakeTerminating, TakeCompleted,
       TakeLive, GetPodRead, GetPodList, GetPodWrite, KeepPod, CreatePod, UpdatePod,
       NotifyUpdated, NothingToCollect, Collect, DeleteMissing, DeletePod, UpdatePodStatus,
       Finish, apiVars, cacheVars, trackerVars, notifyVars
  <1>4. CASE \E n \in Names : WorkerStep(n)
    <2>1. PICK n \in Names : WorkerStep(n)
      BY <1>4
    <2>2. n \in Callers
      BY DEF Callers
    <2>3. QED BY <1>3, <2>1, <2>2, Zenon
  <1>5. CASE \E n \in Names : SendStatus(n)
    BY <1>5 DEF SendStatus, cacheVars, trackerVars
  <1>6. CASE \E u \in Pods : Sync(u)
    BY <1>6 DEF Sync, SyncAdded, SyncUpdated, SyncDeleted, apiVars, trackerVars, notifyVars
  <1>7. CASE Restart
    BY <1>7 DEF Restart, apiVars
  <1>8. QED BY <1>1, <1>2, <1>4, <1>5, <1>6, <1>7 DEF KubeletStep

-----------------------------------------------------------------------------
(***************************************************************************)
(* The statuses of the API server, the cache and the map                   *)
(***************************************************************************)

\* A status is sent as it was received.
LEMMA ApiShowsStep ==
    ASSUME TypeOK, ApiShows, ReceivedShows, UNCHANGED <<life, due>>,
           UNCHANGED apiSt \/ \E n \in Names : SendStatus(n)
    PROVE  ApiShows'
  <1>1. CASE UNCHANGED apiSt
    BY <1>1, SameLemma DEF ApiShows
  <1>2. ASSUME NEW n \in Names, SendStatus(n) PROVE ApiShows'
    <2>1. CASE UNCHANGED apiSt
      BY <2>1, <1>1
    <2>2. CASE n \in DOMAIN received /\ apiSt' = [apiSt EXCEPT ![received[n].uid] = received[n].st]
      <3>1. ShowsOrLost(received[n].uid, received[n].st)
        BY <2>2 DEF ReceivedShows
      <3>2. \A u \in Pods : \/ apiSt'[u] = apiSt[u]
                            \/ u = received[n].uid /\ apiSt'[u] = received[n].st
        BY <2>2 DEF TypeOK
      <3>3. QED BY <3>1, <3>2, SameLemma DEF ApiShows
    <2>3. QED BY <1>2, <2>1, <2>2 DEF SendStatus
  <1>3. QED BY <1>1, <1>2

\* The cache shows what the API server showed; what is live was not lost.
LEMMA CacheShowsStep ==
    ASSUME TypeOK, ApiShows, CacheShows, UNCHANGED <<life, due>>,
           UNCHANGED <<seen, seenSt>> \/ (\E u \in Pods : Sync(u)) \/ Restart
    PROVE  CacheShows'
  <1>1. CASE UNCHANGED <<seen, seenSt>>
    BY <1>1, SameLemma DEF CacheShows
  <1>2. ASSUME NEW u \in Pods, Sync(u) PROVE CacheShows'
    <2>1. \/ /\ seen' = [seen EXCEPT ![u] = life[u]] /\ life[u] \in {"live", "deleting"}
             /\ seenSt' = [seenSt EXCEPT ![u] = apiSt[u]]
          \/ /\ seen' = [seen EXCEPT ![u] = "absent"]
             /\ seenSt' = [seenSt EXCEPT ![u] = NewStatus]
      BY <1>2 DEF Sync, SyncAdded, SyncUpdated, SyncDeleted
    <2>2. ASSUME life[u] \in {"live", "deleting"}
          PROVE  ShowsOrLost(u, apiSt[u]) /\ (life[u] = "live" => Shows(u, apiSt[u]))
      <3>1. Born(u) /\ (life[u] = "live" => ~Going(u))
        BY <2>2 DEF Born, Going
      <3>2. QED BY <3>1, NewShows, ShowsLemma DEF ApiShows
    <2>3. \A v \in Pods : /\ seen'[v] # "absent" => ShowsOrLost(v, seenSt'[v])
                          /\ seen'[v] = "live" => Shows(v, seenSt'[v])
      BY <2>1, <2>2 DEF CacheShows, TypeOK
    <2>4. QED BY <2>3, SameLemma DEF CacheShows
  <1>3. CASE Restart
    BY <1>3 DEF Restart, CacheShows
  <1>4. QED BY <1>1, <1>2, <1>3

\* What GetPod and the worker write into the map comes from the cache, and
\* what the mock tracker writes has fallen due.
LEMMA MapShowsStep ==
    ASSUME TypeOK, DueInPlan, MapShows, CallsShow, WorkersShow, UNCHANGED <<life, due>>,
           \/ UNCHANGED podsMock
           \/ \E key \in MapKeys : PatchPodStatus(key)
           \/ \E c \in Callers : GetPodWrite(c)
           \/ \E n \in Names : CreatePod(n) \/ UpdatePod(n) \/ DeletePod(n)
           \/ Restart
    PROVE  MapShows'
  <1>1. CASE UNCHANGED podsMock
    BY <1>1, SameLemma DEF MapShows, KeyOf
  <1>2. ASSUME NEW key, NEW p, KeyOf(p.uid) = key, Shows(p.uid, p.st),
               podsMock' = With(podsMock, key, p)
        PROVE  MapShows'
    <2>1. /\ DOMAIN podsMock' = DOMAIN podsMock \cup {key}
          /\ podsMock'[key] = p
          /\ \A y \in DOMAIN podsMock \ {key} : podsMock'[y] = podsMock[y]
      BY <1>2 DEF With
    <2>2. \A k \in DOMAIN podsMock' : KeyOf(podsMock'[k].uid) = k
                                      /\ Shows(podsMock'[k].uid, podsMock'[k].st)
      BY <1>2, <2>1 DEF MapShows
    <2>3. QED BY <2>2, SameLemma DEF MapShows, KeyOf
  <1>3. ASSUME NEW key \in MapKeys, PatchPodStatus(key) PROVE MapShows'
    <2> DEFINE u == podsMock[key].uid
    <2>1. key \in DOMAIN podsMock /\ podsMock[key] \in Pod /\ u \in Pods /\ HasNowStatus(u)
      BY <1>3, PodLemma DEF TypeOK, PatchPodStatus
    <2>2. Shows(u, NowStatus(u)) /\ KeyOf(u) = key
      BY <2>1, NowShows, ShowsLemma DEF MapShows
    <2>3. /\ DOMAIN podsMock' = DOMAIN podsMock
          /\ podsMock'[key] = [podsMock[key] EXCEPT !.st = NowStatus(u)]
          /\ \A y \in DOMAIN podsMock \ {key} : podsMock'[y] = podsMock[y]
      BY <1>3, <2>1 DEF PatchPodStatus
    <2>4. podsMock'[key].uid = u /\ podsMock'[key].st = NowStatus(u)
      BY <2>1, <2>3, PodFields
    <2> HIDE DEF u
    <2>5. \A k \in DOMAIN podsMock' : KeyOf(podsMock'[k].uid) = k
                                      /\ Shows(podsMock'[k].uid, podsMock'[k].st)
      BY <2>2, <2>3, <2>4 DEF MapShows
    <2>6. QED BY <2>5, SameLemma DEF MapShows, KeyOf
  <1>4. ASSUME NEW c \in Callers, GetPodWrite(c) PROVE MapShows'
    BY <1>2, <1>4 DEF GetPodWrite, CallsShow
  <1>5. ASSUME NEW n \in Names, CreatePod(n) \/ UpdatePod(n) PROVE MapShows'
    <2>1. worker[n].pc = "create" /\ podsMock' = With(podsMock, MapKey[n], worker[n].pod)
      BY <1>5 DEF CreatePod, UpdatePod
    <2>2. KeyOf(worker[n].pod.uid) = MapKey[n] /\ Shows(worker[n].pod.uid, worker[n].pod.st)
      BY <2>1 DEF WorkersShow, KeyOf
    <2>3. QED BY <1>2, <2>1, <2>2
  <1>6. ASSUME NEW n \in Names, DeletePod(n) PROVE MapShows'
    <2>1. \A k \in DOMAIN podsMock' : k \in DOMAIN podsMock /\ podsMock'[k] = podsMock[k]
      BY <1>6 DEF DeletePod, Without
    <2>2. QED BY <2>1, SameLemma DEF MapShows, KeyOf
  <1>7. CASE Restart
    BY <1>7 DEF Restart, EmptyMap, MapShows
  <1>8. QED BY <1>1, <1>3, <1>4, <1>5, <1>6, <1>7

-----------------------------------------------------------------------------
(***************************************************************************)
(* The calls of GetPod                                                     *)
(***************************************************************************)

CallShows(c) ==
    call[c].pc \in {"write", "found"} =>
        KeyOf(call[c].pod.uid) = KeyOfCaller(c) /\ Shows(call[c].pod.uid, call[c].pod.st)

\* The callers that lose the object in the map have the pod they had.
LEMMA UnsharedPods ==
    ASSUME TypeOK, NEW key, NEW c \in Callers
    PROVE  /\ Unshared(key)[c].pc = call[c].pc
           /\ call[c].pc \in {"write", "found"} => Unshared(key)[c].pod = call[c].pod
  <1>1. Unshared(key)[c].pc = call[c].pc
    BY UnsharedLemma
  <1>2. CASE call[c].pc = "found"
    <2>1. PICK q \in Pod, b \in BOOLEAN : call[c] = [pc |-> "found", pod |-> q, shared |-> b]
      BY <1>2, CallStatesLemma DEF TypeOK
    <2>2. [[pc |-> "found", pod |-> q, shared |-> b] EXCEPT !.shared = FALSE].pod = q
      OBVIOUS
    <2>3. [call[c] EXCEPT !.shared = FALSE].pod = call[c].pod
      BY <2>1, <2>2, SMT
    <2>4. QED BY <1>1, <2>3 DEF Unshared
  <1>3. CASE call[c].pc # "found"
    BY <1>1, <1>3 DEF Unshared
  <1>4. QED BY <1>2, <1>3

\* The name a worker calls for stays; the tracker's may change as it calls.
LEMMA KeyOfWorker ==
    ASSUME NEW n \in Names
    PROVE  KeyOfCaller(n) = MapKey[n] /\ KeyOfCaller(n)' = MapKey[n]
  BY NamesAssumption DEF KeyOfCaller, NameOfCaller

\* One caller goes on, the others keep their pods and what they call for.
LEMMA OneCallGoesOn ==
    ASSUME CallsShow, UNCHANGED <<life, due>>, NEW d \in Callers,
           d = Tracker \/ UNCHANGED tracked,
           \A c \in Callers \ {d} :
               call'[c].pc \in {"write", "found"} =>
                   call[c].pc \in {"write", "found"} /\ call'[c].pod = call[c].pod,
           CallShows(d)'
    PROVE  CallsShow'
  <1>1. ASSUME NEW c \in Callers \ {d} PROVE KeyOfCaller(c)' = KeyOfCaller(c)
    <2>1. CASE c \in Names
      BY <2>1, KeyOfWorker
    <2>2. CASE c = Tracker
      BY <1>1, <2>2 DEF KeyOfCaller, NameOfCaller
    <2>3. QED BY <2>1, <2>2 DEF Callers
  <1>2. ASSUME NEW c \in Callers \ {d} PROVE CallShows(c)'
    <2>1. SUFFICES ASSUME call'[c].pc \in {"write", "found"}
                   PROVE  /\ KeyOf(call'[c].pod.uid) = KeyOfCaller(c)'
                          /\ Shows(call[c].pod.uid, call[c].pod.st)'
      BY DEF CallShows, KeyOf
    <2>2. /\ call[c].pc \in {"write", "found"} /\ call'[c].pod = call[c].pod
          /\ KeyOf(call[c].pod.uid) = KeyOfCaller(c)
          /\ Shows(call[c].pod.uid, call[c].pod.st)
      BY <1>2, <2>1 DEF CallsShow
    <2>3. QED BY <1>1, <2>2, SameLemma
  <1>3. QED BY <1>2 DEF CallsShow, CallShows

\* A call that holds no pod yet, or no longer.
LEMMA CallWithoutPod ==
    ASSUME TypeOK, CallsShow, UNCHANGED <<life, due>>, NEW d \in Callers,
           d = Tracker \/ UNCHANGED tracked,
           NEW v, call' = [call EXCEPT ![d] = v], v.pc \notin {"write", "found"}
    PROVE  CallsShow'
  <1>1. call'[d] = v /\ \A c \in Callers \ {d} : call'[c] = call[c]
    BY DEF TypeOK
  <1>2. CallShows(d)'
    BY <1>1 DEF CallShows
  <1>3. QED BY <1>1, <1>2, OneCallGoesOn

\* A call that gets a pod with the key it asked for.
LEMMA CallWithPod ==
    ASSUME TypeOK, CallsShow, UNCHANGED <<life, due>>, NEW d \in Callers,
           d = Tracker \/ UNCHANGED tracked,
           \A c \in Callers \ {d} :
               call'[c].pc \in {"write", "found"} =>
                   call[c].pc \in {"write", "found"} /\ call'[c].pod = call[c].pod,
           NEW p, call'[d].pod = p, KeyOf(p.uid) = KeyOfCaller(d)', Shows(p.uid, p.st)
    PROVE  CallsShow'
  <1>1. Shows(p.uid, p.st)'
    BY SameLemma
  <1>2. CallShows(d)'
    BY <1>1 DEF CallShows, KeyOf
  <1>3. QED BY <1>2, OneCallGoesOn

\* GetPod, by whoever calls it: the map has pods under their own keys, and the
\* cache gives a live pod of the name.
LEMMA GetPodShows ==
    ASSUME TypeOK, CallsShow, MapShows, CacheShows, UNCHANGED <<life, due>>,
           NEW c \in Callers, GetPodRead(c) \/ GetPodList(c) \/ GetPodWrite(c)
    PROVE  CallsShow'
  <1>1. call \in [Callers -> CallStates]
    BY DEF TypeOK
  <1>2. UNCHANGED tracked
    BY DEF GetPodRead, GetPodList, GetPodWrite, trackerVars
  <1>3. KeyOfCaller(c)' = KeyOfCaller(c)
    BY <1>2 DEF KeyOfCaller, NameOfCaller
  <1>4. CASE GetPodRead(c)
    <2> DEFINE key == KeyOfCaller(c)
    <2>1. call' = [call EXCEPT ![c] = Read(key)]
      BY <1>4 DEF GetPodRead
    <2>2. CASE key \in DOMAIN podsMock
      <3>1. Read(key).pod = podsMock[key]
        BY <2>2 DEF Read
      <3>2. call'[c].pod = podsMock[key] /\ \A d \in Callers \ {c} : call'[d] = call[d]
        BY <1>1, <2>1, <3>1
      <3>3. KeyOf(podsMock[key].uid) = key /\ Shows(podsMock[key].uid, podsMock[key].st)
        BY <2>2 DEF MapShows
      <3>4. QED BY <1>2, <1>3, <3>2, <3>3, CallWithPod
    <2>3. CASE key \notin DOMAIN podsMock
      <3>1. Read(key).pc \notin {"write", "found"}
        BY <2>3 DEF Read
      <3>2. QED BY <1>2, <2>1, <3>1, CallWithoutPod
    <2>4. QED BY <2>2, <2>3
  <1>5. CASE GetPodList(c)
    <2> DEFINE Live == {u \in Listed(NameOfCaller(c)) : seen[u] = "live"}
    <2>1. CASE Live = {}
      <3>1. call' = [call EXCEPT ![c] = [pc |-> "missing"]]
        BY <1>5, <2>1 DEF GetPodList
      <3>2. QED BY <1>2, <3>1, CallWithoutPod
    <2>2. CASE Live # {}
      <3> DEFINE u == CHOOSE x \in Live : TRUE
      <3>1. u \in Live
        BY <2>2
      <3>2. call' = [call EXCEPT ![c] = [pc |-> "write", pod |-> CacheCopy(u)]]
        BY <1>5, <2>2 DEF GetPodList
      <3> HIDE DEF u
      <3>3. KeyOf(u) = KeyOfCaller(c) /\ Shows(u, seenSt[u])
        BY <3>1 DEF Listed, KeyOf, KeyOfCaller, CacheShows
      <3>4. call'[c].pod = CacheCopy(u) /\ \A d \in Callers \ {c} : call'[d] = call[d]
        BY <1>1, <3>2
      <3>5. CacheCopy(u).uid = u /\ CacheCopy(u).st = seenSt[u]
        BY DEF CacheCopy
      <3>6. QED BY <1>2, <1>3, <3>3, <3>4, <3>5, CallWithPod
    <2>3. QED BY <2>1, <2>2
  <1>6. CASE GetPodWrite(c)
    <2> DEFINE p == call[c].pod
               key == KeyOfCaller(c)
    <2>1. KeyOf(p.uid) = key /\ Shows(p.uid, p.st)
      BY <1>6 DEF GetPodWrite, CallsShow
    <2>2. call' = [Unshared(key) EXCEPT ![c] = [pc |-> "found", pod |-> p, shared |-> FALSE]]
      BY <1>6 DEF GetPodWrite
    <2> HIDE DEF p
    <2>3. call'[c].pod = p /\ \A d \in Callers \ {c} : call'[d] = Unshared(key)[d]
      BY <2>2, UnsharedLemma
    <2>4. \A d \in Callers \ {c} :
            call'[d].pc \in {"write", "found"} =>
              call[d].pc \in {"write", "found"} /\ call'[d].pod = call[d].pod
      BY <2>3, UnsharedPods
    <2>5. QED BY <1>2, <1>3, <2>1, <2>3, <2>4, CallWithPod
  <1>7. QED BY <1>4, <1>5, <1>6

\* The mock tracker's patch of an object that callers hold too.
LEMMA PatchedCalls ==
    ASSUME TypeOK, DueInPlan, CallsShow, MapShows, UNCHANGED <<life, due>>,
           NEW key \in MapKeys, PatchPodStatus(key)
    PROVE  CallsShow'
  <1> DEFINE u == podsMock[key].uid
             st == NowStatus(u)
  <1>1. key \in DOMAIN podsMock /\ podsMock[key] \in Pod /\ u \in Pods /\ HasNowStatus(u)
    BY PodLemma DEF TypeOK, PatchPodStatus
  <1>2. Shows(u, st) /\ KeyOf(u) = key
    BY <1>1, NowShows, ShowsLemma DEF MapShows
  <1>3. UNCHANGED tracked
    BY DEF PatchPodStatus, trackerVars
  <1>4. call' = [c \in Callers |->
             IF call[c].pc = "found" /\ call[c].shared /\ KeyOfCaller(c) = key
               THEN [call[c] EXCEPT !.pod.st = st] ELSE call[c]]
    BY DEF PatchPodStatus
  <1> HIDE DEF st, u
  <1>5. ASSUME NEW c \in Callers, call'[c].pc \in {"write", "found"}
        PROVE  /\ KeyOf(call'[c].pod.uid) = KeyOfCaller(c)
               /\ Shows(call'[c].pod.uid, call'[c].pod.st)
    <2>1. CASE call[c].pc = "found" /\ call[c].shared /\ KeyOfCaller(c) = key
      <3>1. PICK q \in Pod, b \in BOOLEAN : call[c] = [pc |-> "found", pod |-> q, shared |-> b]
        BY <2>1, CallStatesLemma DEF TypeOK
      <3>2. [call[c] EXCEPT !.pod.st = st] =
              [pc |-> "found", pod |-> [q EXCEPT !.st = st], shared |-> b]
        BY <3>1
      <3>3. call'[c].pod.uid = q.uid /\ call'[c].pod.st = st
        <4>1. call'[c] = [pc |-> "found", pod |-> [q EXCEPT !.st = st], shared |-> b]
          BY <1>4, <2>1, <3>2
        <4>2. call'[c].pod = [q EXCEPT !.st = st]
          BY <4>1
        <4>3. QED BY <4>2, PodFields
      <3>4. KeyOf(q.uid) = key /\ Shows(q.uid, q.st)
        BY <2>1, <3>1 DEF CallsShow
      <3>5. Shows(q.uid, st)
        BY <1>2, <3>4, NamesakeShows, ShowsLemma
      <3>6. QED BY <2>1, <3>3, <3>4, <3>5
    <2>2. CASE ~(call[c].pc = "found" /\ call[c].shared /\ KeyOfCaller(c) = key)
      BY <1>4, <1>5, <2>2 DEF CallsShow
    <2>3. QED BY <2>1, <2>2
  <1>6. \A c \in Callers : KeyOfCaller(c)' = KeyOfCaller(c)
    BY <1>3 DEF KeyOfCaller, NameOfCaller
  <1>7. QED BY <1>5, <1>6, SameLemma DEF CallsShow, KeyOf

\* The workers' calls.
LEMMA WorkerCallsShow ==
    ASSUME TypeOK, CallsShow, MapShows, CacheShows, WorkersShow, UNCHANGED <<life, due>>,
           NEW n \in Names, WorkerStep(n)
    PROVE  CallsShow'
  <1>1. call \in [Callers -> CallStates] /\ n \in Callers
    BY DEF TypeOK, Callers
  <1>2. UNCHANGED tracked
    BY DEF WorkerStep, Take, TakeDeleted, TakeStopped, TakeTerminating, TakeCompleted,
       TakeLive, GetPodRead, GetPodList, GetPodWrite, KeepPod, CreatePod, UpdatePod,
       NotifyUpdated, NothingToCollect, Collect, DeleteMissing, DeletePod,
       UpdatePodStatus, Finish, trackerVars
  <1>3. CASE GetPodRead(n) \/ GetPodList(n) \/ GetPodWrite(n)
    BY <1>1, <1>3, GetPodShows
  <1>4. CASE UNCHANGED call
    BY <1>2, <1>4, SameLemma DEF CallsShow, KeyOf, KeyOfCaller, NameOfCaller
  <1>5. CASE call' = [call EXCEPT ![n] = [pc |-> "read"]] \/ call' = [call EXCEPT ![n] = NoCall]
    BY <1>1, <1>2, <1>5, CallWithoutPod DEF NoCall
  <1>6. CASE DeletePod(n) \/ CreatePod(n)
    <2>1. /\ call'[n] = Unshared(MapKey[n])[n] \/ call'[n] = NoCall
          /\ \A c \in Callers \ {n} : call'[c] = Unshared(MapKey[n])[c]
      BY <1>1, <1>6, UnsharedLemma DEF DeletePod, CreatePod
    <2>2. \A c \in Callers : call'[c].pc \in {"write", "found"} =>
            call[c].pc \in {"write", "found"} /\ call'[c].pod = call[c].pod
      BY <2>1, UnsharedPods DEF NoCall
    <2>3. \A c \in Callers : KeyOfCaller(c)' = KeyOfCaller(c)
      BY <1>2 DEF KeyOfCaller, NameOfCaller
    <2>4. ASSUME NEW c \in Callers, call'[c].pc \in {"write", "found"}
          PROVE  KeyOf(call'[c].pod.uid) = KeyOfCaller(c) /\ Shows(call'[c].pod.uid, call'[c].pod.st)
      BY <2>2, <2>4 DEF CallsShow
    <2>5. QED BY <2>3, <2>4, SameLemma DEF CallsShow, KeyOf
  <1>7. CASE UpdatePod(n)
    <2> DEFINE p == worker[n].pod
    <2>1. KeyOf(p.uid) = MapKey[n] /\ Shows(p.uid, p.st)
      BY <1>7 DEF UpdatePod, WorkersShow, KeyOf
    <2>2. call' = [Unshared(MapKey[n]) EXCEPT ![n] = [pc |-> "found", pod |-> p, shared |-> TRUE]]
      BY <1>7 DEF UpdatePod
    <2> HIDE DEF p
    <2>3. call'[n].pod = p /\ \A c \in Callers \ {n} : call'[c] = Unshared(MapKey[n])[c]
      BY <1>1, <2>2, UnsharedLemma
    <2>4. \A c \in Callers \ {n} :
            call'[c].pc \in {"write", "found"} =>
              call[c].pc \in {"write", "found"} /\ call'[c].pod = call[c].pod
      BY <2>3, UnsharedPods
    <2>5. QED BY <1>1, <1>2, <2>1, <2>3, <2>4, KeyOfWorker, CallWithPod
  <1>8. \/ GetPodRead(n) \/ GetPodList(n) \/ GetPodWrite(n) \/ UNCHANGED call
        \/ call' = [call EXCEPT ![n] = [pc |-> "read"]] \/ call' = [call EXCEPT ![n] = NoCall]
        \/ DeletePod(n) \/ CreatePod(n) \/ UpdatePod(n)
    BY DEF WorkerStep, TakeDeleted, TakeStopped, TakeTerminating, TakeCompleted, TakeLive,
       KeepPod, NotifyUpdated, NothingToCollect, Collect, DeleteMissing, UpdatePodStatus
  <1>9. QED BY <1>3, <1>4, <1>5, <1>6, <1>7, <1>8

\* The tracker's calls, for the pod it has listed.
LEMMA TrackerCallsShow ==
    ASSUME TypeOK, TrackerCalls, CallsShow, MapShows, CacheShows, UNCHANGED <<life, due>>,
           TrackerStep
    PROVE  CallsShow'
  <1>1. call \in [Callers -> CallStates] /\ Tracker \in Callers /\ tracked \in TrackedStates
    BY DEF TypeOK, Callers
  <1>2. CASE GetPodList(Tracker) \/ GetPodWrite(Tracker)
    BY <1>1, <1>2, GetPodShows
  <1>3. CASE ListPods
    <2>1. UNCHANGED <<call, tracked>>
      BY <1>3 DEF ListPods
    <2>2. QED BY <2>1, SameLemma DEF CallsShow, KeyOf, KeyOfCaller, NameOfCaller
  <1>4. CASE FetchPodStatus
    <2>1. PICK p \in todo :
            /\ tracked' = [pc |-> "fetch", pod |-> p]
            /\ call' = [call EXCEPT ![Tracker] = Read(MapKey[NameOf[p.uid]])]
      BY <1>4 DEF FetchPodStatus
    <2> DEFINE key == MapKey[NameOf[p.uid]]
    <2>2. KeyOfCaller(Tracker)' = key
      BY <2>1 DEF KeyOfCaller, NameOfCaller
    <2>3. CASE key \in DOMAIN podsMock
      <3>1. Read(key).pod = podsMock[key]
        BY <2>3 DEF Read
      <3>2. call'[Tracker].pod = podsMock[key]
            /\ \A d \in Callers \ {Tracker} : call'[d] = call[d]
        BY <1>1, <2>1, <3>1
      <3>3. KeyOf(podsMock[key].uid) = key /\ Shows(podsMock[key].uid, podsMock[key].st)
        BY <2>3 DEF MapShows
      <3>4. QED BY <1>1, <2>2, <3>2, <3>3, CallWithPod
    <2>4. CASE key \notin DOMAIN podsMock
      <3>1. Read(key).pc \notin {"write", "found"}
        BY <2>4 DEF Read
      <3>2. QED BY <1>1, <2>1, <3>1, CallWithoutPod
    <2>5. QED BY <2>3, <2>4
  <1>5. CASE call' = [call EXCEPT ![Tracker] = NoCall]
    BY <1>1, <1>5, CallWithoutPod DEF NoCall
  <1>6. CASE CompareStatus /\ UNCHANGED call
    <2>1. tracked = [pc |-> "fetch", pod |-> tracked.pod]
      BY <1>1, <1>6, TrackedStatesLemma DEF CompareStatus
    <2>2. call[Tracker].pc = "found"
      BY <1>6 DEF CompareStatus
    <2>3. CASE tracked' = [tracked EXCEPT !.pc = "copy"]
      <3>1. tracked'.pod = tracked.pod
        BY <2>1, <2>3
      <3>2. \A c \in Callers : KeyOfCaller(c)' = KeyOfCaller(c)
        BY <3>1 DEF KeyOfCaller, NameOfCaller
      <3>3. QED BY <1>6, <3>2, SameLemma DEF CallsShow, KeyOf
    <2>4. CASE call' = [call EXCEPT ![Tracker] = NoCall]
      BY <1>5, <2>4
    <2>5. QED BY <1>6, <2>3, <2>4 DEF CompareStatus
  <1>7. CASE NotifyStatus
    <2>1. UNCHANGED call /\ call[Tracker].pc = "none"
      BY <1>7 DEF NotifyStatus, TrackerCalls
    <2>2. call' = [call EXCEPT ![Tracker] = call[Tracker]]
      BY <1>1, <2>1
    <2>3. QED BY <1>1, <2>1, <2>2, CallWithoutPod
  <1>8. CASE CopyStatus \/ PodLost \/ (CompareStatus /\ ~UNCHANGED call)
    <2>1. call' = [call EXCEPT ![Tracker] = NoCall]
      BY <1>8 DEF CopyStatus, PodLost, CompareStatus
    <2>2. QED BY <1>5, <2>1
  <1>9. QED BY <1>2, <1>3, <1>4, <1>6, <1>7, <1>8 DEF TrackerStep

LEMMA CallsShowStep ==
    ASSUME IInv, ShowInv, KubeletStep, UNCHANGED <<life, due>>
    PROVE  CallsShow'
  <1>1. CASE TrackerStep
    BY <1>1, TrackerCallsShow DEF IInv, ShowInv
  <1>2. CASE \E key \in MapKeys : PatchPodStatus(key)
    BY <1>2, PatchedCalls DEF IInv, ShowInv
  <1>3. CASE \E n \in Names : WorkerStep(n)
    BY <1>3, WorkerCallsShow DEF IInv, ShowInv
  <1>4. CASE (\E n \in Names : SendStatus(n)) \/ \E u \in Pods : Sync(u)
    <2>1. UNCHANGED <<call, tracked>>
      BY <1>4 DEF SendStatus, Sync, SyncAdded, SyncUpdated, SyncDeleted, trackerVars
    <2>2. QED BY <2>1, SameLemma DEF ShowInv, CallsShow, KeyOf, KeyOfCaller, NameOfCaller
  <1>5. CASE Restart
    BY <1>5 DEF Restart, NoCall, CallsShow
  <1>6. QED BY <1>1, <1>2, <1>3, <1>4, <1>5 DEF KubeletStep

-----------------------------------------------------------------------------
(***************************************************************************)
(* The trackers, the workers and the notifier                              *)
(***************************************************************************)

\* What a caller of GetPod copies, perhaps while it is written, has fallen due
\* for the pod it asked for.
LEMMA ReadShows ==
    ASSUME TypeOK, DueInPlan, CallsShow, NEW c \in Callers, call[c].pc = "found",
           NEW st, ReadStatus(c, st), NEW v, KeyOf(v) = KeyOfCaller(c), Born(v)
    PROVE  Shows(v, st)
  <1> DEFINE o == call[c].pod
  <1>1. o \in Pod /\ o.uid \in Pods
    BY CallStatesLemma, PodLemma DEF TypeOK
  <1>2. KeyOf(o.uid) = KeyOf(v) /\ Shows(o.uid, o.st)
    BY DEF CallsShow
  <1>3. Shows(o.uid, st)
    <2>1. CASE st = o.st
      BY <1>2, <2>1
    <2>2. CASE HasNowStatus(o.uid) /\ st \in Torn(o.st, NowStatus(o.uid))
      BY <1>1, <1>2, <2>2, NowShows, TornShows, ShowsLemma
    <2>3. QED BY <2>1, <2>2 DEF ReadStatus
  <1>4. QED BY <1>2, <1>3, NamesakeShows

\* What is listed and not skipped is live in the cache.
LEMMA TodoShowsStep ==
    ASSUME TypeOK, CacheShows, TodoShows, UNCHANGED <<life, due>>,
           UNCHANGED todo \/ ListPods \/ FetchPodStatus \/ Restart
    PROVE  TodoShows'
  <1>1. CASE UNCHANGED todo \/ FetchPodStatus
    BY <1>1, SameLemma DEF FetchPodStatus, TodoShows
  <1>2. CASE ListPods
    <2>1. ASSUME NEW p \in todo' PROVE Shows(p.uid, p.st)
      <3>1. PICK u \in Pods : p = CacheCopy(u) /\ seen[u] # "absent" /\ ~ShouldSkip(p)
        BY <1>2 DEF ListPods
      <3>2. p.uid = u /\ p.st = seenSt[u] /\ seen[u] = "live"
        BY <3>1 DEF CacheCopy, ShouldSkip, TypeOK
      <3>3. QED BY <3>2 DEF CacheShows
    <2>2. QED BY <2>1, SameLemma DEF TodoShows
  <1>3. CASE Restart
    BY <1>3 DEF Restart, TodoShows
  <1>4. QED BY <1>1, <1>2, <1>3

LEMMA TrackedShowsStep ==
    ASSUME IInv, ShowInv, UNCHANGED <<life, due>>,
           \/ UNCHANGED tracked \/ FetchPodStatus \/ CompareStatus \/ CopyStatus
           \/ PodLost \/ NotifyStatus \/ Restart
    PROVE  TrackedShows'
  <1>1. TypeOK /\ DueInPlan /\ tracked \in TrackedStates /\ Tracker \in Callers
    BY DEF IInv, TypeOK, Callers
  <1>2. CASE UNCHANGED tracked
    BY <1>2, SameLemma DEF ShowInv, TrackedShows
  <1>3. CASE FetchPodStatus
    <2>1. PICK p \in todo : tracked' = [pc |-> "fetch", pod |-> p]
      BY <1>3 DEF FetchPodStatus
    <2>2. Shows(p.uid, p.st)
      BY DEF ShowInv, TodoShows
    <2>3. QED BY <2>1, <2>2, SameLemma DEF TrackedShows
  <1>4. CASE CompareStatus
    <2>1. tracked = [pc |-> "fetch", pod |-> tracked.pod]
      BY <1>1, <1>4, TrackedStatesLemma DEF CompareStatus
    <2>2. Shows(tracked.pod.uid, tracked.pod.st)
      BY <1>4 DEF CompareStatus, ShowInv, TrackedShows
    <2>3. tracked' = NoPodTracked \/ tracked' = [pc |-> "copy", pod |-> tracked.pod]
      BY <1>4, <2>1 DEF CompareStatus
    <2>4. QED BY <2>2, <2>3, SameLemma DEF TrackedShows, NoPodTracked
  <1>5. CASE CopyStatus
    <2>1. PICK st \in Status :
            /\ ReadStatus(Tracker, st)
            /\ tracked' = [pc |-> "notify", pod |-> [tracked.pod EXCEPT !.st = st]]
      BY <1>5 DEF CopyStatus
    <2>2. tracked.pc = "copy" /\ tracked.pod \in Pod
      BY <1>1, <1>5, TrackedStatesLemma DEF CopyStatus
    <2>3. Born(tracked.pod.uid)
      BY <2>2, ShowsLemma DEF ShowInv, TrackedShows
    <2>4. call[Tracker].pc = "found" /\ KeyOf(tracked.pod.uid) = KeyOfCaller(Tracker)
      BY <2>2 DEF ShowInv, CopierFound, KeyOf, KeyOfCaller, NameOfCaller
    <2>5. Shows(tracked.pod.uid, st)
      BY <1>1, <2>1, <2>3, <2>4, ReadShows DEF ShowInv
    <2>6. tracked'.pc = "notify" /\ tracked'.pod.uid = tracked.pod.uid /\ tracked'.pod.st = st
      BY <2>1, <2>2, PodFields
    <2>7. QED BY <2>5, <2>6, SameLemma DEF TrackedShows
  <1>6. CASE PodLost
    <2> DEFINE p == tracked.pod
               q == [p EXCEPT !.st = Lost(p.st)]
    <2>1. tracked' = NoPodTracked \/ tracked' = [pc |-> "lost", pod |-> q]
      BY <1>6 DEF PodLost
    <2>2. p \in Pod /\ p.st \in Status /\ tracked.pc = "fetch"
      BY <1>1, <1>6, TrackedStatesLemma, PodLemma DEF PodLost
    <2>3. Shows(p.uid, p.st) /\ Going(p.uid)
      BY <1>6, <2>2 DEF PodLost, ShowInv, TrackedShows, IInv, MissingIsGoing
    <2>4. q.uid = p.uid /\ q.st = Lost(p.st)
      BY <2>2, PodFields
    <2>5. ShowsOrLost(q.uid, q.st)
      BY <2>2, <2>3, <2>4, TerminatedShows
    <2> HIDE DEF p, q
    <2>6. QED BY <2>1, <2>5, SameLemma DEF TrackedShows, NoPodTracked
  <1>7. CASE NotifyStatus \/ Restart
    BY <1>7 DEF NotifyStatus, Restart, NoPodTracked, TrackedShows
  <1>8. QED BY <1>2, <1>3, <1>4, <1>5, <1>6, <1>7

\* The worker of a name handles a live pod of that name.
LEMMA WorkersShowStep ==
    ASSUME TypeOK, CacheShows, WorkersShow, UNCHANGED <<life, due>>,
           \/ UNCHANGED worker \/ Restart
           \/ \E n \in Names : \/ TakeDeleted(n) \/ TakeTerminating(n) \/ TakeLive(n)
                               \/ Finish(n) \/ UpdatePod(n) \/ Collect(n) \/ DeletePod(n)
    PROVE  WorkersShow'
  <1>1. worker \in [Names -> WorkerStates]
    BY DEF TypeOK
  <1>2. CASE UNCHANGED worker
    BY <1>2, SameLemma DEF WorkersShow
  <1>3. CASE Restart
    BY <1>3 DEF Restart, Idle, WorkersShow
  <1>4. ASSUME NEW n \in Names, NEW w, worker' = [worker EXCEPT ![n] = w],
               w.pc \in {"create", "updated"} => NameOf[w.pod.uid] = n /\ Shows(w.pod.uid, w.pod.st)
        PROVE  WorkersShow'
    <2>1. worker'[n] = w /\ \A m \in Names \ {n} : worker'[m] = worker[m]
      BY <1>1, <1>4
    <2>2. QED BY <1>4, <2>1, SameLemma DEF WorkersShow
  <1>5. ASSUME NEW n \in Names, TakeDeleted(n) \/ TakeTerminating(n) \/ Finish(n) \/ Collect(n)
        PROVE  WorkersShow'
    <2>1. CASE TakeDeleted(n)
      BY <1>4, <2>1 DEF TakeDeleted
    <2>2. CASE TakeTerminating(n)
      BY <1>4, <2>2 DEF TakeTerminating
    <2>3. CASE Finish(n)
      BY <1>4, <2>3 DEF Finish, Idle
    <2>4. CASE Collect(n)
      BY <1>4, <2>4 DEF Collect
    <2>5. QED BY <1>5, <2>1, <2>2, <2>3, <2>4
  <1>6. ASSUME NEW n \in Names, DeletePod(n) PROVE WorkersShow'
    <2>1. worker[n] = [pc |-> "remove", gone |-> worker[n].gone]
      BY <1>1, <1>6, WorkerStatesLemma DEF DeletePod
    <2>2. [worker[n] EXCEPT !.pc = "terminate"].pc = "terminate"
      BY <2>1
    <2>3. worker' = [worker EXCEPT ![n] = [worker[n] EXCEPT !.pc = "terminate"]]
      BY <1>6 DEF DeletePod
    <2>4. QED BY <1>4, <2>2, <2>3
  <1>7. ASSUME NEW n \in Names, TakeLive(n) PROVE WorkersShow'
    <2>1. PICK u \in Listed(n) :
            /\ seen[u] = "live"
            /\ worker' = [worker EXCEPT ![n] =
                 [pc |-> "create", pod |-> [CacheCopy(u) EXCEPT !.env = u \in EnvPods]]]
      BY <1>7 DEF TakeLive
    <2>2. u \in Pods /\ NameOf[u] = n /\ Shows(u, seenSt[u])
      BY <2>1 DEF Listed, CacheShows
    <2> DEFINE p == [CacheCopy(u) EXCEPT !.env = u \in EnvPods]
    <2>3. p.uid = u /\ p.st = seenSt[u]
      BY CacheCopyFields
    <2> HIDE DEF p
    <2>4. worker' = [worker EXCEPT ![n] = [pc |-> "create", pod |-> p]]
      BY <2>1 DEF p
    <2>5. QED BY <1>4, <2>2, <2>3, <2>4
  <1>8. ASSUME NEW n \in Names, UpdatePod(n) PROVE WorkersShow'
    <2>1. worker[n] = [pc |-> "create", pod |-> worker[n].pod]
      BY <1>1, <1>8, WorkerStatesLemma DEF UpdatePod
    <2>2. NameOf[worker[n].pod.uid] = n /\ Shows(worker[n].pod.uid, worker[n].pod.st)
      BY <1>8 DEF UpdatePod, WorkersShow
    <2>3. [worker[n] EXCEPT !.pc = "updated"] = [pc |-> "updated", pod |-> worker[n].pod]
      BY <2>1
    <2>4. worker' = [worker EXCEPT ![n] = [pc |-> "updated", pod |-> worker[n].pod]]
      BY <1>8, <2>3 DEF UpdatePod
    <2>5. QED BY <1>4, <2>2, <2>4
  <1>9. QED BY <1>2, <1>3, <1>5, <1>6, <1>7, <1>8

\* The notifier keeps what it is given, under its name.
LEMMA NotifyShows ==
    ASSUME ReceivedShows, UNCHANGED <<life, due>>, NEW p, Notify(p), ShowsOrLost(p.uid, p.st)
    PROVE  ReceivedShows'
  <1> DEFINE n == NameOf[p.uid]
  <1>1. CASE UNCHANGED received
    BY <1>1, SameLemma DEF ReceivedShows
  <1>2. CASE received' = With(received, n, p)
    <2> HIDE DEF n
    <2>1. /\ DOMAIN received' = DOMAIN received \cup {n}
          /\ received'[n] = p
          /\ \A m \in DOMAIN received \ {n} : received'[m] = received[m]
      BY <1>2 DEF With
    <2>2. \A m \in DOMAIN received' :
            NameOf[received'[m].uid] = m /\ ShowsOrLost(received'[m].uid, received'[m].st)
      BY <2>1 DEF ReceivedShows, n
    <2>3. QED BY <2>2, SameLemma DEF ReceivedShows
  <1>3. QED BY <1>1, <1>2 DEF Notify, notifyVars

LEMMA ReceivedShowsStep ==
    ASSUME IInv, ShowInv, UNCHANGED <<life, due>>,
           \/ UNCHANGED received \/ NotifyStatus \/ Restart
           \/ \E n \in Names : NotifyUpdated(n) \/ UpdatePodStatus(n)
           \/ \E u \in Pods : SyncDeleted(u)
    PROVE  ReceivedShows'
  <1>1. TypeOK /\ DueInPlan /\ ReceivedShows
    BY DEF IInv, ShowInv
  <1>2. CASE UNCHANGED received
    BY <1>1, <1>2, SameLemma DEF ReceivedShows
  <1>3. CASE NotifyStatus
    <2>1. Notify(tracked.pod) /\ ShowsOrLost(tracked.pod.uid, tracked.pod.st)
      BY <1>3, ShowsLemma DEF NotifyStatus, ShowInv, TrackedShows
    <2>2. QED BY <1>1, <2>1, NotifyShows
  <1>4. CASE Restart
    BY <1>4 DEF Restart, EmptyMap, ReceivedShows
  <1>5. ASSUME NEW n \in Names, NotifyUpdated(n) PROVE ReceivedShows'
    <2> DEFINE p == worker[n].pod
    <2>1. PICK st \in Status : ReadStatus(n, st) /\ Notify([p EXCEPT !.st = st])
      BY <1>5 DEF NotifyUpdated
    <2>2. /\ p \in Pod /\ NameOf[p.uid] = n /\ Born(p.uid)
          /\ call[n].pc = "found" /\ n \in Callers
      BY <1>1, <1>5, WorkerStatesLemma, ShowsLemma
      DEF NotifyUpdated, TypeOK, ShowInv, WorkersShow, CopierFound, Callers
    <2>3. KeyOf(p.uid) = KeyOfCaller(n)
      BY <2>2, KeyOfWorker DEF KeyOf
    <2> HIDE DEF p
    <2>4. ShowsOrLost(p.uid, st)
      BY <1>1, <2>1, <2>2, <2>3, ReadShows, ShowsLemma DEF ShowInv
    <2> DEFINE q == [p EXCEPT !.st = st]
    <2>5. q.uid = p.uid /\ q.st = st
      BY <2>2, PodFields
    <2>6. Notify(q)
      BY <2>1
    <2> HIDE DEF q
    <2>7. QED BY <1>1, <2>4, <2>5, <2>6, NotifyShows
  <1>6. ASSUME NEW n \in Names, UpdatePodStatus(n) PROVE ReceivedShows'
    <2>1. CASE UNCHANGED received
      BY <1>2, <2>1
    <2>2. CASE \E u \in Listed(n) : Notify([CacheCopy(u) EXCEPT !.st = Terminated(seenSt[u])])
      <3>1. PICK u \in Listed(n) : Notify([CacheCopy(u) EXCEPT !.st = Terminated(seenSt[u])])
        BY <2>2
      <3>2. u \in Pods /\ ShowsOrLost(u, seenSt[u]) /\ seenSt[u] \in Status
        BY <1>1 DEF Listed, ShowInv, CacheShows, TypeOK
      <3>3. ShowsOrLost(u, Terminated(seenSt[u]))
        BY <3>2, TerminatedShows
      <3> DEFINE q == [CacheCopy(u) EXCEPT !.st = Terminated(seenSt[u])]
      <3>4. CacheCopy(u) \in Pod /\ CacheCopy(u).uid = u
        BY <1>1, <3>2, PodLemma
      <3>5. q.uid = u /\ q.st = Terminated(seenSt[u])
        BY <3>4, PodFields
      <3>6. Notify(q)
        BY <3>1
      <3> HIDE DEF q
      <3>7. QED BY <1>1, <3>3, <3>5, <3>6, NotifyShows
    <2>3. QED BY <1>6, <2>1, <2>2 DEF UpdatePodStatus, notifyVars
  <1>7. ASSUME NEW u \in Pods, SyncDeleted(u) PROVE ReceivedShows'
    <2>1. \A m \in DOMAIN received' : m \in DOMAIN received /\ received'[m] = received[m]
      BY <1>7 DEF SyncDeleted, Without
    <2>2. QED BY <1>1, <2>1, SameLemma DEF ReceivedShows
  <1>8. QED BY <1>2, <1>3, <1>4, <1>5, <1>6, <1>7

\* Nobody else takes a found pod from a caller that copies its status.
LEMMA CopierFoundStep ==
    ASSUME TypeOK, CopierFound, KubeletStep
    PROVE  CopierFound'
  <1>1. /\ call \in [Callers -> CallStates] /\ worker \in [Names -> WorkerStates]
        /\ tracked \in TrackedStates
        /\ Tracker \in Callers /\ Tracker \notin Names /\ Names \subseteq Callers
    BY NamesAssumption DEF TypeOK, Callers
  <1>2. CASE TrackerStep
    <2>1. UNCHANGED worker /\ \A n \in Names : call[n].pc = "found" => call'[n].pc = "found"
      BY <1>1, <1>2, UnsharedLemma DEF TrackerStep, ListPods, FetchPodStatus, GetPodList,
         GetPodWrite, CompareStatus, CopyStatus, PodLost, NotifyStatus
    <2>2. tracked'.pc = "copy" => call'[Tracker].pc = "found"
      <3>1. CASE CompareStatus
        <4>1. tracked' = NoPodTracked \/ (UNCHANGED call /\ call[Tracker].pc = "found")
          BY <3>1 DEF CompareStatus
        <4>2. QED BY <4>1 DEF NoPodTracked
      <3>2. CASE GetPodList(Tracker) \/ GetPodWrite(Tracker)
        <4>1. UNCHANGED tracked /\ call[Tracker].pc # "found"
          BY <3>2 DEF GetPodList, GetPodWrite, trackerVars
        <4>2. tracked'.pc # "copy"
          BY <4>1 DEF CopierFound
        <4>3. QED BY <4>2
      <3>3. CASE ListPods \/ FetchPodStatus \/ CopyStatus \/ PodLost \/ NotifyStatus
        <4>1. tracked'.pc # "copy"
          BY <3>3 DEF ListPods, FetchPodStatus, CopyStatus, PodLost, NotifyStatus, NoPodTracked
        <4>2. QED BY <4>1
      <3>4. QED BY <1>2, <3>1, <3>2, <3>3 DEF TrackerStep
    <2>3. QED BY <2>1, <2>2 DEF CopierFound
  <1>3. CASE \E key \in MapKeys : PatchPodStatus(key)
    <2>1. PICK key \in MapKeys : PatchPodStatus(key)
      BY <1>3
    <2>2. UNCHANGED <<worker, tracked>>
      BY <2>1 DEF PatchPodStatus, trackerVars
    <2>3. ASSUME NEW c \in Callers, call[c].pc = "found" PROVE call'[c].pc = "found"
      <3>1. PICK q \in Pod, b \in BOOLEAN : call[c] = [pc |-> "found", pod |-> q, shared |-> b]
        BY <1>1, <2>3, CallStatesLemma
      <3>2. \A st : [call[c] EXCEPT !.pod.st = st].pc = "found"
        BY <3>1
      <3>3. QED BY <2>1, <2>3, <3>2 DEF PatchPodStatus
    <2>4. QED BY <1>1, <2>2, <2>3 DEF CopierFound
  <1>4. ASSUME NEW n \in Names, WorkerStep(n) PROVE CopierFound'
    <2>1. UNCHANGED tracked
      BY <1>4 DEF WorkerStep, Take, TakeDeleted, TakeStopped, TakeTerminating,
         TakeCompleted, TakeLive, GetPodRead, GetPodList, GetPodWrite, KeepPod, CreatePod,
         UpdatePod, NotifyUpdated, NothingToCollect, Collect, DeleteMissing, DeletePod,
         UpdatePodStatus, Finish, trackerVars
    <2>2. \A c \in Callers \ {n} : call'[c].pc = call[c].pc
      <3>1. \/ UNCHANGED call
            \/ \E v : call' = [call EXCEPT ![n] = v]
            \/ call' = Unshared(MapKey[n])
            \/ \E key, v : call' = [Unshared(key) EXCEPT ![n] = v]
        BY <1>4 DEF WorkerStep, Take, TakeDeleted, TakeStopped, TakeTerminating,
           TakeCompleted, TakeLive, GetPodRead, GetPodList, GetPodWrite, KeepPod,
           CreatePod, UpdatePod, NotifyUpdated, NothingToCollect, Collect,
           DeleteMissing, DeletePod, UpdatePodStatus, Finish
      <3>2. QED BY <1>1, <3>1, UnsharedLemma
    <2>3. \A m \in Names \ {n} : worker'[m] = worker[m]
      BY <1>1, <1>4 DEF WorkerStep, Take, TakeDeleted, TakeStopped, TakeTerminating,
         TakeCompleted, TakeLive, GetPodRead, GetPodList, GetPodWrite, KeepPod, CreatePod,
         UpdatePod, NotifyUpdated, NothingToCollect, Collect, DeleteMissing, DeletePod,
         UpdatePodStatus, Finish
    <2>4. worker'[n].pc = "updated" => call'[n].pc = "found"
      <3>1. CASE UpdatePod(n)
        BY <1>1, <3>1, UnsharedLemma DEF UpdatePod
      <3>2. CASE GetPodRead(n) \/ GetPodList(n) \/ GetPodWrite(n)
        <4>1. UNCHANGED worker /\ call[n].pc # "found"
          BY <3>2 DEF GetPodRead, GetPodList, GetPodWrite
        <4>2. QED BY <4>1 DEF CopierFound
      <3>3. CASE TakeDeleted(n) \/ TakeStopped(n) \/ TakeTerminating(n) \/ TakeCompleted(n)
                 \/ TakeLive(n)
        <4>1. worker'[n].pc # "updated"
          BY <1>1, <3>3 DEF Take, TakeDeleted, TakeStopped, TakeTerminating, TakeCompleted,
             TakeLive
        <4>2. QED BY <4>1
      <3>4. CASE Finish(n) \/ Collect(n)
        <4>1. worker'[n].pc # "updated"
          BY <1>1, <3>4 DEF Finish, Collect, Idle
        <4>2. QED BY <4>1
      <3>5. CASE DeletePod(n)
        <4>1. worker[n] = [pc |-> "remove", gone |-> worker[n].gone]
          BY <1>1, <3>5, WorkerStatesLemma DEF DeletePod
        <4>2. [worker[n] EXCEPT !.pc = "terminate"].pc = "terminate"
          BY <4>1
        <4>3. worker'[n].pc # "updated"
          BY <1>1, <3>5, <4>2 DEF DeletePod
        <4>4. QED BY <4>3
      <3>6. QED
        BY <1>4, <3>1, <3>2, <3>3, <3>4, <3>5 DEF WorkerStep, KeepPod, CreatePod,
           NotifyUpdated, NothingToCollect, DeleteMissing, UpdatePodStatus
    <2>5. QED BY <1>1, <2>1, <2>2, <2>3, <2>4 DEF CopierFound
  <1>5. CASE (\E n \in Names : SendStatus(n)) \/ \E u \in Pods : Sync(u)
    <2>1. UNCHANGED <<call, worker, tracked>>
      BY <1>5 DEF SendStatus, Sync, SyncAdded, SyncUpdated, SyncDeleted, trackerVars
    <2>2. QED BY <2>1 DEF CopierFound
  <1>6. CASE Restart
    BY <1>6 DEF Restart, Idle, NoPodTracked, CopierFound
  <1>7. QED BY <1>2, <1>3, <1>4, <1>5, <1>6 DEF KubeletStep

-----------------------------------------------------------------------------
(***************************************************************************)
(* What falls due is shown                                                 *)
(***************************************************************************)

\* No pod is born twice, none comes back, and time does not go back.
LEMMA ClientStepGrows ==
    ASSUME TypeOK, ClientStep
    PROVE  \A v \in Pods : /\ Born(v) => Born(v)'
                           /\ Going(v) => Going(v)'
                           /\ due[v] <= due'[v]
  <1>1. PICK u \in Pods : KillPod(u) \/ CreateApiPod(u) \/ DeleteApiPod(u) \/ FallDue(u)
    BY DEF ClientStep
  <1>2. \A v \in Pods : due[v] \in Nat /\ (due'[v] = due[v] \/ due'[v] = due[v] + 1)
    BY <1>1 DEF KillPod, CreateApiPod, DeleteApiPod, FallDue, TypeOK
  <1>3. \/ UNCHANGED life
        \/ life' = [life EXCEPT ![u] = "gone"]
        \/ life[u] = "live" /\ life' = [life EXCEPT ![u] = "deleting"]
        \/ life[u] = "unborn" /\ life' = [life EXCEPT ![u] = "live"]
    BY <1>1 DEF KillPod, CreateApiPod, DeleteApiPod, FallDue
  <1>4. \A v \in Pods : (Born(v) => Born(v)') /\ (Going(v) => Going(v)')
    BY <1>3 DEF TypeOK, Born, Going
  <1>5. \A v \in Pods : due[v] <= due'[v]
    BY <1>2
  <1>6. QED BY <1>4, <1>5

LEMMA ClientStepShows ==
    ASSUME IInv, TypeOK', ShowInv, ClientStep
    PROVE  ShowInv'
  <1>1. /\ UNCHANGED <<apiSt, seen, seenSt, podsMock, call, todo, tracked, worker, received>>
        /\ TypeOK /\ Tracker \in Callers
    BY ClientStepHolders DEF holders, IInv, Callers
  <1>2. \A u \in Pods : \A st : /\ Shows(u, st) => Shows(u, st)'
                                /\ ShowsOrLost(u, st) => ShowsOrLost(u, st)'
    BY <1>1, ClientStepGrows, GrowsLemma
  <1>3. /\ \A c \in Callers : call[c].pc \in {"write", "found"} => call[c].pod.uid \in Pods
        /\ \A c \in Callers : KeyOfCaller(c)' = KeyOfCaller(c)
    BY <1>1, CallStatesLemma, PodLemma DEF TypeOK, KeyOfCaller, NameOfCaller
  <1>4. /\ \A key \in DOMAIN podsMock : podsMock[key].uid \in Pods
        /\ \A p \in todo : p.uid \in Pods
        /\ \A n \in DOMAIN received : received[n].uid \in Pods
    BY <1>1, PodLemma DEF TypeOK
  <1>5. /\ tracked.pc \in {"fetch", "copy", "notify", "lost"} => tracked.pod.uid \in Pods
        /\ \A n \in Names : worker[n].pc \in {"create", "updated"} => worker[n].pod.uid \in Pods
    BY <1>1, TrackedStatesLemma, WorkerStatesLemma, PodLemma DEF TypeOK
  <1>6. ApiShows' /\ CacheShows'
    BY <1>1, <1>2 DEF ShowInv, ApiShows, CacheShows
  <1>7. MapShows' /\ CallsShow'
    BY <1>1, <1>2, <1>3, <1>4 DEF ShowInv, MapShows, CallsShow, KeyOf
  <1>8. TodoShows' /\ ReceivedShows'
    BY <1>1, <1>2, <1>4 DEF ShowInv, TodoShows, ReceivedShows
  <1>9. TrackedShows' /\ WorkersShow' /\ CopierFound'
    BY <1>1, <1>2, <1>5 DEF ShowInv, TrackedShows, WorkersShow, CopierFound
  <1>10. QED BY <1>6, <1>7, <1>8, <1>9 DEF ShowInv

LEMMA KubeletStepShows ==
    ASSUME IInv, ShowInv, KubeletStep
    PROVE  ShowInv'
  <1>1. TypeOK /\ DueInPlan
    BY DEF IInv
  <1>2. /\ ApiShows /\ CacheShows /\ MapShows /\ CallsShow /\ TodoShows
        /\ WorkersShow /\ ReceivedShows /\ CopierFound
    BY DEF ShowInv
  <1>3. UNCHANGED <<life, due>>
    BY WhoChanges
  <1>4. ApiShows'
    BY <1>1, <1>2, <1>3, WhoChanges, ApiShowsStep
  <1>5. CacheShows'
    BY <1>1, <1>2, <1>3, WhoChanges, CacheShowsStep
  <1>6. MapShows'
    BY <1>1, <1>2, <1>3, WhoChanges, MapShowsStep
  <1>7. CallsShow' /\ CopierFound'
    BY <1>1, <1>2, <1>3, CallsShowStep, CopierFoundStep
  <1>8. TodoShows'
    BY <1>1, <1>2, <1>3, WhoChanges, TodoShowsStep
  <1>9. TrackedShows'
    BY <1>3, WhoChanges, TrackedShowsStep
  <1>10. WorkersShow'
    BY <1>1, <1>2, <1>3, WhoChanges, WorkersShowStep
  <1>11. ReceivedShows'
    BY <1>3, WhoChanges, ReceivedShowsStep
  <1>12. QED
    BY <1>4, <1>5, <1>6, <1>7, <1>8, <1>9, <1>10, <1>11 DEF ShowInv

LEMMA ShowInit == Init => ShowInv
  BY DEF Init, ShowInv, ApiShows, CacheShows, MapShows, CallsShow, TodoShows, TrackedShows,
     WorkersShow, ReceivedShows, CopierFound, EmptyMap, NoCall, NoPodTracked, Idle

LEMMA ShowStutter == ShowInv /\ UNCHANGED vars => ShowInv'
  <1> SUFFICES ASSUME ShowInv, UNCHANGED vars PROVE ShowInv'
    OBVIOUS
  <1>1. UNCHANGED <<life, due, apiSt, seen, seenSt, podsMock, call, todo, tracked, worker, received>>
    BY DEF vars
  <1>2. /\ \A u, st : /\ Shows(u, st)' <=> Shows(u, st)
                      /\ ShowsOrLost(u, st)' <=> ShowsOrLost(u, st)
        /\ \A c : KeyOfCaller(c)' = KeyOfCaller(c)
    BY <1>1, SameLemma DEF KeyOfCaller, NameOfCaller
  <1>3. /\ ApiShows' /\ CacheShows' /\ MapShows' /\ CallsShow' /\ TodoShows'
    BY <1>1, <1>2 DEF ShowInv, ApiShows, CacheShows, MapShows, CallsShow, TodoShows, KeyOf
  <1>4. TrackedShows' /\ WorkersShow' /\ ReceivedShows' /\ CopierFound'
    BY <1>1, <1>2 DEF ShowInv, TrackedShows, WorkersShow, ReceivedShows, CopierFound
  <1>5. QED BY <1>3, <1>4 DEF ShowInv

THEOREM ShowInvariance == Spec => []ShowInv
  <1>1. IInv /\ IInv' /\ ShowInv /\ [Next]_vars => ShowInv'
    <2> SUFFICES ASSUME IInv, IInv', ShowInv, [Next]_vars PROVE ShowInv'
      OBVIOUS
    <2>1. CASE ClientStep
      BY <2>1, ClientStepShows DEF IInv
    <2>2. CASE KubeletStep
      BY <2>2, KubeletStepShows
    <2>3. CASE UNCHANGED vars
      BY <2>3, ShowStutter
    <2>4. QED BY <2>1, <2>2, <2>3, NextSplit
  <1>2. QED BY <1>1, ShowInit, Invariance, PTL DEF Spec

\* README.md:93-95: the API server never shows a live pod, whose key in the
\* map is its own, a phase or a condition before the annotation's delay has
\* passed, whatever races, restarts and late or repeated statuses there are.
THEOREM NeverEarlyTheorem == Spec => []NeverEarly
  <1>1. TypeOK /\ ShowInv => NeverEarly
    <2> SUFFICES ASSUME TypeOK, ShowInv, NEW u \in Pods, life[u] = "live", UniqueKey(u)
                 PROVE  \E a, b \in Allowed(u) : apiSt[u].phase = a.phase
                                                 /\ apiSt[u].desired = b.desired
      BY DEF NeverEarly
    <2>1. CASE apiSt[u] = NewStatus
      BY <2>1 DEF Allowed
    <2>2. CASE ShowsOrLost(u, apiSt[u])
      <3>1. Shows(u, apiSt[u])
        BY <2>2, ShowsLemma DEF Going
      <3>2. \A v \in Pods : Namesake(v, u) => v = u
        BY DEF UniqueKey, Namesake, Born
      <3>3. QED BY <3>1, <3>2 DEF Shows, PhaseDue, DesiredDue
    <2>3. QED BY <2>1, <2>2 DEF ShowInv, ApiShows
  <1>2. IInv => TypeOK
    BY DEF IInv
  <1>3. QED BY <1>1, <1>2, Invariance, ShowInvariance, PTL

-----------------------------------------------------------------------------
(***************************************************************************)
(* A pod goes only if it was asked to                                      *)
(***************************************************************************)

OnlyAsked ==
    /\ \A u \in Pods : Going(u) => u \in Deletable
    /\ \A u \in killed : Going(u)
    /\ \A n \in Names : worker[n].pc \in {"remove", "terminate"} =>
                          \A u \in worker[n].gone : Going(u)

LEMMA OnlyAskedClients ==
    ASSUME TypeOK, OnlyAsked, ClientStep
    PROVE  OnlyAsked'
  <1>1. PICK u \in Pods : KillPod(u) \/ CreateApiPod(u) \/ DeleteApiPod(u) \/ FallDue(u)
    BY DEF ClientStep
  <1>2. UNCHANGED worker /\ killed' \subseteq killed
    BY <1>1 DEF KillPod, CreateApiPod, DeleteApiPod, FallDue, kubeletVars
  <1>3. \A v \in Pods : Going(v) => Going(v)'
    BY ClientStepGrows
  <1>4. \A v \in Pods : Going(v)' => Going(v) \/ v \in Deletable
    <2>1. CASE KillPod(u)
      <3>1. Going(u)
        BY <2>1 DEF KillPod, OnlyAsked
      <3>2. QED BY <2>1, <3>1 DEF KillPod, Going, TypeOK
    <2>2. CASE CreateApiPod(u) \/ DeleteApiPod(u) \/ FallDue(u)
      BY <2>2 DEF CreateApiPod, DeleteApiPod, FallDue, Going, TypeOK
    <2>3. QED BY <1>1, <2>1, <2>2
  <1>5. /\ killed \subseteq Pods
        /\ \A n \in Names : worker[n].pc \in {"remove", "terminate"} => worker[n].gone \subseteq Pods
    BY WorkerStatesLemma DEF TypeOK
  <1>6. QED BY <1>2, <1>3, <1>4, <1>5 DEF OnlyAsked

LEMMA OnlyAskedKubelet ==
    ASSUME TypeOK, CacheBehind, OnlyAsked, KubeletStep
    PROVE  OnlyAsked'
  <1>1. worker \in [Names -> WorkerStates] /\ \A v \in Pods : Going(v)' <=> Going(v)
    BY WhoChanges, SameLemma DEF TypeOK
  <1>2. \A v \in Pods : seen[v] = "deleting" => Going(v)
    BY DEF CacheBehind, Going
  <1>3. /\ killed \subseteq Pods
        /\ \A n \in Names : worker[n].pc \in {"remove", "terminate"} => worker[n].gone \subseteq Pods
    BY WorkerStatesLemma DEF TypeOK
  <1>4. CASE UNCHANGED <<worker, killed>>
    BY <1>1, <1>3, <1>4 DEF OnlyAsked
  <1>5. ASSUME NEW n \in Names, WorkerStep(n) PROVE OnlyAsked'
    <2>1. \A m \in Names \ {n} : worker'[m] = worker[m]
      BY <1>1, <1>5 DEF WorkerStep, Take, TakeDeleted, TakeStopped, TakeTerminating,
         TakeCompleted, TakeLive, GetPodRead, GetPodList, GetPodWrite, KeepPod, CreatePod,
         UpdatePod, NotifyUpdated, NothingToCollect, Collect, DeleteMissing, DeletePod,
         UpdatePodStatus, Finish
    <2>2. \A u \in killed' : Going(u)
      <3>1. CASE TakeStopped(n)
        <4>1. PICK u \in Pods : seen[u] = "deleting" /\ killed' = killed \cup {u}
          BY <3>1 DEF TakeStopped, Listed
        <4>2. QED BY <1>2, <4>1 DEF OnlyAsked
      <3>2. CASE DeleteMissing(n) \/ UpdatePodStatus(n)
        BY <3>2 DEF DeleteMissing, UpdatePodStatus, OnlyAsked
      <3>3. CASE UNCHANGED killed
        BY <3>3 DEF OnlyAsked
      <3>4. QED
        BY <1>5, <3>1, <3>2, <3>3 DEF WorkerStep, TakeDeleted, TakeTerminating,
           TakeCompleted, TakeLive, GetPodRead, GetPodList, GetPodWrite, KeepPod, CreatePod,
           UpdatePod, NotifyUpdated, NothingToCollect, Collect, DeletePod
    <2>3. worker'[n].pc \in {"remove", "terminate"} => \A u \in worker'[n].gone : Going(u)
      <3>1. CASE TakeTerminating(n)
        <4>1. PICK u \in Pods :
                seen[u] = "deleting" /\ worker' = [worker EXCEPT ![n] = [pc |-> "remove", gone |-> {u}]]
          BY <3>1 DEF TakeTerminating, Listed
        <4>2. worker'[n].gone = {u}
          BY <1>1, <4>1
        <4>3. QED BY <1>2, <4>1, <4>2
      <3>2. CASE Collect(n)
        <4>1. worker'[n].gone = {}
          BY <1>1, <3>2 DEF Collect
        <4>2. QED BY <4>1
      <3>3. CASE DeletePod(n)
        <4>1. worker[n] = [pc |-> "remove", gone |-> worker[n].gone] /\ worker[n].pc = "remove"
          BY <1>1, <3>3, WorkerStatesLemma DEF DeletePod
        <4>2. [worker[n] EXCEPT !.pc = "terminate"].gone = worker[n].gone
          BY <4>1
        <4>3. worker'[n].gone = worker[n].gone
          BY <1>1, <3>3, <4>2 DEF DeletePod
        <4>4. QED BY <4>1, <4>3 DEF OnlyAsked
      <3>4. CASE UpdatePod(n)
        <4>1. worker[n] = [pc |-> "create", pod |-> worker[n].pod]
          BY <1>1, <3>4, WorkerStatesLemma DEF UpdatePod
        <4>2. [worker[n] EXCEPT !.pc = "updated"].pc = "updated"
          BY <4>1
        <4>3. worker'[n].pc = "updated"
          BY <1>1, <3>4, <4>2 DEF UpdatePod
        <4>4. QED BY <4>3
      <3>5. CASE TakeDeleted(n) \/ TakeLive(n) \/ Finish(n)
        <4>1. worker'[n].pc \notin {"remove", "terminate"}
          BY <1>1, <3>5 DEF TakeDeleted, TakeLive, Finish, Idle
        <4>2. QED BY <4>1
      <3>6. CASE UNCHANGED worker
        BY <3>6 DEF OnlyAsked
      <3>7. QED
        BY <1>5, <3>1, <3>2, <3>3, <3>4, <3>5, <3>6 DEF WorkerStep, TakeStopped,
           TakeCompleted, GetPodRead, GetPodList, GetPodWrite, KeepPod, CreatePod,
           NotifyUpdated, NothingToCollect, DeleteMissing, UpdatePodStatus
    <2>4. killed' \subseteq Pods
      BY <1>3, <1>5 DEF WorkerStep, TakeDeleted, TakeStopped, TakeTerminating, TakeCompleted,
         TakeLive, GetPodRead, GetPodList, GetPodWrite, KeepPod, CreatePod, UpdatePod,
         NotifyUpdated, NothingToCollect, Collect, DeleteMissing, DeletePod,
         UpdatePodStatus, Listed
    <2>5. \A m \in Names : worker'[m].pc \in {"remove", "terminate"} =>
                             \A u \in worker'[m].gone : Going(u)
      BY <2>1, <2>3 DEF OnlyAsked
    <2>6. \A u : Going(u)' <=> Going(u)
      BY WhoChanges, SameLemma
    <2>7. QED BY <2>2, <2>5, <2>6 DEF OnlyAsked
  <1>6. CASE TrackerStep \/ (\E key \in MapKeys : PatchPodStatus(key))
             \/ \E n \in Names : SendStatus(n)
    <2>1. UNCHANGED <<worker, killed>>
      BY <1>6 DEF TrackerStep, ListPods, FetchPodStatus, GetPodList, GetPodWrite,
         CompareStatus, CopyStatus, PodLost, NotifyStatus, PatchPodStatus, SendStatus
    <2>2. QED BY <1>4, <2>1
  <1>7. CASE \E u \in Pods : Sync(u)
    <2>1. UNCHANGED worker /\ killed' \subseteq killed
      BY <1>7 DEF Sync, SyncAdded, SyncUpdated, SyncDeleted
    <2>2. QED BY <1>1, <1>3, <2>1 DEF OnlyAsked
  <1>8. CASE Restart
    <2>1. killed' = {} /\ \A n \in Names : worker'[n].pc = "idle"
      BY <1>8 DEF Restart, Idle
    <2>2. QED BY <1>1, <2>1 DEF OnlyAsked
  <1>9. QED BY <1>5, <1>6, <1>7, <1>8 DEF KubeletStep

THEOREM AskedInvariance == Spec => []OnlyAsked
  <1>1. Init => OnlyAsked
    BY DEF Init, OnlyAsked, Going, Idle
  <1>2. IInv /\ OnlyAsked /\ [Next]_vars => OnlyAsked'
    <2> SUFFICES ASSUME IInv, OnlyAsked, [Next]_vars PROVE OnlyAsked'
      OBVIOUS
    <2>1. CASE ClientStep
      BY <2>1, OnlyAskedClients DEF IInv
    <2>2. CASE KubeletStep
      BY <2>2, OnlyAskedKubelet DEF IInv
    <2>3. CASE UNCHANGED vars
      BY <2>3 DEF vars, OnlyAsked, Going
    <2>4. QED BY <2>1, <2>2, <2>3, NextSplit
  <1>3. QED BY <1>1, <1>2, Invariance, PTL DEF Spec

-----------------------------------------------------------------------------
(***************************************************************************)
(* The kubelet's steps are steps of PodLife                                *)
(***************************************************************************)

\* The schedules of PodLife are the plans.
LEMMA LaterLemma ==
    ASSUME NEW u \in Pods
    PROVE  Len([i \in 1..Len(Plan[u]) |-> CreateStatus(Plan[u][i])]) = Len(Plan[u])
  <1>1. Plan[u] \in Seq(Annotations)
    BY PlanAssumption
  <1>2. Len(Plan[u]) \in Nat
    BY <1>1
  <1>3. \A n \in Nat : \A e : e = [i \in 1..n |-> CreateStatus(Plan[u][i])] => Len(e) = n
    OBVIOUS
  <1>4. QED BY <1>2, <1>3

LEMMA AllowedLemma ==
    ASSUME TypeOK, DueInPlan, NEW u \in Pods, NEW v \in Pods, KeyOf(v) = KeyOf(u),
           NEW a \in Allowed(v)
    PROVE  a \in Life!Allowed(u)
  <1> DEFINE Namesakes == [x \in Pods |-> {y \in Pods : KeyOf(y) = KeyOf(x)}]
             Initial == [x \in Pods |->
                           {NewStatus} \cup (IF Plan[x] = <<>> THEN {DefaultStatus} ELSE {})]
             Later == [x \in Pods |-> [i \in 1..Len(Plan[x]) |-> CreateStatus(Plan[x][i])]]
             Own(w) == Initial[w] \cup {Later[w][i] : i \in 1..due[w]}
  <1>1. Life!Allowed(u) = UNION {Own(w) : w \in Namesakes[u]}
    BY DEF Life!Allowed
  <1>2. v \in Namesakes[u]
    OBVIOUS
  <1>3. a \in Own(v)
    <2>1. /\ Initial[v] = {NewStatus} \cup (IF Plan[v] = <<>> THEN {DefaultStatus} ELSE {})
          /\ Later[v] = [i \in 1..Len(Plan[v]) |-> CreateStatus(Plan[v][i])]
      OBVIOUS
    <2>2. \A i \in 1..due[v] : i \in 1..Len(Plan[v])
      <3>1. Plan[v] \in Seq(Annotations) /\ due[v] \in Nat /\ due[v] <= Len(Plan[v])
        BY PlanAssumption DEF TypeOK, DueInPlan
      <3>2. Len(Plan[v]) \in Nat
        BY <3>1
      <3>3. QED BY <3>1, <3>2
    <2> HIDE DEF Initial, Later
    <2>3. \A i \in 1..due[v] : Later[v][i] = CreateStatus(Plan[v][i])
      BY <2>1, <2>2
    <2>4. QED BY <2>1, <2>3 DEF Allowed
  <1> HIDE DEF Own, Namesakes
  <1>4. QED BY <1>1, <1>2, <1>3

\* A status that shows no more than has fallen due, or that the pod was lost,
\* is one that PodLife lets the pod show.
LEMMA MayShowLemma ==
    ASSUME TypeOK, DueInPlan, NEW u \in Pods, NEW st, ShowsOrLost(u, st), life[u] # "gone"
    PROVE  Life!MayShow(u, st)
  <1>1. \E b \in Life!Allowed(u) : st.desired = b.desired
    BY AllowedLemma DEF ShowsOrLost, DesiredDue, Namesake
  <1>2. \/ \E a \in Life!Allowed(u) : st.phase = a.phase
        \/ life[u] = "deleting" /\ st.phase = "Failed"
    BY AllowedLemma DEF ShowsOrLost, PhaseDue, Namesake, Going
  <1>3. QED BY <1>1, <1>2 DEF Life!MayShow

LEMMA LifeInitial == Init => Life!Init
  <1> SUFFICES ASSUME Init PROVE Life!Init
    OBVIOUS
  <1>1. apiSt \in [Pods -> Status]
    BY StatusLemma DEF Init
  <1>2. QED BY <1>1 DEF Init, Life!Init

\* What the clients do, and time, and the removal of a pod.
LEMMA ClientLifeStep ==
    ASSUME TypeOK, OnlyAsked, ClientStep
    PROVE  [Life!Next]_(Life!vars)
  <1>1. PICK u \in Pods : KillPod(u) \/ CreateApiPod(u) \/ DeleteApiPod(u) \/ FallDue(u)
    BY DEF ClientStep
  <1>2. CASE KillPod(u)
    <2>1. UNCHANGED <<due, apiSt>> /\ u \in Deletable /\ life[u] \in {"deleting", "gone"}
      BY <1>2 DEF KillPod, OnlyAsked, Going
    <2>2. CASE UNCHANGED life
      BY <2>1, <2>2 DEF Life!vars
    <2>3. CASE life' = [life EXCEPT ![u] = "gone"] /\ life[u] = "deleting"
      <3>1. Life!Remove(u)
        BY <2>1, <2>3 DEF Life!Remove
      <3>2. QED BY <3>1 DEF Life!Next
    <2>4. CASE life' = [life EXCEPT ![u] = "gone"] /\ life[u] = "gone"
      <3>1. life' = life
        BY <2>4 DEF TypeOK
      <3>2. QED BY <2>2, <3>1
    <2>5. QED BY <1>2, <2>1, <2>2, <2>3, <2>4 DEF KillPod
  <1>3. CASE CreateApiPod(u)
    <2>1. Life!Create(u)
      BY <1>3 DEF CreateApiPod, Life!Create
    <2>2. QED BY <2>1 DEF Life!Next
  <1>4. CASE DeleteApiPod(u)
    <2>1. Life!Ask(u) \/ Life!Remove(u)
      BY <1>4 DEF DeleteApiPod, Life!Ask, Life!Remove
    <2>2. QED BY <2>1 DEF Life!Next
  <1>5. CASE FallDue(u)
    <2>1. due[u] < Len([i \in 1..Len(Plan[u]) |-> CreateStatus(Plan[u][i])])
      BY <1>5, LaterLemma DEF FallDue
    <2>2. Life!FallDue(u)
      BY <1>5, <2>1 DEF FallDue, Life!FallDue
    <2>3. QED BY <2>2 DEF Life!Next
  <1>6. QED BY <1>1, <1>2, <1>3, <1>4, <1>5

\* Of all the rest of the kubelet, PodLife sees the statuses that are sent.
LEMMA KubeletLifeStep ==
    ASSUME TypeOK, DueInPlan, ReceivedShows, KubeletStep
    PROVE  [Life!Next]_(Life!vars)
  <1>1. UNCHANGED <<life, due>>
    BY WhoChanges
  <1>2. CASE UNCHANGED apiSt
    BY <1>1, <1>2 DEF Life!vars
  <1>3. ASSUME NEW n \in Names, SendStatus(n), ~UNCHANGED apiSt
        PROVE  Life!Next
    <2> DEFINE u == received[n].uid
               st == received[n].st
    <2>1. /\ n \in DOMAIN received
          /\ life[u] \in {"live", "deleting"}
          /\ apiSt' = [apiSt EXCEPT ![u] = st]
      BY <1>3 DEF SendStatus
    <2>2. received[n] \in Pod
      BY <2>1 DEF TypeOK
    <2>3. u \in Pods /\ st \in Status /\ ShowsOrLost(u, st)
      BY <2>1, <2>2, PodLemma DEF ReceivedShows
    <2> HIDE DEF u, st
    <2>4. Life!MayShow(u, st)
      BY <2>1, <2>3, MayShowLemma
    <2>5. Life!Show(u)
      BY <1>1, <2>1, <2>3, <2>4 DEF Life!Show
    <2>6. QED BY <2>3, <2>5 DEF Life!Next
  <1>4. QED BY <1>2, <1>3, WhoChanges

\* The kubelet implements PodLife, as to what it may do, whatever names are
\* used again and whatever keys of the map collide: it removes only pods that
\* somebody asked to delete, and shows of a pod only what has fallen due for it
\* or for one it was taken for.
THEOREM StepsOfPodLifeTheorem == Spec => StepsOfPodLife
  <1>1. IInv /\ ShowInv /\ OnlyAsked /\ [Next]_vars => [Life!Next]_(Life!vars)
    <2> SUFFICES ASSUME IInv, ShowInv, OnlyAsked, [Next]_vars
                 PROVE  [Life!Next]_(Life!vars)
      OBVIOUS
    <2>1. CASE ClientStep
      BY <2>1, ClientLifeStep DEF IInv
    <2>2. CASE KubeletStep
      BY <2>2, KubeletLifeStep DEF IInv, ShowInv
    <2>3. CASE UNCHANGED vars
      BY <2>3 DEF vars, Life!vars
    <2>4. QED BY <2>1, <2>2, <2>3, NextSplit
  <1>2. QED
    BY <1>1, LifeInitial, Invariance, ShowInvariance, AskedInvariance, PTL
    DEF Spec, StepsOfPodLife, Life!Spec

-----------------------------------------------------------------------------
(***************************************************************************)
(* A live pod is simulated once its worker is done                         *)
(***************************************************************************)

\* The cache holds at most one pod of a name.
OneListed ==
    \A u, v \in Pods :
        seen[u] # "absent" /\ seen[v] # "absent" /\ NameOf[u] = NameOf[v] => u = v

\* The status of a pod that the cache knows as completed is not written again.
CompletedStays ==
    \A u \in Pods : seen[u] # "absent" /\ IsTerminal(seenSt[u]) => apiSt[u] = seenSt[u]

\* A pod that its worker is to have created: the cache has it, it is not
\* completed, its key is its own, and it is not in the queue.
Admitted(u) ==
    /\ OwnKey(NameOf[u])
    /\ seen[u] = "live" /\ ~IsTerminal(seenSt[u])
    /\ NameOf[u] \notin queued

\* The worker creates the pod of the name, or the map has it.
Known(n) ==
    \/ worker[n].pc = "create" /\ (call[n].pc = "found" => MapKey[n] \in DOMAIN podsMock)
    \/ worker[n].pc \in {"idle", "updated"} /\ MapKey[n] \in DOMAIN podsMock

CreatedKnown == \A u \in Pods : Admitted(u) => Known(NameOf[u])

KnownInv == OneListed /\ CompletedStays /\ CreatedKnown

LEMMA OneListedStep ==
    ASSUME TypeOK, OneListed, KubeletStep
    PROVE  OneListed'
  <1>1. CASE UNCHANGED seen
    BY <1>1 DEF OneListed
  <1>2. ASSUME NEW u \in Pods, Sync(u) PROVE OneListed'
    <2>1. \/ Listed(NameOf[u]) = {} /\ seen' = [seen EXCEPT ![u] = life[u]]
          \/ seen[u] # "absent" /\ seen' = [seen EXCEPT ![u] = life[u]]
          \/ seen' = [seen EXCEPT ![u] = "absent"]
      BY <1>2 DEF Sync, SyncAdded, SyncUpdated, SyncDeleted
    <2>2. Listed(NameOf[u]) = {} => \A v \in Pods : NameOf[v] = NameOf[u] => seen[v] = "absent"
      BY DEF Listed
    <2>3. \A v \in Pods \ {u} : seen'[v] = seen[v]
      BY <2>1 DEF TypeOK
    <2>4. seen'[u] = "absent" \/ seen[u] # "absent"
          \/ \A v \in Pods : NameOf[v] = NameOf[u] => seen[v] = "absent"
      BY <2>1, <2>2 DEF TypeOK
    <2>5. QED BY <2>3, <2>4 DEF OneListed
  <1>3. CASE Restart
    BY <1>3 DEF Restart, OneListed
  <1>4. QED BY <1>1, <1>2, <1>3, WhoChanges

\* updatePodStatus writes no status while the cache knows the pod as completed.
LEMMA CompletedStaysStep ==
    ASSUME TypeOK, ReceivedShows, OneListed, CompletedStays, KubeletStep
    PROVE  CompletedStays'
  <1>1. CASE UNCHANGED <<apiSt, seen, seenSt>>
    BY <1>1 DEF CompletedStays, IsTerminal
  <1>2. ASSUME NEW n \in Names, SendStatus(n), ~UNCHANGED apiSt PROVE CompletedStays'
    <2>1. PICK u \in Listed(n) : /\ n \in DOMAIN received /\ ~IsTerminal(seenSt[u])
      BY <1>2 DEF SendStatus
    <2>2. UNCHANGED <<seen, seenSt>> /\ apiSt' = [apiSt EXCEPT ![received[n].uid] = received[n].st]
      BY <1>2 DEF SendStatus, cacheVars
    <2> DEFINE v == received[n].uid
    <2>3. v \in Pods /\ NameOf[v] = n
      BY <2>1, PodLemma DEF TypeOK, ReceivedShows
    <2>4. u \in Pods /\ NameOf[u] = n /\ seen[u] # "absent"
      BY DEF Listed
    <2>5. seen[v] # "absent" => ~IsTerminal(seenSt[v])
      BY <2>1, <2>3, <2>4 DEF OneListed
    <2>6. \A w \in Pods \ {v} : apiSt'[w] = apiSt[w]
      BY <2>2 DEF TypeOK
    <2> HIDE DEF v
    <2>7. QED BY <2>2, <2>5, <2>6 DEF CompletedStays, IsTerminal
  <1>3. ASSUME NEW u \in Pods, Sync(u) PROVE CompletedStays'
    <2>1. /\ UNCHANGED apiSt
          /\ \A v \in Pods \ {u} : seen'[v] = seen[v] /\ seenSt'[v] = seenSt[v]
          /\ seen'[u] = "absent" \/ seenSt'[u] = apiSt[u]
      BY <1>3 DEF Sync, SyncAdded, SyncUpdated, SyncDeleted, TypeOK, apiVars
    <2>2. QED BY <2>1 DEF CompletedStays, IsTerminal
  <1>4. CASE Restart
    BY <1>4 DEF Restart, CompletedStays
  <1>5. CASE UNCHANGED apiSt /\ ~UNCHANGED <<seen, seenSt>>
    BY <1>3, <1>4, <1>5, WhoChanges
  <1>6. QED BY <1>1, <1>2, <1>5, WhoChanges

\* A step after which no more is admitted, and what was known still is.
LEMMA KnownLemma ==
    ASSUME CreatedKnown,
           \A u \in Pods : Admitted(u)' => Admitted(u),
           \A u \in Pods : Admitted(u) /\ Admitted(u)' /\ Known(NameOf[u]) => Known(NameOf[u])'
    PROVE  CreatedKnown'
  BY DEF CreatedKnown

LEMMA KnownSame ==
    ASSUME UNCHANGED <<seen, seenSt, queued, worker>>, CreatedKnown,
           DOMAIN podsMock \subseteq DOMAIN podsMock',
           \A n \in Names : call'[n].pc = call[n].pc
    PROVE  CreatedKnown'
  <1>1. \A u \in Pods : Admitted(u)' => Admitted(u)
    BY DEF Admitted, IsTerminal, OwnKey
  <1>2. \A n \in Names : Known(n) => Known(n)'
    BY DEF Known
  <1>3. \A u \in Pods : NameOf[u] \in Names
    BY NameOfAssumption
  <1>4. QED BY <1>1, <1>2, <1>3, KnownLemma

LEMMA KnownTracker ==
    ASSUME TypeOK, CreatedKnown, TrackerStep
    PROVE  CreatedKnown'
  <1>1. /\ call \in [Callers -> CallStates] /\ Tracker \in Callers
        /\ Tracker \notin Names /\ Names \subseteq Callers
    BY NamesAssumption DEF TypeOK, Callers
  <1>2. UNCHANGED <<seen, seenSt, queued, worker>>
    BY DEF TrackerStep, ListPods, FetchPodStatus, GetPodList, GetPodWrite, CompareStatus,
       CopyStatus, PodLost, NotifyStatus, cacheVars
  <1>3. \A n \in Names : call'[n].pc = call[n].pc
    BY <1>1, UnsharedLemma DEF TrackerStep, ListPods, FetchPodStatus, GetPodList,
       GetPodWrite, CompareStatus, CopyStatus, PodLost, NotifyStatus
  <1>4. DOMAIN podsMock \subseteq DOMAIN podsMock'
    <2>1. CASE GetPodWrite(Tracker)
      BY <2>1 DEF GetPodWrite, With
    <2>2. CASE ~GetPodWrite(Tracker)
      BY <2>2 DEF TrackerStep, ListPods, FetchPodStatus, GetPodList, CompareStatus,
         CopyStatus, PodLost, NotifyStatus
    <2>3. QED BY <2>1, <2>2
  <1>5. QED BY <1>2, <1>3, <1>4, KnownSame

LEMMA KnownPatch ==
    ASSUME TypeOK, DueInPlan, CreatedKnown, NEW key \in MapKeys, PatchPodStatus(key)
    PROVE  CreatedKnown'
  <1>1. UNCHANGED <<seen, seenSt, queued, worker>> /\ DOMAIN podsMock' = DOMAIN podsMock
    BY DEF PatchPodStatus, cacheVars
  <1>2. \A n \in Names : call'[n].pc = call[n].pc
    BY PatchPodStatusTypes DEF Callers
  <1>3. QED BY <1>1, <1>2, KnownSame

\* The worker of another name leaves a key alone that is not its own.
LEMMA KnownElsewhere ==
    ASSUME TypeOK, NEW n \in Names, WorkerStep(n), NEW m \in Names \ {n}, OwnKey(m), Known(m)
    PROVE  Known(m)'
  <1>1. /\ call \in [Callers -> CallStates] /\ worker \in [Names -> WorkerStates]
        /\ m \in Callers /\ n \in Callers
    BY DEF TypeOK, Callers
  <1>2. worker'[m] = worker[m]
    BY <1>1 DEF WorkerStep, Take, TakeDeleted, TakeStopped, TakeTerminating,
       TakeCompleted, TakeLive, GetPodRead, GetPodList, GetPodWrite, KeepPod, CreatePod,
       UpdatePod, NotifyUpdated, NothingToCollect, Collect, DeleteMissing, DeletePod,
       UpdatePodStatus, Finish
  <1>3. call'[m].pc = call[m].pc
    <2>1. \/ UNCHANGED call
          \/ \E v : call' = [call EXCEPT ![n] = v]
          \/ call' = Unshared(MapKey[n])
          \/ \E key, v : call' = [Unshared(key) EXCEPT ![n] = v]
      BY DEF WorkerStep, Take, TakeDeleted, TakeStopped, TakeTerminating,
         TakeCompleted, TakeLive, GetPodRead, GetPodList, GetPodWrite, KeepPod,
         CreatePod, UpdatePod, NotifyUpdated, NothingToCollect, Collect,
         DeleteMissing, DeletePod, UpdatePodStatus, Finish
    <2>2. QED BY <1>1, <2>1, UnsharedLemma
  <1>4. MapKey[m] \in DOMAIN podsMock => MapKey[m] \in DOMAIN podsMock'
    <2>1. CASE DeletePod(n)
      <3>1. MapKey[m] # MapKey[n]
        BY DEF OwnKey
      <3>2. QED BY <2>1, <3>1 DEF DeletePod, Without
    <2>2. CASE GetPodWrite(n) \/ CreatePod(n) \/ UpdatePod(n)
      BY <2>2 DEF GetPodWrite, CreatePod, UpdatePod, With
    <2>3. CASE UNCHANGED podsMock
      BY <2>3
    <2>4. QED
      BY <2>1, <2>2, <2>3 DEF WorkerStep, Take, TakeDeleted, TakeStopped, TakeTerminating,
         TakeCompleted, TakeLive, GetPodRead, GetPodList, KeepPod, NotifyUpdated,
         NothingToCollect, Collect, DeleteMissing, UpdatePodStatus
  <1>5. QED BY <1>2, <1>3, <1>4 DEF Known

\* The worker of the name itself: createOrUpdatePod ends with the pod in the
\* map, whichever of its branches it takes.
LEMMA KnownHere ==
    ASSUME TypeOK, OneListed, NEW n \in Names, WorkerStep(n), NEW u \in Pods, NameOf[u] = n,
           seen[u] = "live", ~IsTerminal(seenSt[u]),
           n \notin queued => Known(n), n \notin queued'
    PROVE  Known(n)'
  <1>1. /\ call \in [Callers -> CallStates] /\ worker \in [Names -> WorkerStates]
        /\ n \in Callers
    BY DEF TypeOK, Callers
  <1>2. u \in Listed(n) /\ \A v \in Listed(n) : v = u
    BY DEF Listed, OneListed
  <1>3. CASE TakeDeleted(n) \/ TakeStopped(n) \/ TakeTerminating(n) \/ TakeCompleted(n)
    BY <1>2, <1>3 DEF TakeDeleted, TakeStopped, TakeTerminating, TakeCompleted
  <1>4. CASE TakeLive(n)
    <2>1. worker'[n].pc = "create" /\ call'[n].pc = "read"
      BY <1>1, <1>4 DEF TakeLive
    <2>2. QED BY <2>1 DEF Known
  <1>5. ASSUME n \notin queued
        PROVE  Known(n)'
    <2>1. Known(n)
      BY <1>5
    <2>2. CASE GetPodRead(n)
      <3>1. worker[n].pc = "create" \/ MapKey[n] \in DOMAIN podsMock
        BY <2>1 DEF Known
      <3>2. call'[n].pc = "found" => MapKey[n] \in DOMAIN podsMock
        BY <1>1, <2>2, KeyOfWorker DEF GetPodRead, Read
      <3>3. UNCHANGED <<worker, podsMock>>
        BY <2>2 DEF GetPodRead
      <3>4. QED BY <2>1, <3>2, <3>3 DEF Known
    <2>3. CASE GetPodList(n)
      <3>1. UNCHANGED <<worker, podsMock>> /\ call'[n].pc # "found"
        BY <1>1, <2>3 DEF GetPodList
      <3>2. QED BY <2>1, <3>1 DEF Known
    <2>4. CASE GetPodWrite(n)
      <3>1. UNCHANGED worker /\ MapKey[n] \in DOMAIN podsMock'
        BY <2>4, KeyOfWorker DEF GetPodWrite, With
      <3>2. QED BY <2>1, <3>1 DEF Known
    <2>5. CASE KeepPod(n)
      <3>1. worker'[n].pc = "idle" /\ UNCHANGED podsMock
        BY <1>1, <2>5 DEF KeepPod, Finish, Idle
      <3>2. QED BY <2>1, <2>5, <3>1 DEF Known, KeepPod
    <2>6. CASE CreatePod(n)
      <3>1. worker'[n].pc = "idle" /\ MapKey[n] \in DOMAIN podsMock'
        BY <1>1, <2>6 DEF CreatePod, Finish, Idle, With
      <3>2. QED BY <3>1 DEF Known
    <2>7. CASE UpdatePod(n)
      <3>1. worker[n] = [pc |-> "create", pod |-> worker[n].pod]
        BY <1>1, <2>7, WorkerStatesLemma DEF UpdatePod
      <3>2. [worker[n] EXCEPT !.pc = "updated"].pc = "updated"
        BY <3>1
      <3>3. worker'[n].pc = "updated" /\ MapKey[n] \in DOMAIN podsMock'
        BY <1>1, <2>7, <3>2 DEF UpdatePod, With
      <3>4. QED BY <3>3 DEF Known
    <2>8. CASE NotifyUpdated(n)
      <3>1. worker'[n].pc = "idle" /\ UNCHANGED podsMock
        BY <1>1, <2>8 DEF NotifyUpdated, Finish, Idle
      <3>2. QED BY <2>1, <2>8, <3>1 DEF Known, NotifyUpdated
    <2>9. CASE \/ NothingToCollect(n) \/ Collect(n) \/ DeleteMissing(n) \/ DeletePod(n)
               \/ UpdatePodStatus(n)
      BY <2>1, <2>9 DEF Known, NothingToCollect, Collect, DeleteMissing, DeletePod,
         UpdatePodStatus
    <2>10. CASE \/ TakeDeleted(n) \/ TakeStopped(n) \/ TakeTerminating(n)
                \/ TakeCompleted(n) \/ TakeLive(n)
      BY <1>3, <1>4, <2>10
    <2>11. QED
      BY <2>2, <2>3, <2>4, <2>5, <2>6, <2>7, <2>8, <2>9, <2>10 DEF WorkerStep
  <1>6. \/ n \notin queued
        \/ TakeDeleted(n) \/ TakeStopped(n) \/ TakeTerminating(n) \/ TakeCompleted(n)
        \/ TakeLive(n)
    BY DEF WorkerStep, GetPodRead, GetPodList, GetPodWrite, KeepPod, CreatePod, UpdatePod,
       NotifyUpdated, NothingToCollect, Collect, DeleteMissing, DeletePod,
       UpdatePodStatus, Finish
  <1>7. QED BY <1>3, <1>4, <1>5, <1>6

LEMMA KnownWorker ==
    ASSUME TypeOK, OneListed, CreatedKnown, NEW n \in Names, WorkerStep(n)
    PROVE  CreatedKnown'
  <1>1. UNCHANGED <<seen, seenSt>> /\ queued \ {n} \subseteq queued'
    BY DEF WorkerStep, Take, TakeDeleted, TakeStopped, TakeTerminating, TakeCompleted,
       TakeLive, GetPodRead, GetPodList, GetPodWrite, KeepPod, CreatePod, UpdatePod,
       NotifyUpdated, NothingToCollect, Collect, DeleteMissing, DeletePod,
       UpdatePodStatus, Finish, cacheVars
  <1>2. ASSUME NEW u \in Pods, Admitted(u)' PROVE Known(NameOf[u])'
    <2>1. /\ OwnKey(NameOf[u]) /\ seen[u] = "live" /\ ~IsTerminal(seenSt[u])
          /\ NameOf[u] \in Names /\ NameOf[u] \notin queued'
      BY <1>1, <1>2, NameOfAssumption DEF Admitted, OwnKey, IsTerminal
    <2>2. NameOf[u] \notin queued => Known(NameOf[u])
      BY <2>1 DEF CreatedKnown, Admitted
    <2>3. CASE NameOf[u] = n
      BY <2>1, <2>2, <2>3, KnownHere
    <2>4. CASE NameOf[u] # n
      <3>1. Known(NameOf[u])
        BY <1>1, <2>1, <2>2, <2>4
      <3>2. QED BY <2>1, <2>4, <3>1, KnownElsewhere
    <2>5. QED BY <2>3, <2>4
  <1>3. QED BY <1>2 DEF CreatedKnown

\* The informer queues the name of a pod that it adds, and a completed pod
\* does not run again.
LEMMA KnownSync ==
    ASSUME TypeOK, CompletedStays, CreatedKnown, NEW v \in Pods, Sync(v)
    PROVE  CreatedKnown'
  <1>1. /\ UNCHANGED <<worker, call, podsMock>> /\ queued \subseteq queued'
        /\ \A u \in Pods \ {v} : seen'[u] = seen[u] /\ seenSt'[u] = seenSt[u]
    BY DEF Sync, SyncAdded, SyncUpdated, SyncDeleted, TypeOK
  <1>2. ASSUME NEW u \in Pods, Admitted(u)' PROVE Admitted(u)
    <2>1. /\ OwnKey(NameOf[u]) /\ NameOf[u] \notin queued /\ NameOf[u] \notin queued'
          /\ seen'[u] = "live" /\ ~IsTerminal(seenSt'[u])
      BY <1>1, <1>2 DEF Admitted, OwnKey, IsTerminal
    <2>2. CASE u # v
      BY <1>1, <2>1, <2>2 DEF Admitted
    <2>3. CASE u = v
      <3>1. SyncUpdated(v) /\ seen[v] = life[v]
        BY <2>1, <2>3 DEF Sync, SyncAdded, SyncUpdated, SyncDeleted
      <3>2. seen'[v] = seen[v] /\ seenSt'[v] = apiSt[v]
        BY <3>1 DEF SyncUpdated, TypeOK
      <3>3. seen[v] = "live" /\ ~IsTerminal(apiSt[v])
        BY <2>1, <2>3, <3>2
      <3>4. ~IsTerminal(seenSt[v])
        BY <3>3 DEF CompletedStays
      <3>5. QED BY <2>1, <2>3, <3>3, <3>4 DEF Admitted
    <2>4. QED BY <2>2, <2>3
  <1>3. \A n : Known(n) => Known(n)'
    BY <1>1 DEF Known
  <1>4. QED BY <1>2, <1>3, KnownLemma

LEMMA CreatedKnownStep ==
    ASSUME IInv, KnownInv, KubeletStep
    PROVE  CreatedKnown'
  <1>1. TypeOK /\ DueInPlan /\ OneListed /\ CompletedStays /\ CreatedKnown
    BY DEF IInv, KnownInv
  <1>2. CASE TrackerStep
    BY <1>1, <1>2, KnownTracker
  <1>3. CASE \E key \in MapKeys : PatchPodStatus(key)
    BY <1>1, <1>3, KnownPatch
  <1>4. CASE \E n \in Names : WorkerStep(n)
    BY <1>1, <1>4, KnownWorker
  <1>5. CASE \E n \in Names : SendStatus(n)
    <2>1. UNCHANGED <<seen, seenSt, queued, worker, podsMock, call>>
      BY <1>5 DEF SendStatus, cacheVars
    <2>2. QED BY <1>1, <2>1, KnownSame
  <1>6. CASE \E u \in Pods : Sync(u)
    BY <1>1, <1>6, KnownSync
  <1>7. CASE Restart
    BY <1>7 DEF Restart, CreatedKnown, Admitted
  <1>8. QED BY <1>2, <1>3, <1>4, <1>5, <1>6, <1>7 DEF KubeletStep

THEOREM KnownInvariance == Spec => []KnownInv
  <1>1. Init => KnownInv
    BY DEF Init, KnownInv, OneListed, CompletedStays, CreatedKnown, Admitted
  <1>2. IInv /\ ShowInv /\ KnownInv /\ [Next]_vars => KnownInv'
    <2> SUFFICES ASSUME IInv, ShowInv, KnownInv, [Next]_vars PROVE KnownInv'
      OBVIOUS
    <2>1. CASE ClientStep
      <3>1. UNCHANGED <<apiSt, seen, seenSt, podsMock, call, worker>>
        BY <2>1, ClientStepHolders DEF holders
      <3>2. UNCHANGED queued
        BY <2>1 DEF ClientStep, KillPod, CreateApiPod, DeleteApiPod, FallDue, kubeletVars
      <3>3. QED
        BY <3>1, <3>2 DEF KnownInv, OneListed, CompletedStays, CreatedKnown, Admitted,
           Known, OwnKey, IsTerminal
    <2>2. CASE KubeletStep
      BY <2>2, OneListedStep, CompletedStaysStep, CreatedKnownStep DEF KnownInv, IInv, ShowInv
    <2>3. CASE UNCHANGED vars
      BY <2>3 DEF vars, KnownInv, OneListed, CompletedStays, CreatedKnown, Admitted, Known,
         OwnKey, IsTerminal
    <2>4. QED BY <2>1, <2>2, <2>3, NextSplit
  <1>3. QED BY <1>1, <1>2, Invariance, ShowInvariance, PTL DEF Spec

\* mock.go:125, 145, 231 and createOrUpdatePod in virtual-kubelet: once the worker of a
\* name that shares its key with no other is done, the map has the live pod,
\* although another goroutine may have written or deleted the name meanwhile.
THEOREM AdmittedPodsKnownTheorem == Spec => []AdmittedPodsKnown
  <1>1. KnownInv => AdmittedPodsKnown
    BY DEF KnownInv, CreatedKnown, Admitted, Known, AdmittedPodsKnown
  <1>2. QED BY <1>1, KnownInvariance, PTL
=============================================================================

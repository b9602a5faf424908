---------------------------- MODULE MockProvider ----------------------------
(***************************************************************************)
(* The simulated kubelet: the provider's pod map (provider/mock.go,        *)
(* util/safemap.go), the goroutine that moves the pods in the map along    *)
(* their schedules (mock_tracker.go), the goroutine that publishes their   *)
(* statuses (pods_tracker.go), and around them, as far as the provider     *)
(* depends on it, what the virtual-kubelet library and the API server do.  *)
(*                                                                         *)
(* Every pod the provider handles comes from the informer's cache of the   *)
(* API server, which lags behind; GetPod, called from two goroutines,      *)
(* reads the map, then the cache, then writes the map, without a lock      *)
(* around the three; and pod.Status is written under a read lock, so that  *)
(* a concurrent reader may see some fields before and some after.          *)
(***************************************************************************)
EXTENDS Naturals, Sequences

CONSTANTS
    Pods,         \* pod objects, each with a UID of its own
    Names,        \* namespace/name pairs
    MapKeys,      \* keys of the provider's map
    NameOf,       \* the name each pod object has
    MapKey,       \* buildKeyFromNames: the map key of a name
    Plan,         \* a pod's delay annotations in the order they fall due
    EnvPods,      \* pods whose environment virtual-kubelet fills in
    Deletable,    \* pods that a client of the API server may delete
    MaxRestarts,  \* bound on the kubelet's restarts, for TLC
    MaxRaces,     \* bound on the statuses copied while they are assigned
    AllowReuse    \* FALSE: no name is used by a second pod

Annotations == {"delayRunning", "delaySucceeded", "delayFailed"}

\* The tracker is not the worker of a name.
Tracker == "tracker"

ASSUME NamesAssumption == Tracker \notin Names
ASSUME NameOfAssumption == NameOf \in [Pods -> Names] /\ MapKey \in [Names -> MapKeys]
ASSUME PlanAssumption == Plan \in [Pods -> Seq(Annotations)]
ASSUME BoundsAssumption ==
    /\ EnvPods \subseteq Pods /\ Deletable \subseteq Pods
    /\ MaxRestarts \in Nat /\ MaxRaces \in Nat
    /\ AllowReuse \in BOOLEAN

(***************************************************************************)
(* A v1.PodStatus: its phase, the annotation named by its Desired          *)
(* condition, and whether a container is running.                          *)
(***************************************************************************)
Status == [phase : {"Pending", "Running", "Succeeded", "Failed"},
           desired : Annotations \cup {"default", "none"},
           up : BOOLEAN]

\* What the API server gives a new pod.
NewStatus == [phase |-> "Pending", desired |-> "none", up |-> FALSE]

\* createStatus and the three functions it calls.
CreateStatus(annotation) ==
    [phase   |-> CASE annotation = "delayRunning" -> "Running"
                   [] annotation = "delaySucceeded" -> "Succeeded"
                   [] OTHER -> "Failed",
     desired |-> annotation,
     up      |-> annotation = "delayRunning"]

\* createDefaultRunningStatus: of a pod without annotations.
DefaultStatus == [phase |-> "Running", desired |-> "default", up |-> TRUE]

\* Variant for the mutation runs: the pod is said to have failed as well.
TerminatedAsFailed(st) == [st EXCEPT !.up = FALSE, !.phase = "Failed"]

\* The containers of a status terminated, as DeletePod's handler does.
Terminated(st) == [st EXCEPT !.up = FALSE]

\* Variant for the mutation runs: the reason is written over the phase.
LostAsPhase(st) == [Terminated(st) EXCEPT !.phase = "NotFound"]

\* The containers terminated and the pod failed: the provider lost the pod.
Lost(st) == [Terminated(st) EXCEPT !.phase = "Failed"]

IsTerminal(st) == st.phase \in {"Succeeded", "Failed"}

\* A v1.Pod: the object it is a copy of, its status, whether its deletion
\* timestamp is set and whether its environment is filled in.
Pod == [uid : Pods, st : Status, deleting : BOOLEAN, env : BOOLEAN]

\* Who calls GetPod: the pods tracker and virtual-kubelet's worker of a name.
Callers == Names \cup {Tracker}

VARIABLES
    \* The API server.
    life,      \* each pod's life there
    apiSt,     \* its status there
    due,       \* how many of its annotations have fallen due
    \* The informer's cache (podsApiserver).
    seen,      \* each pod's presence in the cache
    seenSt,    \* its status in the cache
    \* MockProvider.
    podsMock,  \* the map of the pods it simulates
    call,      \* a GetPod call, or the pod the caller got from it
    \* PodsTracker.
    todo,      \* the rest of the pods that updatePodsLoop listed
    tracked,   \* the pod in processPodUpdates and where it is
    \* virtual-kubelet.
    worker,    \* the worker of a name: where it is and the pod it handles
    queued,    \* names to synchronise
    received,  \* knownPods: the pod last received from the notifier
    dirty,     \* names whose status is to be sent
    skipped,   \* names whose last status was not sent
    killed,    \* pods to remove from the API server
    \* What TLC bounds.
    restarts, races

apiVars == <<life, apiSt, due>>
cacheVars == <<seen, seenSt>>
trackerVars == <<todo, tracked>>
bounds == <<restarts, races>>
notifyVars == <<received, dirty, skipped>>
vars == <<life, apiSt, due, seen, seenSt, podsMock, call, todo, tracked,
          worker, queued, received, dirty, skipped, killed,
          restarts, races>>

-----------------------------------------------------------------------------
\* The map f with f[x] = v.
With(f, x, v) == [y \in DOMAIN f \cup {x} |-> IF y = x THEN v ELSE f[y]]

\* The map f without x.
Without(f, x) == [y \in DOMAIN f \ {x} |-> f[y]]

\* The pod the cache holds under a name, if any: a set of at most one pod.
Listed(n) == {u \in Pods : NameOf[u] = n /\ seen[u] # "absent"}

\* A deep copy of the cache's object.
CacheCopy(u) == [uid |-> u, st |-> seenSt[u], deleting |-> seen[u] = "deleting",
                 env |-> FALSE]

\* Variant for the mutation runs: the list is walked to its end at once.
NowStatusLast(u) ==
    IF Plan[u] = <<>> THEN DefaultStatus
                      ELSE CreateStatus(Plan[u][Len(Plan[u])])

\* The status the schedule of a pod sets now: getNowStatus.  A pod without
\* annotations runs at once.
NowStatus(u) ==
    IF Plan[u] = <<>> THEN DefaultStatus
                      ELSE CreateStatus(Plan[u][due[u]])

HasNowStatus(u) == Plan[u] = <<>> \/ due[u] > 0

(***************************************************************************)
(* The caller of GetPod copies the status of the pod it got.  The mock     *)
(* tracker may be assigning that status at the same time: each field is    *)
(* then copied before or after, a race that TLC counts.                    *)
(***************************************************************************)
Torn(old, new) == [phase : {old.phase, new.phase}, desired : {old.desired, new.desired},
                   up : {old.up, new.up}]

ReadStatus(c, st) ==
    LET o == call[c].pod
    IN  \/ st = o.st /\ UNCHANGED races
        \/ /\ races < MaxRaces
           /\ call[c].shared
           /\ HasNowStatus(o.uid)
           /\ st \in Torn(o.st, NowStatus(o.uid)) \ {o.st}
           /\ races' = races + 1

(***************************************************************************)
(* The notifier: virtual-kubelet keeps the pod as the last it received for *)
(* the name and has its status sent, if the cache knows the name and the   *)
(* pod is not the one it received before.                                  *)
(***************************************************************************)
Notify(p) ==
    LET n == NameOf[p.uid]
    IN  IF Listed(n) = {}
          THEN UNCHANGED notifyVars
          ELSE IF n \in DOMAIN received /\ received[n] = p
            THEN /\ skipped' = skipped \cup {n}
                 /\ UNCHANGED <<received, dirty>>
            ELSE /\ received' = With(received, n, p)
                 /\ dirty' = dirty \cup {n}
                 /\ skipped' = skipped \ {n}

-----------------------------------------------------------------------------
(***************************************************************************)
(* The provider's map                                                      *)
(***************************************************************************)

NoCall == [pc |-> "none"]

NameOfCaller(c) == IF c = Tracker THEN NameOf[tracked.pod.uid] ELSE c

KeyOfCaller(c) == MapKey[NameOfCaller(c)]

\* The callers whose pod is no longer the object in the map under key.
Unshared(key) ==
    [c \in Callers |->
        IF call[c].pc = "found" /\ KeyOfCaller(c) = key
          THEN [call[c] EXCEPT !.shared = FALSE] ELSE call[c]]

\* SafeMap.Read, in GetPod: a hit returns the object in the map.
Read(key) ==
    IF key \in DOMAIN podsMock
      THEN [pc |-> "found", pod |-> podsMock[key], shared |-> TRUE]
      ELSE [pc |-> "list"]

GetPodRead(c) ==
    /\ call[c].pc = "read"
    /\ call' = [call EXCEPT ![c] = Read(KeyOfCaller(c))]
    /\ UNCHANGED <<apiVars, cacheVars, podsMock, trackerVars, worker, queued,
                   notifyVars, killed, bounds>>

\* Variant for the mutation runs: a miss is a miss.
GetPodNoFallback(c) ==
    /\ call[c].pc = "list"
    /\ call' = [call EXCEPT ![c] = [pc |-> "missing"]]
    /\ UNCHANGED <<apiVars, cacheVars, podsMock, trackerVars, worker, queued,
                   notifyVars, killed, bounds>>

\* A miss: the cache is asked for a pod of the name that is not terminating.
GetPodList(c) ==
    LET Live == {u \in Listed(NameOfCaller(c)) : seen[u] = "live"}
    IN  /\ call[c].pc = "list"
        /\ call' = [call EXCEPT ![c] =
             IF Live = {} THEN [pc |-> "missing"]
             ELSE [pc |-> "write", pod |-> CacheCopy(CHOOSE u \in Live : TRUE)]]
        /\ UNCHANGED <<apiVars, cacheVars, podsMock, trackerVars, worker,
                       queued, notifyVars, killed, bounds>>

\* Variant for the mutation runs: the pod is returned and not kept.
GetPodForget(c) ==
    /\ call[c].pc = "write"
    /\ call' = [call EXCEPT ![c] =
                  [pc |-> "found", pod |-> call[c].pod, shared |-> FALSE]]
    /\ UNCHANGED <<apiVars, cacheVars, podsMock, trackerVars, worker, queued,
                   notifyVars, killed, bounds>>

\* A copy of it goes into the map; the caller gets the cache's object.
GetPodWrite(c) ==
    LET key == KeyOfCaller(c)
        p == call[c].pod
    IN  /\ call[c].pc = "write"
        /\ podsMock' = With(podsMock, key, p)
        /\ call' = [Unshared(key) EXCEPT ![c] =
                      [pc |-> "found", pod |-> p, shared |-> FALSE]]
        /\ UNCHANGED <<apiVars, cacheVars, trackerVars, worker, queued,
                       notifyVars, killed, bounds>>

\* MockPodsTracker: UpdateMockPodsStatus patches the pod under a key, an
\* object that callers of GetPod may hold too.
PatchPodStatus(key) ==
    /\ key \in DOMAIN podsMock
    /\ LET u == podsMock[key].uid
       IN  /\ HasNowStatus(u)
           /\ podsMock[key].st # NowStatus(u)
           /\ podsMock' = [podsMock EXCEPT ![key].st = NowStatus(u)]
           /\ call' = [c \in Callers |->
                IF call[c].pc = "found" /\ call[c].shared /\ KeyOfCaller(c) = key
                  THEN [call[c] EXCEPT !.pod.st = NowStatus(u)] ELSE call[c]]
    /\ UNCHANGED <<apiVars, cacheVars, trackerVars, worker, queued,
                   notifyVars, killed, bounds>>

-----------------------------------------------------------------------------
(***************************************************************************)
(* PodsTracker: one goroutine, updatePodsLoop again and again              *)
(***************************************************************************)

NoPodTracked == [pc |-> "idle"]

\* shouldSkipPodStatusUpdate
ShouldSkip(p) == IsTerminal(p.st) \/ p.deleting

\* Variant for the mutation runs: any Desired condition will do.
IsDesiredAny(st, current) == st.desired # "none" /\ current.desired # "none"

\* IsDesiredPodCondition
IsDesired(st, current) == st.desired # "none" /\ st.desired = current.desired

\* updatePodsLoop lists the cache.  What it skips depends on the listed
\* objects alone, so it is skipped here.
ListPods ==
    LET All == {CacheCopy(u) : u \in {u \in Pods : seen[u] # "absent"}}
    IN  /\ tracked.pc = "idle"
        /\ todo = {}
        /\ todo' = {p \in All : ~ShouldSkip(p)}
        /\ todo' # {}
        /\ UNCHANGED <<apiVars, cacheVars, podsMock, call, tracked, worker,
                       queued, notifyVars, killed, bounds>>

\* processPodUpdates fetches the pod's status from the provider: GetPod, up to
\* its read of the map.
FetchPodStatus ==
    /\ tracked.pc = "idle"
    /\ \E p \in todo :
         /\ todo' = todo \ {p}
         /\ tracked' = [pc |-> "fetch", pod |-> p]
         /\ call' = [call EXCEPT ![Tracker] = Read(MapKey[NameOf[p.uid]])]
    /\ UNCHANGED <<apiVars, cacheVars, podsMock, worker, queued, notifyVars,
                   killed, bounds>>

\* The provider has a status: is it the one the listed object has?
CompareStatus ==
    /\ tracked.pc = "fetch"
    /\ call[Tracker].pc = "found"
    /\ IF IsDesired(call[Tracker].pod.st, tracked.pod.st)
         THEN /\ tracked' = NoPodTracked
              /\ call' = [call EXCEPT ![Tracker] = NoCall]
         ELSE /\ tracked' = [tracked EXCEPT !.pc = "copy"]
              /\ UNCHANGED call
    /\ UNCHANGED <<apiVars, cacheVars, podsMock, todo, worker, queued,
                   notifyVars, killed, bounds>>

\* It is not: it is copied into the tracker's copy of the pod.
CopyStatus ==
    /\ tracked.pc = "copy"
    /\ \E st \in Status :
         /\ ReadStatus(Tracker, st)
         /\ tracked' = [pc |-> "notify", pod |-> [tracked.pod EXCEPT !.st = st]]
    /\ call' = [call EXCEPT ![Tracker] = NoCall]
    /\ UNCHANGED <<apiVars, cacheVars, podsMock, todo, worker, queued,
                   notifyVars, killed, restarts>>

\* The provider does not know the pod: it failed, if it was running.
PodLost ==
    /\ tracked.pc = "fetch"
    /\ call[Tracker].pc = "missing"
    /\ tracked' = IF tracked.pod.st.phase = "Running"
                    THEN [pc |-> "lost",
                          pod |-> [tracked.pod EXCEPT !.st = Lost(tracked.pod.st)]]
                    ELSE NoPodTracked
    /\ call' = [call EXCEPT ![Tracker] = NoCall]
    /\ UNCHANGED <<apiVars, cacheVars, podsMock, todo, worker, queued,
                   notifyVars, killed, bounds>>

\* updateCb
NotifyStatus ==
    /\ tracked.pc \in {"notify", "lost"}
    /\ Notify(tracked.pod)
    /\ tracked' = NoPodTracked
    /\ UNCHANGED <<apiVars, cacheVars, podsMock, call, todo, worker, queued,
                   killed, bounds>>

TrackerStep ==
    \/ ListPods \/ FetchPodStatus \/ GetPodList(Tracker) \/ GetPodWrite(Tracker)
    \/ CompareStatus \/ CopyStatus \/ PodLost \/ NotifyStatus

-----------------------------------------------------------------------------
(***************************************************************************)
(* virtual-kubelet: the worker of a name.  syncPodFromKubernetesHandler    *)
(* works on one name at a time, on what the cache holds when it starts.    *)
(***************************************************************************)

Idle == [pc |-> "idle"]

\* The name is taken from the queue.  (kPod.lastPodUsed would skip a pod that
\* is as it was when last taken; no event here queues such a pod.)
Take(n) ==
    /\ worker[n].pc = "idle"
    /\ n \in queued
    /\ queued' = queued \ {n}
    /\ UNCHANGED <<apiVars, cacheVars, podsMock, trackerVars, notifyVars,
                   bounds>>

\* Not in the cache: a pod that the provider has is deleted there.
TakeDeleted(n) ==
    /\ Take(n)
    /\ Listed(n) = {}
    /\ worker' = [worker EXCEPT ![n] = [pc |-> "collect"]]
    /\ call' = [call EXCEPT ![n] = [pc |-> "read"]]
    /\ UNCHANGED killed

\* Terminating, with no container running: it is removed from the API server.
TakeStopped(n) ==
    /\ Take(n)
    /\ \E u \in Listed(n) :
         /\ seen[u] = "deleting"
         /\ ~seenSt[u].up
         /\ killed' = killed \cup {u}
    /\ UNCHANGED <<worker, call>>

\* Terminating and running: DeletePod, then removal from the API server.
TakeTerminating(n) ==
    /\ Take(n)
    /\ \E u \in Listed(n) :
         /\ seen[u] = "deleting"
         /\ seenSt[u].up
         /\ worker' = [worker EXCEPT ![n] = [pc |-> "remove", gone |-> {u}]]
    /\ UNCHANGED <<call, killed>>

\* Completed.
TakeCompleted(n) ==
    /\ Take(n)
    /\ \E u \in Listed(n) :
         /\ seen[u] = "live"
         /\ IsTerminal(seenSt[u])
    /\ UNCHANGED <<worker, call, killed>>

\* Live: createOrUpdatePod, on a copy with its environment filled in, asks the
\* provider for the pod.
TakeLive(n) ==
    /\ Take(n)
    /\ \E u \in Listed(n) :
         /\ seen[u] = "live"
         /\ ~IsTerminal(seenSt[u])
         /\ worker' = [worker EXCEPT ![n] =
              [pc |-> "create", pod |-> [CacheCopy(u) EXCEPT !.env = u \in EnvPods]]]
    /\ call' = [call EXCEPT ![n] = [pc |-> "read"]]
    /\ UNCHANGED killed

\* The worker is done with the name.
Finish(n) ==
    /\ worker' = [worker EXCEPT ![n] = Idle]
    /\ UNCHANGED <<apiVars, cacheVars, trackerVars, queued, restarts>>

\* podsEqual: the specification and annotations are compared, not the UID.
PodsEqual(p, q) == p.env = q.env /\ Plan[p.uid] = Plan[q.uid]

\* The provider has an equal pod.
KeepPod(n) ==
    /\ worker[n].pc = "create"
    /\ call[n].pc = "found"
    /\ PodsEqual(call[n].pod, worker[n].pod)
    /\ call' = [call EXCEPT ![n] = NoCall]
    /\ Finish(n)
    /\ UNCHANGED <<podsMock, notifyVars, killed, races>>

\* CreatePod, when the provider has none.
CreatePod(n) ==
    /\ worker[n].pc = "create"
    /\ call[n].pc = "missing"
    /\ podsMock' = With(podsMock, MapKey[n], worker[n].pod)
    /\ call' = [Unshared(MapKey[n]) EXCEPT ![n] = NoCall]
    /\ Finish(n)
    /\ UNCHANGED <<notifyVars, killed, races>>

\* UpdatePod, when it has another: the pod goes into the map ...
UpdatePod(n) ==
    /\ worker[n].pc = "create"
    /\ call[n].pc = "found"
    /\ ~PodsEqual(call[n].pod, worker[n].pod)
    /\ podsMock' = With(podsMock, MapKey[n], worker[n].pod)
    /\ call' = [Unshared(MapKey[n]) EXCEPT ![n] =
                  [pc |-> "found", pod |-> worker[n].pod, shared |-> TRUE]]
    /\ worker' = [worker EXCEPT ![n].pc = "updated"]
    /\ UNCHANGED <<apiVars, cacheVars, trackerVars, queued, notifyVars,
                   killed, bounds>>

\* ... and to the notifier, which copies it.
NotifyUpdated(n) ==
    /\ worker[n].pc = "updated"
    /\ \E st \in Status :
         ReadStatus(n, st) /\ Notify([worker[n].pod EXCEPT !.st = st])
    /\ call' = [call EXCEPT ![n] = NoCall]
    /\ Finish(n)
    /\ UNCHANGED <<podsMock, killed>>

\* A name that is not in the cache: the provider has no pod of the name ...
NothingToCollect(n) ==
    /\ worker[n].pc = "collect"
    /\ call[n].pc = "missing"
    /\ call' = [call EXCEPT ![n] = NoCall]
    /\ Finish(n)
    /\ UNCHANGED <<podsMock, notifyVars, killed, races>>

\* ... or one that is to be deleted.
Collect(n) ==
    /\ worker[n].pc = "collect"
    /\ call[n].pc = "found"
    /\ worker' = [worker EXCEPT ![n] = [pc |-> "remove", gone |-> {}]]
    /\ call' = [call EXCEPT ![n] = NoCall]
    /\ UNCHANGED <<apiVars, cacheVars, podsMock, trackerVars, queued,
                   notifyVars, killed, bounds>>

\* Variant for the mutation runs: not found is an error, and is tried again.
DeleteRetry(n) ==
    /\ worker[n].pc = "remove"
    /\ MapKey[n] \notin DOMAIN podsMock
    /\ worker' = [worker EXCEPT ![n] = Idle]
    /\ queued' = queued \cup {n}
    /\ UNCHANGED <<apiVars, cacheVars, podsMock, call, trackerVars,
                   notifyVars, killed, bounds>>

\* DeletePod: not found.
DeleteMissing(n) ==
    /\ worker[n].pc = "remove"
    /\ MapKey[n] \notin DOMAIN podsMock
    /\ killed' = killed \cup worker[n].gone
    /\ Finish(n)
    /\ UNCHANGED <<podsMock, call, notifyVars, races>>

\* DeletePod: SafeMap.Delete.
DeletePod(n) ==
    /\ worker[n].pc = "remove"
    /\ MapKey[n] \in DOMAIN podsMock
    /\ podsMock' = Without(podsMock, MapKey[n])
    /\ call' = Unshared(MapKey[n])
    /\ worker' = [worker EXCEPT ![n].pc = "terminate"]
    /\ UNCHANGED <<apiVars, cacheVars, trackerVars, queued, notifyVars,
                   killed, bounds>>

\* DeletePod: UpdatePodStatus notifies the cache's pod of the name, if there
\* is one, with its containers terminated.
UpdatePodStatus(n) ==
    /\ worker[n].pc = "terminate"
    /\ IF Listed(n) = {}
         THEN UNCHANGED notifyVars
         ELSE \E u \in Listed(n) :
                Notify([CacheCopy(u) EXCEPT !.st = Terminated(seenSt[u])])
    /\ killed' = killed \cup worker[n].gone
    /\ Finish(n)
    /\ UNCHANGED <<podsMock, call, races>>

WorkerStep(n) ==
    \/ TakeDeleted(n) \/ TakeStopped(n) \/ TakeTerminating(n)
    \/ TakeCompleted(n) \/ TakeLive(n)
    \/ GetPodRead(n) \/ GetPodList(n) \/ GetPodWrite(n)
    \/ KeepPod(n) \/ CreatePod(n) \/ UpdatePod(n) \/ NotifyUpdated(n)
    \/ NothingToCollect(n) \/ Collect(n)
    \/ DeleteMissing(n) \/ DeletePod(n) \/ UpdatePodStatus(n)

-----------------------------------------------------------------------------
(***************************************************************************)
(* virtual-kubelet: statuses and removals are sent to the API server       *)
(***************************************************************************)

\* updatePodStatus: the status is written whatever it is now, by UID, unless
\* the cache knows the pod as completed or has the same status.
SendStatus(n) ==
    /\ n \in dirty
    /\ dirty' = dirty \ {n}
    /\ IF \E u \in Listed(n) : n \in DOMAIN received /\ ~IsTerminal(seenSt[u])
         THEN \E u \in Listed(n) :
                LET p == received[n]
                    Same == p.st = seenSt[u] /\ ~p.deleting
                IN  /\ skipped' = IF Same THEN skipped \cup {n} ELSE skipped \ {n}
                    /\ apiSt' = IF ~Same /\ life[p.uid] \in {"live", "deleting"}
                                  THEN [apiSt EXCEPT ![p.uid] = p.st] ELSE apiSt
         ELSE UNCHANGED <<skipped, apiSt>>
    /\ UNCHANGED <<life, due, cacheVars, podsMock, call, trackerVars, worker,
                   queued, received, killed, bounds>>

\* deletePodsFromKubernetesHandler
KillPod(u) ==
    /\ u \in killed
    /\ killed' = killed \ {u}
    /\ life' = IF seen[u] # "absent" THEN [life EXCEPT ![u] = "gone"] ELSE life
    /\ UNCHANGED <<apiSt, due, cacheVars, podsMock, call, trackerVars, worker,
                   queued, notifyVars, bounds>>

-----------------------------------------------------------------------------
(***************************************************************************)
(* The informer: the cache catches up with one pod, and the handlers run   *)
(***************************************************************************)

SyncAdded(u) ==
    /\ seen[u] = "absent"
    /\ life[u] \in {"live", "deleting"}
    /\ Listed(NameOf[u]) = {}
    /\ seen' = [seen EXCEPT ![u] = life[u]]
    /\ seenSt' = [seenSt EXCEPT ![u] = apiSt[u]]
    /\ queued' = queued \cup {NameOf[u]}
    /\ UNCHANGED <<apiVars, podsMock, call, trackerVars, worker, notifyVars,
                   killed, bounds>>

\* An update puts the name in the queue if more than the status changed, and
\* the last status again if it was not sent.
SyncUpdated(u) ==
    LET n == NameOf[u]
    IN  /\ seen[u] # "absent"
        /\ life[u] \in {"live", "deleting"}
        /\ seen[u] # life[u] \/ seenSt[u] # apiSt[u]
        /\ seen' = [seen EXCEPT ![u] = life[u]]
        /\ seenSt' = [seenSt EXCEPT ![u] = apiSt[u]]
        /\ queued' = IF seen[u] # life[u] THEN queued \cup {n} ELSE queued
        /\ dirty' = IF n \in skipped THEN dirty \cup {n} ELSE dirty
        /\ skipped' = skipped \ {n}
        /\ UNCHANGED <<apiVars, podsMock, call, trackerVars, worker, received,
                       killed, bounds>>

SyncDeleted(u) ==
    LET n == NameOf[u]
    IN  /\ seen[u] # "absent"
        /\ life[u] = "gone"
        /\ seen' = [seen EXCEPT ![u] = "absent"]
        /\ seenSt' = [seenSt EXCEPT ![u] = NewStatus]
        /\ queued' = queued \cup {n}
        /\ received' = Without(received, n)
        /\ skipped' = skipped \ {n}
        /\ killed' = killed \ {u}
        /\ UNCHANGED <<apiVars, podsMock, call, trackerVars, worker, dirty,
                       bounds>>

Sync(u) == SyncAdded(u) \/ SyncUpdated(u) \/ SyncDeleted(u)

-----------------------------------------------------------------------------
(***************************************************************************)
(* The API server's other clients, time, and the kubelet's process         *)
(***************************************************************************)

kubeletVars == <<cacheVars, podsMock, call, trackerVars, worker, queued,
                 notifyVars, killed>>

\* A pod is created on the node, under a name that no pod has.
CreateApiPod(u) ==
    /\ life[u] = "unborn"
    /\ \A v \in Pods : NameOf[v] = NameOf[u] =>
         life[v] \in (IF AllowReuse THEN {"unborn", "gone"} ELSE {"unborn"})
    /\ life' = [life EXCEPT ![u] = "live"]
    /\ UNCHANGED <<apiSt, due, kubeletVars, bounds>>

\* It is deleted: gracefully, or by force.
DeleteApiPod(u) ==
    /\ u \in Deletable
    /\ \/ life[u] = "live" /\ life' = [life EXCEPT ![u] = "deleting"]
       \/ life[u] \in {"live", "deleting"} /\ life' = [life EXCEPT ![u] = "gone"]
    /\ UNCHANGED <<apiSt, due, kubeletVars, bounds>>

\* The next of a pod's annotations falls due.
FallDue(u) ==
    /\ life[u] # "unborn"
    /\ due[u] < Len(Plan[u])
    /\ due' = [due EXCEPT ![u] = @ + 1]
    /\ UNCHANGED <<life, apiSt, kubeletVars, bounds>>

EmptyMap == [x \in {} |-> {}]

\* The kubelet's process dies and a new one starts: all it had is lost.
Restart ==
    /\ restarts < MaxRestarts
    /\ restarts' = restarts + 1
    /\ seen' = [u \in Pods |-> "absent"]
    /\ seenSt' = [u \in Pods |-> NewStatus]
    /\ podsMock' = EmptyMap
    /\ call' = [c \in Callers |-> NoCall]
    /\ todo' = {}
    /\ tracked' = NoPodTracked
    /\ worker' = [n \in Names |-> Idle]
    /\ queued' = {}
    /\ received' = EmptyMap
    /\ dirty' = {}
    /\ skipped' = {}
    /\ killed' = {}
    /\ UNCHANGED <<apiVars, races>>

Init ==
    /\ life = [u \in Pods |-> "unborn"]
    /\ apiSt = [u \in Pods |-> NewStatus]
    /\ due = [u \in Pods |-> 0]
    /\ restarts = 0
    /\ races = 0
    /\ seen = [u \in Pods |-> "absent"]
    /\ seenSt = [u \in Pods |-> NewStatus]
    /\ podsMock = EmptyMap
    /\ call = [c \in Callers |-> NoCall]
    /\ todo = {}
    /\ tracked = NoPodTracked
    /\ worker = [n \in Names |-> Idle]
    /\ queued = {}
    /\ received = EmptyMap
    /\ dirty = {}
    /\ skipped = {}
    /\ killed = {}

Next ==
    \/ TrackerStep
    \/ \E key \in MapKeys : PatchPodStatus(key)
    \/ \E n \in Names : WorkerStep(n) \/ SendStatus(n)
    \/ \E u \in Pods : \/ KillPod(u) \/ Sync(u)
                       \/ CreateApiPod(u) \/ DeleteApiPod(u) \/ FallDue(u)
    \/ Restart

Spec == Init /\ [][Next]_vars

(***************************************************************************)
(* Every goroutine goes on, the informer catches up and time passes.       *)
(* Nobody needs to create or delete pods, or to restart the kubelet.       *)
(***************************************************************************)
Fairness ==
    /\ WF_vars(TrackerStep)
    /\ \A key \in MapKeys : WF_vars(PatchPodStatus(key))
    /\ \A n \in Names : WF_vars(WorkerStep(n)) /\ WF_vars(SendStatus(n))
    /\ \A u \in Pods : WF_vars(KillPod(u)) /\ WF_vars(Sync(u)) /\ WF_vars(FallDue(u))

FairSpec == Spec /\ Fairness

-----------------------------------------------------------------------------
(***************************************************************************)
(* Properties                                                              *)
(***************************************************************************)

CallStates ==
    [pc : {"none", "read", "list", "missing"}] \cup [pc : {"write"}, pod : Pod]
      \cup [pc : {"found"}, pod : Pod, shared : BOOLEAN]

TrackedStates ==
    [pc : {"idle"}] \cup [pc : {"fetch", "copy", "lost", "notify"}, pod : Pod]

WorkerStates ==
    [pc : {"idle", "collect"}] \cup [pc : {"create", "updated"}, pod : Pod]
      \cup [pc : {"remove", "terminate"}, gone : SUBSET Pods]

\* Type correctness.
TypeOK ==
    /\ life \in [Pods -> {"unborn", "live", "deleting", "gone"}]
    /\ apiSt \in [Pods -> Status]
    /\ due \in [Pods -> Nat]
    /\ seen \in [Pods -> {"absent", "live", "deleting"}]
    /\ seenSt \in [Pods -> Status]
    /\ DOMAIN podsMock \subseteq MapKeys
    /\ \A key \in DOMAIN podsMock : podsMock[key] \in Pod
    /\ call \in [Callers -> CallStates]
    /\ todo \subseteq Pod
    /\ tracked \in TrackedStates
    /\ worker \in [Names -> WorkerStates]
    /\ queued \subseteq Names
    /\ DOMAIN received \subseteq Names
    /\ \A n \in DOMAIN received : received[n] \in Pod
    /\ dirty \subseteq Names
    /\ skipped \subseteq Names
    /\ killed \subseteq Pods
    /\ restarts \in Nat
    /\ races \in Nat

\* The tracker reports a pod as failed because the provider lost it
\* (pods_tracker.go:199-222) only if its deletion was asked for: neither a
\* restart of the kubelet, which empties the map, nor a worker that deletes
\* under the tracker's eyes makes a pod that should run fail.
NoSpuriousFailure ==
    tracked.pc = "lost" => life[tracked.pod.uid] \in {"deleting", "gone"}

\* The key of a pod in the provider's map.
KeyOf(u) == MapKey[NameOf[u]]

\* The pod's key in the map has not been that of any other pod.
UniqueKey(u) ==
    \A v \in Pods \ {u} : KeyOf(v) = KeyOf(u) => life[v] = "unborn"

\* The statuses a pod's schedule has allowed it so far.
Allowed(u) ==
    {NewStatus} \cup {CreateStatus(Plan[u][i]) : i \in 1..due[u]}
      \cup (IF Plan[u] = <<>> THEN {DefaultStatus} ELSE {})

\* What the API server shows of a live pod has fallen due, field by field, in
\* spite of statuses copied while they were written, published late or twice.
NeverEarly ==
    \A u \in Pods : life[u] = "live" /\ UniqueKey(u) =>
        \E a, b \in Allowed(u) : apiSt[u].phase = a.phase
                                 /\ apiSt[u].desired = b.desired

\* No other name has the name's key: buildKeyFromNames may give one to two names.
OwnKey(n) == \A m \in Names : MapKey[m] = MapKey[n] => m = n

\* When the worker of a name has nothing left to do, the provider simulates
\* the live pod of that name: what GetPods, the stats and the metrics report.
AdmittedPodsKnown ==
    \A u \in Pods :
        LET n == NameOf[u]
        IN  (/\ OwnKey(n)
             /\ seen[u] = "live" /\ ~IsTerminal(seenSt[u])
             /\ n \notin queued /\ worker[n].pc = "idle")
            => MapKey[n] \in DOMAIN podsMock

\* The statuses a pod's schedule ends with.
FinalStatus(u) ==
    IF Plan[u] = <<>> THEN DefaultStatus
                      ELSE CreateStatus(Plan[u][Len(Plan[u])])

\* Every pod that stays reaches the end of its schedule in the API server, or
\* a completed phase on the way, whatever the restarts.
PodsSettle ==
    \A u \in Pods : <>[](life[u] = "live" =>
        apiSt[u].desired = FinalStatus(u).desired \/ IsTerminal(apiSt[u]))

\* A pod whose deletion was asked for goes away.
DeletionCompletes ==
    \A u \in Pods : life[u] = "deleting" ~> life[u] = "gone"

\* PodLife, whose schedules are the plans, and in which a pod may be taken for
\* another one with the same key of the map.
Life == INSTANCE PodLife WITH
          shown <- apiSt,
          Namesakes <- [u \in Pods |-> {v \in Pods : KeyOf(v) = KeyOf(u)}],
          Initial <- [u \in Pods |->
                        {NewStatus} \cup (IF Plan[u] = <<>> THEN {DefaultStatus} ELSE {})],
          Later <- [u \in Pods |-> [i \in 1..Len(Plan[u]) |-> CreateStatus(Plan[u][i])]]

\* The kubelet with all its caches, goroutines and restarts is to those who
\* watch a pod what PodLife says: the pod goes only if asked to, then does go,
\* shows only what has fallen due, and reaches the end of its schedule.
ImplementsPodLife == Life!FairSpec

\* Also when a second pod takes the name of the first, no step of the kubelet
\* removes it, although removals are on their way for the name, or shows more
\* of it than the schedules of the two allow.
StepsOfPodLife == Life!Spec

-----------------------------------------------------------------------------
(***************************************************************************)
(* What the documentation and the comments say, and the code does not do   *)
(***************************************************************************)

\* README.md:93-95: after its delay a pod becomes Running, Succeeded or Failed.
\* A pod that stays comes to show the phase its schedule ends with.
PhaseFollowsDelay ==
    \A u \in Pods : <>[](life[u] = "live" =>
        apiSt[u].phase = FinalStatus(u).phase \/ IsTerminal(apiSt[u]))

\* README.md:93-95 again: the delay runs from the creation of the pod, not from
\* that of an earlier pod of the same name.
DelayFromCreation ==
    \A u \in Pods : life[u] = "live" =>
        \E a \in Allowed(u) : apiSt[u].phase = a.phase

\* A pod in the map that the cache does not know, and that the worker of its
\* name and the tracker are done with.
Dangling(n) ==
    /\ Listed(n) = {} /\ n \notin queued /\ worker[n].pc = "idle"
    /\ tracked.pc = "idle" /\ todo = {}
    /\ MapKey[n] \in DOMAIN podsMock

\* pods_tracker.go:156, "cleaning up dangling pod": a pod that comes back after
\* its deletion goes away again.  (cleanupDanglingPods finds the pod; what it
\* calls, CleanupPod, changes nothing, and so is no action of Next.)
DanglingPodsCleanedUp == \A n \in Names : Dangling(n) ~> ~Dangling(n)

\* mock.go:206, GetPod returns a pod by name: the pod it was asked for.
GetPodByName ==
    \A c \in Callers :
        call[c].pc = "found" => NameOf[call[c].pod.uid] = NameOfCaller(c)
=============================================================================

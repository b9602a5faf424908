------------------------------- MODULE PodLife -------------------------------
(***************************************************************************)
(* What a simulated pod is to those who watch it in the API server, as an  *)
(* abstract specification: it is there until somebody asks for its         *)
(* deletion, it shows nothing that has not fallen due, and it comes to the *)
(* end of its schedule.  There is no kubelet here: no map, no cache, no    *)
(* goroutine, no process that may be restarted.  MockProvider, with        *)
(* virtual-kubelet around it, implements this.                             *)
(***************************************************************************)
EXTENDS Naturals, Sequences

CONSTANTS
    Pods,        \* pod objects
    Deletable,   \* those whose deletion may be asked for
    Namesakes,   \* the pods, itself included, whose statuses a pod may show
    Status,      \* statuses: records with a phase and a Desired condition
    Initial,     \* the statuses a pod may show at once
    Later        \* those it comes to, in the order they fall due

VARIABLES
    life,   \* "unborn", "live", "deleting" or "gone"
    due,    \* how many of its later statuses have fallen due
    shown   \* its status

vars == <<life, due, shown>>

Init ==
    /\ life = [u \in Pods |-> "unborn"]
    /\ due = [u \in Pods |-> 0]
    /\ shown \in [Pods -> Status]
    /\ \A u \in Pods : shown[u] \in Initial[u]

Create(u) ==
    /\ life[u] = "unborn"
    /\ life' = [life EXCEPT ![u] = "live"]
    /\ UNCHANGED <<due, shown>>

\* Somebody asks for the deletion of a pod.
Ask(u) ==
    /\ u \in Deletable
    /\ life[u] = "live"
    /\ life' = [life EXCEPT ![u] = "deleting"]
    /\ UNCHANGED <<due, shown>>

\* The kubelet is done with it, or it is deleted by force.
Remove(u) ==
    /\ u \in Deletable
    /\ life[u] \in {"live", "deleting"}
    /\ life' = [life EXCEPT ![u] = "gone"]
    /\ UNCHANGED <<due, shown>>

FallDue(u) ==
    /\ life[u] # "unborn"
    /\ due[u] < Len(Later[u])
    /\ due' = [due EXCEPT ![u] = @ + 1]
    /\ UNCHANGED <<life, shown>>

\* What a pod may show: what has fallen due, of itself or of a namesake.
Allowed(u) ==
    UNION {Initial[v] \cup {Later[v][i] : i \in 1..due[v]} : v \in Namesakes[u]}

\* A pod shows a status, of which the fields may be taken from two; a pod that
\* is being deleted may be said to have failed.
MayShow(u, status) ==
    /\ \/ \E a \in Allowed(u) : status.phase = a.phase
       \/ life[u] = "deleting" /\ status.phase = "Failed"
    /\ \E b \in Allowed(u) : status.desired = b.desired

Show(u) ==
    /\ life[u] \in {"live", "deleting"}
    /\ UNCHANGED <<life, due>>
    /\ \E status \in Status :
         /\ shown' = [shown EXCEPT ![u] = status]
         /\ MayShow(u, status)

Next ==
    \E u \in Pods :
      Create(u) \/ Ask(u) \/ Remove(u) \/ FallDue(u) \/ Show(u)

Spec == Init /\ [][Next]_vars

-----------------------------------------------------------------------------
\* A status that nothing follows: the last of the schedule, or a completed one.
Last(u, status) ==
    \/ status.phase \in {"Succeeded", "Failed"}
    \/ IF Later[u] = <<>> THEN status \in Initial[u] /\ status.desired # "none"
                          ELSE status.desired = Later[u][Len(Later[u])].desired

\* A live pod whose schedule has passed comes to its end.
Settle(u) ==
    /\ life[u] = "live"
    /\ due[u] = Len(Later[u])
    /\ ~Last(u, shown[u])
    /\ Show(u)
    /\ Last(u, shown'[u])

\* Time passes, what is asked to go goes, and what stays settles.
FairSpec ==
    /\ Spec
    /\ \A u \in Pods : /\ WF_vars(FallDue(u))
                       /\ WF_vars(life[u] = "deleting" /\ Remove(u))
                       /\ WF_vars(Settle(u))
=============================================================================

------------------------------ MODULE Schedule ------------------------------
(***************************************************************************)
(* What a pod's delay annotations promise (README.md:93-95), as an         *)
(* abstract specification: the pod shows only what has fallen due, goes    *)
(* from smaller to greater delays, and ends with a greatest one.  It may   *)
(* leave out what lies between.  DelaySchedule implements it; a plan of    *)
(* MockProvider is one of the ways through it.                             *)
(***************************************************************************)
EXTENDS Integers

CONSTANT Annotations  \* the delay annotations there are; none is "none" or "default"

VARIABLES
    delay,  \* the delay of each annotation the pod has
    now,    \* time since the pod's creation
    shown   \* the annotation whose status the pod has, "default" or "none"

vars == <<delay, now, shown>>

Init ==
    /\ DOMAIN delay \subseteq Annotations
    /\ \A a \in DOMAIN delay : delay[a] \in Int
    /\ now = 0
    /\ shown = "none"

Tick ==
    /\ now' = now + 1
    /\ UNCHANGED <<delay, shown>>

Due(a) == a \in DOMAIN delay /\ now > delay[a]

Show(a) ==
    /\ Due(a)
    /\ shown \in DOMAIN delay => delay[shown] <= delay[a]
    /\ shown' = a
    /\ UNCHANGED <<delay, now>>

\* A pod without annotations runs at once.
ShowDefault ==
    /\ DOMAIN delay = {}
    /\ shown' = "default"
    /\ UNCHANGED <<delay, now>>

Latest(a) == a \in DOMAIN delay /\ \A b \in DOMAIN delay : delay[b] <= delay[a]

\* The last change of a pod that has not seen it yet.
Settle ==
    /\ ~Latest(shown)
    /\ ShowDefault \/ \E a \in Annotations : Latest(a) /\ Show(a)

Next == Tick \/ ShowDefault \/ \E a \in Annotations : Show(a)

Spec == Init /\ [][Next]_vars

\* When the last delay has passed, the pod is given its last status.
FairSpec == Spec /\ WF_vars(Settle)
=============================================================================

--------------------------- MODULE DelaySchedule ---------------------------
(***************************************************************************)
(* How the status of one simulated pod follows the delay annotations the   *)
(* pod carries (internal/provider/mock_services.go).  Once a second the    *)
(* mock tracker calls patchPodStatus for the pod; getNowStatus sorts the   *)
(* annotations by delay into a linked list (createDelayList) and walks the *)
(* list against the clock.  createDelayList inserts into the list while it *)
(* iterates over it, and does not leave the loop after an insertion, so    *)
(* each pass of its loop is a step here.  One module instance is one pod,  *)
(* created at time 0; the clock is time.Now(), read anew by each pass of   *)
(* the walk.                                                               *)
(***************************************************************************)
EXTENDS PodStatus, Sequences, SequencesExt

CONSTANTS
    Delays,     \* durations an annotation may hold; negative ones parse too
    Malformed,  \* a value time.ParseDuration rejects
    MaxNow      \* bound on the clock, for TLC

ASSUME DelaysAssumption == /\ Delays \subseteq Int
                           /\ Malformed \notin Int
ASSUME MaxNowAssumption == MaxNow \in Nat

Keys == {"delayRunning", "delaySucceeded", "delayFailed"}

\* _delayAnnotations: the order in which createDelayList looks them up.
DelayAnnotations == <<"delayRunning", "delaySucceeded", "delayFailed">>

VARIABLES
    annotations,  \* the pod's delay annotations: those it has -> their text
    now,          \* time.Now() - pod.CreationTimestamp
    pc,           \* "idle", "build" (createDelayList) or "walk" (getNowStatus)
    k,            \* createDelayList: index of the annotation looked up
    cur,          \* the loop's list element; 0 outside the inner loop and walk
    list,         \* delayList
    status        \* what pod.Status was last set to; "none" before the first

vars == <<annotations, now, pc, k, cur, list, status>>

Statuses == Keys \cup {"none", "default"}

Texts == Delays \cup {Malformed}

\* parseDuration: a value that does not parse is logged and counts as zero.
ParseDuration(text) == IF text \in Delays THEN text ELSE 0

\* The delay of an annotation the pod has.
Delay(key) == ParseDuration(annotations[key])

\* The pod's delay annotations.
Annotated == DOMAIN annotations

\* A DelayItem.  Its PodStatus is made by createStatus from the same key, so
\* the key stands for it.
DelayItem(key) == [key |-> key, delay |-> Delay(key)]

\* The item createDelayList is inserting.
Item == DelayItem(DelayAnnotations[k])

(***************************************************************************)
(* Init: a pod that was just created, with any set of annotations, before  *)
(* the first tick.                                                         *)
(***************************************************************************)
Init ==
    /\ annotations \in UNION {[S -> Texts] : S \in SUBSET Keys}
    /\ now = 0
    /\ pc = "idle"
    /\ k = 1
    /\ cur = 0
    /\ list = <<>>
    /\ status = "none"

\* The clock advances, in the middle of a call too.
Tick ==
    /\ now < MaxNow
    /\ now' = now + 1
    /\ UNCHANGED <<annotations, pc, k, cur, list, status>>

-----------------------------------------------------------------------------
(***************************************************************************)
(* createDelayList                                                         *)
(***************************************************************************)

\* UpdateMockPodsStatus reaches the pod: a fresh list.
StartCall ==
    /\ pc = "idle"
    /\ pc' = "build"
    /\ k' = 1
    /\ cur' = 0
    /\ list' = <<>>
    /\ UNCHANGED <<annotations, now, status>>

\* The outer loop between two annotations.
OuterLoop == pc = "build" /\ k <= 3 /\ cur = 0

\* The outer loop moves on, to a list l.
NextAnnotation(l) ==
    /\ list' = l
    /\ cur' = 0
    /\ k' = k + 1
    /\ UNCHANGED <<annotations, now, pc, status>>

\* The pod has no such annotation.
SkipAnnotation ==
    /\ OuterLoop
    /\ DelayAnnotations[k] \notin Annotated
    /\ NextAnnotation(list)

\* The list is empty.
PushFront ==
    /\ OuterLoop
    /\ DelayAnnotations[k] \in Annotated
    /\ list = <<>>
    /\ NextAnnotation(<<Item>>)

\* The inner loop starts at the front of the list.
StartInsert ==
    /\ OuterLoop
    /\ DelayAnnotations[k] \in Annotated
    /\ list # <<>>
    /\ cur' = 1
    /\ UNCHANGED <<annotations, now, pc, k, list, status>>

\* Variant for the mutation runs: the loop runs one element too far.
ContinueTooFar(i, l) ==
    IF i > Len(l) + 1
      THEN NextAnnotation(l)
      ELSE /\ list' = l
           /\ cur' = i
           /\ UNCHANGED <<annotations, now, pc, k, status>>

\* The inner loop's post statement: on to element i of list l, if it exists.
ContinueAt(i, l) ==
    IF i > Len(l)
      THEN NextAnnotation(l)
      ELSE /\ list' = l
           /\ cur' = i
           /\ UNCHANGED <<annotations, now, pc, k, status>>

InnerLoop == pc = "build" /\ cur > 0

\* Variant for the mutation runs: the item goes after the greater element.
InsertBehindGreater ==
    /\ InnerLoop
    /\ list[cur].delay >= Item.delay
    /\ ContinueAt(cur + 2, InsertAt(list, cur + 1, Item))

\* item.Delay >= duration: the item goes before the element, which is then
\* one place further; element.Next() is two places further.
InsertBefore ==
    /\ InnerLoop
    /\ list[cur].delay >= Item.delay
    /\ ContinueAt(cur + 2, InsertAt(list, cur, Item))

\* Variant for the mutation runs: the greatest item goes before the last one.
InsertBeforeLast ==
    /\ InnerLoop
    /\ list[cur].delay < Item.delay
    /\ cur = Len(list)
    /\ NextAnnotation(InsertAt(list, cur, Item))

\* A smaller last element: the item goes after it and element.Next() is the
\* item just inserted.
InsertAfterLast ==
    /\ InnerLoop
    /\ list[cur].delay < Item.delay
    /\ cur = Len(list)
    /\ ContinueAt(cur + 1, InsertAt(list, cur + 1, Item))

\* A smaller element before a greater one: the same.
InsertBetween ==
    /\ InnerLoop
    /\ list[cur].delay < Item.delay
    /\ cur < Len(list)
    /\ list[cur + 1].delay > Item.delay
    /\ ContinueAt(cur + 1, InsertAt(list, cur + 1, Item))

\* continue
PassElement ==
    /\ InnerLoop
    /\ list[cur].delay < Item.delay
    /\ cur < Len(list)
    /\ list[cur + 1].delay <= Item.delay
    /\ ContinueAt(cur + 1, list)

CreateDelayList ==
    \/ SkipAnnotation \/ PushFront \/ StartInsert
    \/ InsertBefore \/ InsertAfterLast \/ InsertBetween \/ PassElement

-----------------------------------------------------------------------------
(***************************************************************************)
(* getNowStatus and patchPodStatus                                         *)
(***************************************************************************)

\* getNowStatus returns; patchPodStatus leaves the pod alone on nil and sets
\* its status otherwise.
Return(s) ==
    /\ pc' = "idle"
    /\ k' = 1
    /\ cur' = 0
    /\ list' = <<>>
    /\ status' = s
    /\ UNCHANGED <<annotations, now>>

ListBuilt == pc = "build" /\ k > 3

\* No annotation: running from the start.
ReturnDefault == ListBuilt /\ list = <<>> /\ Return("default")

StartWalk ==
    /\ ListBuilt
    /\ list # <<>>
    /\ pc' = "walk"
    /\ cur' = 1
    /\ UNCHANGED <<annotations, now, k, list, status>>

\* Variant for the mutation runs: due one unit too early.
ElapsedEarly(i) == now >= list[i].delay

\* now.Sub(startAt) > 0 for the element at i.
Elapsed(i) == now > list[i].delay

\* The element is not due: nil.
ReturnNil == pc = "walk" /\ ~Elapsed(cur) /\ Return(status)

\* Variant for the mutation runs: the first due element is returned.
ReturnFirst ==
    /\ pc = "walk"
    /\ Elapsed(cur)
    /\ Return(list[cur].key)

\* The element is due and the next, if any, is not.
ReturnItem ==
    /\ pc = "walk"
    /\ Elapsed(cur)
    /\ cur < Len(list) => ~Elapsed(cur + 1)
    /\ Return(list[cur].key)

\* Both are due.
WalkOn ==
    /\ pc = "walk"
    /\ Elapsed(cur)
    /\ cur < Len(list)
    /\ Elapsed(cur + 1)
    /\ cur' = cur + 1
    /\ UNCHANGED <<annotations, now, pc, k, list, status>>

GetNowStatus == ReturnDefault \/ StartWalk \/ ReturnNil \/ ReturnItem \/ WalkOn

\* One pass of the mock tracker's goroutine.
TrackerStep == StartCall \/ CreateDelayList \/ GetNowStatus

Next == Tick \/ TrackerStep

\* The tracker's timer is always reset and time passes.
Fairness == WF_vars(Tick) /\ WF_vars(TrackerStep)

Spec == Init /\ [][Next]_vars

FairSpec == Spec /\ Fairness

-----------------------------------------------------------------------------
(***************************************************************************)
(* Properties                                                              *)
(***************************************************************************)

Items == [key : Keys, delay : Int]

\* Type correctness: the indices stay inside the list and the annotations,
\* whatever is inserted while the loop iterates.
TypeOK ==
    /\ annotations \in UNION {[S -> Texts] : S \in SUBSET Keys}
    /\ now \in Nat
    /\ pc \in {"idle", "build", "walk"}
    /\ k \in 1..4
    /\ list \in Seq(Items)
    /\ cur \in 0..Len(list)
    /\ status \in Statuses
    /\ pc = "walk" => cur > 0
    /\ pc = "build" /\ cur > 0 => k <= 3 /\ DelayAnnotations[k] \in Annotated

\* The list getNowStatus walks starts with the smallest of the pod's delays,
\* although createDelayList does not keep the list sorted.
HeadIsEarliest ==
    pc = "walk" =>
        /\ list # <<>>
        /\ \A key \in Annotated : list[1].delay <= Delay(key)

\* It ends with the greatest of them.
TailIsLatest ==
    pc = "walk" =>
        /\ list # <<>>
        /\ \A key \in Annotated : Delay(key) <= list[Len(list)].delay

\* No pod shows the status of an annotation before its delay has passed, nor
\* the default status if it has an annotation.
NeverEarly ==
    /\ status \in Keys => status \in Annotated /\ now > Delay(status)
    /\ status = "default" => Annotated = {}

\* getNowStatus returns nil, and leaves the pod without a status, only while
\* none of the pod's delays has passed.
NothingWithheld ==
    [][ReturnNil => \A key \in Annotated : now <= Delay(key)]_vars

\* Once every delay has passed, whatever getNowStatus returns has the greatest.
AllElapsed == \A key \in Annotated : now > Delay(key)

IsLatest(key) == key \in Annotated /\ \A other \in Annotated : Delay(other) <= Delay(key)

SettlesOnLatest == [][ReturnItem /\ AllElapsed => IsLatest(status')]_vars

\* A pod never goes back to the status of a smaller delay, however the list
\* was built and whenever the ticks come.
NeverGoesBack ==
    [][(status \in Keys) => status' \in Keys /\ Delay(status) <= Delay(status')]_vars

\* The annotation a pod ends with: of those with the greatest delay, the
\* first in _delayAnnotations.
Winner ==
    LET Latest == {i \in 1..3 :
                     /\ DelayAnnotations[i] \in Annotated
                     /\ \A key \in Annotated :
                          Delay(key) <= Delay(DelayAnnotations[i])}
    IN  DelayAnnotations[CHOOSE i \in Latest : \A j \in Latest : i <= j]

\* Every pod settles: on the status of its latest annotation, or on the
\* default one.  The insertion loop ends, and time passes.
Settles ==
    <>[](status = IF Annotated = {} THEN "default" ELSE Winner)

\* The delays of the pod, and the status it has when it shows an annotation.
PodDelays == [key \in Annotated |-> Delay(key)]

ShownStatus(key) == CreateStatus(PodDelays, key)

\* A pod that shows a container as finished says so of a time that has passed.
FinishedInThePast ==
    status \in Keys \ {"delayRunning"} => ShownStatus(status).container.finishedAt < now

\* A pod that was shown running, and then is shown as finished, started when it
\* was said to have started, and did not finish before that: although a pod that
\* never ran may have finished before its start.
RunsBeforeFinishing ==
    [][status = "delayRunning" /\ status' \in Keys \ {"delayRunning"} =>
        LET before == ShownStatus(status).container
            after == ShownStatus(status').container
        IN  /\ after.startedAt = before.startedAt
            /\ after.startedAt <= after.finishedAt]_vars

\* createDelayList and getNowStatus, however they walk, keep the promise that
\* Schedule makes.
Promise == INSTANCE Schedule WITH
    Annotations <- Keys, delay <- PodDelays, shown <- status

ImplementsSchedule == Promise!FairSpec

\* README.md:93-95: a delay is the time from the pod's creation to its change
\* to Running, Succeeded or Failed; so what is returned is, of the annotations
\* whose delay has passed, one with the greatest.
LatestDueShown ==
    [][ReturnItem => \A key \in Annotated :
        now > Delay(key) => Delay(key) <= Delay(status')]_vars
=============================================================================

------------------------------ MODULE PodStatus ------------------------------
(***************************************************************************)
(* The statuses of a simulated pod (internal/provider/mock_services.go):   *)
(* what createStatus makes of one of the pod's delay annotations.  Times   *)
(* count from the pod's creation.  A pod's containers all get the same     *)
(* status, so that one record stands for them.                             *)
(*                                                                         *)
(* In every operator, delays is the function from the delay annotations    *)
(* that the pod has to their durations, as parseDuration gives them.       *)
(***************************************************************************)
EXTENDS Integers

\* getDelayDuration: zero without the annotation.
GetDelayDuration(delays, annotation) ==
    IF annotation \in DOMAIN delays THEN delays[annotation] ELSE 0

\* The conditions of a status: the one named Desired says which annotation
\* the status is made from, and all change at the pod's start.
Conditions(ready, containersReady, start, annotation) ==
    [initialized |-> TRUE, scheduled |-> TRUE, ready |-> ready,
     containersReady |-> containersReady, desired |-> annotation, since |-> start]

\* A container that runs.
RunningContainer(start) == [state |-> "running", ready |-> TRUE, startedAt |-> start]

\* A container that has finished.
TerminatedContainer(ready, exitCode, start, finish) ==
    [state |-> "terminated", ready |-> ready, exitCode |-> exitCode,
     startedAt |-> start, finishedAt |-> finish]

\* A pod without delay annotations runs since its creation.
CreateDefaultRunningStatus ==
    [phase |-> "Running", startTime |-> 0,
     conditions |-> Conditions(TRUE, TRUE, 0, "default"),
     container |-> RunningContainer(0)]

\* It runs since delayRunning has passed.
CreateRunningStatus(delays) ==
    LET start == GetDelayDuration(delays, "delayRunning")
    IN  [phase |-> "Running", startTime |-> start,
         conditions |-> Conditions(TRUE, TRUE, start, "delayRunning"),
         container |-> RunningContainer(start)]

\* It started at the same time and has succeeded when delaySucceeded passed.
CreateSucceededStatus(delays) ==
    LET start == GetDelayDuration(delays, "delayRunning")
    IN  [phase |-> "Succeeded", startTime |-> start,
         conditions |-> Conditions(FALSE, FALSE, start, "delaySucceeded"),
         container |-> TerminatedContainer(TRUE, 0, start,
                         GetDelayDuration(delays, "delaySucceeded"))]

\* Variant for the mutation runs: copied from createSucceededStatus, with its
\* annotation.
CreateFailedStatusCopied(delays) ==
    LET start == GetDelayDuration(delays, "delayRunning")
    IN  [phase |-> "Failed", startTime |-> start,
         conditions |-> Conditions(FALSE, FALSE, start, "delayFailed"),
         container |-> TerminatedContainer(FALSE, 1, start,
                         GetDelayDuration(delays, "delaySucceeded"))]

\* Or it has failed when delayFailed passed.
CreateFailedStatus(delays) ==
    LET start == GetDelayDuration(delays, "delayRunning")
    IN  [phase |-> "Failed", startTime |-> start,
         conditions |-> Conditions(FALSE, FALSE, start, "delayFailed"),
         container |-> TerminatedContainer(FALSE, 1, start,
                         GetDelayDuration(delays, "delayFailed"))]

CreateStatus(delays, annotation) ==
    CASE annotation = "delaySucceeded" -> CreateSucceededStatus(delays)
      [] annotation = "delayFailed"    -> CreateFailedStatus(delays)
      [] OTHER                         -> CreateRunningStatus(delays)
=============================================================================

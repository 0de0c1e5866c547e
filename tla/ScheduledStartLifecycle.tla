----------------------- MODULE ScheduledStartLifecycle -----------------------
(***************************************************************************)
(* What a scheduled start promises, whatever Temporal workflows implement  *)
(* it: one line of versions.  While it is scheduled, each version is       *)
(* consumed by exactly one command: a reschedule opens the next version, a *)
(* cancel ends it, a due claim takes it to dispatch.  Dispatch can only    *)
(* end in a run or in a failure, and an end is final.                      *)
(* ScheduledStarts implements this specification.                          *)
(***************************************************************************)
EXTENDS Integers

VARIABLES state, version

lifecycle == <<state, version>>

States == {"none", "scheduled", "dispatching", "started", "canceled", "failed"}

LifecycleInit == state = "none" /\ version = 1

Accept == state = "none" /\ state' = "scheduled" /\ UNCHANGED version

Reschedule == state = "scheduled" /\ version' = version + 1 /\ UNCHANGED state

Cancel == state = "scheduled" /\ state' = "canceled" /\ UNCHANGED version

Claim == state = "scheduled" /\ state' = "dispatching" /\ UNCHANGED version

\* A mutation that finds the run already there records it instead.
Start == state \in {"scheduled", "dispatching"} /\ state' = "started" /\ UNCHANGED version

Fail == state = "dispatching" /\ state' = "failed" /\ UNCHANGED version

LifecycleNext == Accept \/ Reschedule \/ Cancel \/ Claim \/ Start \/ Fail

LifecycleSpec == LifecycleInit /\ [][LifecycleNext]_lifecycle
=============================================================================

----------------------------- MODULE MCScheduler -----------------------------
(***************************************************************************)
(* Instances of the scheduler with two tasks above the idle task, as in    *)
(* main.c.                                                                 *)
(***************************************************************************)
EXTENDS SchedulerRefinement, TLC

CONSTANTS a, b, idle

SamePriority       == (a :> 1) @@ (b :> 1) @@ (idle :> 0)
DistinctPriorities == (a :> 2) @@ (b :> 1) @@ (idle :> 0)
==============================================================================

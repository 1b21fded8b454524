------------------------------- MODULE MCMutex -------------------------------
(***************************************************************************)
(* Instances of the mutex with two tasks above the idle task, as in main.c.*)
(***************************************************************************)
EXTENDS Mutex, SchedulerRefinement, TLC

CONSTANTS a, b, idle

SamePriority       == (a :> 1) @@ (b :> 1) @@ (idle :> 0)
DistinctPriorities == (a :> 2) @@ (b :> 1) @@ (idle :> 0)

OneMutex == {MutexWait}
==============================================================================

----------------------------- MODULE MCSemaphore -----------------------------
(***************************************************************************)
(* The semaphore with two tasks above the idle task.  A tick in task code  *)
(* is unlimited; the ticks taken in the scheduler and in the semaphore are *)
(* counted in kernel_ticks, which KernelTicks bounds.                      *)
(***************************************************************************)
EXTENDS Semaphore, SchedulerRefinement, TLC

CONSTANTS a, b, idle, KernelTicks

VARIABLE kernel_ticks

SamePriority == (a :> 1) @@ (b :> 1) @@ (idle :> 0)

OneSemaphore == {SemWait}

TickInTask == /\ SemTick /\ pc[Running] \in {"user", "spin"}
              /\ UNCHANGED kernel_ticks

TickInKernel == /\ SemTick /\ pc[Running] \notin {"user", "spin"}
                /\ kernel_ticks < KernelTicks
                /\ kernel_ticks' = kernel_ticks + 1

Code == SemCode /\ UNCHANGED <<semhist, kernel_ticks>>

MCInit == SemInit /\ kernel_ticks = 0
MCNext == TickInTask \/ TickInKernel \/ Code
MCSpec == MCInit /\ [][MCNext]_<<svars, semvars, semhist, kernel_ticks>>
==============================================================================

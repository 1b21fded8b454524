-------------------------- MODULE MCMutexPreemption --------------------------
(***************************************************************************)
(* The mutex with ticks at every step.  A tick in task code is unlimited;  *)
(* the ticks taken in the scheduler and in the mutex are counted in        *)
(* kernel_ticks, which KernelTicks bounds.                                 *)
(***************************************************************************)
EXTENDS MCMutex

CONSTANT KernelTicks

VARIABLE kernel_ticks

TickInTask == /\ MutexTick /\ pc[Running] \in {"user", "spin"}
              /\ UNCHANGED kernel_ticks

TickInKernel == /\ MutexTick /\ pc[Running] \notin {"user", "spin"}
                /\ kernel_ticks < KernelTicks
                /\ kernel_ticks' = kernel_ticks + 1

Code == MutexCode /\ UNCHANGED <<mhist, kernel_ticks>>

MCInit == MutexInit /\ kernel_ticks = 0
MCNext == TickInTask \/ TickInKernel \/ Code
MCSpec == MCInit /\ [][MCNext]_<<svars, mvars, mhist, kernel_ticks>>
==============================================================================

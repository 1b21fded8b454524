----------------------------- MODULE MCPreemption ----------------------------
(***************************************************************************)
(* The scheduler with ticks at every step of the kernel.  A tick in task   *)
(* code is harmless and unlimited; the ticks taken inside the kernel are   *)
(* counted in kernel_ticks, which KernelTicks bounds.                      *)
(***************************************************************************)
EXTENDS MCScheduler

CONSTANT KernelTicks

VARIABLE kernel_ticks

TickInTask == SysTick /\ pc[Running] \in {"user", "spin"} /\ UNCHANGED kernel_ticks

TickInKernel == /\ SysTick /\ pc[Running] \notin {"user", "spin"}
                /\ kernel_ticks < KernelTicks
                /\ kernel_ticks' = kernel_ticks + 1

Code == SchedulerCode /\ UNCHANGED <<ticked, kernel_ticks>>

MCInit == SchedulerInit /\ kernel_ticks = 0
MCNext == TickInTask \/ TickInKernel \/ Code
MCSpec == MCInit /\ [][MCNext]_<<svars, ticked, kernel_ticks>>
==============================================================================

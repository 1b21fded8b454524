------------------------------ MODULE Semaphore ------------------------------
(***************************************************************************)
(* Src/semaphore.c: one counting semaphore over the scheduler.             *)
(*                                                                         *)
(* sem_aquire takes a permit with LDREX and STREX or blocks the caller,    *)
(* which tries again after it was woken.  sem_release runs with interrupts *)
(* disabled up to its last statement, so it is one step.                   *)
(***************************************************************************)
EXTENDS Scheduler, Integers

CONSTANTS Users,       \* the tasks that use the semaphore
          max_count,   \* semaphore_t.max_count
          InitCount    \* the init_count argument of sem_init

SemWait   == <<"semaphore", 0>>
SemLabels == {"sem_try", "sem_test"}

ASSUME SemaphoreAssumption ==
  /\ Users \subseteq Task
  /\ SemWait \in WaitLists
  /\ SemLabels \subseteq ClientLabels
  /\ max_count \in Nat /\ InitCount \in 0 .. max_count

VARIABLES
  count,        \* semaphore_t.count
  exclusive,    \* the exclusive monitor of the core is set
  permits,      \* history: what count would be if every release incremented it
  raced         \* history: a tick between LDREX and the test of what it loaded

semvars == <<count, exclusive, permits>>
semhist == <<ticked, raced>>

\* Mutant of Upped: no limit.
UppedPastMax(n) == n + 1

\* if (sem->count < sem->max_count) sem->count++
Upped(n) == IF n < max_count THEN n + 1 ELSE n

-----------------------------------------------------------------------------
(* sem_aquire                                                              *)

sem_aquire(c) ==
  /\ At(c, "user")
  /\ Goto(c, "sem_try")
  /\ UNCHANGED <<heap, tcbs, sched, primask, ret, loc, halt, semvars>>

\* LDREX
LoadCount(c) ==
  /\ At(c, "sem_try")
  /\ Goto(c, "sem_test")
  /\ loc' = [loc EXCEPT ![c].reg = count]
  /\ exclusive' = TRUE
  /\ UNCHANGED <<heap, tcbs, sched, primask, ret, halt, count, permits>>

\* Mutant of StoreCount: a plain store where the STREX is.
PlainStore(c) ==
  /\ At(c, "sem_test") /\ loc[c].reg > 0
  /\ Goto(c, "user")
  /\ count' = loc[c].reg - 1
  /\ permits' = permits - 1
  /\ exclusive' = FALSE
  /\ loc' = [loc EXCEPT ![c].reg = 0]
  /\ UNCHANGED <<heap, tcbs, sched, primask, ret, halt>>

\* STREX of the decremented count: it fails if the monitor has been cleared.
StoreCount(c) ==
  /\ At(c, "sem_test") /\ loc[c].reg > 0
  /\ IF exclusive
       THEN /\ Goto(c, "user")
            /\ count' = loc[c].reg - 1
            /\ permits' = permits - 1
       ELSE /\ Goto(c, "sem_try")
            /\ UNCHANGED <<count, permits>>
  /\ exclusive' = FALSE
  /\ loc' = [loc EXCEPT ![c].reg = 0]
  /\ UNCHANGED <<heap, tcbs, sched, primask, ret, halt>>

\* Mutant of BlockOnSem: the LDREX is moved out of the loop.
BlockAndTestAgain(c) ==
  /\ At(c, "sem_test") /\ loc[c].reg = 0
  /\ cur_task # NULL
  /\ exclusive' = FALSE
  /\ task_block(cur_task, "BLOCKED")
  /\ Goto(c, "push")
  /\ ret' = [ret EXCEPT ![c] = "sem_test"]
  /\ loc' = [loc EXCEPT ![c].task = cur_task, ![c].list = SemWait]
  /\ UNCHANGED <<wake_tick, pid, next_pid, cur_task, next_process, cur_process,
                 sch_ticks, count, permits>>

\* CLREX, and task_block of a task that found no permit; its task_push into
\* blocked_tasks, scheduler_tick and the next try are the steps of Scheduler
\* from "push" on.
BlockOnSem(c) ==
  /\ At(c, "sem_test") /\ loc[c].reg = 0
  /\ cur_task # NULL
  /\ exclusive' = FALSE
  /\ task_block(cur_task, "BLOCKED")
  /\ Goto(c, "push")
  /\ ret' = [ret EXCEPT ![c] = "sem_try"]
  /\ loc' = [loc EXCEPT ![c].task = cur_task, ![c].list = SemWait]
  /\ UNCHANGED <<wake_tick, pid, next_pid, cur_task, next_process, cur_process,
                 sch_ticks, count, permits>>

-----------------------------------------------------------------------------
(* sem_release: with a task in blocked_tasks it wakes that task and leaves *)
(* count alone.                                                            *)

Release ==
  /\ IF heap.size[SemWait] = 0
       THEN /\ count' = Upped(count)
            /\ UNCHANGED <<heap, state, ready_bitmap, primask, halt>>
       ELSE /\ IF PopFaults(heap, SemWait)
                 THEN /\ halt' = "fault"
                      /\ UNCHANGED <<heap, state, ready_bitmap, primask>>
                 ELSE ReadyFrom(task_pop(heap, SemWait), Popped(heap, SemWait))
            /\ UNCHANGED count
  /\ permits' = Upped(permits)
  /\ UNCHANGED <<wake_tick, pid, next_pid, cur_task, next_process, cur_process,
                 sch_ticks, frames>>

sem_release(c) == At(c, "user") /\ Release /\ UNCHANGED exclusive

-----------------------------------------------------------------------------
SemInit == /\ SchedulerInit
           /\ count = InitCount /\ exclusive = FALSE /\ permits = InitCount
           /\ raced = FALSE

SemTick == /\ SysTick
           /\ exclusive' = FALSE
           /\ raced' = (raced \/ pc[Running] = "sem_test")
           /\ UNCHANGED <<count, permits>>

SemStep(c) ==
  sem_aquire(c) \/ LoadCount(c) \/ StoreCount(c) \/ BlockOnSem(c) \/ sem_release(c)

SemCode ==
  \/ init_systick /\ UNCHANGED semvars
  \/ \E c \in Ctx : Step(c) /\ UNCHANGED semvars
  \/ \E c \in Users : SemStep(c)

SemNext == SemTick \/ (SemCode /\ UNCHANGED semhist)

SemSpec == SemInit /\ [][SemNext]_<<svars, semvars, semhist>>

-----------------------------------------------------------------------------
(* Properties.                                                             *)

\* The type invariant of the semaphore, over that of the scheduler.
SemTypeOK == /\ TypeOK
             /\ count \in 0 .. max_count /\ exclusive \in BOOLEAN
             /\ permits \in Int /\ raced \in BOOLEAN

\* No permit is granted twice: sem_aquire never succeeds more often than the
\* initial count and the releases allow, wherever ticks and releases fall
\* between LDREX and STREX.
NoOverdraw == count <= permits

\* semaphore.h: sem_aquire blocks a task if it cannot decrement count.  A task waits
\* only while there is no permit: none is released between the LDREX that finds 0 and
\* the push into blocked_tasks, and a release that finds tasks waiting raises no count.
NoIdlePermit == (\E t \in Users : state[t] = "BLOCKED") => count = 0

\* It takes a tick between the LDREX and task_block, or in a critical section of
\* the scheduler, to leave a task waiting beside a permit.
IdlePermitOnlyIfRaced == ~torn /\ ~raced => NoIdlePermit
==============================================================================

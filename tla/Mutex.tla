-------------------------------- MODULE Mutex --------------------------------
(***************************************************************************)
(* Src/mutex.c: one mutex over the scheduler.                              *)
(*                                                                         *)
(* mutex_aquire takes a free mutex with LDREX and STREX; the exclusive     *)
(* monitor of the core is cleared by every exception.  When the mutex is   *)
(* taken the caller blocks itself and tries again after it was woken.      *)
(* mutex_release wakes one waiter and then clears owner_pid; task_add_ready*)
(* has enabled interrupts in between.                                      *)
(***************************************************************************)
EXTENDS Scheduler

CONSTANT Lockers    \* the tasks that use the mutex

MutexWait   == <<"mutex", 0>>
MutexLabels == {"mutex_try", "mutex_test", "mutex_pop", "mutex_clear"}

ASSUME MutexAssumption ==
  /\ Lockers \subseteq Task
  /\ MutexWait \in WaitLists
  /\ MutexLabels \subseteq ClientLabels

VARIABLES
  owner_pid,    \* mutex_t.owner_pid, 0 if the mutex is free
  exclusive,    \* the exclusive monitor of the core is set
  held,         \* history: who returned from mutex_aquire and has not released
  raced         \* history: a tick has hit a context in RaceLabels

mvars == <<owner_pid, exclusive, held>>
mhist == <<ticked, raced>>

\* Between LDREX and the task_block or STREX that follows, and between the
\* wake-up of a waiter and the store that frees the mutex.
RaceLabels == {"mutex_test", "mutex_clear"}

RunningPid == IF cur_task = NULL THEN 0 ELSE pid[cur_task]

\* The step of c from one label to another leaves the scheduler alone.
Jump(c, from, to) ==
  /\ At(c, from)
  /\ Goto(c, to)
  /\ UNCHANGED <<heap, tcbs, sched, primask, ret, halt>>

-----------------------------------------------------------------------------
(* mutex_aquire.  A task does not call it again while it has the mutex.    *)

mutex_aquire(c) ==
  /\ c \notin held
  /\ Jump(c, "user", "mutex_try")
  /\ UNCHANGED <<loc, mvars>>

\* LDREX
LoadOwner(c) ==
  /\ Jump(c, "mutex_try", "mutex_test")
  /\ loc' = [loc EXCEPT ![c].reg = owner_pid]
  /\ exclusive' = TRUE
  /\ UNCHANGED <<owner_pid, held>>

\* Mutant of StoreOwner: a plain store instead of STREX.
PlainStore(c) ==
  /\ loc[c].reg = 0
  /\ Jump(c, "mutex_test", "user")
  /\ owner_pid' = RunningPid
  /\ held' = held \union {c}
  /\ UNCHANGED <<loc, exclusive>>

\* STREX of a mutex that was free: it fails if the monitor has been cleared.
StoreOwner(c) ==
  /\ loc[c].reg = 0
  /\ IF exclusive
       THEN /\ Jump(c, "mutex_test", "user")
            /\ owner_pid' = RunningPid
            /\ held' = held \union {c}
       ELSE /\ Jump(c, "mutex_test", "mutex_try")
            /\ UNCHANGED <<owner_pid, held>>
  /\ exclusive' = FALSE
  /\ UNCHANGED loc

\* CLREX, and task_block of a task that found the mutex taken; its task_push
\* into delayed_tasks, scheduler_tick and the next try are the steps of
\* Scheduler from "push" on.
BlockOnMutex(c) ==
  /\ At(c, "mutex_test") /\ loc[c].reg # 0
  /\ cur_task # NULL
  /\ exclusive' = FALSE
  /\ task_block(cur_task, "BLOCKED")
  /\ Goto(c, "push")
  /\ ret' = [ret EXCEPT ![c] = "mutex_try"]
  /\ loc' = [loc EXCEPT ![c].task = cur_task, ![c].list = MutexWait, ![c].reg = 0]
  /\ UNCHANGED <<wake_tick, pid, next_pid, cur_task, next_process, cur_process,
                 sch_ticks, owner_pid, held>>

-----------------------------------------------------------------------------
(* mutex_release                                                           *)

\* Mutant of mutex_release: no test of the owner.
ReleaseByAnyone(c) ==
  /\ Jump(c, "user", "mutex_pop")
  /\ UNCHANGED <<loc, mvars>>

\* A task that is not the owner returns at once.
mutex_release(c) ==
  /\ Jump(c, "user", IF RunningPid = owner_pid THEN "mutex_pop" ELSE "user")
  /\ UNCHANGED <<loc, mvars>>

\* Mutant of HasWaiters: off by one.
HasTwoWaiters == heap.size[MutexWait] > 1

HasWaiters == heap.size[MutexWait] # 0

PopWaiter(c) ==
  /\ At(c, "mutex_pop")
  /\ IF ~HasWaiters
       THEN /\ primask' = TRUE
            /\ UNCHANGED <<heap, state, ready_bitmap, halt>>
       ELSE IF PopFaults(heap, MutexWait)
              THEN /\ halt' = "fault"
                   /\ UNCHANGED <<heap, state, ready_bitmap, primask>>
              ELSE ReadyFrom(task_pop(heap, MutexWait), Popped(heap, MutexWait))
  /\ Goto(c, "mutex_clear")
  /\ UNCHANGED <<wake_tick, pid, next_pid, cur_task, next_process, cur_process,
                 sch_ticks, ret, loc, mvars>>

ClearOwner(c) ==
  /\ At(c, "mutex_clear")
  /\ owner_pid' = 0
  /\ held' = held \ {c}
  /\ primask' = FALSE
  /\ Goto(c, "user")
  /\ UNCHANGED <<heap, tcbs, sched, ret, loc, halt, exclusive>>

-----------------------------------------------------------------------------
MutexInit == /\ SchedulerInit
             /\ owner_pid = 0 /\ exclusive = FALSE /\ held = {} /\ raced = FALSE

MutexTick == /\ SysTick
             /\ exclusive' = FALSE
             /\ raced' = (raced \/ pc[Running] \in RaceLabels)
             /\ UNCHANGED <<owner_pid, held>>

MutexStep(c) ==
  \/ mutex_aquire(c) \/ LoadOwner(c) \/ StoreOwner(c) \/ BlockOnMutex(c)
  \/ mutex_release(c) \/ PopWaiter(c) \/ ClearOwner(c)

MutexCode ==
  \/ init_systick /\ UNCHANGED mvars
  \/ \E c \in Ctx : Step(c) /\ UNCHANGED mvars
  \/ \E c \in Lockers : MutexStep(c)

MutexNext == MutexTick \/ (MutexCode /\ UNCHANGED mhist)

MutexSpec == MutexInit /\ [][MutexNext]_<<svars, mvars, mhist>>

\* The ticks that hit neither a critical section nor a race of the mutex.
CalmMutexTick == MutexTick /\ ~torn' /\ ~raced'

\* Fairness: the timer and the processor go on, as in Scheduler, and a task that
\* has the mutex and gets the processor again and again releases it, as both
\* tasks of main.c do.
MutexKernelStep(c) ==
  /\ \/ KernelStep(c) /\ UNCHANGED mvars
     \/ LoadOwner(c) \/ StoreOwner(c) \/ BlockOnMutex(c) \/ PopWaiter(c) \/ ClearOwner(c)
  /\ UNCHANGED mhist

CalmMutexSpec ==
  /\ MutexInit
  /\ [][CalmMutexTick \/ (MutexCode /\ UNCHANGED mhist)]_<<svars, mvars, mhist>>
  /\ SF_<<svars, mvars, mhist>>(CalmMutexTick)
  /\ WF_<<svars, mvars, mhist>>(init_systick /\ UNCHANGED <<mvars, mhist>>)
  /\ \A c \in Ctx : SF_<<svars, mvars, mhist>>(MutexKernelStep(c))
  /\ \A c \in Lockers :
       SF_<<svars, mvars, mhist>>(mutex_release(c) /\ c \in held /\ UNCHANGED mhist)

-----------------------------------------------------------------------------
(* Properties.                                                             *)

\* mutex.h: a mutex has one owner.
OneHolder == \A t, u \in held : t = u

\* The type invariant of the mutex, over that of the scheduler.
MutexTypeOK == /\ TypeOK
               /\ owner_pid \in Nat /\ exclusive \in BOOLEAN
               /\ held \subseteq Lockers /\ raced \in BOOLEAN

\* At most one task is between its return from mutex_aquire and the store that
\* releases the mutex, wherever ticks fall between LDREX and STREX and in the
\* scheduler, except between the load of cur_task and the store of next_process.
MutualExclusion == ~stale => OneHolder

\* The test at the start of mutex_release is right: a task's pid is in owner_pid
\* exactly as long as the task has the mutex.
OwnerIsHolder == ~stale => \A t \in Created : owner_pid = pid[t] <=> t \in held

\* No wakeup is lost: while tasks wait for a mutex that is free, some task that
\* has been woken, or has not blocked yet, is still going to try to take it.  (A
\* blocked task that is switched out stands at mutex_try, but cannot get there.)
\* It takes a tick in a critical section or in RaceLabels to lose one.
Trying(t) == /\ pc[t] \in {"mutex_try", "mutex_test"} \/ ret[t] = "mutex_try"
             /\ state[t] # "BLOCKED"
NoLostWakeup ==
  ~torn /\ ~raced /\ owner_pid = 0 /\ (\E t \in Lockers : state[t] = "BLOCKED")
    => \E t \in Lockers : Trying(t)

\* A task that waits for the mutex is woken.
WaitersWake == \A t \in Lockers : state[t] = "BLOCKED" ~> state[t] = "READY"
==============================================================================

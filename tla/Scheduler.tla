------------------------------ MODULE Scheduler ------------------------------
(***************************************************************************)
(* Src/scheduler.c with the callers that make it run: task creation        *)
(* (task.c, tcb.c), the SysTick handler (main.c) and the PendSV handler    *)
(* (start_task.s).                                                         *)
(*                                                                         *)
(* One core runs one context at a time: main before the first tick, then   *)
(* the task cur_process, or the exception handler.  Handlers all have the  *)
(* reset priority, so they do not nest, and PendSV is tail-chained to the  *)
(* SysTick that pended it.  A context can be interrupted between any two   *)
(* of its steps unless PRIMASK is set.  __disable_irq and __enable_irq set *)
(* and clear PRIMASK and do not count, so the inner __enable_irq of        *)
(* task_add_ready and task_block ends the critical section of its caller:  *)
(* a step here is a store with what is computed for it, the loads and the  *)
(* test that come before a store, or a run of statements that are executed *)
(* with PRIMASK set throughout.  The links of a task that is in no queue   *)
(* are cleared in one step, in task_remove with the store to size.         *)
(*                                                                         *)
(* scheduler_tick is called from the SysTick handler and, by a task that   *)
(* blocks or sleeps, in thread mode.  Its steps are parameterised by the   *)
(* context c that executes them.                                           *)
(***************************************************************************)
EXTENDS TaskQueue

CONSTANTS
  Main, Handler,    \* the contexts that are not tasks: main() and the ISR
  Prio,             \* tcb_t.priority of each task
  MAX_PRIORITIES,   \* the number of ready lists (15)
  TickMax,          \* the largest value of the 32-bit tick counter
  SleepTicks,       \* the arguments tasks give to task_sleep
  Sleepers,         \* the tasks that call task_sleep
  Boot,             \* the tasks main creates before it starts SysTick
  Creators,         \* the tasks that create the other tasks at run time
  WaitLists,        \* the waiting lists of mutexes and semaphores
  ClientLabels      \* the labels of the steps of mutexes and semaphores

Priority == 0 .. MAX_PRIORITIES - 1
Ctx      == Task \union {Main, Handler}
Tick     == 0 .. TickMax

Ready(p) == <<"ready", p>>
Delayed  == <<"delayed", 0>>
Queue    == {Ready(p) : p \in Priority} \union {Delayed} \union WaitLists

\* The statements of the kernel at which a context can be: the main program,
\* task_push called with interrupts enabled, scheduler_handle_blocked, and the
\* end of scheduler_tick, after it has stored cur_task.
PushLabels   == {"push", "push_link", "push_head", "push_next", "push_back",
                 "push_prev", "push_tail", "push_size", "push_store"}
WalkLabels   == {"walk", "compare", "unlink_head", "store_head",
                 "unlink_tail", "store_tail", "unlink_next", "store_next",
                 "unlink_prev", "store_prev", "unlink_size", "unlink_store",
                 "wake"}
NextLabels   == {"next_load", "next_store"}
RunLabels    == {"run_load", "run_store"}
SwitchLabels == RunLabels \union {"count", "count_store", "pend"}
KernelLabels == {"main", "spin", "idle", "add_new", "walk_init", "requeue",
                 "bitmap", "pop", "dispatch"}
                \union PushLabels \union WalkLabels \union NextLabels
                \union SwitchLabels

\* Where a function works on the lists, or chooses the next task, between its
\* __disable_irq and its last __enable_irq.  Nothing keeps a tick out of them
\* once the inner __enable_irq has been executed.
CriticalSections == PushLabels \union WalkLabels \union NextLabels
                    \union RunLabels \union {"bitmap", "pop", "dispatch"}

ASSUME SchedulerAssumption ==
  /\ Main \notin Task \union {NULL} /\ Handler \notin Task \union {NULL, Main}
  /\ MAX_PRIORITIES \in Nat \ {0} /\ TickMax \in Nat
  /\ Prio \in [Task -> Priority] /\ SleepTicks \subseteq Tick
  /\ Sleepers \subseteq Task /\ Boot \subseteq Task /\ Creators \subseteq Task
  /\ WaitLists \intersect ({Ready(p) : p \in Priority} \union {Delayed}) = {}
  /\ ClientLabels \intersect (KernelLabels \union {"user"}) = {}

VARIABLES
  heap,           \* the queues and the links of the tasks (TaskQueue)
  state,          \* tcb_t.state
  wake_tick,      \* tcb_t.wake_tick
  pid,            \* tcb_t.pid, 0 in a TCB that task_init has not filled
  next_pid,       \* the global pid of tcb.c
  cur_task,       \* sch_inst.cur_task
  ready_bitmap,   \* sch_inst.ready_bitmap, as the set of its one bits
  sch_ticks,
  next_process,
  cur_process,    \* the task whose stack the core uses; NULL until os_started
  primask,
  pc,             \* where each context is
  ret,            \* where its call into the kernel returns to
  loc,            \* its locals and registers
  halt,           \* "none", or what stopped the core: a failed ASSERT or a fault
  torn,           \* history: a tick has hit a context in CriticalSections
  stale           \* history: a tick has hit a context in NextLabels

tcbs   == <<state, wake_tick, pid, next_pid>>
sched  == <<cur_task, next_process, cur_process, ready_bitmap, sch_ticks>>
frames == <<pc, ret, loc>>
svars  == <<heap, tcbs, sched, primask, frames, halt>>
ticked == <<torn, stale>>

Running   == IF cur_process = NULL THEN Main ELSE cur_process
Executing == IF pc[Handler] = "idle" THEN Running ELSE Handler
Created   == {t \in Task : pid[t] # 0}

NoLocals == [list |-> Delayed, task |-> NULL, walker |-> NULL,
             next |-> NULL, at |-> NULL, val |-> NULL, reg |-> 0]

\* Context c has the core and is about to execute the statement l.
At(c, l) == halt = "none" /\ c = Executing /\ pc[c] = l

Goto(c, l) == pc' = [pc EXCEPT ![c] = l]

\* Mutant of NextTick: a counter that does not wrap.
NextTickUnbounded(n) == n + 1

NextTick(n) == IF n = TickMax THEN 0 ELSE n + 1

\* sch_ticks + ticks_asleep in 32 bits.
WakeTick(n) == IF sch_ticks + n > TickMax THEN sch_ticks + n - (TickMax + 1)
                                          ELSE sch_ticks + n

\* Mutant of Highest: counting the zeros from the wrong end.
Lowest == CHOOSE p \in ready_bitmap : \A o \in ready_bitmap : o >= p

\* 31 - __builtin_clz(ready_bitmap)
Highest == CHOOSE p \in ready_bitmap : \A o \in ready_bitmap : o <= p

-----------------------------------------------------------------------------
(* Parts of a step: the functions that run with interrupts disabled.       *)

\* Mutant of ClearedIfEmpty: the bit is never cleared.
KeepsBit(h, p) == ready_bitmap

\* The bitmap once the ready list of priority p has become that of the heap h.
ClearedIfEmpty(h, p) ==
  IF h.size[Ready(p)] = 0 THEN ready_bitmap \ {p} ELSE ready_bitmap

\* task_add_ready(t) in the heap h that the step has made so far.
ReadyFrom(h, t) ==
  LET q == Ready(Prio[t])
  IN  /\ heap' = task_push(h, q, t)
      /\ state' = [state EXCEPT ![t] = "READY"]
      /\ ready_bitmap' = ready_bitmap \union {Prio[t]}
      /\ primask' = FALSE
      /\ halt' = IF PushFaults(h, q) THEN "fault" ELSE halt

task_add_ready(t) == ReadyFrom(heap, t)

\* The task_state_t argument is s; the ASSERT is that of task_remove.
task_block(t, s) ==
  LET left == task_remove(heap, Ready(Prio[t]), t)
  IN  IF state[t] = "READY" /\ heap.size[Ready(Prio[t])] = 0
        THEN /\ halt' = "assert_size"
             /\ UNCHANGED <<heap, ready_bitmap, state, primask>>
        ELSE /\ IF state[t] = "READY"
                  THEN /\ heap' = left
                       /\ ready_bitmap' = ClearedIfEmpty(left, Prio[t])
                  ELSE UNCHANGED <<heap, ready_bitmap>>
             /\ state' = [state EXCEPT ![t] = s]
             /\ primask' = FALSE
             /\ UNCHANGED halt

-----------------------------------------------------------------------------
(* task_create, by main before the first tick or by a running task.        *)

MayCreate(c, t) ==
  \/ c = Main /\ At(c, "main") /\ t \in Boot
  \/ c \in Creators /\ At(c, "user") /\ t \notin Boot

task_init(c, t) ==
  /\ MayCreate(c, t)
  /\ t \notin Created
  /\ heap' = ClearLinks(heap, t)
  /\ state' = [state EXCEPT ![t] = "NONE"]
  /\ wake_tick' = [wake_tick EXCEPT ![t] = 0]
  /\ pid' = [pid EXCEPT ![t] = next_pid]
  /\ next_pid' = next_pid + 1
  /\ Goto(c, "add_new")
  /\ ret' = [ret EXCEPT ![c] = pc[c]]
  /\ loc' = [loc EXCEPT ![c].task = t]
  /\ UNCHANGED <<sched, primask, halt>>

AddNew(c) ==
  /\ At(c, "add_new")
  /\ task_add_ready(loc[c].task)
  /\ Goto(c, ret[c])
  /\ loc' = [loc EXCEPT ![c].task = NULL]
  /\ UNCHANGED <<wake_tick, pid, next_pid, cur_task, next_process,
                 cur_process, sch_ticks, ret>>

\* main, once it has created its tasks; it then spins until the first tick.
init_systick ==
  /\ At(Main, "main")
  /\ Boot \subseteq Created
  /\ Goto(Main, "spin")
  /\ UNCHANGED <<heap, tcbs, sched, primask, ret, loc, halt>>

\* SysTick is taken: the handler preempts the running context.
SysTick ==
  /\ halt = "none" /\ pc[Handler] = "idle" /\ ~primask
  /\ pc[Main] = "spin"
  /\ Goto(Handler, "walk_init")
  /\ torn' = (torn \/ pc[Running] \in CriticalSections)
  /\ stale' = (stale \/ pc[Running] \in NextLabels)
  /\ UNCHANGED <<heap, tcbs, sched, primask, ret, loc, halt>>

-----------------------------------------------------------------------------
(* task_sleep(n).  task_block re-enables interrupts, so the task_push that *)
(* follows it runs unprotected.                                            *)

task_sleep(c, n) ==
  /\ c \in Sleepers /\ At(c, "user")
  /\ IF cur_task = NULL \/ state[cur_task] # "RUNNING"
       THEN /\ halt' = "assert_running"
            /\ UNCHANGED <<heap, tcbs, sched, primask, frames>>
       ELSE /\ wake_tick' = [wake_tick EXCEPT ![cur_task] = WakeTick(n)]
            /\ task_block(cur_task, "DELAYED")
            /\ Goto(c, "push")
            /\ ret' = [ret EXCEPT ![c] = "user"]
            /\ loc' = [loc EXCEPT ![c].task = cur_task, ![c].list = Delayed]
            /\ UNCHANGED <<pid, next_pid, cur_task, next_process, cur_process,
                           sch_ticks>>

\* Calling task_push(loc.list, loc.task) with interrupts enabled.
HeapStep(c, from, to, h) ==
  /\ At(c, from)
  /\ heap' = h
  /\ Goto(c, to)
  /\ UNCHANGED <<tcbs, sched, primask, ret, loc, halt>>

PushClear(c) == HeapStep(c, "push", "push_link", ClearLinks(heap, loc[c].task))

\* The test of size, with the load of tail if the queue is not empty.
PushLink(c) ==
  LET q == loc[c].list
  IN  /\ At(c, "push_link")
      /\ IF heap.size[q] = 0
           THEN Goto(c, "push_head") /\ UNCHANGED loc
           ELSE Goto(c, "push_next") /\ loc' = [loc EXCEPT ![c].at = heap.tail[q]]
      /\ UNCHANGED <<heap, tcbs, sched, primask, ret, halt>>

PushHead(c) == HeapStep(c, "push_head", "push_tail",
                        [heap EXCEPT !.head[loc[c].list] = loc[c].task])

\* tq->tail->next = task, which faults if tail is the null pointer.
PushNext(c) ==
  /\ At(c, "push_next")
  /\ heap' = [heap EXCEPT !.next[loc[c].at] = loc[c].task]
  /\ halt' = IF loc[c].at = NULL THEN "fault" ELSE halt
  /\ Goto(c, "push_back")
  /\ UNCHANGED <<tcbs, sched, primask, ret, loc>>

PushBack(c) ==
  /\ At(c, "push_back")
  /\ loc' = [loc EXCEPT ![c].at = heap.tail[loc[c].list]]
  /\ Goto(c, "push_prev")
  /\ UNCHANGED <<heap, tcbs, sched, primask, ret, halt>>

PushPrev(c) == HeapStep(c, "push_prev", "push_tail",
                        [heap EXCEPT !.prev[loc[c].task] = loc[c].at])

PushTail(c) == HeapStep(c, "push_tail", "push_size",
                        SetTail(heap, loc[c].list, loc[c].task))

PushSize(c) ==
  /\ At(c, "push_size")
  /\ loc' = [loc EXCEPT ![c].reg = heap.size[loc[c].list]]
  /\ Goto(c, "push_store")
  /\ UNCHANGED <<heap, tcbs, sched, primask, ret, halt>>

\* The rest of size++, and the call of scheduler_tick in thread mode.
PushStore(c) ==
  /\ At(c, "push_store")
  /\ heap' = [heap EXCEPT !.size[loc[c].list] = Incr(loc[c].reg)]
  /\ loc' = [loc EXCEPT ![c] = NoLocals]
  /\ Goto(c, "walk_init")
  /\ UNCHANGED <<tcbs, sched, primask, ret, halt>>

UnprotectedPush(c) ==
  \/ PushClear(c) \/ PushLink(c) \/ PushHead(c) \/ PushNext(c) \/ PushBack(c)
  \/ PushPrev(c) \/ PushTail(c) \/ PushSize(c) \/ PushStore(c)

-----------------------------------------------------------------------------
(* scheduler_handle_blocked.  Interrupts are disabled until the first task *)
(* is woken; from then on a thread-mode walk runs with them enabled.       *)

WalkInit(c) ==
  /\ At(c, "walk_init")
  /\ primask' = TRUE
  /\ loc' = [loc EXCEPT ![c].walker = heap.head[Delayed]]
  /\ Goto(c, "walk")
  /\ UNCHANGED <<heap, tcbs, sched, ret, halt>>

\* The loop test: at the end of the list, __enable_irq and return.
Walk(c) ==
  /\ At(c, "walk")
  /\ IF loc[c].walker = NULL
       THEN /\ primask' = FALSE
            /\ loc' = [loc EXCEPT ![c].next = NULL]
            /\ Goto(c, "requeue")
       ELSE /\ loc' = [loc EXCEPT ![c].next = heap.next[loc[c].walker]]
            /\ Goto(c, "compare")
            /\ UNCHANGED primask
  /\ UNCHANGED <<heap, tcbs, sched, ret, halt>>

\* Mutant of Expired: woken at its tick only.
ExpiredNow(t) == wake_tick[t] = sch_ticks

Expired(t) == wake_tick[t] <= sch_ticks

Compare(c) ==
  LET expired == Expired(loc[c].walker)
  IN  /\ At(c, "compare")
      /\ halt' = IF expired /\ heap.size[Delayed] = 0 THEN "assert_size" ELSE halt
      /\ Goto(c, IF expired THEN "unlink_head" ELSE "walk")
      /\ loc' = IF expired THEN loc
                           ELSE [loc EXCEPT ![c].walker = loc[c].next]
      /\ UNCHANGED <<heap, tcbs, sched, primask, ret>>

\* task_remove(&delayed_list, walker).  Each of its four tests loads what the
\* store behind it writes, and goes to that store if it succeeds.
RemoveTest(c, from, holds, store, else, at, val) ==
  /\ At(c, from)
  /\ IF holds
       THEN Goto(c, store) /\ loc' = [loc EXCEPT ![c].at = at, ![c].val = val]
       ELSE Goto(c, else) /\ UNCHANGED loc
  /\ UNCHANGED <<heap, tcbs, sched, primask, ret, halt>>

RemoveHead(c) ==
  LET t == loc[c].walker
  IN  RemoveTest(c, "unlink_head", heap.head[Delayed] = t, "store_head",
                 "unlink_tail", NULL, heap.next[t])

StoreHead(c) == HeapStep(c, "store_head", "unlink_tail",
                         [heap EXCEPT !.head[Delayed] = loc[c].val])

RemoveTail(c) ==
  LET t == loc[c].walker
  IN  RemoveTest(c, "unlink_tail", heap.tail[Delayed] = t, "store_tail",
                 "unlink_next", NULL, heap.prev[t])

StoreTail(c) == HeapStep(c, "store_tail", "unlink_next",
                         [heap EXCEPT !.tail[Delayed] = loc[c].val])

RemoveNext(c) ==
  LET t == loc[c].walker
  IN  RemoveTest(c, "unlink_next", heap.prev[t] # NULL, "store_next",
                 "unlink_prev", heap.prev[t], heap.next[t])

StoreNext(c) == HeapStep(c, "store_next", "unlink_prev",
                         [heap EXCEPT !.next[loc[c].at] = loc[c].val])

RemovePrev(c) ==
  LET t == loc[c].walker
  IN  RemoveTest(c, "unlink_prev", heap.next[t] # NULL, "store_prev",
                 "unlink_size", heap.next[t], heap.prev[t])

\* Mutant of StorePrev: the task behind t keeps its link back to t.
KeepPrev(c) == HeapStep(c, "store_prev", "unlink_size", heap)

StorePrev(c) == HeapStep(c, "store_prev", "unlink_size",
                         [heap EXCEPT !.prev[loc[c].at] = loc[c].val])

RemoveSize(c) ==
  /\ At(c, "unlink_size")
  /\ loc' = [loc EXCEPT ![c].reg = heap.size[Delayed]]
  /\ Goto(c, "unlink_store")
  /\ UNCHANGED <<heap, tcbs, sched, primask, ret, halt>>

RemoveStore(c) ==
  /\ At(c, "unlink_store")
  /\ heap' = ClearLinks([heap EXCEPT !.size[Delayed] = Decr(loc[c].reg)],
                        loc[c].walker)
  /\ loc' = [loc EXCEPT ![c].at = NULL, ![c].val = NULL, ![c].reg = 0]
  /\ Goto(c, "wake")
  /\ UNCHANGED <<tcbs, sched, primask, ret, halt>>

\* task_unblock(walker); walker = next
Wake(c) ==
  /\ At(c, "wake")
  /\ task_add_ready(loc[c].walker)
  /\ loc' = [loc EXCEPT ![c].walker = loc[c].next]
  /\ Goto(c, "walk")
  /\ UNCHANGED <<wake_tick, pid, next_pid, cur_task, next_process,
                 cur_process, sch_ticks, ret>>

HandleBlocked(c) ==
  \/ WalkInit(c) \/ Walk(c) \/ Compare(c)
  \/ RemoveHead(c) \/ StoreHead(c) \/ RemoveTail(c) \/ StoreTail(c)
  \/ RemoveNext(c) \/ StoreNext(c) \/ RemovePrev(c) \/ StorePrev(c)
  \/ RemoveSize(c) \/ RemoveStore(c) \/ Wake(c)

-----------------------------------------------------------------------------
(* The rest of scheduler_tick, with task_pop_ready.                        *)

\* Before the first tick cur_task is NULL, and the state that is read through
\* it, a byte of the vector table, is not RUNNING.
Requeue(c) ==
  /\ At(c, "requeue")
  /\ Goto(c, "bitmap")
  /\ IF cur_task # NULL /\ state[cur_task] = "RUNNING"
       THEN /\ task_add_ready(cur_task)
       ELSE /\ primask' = TRUE
            /\ UNCHANGED <<heap, state, ready_bitmap, halt>>
  /\ UNCHANGED <<wake_tick, pid, next_pid, cur_task, next_process,
                 cur_process, sch_ticks, ret, loc>>

\* task_pop_ready up to its __disable_irq.
ReadBitmap(c) ==
  /\ At(c, "bitmap")
  /\ IF ready_bitmap = {}
       THEN /\ loc' = [loc EXCEPT ![c].task = NULL]
            /\ Goto(c, "dispatch")
       ELSE /\ loc' = [loc EXCEPT ![c].reg = Highest]
            /\ Goto(c, "pop")
  /\ UNCHANGED <<heap, tcbs, sched, primask, ret, halt>>

PopReady(c) ==
  LET p    == loc[c].reg
      q    == Ready(p)
      left == IF PopsNothing(heap, q) THEN heap ELSE task_pop(heap, q)
  IN  /\ At(c, "pop")
      /\ heap' = left
      /\ ready_bitmap' = ClearedIfEmpty(left, p)
      /\ loc' = [loc EXCEPT ![c].task = Popped(heap, q), ![c].reg = 0]
      /\ primask' = FALSE
      /\ halt' = IF PopFaults(heap, q) THEN "fault" ELSE halt
      /\ Goto(c, "dispatch")
      /\ UNCHANGED <<tcbs, cur_task, next_process, cur_process, sch_ticks, ret>>

\* cur_task = ...; ASSERT(0) when there is no task to run.
Dispatch(c) ==
  /\ At(c, "dispatch")
  /\ cur_task' = loc[c].task
  /\ halt' = IF loc[c].task = NULL THEN "assert_no_task" ELSE halt
  /\ Goto(c, "next_load")
  /\ UNCHANGED <<heap, tcbs, next_process, cur_process, ready_bitmap, sch_ticks,
                 primask, ret, loc>>

\* The next two statements load cur_task before they store.  It is not volatile:
\* what was stored to it may still be in a register.
ReadCurrent(c, from, to) ==
  /\ At(c, from)
  /\ \E t \in {cur_task, loc[c].task} : loc' = [loc EXCEPT ![c].task = t]
  /\ Goto(c, to)
  /\ UNCHANGED <<heap, tcbs, sched, primask, ret, halt>>

\* Mutant of LoadNext: cur_task is not what is loaded.
LoadPrevious(c) ==
  /\ At(c, "next_load")
  /\ loc' = [loc EXCEPT ![c].task = IF next_process = NULL THEN cur_task
                                                         ELSE next_process]
  /\ Goto(c, "next_store")
  /\ UNCHANGED <<heap, tcbs, sched, primask, ret, halt>>

LoadNext(c) == ReadCurrent(c, "next_load", "next_store")

\* next_process = sch_inst.cur_task
StoreNextProcess(c) ==
  /\ At(c, "next_store")
  /\ next_process' = loc[c].task
  /\ Goto(c, "run_load")
  /\ UNCHANGED <<heap, tcbs, cur_task, cur_process, ready_bitmap, sch_ticks,
                 primask, ret, loc, halt>>

LoadRunning(c) == ReadCurrent(c, "run_load", "run_store")

\* sch_inst.cur_task->state = RUNNING
StoreRunning(c) ==
  /\ At(c, "run_store")
  /\ state' = [state EXCEPT ![loc[c].task] = "RUNNING"]
  /\ loc' = [loc EXCEPT ![c].task = NULL]
  /\ Goto(c, "count")
  /\ UNCHANGED <<heap, wake_tick, pid, next_pid, sched, primask, ret, halt>>

Count(c) ==
  /\ At(c, "count")
  /\ loc' = [loc EXCEPT ![c].reg = sch_ticks]
  /\ Goto(c, "count_store")
  /\ UNCHANGED <<heap, tcbs, sched, primask, ret, halt>>

CountStore(c) ==
  /\ At(c, "count_store")
  /\ sch_ticks' = NextTick(loc[c].reg)
  /\ loc' = [loc EXCEPT ![c].reg = 0]
  /\ primask' = FALSE
  /\ Goto(c, "pend")
  /\ UNCHANGED <<heap, tcbs, cur_task, next_process, cur_process, ready_bitmap,
                 ret, halt>>

\* Writing ICSR pends PendSV: in thread mode it is taken at once, in the
\* handler when the handler returns.  PendSV_Handler saves the context of
\* cur_process (its pc here) and resumes next_process.
PendSV(c) ==
  /\ At(c, "pend")
  /\ cur_process' = next_process
  /\ Goto(c, IF c = Handler THEN "idle" ELSE ret[c])
  /\ ret' = [ret EXCEPT ![c] = "user"]
  /\ UNCHANGED <<heap, tcbs, cur_task, next_process, ready_bitmap, sch_ticks,
                 primask, loc, halt>>

TickBody(c) ==
  \/ Requeue(c) \/ ReadBitmap(c) \/ PopReady(c) \/ Dispatch(c)
  \/ LoadNext(c) \/ StoreNextProcess(c) \/ LoadRunning(c) \/ StoreRunning(c)
  \/ Count(c) \/ CountStore(c) \/ PendSV(c)

scheduler_tick(c) == HandleBlocked(c) \/ TickBody(c)

-----------------------------------------------------------------------------
(* The scheduler with tasks that only compute, sleep and create tasks.     *)

\* init_scheduler, on zeroed memory (the first enumerator is READY).
SchedulerInit ==
  /\ heap = EmptyHeap(Queue)
  /\ state = [t \in Task |-> "READY"]
  /\ wake_tick = [t \in Task |-> 0]
  /\ pid = [t \in Task |-> 0] /\ next_pid = 1
  /\ cur_task = NULL /\ next_process = NULL /\ cur_process = NULL
  /\ ready_bitmap = {} /\ sch_ticks = 0 /\ primask = FALSE
  /\ pc = [c \in Ctx |-> CASE c = Main -> "main"
                           [] c = Handler -> "idle"
                           [] OTHER -> "user"]
  /\ ret = [c \in Ctx |-> "user"]
  /\ loc = [c \in Ctx |-> NoLocals]
  /\ halt = "none" /\ torn = FALSE /\ stale = FALSE

Step(c) ==
  \/ \E t \in Task : task_init(c, t)
  \/ AddNew(c)
  \/ \E n \in SleepTicks : task_sleep(c, n)
  \/ UnprotectedPush(c)
  \/ scheduler_tick(c)

SchedulerCode == init_systick \/ \E c \in Ctx : Step(c)

SchedulerNext == SysTick \/ (SchedulerCode /\ UNCHANGED ticked)

SchedulerSpec == SchedulerInit /\ [][SchedulerNext]_<<svars, ticked>>

\* Fairness.  The timer keeps running (SysTick is taken if it can be again and
\* again), and between two ticks the processor executes what it has begun.
KernelStep(c) == AddNew(c) \/ UnprotectedPush(c) \/ scheduler_tick(c)

\* The ticks that hit no context in CriticalSections.  With them alone the
\* scheduler makes progress.
CalmTick == SysTick /\ ~torn'

CalmSchedulerSpec ==
  /\ SchedulerInit
  /\ [][CalmTick \/ (SchedulerCode /\ UNCHANGED ticked)]_<<svars, ticked>>
  /\ SF_<<svars, ticked>>(CalmTick)
  /\ WF_<<svars, ticked>>(init_systick /\ UNCHANGED ticked)
  /\ \A c \in Ctx : SF_<<svars, ticked>>(KernelStep(c) /\ UNCHANGED ticked)

-----------------------------------------------------------------------------
(* Properties.                                                             *)

TaskState == {"READY", "RUNNING", "BLOCKED", "DELAYED", "NONE"}
Halts     == {"none", "assert_running", "assert_size", "assert_no_task", "fault"}

\* Every pointer of the kernel is NULL or a TCB that task_init has filled.
Known  == Created \union {NULL}
Locals == [list : Queue, task : Known, walker : Known, next : Known,
           at : Known, val : Known, reg : Nat]

\* The type invariant: the types of scheduler.h, task_queue.h and tcb.h, with
\* no kernel pointer, not even one held in a register by a preempted task,
\* ever leading to a TCB that was not created.
TypeOK ==
  /\ heap \in HeapOver(Queue, Known)
  /\ state \in [Task -> TaskState]
  /\ wake_tick \in [Task -> Tick]
  /\ pid \in [Task -> Nat] /\ next_pid \in Nat \ {0}
  /\ cur_task \in Known /\ next_process \in Known /\ cur_process \in Known
  /\ ready_bitmap \subseteq Priority
  /\ sch_ticks \in Tick
  /\ primask \in BOOLEAN
  /\ pc \in [Ctx -> KernelLabels \union ClientLabels \union {"user"}]
  /\ ret \in [Ctx -> ClientLabels \union {"user", "main"}]
  /\ loc \in [Ctx -> Locals]
  /\ halt \in Halts
  /\ torn \in BOOLEAN /\ stale \in BOOLEAN

\* Whenever a task executes outside the end of scheduler_tick, cur_task is that
\* task, although thread-mode calls of scheduler_tick set it long before the
\* context switch and can be preempted in between: what get_running_pid and
\* get_cur_task return is the caller.  Only a tick between the load of cur_task
\* and the store of next_process breaks this.
RunningIsCurrent ==
  ~stale /\ pc[Handler] = "idle" /\ Running \in Task
    /\ pc[Running] \notin NextLabels \union SwitchLabels
      => cur_task = Running

\* A bit of ready_bitmap is set exactly if the ready list of that priority is
\* not empty, in every state that some context can observe and wherever ticks
\* have fallen before.
BitmapMatches ==
  \A p \in Priority : p \in ready_bitmap <=> heap.size[Ready(p)] # 0

\* The kernel stops in an ASSERT or a fault only after a tick has hit a critical
\* section.
HaltsOnlyIfTorn == halt # "none" => torn

\* Where task t must be linked when no critical section is being executed.
Home(t) == CASE state[t] = "READY"   -> {Ready(Prio[t])}
             [] state[t] = "DELAYED" -> {Delayed}
             [] state[t] = "BLOCKED" -> WaitLists
             [] OTHER                -> {}

Quiescent == pc[Handler] = "idle" /\ pc[Running] \notin CriticalSections

\* Outside critical sections all queues are well linked and every task is where
\* its state says: a READY, DELAYED or BLOCKED task is in exactly one queue,
\* the right one, a RUNNING task is cur_task and in none.  It takes a tick
\* inside a critical section to lose a task.
EveryTaskPlaced ==
  ~torn /\ Quiescent =>
    /\ \A q \in Queue : WellLinked(heap, q)
    /\ \A t \in Task, q \in Queue :
         t \in Reachable(heap, q) => q \in Home(t) /\ t \in Created
    /\ \A t \in Created :
         /\ Home(t) # {} => \E q \in Home(t) : t \in Reachable(heap, q)
         /\ state[t] = "RUNNING" => t = cur_task

\* When scheduler_tick has made its choice, no READY task has a higher priority
\* than the task it is about to switch to, as long as no tick has hit a critical
\* section.
HighestPriorityRuns ==
  ~torn /\ pc[Executing] = "pend" =>
    \A t \in Created : state[t] = "READY" => Prio[t] <= Prio[next_process]

\* A task that sleeps is made ready again.  A thread-mode scheduler_tick that is
\* preempted after its walk advances sch_ticks past a value no walk has seen, once
\* for every other sleeper; a wake_tick that close to the wrap of the counter can
\* be missed, and is left out.
SleepersWake ==
  \A t \in Sleepers :
    state[t] = "DELAYED" /\ wake_tick[t] + Cardinality(Sleepers \ {t}) <= TickMax
      ~> state[t] = "READY"

\* ASSERT(0) of scheduler_tick: task_pop_ready always finds a task.
SomeTaskIsReady == halt # "assert_no_task"

\* The comment in scheduler_tick: a cur_task that is not RUNNING has already been
\* placed in the list it belongs to.
AlreadyPlaced ==
  pc[Executing] = "requeue" /\ cur_task # NULL /\ state[cur_task] # "RUNNING"
    => \E q \in Home(cur_task) : cur_task \in Reachable(heap, q)
=============================================================================

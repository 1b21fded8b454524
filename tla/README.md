# TLA+ models of stm32rtos

A small real-time kernel for a Cortex-M4: fixed-priority preemptive scheduling
with round robin among equals, sleeping, mutexes, semaphores, a USART driver.
These modules model the kernel in `Src/` at the level of the C statements that
an interrupt can separate, check it with TLC and prove parts of it with TLAPS.
Paths and line numbers refer to the repository.

## The system

| Component | State | Operations | Called by |
|---|---|---|---|
| task queues, `task_queue.c` | head, tail, 8-bit size; next and prev in each task | `task_push`, `task_pop`, `task_remove` | scheduler, mutex, semaphore |
| scheduler, `scheduler.c` | ready list per priority and their bitmap, delayed list, `cur_task`, `next_process`, `sch_ticks` | `task_add_ready`, `task_pop_ready`, `task_block`, `task_sleep`, `scheduler_handle_blocked`, `scheduler_tick` | SysTick handler; tasks, in thread mode |
| task creation, `task.c`, `tcb.c` | task control blocks, next `pid` | `task_create`, `task_init` | main, tasks |
| context switch, `start_task.s` | `cur_process`, `os_started` | `PendSV_Handler` | pended by `scheduler_tick` |
| mutex, `mutex.c` | `owner_pid`, waiting tasks | `mutex_aquire`, `mutex_release` | tasks |
| semaphore, `semaphore.c` | `count`, waiting tasks | `sem_aquire`, `sem_release` | tasks; in `src/` only the USART driver, in code that is never reached |
| ring buffer, `ring_buffer.c` | bytes, head, tail | push, pop, count, empty | USART driver |
| message queue, `mqueue.c` | elements, head, tail, count | push, pop | nothing in `src/` |
| USART driver, `usart.c` | two ring buffers, control registers, `tx.state`, `rx.sem` | `usart_init`, write and read, interrupt handlers | main (one caller), USART interrupt |
| application, `main.c` | LED and idle tasks | start-up, `SysTick_Handler` | reset |

`start_task.s` switches to `next_process` whenever `scheduler_tick` has pended
PendSV. A task that sleeps or waits removes itself from the ready tasks and calls
`scheduler_tick` in thread mode; otherwise SysTick calls it. At this commit
`main` has the calls that start the scheduler commented out (`main.c:144-159`)
and runs a USART demo; the kernel is modelled as those lines start it.

### What is hard

`__disable_irq` and `__enable_irq` set and clear PRIMASK; they do not count. The
functions with a critical section of their own (`task_add_ready`, `task_block`,
`task_pop_ready`) are called inside the critical sections of others, and the inner
`__enable_irq` ends the outer section too:

| Caller | Inner call that enables interrupts | What then runs unprotected |
|---|---|---|
| `task_sleep`, `scheduler.c:115` | `task_block` | `task_push` into the delayed list |
| `mutex_aquire`, `mutex.c:48`; `sem_aquire`, `semaphore.c:41` | `task_block` | `task_push` into the waiting list |
| `scheduler_handle_blocked`, `scheduler.c:139` | `task_add_ready` | the rest of the walk, in thread mode |
| `scheduler_tick`, `scheduler.c:194, 197` | `task_add_ready`, `task_pop_ready` | the choice of the next task, in thread mode |
| `mutex_release`, `mutex.c:73` | `task_add_ready` | `owner_pid = 0` |

The models let a tick in at every statement where PRIMASK is clear, and nowhere else. Some
properties survive every tick: types, the bitmap, the permits. The others do not hold
of the code without a condition, and the condition is a history variable that says which
tick it takes to break them:

| History | Becomes true when a tick hits a context | Properties that hold as long as it is false |
|---|---|---|
| `stale` | between the load of `cur_task` and the store of `next_process` (`scheduler.c:204`) | `RunningIsCurrent`, `OwnerIsHolder`, `MutualExclusion` |
| `torn` | in `CriticalSections`: an unprotected `task_push`, the walk through the delayed list, or the rest of `scheduler_tick` up to the store of RUNNING | `EveryTaskPlaced`, `HighestPriorityRuns`, `HaltsOnlyIfTorn`, `ImplementsPriorities` |
| `torn`, or `raced` of `Mutex` | also between LDREX and `task_block` or STREX (`mutex.c:26-48`), or between the wake-up of a waiter and `owner_pid = 0` (`mutex.c:73-77`) | `NoLostWakeup` |
| `torn`, or `raced` of `Semaphore` | also between LDREX and `task_block` or STREX (`semaphore.c:24-41`) | `IdlePermitOnlyIfRaced` |

So these properties say two things: outside these windows a tick is harmless, wherever it
falls, and however often; and whoever finds a lost task, a second holder or a lost wakeup
has to look for a tick in a named window. That such ticks do occur and what they do is
shown by violation runs. `CriticalSections` is tight: leaving any label out of
it makes one of the properties fail, except `store_next` and `store_prev`, where a
tick does no harm that the bounds of the runs can show.

Other hard parts:

* the tick counter wraps and is compared with `<=`;
* LDREX and STREX depend on the exclusive monitor, which exceptions clear;
* the intrusive lists allow a task in one list only and count with 8 bits;
* the registers of a task are saved by two parties, the core and `save_state`, and a
  new task's stack must look as if both had done it;
* a ring buffer has equal indices both when it is empty and when it is full, and
  `get_free_space` admits the push that fills it;
* the caller of the USART driver and its handler change CR1 by read-modify-write and
  share the ring buffers without a critical section;
* the USART handlers work one after the other on one snapshot of the status register,
  while bytes arrive and leave.

The properties that make each component correct: the lists are FIFO queues and
stay doubly linked; every task is in the list its state names; the bitmap agrees
with the ready lists; the highest ready priority runs; `cur_task` is the caller;
sleepers wake and equals take turns; together these make a priority scheduler; a task
continues with its registers and stack; the mutex excludes, its owner is its holder
and waiters wake; no permit is granted twice; ring buffer and message queue are FIFO;
every byte accepted for sending is sent once and in order, every byte received and not
lost is read once and in order, and bytes in the ring keep the transmit interrupt on;
an enabled USART has the format and rate of its configuration.

## Modules

* `TaskQueue`: the memory of all queues and links is one record, the heap; the C
  functions are operators from heap to heap, whole and statement by statement.
  `Reachable` and `WellLinked` say what a list means.
* `TaskFifo`, `TaskLists`: what the queues promise, as sequences, and the lists of
  `TaskQueue` under all legal sequences of calls, which refine it.
* `Scheduler`: the kernel. A context (main, a task, the handler) has a label `pc`,
  a return label `ret` and locals `loc`. An action is executed by context `c`, and is a
  store with what is computed for it, or the loads and the test before a store, or a run of
  statements with PRIMASK set throughout. So `x++`, the stores through `tail`, `prev`
  and `next` of the lists and the copies of `cur_task` are two actions each; only the
  two links of a task that is in no queue are cleared in one. `cur_task` is not
  volatile, so where it is loaded behind a store (`ReadCurrent`) the value may come
  from a register. The handler preempts the running task (`SysTick`) and executes the
  same `scheduler_tick` as a task does in thread mode. A failed ASSERT, which is a
  breakpoint in the debug build, and a store through NULL set `halt`.
* `Mutex`, `Semaphore`: one mutex or semaphore over `Scheduler`, whose steps they
  extend with their own labels. `held` and `permits` are history variables.
* `PriorityScheduler`, `SchedulerRefinement`: what the scheduler promises, with one
  sequence of tasks per priority, a set of tasks that sleep or wait and the running
  task; and the refinement mapping, which reads the sequences off the linked lists. The
  instances of the scheduler, the mutex and the semaphore check it.
* `ContextSwitch`: `PendSV_Handler`, `init_stack` and the exception entry and return
  of the core, with sixteen registers per task and their stacks. Which task is next is
  any, so it composes with any scheduler. `ctx` and `own` are what each task left in
  its registers and on its stack.
* `ByteFifo`, `RingBuffer`: what the ring buffer promises, and the ring buffer with
  its two copies per call, which refines it. A push that fills the buffer exactly is
  the action `Fill` of the FIFO: it empties it. The refinement describes this loss; that it is
  one is shown by the driver, which promises to send the bytes.
* `MQueue`: the message queue; a call runs with PRIMASK set and is one step. The buffer
  has `capacity` slots, while head and tail run up to `ele_size`: an element stored behind
  the buffer is gone, and what is loaded from there is anything. `due`, `owed` and `most`
  are history variables.
* `Usart`: the driver between its caller and the peripheral. The caller takes one
  step per memory access the handler could tell apart (the copy into the ring, the
  store to head, a load of CR1, its store; for a read the two tests of the count, the two
  copies and the store to tail); the handler takes one step per called function; the line
  and the NVIC interleave with both. `owed` and `due` are what must be sent and what must
  be read; `filled` is true from a write that fills the ring exactly until the line
  has sent what it left, and `lost` once a received byte was dropped: they end what the two
  properties of order can say.
* `UsartConfig`: the register settings of `usart_init`, one statement per step,
  called again and again.
* `MCComponents`: one instance of the components that one caller at a time uses: task
  lists, message queue, `usart_init`, ring buffer, context switch. They share no state, so a
  behaviour exercises one of them. Processes, register values and bytes are
  symmetric: no definition tells two of them apart.
* `MCScheduler`, `MCPreemption`, `MCMutex`, `MCMutexPreemption`, `MCSemaphore`:
  instances for TLC; those with `KernelTicks` bound the ticks taken in the kernel. `Usart`
  has only parameters a `.cfg` can give.
* `TaskQueueProofs`, `SchedulerProofs`, `MutexProofs`, `SemaphoreProofs`,
  `SequentialProofs` (task lists, message queue, `usart_init`), `RingBufferProofs`,
  `ContextSwitchProofs`, `UsartProofs`: theorems.

Operators commented as a mutant of another are plausible bugs in that operator;
putting one in its place must break the property that `PROJECT.json` names for it.

### Abstractions

* Priorities, wake ticks and the counter are small numbers; the counter wraps at
  `TickMax`, not at 2^32. `pid` is unbounded: 2^32 creations are not modelled.
* All handlers have the same priority, as the code configures none, so they do not
  nest; PendSV follows the handler that pended it at once. A thread-mode
  `scheduler_tick` takes PendSV at the store to ICSR.
* Reading `sch_inst.cur_task->state` through NULL at the first tick
  (`scheduler.c:192`) reads a byte of the vector table; it is taken not to be
  RUNNING.
* In `scheduler.c:53-60` the test of the bitmap and the count of its zeros are one
  step, as the bitmap is loaded for both at once; a build that loads it twice could
  count the zeros of 0 after a tick in between, which is `torn` in the model anyway.
* `task_create` is called with valid arguments. A task is created once.
* In `Scheduler` a switch preserves `pc`, `ret` and `loc` of a context;
  `ContextSwitch` is why that is justified. There a stack has room for the two frames
  of a switch below what its task has pushed; overflow is not modelled. The test of
  `os_started` loads a word from the address of a byte (`start_task.s:16`); it is
  taken to read the byte, as the linker decides what follows it.
* `Usart` has one caller, as `main.c` has; two tasks writing at once are not
  modelled. The interrupt is pending while its line is raised, and is taken before
  the caller's next step once the NVIC has latched it. The line takes any time. The
  error counters and `tx.state`, which nothing reads, are left out.
* A semaphore is released by tasks. The USART handler would release `rx.sem`
  (`usart.c:245`) if the ring refused a byte, but `get_free_space` is never 0.
* `MQueue` takes `ele_size` to be any number above zero, because `mqueue_init` does
  not set it; zero would be a division by zero.
* `UsartConfig` takes baud rates whose divider fits the 16 bits of BRR (from 245, or
  489 when oversampling by 8). The clock enable bits are left out.

## Runs

| Run | Bounds | Shows |
|---|---|---|
| `components` (`MCComponents`) | 4 tasks, 2 queues, sizes to 4; 3 slots, element sizes 1 to 4; 3 baud rates, all formats, both oversamplings; ring of 3 bytes of 2 values, blocks of 1 to 4 bytes; 2 processes, stacks of 17 words, 2 values | the lists implement FIFO queues under every sequence of push, pop and remove, where `size` may reach its limit; the message queue is FIFO if the element size is within the capacity and no smaller than what it held; format and rate of an enabled USART are those of the last `usart_init`, except 7-bit words; the ring implements the byte FIFO; a task continues with its registers and stack wherever it was interrupted |
| `scheduler` (`MCScheduler`) | 3 tasks of 3 priorities, ticks 0..2, sleeps of 1; one task created at run time; the ticks that tear nothing | sleepers wake, no assertion fails, every task is in its list, the highest priority runs, and every statement is a step of the priority scheduler or none |
| `mutex` (`MCMutex`) | 2 tasks of one priority that lock, idle; the ticks that tear and race nothing | waiters wake, equals take turns although none gives up the processor, no lost wakeup, and the refinement with tasks that block and are woken |
| `mutex_preemption` (`MCMutexPreemption`) | the same tasks, one created by the other at run time, one also sleeps for 1, ticks 0..1, 2 ticks inside the kernel, anywhere | types and bitmap under every tick; and which tick it takes to break each of the other properties |
| `semaphore` (`MCSemaphore`) | 2 tasks, `max_count` 2, 1 permit at first, 2 ticks inside the kernel | no permit granted twice under every tick; which ticks leave a task waiting beside a permit or lose it |
| `usart` (`Usart`) | transmit ring of 3, receive ring of 2, one byte value each way | until a write fills the ring, accepted bytes are sent, and until one is lost, received bytes are read, once and in order; the transmit interrupt stays on while the ring holds bytes |
| `already_placed`, `some_task_is_ready` (`MCPreemption`) | 3 tasks, ticks 0..7, 1 tick inside the kernel | the violations described below |
| `one_holder` (`MCMutexPreemption`) | ticks 0..3, sleeps of 1 and 2, 2 ticks inside the kernel | " |
| `no_idle_permit` (`MCSemaphore`) | 1 tick inside the kernel | " |
| `accepted_is_sent` (`Usart`), `pops_what_was_pushed` (`MCComponents`) | as above | " |

The runs that bound the ticks in the kernel do not check deadlock: a torn tick can stop the
kernel, and a stopped kernel has no next step. Two tasks above an idle task are what
`main.c` creates; with two, every pair of a preempted kernel call and a second one is
reached, and two ticks inside the kernel allow a preempted call inside a preempted call,
and a second tick after the damage of a first. Ticks in task code are unlimited. `TickMax` is
larger than the longest sleep where sleepers must be found on either side of the wrap; in
`mutex_preemption` it is 1, so that every second wake-up crosses the wrap. In `mutex` and
`semaphore` nobody sleeps and the counter is irrelevant. A stack of 17 words is the
frame of two saves and one pushed word, so a push and a switch meet at the top of the
room. A ring of 3 bytes wraps at every offset and admits blocks that do not, do, and exactly
fill. In `usart` the transmit ring of 3 has blocks of two bytes that wrap and blocks that
fill it; with one byte value in each direction a byte can be lost, doubled or read before
it was stored, but two cannot change places: that is for the theorems, which hold for all
bytes and sizes. Baud rates 490 and 1000000 are near the ends of what BRR can hold and
express.

### Disagreements with the code's own statements

Six are shown by runs of their own:

* `AlreadyPlaced` (`scheduler.c:183-188`, a comment): `task_block` ends the critical section of
  `task_sleep` (and of `mutex_aquire` and `sem_aquire`). A tick before `task_push` finds the
  current task DELAYED and in no list, where the comment says that it has already been
  placed. A tick inside that `task_push` can leave a head and size 0, against the
  ASSERT at `task_queue.c:76`.
* `SomeTaskIsReady` (`scheduler.c:201`, `ASSERT(0)`): a tick between
  `task_pop_ready` and the store to `cur_task` in a thread-mode `scheduler_tick`
  drops the popped task. One such tick is enough when the popped task is the idle task:
  nothing is left to run.
* `OneHolder` (`mutex.c:17-22`, a comment; `scheduler.c:204`): after a tick between the load
  of `cur_task` and the store of `next_process`, the resumed task stores a `next_process`
  that is no longer `cur_task`, and PendSV runs it. In the trace found, the running task
  calls `mutex_release` with the pid of the holder, which frees the mutex; it then takes it,
  and both have it.
* `NoIdlePermit` (`semaphore.h:19`): `sem_aquire` disables interrupts only after the LDREX
  that finds 0 (`semaphore.c:36`). A release by another task in between finds nobody
  waiting and raises `count`; the caller then blocks, and waits for the next release
  although there is a permit.
* `AcceptedIsSent` (`usart.c:112-115`, a comment; `ring_buffer.c:56`): a write of exactly the free
  space returns true and makes head equal tail. Nothing of it is sent.
* `PopsWhatWasPushed` (`mqueue.h:25-26`; `mqueue.c:36`): the indices wrap at the size of
  an element, not at the number of slots. With one-byte elements the second push
  overwrites the first; with elements of more bytes than there are slots one is stored
  behind the buffer.

The others are visible as the condition that a property needs, or as the model itself:

* `semaphore.h:21`: a release with a waiter does not increment `count` (`semaphore.c:64`), so
  the woken task finds 0 and waits again. With `count` 0, one waiter and one release, the
  permit is gone, without any tick in the kernel.
* `mutex.c:26-50`: after the LDREX that found the mutex taken, the owner can release it
  before the caller is queued, against the comment at `mutex.c:17-22`: `raced`.
* `usart.c:115, 126, 223`: the comment says that the handler turns the transmit interrupt
  off when nothing is left. It does so with the last byte only; a store of an older CR1 by
  the caller turns it on again, and a fill empties the ring with it on. The handler then
  finds an empty ring and returns, TXE stays set, and the interrupt takes the core from
  the caller for ever. `TransmitterEnabled` is the half that holds.
* `usart.c:157`: `usart_read_sync` compares the address of `get_ticks`, not the tick, and
  gives up at once. If it waited, it would wait for ever: `rx.sem` is released only when
  a byte was refused (`usart.c:242-245`), which a full ring never does.
* `usart.c:39`: the upper bit of the word length is shifted one place too far, so 7-bit
  words are configured as 8-bit words. `EnabledFrameIsConfigured` leaves them out.

### Fairness

`scheduler` and `mutex` have liveness properties. A kernel that has lost a task to a
torn tick never runs it again, so they are stated of the behaviours without such ticks
(`CalmSchedulerSpec`, `CalmMutexSpec`); no other property needs these specifications.
Assumed are: SysTick is
taken if it can be taken again and again (strong: tasks disable interrupts for
bounded stretches), `main` starts the timer, and each context completes the kernel
calls it has begun if it gets the processor again and again (strong: it is
enabled only while the context has the core). Nothing is assumed of what tasks do
outside the kernel, except in `mutex` that a holder eventually releases, as both
tasks of `main.c` do. `SleepersWake` leaves out wake ticks so close to the wrap
that thread-mode ticks can skip past them: `scheduler_tick` compares before it
increments, so a counter value passed by a preempted thread-mode call is never
compared.

For the driver no liveness holds that involves the caller, as the starvation above
shows; `TransmitterEnabled` is the safety property that keeps bytes from being stuck in
the ring.

## Proofs

### From which assumptions

Every theorem assumes the named assumption of its module, and speaks of the specification
with ticks at every statement where PRIMASK is clear. Those below assume more:

| Assumption | Says | Why the code justifies it | Used by |
|---|---|---|---|
| `FewTasks` | there are at most `SizeMax` tasks, finitely many | `size` is a `uint8_t`; a task needs a stack of `STACK_SIZE` words (`tcb.h:5`), 1 KB, and the linker scripts give 96 KB and 32 KB of RAM | lists, placement, highest priority, `HaltsOnlyAfterTear`, refinements of `TaskFifo` and `PriorityScheduler` |
| `ReadyListsCount`, at every moment | no ready list has `SizeMax` tasks | as `FewTasks`; stated of the run, because after a torn tick a task can be in a list twice | `BitmapIsExact` |
| `IdleBoots` | a task created before the first tick never sleeps | the idle task of `main.c` | `HaltsOnlyAfterTear` |
| `OneWaitList` | the only waiting list is that of the mutex or semaphore | each model has one and nothing else that blocks | `NoWakeupIsLost`, `NoPermitIsIdle` |
| `RatesFit` | the divider of a baud rate fits 16 bits | the width of BRR; see the abstractions | `UsartConfig` |

The theorems on types, `RunningIsCurrent`, mutual exclusion, the owner and the permits
need none of these.

### What survives every tick

`SchedulerProofs` proves `SchedulerSpec => []SchedulerInv`, where `SchedulerInv` adds
to `TypeOK` and `RunningIsCurrent` what makes them inductive: what each label says
of the locals of its context (`FramesOK`), that pids are unique, and `SwitchAgrees`: until
a tick makes it stale, the copy loaded for `next_process` is `cur_task`, and after its
store `next_process` is. The argument for
`RunningIsCurrent`: a context at a label after the store to `cur_task` and before
PendSV is the only one where the two may differ, and a SysTick that interrupts it
brings both back together before any task runs, unless the context has already loaded what
it will store. Nothing is assumed of the number of tasks or of the priorities beyond
`SchedulerAssumption`.

`BitmapInv` is inductive too, whatever a tick has done to the delayed list: the bits
and the sizes of the ready lists change together with PRIMASK set, and a
`task_push` that runs with interrupts enabled is never on a ready list
(`PushesElsewhere`). It speaks of sizes only, not of links, which a torn tick can corrupt.
For the mutex the run `mutex_preemption` checks it.

`MutexProofs` builds on `SchedulerInv`: a set monitor means that the value loaded by the
running task is still in `owner_pid`, so a successful STREX takes a free mutex; together
with unique pids and `RunningIsCurrent` the owner is the one holder, until `stale`.
`SemaphoreProofs` has the same argument for `count` and `NoOverdraw`, where no pid is
involved, so it holds without a condition.

### The lists

`TaskQueueProofs` types the heap operators and says what they do to lists.
`ListOf(h, q, s)` says that queue `q` of heap `h` is the sequence `s`, by its links, ends
and size, without walking them; so one lemma each for `task_push`, `task_pop` and
`task_remove` tells how the sequences change. `SequentialProofs` turns this into
`ListsWellLinked` and the refinement of `TaskFifo`. The statement-by-statement operators
of the scheduler are halves of these: their lemmas say what a half-done push or removal
adds to a well-linked heap.

### What holds until a tick tears

`PlaceInv` is the invariant behind `EveryTaskPlaced`, `HighestPriorityRuns`, `HaltsOnlyIfTorn`
and the refinement; what is inductive is `~torn => PlaceInv`. `torn` never becomes false
again, so each step is proved from `PlaceInv` and from its not being a tick that tears.
`EveryTaskPlaced` itself only speaks of moments outside critical sections, so it says
nothing of the heap while a task is moved. `PlaceInv` says that the heap is what the operation in progress, named by the label of the
executing context, has made (`Half`) of a heap `h` whose queues are the lists `c`, and
that `c` holds every task its state says, except the one on the move (`Moving`). The other
parts say that no other context is inside a section (`Alone`), which states the running,
the moving and the new tasks have, and that no ready task has a higher priority than the
chosen one from the read of the bitmap to the switch (`HighestChosen`). Without a torn tick
nothing is stale either. For `HaltsOnlyIfTorn` it adds that the ready tasks include one that
never sleeps (`Booted`). The walk through the delayed list is a loop; `WalkOK` says where in
the list it stands, so that it never follows the link of a removed task.

The refinement of `PriorityScheduler` reads `PlaceInv` at both ends of a step. `Lines` are
the ready lists as sequences, `Asleep` those who sleep or wait, `Given` who has the
processor. A step adds one task to the end of its line (`Joins`), takes one from the front
(`Leaves`), or leaves the lines alone (`SameLines`), which holds of every operation on the
delayed list and the waiting lists. Which statement is the abstract step is the main
content: a sleep happens at `task_block`, before the push; a dispatch at the pop from the
ready list, long before the store of RUNNING; a wakeup at the return to the ready list.

The lemmas `OwnStep`, `OwnBlock` and `OwnWake` say the same of the steps that mutexes and
semaphores make in a task's own code: one that leaves the lists alone, one that blocks the
caller, and one that wakes a waiter. They carry placement and refinement over to
`MutexSpec` (`MutexTasksArePlaced`, `MutexKeepsPriorities`) and `SemSpec`
(`SemTasksArePlaced`, `SemKeepsPriorities`).

`NoWakeupIsLost` needs more than these (`WakeInv`, until a tick tears or races): a task is BLOCKED only in
`mutex_aquire` and returns to its try (`WaitersOK`), the copy of `owner_pid` at
`mutex_test` is current (`FreshTest`), and from `mutex_clear` on, and as long as the mutex
is free, the woken task is still going to try (`NoneForgotten`). The proof attempt showed
that an earlier form of `Trying` counted a blocked task whose context already stands at
`mutex_try`, switched out; that form was too weak to exclude a lost wakeup, and `Trying` now leaves
blocked tasks out.

`NoPermitIsIdle` is simpler (`IdleInv`): the copy of `count` at `sem_test` is current, so a
task that blocks sees that `count` is 0; and a release that finds the waiting list empty
finds no waiting task (`NobodyWaits`, from `PlaceInv`), so that only then `count` grows.

### The other components

`RingBufferProofs` proves that the ring buffer implements the byte FIFO for every size
and block. Its lemmas say what a copy stores (`WrittenSlots`), what a read returns
(`ReadIsPrefix`), and what the move of an index does to the contents (`HeadMoves`,
`TailMoves`), separately, because in the driver the handler runs in between.
`UsartProofs` instantiates them for both rings. For sending, the invariant adds to the
order of the bytes, until the ring was `filled`, that a block being written fits whatever the handler takes meanwhile,
and is in the ring after head once copied (`Staged`), and that a handler that saw TXE has
TDR to itself (`Snapshot`). For receiving it adds that the block of a
read in progress is in the ring, and that what has been copied of it is the oldest bytes
(`ReadAhead`), and that a byte which the handler will discard for a flag in
its snapshot has been counted as lost (`DiscardsLost`). For the transmit interrupt it
adds that the value of CR1 in the caller's register has TXEIE too while the ring holds
bytes (`EnabledInv`). For the types it adds that the slots between tail and head were
stored to (`SlotsStored`), and so was what a read has copied (`CopiedStored`): a read never
delivers memory no byte was stored in, even after a byte was lost.

`SequentialProofs` proves the FIFO of the message queue for every capacity and element
size: the tail stays `count` places after the head, modulo `ele_size`, and the slots
between them hold what is due, as long as `ele_size` is within the capacity and there were
never more than `ele_size` elements. For
`usart_init` it proves that the statements done so far have set their fields whatever an
earlier call left there, so that format and rate are those configured once the USART is
enabled. `ContextSwitchProofs` proves transparency for any tasks and any stack size: every
task that was created runs, is interrupted with one frame on its stack, or is switched out
with two, and the words above the frames are its own.

### Only checked

* Liveness (`SleepersWake`, `WaitersWake`, `EqualsTakeTurns`): out of the prover's reach.
* `BitmapMatches` with a mutex in use; the theorem is about the scheduler with tasks that
  compute, sleep and create tasks.
* That the six properties of the violation runs fail for the code: TLC's
  counterexamples are the proof.

## Not modelled

* Start-up code, linker scripts, `syscalls.c` and `sysmem.c`: generated by the vendor's
  tool, with no state shared with the kernel.
* The CMSIS headers: macros and register names. Where the kernel uses one (PRIMASK, the
  exclusive monitor, the USART status bits), it is modelled from that use. They are
  nearly all of the repository's lines, which is why the map covers a small share of
  it; of the lines in `Src/` that change state it covers nearly all.
* The GPIO and clock set-up of `main.c`, and the bodies of its LED tasks beyond their
  calls of the kernel.
* The unit tests, which are sequential.
* `usart_read_sync`: see above; it returns false before it changes anything, until the tick
  counter passes the address of `get_ticks`, which at `SYSTICK_HZ` 10 and an address above
  0x08000000 takes some 155 days.
* Two tasks that use one USART at once: `ring_buffer_push` would interleave with itself,
  and nothing in `src/` does so or says whether it may.
* 256 tasks in one queue, where the 8-bit `size` wraps: `SizeMax` is a parameter, but the
  case is out of TLC's reach as the constant stands, and the theorems exclude it
  (`FewTasks`).

## Plan

1. Done: queues, scheduler, context switch, mutex, semaphore, ring buffer, message queue,
   USART driver; every safety property that a passing run checks is also a theorem, and so
   are the refinements, with the assumptions named above.
2. Next to prove: smaller sets than `CriticalSections` for single properties, and
   `BitmapMatches` with a mutex in use.
3. Next to model: two callers of the USART driver, once the code says what it promises
   them; the update of `sch_ticks` that a preempted thread-mode `scheduler_tick` loses,
   once something depends on it.

--------------------------- MODULE SemaphoreProofs ---------------------------
(***************************************************************************)
(* No permit is granted twice, for every set of tasks, any priorities and  *)
(* any number of ticks at any step.                                        *)
(*                                                                         *)
(* The argument is the one of MutexProofs: as long as the monitor is set   *)
(* the executing task's copy of count is current (MonitorOK), so a STREX   *)
(* that succeeds takes one permit from the count that is there.  A release *)
(* raises permits whenever it raises count.                                *)
(*                                                                         *)
(* Until a tick hits a critical section every task is in its queue and the *)
(* scheduler is a priority scheduler, and until one comes between the      *)
(* LDREX of sem_aquire and its task_block no task waits beside a permit.   *)
(***************************************************************************)
EXTENDS Semaphore, SchedulerProofs

MonitorOK ==
  exclusive => /\ pc[Handler] = "idle"
               /\ pc[Running] = "sem_test"
               /\ loc[Running].reg = count

ReturnsOK == ret \in [Ctx -> {"user", "main", "sem_try"}]

SemInv ==
  /\ SchedulerInv
  /\ count \in 0 .. max_count /\ exclusive \in BOOLEAN /\ permits \in Int
  /\ raced \in BOOLEAN /\ MonitorOK /\ ReturnsOK /\ NoOverdraw

\* The labels of the semaphore are its own.
LEMMA SemLabelsApart ==
  /\ SemLabels \subseteq Label
  /\ SemLabels \intersect (KernelLabels \union {"user"}) = {}
BY SemaphoreAssumption, SchedulerAssumption DEF Label

-----------------------------------------------------------------------------
(* The steps of the scheduler leave the semaphore alone.                   *)

LEMMA SchedulerStepInv ==
  ASSUME SemInv, NEW c \in Ctx, Step(c), UNCHANGED <<semvars, semhist>>
  PROVE  SemInv'
<1> USE DEF semvars, semhist, ticked
<1>1. SchedulerInv'
  BY StepInv DEF SemInv
<1>2. ~exclusive
  BY StepShape, SemLabelsApart DEF SemInv, MonitorOK, Executing, SemLabels
<1>3. PICK r \in {"user", "main", ret[c]} : ret' = [ret EXCEPT ![c] = r]
  BY StepShape DEF SemInv
<1>4. ReturnsOK'
  BY <1>3 DEF SemInv, ReturnsOK
<1>5. QED BY <1>1, <1>2, <1>4 DEF SemInv, MonitorOK, NoOverdraw

LEMMA TickInv ==
  ASSUME SemInv, SemTick \/ (init_systick /\ UNCHANGED <<semvars, semhist>>)
  PROVE  SemInv'
<1> USE DEF semvars, semhist, ticked
<1>1. SchedulerInv'
  BY TimerInv DEF SemInv, SemTick
<1>2. ReturnsOK'
  BY DEF SemInv, ReturnsOK, SemTick, SysTick, init_systick
<1>3. CASE SemTick
  <2>1. raced' \in BOOLEAN
    BY <1>3 DEF SemTick, SemInv
  <2> QED BY <1>1, <1>2, <1>3, <2>1 DEF SemInv, MonitorOK, NoOverdraw, SemTick
<1>4. CASE init_systick /\ UNCHANGED <<semvars, semhist>>
  <2>1. ~exclusive
    BY <1>4 DEF SemInv, MonitorOK, init_systick, At, Executing
  <2>2. QED BY <1>1, <1>2, <1>4, <2>1 DEF SemInv, MonitorOK, NoOverdraw
<1>5. QED BY <1>3, <1>4

-----------------------------------------------------------------------------
(* The steps of the semaphore                                              *)

\* A task that executes a step of the semaphore, or its own code, has no handler over
\* it; what it finds in cur_task is some task that was created.
LEMMA CallerRunsIt ==
  ASSUME SemInv, NEW c \in Users, At(c, pc[c]), pc[c] \in SemLabels \union {"user"}
  PROVE  /\ c \in Task /\ c \in Ctx /\ c # Handler /\ pc[Handler] = "idle"
         /\ Running = c /\ cur_task \in Known
<1>1. c \in Task /\ c \in Ctx /\ c # Handler /\ c # NULL
  BY SemaphoreAssumption, SchedulerAssumption, TaskQueueAssumption DEF Ctx
<1>2. pc[Handler] = "idle" /\ Running = c
  BY <1>1 DEF At, Executing
<1>3. cur_task \in Known
  BY DEF SemInv, SchedulerInv, TypeOK
<1>5. QED BY <1>1, <1>2, <1>3

\* What the assignment to reg leaves.
LEMMA RegType ==
  ASSUME NEW f \in [Ctx -> Locals], NEW c \in Ctx, NEW n \in Nat,
         NEW g, g = [f EXCEPT ![c].reg = n]
  PROVE  g \in [Ctx -> Locals] /\ \A d \in Ctx \ {c} : g[d] = f[d]
<1>1. f[c] \in Locals
  OBVIOUS
<1>2. [f[c] EXCEPT !.reg = n] \in Locals
  BY <1>1 DEF Locals
<1>3. g = [f EXCEPT ![c] = [f[c] EXCEPT !.reg = n]]
  OBVIOUS
<1>4. QED BY <1>2, <1>3

\* A step between labels of the semaphore, or to and from task code, that touches
\* nothing of the scheduler but the local copy of count.
LEMMA JumpInv ==
  ASSUME SemInv, NEW c \in Users,
         NEW from \in SemLabels \union {"user"}, NEW to \in SemLabels \union {"user"},
         At(c, from), Goto(c, to),
         UNCHANGED <<heap, tcbs, sched, primask, ret, halt, semhist>>,
         NEW n \in Nat, loc' = loc \/ loc' = [loc EXCEPT ![c].reg = n]
  PROVE  SchedulerInv' /\ ReturnsOK'
<1> USE DEF At, Goto, tcbs, sched, semhist, ticked
<1>1. c \in Ctx /\ to \in Label /\ pc[c] = from /\ c = Executing
  BY SemaphoreAssumption, SemLabelsApart DEF Ctx, Label
<1>2. from \notin KernelLabels /\ to \notin KernelLabels
  <2>1. "user" \notin KernelLabels
    BY DEF KernelLabels, PushLabels, WalkLabels, NextLabels, RunLabels, SwitchLabels
  <2>2. QED BY <2>1, SemLabelsApart
<1>3. RunningIsCurrent' /\ SwitchAgrees'
  BY <1>1, <1>2, ControlStep DEF SemInv, KernelLabels
<1>4. Known' = Known /\ Locals' = Locals /\ PidsUnique'
  BY NoCreation DEF SemInv
<1>5. loc' \in [Ctx -> Locals] /\ \A d \in Ctx \ {c} : loc'[d] = loc[d]
  <2>1. loc \in [Ctx -> Locals]
    BY DEF SemInv, SchedulerInv, TypeOK
  <2>2. CASE loc' = [loc EXCEPT ![c].reg = n]
    BY <1>1, <2>1, <2>2, RegType
  <2>3. QED BY <2>1, <2>2
<1>6. FramesOK'
  <2>1. FrameOK(to, loc'[c])
    BY <1>2 DEF FrameOK, KernelLabels, PushLabels, WalkLabels, SwitchLabels
  <2>2. QED BY <1>1, <1>5, <2>1, FrameStep DEF SemInv
<1>7. TypeOK'
  BY <1>1, <1>4, <1>5 DEF SemInv, SchedulerInv, TypeOK, Label
<1>8. QED BY <1>3, <1>4, <1>6, <1>7 DEF SchedulerInv, SemInv, ReturnsOK

LEMMA AquireInv ==
  ASSUME SemInv, NEW c \in Users, sem_aquire(c) \/ LoadCount(c) \/ StoreCount(c),
         UNCHANGED semhist
  PROVE  SemInv'
<1> USE DEF SemLabels, semvars, semhist, ticked
<1>1. /\ count \in Nat /\ max_count \in Nat /\ permits \in Int
      /\ pc \in [Ctx -> Label] /\ loc \in [Ctx -> Locals]
  BY SemaphoreAssumption DEF SemInv, SchedulerInv, TypeOK, Label
<1>2. CASE sem_aquire(c)
  <2> USE <1>2 DEF sem_aquire
  <2>1. SchedulerInv' /\ ReturnsOK'
    BY JumpInv
  <2>2. pc[c] = "user" /\ Running = c
    BY CallerRunsIt DEF At
  <2>3. ~exclusive
    BY <2>2 DEF SemInv, MonitorOK
  <2>4. QED BY <2>1, <2>3 DEF SemInv, MonitorOK, NoOverdraw
<1>3. CASE LoadCount(c)
  <2> USE <1>3 DEF LoadCount
  <2>1. SchedulerInv' /\ ReturnsOK'
    BY <1>1, JumpInv
  <2>2. /\ c \in Ctx /\ c # Handler /\ pc' = [pc EXCEPT ![c] = "sem_test"]
        /\ pc[Handler] = "idle" /\ Running = c /\ cur_process' = cur_process
    BY CallerRunsIt DEF At, Goto, sched
  <2>3. Running' = c
    BY <2>2 DEF Running
  <2>4. loc'[c].reg = count
    BY <1>1, <2>2 DEF Locals
  <2>5. MonitorOK'
    BY <1>1, <2>2, <2>3, <2>4 DEF MonitorOK, Ctx
  <2>6. QED BY <2>1, <2>5 DEF SemInv, NoOverdraw
<1>4. CASE StoreCount(c)
  <2> USE <1>4 DEF StoreCount
  <2>1. SchedulerInv' /\ ReturnsOK'
    BY JumpInv
  <2>2. MonitorOK'
    BY DEF MonitorOK
  <2>3. CASE exclusive
    <3>1. loc[c].reg = count
      BY <2>3, CallerRunsIt DEF SemInv, MonitorOK, At
    <3>2. count' = count - 1 /\ count > 0 /\ permits' = permits - 1
      BY <2>3, <3>1
    <3>3. /\ count' \in 0 .. max_count /\ permits' \in Int /\ count' <= permits'
          /\ exclusive' \in BOOLEAN
      <4>1. count \in 0 .. max_count /\ count <= permits
        BY DEF SemInv, NoOverdraw
      <4>2. count - 1 \in 0 .. max_count /\ permits - 1 \in Int /\ count - 1 <= permits - 1
        BY <1>1, <3>2, <4>1
      <4>3. QED BY <3>2, <4>2
    <3>4. QED BY <2>1, <2>2, <3>3 DEF SemInv, NoOverdraw
  <2>4. CASE ~exclusive
    BY <2>1, <2>2, <2>4 DEF SemInv, NoOverdraw
  <2>5. QED BY <2>3, <2>4
<1>5. QED BY <1>2, <1>3, <1>4

\* A function with one new value.
LEMMA OneReplaced ==
  ASSUME NEW D, NEW S, NEW f \in [D -> S], NEW c \in D, NEW r \in S,
         NEW g, g = [f EXCEPT ![c] = r]
  PROVE  g \in [D -> S] /\ g[c] = r /\ \A d \in D \ {c} : g[d] = f[d]
  OBVIOUS

LEMMA BlockInv ==
  ASSUME SemInv, NEW c \in Users, BlockOnSem(c), UNCHANGED semhist
  PROVE  SemInv'
<1> USE DEF BlockOnSem, At, Goto, tcbs, sched, semhist, ticked
<1>1. /\ c \in Task /\ c \in Ctx /\ c = Executing /\ pc[c] = "sem_test"
      /\ cur_task \in Task \intersect Known
  BY CallerRunsIt DEF SemLabels, Known, Created
<1>2. "sem_test" \notin KernelLabels /\ SemWait \in Queue
  BY SemLabelsApart, SemaphoreAssumption DEF SemLabels, Queue
<1>3. Known' = Known /\ Locals' = Locals /\ PidsUnique'
  BY NoCreation DEF SemInv
<1>4. RunningIsCurrent' /\ SwitchAgrees'
  BY <1>1, <1>2, ControlStep DEF SemInv, Label, KernelLabels, PushLabels, NextLabels,
                                    RunLabels, SwitchLabels
<1>5. loc' \in [Ctx -> Locals] /\ loc'[c].task = cur_task
      /\ \A d \in Ctx \ {c} : loc'[d] = loc[d]
  <2>1. loc \in [Ctx -> Locals]
    BY DEF SemInv, SchedulerInv, TypeOK
  <2> DEFINE r == [loc[c] EXCEPT !.task = cur_task, !.list = SemWait]
  <2>2. r \in Locals /\ r.task = cur_task
    <3>1. loc[c] \in Locals
      BY <1>1, <2>1
    <3>2. QED BY <1>1, <1>2, <3>1 DEF Locals
  <2>3. loc' = [loc EXCEPT ![c] = r]
    OBVIOUS
  <2> HIDE DEF r
  <2>4. loc' \in [Ctx -> Locals] /\ loc'[c] = r /\ \A d \in Ctx \ {c} : loc'[d] = loc[d]
    BY ONLY <1>1, <2>1, <2>2, <2>3, OneReplaced
  <2> QED BY ONLY <2>2, <2>4
<1>6. FramesOK'
  <2>1. FrameOK("push", loc'[c])
    BY <1>1, <1>5 DEF FrameOK, PushLabels, WalkLabels
  <2>2. QED BY <1>1, <1>5, <2>1, FrameStep DEF SemInv
<1>7. TypeOK'
  <2>1. /\ heap' \in HeapOver(Queue, Known) /\ state' \in [Task -> TaskState]
        /\ ready_bitmap' \subseteq Priority /\ primask' \in BOOLEAN /\ halt' \in Halts
    BY <1>1, BlockType DEF SemInv, Known, TaskState
  <2>2. /\ pc' \in [Ctx -> Label]
        /\ ret' \in [Ctx -> ClientLabels \union {"user", "main"}]
    BY SemaphoreAssumption
       DEF SemInv, SchedulerInv, TypeOK, Label, KernelLabels, PushLabels, SemLabels
  <2>3. QED BY <1>3, <1>5, <2>1, <2>2 DEF SemInv, SchedulerInv, TypeOK, Label
<1>8. ReturnsOK' /\ MonitorOK'
  BY DEF SemInv, ReturnsOK, MonitorOK, SchedulerInv, TypeOK
<1>9. QED BY <1>3, <1>4, <1>6, <1>7, <1>8 DEF SemInv, SchedulerInv, NoOverdraw

LEMMA ReleaseKeeps ==
  ASSUME SemInv, Release, UNCHANGED semhist
  PROVE  /\ SchedulerInv' /\ ReturnsOK' /\ NoOverdraw'
         /\ count' \in 0 .. max_count /\ permits' \in Int
<1> USE DEF Release, tcbs, sched, frames, semhist, ticked
<1>1. SemWait \in Queue /\ heap \in HeapOver(Queue, Known) /\ halt \in Halts
  BY SemaphoreAssumption DEF Queue, SemInv, SchedulerInv, TypeOK
<1>2. Known' = Known /\ Locals' = Locals /\ PidsUnique'
  BY NoCreation DEF SemInv
<1>3. RunningIsCurrent' /\ SwitchAgrees' /\ FramesOK'
  BY DEF SemInv, SchedulerInv, RunningIsCurrent, SwitchAgrees, FramesOK, Running,
         Executing
<1>4. TypeOK'
  <2>1. CASE heap.size[SemWait] = 0 \/ PopFaults(heap, SemWait)
    BY <1>1, <1>2, <2>1 DEF SemInv, SchedulerInv, TypeOK, Halts, PopFaults
  <2>2. CASE ~(heap.size[SemWait] = 0 \/ PopFaults(heap, SemWait))
    <3> DEFINE t == Popped(heap, SemWait)
               h == task_pop(heap, SemWait)
    <3>1. t \in Task \intersect Known
      BY <1>1, <2>2, LoadsType DEF Popped, PopFaults, Known, Created
    <3>2. h \in HeapOver(Queue, Known)
      BY <1>1, <3>1, OperationsType DEF Known, Created
    <3>3. ReadyFrom(h, t)
      BY <2>2
    <3> HIDE DEF h, t
    <3>4. /\ heap' \in HeapOver(Queue, Known) /\ state' \in [Task -> TaskState]
          /\ ready_bitmap' \subseteq Priority /\ primask' \in BOOLEAN /\ halt' \in Halts
      BY <3>1, <3>2, <3>3, ReadyFromType DEF SemInv
    <3>5. QED BY <1>2, <3>4 DEF SemInv, SchedulerInv, TypeOK
  <2>3. QED BY <2>1, <2>2
<1>5. NoOverdraw' /\ count' \in 0 .. max_count /\ permits' \in Int
  BY SemaphoreAssumption DEF SemInv, NoOverdraw, Upped
<1>6. QED BY <1>2, <1>3, <1>4, <1>5 DEF SemInv, SchedulerInv, ReturnsOK

LEMMA ReleaseInv ==
  ASSUME SemInv, NEW c \in Users, sem_release(c), UNCHANGED semhist
  PROVE  SemInv'
<1>1. ~exclusive
  BY CallerRunsIt DEF sem_release, At, SemInv, MonitorOK, SemLabels
<1> QED BY <1>1, ReleaseKeeps DEF sem_release, SemInv, MonitorOK, semhist

-----------------------------------------------------------------------------
(* The invariant                                                           *)

LEMMA SemInitInv ==
  ASSUME SemInit
  PROVE  SemInv
<1>1. SchedulerInv
  BY InitInv DEF SemInit
<1>2. ReturnsOK /\ MonitorOK
  BY DEF SemInit, SchedulerInit, ReturnsOK, MonitorOK
<1>3. InitCount \in Int /\ InitCount <= InitCount /\ InitCount \in 0 .. max_count
  BY SemaphoreAssumption
<1>4. /\ count \in 0 .. max_count /\ exclusive \in BOOLEAN /\ permits \in Int
      /\ count <= permits /\ raced \in BOOLEAN
  BY <1>3 DEF SemInit
<1>5. QED BY <1>1, <1>2, <1>4 DEF SemInv, NoOverdraw

LEMMA SemStutterInv ==
  ASSUME SemInv, UNCHANGED <<svars, semvars, semhist>>
  PROVE  SemInv'
<1>1. SchedulerInv'
  BY StutterInv DEF SemInv, semhist
<1>2. QED BY <1>1 DEF SemInv, svars, semvars, semhist, sched, frames, MonitorOK, ReturnsOK,
                      NoOverdraw, Running

\* The inductive invariant holds for every interleaving of ticks and tasks.
THEOREM SemaphoreInvariant == SemSpec => []SemInv
<1>1. SemInit => SemInv
  BY SemInitInv
<1>2. SemInv /\ [SemNext]_<<svars, semvars, semhist>> => SemInv'
  BY TickInv, SchedulerStepInv, AquireInv, BlockInv, ReleaseInv, SemStutterInv
     DEF SemNext, SemCode, SemStep
<1>3. QED BY <1>1, <1>2, PTL DEF SemSpec

\* No permit is granted twice: sem_aquire never succeeds more often than the
\* initial count and the releases allow.
THEOREM PermitsNotOverdrawn == SemSpec => []NoOverdraw
<1>1. SemInv => NoOverdraw
  BY DEF SemInv
<1>2. QED BY <1>1, SemaphoreInvariant, PTL

\* count never exceeds max_count and never wraps below 0, and the kernel's state
\* keeps its types with a semaphore in use.
THEOREM SemaphoreTypeCorrect == SemSpec => []SemTypeOK
<1>1. SemInv => SemTypeOK
  BY DEF SemInv, SemTypeOK, SchedulerInv
<1>2. QED BY <1>1, SemaphoreInvariant, PTL

-----------------------------------------------------------------------------
(* Where the tasks are, until a tick hits a critical section.              *)

LEMMA SemAquirePlace ==
  ASSUME PlaceInv, SchedulerInv', count \in Nat, NEW c \in Users,
         sem_aquire(c) \/ LoadCount(c) \/ StoreCount(c), UNCHANGED semhist
  PROVE  PlaceInv' /\ AbstractStep
<1>1. PICK l \in SemLabels \union {"user"} :
        /\ pc' = [pc EXCEPT ![c] = l] /\ c = Executing
        /\ pc[c] \in SemLabels \union {"user"}
        /\ UNCHANGED <<heap, tcbs, sched, ret, halt>>
        /\ \E n \in Nat : loc' = loc \/ loc' = [loc EXCEPT ![c].reg = n]
  BY DEF sem_aquire, LoadCount, StoreCount, At, Goto, SemLabels
<1>2. /\ c \in Ctx /\ Statement = pc[c]
      /\ l \in ClientLabels \union {"user"} /\ pc[c] \in ClientLabels \union {"user"}
  BY <1>1, SemaphoreAssumption DEF Ctx, Statement
<1>3. \A d \in Ctx \ {c} : loc'[d] = loc[d]
  BY <1>1, <1>2 DEF PlaceInv, SchedulerInv, TypeOK
<1>4. PlaceInv' /\ Statement' = l
  BY <1>1, <1>2, <1>3, OwnStep DEF tcbs, sched, semhist, ticked
<1> QED BY <1>1, <1>2, <1>4, OwnStepRefines DEF tcbs, sched

LEMMA SemBlockPlace ==
  ASSUME FewTasks, PlaceInv, SchedulerInv', NEW c \in Users, BlockOnSem(c),
         UNCHANGED semhist
  PROVE  /\ PlaceInv' /\ AbstractStep
         /\ cur_task \in Created /\ state' = [state EXCEPT ![cur_task] = "BLOCKED"]
<1>1. /\ c \in Ctx /\ c = Executing /\ pc[c] = "sem_test" /\ Statement = "sem_test"
      /\ "sem_test" \in ClientLabels
  BY SemaphoreAssumption DEF BlockOnSem, At, Ctx, Statement, SemLabels
<1>2. /\ task_block(cur_task, "BLOCKED") /\ pc' = [pc EXCEPT ![c] = "push"]
      /\ ret' = [ret EXCEPT ![c] = "sem_try"]
      /\ loc' = [loc EXCEPT ![c].task = cur_task, ![c].list = SemWait]
      /\ UNCHANGED <<pid, next_pid, cur_task, cur_process>>
  BY DEF BlockOnSem, Goto
<1>3. /\ loc'[c].task = cur_task /\ loc'[c].list = SemWait
      /\ \A d \in Ctx \ {c} : loc'[d] = loc[d] /\ ret'[d] = ret[d]
  BY <1>1, <1>2 DEF PlaceInv, SchedulerInv, TypeOK, Locals
<1>4. /\ PlaceInv' /\ Statement' = "push" /\ UNCHANGED heap
      /\ cur_task \in Created /\ cur_task # NULL /\ state[cur_task] = "RUNNING"
      /\ state' = [state EXCEPT ![cur_task] = "BLOCKED"]
  BY <1>1, <1>2, <1>3, SemaphoreAssumption, OwnBlock DEF semhist, ticked
<1> QED BY <1>1, <1>2, <1>4, OwnBlockRefines

LEMMA ReleasePlace ==
  ASSUME FewTasks, PlaceInv, SchedulerInv', NEW c \in Users, sem_release(c),
         UNCHANGED semhist
  PROVE  /\ PlaceInv' /\ AbstractStep
         /\ heap.size[SemWait] # 0 => \E t \in Created : state' = [state EXCEPT ![t] = "READY"]
         /\ heap.size[SemWait] = 0 => UNCHANGED state
<1>1. /\ c \in Ctx /\ c = Executing /\ pc[c] = "user" /\ Statement = "user" /\ Release
      /\ UNCHANGED <<pc, loc, ret, wake_tick, pid, next_pid, cur_task, next_process,
                     cur_process, sch_ticks, torn, stale>>
  BY SemaphoreAssumption
     DEF sem_release, At, Ctx, Statement, Release, frames, semhist, ticked
<1>2. CASE heap.size[SemWait] = 0
  <2>1. UNCHANGED <<svars, ticked>>
    BY <1>1, <1>2 DEF Release, svars, tcbs, sched, frames, ticked
  <2>2. UNCHANGED state
    BY <2>1 DEF svars, tcbs
  <2> QED BY <1>2, <2>1, <2>2, StutterPlace, StutterRefines
<1>3. CASE heap.size[SemWait] # 0
  <2>1. Wakes(SemWait)
    BY <1>1, <1>3, SemaphoreAssumption DEF Release, Wakes
  <2>2. pc' = [pc EXCEPT ![c] = "user"]
    BY <1>1 DEF PlaceInv, SchedulerInv, TypeOK
  <2>3. PICK t \in Created :
           /\ PlaceInv' /\ Statement' = "user" /\ Joins(t)
           /\ state[t] = "BLOCKED" /\ state' = [state EXCEPT ![t] = "READY"]
    BY <1>1, <2>1, <2>2, OwnWake
  <2>4. AbstractStep
    BY <1>1, <2>3, OwnLabels, WakeRefines
  <2> QED BY <1>3, <2>3, <2>4
<1> QED BY <1>2, <1>3

LEMMA SemNextPlace ==
  ASSUME FewTasks, ~torn => PlaceInv, SemInv,
         [SemNext]_<<svars, semvars, semhist>>, ~torn'
  PROVE  PlaceInv' /\ AbstractStep
<1>1. CASE SemTick
  <2>1. PlaceInv /\ SysTick
    BY <1>1 DEF SemTick, SysTick
  <2> QED BY <2>1, TimerPlace, TimerRefines
<1>2. CASE SemCode /\ UNCHANGED semhist
  <2>1. PlaceInv /\ UNCHANGED ticked /\ UNCHANGED <<torn, stale>>
    BY <1>2 DEF semhist, ticked
  <2>2. CASE init_systick
    BY <2>1, <2>2, TimerPlace, TimerRefines
  <2>3. CASE \E c \in Ctx : Step(c)
    BY <2>1, <2>3, StepPlace, StepRefines
  <2>4. CASE \E c \in Users : sem_aquire(c) \/ LoadCount(c) \/ StoreCount(c)
    <3>1. count \in Nat
      BY SemaphoreAssumption DEF SemInv
    <3> QED BY <1>2, <2>1, <2>4, <3>1, AquireInv, SemAquirePlace DEF SemInv
  <2>5. CASE \E c \in Users : BlockOnSem(c)
    BY <1>2, <2>1, <2>5, BlockInv, SemBlockPlace DEF SemInv
  <2>6. CASE \E c \in Users : sem_release(c)
    BY <1>2, <2>1, <2>6, ReleaseInv, ReleasePlace DEF SemInv
  <2> QED BY <1>2, <2>2, <2>3, <2>4, <2>5, <2>6 DEF SemCode, SemStep
<1>3. CASE UNCHANGED <<svars, semvars, semhist>>
  <2>1. PlaceInv /\ UNCHANGED <<svars, ticked>>
    BY <1>3 DEF semhist, ticked
  <2> QED BY <2>1, StutterPlace, StutterRefines
<1> QED BY <1>1, <1>2, <1>3 DEF SemNext

LEMMA SemPlaceInvariant ==
  ASSUME FewTasks
  PROVE  SemSpec => [](~torn => PlaceInv)
<1>1. SemInit => PlaceInv
  BY InitPlace DEF SemInit
<1>2. (~torn => PlaceInv) /\ SemInv /\ [SemNext]_<<svars, semvars, semhist>>
        => (~torn => PlaceInv)'
  BY SemNextPlace
<1> QED BY <1>1, <1>2, SemaphoreInvariant, PTL DEF SemSpec

\* With a semaphore, every task is in the one queue that its state names outside
\* critical sections, until a tick has hit one.
THEOREM SemTasksArePlaced ==
  ASSUME FewTasks
  PROVE  SemSpec => []EveryTaskPlaced
<1>1. (~torn => PlaceInv) => EveryTaskPlaced
  BY PlacedTasks DEF EveryTaskPlaced
<1> QED BY <1>1, SemPlaceInvariant, PTL

\* With tasks that wait for permits and are woken by releases, the scheduler is still a
\* priority scheduler until a tick hits a critical section.
THEOREM SemKeepsPriorities ==
  ASSUME FewTasks
  PROVE  SemSpec => ImplementsPriorities
<1>1. SemInit => Abstract!Init
  BY InitRefines DEF SemInit
<1>2. (~torn => PlaceInv) /\ SemInv /\ [SemNext]_<<svars, semvars, semhist>>
        => (~torn' => AbstractStep)
  BY SemNextPlace
<1>3. AbstractStep => [Abstract!Next]_Priorities
  BY DEF AbstractStep, Lines, Asleep, Priorities
<1>4. (~torn => PlaceInv) /\ SemInv /\ [SemNext]_<<svars, semvars, semhist>>
        => [~torn' => [Abstract!Next]_Priorities]_<<svars, ticked>>
  BY <1>2, <1>3
<1> QED BY <1>1, <1>4, SemaphoreInvariant, SemPlaceInvariant, PTL
        DEF SemSpec, ImplementsPriorities

-----------------------------------------------------------------------------
(* No task waits while there is a permit.                                  *)

\* There is no waiting list but that of the semaphore.
OneWaitList == WaitLists = {SemWait}

\* The copy of count that sem_aquire decides on is current.
FreshTest == \A c \in Ctx : pc[c] = "sem_test" => c = Executing /\ loc[c].reg = count

WaitersOK == \A t \in Task : state[t] = "BLOCKED" => t \in Created /\ count = 0

IdleInv == SemInv /\ PlaceInv /\ FreshTest /\ WaitersOK

LEMMA IdleTimer ==
  ASSUME IdleInv, (SemTick /\ ~raced') \/ (init_systick /\ UNCHANGED <<semvars, semhist>>)
  PROVE  FreshTest' /\ WaitersOK'
<1>1. /\ pc \in [Ctx -> Label] /\ UNCHANGED <<state, pid, count>> /\ Created' = Created
  BY DEF SemTick, init_systick, SysTick, semvars, tcbs, Created, IdleInv, SemInv, SchedulerInv,
         TypeOK, Label
<1>2. Statement # "sem_test"
  <2>1. CASE SemTick /\ ~raced'
    BY <2>1 DEF SemTick, SysTick, Statement, Executing
  <2>2. CASE init_systick
    BY <2>2 DEF init_systick, At, Statement
  <2> QED BY <2>1, <2>2
<1>3. \A c \in Ctx : pc'[c] # "sem_test"
  BY <1>1, <1>2 DEF IdleInv, FreshTest, Statement, SemTick, SysTick, init_systick, Goto
<1> QED BY <1>1, <1>3 DEF IdleInv, FreshTest, WaitersOK

LEMMA IdleStep ==
  ASSUME IdleInv, NEW c \in Ctx, Step(c), UNCHANGED semvars
  PROVE  FreshTest' /\ WaitersOK'
<1>1. SchedulerInv /\ ReturnsOK /\ pc \in [Ctx -> Label] /\ count' = count
  BY DEF IdleInv, SemInv, SchedulerInv, TypeOK, Label, semvars
<1>2. /\ c = Executing /\ pc[c] \in KernelLabels \union {"user"}
      /\ \E l \in KernelLabels \union {"user", ret[c]} : pc' = [pc EXCEPT ![c] = l]
      /\ \/ UNCHANGED pid
         \/ \E t \in Task : pid' = [pid EXCEPT ![t] = next_pid]
  BY <1>1, StepShape
<1>3. "sem_test" \notin KernelLabels \union {"user", ret[c]}
  BY <1>1, SemLabelsApart DEF SemLabels, ReturnsOK
<1>4. FreshTest'
  BY <1>1, <1>2, <1>3 DEF IdleInv, FreshTest
<1>5. Created \subseteq Created'
  BY <1>1, <1>2 DEF SchedulerInv, TypeOK, Created
<1>6. WaitersOK'
  BY <1>1, <1>5, StepBlocksNone DEF IdleInv, WaitersOK
<1> QED BY <1>4, <1>6

LEMMA IdleAquire ==
  ASSUME IdleInv, NEW c \in Users, sem_aquire(c) \/ LoadCount(c) \/ StoreCount(c)
  PROVE  FreshTest' /\ WaitersOK'
<1>1. /\ c \in Ctx /\ c # Handler /\ c = Executing /\ UNCHANGED <<state, pid, cur_process>>
      /\ pc \in [Ctx -> Label] /\ loc \in [Ctx -> Locals] /\ Created' = Created
      /\ pc[c] \in SemLabels \union {"user"} /\ "sem_test" \in SemLabels
      /\ Running = c /\ pc[Handler] = "idle" /\ Handler \in Ctx
  <2>1. At(c, pc[c]) /\ pc[c] \in SemLabels \union {"user"} /\ SemInv
    BY DEF sem_aquire, LoadCount, StoreCount, At, SemLabels, IdleInv
  <2>2. SchedulerInv /\ UNCHANGED <<state, pid, cur_process>>
    BY <2>1 DEF SemInv, sem_aquire, LoadCount, StoreCount, tcbs, sched
  <2> QED BY <2>1, <2>2, CallerRunsIt DEF At, SchedulerInv, TypeOK, Label, Created, SemLabels,
                                             Ctx
<1>2. \A d \in Ctx \ {c} : pc[d] # "sem_test"
  BY <1>1 DEF IdleInv, FreshTest
<1>3. CASE sem_aquire(c)
  BY <1>1, <1>2, <1>3 DEF sem_aquire, At, Goto, semvars, IdleInv, FreshTest, WaitersOK
<1>4. CASE LoadCount(c)
  <2>1. /\ pc' = [pc EXCEPT ![c] = "sem_test"] /\ loc' = [loc EXCEPT ![c].reg = count]
        /\ count' = count
    BY <1>4 DEF LoadCount, Goto
  <2>2. loc'[c].reg = count /\ Executing' = c
    BY <1>1, <2>1 DEF Locals, Executing, Running
  <2> QED BY <1>1, <1>2, <2>1, <2>2 DEF IdleInv, FreshTest, WaitersOK
<1>5. CASE StoreCount(c)
  <2>1. /\ pc[c] = "sem_test" /\ loc[c].reg > 0
        /\ pc' = [pc EXCEPT ![c] = "user"] \/ pc' = [pc EXCEPT ![c] = "sem_try"]
    BY <1>5 DEF StoreCount, At, Goto
  <2>2. count # 0
    BY <1>1, <2>1 DEF IdleInv, FreshTest
  <2> QED BY <1>1, <1>2, <2>1, <2>2 DEF IdleInv, FreshTest, WaitersOK
<1> QED BY <1>3, <1>4, <1>5

LEMMA IdleBlock ==
  ASSUME FewTasks, IdleInv, SchedulerInv', NEW c \in Users, BlockOnSem(c),
         UNCHANGED semhist
  PROVE  FreshTest' /\ WaitersOK'
<1>1. /\ c \in Ctx /\ c = Executing /\ pc[c] = "sem_test" /\ loc[c].reg = 0
      /\ pc' = [pc EXCEPT ![c] = "push"] /\ UNCHANGED <<pid, count>> /\ Created' = Created
      /\ pc \in [Ctx -> Label]
  BY SemaphoreAssumption
     DEF BlockOnSem, At, Goto, Ctx, Created, IdleInv, SemInv, SchedulerInv, TypeOK, Label
<1>2. cur_task \in Created /\ state' = [state EXCEPT ![cur_task] = "BLOCKED"]
  BY SemBlockPlace DEF IdleInv
<1>3. count = 0
  BY <1>1 DEF IdleInv, FreshTest
<1>4. state \in [Task -> TaskState]
  BY DEF IdleInv, SemInv, SchedulerInv, TypeOK
<1> QED BY <1>1, <1>2, <1>3, <1>4 DEF IdleInv, FreshTest, WaitersOK

LEMMA IdleRelease ==
  ASSUME FewTasks, OneWaitList, IdleInv, SchedulerInv', NEW c \in Users, sem_release(c),
         UNCHANGED semhist
  PROVE  FreshTest' /\ WaitersOK'
<1>1. Release /\ Statement = "user" /\ Statement \notin CriticalSections
  BY OwnLabels DEF sem_release, At, Statement
<1>2. /\ UNCHANGED <<pc, loc, pid, cur_process>> /\ Created' = Created /\ Created \subseteq Task
      /\ Executing' = Executing /\ state \in [Task -> TaskState]
      /\ heap.size[SemWait] # 0 => count' = count
  BY <1>1 DEF Release, frames, Created, IdleInv, SemInv, SchedulerInv, TypeOK, Executing, Running
<1>3. /\ heap.size[SemWait] # 0 => \E t \in Created : state' = [state EXCEPT ![t] = "READY"]
      /\ heap.size[SemWait] = 0 => UNCHANGED state
  BY ReleasePlace DEF IdleInv
<1>4. FreshTest'
  BY <1>1, <1>2 DEF IdleInv, FreshTest, Statement
<1>5. CASE heap.size[SemWait] # 0
  BY <1>2, <1>3, <1>4, <1>5 DEF IdleInv, WaitersOK
<1>6. CASE heap.size[SemWait] = 0
  <2>1. \A t \in Created : state[t] # "BLOCKED"
    BY <1>1, <1>6, NobodyWaits DEF IdleInv, OneWaitList
  <2> QED BY <1>2, <1>3, <1>4, <1>6, <2>1 DEF IdleInv, WaitersOK
<1> QED BY <1>5, <1>6

\* A task waits for a permit only while there is none: a release gives its permit to a
\* waiter before it counts, and no task blocks on a count that is no longer 0, until a
\* tick comes between the LDREX and task_block, or in a critical section.
THEOREM NoPermitIsIdle ==
  ASSUME FewTasks, OneWaitList
  PROVE  SemSpec => []IdlePermitOnlyIfRaced
<1>1. SemInit => IdleInv
  <2> SUFFICES ASSUME SemInit PROVE IdleInv
    OBVIOUS
  <2>1. /\ \A c \in Ctx : pc[c] \in {"main", "idle", "user"}
        /\ \A t \in Task : state[t] # "BLOCKED"
    BY DEF SemInit, SchedulerInit
  <2>2. PlaceInv /\ SemInv
    BY InitPlace, SemInitInv DEF SemInit
  <2> QED BY <2>1, <2>2 DEF IdleInv, FreshTest, WaitersOK
<1>2. /\ ~torn /\ ~raced => IdleInv
      /\ (~torn => PlaceInv)' /\ SemInv' /\ [SemNext]_<<svars, semvars, semhist>>
      => (~torn /\ ~raced => IdleInv)'
  <2> SUFFICES ASSUME ~torn /\ ~raced => IdleInv, (~torn => PlaceInv)', SemInv',
                      [SemNext]_<<svars, semvars, semhist>>, ~torn', ~raced'
               PROVE  FreshTest' /\ WaitersOK'
    BY DEF IdleInv
  <2>1. SchedulerInv'
    BY DEF SemInv
  <2>2. CASE SemTick
    <3>1. ~torn /\ ~raced
      BY <2>2 DEF SemTick, SysTick
    <3> QED BY <2>2, <3>1, IdleTimer
  <2>3. CASE SemCode /\ UNCHANGED semhist
    <3>1. IdleInv
      BY <2>3 DEF semhist, ticked
    <3> QED BY <2>1, <2>3, <3>1, IdleTimer, IdleStep, IdleAquire, IdleBlock, IdleRelease
            DEF SemCode, SemStep
  <2>4. CASE UNCHANGED <<svars, semvars, semhist>>
    <3>1. IdleInv
      BY <2>4 DEF semhist, ticked
    <3> QED BY <2>4, <3>1 DEF svars, semvars, tcbs, sched, frames, IdleInv, FreshTest,
                              WaitersOK, Created, Executing, Running
  <2> QED BY <2>2, <2>3, <2>4 DEF SemNext
<1>3. (~torn /\ ~raced => IdleInv) => IdlePermitOnlyIfRaced
  BY SemaphoreAssumption DEF IdleInv, WaitersOK, IdlePermitOnlyIfRaced, NoIdlePermit
<1> QED BY <1>1, <1>2, <1>3, SemaphoreInvariant, SemPlaceInvariant, PTL DEF SemSpec
==============================================================================

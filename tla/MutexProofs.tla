----------------------------- MODULE MutexProofs -----------------------------
(***************************************************************************)
(* Mutual exclusion for every set of tasks, any priorities and any number  *)
(* of ticks at any step of the scheduler and of the mutex.                 *)
(*                                                                         *)
(* The argument.  The monitor is set only between LDREX and STREX of the   *)
(* task that executes, and as long as it is set that task's copy of        *)
(* owner_pid is current (MonitorOK): a STREX that succeeds finds a free    *)
(* mutex.  It stores the pid of its caller, because cur_task is the caller *)
(* (RunningIsCurrent) and pids are unique and not 0.  So owner_pid names   *)
(* the holder, and only the holder gets past the test of mutex_release     *)
(* (ReleaseOK).  All this holds until a tick makes next_process stale; the *)
(* types, and the monitor, hold for ever.                                  *)
(*                                                                         *)
(* Then, until a tick hits a critical section, the placement of the tasks  *)
(* and the priorities of SchedulerProofs hold with the mutex too.  From    *)
(* the placement follows that no wakeup is lost (WakeInv): a waiting list  *)
(* that mutex_release finds empty means that no task is BLOCKED, and a     *)
(* task that it pops is one that will try again.  This needs that no tick  *)
(* has come between the decision of mutex_aquire and its task_block, or    *)
(* before the last store of mutex_release (Undisturbed).                   *)
(***************************************************************************)
EXTENDS Mutex, SchedulerProofs

MonitorOK ==
  exclusive => /\ pc[Handler] = "idle"
               /\ pc[Running] = "mutex_test"
               /\ loc[Running].reg = owner_pid

ReleaseOK ==
  ~stale => \A c \in Ctx : pc[c] \in {"mutex_pop", "mutex_clear"} => c \in held

ReturnsOK == ret \in [Ctx -> {"user", "main", "mutex_try"}]

MutexInv ==
  /\ SchedulerInv
  /\ owner_pid \in Nat /\ exclusive \in BOOLEAN /\ held \subseteq Lockers
  /\ raced \in BOOLEAN
  /\ owner_pid < next_pid /\ held \subseteq Created
  /\ MonitorOK /\ ReleaseOK /\ ReturnsOK /\ OwnerIsHolder

\* The labels of the mutex are its own.
LEMMA MutexLabelsApart ==
  /\ MutexLabels \subseteq Label
  /\ MutexLabels \intersect (KernelLabels \union {"user"}) = {}
BY MutexAssumption, SchedulerAssumption DEF Label

-----------------------------------------------------------------------------
(* The steps of the scheduler leave the mutex alone.                       *)

LEMMA SchedulerStepInv ==
  ASSUME MutexInv, NEW c \in Ctx, Step(c), UNCHANGED <<mvars, mhist>>
  PROVE  MutexInv'
<1> USE DEF mvars, mhist, ticked
<1>1. SchedulerInv'
  BY StepInv DEF MutexInv
<1>2. ~exclusive
  BY StepShape, MutexLabelsApart DEF MutexInv, MonitorOK, Executing, MutexLabels
<1>3. PICK l \in KernelLabels \union {"user", ret[c]} : pc' = [pc EXCEPT ![c] = l]
  BY StepShape DEF MutexInv
<1>4. PICK r \in {"user", "main", ret[c]} : ret' = [ret EXCEPT ![c] = r]
  BY StepShape DEF MutexInv
<1>5. ReturnsOK'
  BY <1>4 DEF MutexInv, ReturnsOK
<1>6. l \notin {"mutex_pop", "mutex_clear"}
  BY <1>3, MutexLabelsApart DEF MutexInv, ReturnsOK, MutexLabels
<1>7. ReleaseOK'
  BY <1>3, <1>6 DEF MutexInv, ReleaseOK, SchedulerInv, TypeOK
<1>8. MonitorOK'
  BY <1>2 DEF MonitorOK
<1>9. /\ owner_pid' \in Nat /\ exclusive' \in BOOLEAN /\ held' \subseteq Lockers
      /\ owner_pid' < next_pid' /\ held' \subseteq Created' /\ OwnerIsHolder'
  <2>1. CASE UNCHANGED <<pid, next_pid>>
    BY <2>1 DEF MutexInv, Created, OwnerIsHolder
  <2>2. CASE \E t \in Task \ Created :
               pid' = [pid EXCEPT ![t] = next_pid] /\ next_pid' = next_pid + 1
    <3>1. PICK t \in Task \ Created :
                 pid' = [pid EXCEPT ![t] = next_pid] /\ next_pid' = next_pid + 1
      BY <2>2
    <3>2. next_pid \in Nat \ {0} /\ pid \in [Task -> Nat]
      BY DEF MutexInv, SchedulerInv, TypeOK
    <3>3. Created' = Created \union {t}
      BY <3>1, <3>2 DEF Created
    <3>4. \A u \in Created : pid'[u] = pid[u]
      BY <3>1, <3>2 DEF Created
    <3>5. pid'[t] = next_pid /\ t \notin held
      BY <3>1, <3>2 DEF MutexInv
    <3>6. QED BY <3>1, <3>2, <3>3, <3>4, <3>5 DEF MutexInv, OwnerIsHolder
  <2>3. QED BY <2>1, <2>2, StepShape DEF MutexInv
<1>10. QED BY <1>1, <1>5, <1>7, <1>8, <1>9 DEF MutexInv

LEMMA TickInv ==
  ASSUME MutexInv, MutexTick \/ (init_systick /\ UNCHANGED <<mvars, mhist>>)
  PROVE  MutexInv'
<1> USE DEF mvars, mhist, ticked, tcbs, KernelLabels
<1>1. SchedulerInv'
  BY TimerInv DEF MutexInv, MutexTick
<1>2. stale => stale'
  BY DEF MutexTick, SysTick
<1>3. raced' \in BOOLEAN
  BY DEF MutexTick, MutexInv
<1>4. CASE MutexTick
  <2>1. ReleaseOK' /\ ReturnsOK'
    BY <1>2, <1>4, MutexLabelsApart
       DEF MutexInv, ReleaseOK, ReturnsOK, MutexTick, SysTick, Goto, MutexLabels,
           SchedulerInv, TypeOK
  <2>2. UNCHANGED <<owner_pid, held, pid, next_pid>> /\ exclusive' = FALSE
    BY <1>4 DEF MutexTick, SysTick
  <2>3. OwnerIsHolder' /\ MonitorOK' /\ Created' = Created
    BY <1>2, <2>2 DEF MutexInv, OwnerIsHolder, MonitorOK, Created
  <2> QED BY <1>1, <1>3, <2>1, <2>2, <2>3 DEF MutexInv
<1>5. CASE init_systick /\ UNCHANGED <<mvars, mhist>>
  <2>1. ReleaseOK' /\ ReturnsOK'
    BY <1>2, <1>5, MutexLabelsApart
       DEF MutexInv, ReleaseOK, ReturnsOK, init_systick, Goto, MutexLabels,
           SchedulerInv, TypeOK
  <2>2. ~exclusive
    BY <1>5 DEF MutexInv, MonitorOK, init_systick, At, Executing
  <2>3. UNCHANGED <<owner_pid, held, exclusive, pid, next_pid>>
    BY <1>5 DEF init_systick
  <2>4. OwnerIsHolder' /\ MonitorOK' /\ Created' = Created
    BY <1>2, <2>2, <2>3 DEF MutexInv, OwnerIsHolder, MonitorOK, Created
  <2> QED BY <1>1, <1>3, <2>1, <2>3, <2>4 DEF MutexInv
<1> QED BY <1>4, <1>5

-----------------------------------------------------------------------------
(* The steps of the mutex                                                  *)

\* A task that executes a step of the mutex, or its own code, has no handler over it;
\* until next_process is stale it is cur_task.
LEMMA CallerRunsIt ==
  ASSUME MutexInv, NEW c \in Lockers, At(c, pc[c]), pc[c] \in MutexLabels \union {"user"}
  PROVE  /\ c \in Task /\ c \in Ctx /\ pc[Handler] = "idle" /\ Running = c
         /\ c \in Created /\ RunningPid \in Nat /\ RunningPid < next_pid
<1>1. c \in Task /\ c \in Ctx /\ c # Handler /\ c # NULL
  BY MutexAssumption, SchedulerAssumption, TaskQueueAssumption DEF Ctx
<1>2. pc[Handler] = "idle" /\ Running = c
  BY <1>1 DEF At, Executing
<1>3. c \in Created
  BY <1>1, <1>2, SchedulerAssumption DEF Running, MutexInv, SchedulerInv, TypeOK, Known
<1>4. RunningPid \in Nat /\ RunningPid < next_pid
  BY DEF RunningPid, Known, Created, MutexInv, SchedulerInv, PidsUnique, TypeOK
<1> QED BY <1>1, <1>2, <1>3, <1>4

LEMMA CallerIsCurrent ==
  ASSUME MutexInv, NEW c \in Lockers, At(c, pc[c]), pc[c] \in MutexLabels \union {"user"},
         ~stale
  PROVE  cur_task = c /\ RunningPid = pid[c] /\ pid[c] \in Nat \ {0}
<1>1. /\ c \in Task /\ pc[Handler] = "idle" /\ Running = c /\ c \in Created
      /\ c # NULL
  BY CallerRunsIt, TaskQueueAssumption
<1>2. pc[c] \notin NextLabels \union SwitchLabels
  BY MutexLabelsApart
     DEF MutexLabels, KernelLabels, NextLabels, RunLabels, SwitchLabels
<1>3. cur_task = c
  BY <1>1, <1>2 DEF MutexInv, SchedulerInv, RunningIsCurrent
<1> QED BY <1>1, <1>3 DEF RunningPid, Created, MutexInv, SchedulerInv, TypeOK

\* A step between labels of the mutex, or to and from task code, that touches
\* nothing of the scheduler but the local copy of owner_pid.
LEMMA JumpInv ==
  ASSUME MutexInv, NEW c \in Lockers,
         NEW from \in MutexLabels \union {"user"}, NEW to \in MutexLabels \union {"user"},
         Jump(c, from, to), UNCHANGED mhist,
         NEW n \in Nat, loc' = loc \/ loc' = [loc EXCEPT ![c].reg = n]
  PROVE  SchedulerInv' /\ ReturnsOK' /\ Created' = Created
<1> USE DEF Jump, At, Goto, tcbs, sched, mhist, ticked
<1>1. c \in Ctx /\ to \in Label /\ pc[c] = from /\ c = Executing
  BY MutexAssumption, MutexLabelsApart DEF Ctx, Label
<1>2. from \notin KernelLabels /\ to \notin KernelLabels
  <2>1. "user" \notin KernelLabels
    BY DEF KernelLabels, PushLabels, WalkLabels, NextLabels, RunLabels, SwitchLabels
  <2>2. QED BY <2>1, MutexLabelsApart
<1>3. RunningIsCurrent' /\ SwitchAgrees'
  BY <1>1, <1>2, ControlStep DEF MutexInv, KernelLabels
<1>4. Known' = Known /\ Locals' = Locals /\ PidsUnique' /\ Created' = Created
  BY NoCreation DEF MutexInv
<1>5. loc' \in [Ctx -> Locals] /\ \A d \in Ctx \ {c} : loc'[d] = loc[d]
  BY DEF MutexInv, SchedulerInv, TypeOK, Locals
<1>6. FramesOK'
  <2>1. FrameOK(to, loc'[c])
    BY <1>2 DEF FrameOK, KernelLabels, PushLabels, WalkLabels, SwitchLabels
  <2>2. QED BY <1>1, <1>5, <2>1, FrameStep DEF MutexInv
<1>7. TypeOK'
  BY <1>1, <1>4, <1>5 DEF MutexInv, SchedulerInv, TypeOK, Label
<1>8. QED BY <1>3, <1>4, <1>6, <1>7 DEF SchedulerInv, MutexInv, ReturnsOK

LEMMA AquireInv ==
  ASSUME MutexInv, NEW c \in Lockers,
         mutex_aquire(c) \/ LoadOwner(c) \/ StoreOwner(c), UNCHANGED mhist
  PROVE  MutexInv'
<1> USE DEF MutexLabels, mvars, mhist, ticked
<1>1. owner_pid \in Nat /\ pc \in [Ctx -> Label] /\ loc \in [Ctx -> Locals]
  BY DEF MutexInv, SchedulerInv, TypeOK, Label
<1>2. CASE mutex_aquire(c)
  <2> USE <1>2 DEF mutex_aquire
  <2>1. SchedulerInv' /\ ReturnsOK' /\ Created' = Created
    BY JumpInv
  <2>2. /\ c \in Task /\ pc[c] = "user" /\ pc' = [pc EXCEPT ![c] = "mutex_try"]
        /\ Running = c /\ UNCHANGED <<pid, next_pid, cur_process>>
    BY CallerRunsIt DEF Jump, At, Goto, tcbs, sched
  <2>3. ~exclusive
    BY <2>2 DEF MutexInv, MonitorOK
  <2>4. ReleaseOK'
    BY <1>1, <2>2 DEF MutexInv, ReleaseOK
  <2>5. QED BY <2>1, <2>2, <2>3, <2>4 DEF MutexInv, MonitorOK, OwnerIsHolder
<1>3. CASE LoadOwner(c)
  <2> USE <1>3 DEF LoadOwner
  <2>1. SchedulerInv' /\ ReturnsOK' /\ Created' = Created
    BY <1>1, JumpInv
  <2>2. /\ c \in Ctx /\ c \in Task /\ pc' = [pc EXCEPT ![c] = "mutex_test"]
        /\ pc[Handler] = "idle" /\ Running = c
        /\ UNCHANGED <<pid, next_pid, cur_process>>
    BY CallerRunsIt DEF Jump, At, Goto, tcbs, sched
  <2>3. Running' = c /\ c # Handler
    BY <2>2, SchedulerAssumption DEF Running
  <2>4. loc'[c].reg = owner_pid
    BY <1>1, <2>2 DEF Locals
  <2>5. MonitorOK'
    BY <1>1, <2>2, <2>3, <2>4 DEF MonitorOK, Ctx
  <2>6. ReleaseOK'
    BY <1>1, <2>2 DEF MutexInv, ReleaseOK
  <2>7. QED BY <2>1, <2>2, <2>5, <2>6 DEF MutexInv, OwnerIsHolder
<1>4. CASE StoreOwner(c)
  <2> USE <1>4 DEF StoreOwner
  <2>1. SchedulerInv' /\ ReturnsOK' /\ Created' = Created
    BY JumpInv
  <2>2. MonitorOK'
    BY DEF MonitorOK
  <2>3. /\ c \in Created /\ RunningPid \in Nat /\ RunningPid < next_pid
        /\ Running = c /\ c \in Ctx /\ At(c, pc[c]) /\ pc[c] = "mutex_test"
    BY CallerRunsIt DEF Jump, At
  <2>4. pid' = pid /\ next_pid' = next_pid
    BY DEF Jump, tcbs
  <2>5. CASE exclusive
    <3>1. owner_pid = 0
      BY <2>3, <2>5 DEF MutexInv, MonitorOK
    <3>2. owner_pid' = RunningPid /\ held' = held \union {c} /\ pc' = [pc EXCEPT ![c] = "user"]
      BY <2>5 DEF Jump, Goto
    <3>3. ReleaseOK'
      BY <1>1, <3>2 DEF MutexInv, ReleaseOK
    <3>4. OwnerIsHolder'
      <4> SUFFICES ASSUME ~stale
                   PROVE  \A t \in Created : RunningPid = pid[t] <=> t \in held \union {c}
        BY <2>1, <2>4, <3>2 DEF OwnerIsHolder
      <4>1. held = {}
        BY <3>1 DEF MutexInv, OwnerIsHolder, Created
      <4>2. RunningPid = pid[c]
        BY <2>3, CallerIsCurrent
      <4>3. \A t \in Created : pid[t] = pid[c] => t = c
        BY <2>3 DEF MutexInv, SchedulerInv, PidsUnique
      <4> QED BY <4>1, <4>2, <4>3
    <3> QED BY <2>1, <2>2, <2>3, <2>4, <3>2, <3>3, <3>4 DEF MutexInv
  <2>6. CASE ~exclusive
    <3>1. pc' = [pc EXCEPT ![c] = "mutex_try"] /\ UNCHANGED <<owner_pid, held>>
      BY <2>6 DEF Jump, Goto
    <3>2. ReleaseOK'
      BY <1>1, <3>1 DEF MutexInv, ReleaseOK
    <3>3. QED BY <2>1, <2>2, <2>4, <3>1, <3>2 DEF MutexInv, OwnerIsHolder
  <2>7. QED BY <2>5, <2>6
<1>5. QED BY <1>2, <1>3, <1>4

LEMMA BlockInv ==
  ASSUME MutexInv, NEW c \in Lockers, BlockOnMutex(c), UNCHANGED mhist
  PROVE  MutexInv'
<1> USE DEF BlockOnMutex, At, Goto, tcbs, sched, mhist, ticked
<1>1. /\ c \in Task /\ c \in Ctx /\ c = Executing /\ pc[c] = "mutex_test"
      /\ cur_task \in Task \intersect Known
  BY CallerRunsIt DEF MutexLabels, MutexInv, SchedulerInv, TypeOK, Known, Created
<1>2. "mutex_test" \notin KernelLabels /\ MutexWait \in Queue
  BY MutexLabelsApart, MutexAssumption DEF MutexLabels, Queue
<1>3. Known' = Known /\ Locals' = Locals /\ PidsUnique' /\ Created' = Created
  BY NoCreation DEF MutexInv
<1>4. RunningIsCurrent' /\ SwitchAgrees'
  BY <1>1, <1>2, ControlStep
     DEF MutexInv, Label, KernelLabels, PushLabels, NextLabels, RunLabels, SwitchLabels
<1>5. loc' \in [Ctx -> Locals] /\ loc'[c].task = cur_task
      /\ \A d \in Ctx \ {c} : loc'[d] = loc[d]
  BY <1>1, <1>2 DEF MutexInv, SchedulerInv, TypeOK, Locals, Known
<1>6. FramesOK'
  <2>1. FrameOK("push", loc'[c])
    BY <1>1, <1>5 DEF FrameOK, PushLabels, WalkLabels
  <2>2. QED BY <1>1, <1>5, <2>1, FrameStep DEF MutexInv
<1>7. TypeOK'
  <2>1. /\ heap' \in HeapOver(Queue, Known) /\ state' \in [Task -> TaskState]
        /\ ready_bitmap' \subseteq Priority /\ primask' \in BOOLEAN /\ halt' \in Halts
    BY <1>1, BlockType DEF MutexInv, Known, TaskState
  <2>2. /\ pc' \in [Ctx -> Label]
        /\ ret' \in [Ctx -> ClientLabels \union {"user", "main"}]
    BY MutexAssumption
       DEF MutexInv, SchedulerInv, TypeOK, Label, KernelLabels, PushLabels, MutexLabels
  <2>3. QED BY <1>3, <1>5, <2>1, <2>2 DEF MutexInv, SchedulerInv, TypeOK, Label
<1>8. ReleaseOK' /\ ReturnsOK' /\ MonitorOK'
  BY DEF MutexInv, ReleaseOK, ReturnsOK, MonitorOK, SchedulerInv, TypeOK
<1>9. QED BY <1>3, <1>4, <1>6, <1>7, <1>8 DEF MutexInv, SchedulerInv, OwnerIsHolder

LEMMA PopWaiterInv ==
  ASSUME MutexInv, NEW c \in Lockers, PopWaiter(c), UNCHANGED mhist
  PROVE  MutexInv'
<1> USE DEF PopWaiter, At, Goto, tcbs, sched, mvars, mhist, ticked
<1>1. /\ c \in Ctx /\ c = Executing /\ pc[c] = "mutex_pop" /\ Running = c
      /\ pc' = [pc EXCEPT ![c] = "mutex_clear"]
  BY CallerRunsIt DEF MutexLabels
<1>2. /\ "mutex_pop" \notin KernelLabels /\ "mutex_clear" \in Label
      /\ "mutex_clear" \notin KernelLabels /\ MutexWait \in Queue
  BY MutexLabelsApart, MutexAssumption DEF MutexLabels, Queue
<1>3. Known' = Known /\ Locals' = Locals /\ PidsUnique' /\ Created' = Created
  BY NoCreation DEF MutexInv
<1>4. RunningIsCurrent' /\ SwitchAgrees'
  BY <1>1, <1>2, ControlStep
     DEF MutexInv, KernelLabels
<1>5. FramesOK'
  <2>1. FrameOK("mutex_clear", loc'[c])
    BY <1>2 DEF FrameOK, KernelLabels, PushLabels, WalkLabels
  <2>2. QED BY <1>1, <2>1, FrameStep DEF MutexInv
<1>6. TypeOK'
  <2>1. heap \in HeapOver(Queue, Known) /\ halt \in Halts
    BY DEF MutexInv, SchedulerInv, TypeOK
  <2>2. CASE ~HasWaiters \/ PopFaults(heap, MutexWait)
    BY <1>2, <1>3, <2>2
       DEF MutexInv, SchedulerInv, TypeOK, Label, Halts, PopFaults
  <2>3. CASE HasWaiters /\ ~PopFaults(heap, MutexWait)
    <3> DEFINE t == Popped(heap, MutexWait)
               h == task_pop(heap, MutexWait)
    <3>1. t \in Task \intersect Known
      BY <1>2, <2>1, <2>3, LoadsType DEF Popped, PopFaults, HasWaiters, Known, Created
    <3>2. h \in HeapOver(Queue, Known)
      BY <1>2, <2>1, <3>1, OperationsType DEF Known, Created
    <3>3. ReadyFrom(h, t)
      BY <2>3
    <3> HIDE DEF h, t
    <3>4. /\ heap' \in HeapOver(Queue, Known) /\ state' \in [Task -> TaskState]
          /\ ready_bitmap' \subseteq Priority /\ primask' \in BOOLEAN /\ halt' \in Halts
      BY <3>1, <3>2, <3>3, ReadyFromType DEF MutexInv
    <3>5. QED BY <1>2, <1>3, <3>4 DEF MutexInv, SchedulerInv, TypeOK, Label
  <2>4. QED BY <2>2, <2>3
<1>7. MonitorOK'
  BY <1>1 DEF MutexInv, MonitorOK
<1>8. ReleaseOK' /\ ReturnsOK'
  BY <1>1 DEF MutexInv, ReleaseOK, ReturnsOK, SchedulerInv, TypeOK
<1>9. QED BY <1>3, <1>4, <1>5, <1>6, <1>7, <1>8 DEF MutexInv, SchedulerInv, OwnerIsHolder

LEMMA ReleaseInv ==
  ASSUME MutexInv, NEW c \in Lockers, mutex_release(c) \/ ClearOwner(c),
         UNCHANGED mhist
  PROVE  MutexInv'
<1> USE DEF MutexLabels, mvars, mhist, ticked
<1>1. owner_pid \in Nat /\ pc \in [Ctx -> Label]
  BY DEF MutexInv, SchedulerInv, TypeOK, Label
<1>2. CASE mutex_release(c)
  <2> DEFINE to == IF RunningPid = owner_pid THEN "mutex_pop" ELSE "user"
  <2> USE <1>2 DEF mutex_release
  <2>1. SchedulerInv' /\ ReturnsOK' /\ Created' = Created
    BY JumpInv
  <2>2. /\ c \in Created /\ pc[c] = "user" /\ pc' = [pc EXCEPT ![c] = to]
        /\ Running = c /\ UNCHANGED <<pid, next_pid>>
        /\ ~stale => RunningPid = pid[c]
    BY CallerRunsIt, CallerIsCurrent DEF Jump, At, Goto, tcbs
  <2>3. ~exclusive
    BY <2>2 DEF MutexInv, MonitorOK
  <2>4. ~stale /\ RunningPid = owner_pid => c \in held
    BY <2>2 DEF MutexInv, OwnerIsHolder
  <2>5. ReleaseOK'
    BY <1>1, <2>2, <2>4 DEF MutexInv, ReleaseOK
  <2>6. QED BY <2>1, <2>2, <2>3, <2>5 DEF MutexInv, MonitorOK, OwnerIsHolder
<1>3. CASE ClearOwner(c)
  <2> USE <1>3 DEF ClearOwner, At, Goto, tcbs, sched
  <2>1. /\ c \in Ctx /\ c = Executing /\ Running = c /\ c \in Created
        /\ pc[c] = "mutex_clear" /\ pc[c] \notin KernelLabels
        /\ ~stale => c \in held
    BY CallerRunsIt, MutexLabelsApart DEF MutexInv, ReleaseOK
  <2>2. "user" \notin NextLabels \union SwitchLabels \union {"idle"} /\ "user" \in Label
    BY DEF NextLabels, RunLabels, SwitchLabels, Label
  <2>3. Known' = Known /\ Locals' = Locals /\ PidsUnique' /\ Created' = Created
    BY NoCreation DEF MutexInv
  <2>4. RunningIsCurrent' /\ SwitchAgrees'
    BY <2>1, <2>2, ControlStep DEF MutexInv, KernelLabels
  <2>5. FramesOK'
    BY <2>1, FrameStep DEF MutexInv, FrameOK, PushLabels, WalkLabels
  <2>6. TypeOK'
    BY <2>3 DEF MutexInv, SchedulerInv, TypeOK
  <2>7. ~stale => \A t \in held : t = c
    BY <2>1 DEF MutexInv, OwnerIsHolder, SchedulerInv, PidsUnique
  <2>8. owner_pid' = 0 /\ (~stale => held' = {})
    BY <2>7
  <2>9. OwnerIsHolder'
    BY <2>3, <2>8 DEF OwnerIsHolder, Created
  <2>10. ReleaseOK'
    BY <1>1, <2>7 DEF MutexInv, ReleaseOK
  <2>11. MonitorOK' /\ ReturnsOK'
    BY <2>1 DEF MutexInv, MonitorOK, ReturnsOK
  <2>12. next_pid' \in Nat \ {0}
    BY DEF MutexInv, SchedulerInv, TypeOK
  <2>13. QED BY <2>3, <2>4, <2>5, <2>6, <2>8, <2>9, <2>10, <2>11, <2>12
             DEF MutexInv, SchedulerInv
<1>4. QED BY <1>2, <1>3

-----------------------------------------------------------------------------
(* The invariant                                                           *)

LEMMA MutexInitInv ==
  ASSUME MutexInit
  PROVE  MutexInv
<1>1. SchedulerInv
  BY InitInv DEF MutexInit
<1>2. Created = {}
  BY DEF MutexInit, SchedulerInit, Created
<1>3. ReleaseOK /\ ReturnsOK
  BY DEF MutexInit, SchedulerInit, ReleaseOK, ReturnsOK
<1>4. owner_pid = 0 /\ exclusive = FALSE /\ held = {} /\ next_pid = 1
      /\ raced = FALSE
  BY DEF MutexInit, SchedulerInit
<1>5. MonitorOK /\ OwnerIsHolder
  BY <1>2, <1>4 DEF MonitorOK, OwnerIsHolder
<1>6. owner_pid \in Nat /\ exclusive \in BOOLEAN /\ held \subseteq Lockers
      /\ raced \in BOOLEAN
  BY <1>4
<1>7. owner_pid < next_pid /\ held \subseteq Created
  BY <1>4
<1>8. QED BY <1>1, <1>3, <1>5, <1>6, <1>7 DEF MutexInv

LEMMA MutexStutterInv ==
  ASSUME MutexInv, UNCHANGED <<svars, mvars, mhist>>
  PROVE  MutexInv'
<1>1. SchedulerInv'
  BY StutterInv DEF MutexInv, mhist
<1>2. QED BY <1>1 DEF MutexInv, svars, mvars, mhist, ticked, tcbs, sched, frames, MonitorOK, ReleaseOK,
                      ReturnsOK, OwnerIsHolder, Created, Running

\* The inductive invariant holds for every interleaving of ticks and tasks.
THEOREM MutexInvariant == MutexSpec => []MutexInv
<1>1. MutexInit => MutexInv
  BY MutexInitInv
<1>2. MutexInv /\ [MutexNext]_<<svars, mvars, mhist>> => MutexInv'
  BY TickInv, SchedulerStepInv, AquireInv, BlockInv, PopWaiterInv, ReleaseInv,
     MutexStutterInv DEF MutexNext, MutexCode, MutexStep
<1>3. QED BY <1>1, <1>2, PTL DEF MutexSpec

\* owner_pid is the pid of a task exactly while that task has the mutex, so that
\* only the holder can release it, until a tick has made next_process stale.
THEOREM OwnerNamesHolder == MutexSpec => []OwnerIsHolder
<1>1. MutexInv => OwnerIsHolder
  BY DEF MutexInv
<1>2. QED BY <1>1, MutexInvariant, PTL

\* No two tasks have the mutex at the same time, wherever ticks fall in mutex_aquire,
\* mutex_release and the scheduler, until one has made next_process stale.
THEOREM MutexExcludes == MutexSpec => []MutualExclusion
<1>1. MutexInv => MutualExclusion
  BY DEF MutexInv, MutualExclusion, OneHolder, OwnerIsHolder, SchedulerInv, PidsUnique
<1>2. QED BY <1>1, MutexInvariant, PTL

\* The mutex and the kernel under it keep their types, with ticks at any statement.
THEOREM MutexTypeCorrect == MutexSpec => []MutexTypeOK
<1>1. MutexInv => MutexTypeOK
  BY DEF MutexInv, MutexTypeOK, SchedulerInv
<1>2. QED BY <1>1, MutexInvariant, PTL

-----------------------------------------------------------------------------
(* Where the tasks are, until a tick hits a critical section.              *)

\* The steps of the mutex on the scheduler's invariant, and as steps of the abstract
\* scheduler.
LEMMA JumpPlace ==
  ASSUME PlaceInv, SchedulerInv', NEW c \in Lockers,
         NEW from \in MutexLabels \union {"user"}, NEW to \in MutexLabels \union {"user"},
         At(c, from), Goto(c, to), UNCHANGED <<heap, tcbs, sched, ret, halt>>,
         UNCHANGED mhist,
         NEW n \in Nat, loc' = loc \/ loc' = [loc EXCEPT ![c].reg = n]
  PROVE  PlaceInv' /\ AbstractStep
<1>1. /\ c \in Ctx /\ c = Executing /\ pc[c] = from /\ pc' = [pc EXCEPT ![c] = to]
      /\ from \in ClientLabels \union {"user"} /\ to \in ClientLabels \union {"user"}
      /\ UNCHANGED <<heap, state, pid, next_pid, cur_task, cur_process, ready_bitmap, ret, halt>>
      /\ Statement = from
  BY MutexAssumption DEF At, Goto, Ctx, tcbs, sched, Statement
<1>2. \A d \in Ctx \ {c} : loc'[d] = loc[d]
  BY DEF PlaceInv, SchedulerInv, TypeOK
<1>3. PlaceInv' /\ Statement' = to
  BY <1>1, <1>2, OwnStep DEF mhist, ticked
<1> QED BY <1>1, <1>3, OwnStepRefines

LEMMA BlockPlace ==
  ASSUME FewTasks, PlaceInv, SchedulerInv', NEW c \in Lockers, BlockOnMutex(c),
         UNCHANGED mhist
  PROVE  PlaceInv' /\ AbstractStep
<1>1. /\ c \in Ctx /\ c = Executing /\ pc[c] = "mutex_test" /\ Statement = "mutex_test"
      /\ "mutex_test" \in ClientLabels
  BY MutexAssumption DEF BlockOnMutex, At, Ctx, Statement, MutexLabels
<1>2. /\ task_block(cur_task, "BLOCKED") /\ pc' = [pc EXCEPT ![c] = "push"]
      /\ ret' = [ret EXCEPT ![c] = "mutex_try"]
      /\ loc' = [loc EXCEPT ![c].task = cur_task, ![c].list = MutexWait, ![c].reg = 0]
      /\ UNCHANGED <<pid, next_pid, cur_task, cur_process>>
  BY DEF BlockOnMutex, Goto
<1>3. /\ loc'[c].task = cur_task /\ loc'[c].list = MutexWait
      /\ \A d \in Ctx \ {c} : loc'[d] = loc[d] /\ ret'[d] = ret[d]
  BY <1>1, <1>2 DEF PlaceInv, SchedulerInv, TypeOK, Locals
<1>4. /\ PlaceInv' /\ Statement' = "push" /\ UNCHANGED heap
      /\ cur_task \in Created /\ cur_task # NULL /\ state[cur_task] = "RUNNING"
      /\ state' = [state EXCEPT ![cur_task] = "BLOCKED"]
  BY <1>1, <1>2, <1>3, MutexAssumption, OwnBlock DEF mhist, ticked
<1> QED BY <1>1, <1>2, <1>4, OwnBlockRefines

LEMMA PopPlaceShape ==
  ASSUME FewTasks, PlaceInv, SchedulerInv', NEW c \in Lockers, PopWaiter(c),
         UNCHANGED mhist
  PROVE  /\ PlaceInv' /\ AbstractStep
         /\ HasWaiters => \E t \in Created : /\ state[t] = "BLOCKED"
                                            /\ state' = [state EXCEPT ![t] = "READY"]
         /\ ~HasWaiters => UNCHANGED state
<1>1. /\ c \in Ctx /\ c = Executing /\ pc[c] = "mutex_pop" /\ Statement = "mutex_pop"
      /\ "mutex_pop" \in ClientLabels /\ "mutex_clear" \in ClientLabels
      /\ pc' = [pc EXCEPT ![c] = "mutex_clear"]
      /\ UNCHANGED <<loc, ret, pid, next_pid, cur_task, cur_process>>
  BY MutexAssumption DEF PopWaiter, At, Goto, Ctx, Statement, MutexLabels
<1>2. CASE ~HasWaiters
  <2>1. UNCHANGED <<heap, state, ready_bitmap, halt>>
    BY <1>2 DEF PopWaiter
  <2>2. PlaceInv' /\ Statement' = "mutex_clear"
    BY <1>1, <2>1, OwnStep DEF mhist, ticked
  <2>3. AbstractStep
    BY <1>1, <2>1, <2>2, OwnStepRefines
  <2> QED BY <1>2, <2>1, <2>2, <2>3
<1>3. CASE HasWaiters
  <2>1. Wakes(MutexWait)
    BY <1>3, MutexAssumption DEF PopWaiter, HasWaiters, Wakes
  <2>2. PICK t \in Created :
           /\ PlaceInv' /\ Statement' = "mutex_clear" /\ Joins(t)
           /\ state[t] = "BLOCKED" /\ state' = [state EXCEPT ![t] = "READY"]
    BY <1>1, <2>1, OwnWake DEF mhist, ticked
  <2>3. AbstractStep
    BY <1>1, <2>2, OwnLabels, WakeRefines
  <2> QED BY <1>3, <2>2, <2>3
<1> QED BY <1>2, <1>3

LEMMA MutexPlace ==
  ASSUME FewTasks, PlaceInv, MutexInv, NEW c \in Lockers, MutexStep(c),
         UNCHANGED mhist
  PROVE  PlaceInv' /\ AbstractStep
<1>1. SchedulerInv'
  BY AquireInv, BlockInv, PopWaiterInv, ReleaseInv DEF MutexStep, MutexInv
<1>2. owner_pid \in Nat
  BY DEF MutexInv
<1>3. CASE mutex_aquire(c) \/ mutex_release(c) \/ ClearOwner(c)
  <2>1. /\ \E from, to \in MutexLabels \union {"user"} : At(c, from) /\ Goto(c, to)
        /\ UNCHANGED <<heap, tcbs, sched, ret, halt, loc>>
    BY <1>3 DEF mutex_aquire, mutex_release, ClearOwner, Jump, MutexLabels
  <2> QED BY <1>1, <1>2, <2>1, JumpPlace
<1>4. CASE LoadOwner(c)
  <2>1. /\ At(c, "mutex_try") /\ Goto(c, "mutex_test")
        /\ UNCHANGED <<heap, tcbs, sched, ret, halt>> /\ loc' = [loc EXCEPT ![c].reg = owner_pid]
    BY <1>4 DEF LoadOwner, Jump
  <2>2. "mutex_try" \in MutexLabels /\ "mutex_test" \in MutexLabels
    BY DEF MutexLabels
  <2> QED BY <1>1, <1>2, <2>1, <2>2, JumpPlace
<1>5. CASE StoreOwner(c)
  <2>1. /\ \E to \in MutexLabels \union {"user"} : At(c, "mutex_test") /\ Goto(c, to)
        /\ UNCHANGED <<heap, tcbs, sched, ret, halt, loc>>
    BY <1>5 DEF StoreOwner, Jump, MutexLabels
  <2>2. "mutex_test" \in MutexLabels
    BY DEF MutexLabels
  <2> QED BY <1>1, <1>2, <2>1, <2>2, JumpPlace
<1> QED BY <1>1, <1>3, <1>4, <1>5, BlockPlace, PopPlaceShape DEF MutexStep

LEMMA MutexNextPlace ==
  ASSUME FewTasks, ~torn => PlaceInv, MutexInv,
         [MutexNext]_<<svars, mvars, mhist>>, ~torn'
  PROVE  PlaceInv' /\ AbstractStep
<1>1. CASE MutexTick
  <2>1. PlaceInv /\ SysTick
    BY <1>1 DEF MutexTick, SysTick
  <2> QED BY <2>1, TimerPlace, TimerRefines
<1>2. CASE MutexCode /\ UNCHANGED mhist
  <2>1. PlaceInv /\ UNCHANGED ticked /\ UNCHANGED <<torn, stale>>
    BY <1>2 DEF mhist, ticked
  <2>2. CASE init_systick
    BY <2>1, <2>2, TimerPlace, TimerRefines
  <2>3. CASE \E c \in Ctx : Step(c)
    BY <2>1, <2>3, StepPlace, StepRefines
  <2>4. CASE \E c \in Lockers : MutexStep(c)
    BY <1>2, <2>1, <2>4, MutexPlace
  <2> QED BY <1>2, <2>2, <2>3, <2>4 DEF MutexCode
<1>3. CASE UNCHANGED <<svars, mvars, mhist>>
  <2>1. PlaceInv /\ UNCHANGED <<svars, ticked>>
    BY <1>3 DEF mhist, ticked
  <2> QED BY <2>1, StutterPlace, StutterRefines
<1> QED BY <1>1, <1>2, <1>3 DEF MutexNext

LEMMA MutexPlaceInvariant ==
  ASSUME FewTasks
  PROVE  MutexSpec => [](~torn => PlaceInv)
<1>1. MutexInit => PlaceInv
  BY InitPlace DEF MutexInit
<1>2. (~torn => PlaceInv) /\ MutexInv /\ [MutexNext]_<<svars, mvars, mhist>>
        => (~torn => PlaceInv)'
  BY MutexNextPlace
<1> QED BY <1>1, <1>2, MutexInvariant, PTL DEF MutexSpec

\* With the mutex too, every task is in the one queue that its state names outside
\* critical sections, until a tick has hit one: a task that mutex_aquire blocks is in
\* the waiting list, and mutex_release moves the first of them to its ready list.
THEOREM MutexTasksArePlaced ==
  ASSUME FewTasks
  PROVE  MutexSpec => []EveryTaskPlaced
<1>1. (~torn => PlaceInv) => EveryTaskPlaced
  BY PlacedTasks DEF EveryTaskPlaced
<1> QED BY <1>1, MutexPlaceInvariant, PTL

\* With tasks that wait for a mutex the scheduler is still a priority scheduler until a
\* tick hits a critical section: a task that blocks gives the processor up, and one that
\* is woken goes to the end of the queue of its priority.
THEOREM MutexKeepsPriorities ==
  ASSUME FewTasks
  PROVE  MutexSpec => ImplementsPriorities
<1>1. MutexInit => Abstract!Init
  BY InitRefines DEF MutexInit
<1>2. (~torn => PlaceInv) /\ MutexInv /\ [MutexNext]_<<svars, mvars, mhist>>
        => (~torn' => AbstractStep)
  BY MutexNextPlace
<1>3. AbstractStep => [Abstract!Next]_Priorities
  BY DEF AbstractStep, Lines, Asleep, Priorities
<1>4. (~torn => PlaceInv) /\ MutexInv /\ [MutexNext]_<<svars, mvars, mhist>>
        => [~torn' => [Abstract!Next]_Priorities]_<<svars, ticked>>
  BY <1>2, <1>3
<1> QED BY <1>1, <1>4, MutexInvariant, MutexPlaceInvariant, PTL
        DEF MutexSpec, ImplementsPriorities

-----------------------------------------------------------------------------
(* No lost wakeup.                                                         *)

\* There is no waiting list but that of the mutex.
OneWaitList == WaitLists = {MutexWait}

TriesAgain(t) == pc[t] = "mutex_try" \/ ret[t] = "mutex_try"

\* A task waits for nothing but the mutex, and will try again when it has been woken.
WaitersOK == \A t \in Task : state[t] = "BLOCKED" =>
               t \in Lockers /\ t \in Created /\ TriesAgain(t)

\* A context that is not in the kernel has no return address of a mutex.
OwnReturns == \A c \in Ctx :
  /\ pc[c] \in MutexLabels \union {"user"} => ret[c] = "user"
  /\ pc[c] = "add_new" => ret[c] # "mutex_try"

Undisturbed == \A c \in Ctx : pc[c] \in {"mutex_test", "mutex_clear"} => c = Executing

\* The copy of owner_pid that mutex_aquire decides on is current.
FreshTest == \A c \in Ctx : pc[c] = "mutex_test" => loc[c].reg = owner_pid

\* While tasks wait, one that does not is going to try to take the mutex.
Remembered == (\E t \in Task : state[t] = "BLOCKED") => \E t \in Lockers : Trying(t)

\* mutex_release has woken a task before it clears owner_pid.
NoneForgotten == owner_pid = 0 \/ (\E c \in Ctx : pc[c] = "mutex_clear") => Remembered

WakeInv == /\ MutexInv /\ PlaceInv /\ WaitersOK /\ OwnReturns /\ Undisturbed
           /\ FreshTest /\ NoneForgotten

\* The task that executes its own code, or that of the mutex, is RUNNING.
LEMMA CallerRuns ==
  ASSUME WakeInv, NEW c \in Lockers, At(c, pc[c]), pc[c] \in MutexLabels \union {"user"}
  PROVE  /\ c \in Ctx /\ c \in Task /\ c \in Created /\ c # NULL /\ c = Executing
         /\ cur_task = c /\ state[c] = "RUNNING" /\ ret[c] = "user"
<1>1. c \in Ctx /\ c \in Task /\ c = Executing /\ cur_task = c /\ c \in Created /\ c # NULL
  <2>1. ~stale
    BY DEF WakeInv, PlaceInv
  <2> QED BY <2>1, CallerRunsIt, CallerIsCurrent, TaskQueueAssumption DEF WakeInv, At
<1>2. ret[c] = "user"
  BY <1>1 DEF WakeInv, OwnReturns
<1>3. pc[c] \notin Undecided /\ c # Main
  BY <1>1, MutexAssumption, SchedulerAssumption, OwnLabels
<1>4. state[c] = "RUNNING"
  BY <1>1, <1>3 DEF WakeInv, PlaceInv, RunningStates, Statement
<1> QED BY <1>1, <1>2, <1>4

\* What the steps of the scheduler keep: a task that is going to try the mutex still is,
\* and no task blocks.
LEMMA StepTries ==
  ASSUME WakeInv, NEW c \in Ctx, Step(c), UNCHANGED <<mvars, mhist>>
  PROVE  /\ OwnReturns'
         /\ \A t \in Task : TriesAgain(t) => TriesAgain(t)'
         /\ \A d \in Ctx : pc[d] \notin {"mutex_test", "mutex_clear"}
         /\ \A d \in Ctx : pc'[d] \notin {"mutex_test", "mutex_clear"}
<1>1. /\ SchedulerInv /\ OwnReturns /\ ReturnsOK /\ Undisturbed
      /\ ret \in [Ctx -> {"user", "main", "mutex_try"}] /\ pc \in [Ctx -> Label]
      /\ c = Executing /\ pc[c] \in KernelLabels \union {"user"}
      /\ Main \notin Task /\ Handler \notin Task /\ Task \subseteq Ctx
  BY StepShape, SchedulerAssumption
     DEF WakeInv, MutexInv, ReturnsOK, SchedulerInv, TypeOK, Ctx, Label
<1>2. /\ pc[c] \notin MutexLabels
      /\ \A l \in KernelLabels \union {"user", "main", "idle"} : l \notin MutexLabels
      /\ "user" \notin KernelLabels /\ "add_new" \notin MutexLabels \union {"user"}
  BY <1>1, MutexLabelsApart
     DEF KernelLabels, MutexLabels, PushLabels, WalkLabels, NextLabels, RunLabels,
         SwitchLabels
<1>3. \A d \in Ctx : pc[d] \notin {"mutex_test", "mutex_clear"}
  BY <1>1, <1>2 DEF Undisturbed, MutexLabels
<1>o. /\ pc[c] \in {"user", "main"} => pc[c] = "main" \/ ret[c] = "user"
      /\ pc[c] = "add_new" => ret[c] \in {"user", "main"}
  BY <1>1 DEF OwnReturns
<1> USE DEF TriesAgain, OwnReturns, MutexLabels
<1>4. CASE \E l \in KernelLabels \ {"add_new"} : pc' = [pc EXCEPT ![c] = l] /\ ret' = ret
  BY <1>1, <1>2, <1>3, <1>4
<1>5. CASE /\ pc[c] = "user" \/ (pc[c] = "main" /\ c = Main)
           /\ \E l \in KernelLabels : pc' = [pc EXCEPT ![c] = l]
           /\ ret' = [ret EXCEPT ![c] = pc[c]]
  BY <1>1, <1>2, <1>3, <1>5, <1>o
<1>6. CASE pc[c] = "add_new" /\ pc' = [pc EXCEPT ![c] = ret[c]] /\ ret' = ret
  BY <1>1, <1>2, <1>3, <1>6, <1>o
<1>7. CASE /\ pc' = [pc EXCEPT ![c] = IF c = Handler THEN "idle" ELSE ret[c]]
           /\ ret' = [ret EXCEPT ![c] = "user"]
  BY <1>1, <1>2, <1>3, <1>7
<1>8. CASE pc' = pc /\ ret' = ret
  BY <1>1, <1>3, <1>8
<1> QED BY <1>1, <1>4, <1>5, <1>6, <1>7, <1>8, StepReturns

\* Tasks that are going to try, in a step that blocks none and takes none off its way.
LEMMA StillRemembered ==
  ASSUME Remembered, \A t \in Task : state'[t] = "BLOCKED" => state[t] = "BLOCKED",
         \A t \in Lockers : TriesAgain(t) \/ pc[t] = "mutex_test" =>
                            (TriesAgain(t) \/ pc[t] = "mutex_test")'
  PROVE  Remembered'
<1>1. Lockers \subseteq Task
  BY MutexAssumption
<1> QED BY <1>1 DEF Remembered, Trying, TriesAgain

LEMMA WakeStep ==
  ASSUME FewTasks, WakeInv, NEW c \in Ctx, Step(c), UNCHANGED <<mvars, mhist>>
  PROVE  WakeInv'
<1>1. MutexInv' /\ PlaceInv'
  BY SchedulerStepInv, StepPlace DEF WakeInv, mhist, ticked
<1>2. /\ OwnReturns'
      /\ \A t \in Task : TriesAgain(t) => TriesAgain(t)'
      /\ \A d \in Ctx : pc[d] \notin {"mutex_test", "mutex_clear"}
      /\ \A d \in Ctx : pc'[d] \notin {"mutex_test", "mutex_clear"}
  BY StepTries
<1>3. \A t \in Task : state'[t] = "BLOCKED" => state[t] = "BLOCKED"
  BY StepBlocksNone DEF WakeInv, MutexInv
<1>4. Created \subseteq Created' /\ Lockers \subseteq Task /\ Task \subseteq Ctx
  <2>1. SchedulerInv
    BY DEF WakeInv, MutexInv
  <2>2. \/ UNCHANGED pid
        \/ \E t \in Task : pid' = [pid EXCEPT ![t] = next_pid]
    BY <2>1, StepShape
  <2> QED BY <2>1, <2>2, MutexAssumption DEF SchedulerInv, TypeOK, Created, Ctx
<1>5. WaitersOK'
  BY <1>2, <1>3, <1>4 DEF WakeInv, WaitersOK
<1>6. Undisturbed' /\ FreshTest'
  BY <1>2 DEF Undisturbed, FreshTest
<1>7. NoneForgotten'
  <2>1. Remembered => Remembered'
    BY <1>2, <1>3, <1>4, StillRemembered
  <2> QED BY <1>2, <2>1 DEF WakeInv, NoneForgotten, mvars
<1> QED BY <1>1, <1>2, <1>5, <1>6, <1>7 DEF WakeInv

\* A tick that comes neither in mutex_aquire nor at the end of mutex_release.
LEMMA WakeTimer ==
  ASSUME WakeInv, \/ MutexTick /\ ~torn' /\ ~raced'
                  \/ init_systick /\ UNCHANGED <<mvars, mhist>>
  PROVE  WakeInv'
<1>1. MutexInv' /\ PlaceInv'
  BY TickInv, TimerPlace DEF WakeInv, MutexTick, mhist
<1>2. PICK d \in {Main, Handler} : \E l \in {"spin", "walk_init"} : pc' = [pc EXCEPT ![d] = l]
  BY DEF MutexTick, SysTick, init_systick, Goto
<1>3. /\ UNCHANGED <<state, pid, ret, loc, owner_pid>> /\ Created' = Created
      /\ Task \subseteq Ctx \ {d} /\ d \in Ctx /\ Lockers \subseteq Task
      /\ pc \in [Ctx -> Label]
      /\ "spin" \notin MutexLabels \union {"user", "add_new"}
      /\ "walk_init" \notin MutexLabels \union {"user", "add_new"}
  BY SchedulerAssumption, MutexAssumption
     DEF MutexTick, SysTick, init_systick, tcbs, mvars, Created, Ctx, WakeInv, MutexInv,
         SchedulerInv, TypeOK, Label, MutexLabels
<1>4. /\ \A e \in Ctx \ {d} : pc'[e] = pc[e]
      /\ pc'[d] \notin MutexLabels \union {"user", "add_new"}
  BY <1>2, <1>3
<1>5. \A t \in Task : TriesAgain(t)' <=> TriesAgain(t)
  BY <1>3, <1>4 DEF TriesAgain
<1>6. WaitersOK' /\ OwnReturns' /\ FreshTest'
  BY <1>3, <1>4, <1>5 DEF WakeInv, WaitersOK, OwnReturns, FreshTest, MutexLabels
<1>7. Undisturbed'
  <2>1. \A e \in Ctx : pc[e] \notin {"mutex_test", "mutex_clear"}
    <3>1. CASE MutexTick /\ ~raced'
      <4>1. Executing = Running /\ pc[Running] \notin {"mutex_test", "mutex_clear"}
        BY <3>1 DEF MutexTick, SysTick, RaceLabels, Executing, init_systick, mhist,
                    WakeInv, MutexInv
      <4> QED BY <4>1 DEF WakeInv, Undisturbed
    <3>2. CASE init_systick
      <4>1. Main = Executing /\ pc[Main] = "main"
        BY <3>2 DEF init_systick, At
      <4> QED BY <4>1 DEF WakeInv, Undisturbed
    <3> QED BY <3>1, <3>2
  <2> QED BY <1>4, <2>1 DEF Undisturbed, MutexLabels
<1>8. NoneForgotten'
  <2>1. Remembered => Remembered'
    BY <1>3, <1>4, <1>5, StillRemembered
  <2> QED BY <1>3, <1>4, <2>1 DEF WakeInv, NoneForgotten, MutexLabels
<1> QED BY <1>1, <1>6, <1>7, <1>8 DEF WakeInv

\* A step from one label to another outside the kernel.
LEMMA WakeJump ==
  ASSUME WakeInv, NEW c \in Lockers,
         NEW from \in MutexLabels \union {"user"}, NEW to \in MutexLabels \union {"user"},
         At(c, from), Goto(c, to), UNCHANGED <<ret, cur_process>>
  PROVE  /\ OwnReturns' /\ Undisturbed'
         /\ pc[c] = from /\ pc'[c] = to /\ state[c] = "RUNNING"
         /\ \A d \in Ctx \ {c} : pc[d] \notin {"mutex_test", "mutex_clear"} /\ pc'[d] = pc[d]
         /\ \A t \in Task \ {c} : TriesAgain(t)' <=> TriesAgain(t)
         /\ c \in Task \intersect Ctx
<1>1. /\ c \in Ctx /\ c \in Task /\ c = Executing /\ ret[c] = "user" /\ pc[c] = from
      /\ state[c] = "RUNNING" /\ pc \in [Ctx -> Label] /\ Task \subseteq Ctx /\ SchedulerInv
  BY CallerRuns DEF At, Ctx, WakeInv, MutexInv, SchedulerInv, TypeOK, Label
<1>2. to \in Label /\ to # "idle" /\ to # "add_new"
  BY MutexAssumption, OwnLabels
<1>3. Executing' = c /\ pc'[c] = to /\ \A d \in Ctx \ {c} : pc'[d] = pc[d]
  BY <1>1, <1>2, SameContext DEF Goto
<1>4. \A d \in Ctx \ {c} : pc[d] \notin {"mutex_test", "mutex_clear"}
  BY <1>1 DEF WakeInv, Undisturbed
<1>5. OwnReturns' /\ Undisturbed'
  BY <1>1, <1>2, <1>3, <1>4 DEF WakeInv, OwnReturns, Undisturbed
<1>6. \A t \in Task \ {c} : TriesAgain(t)' <=> TriesAgain(t)
  BY <1>1, <1>3 DEF TriesAgain
<1> QED BY <1>1, <1>3, <1>4, <1>5, <1>6

\* mutex_aquire is a way to the mutex, until it has it.
LEMMA WakeAquire ==
  ASSUME WakeInv, MutexInv', PlaceInv', NEW c \in Lockers,
         mutex_aquire(c) \/ LoadOwner(c) \/ StoreOwner(c)
  PROVE  WakeInv'
<1>0. /\ loc \in [Ctx -> Locals] /\ UNCHANGED <<state, pid, ret, cur_process>>
      /\ Created' = Created
  BY DEF WakeInv, MutexInv, SchedulerInv, TypeOK, mutex_aquire, LoadOwner, StoreOwner, Jump,
         tcbs, sched, Created
<1>1. \E from \in {"user", "mutex_try", "mutex_test"} :
        \E to \in {"user", "mutex_try", "mutex_test"} : At(c, from) /\ Goto(c, to)
  BY DEF mutex_aquire, LoadOwner, StoreOwner, Jump
<1>2. PICK from, to \in {"user", "mutex_try", "mutex_test"} : At(c, from) /\ Goto(c, to)
  BY <1>1
<1>3. from \in MutexLabels \union {"user"} /\ to \in MutexLabels \union {"user"}
  BY DEF MutexLabels
<1>4. /\ OwnReturns' /\ Undisturbed' /\ pc[c] = from /\ pc'[c] = to /\ state[c] = "RUNNING"
      /\ \A d \in Ctx \ {c} : pc[d] \notin {"mutex_test", "mutex_clear"} /\ pc'[d] = pc[d]
      /\ \A t \in Task \ {c} : TriesAgain(t)' <=> TriesAgain(t)
      /\ c \in Task \intersect Ctx
  BY <1>0, <1>2, <1>3, WakeJump
<1>5. WaitersOK'
  BY <1>0, <1>4 DEF WakeInv, WaitersOK
<1>6. CASE mutex_aquire(c) \/ LoadOwner(c) \/ (StoreOwner(c) /\ ~exclusive)
  <2>1. /\ to \in {"mutex_try", "mutex_test"} /\ UNCHANGED owner_pid
        /\ to = "mutex_test" => loc'[c].reg = owner_pid
    BY <1>0, <1>4, <1>6
       DEF mutex_aquire, LoadOwner, StoreOwner, Jump, Goto, mvars, Locals, WakeInv, MutexInv,
           SchedulerInv, TypeOK
  <2>2. FreshTest'
    BY <1>4, <2>1 DEF FreshTest
  <2>3. Remembered => Remembered'
    <3>1. Lockers \subseteq Task
      BY MutexAssumption
    <3>2. \A t \in Lockers : TriesAgain(t) \/ pc[t] = "mutex_test" =>
                             (TriesAgain(t) \/ pc[t] = "mutex_test")'
      BY <1>4, <2>1, <3>1 DEF TriesAgain, Ctx
    <3> QED BY <1>0, <3>2, StillRemembered
  <2>4. \A d \in Ctx : pc'[d] = "mutex_clear" => pc[d] = "mutex_clear"
    BY <1>4
  <2>5. NoneForgotten'
    BY <2>1, <2>3, <2>4 DEF WakeInv, NoneForgotten
  <2> QED BY <1>4, <1>5, <2>2, <2>5 DEF WakeInv
<1>7. CASE StoreOwner(c) /\ exclusive
  <2>1. owner_pid' = RunningPid /\ pc'[c] = "user"
    BY <1>4, <1>7 DEF StoreOwner, Jump, Goto, WakeInv, MutexInv, SchedulerInv, TypeOK
  <2>2. RunningPid # 0
    BY <1>2, <1>3, <1>4, CallerIsCurrent DEF WakeInv, PlaceInv, At
  <2>3. \A d \in Ctx : pc'[d] \notin {"mutex_test", "mutex_clear"}
    BY <1>4, <2>1
  <2>4. FreshTest' /\ NoneForgotten'
    BY <2>1, <2>2, <2>3 DEF FreshTest, NoneForgotten
  <2> QED BY <1>4, <1>5, <2>4 DEF WakeInv
<1> QED BY <1>6, <1>7

\* A task blocks only on a mutex that is taken.
LEMMA WakeBlock ==
  ASSUME WakeInv, MutexInv', PlaceInv', NEW c \in Lockers, BlockOnMutex(c)
  PROVE  WakeInv'
<1>1. At(c, pc[c]) /\ pc[c] = "mutex_test" /\ "mutex_test" \in MutexLabels
  BY DEF BlockOnMutex, At, MutexLabels
<1>2. /\ c \in Ctx /\ c \in Task /\ c \in Created /\ c = Executing /\ cur_task = c
      /\ pc \in [Ctx -> Label] /\ ret \in [Ctx -> {"user", "main", "mutex_try"}]
      /\ state \in [Task -> TaskState] /\ Task \subseteq Ctx
  BY <1>1, CallerRuns DEF WakeInv, MutexInv, ReturnsOK, SchedulerInv, TypeOK, Ctx, Label
<1>3. /\ pc' = [pc EXCEPT ![c] = "push"] /\ ret' = [ret EXCEPT ![c] = "mutex_try"]
      /\ state' = [state EXCEPT ![c] = "BLOCKED"] /\ UNCHANGED <<pid, owner_pid>>
  <2>1. CASE state[c] = "READY"
    BY <1>1, <1>2, <2>1, CallerRuns
  <2> QED BY <1>2, <2>1 DEF BlockOnMutex, Goto, task_block
<1>4. Created' = Created
  BY <1>3 DEF Created
<1>5. owner_pid # 0
  BY <1>1, <1>2 DEF BlockOnMutex, WakeInv, FreshTest
<1>6. \A d \in Ctx : pc'[d] \notin {"mutex_test", "mutex_clear"}
  BY <1>2, <1>3 DEF WakeInv, Undisturbed
<1>7. "push" \notin MutexLabels \union {"user", "add_new"}
  BY DEF MutexLabels
<1>8. OwnReturns'
  BY <1>2, <1>3, <1>7 DEF WakeInv, OwnReturns
<1>9. WaitersOK'
  <2> SUFFICES ASSUME NEW t \in Task, state'[t] = "BLOCKED"
               PROVE  t \in Lockers /\ t \in Created /\ TriesAgain(t)'
    BY <1>4 DEF WaitersOK
  <2>1. CASE t = c
    BY <1>2, <1>3, <2>1 DEF TriesAgain
  <2>2. CASE t # c
    BY <1>2, <1>3, <2>2 DEF WakeInv, WaitersOK, TriesAgain
  <2> QED BY <2>1, <2>2
<1>10. Undisturbed' /\ FreshTest' /\ NoneForgotten'
  BY <1>3, <1>5, <1>6 DEF Undisturbed, FreshTest, NoneForgotten
<1> QED BY <1>8, <1>9, <1>10 DEF WakeInv

\* mutex_release of a task that does not have the mutex does nothing.
LEMMA WakeRelease ==
  ASSUME WakeInv, MutexInv', PlaceInv', NEW c \in Lockers, mutex_release(c)
  PROVE  WakeInv'
<1>1. /\ UNCHANGED <<state, pid, ret, loc, cur_process, owner_pid>> /\ Created' = Created
      /\ At(c, "user")
  BY DEF mutex_release, Jump, tcbs, sched, mvars, Created
<1>2. PICK to \in {"user", "mutex_pop"} : Goto(c, to)
  BY DEF mutex_release, Jump
<1>3. "user" \in MutexLabels \union {"user"} /\ to \in MutexLabels \union {"user"}
  BY DEF MutexLabels
<1>4. /\ OwnReturns' /\ Undisturbed' /\ pc[c] = "user" /\ pc'[c] = to /\ state[c] = "RUNNING"
      /\ \A d \in Ctx \ {c} : pc[d] \notin {"mutex_test", "mutex_clear"} /\ pc'[d] = pc[d]
      /\ \A t \in Task \ {c} : TriesAgain(t)' <=> TriesAgain(t)
      /\ c \in Task \intersect Ctx
  BY <1>1, <1>2, <1>3, WakeJump
<1>5. WaitersOK'
  BY <1>1, <1>4 DEF WakeInv, WaitersOK
<1>6. FreshTest' /\ \A d \in Ctx : pc'[d] # "mutex_clear"
  BY <1>4 DEF FreshTest
<1>7. Remembered => Remembered'
  <2>1. ~TriesAgain(c) /\ pc[c] # "mutex_test"
    BY <1>3, <1>4 DEF WakeInv, OwnReturns, TriesAgain
  <2>2. \A t \in Lockers : TriesAgain(t) \/ pc[t] = "mutex_test" =>
                           (TriesAgain(t) \/ pc[t] = "mutex_test")'
    BY <1>4, <2>1, MutexAssumption DEF Ctx
  <2> QED BY <1>1, <2>2, StillRemembered
<1> QED BY <1>1, <1>4, <1>5, <1>6, <1>7 DEF WakeInv, NoneForgotten

\* mutex_release wakes a task if one waits; it is going to try again.
LEMMA WakePop ==
  ASSUME FewTasks, OneWaitList, WakeInv, MutexInv', NEW c \in Lockers, PopWaiter(c),
         UNCHANGED mhist
  PROVE  WakeInv'
<1>1. /\ At(c, "mutex_pop") /\ Goto(c, "mutex_clear") /\ Statement = "mutex_pop"
      /\ UNCHANGED <<pid, ret, loc, cur_process, owner_pid>> /\ Created' = Created
  BY DEF PopWaiter, At, mvars, Created, Statement
<1>2. "mutex_pop" \in MutexLabels \union {"user"} /\ "mutex_clear" \in MutexLabels \union {"user"}
  BY DEF MutexLabels
<1>3. /\ OwnReturns' /\ Undisturbed' /\ pc[c] = "mutex_pop" /\ pc'[c] = "mutex_clear"
      /\ state[c] = "RUNNING"
      /\ \A d \in Ctx \ {c} : pc[d] \notin {"mutex_test", "mutex_clear"} /\ pc'[d] = pc[d]
      /\ \A t \in Task \ {c} : TriesAgain(t)' <=> TriesAgain(t)
      /\ c \in Task \intersect Ctx
  BY <1>1, <1>2, WakeJump
<1>4. /\ PlaceInv'
      /\ HasWaiters => \E t \in Created : /\ state[t] = "BLOCKED"
                                           /\ state' = [state EXCEPT ![t] = "READY"]
      /\ ~HasWaiters => UNCHANGED state
  <2>1. PlaceInv /\ SchedulerInv'
    BY DEF WakeInv, MutexInv
  <2> QED BY <2>1, PopPlaceShape
<1>5. \A t \in Task : state'[t] = "BLOCKED" => state[t] = "BLOCKED" /\ t # c
  BY <1>3, <1>4 DEF WakeInv, MutexInv, SchedulerInv, TypeOK, Created
<1>6. WaitersOK'
  BY <1>1, <1>3, <1>5 DEF WakeInv, WaitersOK
<1>7. FreshTest'
  BY <1>3 DEF FreshTest
<1>8. Remembered'
  <2>1. CASE ~HasWaiters
    <3>1. Statement \notin CriticalSections /\ WaitLists = {MutexWait} /\ PlaceInv
      BY <1>1, <1>2, MutexAssumption, OwnLabels DEF OneWaitList, WakeInv
    <3> QED BY <1>5, <2>1, <3>1, NobodyWaits DEF Remembered, HasWaiters, WakeInv, WaitersOK
  <2>2. CASE HasWaiters
    <3>1. PICK t \in Created : state[t] = "BLOCKED" /\ state' = [state EXCEPT ![t] = "READY"]
      BY <1>4, <2>2
    <3>2. t \in Task \ {c} /\ t \in Lockers /\ TriesAgain(t) /\ state'[t] = "READY"
      BY <1>3, <3>1 DEF WakeInv, WaitersOK, MutexInv, SchedulerInv, TypeOK, Created
    <3>3. TriesAgain(t)'
      BY <1>3, <3>2
    <3> QED BY <3>2, <3>3 DEF Remembered, Trying, TriesAgain
  <2> QED BY <2>1, <2>2
<1> QED BY <1>3, <1>4, <1>6, <1>7, <1>8 DEF WakeInv, NoneForgotten

LEMMA WakeClear ==
  ASSUME WakeInv, MutexInv', PlaceInv', NEW c \in Lockers, ClearOwner(c)
  PROVE  WakeInv'
<1>1. /\ At(c, "mutex_clear") /\ Goto(c, "user")
      /\ UNCHANGED <<state, pid, ret, loc, cur_process>> /\ Created' = Created
  BY DEF ClearOwner, tcbs, sched, Created
<1>2. "mutex_clear" \in MutexLabels \union {"user"} /\ "user" \in MutexLabels \union {"user"}
  BY DEF MutexLabels
<1>3. /\ OwnReturns' /\ Undisturbed' /\ pc[c] = "mutex_clear" /\ pc'[c] = "user"
      /\ state[c] = "RUNNING"
      /\ \A d \in Ctx \ {c} : pc[d] \notin {"mutex_test", "mutex_clear"} /\ pc'[d] = pc[d]
      /\ \A t \in Task \ {c} : TriesAgain(t)' <=> TriesAgain(t)
      /\ c \in Task \intersect Ctx
  BY <1>1, <1>2, WakeJump
<1>4. WaitersOK' /\ FreshTest'
  BY <1>1, <1>3 DEF WakeInv, WaitersOK, FreshTest
<1>5. Remembered
  BY <1>3 DEF WakeInv, NoneForgotten
<1>6. Remembered'
  <2>1. ~TriesAgain(c) /\ pc[c] # "mutex_test"
    BY <1>2, <1>3 DEF WakeInv, OwnReturns, TriesAgain
  <2>2. \A t \in Lockers : TriesAgain(t) \/ pc[t] = "mutex_test" =>
                           (TriesAgain(t) \/ pc[t] = "mutex_test")'
    BY <1>3, <2>1, MutexAssumption DEF Ctx
  <2> QED BY <1>1, <1>5, <2>2, StillRemembered
<1> QED BY <1>3, <1>4, <1>6 DEF WakeInv, NoneForgotten

LEMMA WakeInit ==
  ASSUME MutexInit
  PROVE  WakeInv
<1>1. MutexInv /\ PlaceInv
  BY MutexInitInv, InitPlace DEF MutexInit
<1>2. /\ \A c \in Ctx : pc[c] \in {"main", "idle", "user"} /\ ret[c] = "user"
      /\ \A t \in Task : state[t] # "BLOCKED"
  BY DEF MutexInit, SchedulerInit
<1>3. WaitersOK /\ OwnReturns /\ Undisturbed /\ FreshTest /\ NoneForgotten
  BY <1>2 DEF WaitersOK, OwnReturns, Undisturbed, FreshTest, NoneForgotten, Remembered
<1> QED BY <1>1, <1>3 DEF WakeInv

LEMMA WakeStutter ==
  ASSUME WakeInv, UNCHANGED <<svars, mvars, mhist>>
  PROVE  WakeInv'
<1>1. MutexInv' /\ PlaceInv'
  BY MutexStutterInv, StutterPlace DEF WakeInv, mhist
<1>2. /\ UNCHANGED <<state, pid, cur_process, pc, ret, loc, owner_pid>>
      /\ Created' = Created /\ Executing' = Executing
  BY DEF svars, mvars, tcbs, sched, frames, Created, Executing, Running
<1>3. WaitersOK' /\ OwnReturns' /\ Undisturbed' /\ FreshTest' /\ NoneForgotten'
  BY <1>2 DEF WakeInv, WaitersOK, OwnReturns, Undisturbed, FreshTest, NoneForgotten,
              Remembered, Trying, TriesAgain
<1> QED BY <1>1, <1>3 DEF WakeInv

\* Whenever the mutex is free and tasks wait for it, one that does not is on its way to
\* take it: mutex_release wakes a waiter before it clears owner_pid, and no task blocks
\* on a mutex that has become free, until a tick comes between the decision of one and
\* its task_block, before the last store of the other, or in a critical section.
THEOREM NoWakeupIsLost ==
  ASSUME FewTasks, OneWaitList
  PROVE  MutexSpec => []NoLostWakeup
<1>1. MutexInit => WakeInv
  BY WakeInit
<1>2. (~torn /\ ~raced => WakeInv) /\ MutexInv /\ [MutexNext]_<<svars, mvars, mhist>>
        => (~torn /\ ~raced => WakeInv)'
  <2> SUFFICES ASSUME ~torn /\ ~raced => WakeInv, MutexInv,
                      [MutexNext]_<<svars, mvars, mhist>>, ~torn', ~raced'
               PROVE  WakeInv'
    OBVIOUS
  <2>1. CASE MutexTick
    <3>1. ~torn /\ ~raced
      BY <2>1 DEF MutexTick, SysTick
    <3> QED BY <2>1, <3>1, WakeTimer
  <2>2. CASE MutexCode /\ UNCHANGED mhist
    <3>0. WakeInv /\ MutexInv /\ PlaceInv
      BY <2>2 DEF mhist, ticked, WakeInv
    <3>1. CASE init_systick /\ UNCHANGED mvars
      BY <2>2, <3>0, <3>1, WakeTimer
    <3>2. CASE \E c \in Ctx : Step(c) /\ UNCHANGED mvars
      BY <2>2, <3>0, <3>2, WakeStep
    <3>3. ASSUME NEW c \in Lockers, MutexStep(c)
          PROVE  WakeInv'
      <4>1. MutexInv' /\ PlaceInv'
        BY <2>2, <3>0, <3>3, MutexPlace, AquireInv, BlockInv, PopWaiterInv, ReleaseInv
           DEF MutexStep
      <4> QED BY <2>2, <3>0, <3>3, <4>1, WakeAquire, WakeBlock, WakeRelease, WakePop, WakeClear
              DEF MutexStep
    <3> QED BY <2>2, <3>1, <3>2, <3>3 DEF MutexCode
  <2>3. CASE UNCHANGED <<svars, mvars, mhist>>
    <3>1. WakeInv
      BY <2>3 DEF mhist, ticked
    <3> QED BY <2>3, <3>1, WakeStutter
  <2> QED BY <2>1, <2>2, <2>3 DEF MutexNext
<1>3. (~torn /\ ~raced => WakeInv) => NoLostWakeup
  BY MutexAssumption DEF WakeInv, NoneForgotten, Remembered, NoLostWakeup
<1> QED BY <1>1, <1>2, <1>3, MutexInvariant, PTL DEF MutexSpec
==============================================================================

--------------------------- MODULE SchedulerProofs ---------------------------
(***************************************************************************)
(* The scheduler for every set of tasks, every priority assignment and any *)
(* number of ticks.                                                        *)
(*                                                                         *)
(* First the type invariant and RunningIsCurrent, with ticks at any step   *)
(* of the kernel.  The inductive invariant adds to the two what a          *)
(* preempted context relies on when it goes on: its registers hold what    *)
(* its next statement expects (FramesOK), and, until a tick falls between  *)
(* the load of cur_task and the store of next_process, next_process is the *)
(* cur_task of the last decision until the switch is made (SwitchAgrees).  *)
(*                                                                         *)
(* Then, until a tick hits a critical section (~torn), where every task    *)
(* is.  The inductive invariant (PlaceInv) describes the heap as what the  *)
(* operation in progress has made of a heap h whose queues are well linked *)
(* lists, which hold every task that its state says but the one on the     *)
(* move.                                                                   *)
(*                                                                         *)
(* Last, from that invariant: the scheduler does not halt, and implements  *)
(* PriorityScheduler.                                                      *)
(***************************************************************************)
EXTENDS SchedulerRefinement, TaskQueueProofs, Integers, WellFoundedInduction

Label == KernelLabels \union ClientLabels \union {"user"}

\* What the locals r of a context at label l hold.
FrameOK(l, r) ==
  /\ l \in PushLabels \union {"add_new"} => r.task \in Task
  /\ l \in WalkLabels \ {"walk"} => r.walker \in Task
  /\ l \in {"push_store", "unlink_store"} => r.reg \in 0 .. SizeMax
  /\ l = "pop" => r.reg \in Priority
  /\ l = "count_store" => r.reg \in Tick

FramesOK == \A c \in Ctx : FrameOK(pc[c], loc[c])

\* pids are handed out once.
PidsUnique == /\ \A t \in Task : pid[t] < next_pid
              /\ \A t, u \in Created : pid[t] = pid[u] => t = u

SwitchAgrees ==
  ~stale =>
    /\ pc[Executing] \in SwitchLabels => next_process = cur_task
    /\ \A c \in Ctx : pc[c] \in NextLabels => c = Executing /\ loc[c].task = cur_task

SchedulerInv == TypeOK /\ FramesOK /\ PidsUnique /\ RunningIsCurrent /\ SwitchAgrees

-----------------------------------------------------------------------------
(* Facts about single pieces of the state, used by every action.           *)

LEMMA ExecutingIsContext ==
  ASSUME TypeOK
  PROVE  Executing \in Ctx /\ Running \in Ctx
BY DEF TypeOK, Executing, Running, Ctx, Known, Created

\* The control part of a step of c that makes no scheduling decision.
LEMMA ControlStep ==
  ASSUME SchedulerInv, NEW c \in Ctx, c = Executing, NEW l \in Label,
         pc' = [pc EXCEPT ![c] = l],
         l \notin NextLabels \union {"idle"},
         l \in SwitchLabels => pc[c] \in SwitchLabels,
         pc[c] \in SwitchLabels => l \in SwitchLabels,
         pc[c] \notin NextLabels,
         UNCHANGED <<cur_task, next_process, cur_process, stale>>
  PROVE  RunningIsCurrent' /\ SwitchAgrees'
<1> USE DEF SchedulerInv, TypeOK, Label
<1>1. Executing' = Executing /\ Running' = Running
  BY SchedulerAssumption DEF Executing, Running, Ctx
<1>2. RunningIsCurrent'
  BY <1>1, SchedulerAssumption DEF RunningIsCurrent, Executing
<1>3. \A d \in Ctx : pc'[d] \in NextLabels => d # c /\ pc[d] \in NextLabels
  OBVIOUS
<1>4. SwitchAgrees'
  BY <1>1, <1>3 DEF SwitchAgrees
<1>5. QED BY <1>2, <1>4

\* The frames after a step of c.
LEMMA FrameStep ==
  ASSUME SchedulerInv, NEW c \in Ctx, NEW l, pc' = [pc EXCEPT ![c] = l],
         \A d \in Ctx \ {c} : loc'[d] = loc[d],
         FrameOK(l, loc'[c])
  PROVE  FramesOK'
BY DEF SchedulerInv, TypeOK, FramesOK

\* A step that creates no task leaves the pids and the known pointers alone.
LEMMA NoCreation ==
  ASSUME SchedulerInv, UNCHANGED <<pid, next_pid>>
  PROVE  Created' = Created /\ Known' = Known /\ Locals' = Locals /\ PidsUnique'
BY DEF SchedulerInv, PidsUnique, Created, Known, Locals

-----------------------------------------------------------------------------
(* task_push with interrupts enabled, and the statements of task_remove.   *)

\* A step that only writes the heap.
LEMMA HeapStepInv ==
  ASSUME SchedulerInv, NEW c \in Ctx, NEW from, NEW to \in Label, NEW h,
         HeapStep(c, from, to, h),
         h \in HeapOver(Queue, Known),
         to \notin NextLabels \union SwitchLabels \union {"idle"},
         from \notin NextLabels \union SwitchLabels,
         FrameOK(to, loc[c]),
         UNCHANGED <<torn, stale>>
  PROVE  SchedulerInv'
<1> USE DEF HeapStep, At, Goto, tcbs, sched
<1>1. RunningIsCurrent' /\ SwitchAgrees'
  BY ControlStep
<1>2. FramesOK'
  BY FrameStep
<1>3. Known' = Known /\ Locals' = Locals /\ PidsUnique'
  BY NoCreation
<1>4. TypeOK'
  BY <1>3 DEF SchedulerInv, TypeOK, Label
<1>5. QED BY <1>1, <1>2, <1>3, <1>4 DEF SchedulerInv

LEMMA PushInv ==
  ASSUME SchedulerInv, NEW c \in Ctx, UnprotectedPush(c),
         UNCHANGED <<torn, stale>>
  PROVE  SchedulerInv'
<1> DEFINE t == loc[c].task
           q == loc[c].list
<1> USE DEF At, Goto, tcbs, sched
<1>1. q \in Queue /\ NULL \in Known /\ heap \in HeapOver(Queue, Known)
  BY DEF SchedulerInv, TypeOK, Locals, Known
<1>2. pc[c] \in PushLabels => t \in Task \intersect Known
  BY DEF SchedulerInv, TypeOK, Locals, FramesOK, FrameOK
<1>3. FrameOK(pc[c], loc[c])
  BY DEF SchedulerInv, FramesOK
<1> USE DEF PushLabels, WalkLabels, NextLabels, RunLabels, SwitchLabels, Label, KernelLabels
<1>f. pc[c] \in PushLabels =>
        \A l \in PushLabels \ {"push_store"} : FrameOK(l, loc[c])
  BY <1>2 DEF FrameOK
<1>4. CASE PushClear(c)
  <2>1. ClearLinks(heap, t) \in HeapOver(Queue, Known)
    BY <1>1, <1>2, <1>4, StatementsType DEF PushClear, HeapStep
  <2>2. pc[c] = "push" /\ FrameOK("push_link", loc[c])
    BY <1>f, <1>4 DEF PushClear, HeapStep
  <2>3. HeapStep(c, "push", "push_link", ClearLinks(heap, t))
    BY <1>4 DEF PushClear
  <2>4. QED BY <2>1, <2>2, <2>3, HeapStepInv
<1>5. CASE PushHead(c) \/ PushPrev(c) \/ PushTail(c)
  <2>1. loc[c].at \in Known
    BY DEF SchedulerInv, TypeOK, Locals
  <2>2. /\ [heap EXCEPT !.head[q] = t] \in HeapOver(Queue, Known)
        /\ [heap EXCEPT !.prev[t] = loc[c].at] \in HeapOver(Queue, Known)
        /\ SetTail(heap, q, t) \in HeapOver(Queue, Known)
    BY <1>1, <1>2, <1>5, <2>1 DEF PushHead, PushPrev, PushTail, HeapStep, HeapOver, SetTail
  <2>3. QED BY <2>2, <1>f, <1>5, HeapStepInv DEF PushHead, PushPrev, PushTail, HeapStep
<1>6. CASE PushNext(c)
  <2> USE <1>6 DEF PushNext
  <2>1. RunningIsCurrent' /\ SwitchAgrees'
    BY ControlStep
  <2>2. FramesOK'
    BY <1>f, FrameStep
  <2>3. Known' = Known /\ Locals' = Locals /\ PidsUnique'
    BY NoCreation
  <2>4. heap' \in HeapOver(Queue, Known)
    BY <1>1, <1>2 DEF HeapOver
  <2>5. TypeOK'
    BY <2>3, <2>4 DEF SchedulerInv, TypeOK, Halts
  <2>6. QED BY <2>1, <2>2, <2>3, <2>5 DEF SchedulerInv
<1>7. CASE PushLink(c) \/ PushBack(c)
  <2> USE <1>7 DEF PushLink, PushBack
  <2>1. PICK l \in {"push_head", "push_next", "push_prev"} : pc' = [pc EXCEPT ![c] = l]
    OBVIOUS
  <2>2. RunningIsCurrent' /\ SwitchAgrees'
    BY <2>1, ControlStep
  <2>3. Known' = Known /\ Locals' = Locals /\ PidsUnique'
    BY NoCreation
  <2>4. heap.tail[q] \in Known
    BY <1>1, LoadsType
  <2>5. /\ loc'[c].task = t /\ loc' \in [Ctx -> Locals]
        /\ \A d \in Ctx \ {c} : loc'[d] = loc[d]
    <3>1. loc' \in {loc, [loc EXCEPT ![c].at = heap.tail[q]]}
      OBVIOUS
    <3>2. QED BY <2>4, <3>1 DEF SchedulerInv, TypeOK, Locals
  <2>6. FrameOK(l, loc'[c])
    BY <1>2, <2>1, <2>5 DEF FrameOK
  <2>7. FramesOK'
    BY <2>1, <2>5, <2>6, FrameStep
  <2>8. TypeOK'
    BY <2>1, <2>3, <2>5 DEF SchedulerInv, TypeOK
  <2>9. QED BY <2>2, <2>3, <2>7, <2>8 DEF SchedulerInv
<1>8. CASE PushSize(c)
  <2> USE <1>8 DEF PushSize
  <2>1. RunningIsCurrent' /\ SwitchAgrees'
    BY ControlStep
  <2>2. Known' = Known /\ Locals' = Locals /\ PidsUnique'
    BY NoCreation
  <2>3. heap.size[q] \in 0 .. SizeMax /\ heap.size[q] \in Nat
    BY <1>1, LoadsType
  <2>4. FramesOK'
    <3>1. /\ loc'[c].task = t /\ loc'[c].reg = heap.size[q]
          /\ \A d \in Ctx \ {c} : loc'[d] = loc[d]
      BY DEF SchedulerInv, TypeOK, Locals
    <3>2. FrameOK("push_store", loc'[c])
      BY <1>2, <2>3, <3>1 DEF FrameOK
    <3>3. QED BY <3>1, <3>2, FrameStep
  <2>5. TypeOK'
    BY <2>2, <2>3 DEF SchedulerInv, TypeOK, Locals
  <2>6. QED BY <2>1, <2>2, <2>4, <2>5 DEF SchedulerInv
<1>9. CASE PushStore(c)
  <2> USE <1>9 DEF PushStore
  <2>1. RunningIsCurrent' /\ SwitchAgrees'
    BY ControlStep
  <2>2. Known' = Known /\ Locals' = Locals /\ PidsUnique'
    BY NoCreation
  <2>3. FramesOK'
    BY FrameStep DEF SchedulerInv, TypeOK, FrameOK
  <2>4. heap' \in HeapOver(Queue, Known)
    <3>1. loc[c].reg \in 0 .. SizeMax
      BY <1>3 DEF FrameOK
    <3>2. QED BY <1>1, <3>1, SizesType, StoresType
  <2>5. NoLocals \in Locals
    BY DEF NoLocals, Locals, Known, Queue
  <2>6. TypeOK'
    BY <2>2, <2>4, <2>5 DEF SchedulerInv, TypeOK
  <2>7. QED BY <2>1, <2>2, <2>3, <2>6 DEF SchedulerInv
<1>10. QED BY <1>4, <1>5, <1>6, <1>7, <1>8, <1>9 DEF UnprotectedPush

-----------------------------------------------------------------------------
(* scheduler_handle_blocked                                                *)

\* A step that makes a known task ready, in the heap h it has made so far.
LEMMA ReadyFromType ==
  ASSUME SchedulerInv, NEW h \in HeapOver(Queue, Known),
         NEW t \in Task \intersect Known, ReadyFrom(h, t)
  PROVE  /\ heap' \in HeapOver(Queue, Known)
         /\ state' \in [Task -> TaskState]
         /\ ready_bitmap' \subseteq Priority
         /\ primask' \in BOOLEAN
         /\ halt' \in Halts
<1>1. Prio[t] \in Priority /\ Ready(Prio[t]) \in Queue
  BY SchedulerAssumption DEF Queue
<1>2. heap' \in HeapOver(Queue, Known)
  BY <1>1, OperationsType DEF Known, Created, ReadyFrom
<1>3. QED BY <1>1, <1>2 DEF SchedulerInv, TypeOK, ReadyFrom, TaskState, Halts

LEMMA ReadyType ==
  ASSUME SchedulerInv, NEW t \in Task \intersect Known, task_add_ready(t)
  PROVE  /\ heap' \in HeapOver(Queue, Known)
         /\ state' \in [Task -> TaskState]
         /\ ready_bitmap' \subseteq Priority
         /\ primask' \in BOOLEAN
         /\ halt' \in Halts
<1>1. heap \in HeapOver(Queue, Known)
  BY DEF SchedulerInv, TypeOK
<1>2. QED BY <1>1, ReadyFromType DEF task_add_ready

LEMMA HandleBlockedInv ==
  ASSUME SchedulerInv, NEW c \in Ctx, HandleBlocked(c),
         UNCHANGED <<torn, stale>>
  PROVE  SchedulerInv'
<1> DEFINE t == loc[c].walker
<1> USE DEF At, Goto, tcbs, sched, PushLabels, WalkLabels, NextLabels, RunLabels, SwitchLabels, Label,
            KernelLabels
<1>1. Delayed \in Queue /\ NULL \in Known /\ heap \in HeapOver(Queue, Known)
  BY DEF SchedulerInv, TypeOK, Queue, Known
<1>2. t \in Known /\ loc[c].next \in Known /\ (t # NULL => t \in Task)
  BY DEF SchedulerInv, TypeOK, Locals, Known, Created
<1>3. FrameOK(pc[c], loc[c])
  BY DEF SchedulerInv, FramesOK
<1>4. pc[c] \in WalkLabels \ {"walk"} =>
        /\ t \in Task \intersect Known
        /\ \A l \in WalkLabels \ {"unlink_store"} : FrameOK(l, loc[c])
  BY <1>2, <1>3 DEF FrameOK
<1>5. CASE WalkInit(c)
  <2> USE <1>5 DEF WalkInit
  <2>1. RunningIsCurrent' /\ SwitchAgrees'
    BY ControlStep
  <2>2. Known' = Known /\ Locals' = Locals /\ PidsUnique'
    BY NoCreation
  <2>3. FramesOK'
    BY FrameStep DEF SchedulerInv, TypeOK, FrameOK
  <2>4. heap.head[Delayed] \in Known
    BY <1>1, LoadsType
  <2>5. TypeOK'
    BY <2>2, <2>4 DEF SchedulerInv, TypeOK, Locals
  <2>6. QED BY <2>1, <2>2, <2>3, <2>5 DEF SchedulerInv
<1>6. CASE Walk(c)
  <2> USE <1>6 DEF Walk
  <2>1. RunningIsCurrent' /\ SwitchAgrees'
    BY ControlStep
  <2>2. Known' = Known /\ Locals' = Locals /\ PidsUnique'
    BY NoCreation
  <2>3. t # NULL => heap.next[t] \in Known
    BY <1>1, <1>2, LoadsType
  <2>4. FramesOK'
    <3>1. CASE t = NULL
      BY <3>1, FrameStep DEF SchedulerInv, TypeOK, FrameOK
    <3>2. CASE t # NULL
      <4>1. loc'[c].walker = t /\ \A d \in Ctx \ {c} : loc'[d] = loc[d]
        BY <3>2 DEF SchedulerInv, TypeOK, Locals
      <4>2. FrameOK("compare", loc'[c])
        BY <1>2, <3>2, <4>1 DEF FrameOK
      <4>3. QED BY <3>2, <4>1, <4>2, FrameStep
    <3>3. QED BY <3>1, <3>2
  <2>5. TypeOK'
    <3>1. CASE t = NULL
      <4>1. loc' \in [Ctx -> Locals]
        BY <1>1, <3>1 DEF SchedulerInv, TypeOK, Locals
      <4>2. pc' \in [Ctx -> Label] /\ primask' \in BOOLEAN
        BY <3>1 DEF SchedulerInv, TypeOK
      <4>3. QED BY <2>2, <3>1, <4>1, <4>2 DEF SchedulerInv, TypeOK
    <3>2. CASE t # NULL
      <4>1. loc' \in [Ctx -> Locals]
        BY <2>3, <3>2 DEF SchedulerInv, TypeOK, Locals
      <4>2. pc' \in [Ctx -> Label]
        BY <3>2 DEF SchedulerInv, TypeOK
      <4>3. QED BY <2>2, <3>2, <4>1, <4>2 DEF SchedulerInv, TypeOK
    <3>3. QED BY <3>1, <3>2
  <2>6. QED BY <2>1, <2>2, <2>4, <2>5 DEF SchedulerInv
<1>7. CASE Compare(c)
  <2> USE <1>7 DEF Compare, Expired
  <2>1. RunningIsCurrent' /\ SwitchAgrees'
    BY ControlStep
  <2>2. Known' = Known /\ Locals' = Locals /\ PidsUnique'
    BY NoCreation
  <2>3. FramesOK'
    <3>1. CASE wake_tick[t] <= sch_ticks
      BY <1>4, <3>1, FrameStep DEF SchedulerInv, TypeOK
    <3>2. CASE ~(wake_tick[t] <= sch_ticks)
      BY <3>2, FrameStep DEF SchedulerInv, TypeOK, FrameOK
    <3>3. QED BY <3>1, <3>2
  <2>4. TypeOK'
    BY <1>2, <2>2 DEF SchedulerInv, TypeOK, Locals, Halts
  <2>5. QED BY <2>1, <2>2, <2>3, <2>4 DEF SchedulerInv
<1>8. CASE RemoveHead(c) \/ RemoveTail(c) \/ RemoveNext(c) \/ RemovePrev(c)
  <2> USE <1>8 DEF RemoveHead, RemoveTail, RemoveNext, RemovePrev, RemoveTest
  <2>1. PICK l \in WalkLabels \ {"walk", "unlink_store", "wake"} : pc' = [pc EXCEPT ![c] = l]
    OBVIOUS
  <2>2. RunningIsCurrent' /\ SwitchAgrees'
    BY <2>1, ControlStep
  <2>3. Known' = Known /\ Locals' = Locals /\ PidsUnique'
    BY NoCreation
  <2>4. heap.next[t] \in Known /\ heap.prev[t] \in Known
    BY <1>1, <1>4, LoadsType
  <2>5. PICK x \in Known, y \in Known :
          loc' \in {loc, [loc EXCEPT ![c].at = x, ![c].val = y]}
    BY <1>1, <2>4
  <2>6. /\ loc'[c].walker = t /\ loc' \in [Ctx -> Locals]
        /\ \A d \in Ctx \ {c} : loc'[d] = loc[d]
    BY <2>5 DEF SchedulerInv, TypeOK, Locals
  <2>7. FrameOK(l, loc'[c])
    BY <1>4, <2>1, <2>6 DEF FrameOK
  <2>8. FramesOK'
    BY <2>1, <2>6, <2>7, FrameStep
  <2>9. TypeOK'
    BY <2>1, <2>3, <2>6 DEF SchedulerInv, TypeOK
  <2>10. QED BY <2>2, <2>3, <2>8, <2>9 DEF SchedulerInv
<1>9. CASE StoreHead(c) \/ StoreTail(c) \/ StoreNext(c) \/ StorePrev(c)
  <2> DEFINE x == loc[c].at
             y == loc[c].val
  <2>1. x \in Known /\ y \in Known
    BY DEF SchedulerInv, TypeOK, Locals
  <2>2. /\ [heap EXCEPT !.head[Delayed] = y] \in HeapOver(Queue, Known)
        /\ [heap EXCEPT !.tail[Delayed] = y] \in HeapOver(Queue, Known)
        /\ [heap EXCEPT !.next[x] = y] \in HeapOver(Queue, Known)
        /\ [heap EXCEPT !.prev[x] = y] \in HeapOver(Queue, Known)
    BY <1>1, <2>1 DEF HeapOver
  <2>3. \A l \in {"unlink_tail", "unlink_next", "unlink_prev", "unlink_size"} :
          FrameOK(l, loc[c])
    BY <1>4, <1>9 DEF StoreHead, StoreTail, StoreNext, StorePrev, HeapStep
  <2>4. QED BY <2>2, <2>3, <1>9, HeapStepInv
            DEF StoreHead, StoreTail, StoreNext, StorePrev, HeapStep
<1>12. CASE RemoveSize(c)
  <2> USE <1>12 DEF RemoveSize
  <2>1. RunningIsCurrent' /\ SwitchAgrees'
    BY ControlStep
  <2>2. Known' = Known /\ Locals' = Locals /\ PidsUnique'
    BY NoCreation
  <2>3. heap.size[Delayed] \in 0 .. SizeMax /\ heap.size[Delayed] \in Nat
    BY <1>1, LoadsType
  <2>4. FramesOK'
    <3>1. /\ loc'[c].walker = t /\ loc'[c].reg = heap.size[Delayed]
          /\ \A d \in Ctx \ {c} : loc'[d] = loc[d]
      BY DEF SchedulerInv, TypeOK, Locals
    <3>2. FrameOK("unlink_store", loc'[c])
      BY <1>4, <2>3, <3>1 DEF FrameOK
    <3>3. QED BY <3>1, <3>2, FrameStep
  <2>5. TypeOK'
    BY <2>2, <2>3 DEF SchedulerInv, TypeOK, Locals
  <2>6. QED BY <2>1, <2>2, <2>4, <2>5 DEF SchedulerInv
<1>13. CASE RemoveStore(c)
  <2> USE <1>13 DEF RemoveStore
  <2>1. RunningIsCurrent' /\ SwitchAgrees'
    BY ControlStep
  <2>2. Known' = Known /\ Locals' = Locals /\ PidsUnique'
    BY NoCreation
  <2>3. FramesOK'
    <3>1. loc'[c].walker = t /\ \A d \in Ctx \ {c} : loc'[d] = loc[d]
      BY DEF SchedulerInv, TypeOK, Locals
    <3>2. FrameOK("wake", loc'[c])
      BY <1>4, <3>1 DEF FrameOK
    <3>3. QED BY <3>1, <3>2, FrameStep
  <2>4. heap' \in HeapOver(Queue, Known)
    <3>1. loc[c].reg \in 0 .. SizeMax
      BY <1>3 DEF FrameOK
    <3>2. [heap EXCEPT !.size[Delayed] = Decr(loc[c].reg)] \in HeapOver(Queue, Known)
      BY <1>1, <3>1, SizesType, StoresType
    <3>3. QED BY <1>1, <1>4, <3>2, StatementsType
  <2>5. loc' \in [Ctx -> Locals]
    <3>1. loc' = [loc EXCEPT ![c] = [loc[c] EXCEPT !.at = NULL, !.val = NULL, !.reg = 0]]
      BY DEF SchedulerInv, TypeOK
    <3>2. [loc[c] EXCEPT !.at = NULL, !.val = NULL, !.reg = 0] \in Locals
      BY <1>1 DEF SchedulerInv, TypeOK, Locals
    <3>3. QED BY <3>1, <3>2 DEF SchedulerInv, TypeOK
  <2>6. TypeOK'
    BY <2>2, <2>4, <2>5 DEF SchedulerInv, TypeOK
  <2>7. QED BY <2>1, <2>2, <2>3, <2>6 DEF SchedulerInv
<1>14. CASE Wake(c)
  <2> USE <1>14 DEF Wake
  <2>1. RunningIsCurrent' /\ SwitchAgrees'
    BY ControlStep
  <2>2. Known' = Known /\ Locals' = Locals /\ PidsUnique'
    BY NoCreation
  <2>3. FramesOK'
    BY FrameStep DEF SchedulerInv, TypeOK, FrameOK
  <2>4. TypeOK'
    BY <1>2, <1>4, <2>2, ReadyType DEF SchedulerInv, TypeOK, Locals
  <2>5. QED BY <2>1, <2>2, <2>3, <2>4 DEF SchedulerInv
<1>15. QED BY <1>5, <1>6, <1>7, <1>8, <1>9, <1>12, <1>13, <1>14
           DEF HandleBlocked

-----------------------------------------------------------------------------
(* The rest of scheduler_tick                                              *)

\* A non-empty set of numbers below N has a largest element.
LEMMA BoundedMax ==
  ASSUME NEW N \in Nat, NEW S \in SUBSET (0 .. N - 1), S # {}
  PROVE  \E m \in S : \A x \in S : x <= m
<1> DEFINE R == {e \in Nat \X Nat : e[1] < e[2]}
           T == {n \in Nat : N - n \in S}
<1>1. IsWellFoundedOn(R, Nat)
  BY NatLessThanWellFounded DEF OpToRel
<1>2. T \subseteq Nat /\ T # {}
  <2>1. PICK x \in S : TRUE
    OBVIOUS
  <2>2. N - x \in Nat /\ N - (N - x) = x
    OBVIOUS
  <2>3. QED BY <2>1, <2>2
<1>3. PICK n \in T : \A k \in T : ~(<<k, n>> \in R)
  <2> HIDE DEF R, T
  <2> QED BY <1>1, <1>2, WFMin
<1>4. \A x \in S : x <= N - n
  <2> TAKE x \in S
  <2>1. N - x \in T
    OBVIOUS
  <2>2. ~(N - x < n)
    BY <1>3, <2>1
  <2>3. QED BY <2>2, <1>3
<1>5. QED BY <1>3, <1>4

\* task_pop_ready finds a priority in a non-empty bitmap, the highest in it.
LEMMA HighestIsReady ==
  ASSUME ready_bitmap \subseteq Priority, ready_bitmap # {}
  PROVE  Highest \in ready_bitmap /\ \A o \in ready_bitmap : o <= Highest
<1>1. \E p \in ready_bitmap : \A o \in ready_bitmap : o <= p
  BY BoundedMax, SchedulerAssumption DEF Priority
<1>2. QED BY <1>1 DEF Highest

LEMMA TickBodyInv ==
  ASSUME SchedulerInv, NEW c \in Ctx, TickBody(c),
         UNCHANGED <<torn, stale>>
  PROVE  SchedulerInv'
<1> USE DEF At, Goto, tcbs, sched, PushLabels, WalkLabels, NextLabels, RunLabels, SwitchLabels, Label,
            KernelLabels
<1>1. NULL \in Known /\ heap \in HeapOver(Queue, Known)
  BY DEF SchedulerInv, TypeOK, Known
<1>2. FrameOK(pc[c], loc[c])
  BY DEF SchedulerInv, FramesOK
<1>3. CASE Requeue(c)
  <2> USE <1>3 DEF Requeue
  <2>1. RunningIsCurrent' /\ SwitchAgrees'
    BY ControlStep
  <2>2. Known' = Known /\ Locals' = Locals /\ PidsUnique'
    BY NoCreation
  <2>3. FramesOK'
    BY FrameStep DEF FrameOK
  <2>4. TypeOK'
    <3>1. CASE cur_task # NULL /\ state[cur_task] = "RUNNING"
      <4>1. cur_task \in Task \intersect Known /\ task_add_ready(cur_task)
        BY <3>1 DEF SchedulerInv, TypeOK, Known, Created
      <4>2. QED BY <2>2, <4>1, ReadyType DEF SchedulerInv, TypeOK
    <3>2. CASE ~(cur_task # NULL /\ state[cur_task] = "RUNNING")
      BY <2>2, <3>2 DEF SchedulerInv, TypeOK
    <3>3. QED BY <3>1, <3>2
  <2>5. QED BY <2>1, <2>2, <2>3, <2>4 DEF SchedulerInv
<1>4. CASE ReadBitmap(c)
  <2> USE <1>4 DEF ReadBitmap
  <2>1. RunningIsCurrent' /\ SwitchAgrees'
    BY ControlStep
  <2>2. Known' = Known /\ Locals' = Locals /\ PidsUnique'
    BY NoCreation
  <2>3. CASE ready_bitmap = {}
    <3>1. FramesOK'
      BY <2>3, FrameStep DEF SchedulerInv, TypeOK, FrameOK
    <3>2. loc' \in [Ctx -> Locals]
      BY <1>1, <2>3 DEF SchedulerInv, TypeOK, Locals
    <3>3. TypeOK'
      BY <2>2, <2>3, <3>2 DEF SchedulerInv, TypeOK
    <3>4. QED BY <2>1, <2>2, <3>1, <3>3 DEF SchedulerInv
  <2>4. CASE ready_bitmap # {}
    <3>1. Highest \in Priority /\ Highest \in Nat
      BY <2>4, HighestIsReady DEF SchedulerInv, TypeOK, Priority
    <3>2. FramesOK'
      <4>1. loc'[c].reg = Highest /\ \A d \in Ctx \ {c} : loc'[d] = loc[d]
        BY <2>4 DEF SchedulerInv, TypeOK, Locals
      <4>2. FrameOK("pop", loc'[c])
        BY <3>1, <4>1 DEF FrameOK
      <4>3. QED BY <2>4, <4>1, <4>2, FrameStep
    <3>3. loc' \in [Ctx -> Locals]
      BY <2>4, <3>1 DEF SchedulerInv, TypeOK, Locals
    <3>4. TypeOK'
      BY <2>2, <2>4, <3>3 DEF SchedulerInv, TypeOK
    <3>5. QED BY <2>1, <2>2, <3>2, <3>4 DEF SchedulerInv
  <2>5. QED BY <2>3, <2>4
<1>5. CASE PopReady(c)
  <2> DEFINE q == Ready(loc[c].reg)
  <2> USE <1>5 DEF PopReady, ClearedIfEmpty
  <2>1. RunningIsCurrent' /\ SwitchAgrees'
    BY ControlStep
  <2>2. Known' = Known /\ Locals' = Locals /\ PidsUnique'
    BY NoCreation
  <2>3. FramesOK'
    BY FrameStep DEF SchedulerInv, TypeOK, FrameOK
  <2>4. q \in Queue
    BY <1>2 DEF FrameOK, Queue
  <2>5. task_pop(heap, q) \in HeapOver(Queue, Known)
    <3>1. CASE heap.head[q] = NULL
      BY <1>1, <3>1 DEF task_pop
    <3>2. CASE heap.head[q] # NULL
      BY <1>1, <2>4, <3>2, LoadsType, OperationsType DEF Known, Created
    <3>3. QED BY <3>1, <3>2
  <2>6. Popped(heap, q) \in Known
    BY <1>1, <2>4, LoadsType DEF Popped
  <2>7. loc' \in [Ctx -> Locals]
    <3> DEFINE u == Popped(heap, q)
    <3>1. loc' = [loc EXCEPT ![c] = [loc[c] EXCEPT !.task = u, !.reg = 0]]
      BY DEF SchedulerInv, TypeOK
    <3>2. u \in Known
      BY <2>6
    <3> HIDE DEF u
    <3>3. [loc[c] EXCEPT !.task = u, !.reg = 0] \in Locals
      BY <3>2 DEF SchedulerInv, TypeOK, Locals
    <3>4. QED BY <3>1, <3>3 DEF SchedulerInv, TypeOK
  <2>8. heap' \in HeapOver(Queue, Known)
    BY <1>1, <2>5
  <2>9. TypeOK'
    BY <2>2, <2>7, <2>8 DEF SchedulerInv, TypeOK, Halts
  <2>10. QED BY <2>1, <2>2, <2>3, <2>9 DEF SchedulerInv
<1>6. CASE Dispatch(c)
  <2> USE <1>6 DEF Dispatch
  <2>1. Known' = Known /\ Locals' = Locals /\ PidsUnique'
    BY NoCreation
  <2>2. Executing' = Executing /\ Running' = Running
    BY SchedulerAssumption DEF SchedulerInv, TypeOK, Executing, Running, Ctx
  <2>3. RunningIsCurrent' /\ SwitchAgrees'
    BY <2>2, SchedulerAssumption
       DEF SchedulerInv, TypeOK, RunningIsCurrent, SwitchAgrees, Executing
  <2>4. FramesOK'
    BY FrameStep DEF SchedulerInv, TypeOK, FrameOK
  <2>5. loc[c].task \in Known
    BY DEF SchedulerInv, TypeOK, Locals
  <2>6. TypeOK'
    BY <2>1, <2>5 DEF SchedulerInv, TypeOK, Halts
  <2>7. QED BY <2>1, <2>3, <2>4, <2>6 DEF SchedulerInv
<1>7. ASSUME NEW from, NEW to \in Label, ReadCurrent(c, from, to),
             <<from, to>> \in {<<"next_load", "next_store">>, <<"run_load", "run_store">>}
      PROVE  SchedulerInv'
  <2> USE <1>7 DEF ReadCurrent
  <2>1. Known' = Known /\ Locals' = Locals /\ PidsUnique'
    BY NoCreation
  <2>2. PICK t \in {cur_task, loc[c].task} : loc' = [loc EXCEPT ![c].task = t]
    OBVIOUS
  <2>3. t \in Known /\ loc' \in [Ctx -> Locals] /\ loc'[c].task = t
        /\ \A d \in Ctx \ {c} : loc'[d] = loc[d]
    BY <2>2 DEF SchedulerInv, TypeOK, Locals
  <2>4. Executing' = Executing /\ Running' = Running
    BY SchedulerAssumption DEF SchedulerInv, TypeOK, Executing, Running, Ctx
  <2>5. RunningIsCurrent'
    BY <2>4, SchedulerAssumption DEF SchedulerInv, TypeOK, RunningIsCurrent, Executing
  <2>6. SwitchAgrees'
    <3>1. CASE from = "next_load"
      <4>1. \A d \in Ctx : pc'[d] \in NextLabels => d = c \/ pc[d] \in NextLabels
        BY <3>1 DEF SchedulerInv, TypeOK
      <4>2. ~stale => loc[c].task = cur_task
        BY <3>1 DEF SchedulerInv, SwitchAgrees
      <4>3. pc'[c] = "next_store"
        BY <3>1 DEF SchedulerInv, TypeOK
      <4>4. QED BY <2>2, <2>3, <2>4, <4>1, <4>2, <4>3 DEF SchedulerInv, SwitchAgrees
    <3>2. CASE from = "run_load"
      <4>1. \A d \in Ctx : pc'[d] \in NextLabels => d # c /\ pc[d] \in NextLabels
        BY <3>2 DEF SchedulerInv, TypeOK
      <4>2. QED BY <2>3, <2>4, <3>2, <4>1 DEF SchedulerInv, SwitchAgrees
    <3>3. QED BY <3>1, <3>2
  <2>7. FramesOK'
    BY <2>3, FrameStep DEF FrameOK
  <2>8. TypeOK'
    BY <2>1, <2>3 DEF SchedulerInv, TypeOK
  <2>9. QED BY <2>1, <2>5, <2>6, <2>7, <2>8 DEF SchedulerInv
<1>8. CASE LoadNext(c) \/ LoadRunning(c)
  BY <1>7, <1>8 DEF LoadNext, LoadRunning
<1>14. CASE StoreNextProcess(c)
  <2> USE <1>14 DEF StoreNextProcess
  <2>1. Known' = Known /\ Locals' = Locals /\ PidsUnique'
    BY NoCreation
  <2>2. Executing' = Executing /\ Running' = Running
    BY SchedulerAssumption DEF SchedulerInv, TypeOK, Executing, Running, Ctx
  <2>3. RunningIsCurrent'
    BY <2>2, SchedulerAssumption DEF SchedulerInv, TypeOK, RunningIsCurrent, Executing
  <2>4. SwitchAgrees'
    <3>1. \A d \in Ctx : pc'[d] \in NextLabels => d # c /\ pc[d] \in NextLabels
      BY DEF SchedulerInv, TypeOK
    <3>2. QED BY <2>2, <3>1 DEF SchedulerInv, SwitchAgrees
  <2>5. FramesOK'
    BY FrameStep DEF SchedulerInv, TypeOK, FrameOK
  <2>6. loc[c].task \in Known
    BY DEF SchedulerInv, TypeOK, Locals
  <2>7. TypeOK'
    BY <2>1, <2>6 DEF SchedulerInv, TypeOK
  <2>8. QED BY <2>1, <2>3, <2>4, <2>5, <2>7 DEF SchedulerInv
<1>15. CASE StoreRunning(c)
  <2> USE <1>15 DEF StoreRunning
  <2>1. RunningIsCurrent' /\ SwitchAgrees'
    BY ControlStep
  <2>2. Known' = Known /\ Locals' = Locals /\ PidsUnique'
    BY NoCreation
  <2>3. FramesOK'
    BY FrameStep DEF SchedulerInv, TypeOK, FrameOK
  <2>4. loc' \in [Ctx -> Locals]
    BY <1>1 DEF SchedulerInv, TypeOK, Locals
  <2>5. TypeOK'
    BY <2>2, <2>4 DEF SchedulerInv, TypeOK, TaskState
  <2>6. QED BY <2>1, <2>2, <2>3, <2>5 DEF SchedulerInv
<1>9. CASE Count(c)
  <2> USE <1>9 DEF Count
  <2>1. RunningIsCurrent' /\ SwitchAgrees'
    BY ControlStep
  <2>2. Known' = Known /\ Locals' = Locals /\ PidsUnique'
    BY NoCreation
  <2>3. sch_ticks \in Tick /\ sch_ticks \in Nat
    BY DEF SchedulerInv, TypeOK, Tick
  <2>4. FramesOK'
    <3>1. loc'[c].reg = sch_ticks /\ \A d \in Ctx \ {c} : loc'[d] = loc[d]
      BY DEF SchedulerInv, TypeOK, Locals
    <3>2. FrameOK("count_store", loc'[c])
      BY <2>3, <3>1 DEF FrameOK
    <3>3. QED BY <3>1, <3>2, FrameStep
  <2>5. TypeOK'
    BY <2>2, <2>3 DEF SchedulerInv, TypeOK, Locals
  <2>6. QED BY <2>1, <2>2, <2>4, <2>5 DEF SchedulerInv
<1>10. CASE CountStore(c)
  <2> USE <1>10 DEF CountStore
  <2>1. RunningIsCurrent' /\ SwitchAgrees'
    BY ControlStep
  <2>2. Known' = Known /\ Locals' = Locals /\ PidsUnique'
    BY NoCreation
  <2>3. FramesOK'
    BY FrameStep DEF SchedulerInv, TypeOK, FrameOK
  <2>4. NextTick(loc[c].reg) \in Tick
    BY <1>2, SchedulerAssumption DEF FrameOK, NextTick, Tick
  <2>5. loc' \in [Ctx -> Locals]
    BY DEF SchedulerInv, TypeOK, Locals
  <2>6. TypeOK'
    BY <2>2, <2>4, <2>5 DEF SchedulerInv, TypeOK
  <2>7. QED BY <2>1, <2>2, <2>3, <2>6 DEF SchedulerInv
<1>11. CASE PendSV(c)
  <2> USE <1>11 DEF PendSV
  <2>1. Known' = Known /\ Locals' = Locals /\ PidsUnique'
    BY NoCreation
  <2>2. /\ ret[c] \in Label
        /\ ret[c] \notin NextLabels \union SwitchLabels \union PushLabels
                         \union WalkLabels \union {"idle", "add_new", "pop"}
    BY SchedulerAssumption DEF SchedulerInv, TypeOK
  <2>3. ~stale => next_process = cur_task /\ \A d \in Ctx : pc[d] \notin NextLabels
    BY DEF SchedulerInv, SwitchAgrees
  <2>4. RunningIsCurrent' /\ SwitchAgrees'
    BY <2>2, <2>3, SchedulerAssumption
       DEF SchedulerInv, TypeOK, RunningIsCurrent, SwitchAgrees, Executing, Running
  <2>5. FramesOK'
    <3> DEFINE l == IF c = Handler THEN "idle" ELSE ret[c]
    <3>1. FrameOK(l, loc'[c])
      BY <2>2 DEF FrameOK
    <3>2. QED BY <3>1, FrameStep
  <2>6. TypeOK'
    BY <2>1, <2>2 DEF SchedulerInv, TypeOK
  <2>7. QED BY <2>1, <2>4, <2>5, <2>6 DEF SchedulerInv
<1>12. QED BY <1>3, <1>4, <1>5, <1>6, <1>8, <1>9, <1>10, <1>11, <1>14, <1>15 DEF TickBody

-----------------------------------------------------------------------------
(* Creating tasks, sleeping and the timer                                  *)

LEMMA CreateInv ==
  ASSUME SchedulerInv, NEW c \in Ctx, NEW t \in Task, task_init(c, t),
         UNCHANGED <<torn, stale>>
  PROVE  SchedulerInv'
<1> USE DEF task_init, MayCreate, At, Goto, sched, PushLabels, WalkLabels,
            NextLabels, RunLabels, SwitchLabels, Label, KernelLabels
<1>1. /\ pc[c] \in {"main", "user"} /\ c = Executing
      /\ pc' = [pc EXCEPT ![c] = "add_new"]
  OBVIOUS
<1>2. Created' = Created \union {t} /\ Known' = Known \union {t} /\ NULL \in Known
  BY DEF SchedulerInv, TypeOK, Created, Known
<1>3. RunningIsCurrent' /\ SwitchAgrees'
  BY <1>1, ControlStep
<1>4. FramesOK'
  <2>1. loc'[c].task = t /\ \A d \in Ctx \ {c} : loc'[d] = loc[d]
    BY DEF SchedulerInv, TypeOK, Locals
  <2>2. FrameOK("add_new", loc'[c])
    BY <2>1 DEF FrameOK
  <2>3. QED BY <1>1, <2>1, <2>2, FrameStep
<1>5. PidsUnique'
  BY <1>2 DEF SchedulerInv, TypeOK, PidsUnique, Created
<1>6. TypeOK'
  <2>1. heap' \in HeapOver(Queue, Known')
    BY <1>2 DEF SchedulerInv, TypeOK, HeapOver, ClearLinks
  <2>2. loc' \in [Ctx -> Locals']
    <3>1. \A r \in Locals : r \in Locals' /\ [r EXCEPT !.task = t] \in Locals'
      BY <1>2 DEF Locals
    <3>2. loc' = [loc EXCEPT ![c] = [loc[c] EXCEPT !.task = t]]
      BY DEF SchedulerInv, TypeOK
    <3> HIDE DEF task_init
    <3>3. QED BY <3>1, <3>2 DEF SchedulerInv, TypeOK
  <2>3. pid' \in [Task -> Nat] /\ next_pid' \in Nat \ {0}
    BY DEF SchedulerInv, TypeOK
  <2>4. state' \in [Task -> TaskState] /\ wake_tick' \in [Task -> Tick]
    BY SchedulerAssumption DEF SchedulerInv, TypeOK, TaskState, Tick
  <2>5. pc' \in [Ctx -> Label]
    BY DEF SchedulerInv, TypeOK
  <2>6. ret' \in [Ctx -> ClientLabels \union {"user", "main"}]
    BY <1>1 DEF SchedulerInv, TypeOK
  <2>7. QED BY <1>2, <2>1, <2>2, <2>3, <2>4, <2>5, <2>6 DEF SchedulerInv, TypeOK
<1>7. QED BY <1>3, <1>4, <1>5, <1>6 DEF SchedulerInv

LEMMA AddNewInv ==
  ASSUME SchedulerInv, NEW c \in Ctx, AddNew(c),
         UNCHANGED <<torn, stale>>
  PROVE  SchedulerInv'
<1> USE DEF AddNew, At, Goto, tcbs, sched, PushLabels, WalkLabels, NextLabels, RunLabels, SwitchLabels,
            Label, KernelLabels
<1>1. ret[c] \in Label \ (NextLabels \union SwitchLabels \union PushLabels
                          \union WalkLabels \union {"idle", "add_new", "pop"})
  BY SchedulerAssumption DEF SchedulerInv, TypeOK
<1>2. RunningIsCurrent' /\ SwitchAgrees'
  BY <1>1, ControlStep
<1>3. Known' = Known /\ Locals' = Locals /\ PidsUnique'
  BY NoCreation
<1>4. FramesOK'
  <2>1. FrameOK(ret[c], loc'[c])
    BY <1>1 DEF FrameOK
  <2>2. \A d \in Ctx \ {c} : loc'[d] = loc[d]
    BY DEF SchedulerInv, TypeOK
  <2>3. QED BY <2>1, <2>2, FrameStep
<1>5. loc[c].task \in Task \intersect Known
  BY DEF SchedulerInv, TypeOK, Locals, FramesOK, FrameOK
<1>6. loc' \in [Ctx -> Locals]
  BY DEF SchedulerInv, TypeOK, Locals, Known
<1>7. TypeOK'
  BY <1>1, <1>3, <1>5, <1>6, ReadyType DEF SchedulerInv, TypeOK
<1>8. QED BY <1>2, <1>3, <1>4, <1>7 DEF SchedulerInv

\* task_block of a known task.
LEMMA BlockType ==
  ASSUME SchedulerInv, NEW t \in Task \intersect Known, NEW s \in TaskState,
         task_block(t, s)
  PROVE  /\ heap' \in HeapOver(Queue, Known)
         /\ state' \in [Task -> TaskState]
         /\ ready_bitmap' \subseteq Priority
         /\ primask' \in BOOLEAN
         /\ halt' \in Halts
<1>1. Ready(Prio[t]) \in Queue /\ NULL \in Known
  BY SchedulerAssumption DEF Queue, Known
<1>2. task_remove(heap, Ready(Prio[t]), t) \in HeapOver(Queue, Known)
  BY <1>1, OperationsType DEF SchedulerInv, TypeOK, Known, Created
<1>3. heap' \in HeapOver(Queue, Known)
  BY <1>2 DEF SchedulerInv, TypeOK, task_block, ClearedIfEmpty
<1>4. QED BY <1>3 DEF SchedulerInv, TypeOK, task_block, ClearedIfEmpty, Halts

\* A task that blocks or sleeps goes on with the unprotected task_push.
LEMMA SleepInv ==
  ASSUME SchedulerInv, NEW c \in Ctx, NEW n \in SleepTicks, task_sleep(c, n),
         UNCHANGED <<torn, stale>>
  PROVE  SchedulerInv'
<1> USE DEF task_sleep, At, Goto, tcbs, sched, frames, PushLabels, WalkLabels,
            NextLabels, RunLabels, SwitchLabels, Label, KernelLabels
<1>1. Known' = Known /\ Locals' = Locals /\ PidsUnique'
  BY NoCreation
<1>2. CASE cur_task = NULL \/ state[cur_task] # "RUNNING"
  <2>1. RunningIsCurrent' /\ SwitchAgrees' /\ FramesOK'
    BY <1>2 DEF SchedulerInv, RunningIsCurrent, SwitchAgrees, Executing, Running,
                FramesOK
  <2>2. TypeOK'
    BY <1>1, <1>2 DEF SchedulerInv, TypeOK, Halts
  <2>3. QED BY <1>1, <2>1, <2>2 DEF SchedulerInv
<1>3. CASE ~(cur_task = NULL \/ state[cur_task] # "RUNNING")
  <2>1. cur_task \in Task \intersect Known
    BY <1>3 DEF SchedulerInv, TypeOK, Known, Created
  <2>2. RunningIsCurrent' /\ SwitchAgrees'
    BY <1>3, ControlStep
  <2>3. FramesOK'
    <3>1. loc'[c].task = cur_task /\ \A d \in Ctx \ {c} : loc'[d] = loc[d]
      BY <1>3 DEF SchedulerInv, TypeOK, Locals
    <3>2. FrameOK("push", loc'[c])
      BY <2>1, <3>1 DEF FrameOK
    <3>3. QED BY <1>3, <3>1, <3>2, FrameStep
  <2>4. WakeTick(n) \in Tick
    BY SchedulerAssumption DEF SchedulerInv, TypeOK, WakeTick, Tick
  <2>5. loc' \in [Ctx -> Locals]
    BY <1>3, <2>1 DEF SchedulerInv, TypeOK, Locals, Queue
  <2>6. task_block(cur_task, "DELAYED") /\ "DELAYED" \in TaskState
    BY <1>3 DEF TaskState
  <2>7. wake_tick' \in [Task -> Tick]
    BY <1>3, <2>4 DEF SchedulerInv, TypeOK
  <2>8. TypeOK'
    BY <1>1, <1>3, <2>1, <2>5, <2>6, <2>7, BlockType DEF SchedulerInv, TypeOK
  <2>9. QED BY <1>1, <2>2, <2>3, <2>8 DEF SchedulerInv
<1>4. QED BY <1>2, <1>3

LEMMA TimerInv ==
  ASSUME SchedulerInv, SysTick \/ (init_systick /\ UNCHANGED ticked)
  PROVE  SchedulerInv'
<1> USE DEF SysTick, init_systick, ticked, At, Goto, tcbs, sched, PushLabels, WalkLabels,
            NextLabels, RunLabels, SwitchLabels, Label, KernelLabels
<1>1. Known' = Known /\ Locals' = Locals /\ PidsUnique'
  BY NoCreation
<1>2. CASE SysTick
  <2>1. RunningIsCurrent' /\ SwitchAgrees'
    BY <1>2 DEF SchedulerInv, TypeOK, RunningIsCurrent, SwitchAgrees, Executing,
                Running, Ctx
  <2>2. FramesOK'
    BY <1>2, FrameStep DEF FrameOK, Ctx
  <2>3. TypeOK'
    BY <1>1, <1>2 DEF SchedulerInv, TypeOK
  <2>4. QED BY <1>1, <2>1, <2>2, <2>3 DEF SchedulerInv
<1>3. CASE init_systick
  <2>1. RunningIsCurrent' /\ SwitchAgrees'
    BY <1>3, ControlStep DEF Ctx
  <2>2. FramesOK'
    BY <1>3, FrameStep DEF FrameOK, Ctx
  <2>3. TypeOK'
    BY <1>1, <1>3 DEF SchedulerInv, TypeOK
  <2>4. QED BY <1>1, <2>1, <2>2, <2>3 DEF SchedulerInv
<1>4. QED BY <1>2, <1>3

-----------------------------------------------------------------------------
(* The invariant                                                           *)

LEMMA InitInv ==
  ASSUME SchedulerInit
  PROVE  SchedulerInv
<1> USE DEF SchedulerInit
<1>1. Created = {} /\ Known = {NULL}
  BY DEF Created, Known
<1>2. heap \in HeapOver(Queue, Known)
  BY <1>1, EmptyHeapType
<1>3. loc \in [Ctx -> Locals]
  BY <1>1 DEF NoLocals, Locals, Queue
<1>4. pc \in [Ctx -> Label]
  BY DEF Label, KernelLabels
<1>5. TypeOK
  <2>1. 0 \in Tick
    BY SchedulerAssumption DEF Tick
  <2>2. /\ state \in [Task -> TaskState] /\ wake_tick \in [Task -> Tick]
        /\ pid \in [Task -> Nat] /\ next_pid \in Nat \ {0}
        /\ ret \in [Ctx -> ClientLabels \union {"user", "main"}]
    BY <2>1 DEF TaskState
  <2>3. QED BY <1>1, <1>2, <1>3, <1>4, <2>1, <2>2 DEF TypeOK, Halts, Label
<1>6. FramesOK /\ RunningIsCurrent /\ SwitchAgrees
  BY SchedulerAssumption
     DEF FramesOK, FrameOK, RunningIsCurrent, SwitchAgrees, Executing, Running, Ctx,
         PushLabels, WalkLabels, NextLabels, RunLabels, SwitchLabels
<1>7. PidsUnique
  BY <1>1 DEF PidsUnique
<1>8. QED BY <1>5, <1>6, <1>7 DEF SchedulerInv

LEMMA StepInv ==
  ASSUME SchedulerInv, NEW c \in Ctx, Step(c),
         UNCHANGED <<torn, stale>>
  PROVE  SchedulerInv'
BY CreateInv, AddNewInv, SleepInv, PushInv, HandleBlockedInv, TickBodyInv
   DEF Step, scheduler_tick

\* What a step of the scheduler does to pc, ret and the pids.
LEMMA StepShape ==
  ASSUME SchedulerInv, NEW c \in Ctx, Step(c)
  PROVE  /\ c = Executing /\ pc[c] \in KernelLabels \union {"user"}
         /\ \E l \in KernelLabels \union {"user", ret[c]} : pc' = [pc EXCEPT ![c] = l]
         /\ \E r \in {"user", "main", ret[c]} : ret' = [ret EXCEPT ![c] = r]
         /\ \/ UNCHANGED <<pid, next_pid>>
            \/ \E t \in Task \ Created :
                 pid' = [pid EXCEPT ![t] = next_pid] /\ next_pid' = next_pid + 1
<1> USE DEF At, Goto, HeapStep, tcbs, sched, frames, KernelLabels, PushLabels,
            WalkLabels, NextLabels, RunLabels, SwitchLabels
<1>r. /\ ret = [ret EXCEPT ![c] = ret[c]]
      /\ pc = [pc EXCEPT ![c] = pc[c]]
  BY DEF SchedulerInv, TypeOK
<1>1. CASE \E t \in Task : task_init(c, t)
  BY <1>1, <1>r DEF task_init, MayCreate
<1>2. CASE AddNew(c)
  BY <1>2, <1>r DEF AddNew
<1>3. CASE \E n \in SleepTicks : task_sleep(c, n)
  BY <1>3, <1>r DEF task_sleep
<1>4. CASE UnprotectedPush(c)
  BY <1>4, <1>r DEF UnprotectedPush, PushClear, PushLink, PushHead, PushNext,
                    PushBack, PushPrev, PushTail, PushSize, PushStore
<1>5. CASE HandleBlocked(c)
  BY <1>5, <1>r DEF HandleBlocked, WalkInit, Walk, Compare, RemoveHead, RemoveTail,
                    RemoveNext, RemovePrev, RemoveTest, StoreHead, StoreTail,
                    StoreNext, StorePrev, RemoveSize, RemoveStore, Wake
<1>6. CASE TickBody(c)
  BY <1>6, <1>r DEF TickBody, Requeue, ReadBitmap, PopReady, Dispatch, LoadNext,
                    LoadRunning, ReadCurrent, StoreNextProcess, StoreRunning,
                    Count, CountStore, PendSV
<1>7. QED BY <1>1, <1>2, <1>3, <1>4, <1>5, <1>6 DEF Step, scheduler_tick

\* Where a call of a context returns to.
LEMMA StepReturns ==
  ASSUME SchedulerInv, NEW c \in Ctx, Step(c)
  PROVE  \/ \E l \in KernelLabels \ {"add_new"} : pc' = [pc EXCEPT ![c] = l] /\ ret' = ret
         \/ /\ pc[c] = "user" \/ (pc[c] = "main" /\ c = Main)
            /\ \E l \in KernelLabels : pc' = [pc EXCEPT ![c] = l]
            /\ ret' = [ret EXCEPT ![c] = pc[c]]
         \/ pc[c] = "add_new" /\ pc' = [pc EXCEPT ![c] = ret[c]] /\ ret' = ret
         \/ /\ pc' = [pc EXCEPT ![c] = IF c = Handler THEN "idle" ELSE ret[c]]
            /\ ret' = [ret EXCEPT ![c] = "user"]
         \/ pc' = pc /\ ret' = ret
<1>1. CASE \E t \in Task : task_init(c, t)
  <2>1. PICK t \in Task : task_init(c, t)
    BY <1>1
  <2>2. pc' = [pc EXCEPT ![c] = "add_new"] /\ ret' = [ret EXCEPT ![c] = pc[c]]
    BY <2>1 DEF task_init, Goto
  <2>3. pc[c] = "user" \/ (pc[c] = "main" /\ c = Main)
    BY <2>1 DEF task_init, MayCreate, At
  <2>4. "add_new" \in KernelLabels
    BY DEF KernelLabels
  <2> QED BY <2>2, <2>3, <2>4
<1>2. CASE AddNew(c)
  BY <1>2 DEF AddNew, At, Goto
<1>3. CASE \E n \in SleepTicks : task_sleep(c, n)
  <2>1. PICK n \in SleepTicks : task_sleep(c, n)
    BY <1>3
  <2>2. pc[c] = "user"
    BY <2>1 DEF task_sleep, At
  <2>3. \/ pc' = [pc EXCEPT ![c] = "push"] /\ ret' = [ret EXCEPT ![c] = "user"]
        \/ pc' = pc /\ ret' = ret
    BY <2>1 DEF task_sleep, Goto, frames
  <2>4. "push" \in KernelLabels
    BY DEF KernelLabels, PushLabels
  <2>5. CASE pc' = [pc EXCEPT ![c] = "push"] /\ ret' = [ret EXCEPT ![c] = "user"]
    <3>1. ret' = [ret EXCEPT ![c] = pc[c]]
      BY <2>2, <2>5
    <3> QED BY <2>2, <2>4, <2>5, <3>1
  <2> QED BY <2>3, <2>5
<1> USE DEF At, Goto, HeapStep, KernelLabels, PushLabels, WalkLabels, NextLabels, RunLabels, SwitchLabels
<1>4. CASE UnprotectedPush(c)
  BY <1>4 DEF UnprotectedPush, PushClear, PushLink, PushHead, PushNext,
              PushBack, PushPrev, PushTail, PushSize, PushStore
<1>5. CASE HandleBlocked(c)
  BY <1>5 DEF HandleBlocked, WalkInit, Walk, Compare, RemoveHead, RemoveTail, RemoveNext, RemovePrev, RemoveTest, StoreHead, StoreTail, StoreNext, StorePrev, RemoveSize, RemoveStore, Wake
<1>6. CASE TickBody(c)
  BY <1>6 DEF TickBody, Requeue, ReadBitmap, PopReady, Dispatch, LoadNext,
                    LoadRunning, ReadCurrent, StoreNextProcess, StoreRunning,
                    Count, CountStore, PendSV
<1> QED BY <1>1, <1>2, <1>3, <1>4, <1>5, <1>6 DEF Step, scheduler_tick

\* The scheduler itself blocks no task.
LEMMA StepBlocksNone ==
  ASSUME SchedulerInv, NEW c \in Ctx, Step(c), NEW t \in Task, state'[t] = "BLOCKED"
  PROVE  state[t] = "BLOCKED"
<1> USE DEF SchedulerInv, TypeOK, HeapStep, tcbs, task_add_ready, ReadyFrom, task_block
<1>1. CASE \E u \in Task : task_init(c, u)
  BY <1>1 DEF task_init
<1>2. CASE AddNew(c)
  BY <1>2 DEF AddNew
<1>3. CASE \E n \in SleepTicks : task_sleep(c, n)
  BY <1>3 DEF task_sleep
<1>4. CASE UnprotectedPush(c)
  BY <1>4 DEF UnprotectedPush, PushClear, PushLink, PushHead, PushNext,
              PushBack, PushPrev, PushTail, PushSize, PushStore
<1>5. CASE HandleBlocked(c)
  BY <1>5 DEF HandleBlocked, WalkInit, Walk, Compare, RemoveHead, RemoveTail, RemoveNext, RemovePrev, RemoveTest, StoreHead, StoreTail, StoreNext, StorePrev, RemoveSize, RemoveStore, Wake
<1>6. CASE TickBody(c)
  BY <1>6 DEF TickBody, Requeue, ReadBitmap, PopReady, Dispatch, LoadNext,
                    LoadRunning, ReadCurrent, StoreNextProcess, StoreRunning,
                    Count, CountStore, PendSV
<1> QED BY <1>1, <1>2, <1>3, <1>4, <1>5, <1>6 DEF Step, scheduler_tick

LEMMA StutterInv ==
  ASSUME SchedulerInv, UNCHANGED <<svars, ticked>>
  PROVE  SchedulerInv'
BY DEF SchedulerInv, svars, ticked, tcbs, sched, frames, TypeOK, FramesOK, PidsUnique,
       RunningIsCurrent, SwitchAgrees, Executing, Running, Created, Known, Locals

\* The inductive invariant holds for every interleaving of ticks and tasks.
THEOREM SchedulerInvariant == SchedulerSpec => []SchedulerInv
<1>1. SchedulerInit => SchedulerInv
  BY InitInv
<1>2. SchedulerInv /\ [SchedulerNext]_<<svars, ticked>> => SchedulerInv'
  BY TimerInv, StepInv, StutterInv DEF SchedulerNext, SchedulerCode, ticked
<1>3. QED BY <1>1, <1>2, PTL DEF SchedulerSpec

\* No pointer of the kernel, in memory or in a register of a preempted task,
\* ever leads to a TCB that was not created, and all fields keep their types.
THEOREM TypeCorrect == SchedulerSpec => []TypeOK
<1>1. SchedulerInv => TypeOK
  BY DEF SchedulerInv
<1>2. QED BY <1>1, SchedulerInvariant, PTL

\* cur_task is the task that executes, wherever ticks fall in scheduler_tick, but
\* between the load of cur_task and the store of next_process: get_running_pid
\* and get_cur_task name their caller.
THEOREM CurrentTaskIsCaller == SchedulerSpec => []RunningIsCurrent
<1>1. SchedulerInv => RunningIsCurrent
  BY DEF SchedulerInv
<1>2. QED BY <1>1, SchedulerInvariant, PTL

-----------------------------------------------------------------------------
(* ready_bitmap, wherever ticks fall.                                      *)

\* No ready list counts as many tasks as its uint8_t size can.
ReadyListsCount == \A p \in Priority : heap.size[Ready(p)] # SizeMax

\* A task_push that runs with interrupts enabled is not on a ready list.
PushesElsewhere == \A c \in Ctx : loc[c].list = Delayed

BitmapInv == SchedulerInv /\ PushesElsewhere /\ BitmapMatches

\* What the operations do to the sizes.
LEMMA PushedSizes ==
  ASSUME NEW P, NEW h \in HeapOver(Queue, P), NEW q \in Queue, NEW t \in Task
  PROVE  task_push(h, q, t).size = [h.size EXCEPT ![q] = Incr(h.size[q])]
BY DEF HeapOver, ClearLinks, task_push, LinkLast, LinkBack, SetTail

LEMMA RemovedSizes ==
  ASSUME NEW P, NEW h \in HeapOver(Queue, P), NEW q \in Queue, NEW t \in Task
  PROVE  task_remove(h, q, t).size = [h.size EXCEPT ![q] = Decr(h.size[q])]
BY DEF HeapOver, ClearLinks, task_remove, UnlinkHead, UnlinkTail, UnlinkNext, UnlinkPrev

LEMMA PoppedSizes ==
  ASSUME NEW P, NEW h \in HeapOver(Queue, P), NEW q \in Queue
  PROVE  task_pop(h, q).size = IF h.head[q] = NULL THEN h.size
                                 ELSE [h.size EXCEPT ![q] = Decr(h.size[q])]
BY DEF HeapOver, ClearLinks, task_pop

LEMMA ClearedSizes ==
  ASSUME NEW P, NEW h \in HeapOver(Queue, P), NEW t
  PROVE  ClearLinks(h, t).size = h.size
BY DEF HeapOver, ClearLinks

\* A step that leaves the sizes of the ready lists and the bitmap alone.
LEMMA SameBits ==
  ASSUME BitmapMatches, UNCHANGED ready_bitmap,
         \A p \in Priority : heap'.size[Ready(p)] = heap.size[Ready(p)]
  PROVE  BitmapMatches'
BY DEF BitmapMatches

\* task_add_ready sets the bit of the list that is then not empty.
LEMMA ReadyBits ==
  ASSUME BitmapInv, ReadyListsCount, NEW t \in Task, task_add_ready(t)
  PROVE  BitmapMatches'
<1> DEFINE q == Ready(Prio[t])
<1>1. Prio[t] \in Priority /\ q \in Queue /\ heap \in HeapOver(Queue, Known)
  BY SchedulerAssumption DEF BitmapInv, SchedulerInv, TypeOK, Queue
<1>2. heap' = task_push(heap, q, t) /\ ready_bitmap' = ready_bitmap \union {Prio[t]}
  BY DEF task_add_ready, ReadyFrom
<1>q. \A p \in Priority \ {Prio[t]} : Ready(p) # q
  BY DEF Ready
<1> HIDE DEF q
<1>3. heap'.size = [heap.size EXCEPT ![q] = Incr(heap.size[q])]
  <2>1. task_push(heap, q, t).size = [heap.size EXCEPT ![q] = Incr(heap.size[q])]
    BY <1>1, PushedSizes
  <2> QED BY <1>2, <2>1
<1>4. heap.size \in [Queue -> 0 .. SizeMax] /\ heap.size[q] # SizeMax
  BY <1>1 DEF HeapOver, ReadyListsCount, q
<1>5. Incr(heap.size[q]) # 0
  BY <1>1, <1>4, TaskQueueAssumption DEF Incr
<1>6. ASSUME NEW p \in Priority PROVE (p \in ready_bitmap <=> heap.size[Ready(p)] # 0)'
  <2>1. CASE p = Prio[t]
    BY <1>1, <1>2, <1>3, <1>4, <1>5, <2>1 DEF q
  <2>2. CASE p # Prio[t]
    <3>1. Ready(p) \in Queue /\ Ready(p) # q
      BY <1>q, <2>2 DEF Queue
    <3>2. heap'.size[Ready(p)] = heap.size[Ready(p)]
      BY <1>3, <1>4, <3>1
    <3> QED BY <1>2, <2>2, <3>2 DEF BitmapInv, BitmapMatches
  <2> QED BY <2>1, <2>2
<1> QED BY <1>6 DEF BitmapMatches

\* The heap g of a step that may have taken a task from the ready list of priority p.
LEMMA ClearedBits ==
  ASSUME BitmapInv, NEW p \in Priority, NEW g, heap' = g,
         \A o \in Priority \ {p} : g.size[Ready(o)] = heap.size[Ready(o)],
         g.size[Ready(p)] # 0 => heap.size[Ready(p)] # 0,
         ready_bitmap' = ClearedIfEmpty(g, p)
  PROVE  BitmapMatches'
BY DEF BitmapInv, BitmapMatches, ClearedIfEmpty

LEMMA BlockBits ==
  ASSUME BitmapInv, NEW t \in Task, NEW s, task_block(t, s)
  PROVE  BitmapMatches'
<1> DEFINE q    == Ready(Prio[t])
           left == task_remove(heap, q, t)
<1>1. Prio[t] \in Priority /\ q \in Queue /\ heap \in HeapOver(Queue, Known)
  BY SchedulerAssumption DEF BitmapInv, SchedulerInv, TypeOK, Queue
<1>q. \A p \in Priority \ {Prio[t]} : Ready(p) # q /\ Ready(p) \in Queue
  BY DEF Ready, Queue
<1>2. CASE state[t] = "READY" /\ heap.size[q] # 0
  <2>1. heap' = left /\ ready_bitmap' = ClearedIfEmpty(left, Prio[t])
    BY <1>2 DEF task_block
  <2> HIDE DEF q
  <2>2. left.size = [heap.size EXCEPT ![q] = Decr(heap.size[q])]
    BY <1>1, RemovedSizes
  <2>3. \A o \in Priority \ {Prio[t]} : left.size[Ready(o)] = heap.size[Ready(o)]
    BY <1>1, <1>q, <2>2 DEF HeapOver
  <2> USE DEF q
  <2> QED BY <1>1, <1>2, <2>1, <2>3, ClearedBits
<1>3. CASE ~(state[t] = "READY" /\ heap.size[q] # 0)
  <2>1. UNCHANGED <<heap, ready_bitmap>>
    BY <1>3 DEF task_block
  <2> QED BY <2>1, SameBits DEF BitmapInv
<1> QED BY <1>2, <1>3

LEMMA PopBits ==
  ASSUME BitmapInv, ReadyListsCount', NEW c \in Ctx, PopReady(c)
  PROVE  BitmapMatches'
<1> DEFINE p    == loc[c].reg
           q    == Ready(p)
           left == IF PopsNothing(heap, q) THEN heap ELSE task_pop(heap, q)
<1>1. p \in Priority /\ q \in Queue /\ heap \in HeapOver(Queue, Known)
  BY DEF PopReady, At, BitmapInv, SchedulerInv, TypeOK, FramesOK, FrameOK, Queue
<1>q. \A o \in Priority \ {p} : Ready(o) # q /\ Ready(o) \in Queue
  BY DEF Ready, Queue
<1>2. heap' = left /\ ready_bitmap' = ClearedIfEmpty(left, p)
  BY DEF PopReady
<1>3. CASE heap.head[q] = NULL
  <2>1. left = heap
    BY <1>3 DEF task_pop
  <2> QED BY <1>1, <1>2, <2>1, ClearedBits
<1>4. CASE heap.head[q] # NULL
  <2>1. left.size = [heap.size EXCEPT ![q] = Decr(heap.size[q])]
    BY <1>1, <1>4, PoppedSizes DEF PopsNothing
  <2>2. \A o \in Priority \ {p} : left.size[Ready(o)] = heap.size[Ready(o)]
    <3> HIDE DEF left, q
    <3> QED BY <1>1, <1>q, <2>1 DEF HeapOver
  <2>3. heap.size[q] # 0
    BY <1>1, <1>2, <2>1, TaskQueueAssumption DEF ReadyListsCount, Decr, HeapOver
  <2> QED BY <1>1, <1>2, <2>2, <2>3, ClearedBits
<1> QED BY <1>3, <1>4

LEMMA StepBits ==
  ASSUME BitmapInv, ReadyListsCount, ReadyListsCount', NEW c \in Ctx, Step(c)
  PROVE  BitmapMatches'
<1> DEFINE Same == /\ UNCHANGED ready_bitmap
                   /\ \A p \in Priority : heap'.size[Ready(p)] = heap.size[Ready(p)]
<1>1. Same => BitmapMatches'
  BY SameBits DEF BitmapInv
<1>2. /\ heap \in HeapOver(Queue, Known) /\ loc[c].list = Delayed /\ Delayed \in Queue
      /\ \A p \in Priority : Ready(p) # Delayed
      /\ \A t : ClearLinks(heap, t).size = heap.size
  BY ClearedSizes DEF BitmapInv, SchedulerInv, TypeOK, PushesElsewhere, Queue, Ready, Delayed
<1>3. CASE \E t \in Task : task_init(c, t)
  <2>1. Same
    BY <1>2, <1>3 DEF task_init, sched
  <2> QED BY <1>1, <2>1
<1>4. CASE AddNew(c)
  <2>1. loc[c].task \in Task
    BY <1>4 DEF AddNew, At, BitmapInv, SchedulerInv, FramesOK, FrameOK
  <2> QED BY <1>4, <2>1, ReadyBits DEF AddNew
<1>5. CASE \E n \in SleepTicks : task_sleep(c, n)
  <2>1. CASE cur_task = NULL \/ state[cur_task] # "RUNNING"
    <3>1. Same
      BY <1>5, <2>1 DEF task_sleep, sched
    <3> QED BY <1>1, <3>1
  <2>2. CASE ~(cur_task = NULL \/ state[cur_task] # "RUNNING")
    <3>1. task_block(cur_task, "DELAYED")
      BY <1>5, <2>2 DEF task_sleep
    <3>2. cur_task \in Task
      BY <2>2 DEF BitmapInv, SchedulerInv, TypeOK, Known, Created
    <3> QED BY <3>1, <3>2, BlockBits
  <2> QED BY <2>1, <2>2
<1>6. CASE UnprotectedPush(c)
  <2>1. CASE PushClear(c)
    <3>1. Same
      BY <1>2, <2>1 DEF PushClear, HeapStep, sched
    <3> QED BY <1>1, <3>1
  <2>2. CASE PushLink(c) \/ PushBack(c) \/ PushSize(c)
    <3>1. Same
      BY <2>2 DEF PushLink, PushBack, PushSize, sched
    <3> QED BY <1>1, <3>1
  <2>3. CASE PushHead(c) \/ PushNext(c) \/ PushPrev(c) \/ PushTail(c)
    <3>1. heap'.size = heap.size /\ UNCHANGED ready_bitmap
      BY <1>2, <2>3 DEF PushHead, PushNext, PushPrev, PushTail, SetTail, HeapStep, sched, HeapOver
    <3> QED BY <1>1, <3>1
  <2>4. CASE PushStore(c)
    <3>1. /\ heap'.size = [heap.size EXCEPT ![Delayed] = Incr(loc[c].reg)]
          /\ UNCHANGED ready_bitmap
      BY <1>2, <2>4 DEF PushStore, sched, HeapOver
    <3>2. Same
      BY <1>2, <3>1 DEF HeapOver, Queue
    <3> QED BY <1>1, <3>2
  <2> QED BY <1>6, <2>1, <2>2, <2>3, <2>4 DEF UnprotectedPush
<1>7. CASE HandleBlocked(c) /\ ~Wake(c)
  <2>1. CASE \/ WalkInit(c) \/ Walk(c) \/ Compare(c) \/ RemoveHead(c) \/ RemoveTail(c)
             \/ RemoveNext(c) \/ RemovePrev(c) \/ RemoveSize(c)
    <3>1. Same
      BY <2>1 DEF WalkInit, Walk, Compare, RemoveHead, RemoveTail, RemoveNext, RemovePrev,
                  RemoveTest, RemoveSize, sched
    <3> QED BY <1>1, <3>1
  <2>2. CASE StoreHead(c) \/ StoreTail(c) \/ StoreNext(c) \/ StorePrev(c)
    <3>1. heap'.size = heap.size /\ UNCHANGED ready_bitmap
      BY <1>2, <2>2 DEF StoreHead, StoreTail, StoreNext, StorePrev, HeapStep, sched, HeapOver
    <3> QED BY <1>1, <3>1
  <2>3. CASE RemoveStore(c)
    <3> DEFINE g == [heap EXCEPT !.size[Delayed] = Decr(loc[c].reg)]
    <3>1. /\ g.size = [heap.size EXCEPT ![Delayed] = Decr(loc[c].reg)]
          /\ heap' = ClearLinks(g, loc[c].walker) /\ UNCHANGED ready_bitmap
      BY <1>2, <2>3 DEF RemoveStore, sched, HeapOver
    <3>2. heap'.size = g.size
      BY <1>2, <3>1 DEF ClearLinks, HeapOver
    <3>3. Same
      BY <1>2, <3>1, <3>2 DEF HeapOver, Queue
    <3> QED BY <1>1, <3>3
  <2> QED BY <1>7, <2>1, <2>2, <2>3 DEF HandleBlocked
<1>8. CASE Wake(c)
  <2>1. loc[c].walker \in Task
    BY <1>8 DEF Wake, At, BitmapInv, SchedulerInv, FramesOK, FrameOK, WalkLabels
  <2> QED BY <1>8, <2>1, ReadyBits DEF Wake
<1>9. CASE Requeue(c)
  <2>1. CASE cur_task # NULL /\ state[cur_task] = "RUNNING"
    <3>1. cur_task \in Task /\ task_add_ready(cur_task)
      BY <1>9, <2>1 DEF Requeue, BitmapInv, SchedulerInv, TypeOK, Known, Created
    <3> QED BY <3>1, ReadyBits
  <2>2. CASE ~(cur_task # NULL /\ state[cur_task] = "RUNNING")
    <3>1. Same
      BY <1>9, <2>2 DEF Requeue
    <3> QED BY <1>1, <3>1
  <2> QED BY <2>1, <2>2
<1>10. CASE PopReady(c)
  BY <1>10, PopBits
<1>11. CASE TickBody(c) /\ ~Requeue(c) /\ ~PopReady(c)
  <2>1. Same
    BY <1>11 DEF TickBody, ReadBitmap, Dispatch, LoadNext, LoadRunning, ReadCurrent,
                 StoreNextProcess, StoreRunning, Count, CountStore, PendSV, sched
  <2> QED BY <1>1, <2>1
<1> QED BY <1>3, <1>4, <1>5, <1>6, <1>7, <1>8, <1>9, <1>10, <1>11 DEF Step, scheduler_tick

LEMMA StepElsewhere ==
  ASSUME BitmapInv, NEW c \in Ctx, Step(c)
  PROVE  PushesElsewhere'
<1> USE DEF At, Goto, HeapStep, frames
<1>1. loc \in [Ctx -> Locals] /\ \A d \in Ctx : loc[d].list = Delayed
  BY DEF BitmapInv, SchedulerInv, TypeOK, PushesElsewhere
<1>2. CASE \E t \in Task : task_init(c, t)
  BY <1>1, <1>2 DEF task_init, Locals, PushesElsewhere
<1>3. CASE AddNew(c)
  BY <1>1, <1>3 DEF AddNew, Locals, PushesElsewhere
<1>4. CASE \E n \in SleepTicks : task_sleep(c, n)
  BY <1>1, <1>4 DEF task_sleep, Locals, PushesElsewhere
<1>5. CASE UnprotectedPush(c)
  BY <1>1, <1>5 DEF UnprotectedPush, PushClear, PushLink, PushHead, PushNext, PushBack,
     PushPrev, PushTail, PushSize, PushStore, NoLocals, Locals, PushesElsewhere
<1>6. CASE HandleBlocked(c)
  BY <1>1, <1>6 DEF HandleBlocked, WalkInit, Walk, Compare, RemoveHead, RemoveTail,
     RemoveNext, RemovePrev, RemoveTest, StoreHead, StoreTail, StoreNext, StorePrev,
     RemoveSize, RemoveStore, Wake, Locals, PushesElsewhere
<1>7. CASE TickBody(c)
  BY <1>1, <1>7 DEF TickBody, Requeue, ReadBitmap, PopReady, Dispatch, LoadNext,
     LoadRunning, ReadCurrent, StoreNextProcess, StoreRunning, Count, CountStore, PendSV,
     Locals, PushesElsewhere
<1> QED BY <1>2, <1>3, <1>4, <1>5, <1>6, <1>7 DEF Step, scheduler_tick

\* ready_bitmap is the set of the priorities whose ready list counts a task, wherever
\* ticks fall, as long as no size of a ready list wraps: with links that a torn
\* operation has left, task_pop can take a task from a list of size 0.
THEOREM BitmapIsExact == SchedulerSpec /\ []ReadyListsCount => []BitmapMatches
<1>1. SchedulerInit => BitmapInv
  <2>1. SchedulerInit => PushesElsewhere
    BY DEF SchedulerInit, PushesElsewhere, NoLocals
  <2>2. SchedulerInit => BitmapMatches
    BY DEF SchedulerInit, BitmapMatches, EmptyHeap, Queue
  <2> QED BY <2>1, <2>2, InitInv DEF BitmapInv
<1>2. BitmapInv /\ ReadyListsCount /\ ReadyListsCount' /\ [SchedulerNext]_<<svars, ticked>>
        => BitmapInv'
  <2> SUFFICES ASSUME BitmapInv, ReadyListsCount, ReadyListsCount',
                      [SchedulerNext]_<<svars, ticked>>
               PROVE  BitmapInv'
    OBVIOUS
  <2>1. SchedulerInv'
    BY TimerInv, StepInv, StutterInv DEF BitmapInv, SchedulerNext, SchedulerCode, ticked
  <2>2. CASE \E c \in Ctx : Step(c)
    BY <2>1, <2>2, StepBits, StepElsewhere DEF BitmapInv
  <2>3. CASE SysTick \/ init_systick \/ UNCHANGED <<svars, ticked>>
    <3>1. UNCHANGED <<heap, ready_bitmap, loc>>
      BY <2>3 DEF SysTick, init_systick, svars, sched, frames
    <3>2. BitmapMatches' /\ PushesElsewhere'
      BY <3>1 DEF BitmapInv, BitmapMatches, PushesElsewhere
    <3> QED BY <2>1, <3>2 DEF BitmapInv
  <2> QED BY <2>2, <2>3 DEF SchedulerNext, SchedulerCode
<1>3. BitmapInv => BitmapMatches
  BY DEF BitmapInv
<1> QED BY <1>1, <1>2, <1>3, PTL DEF SchedulerSpec

-----------------------------------------------------------------------------
(* Where the tasks are, until a tick hits a critical section.              *)

\* Home for the task states s.
HomeIn(s, t) == CASE s[t] = "READY"   -> {Ready(Prio[t])}
                  [] s[t] = "DELAYED" -> {Delayed}
                  [] s[t] = "BLOCKED" -> WaitLists
                  [] OTHER            -> {}

\* The queues hold the sequences c: each of the tasks T that is not one of the
\* tasks m on the move is in the queue that its state names, and no other is.
Listed(c, m, s, T) ==
  /\ \A q \in Queue : \A t \in Elements(c[q]) : t \in T \ m /\ q \in HomeIn(s, t)
  /\ \A t \in T \ m : HomeIn(s, t) # {} => \E q \in Queue : t \in Elements(c[q])

\* What task_push and task_remove have made of the heap h when the context with
\* the registers r is at label l.
Half(l, r, h) ==
  LET q      == r.list
      t      == r.task
      w      == r.walker
      linked == LinkLast(ClearLinks(h, t), q, t)
      backed == IF h.size[q] = 0 THEN linked ELSE LinkBack(linked, q, t)
      ends   == UnlinkTail(UnlinkHead(h, Delayed, w), Delayed, w)
  IN  CASE l \in {"push_link", "push_head", "push_next"} -> ClearLinks(h, t)
        [] l \in {"push_back", "push_prev"}     -> linked
        [] l = "push_tail"                      -> backed
        [] l \in {"push_size", "push_store"}    -> SetTail(backed, q, t)
        [] l \in {"unlink_tail", "store_tail"}  -> UnlinkHead(h, Delayed, w)
        [] l \in {"unlink_next", "store_next"}  -> ends
        [] l \in {"unlink_prev", "store_prev"}  -> UnlinkNext(ends, w)
        [] l \in {"unlink_size", "unlink_store"} -> UnlinkPrev(UnlinkNext(ends, w), w)
        [] OTHER                                 -> h

\* The task that is in no list, though its state names one, or will.
Moving(l, r, cur) ==
  CASE l \in PushLabels \union {"dispatch"} -> {r.task}
    [] l = "wake"                           -> {r.walker}
    [] l \in NextLabels \union RunLabels     -> {cur}
    [] OTHER                                -> {}

\* What a context at label l knows of the heap h with the delayed tasks D.
WalkOK(l, r, h, D) ==
  /\ l = "walk" => r.walker \in D \union {NULL}
  /\ l \in WalkLabels \ {"walk", "wake"} => r.walker \in D /\ r.next = h.next[r.walker]
  /\ l = "wake" => r.next \in D \union {NULL}
  /\ l = "push_head" => h.size[r.list] = 0
  /\ l \in {"push_next", "push_back", "push_prev"} => h.size[r.list] # 0
  /\ l \in {"push_next", "push_prev"} => r.at = h.tail[r.list]
  /\ l = "push_store" => r.reg = h.size[r.list]
  /\ l = "unlink_store" => r.reg = h.size[Delayed]
  /\ l = "store_head" => h.head[Delayed] = r.walker /\ r.val = h.next[r.walker]
  /\ l = "store_tail" => h.tail[Delayed] = r.walker /\ r.val = h.prev[r.walker]
  /\ l \in {"store_next", "store_prev"} => r.at # NULL
  /\ l = "store_next" => r.at = h.prev[r.walker] /\ r.val = h.next[r.walker]
  /\ l = "store_prev" => r.at = h.next[r.walker] /\ r.val = h.prev[r.walker]

-----------------------------------------------------------------------------
(* Facts about queues and lists.                                           *)

LEMMA QueueKinds ==
  /\ \A p \in Priority : Ready(p) \in Queue /\ Ready(p) # Delayed /\ Ready(p) \notin WaitLists
  /\ \A p, o \in Priority : Ready(p) = Ready(o) => p = o
  /\ Delayed \in Queue /\ Delayed \notin WaitLists /\ WaitLists \subseteq Queue
  /\ \A t \in Task : Prio[t] \in Priority
<1>1. \A p, o : Ready(p) = Ready(o) => p = o
  BY DEF Ready
<1>2. \A p : Ready(p) # Delayed
  BY DEF Ready, Delayed
<1> QED BY <1>1, <1>2, SchedulerAssumption DEF Queue

LEMMA HomeKinds ==
  ASSUME NEW s, NEW t \in Task, NEW q \in HomeIn(s, t)
  PROVE  /\ q \in Queue
         /\ \A p \in Priority : q = Ready(p) => s[t] = "READY" /\ p = Prio[t]
         /\ q = Delayed => s[t] = "DELAYED"
<1>1. CASE s[t] = "READY"
  BY <1>1, QueueKinds DEF HomeIn
<1>2. CASE s[t] = "DELAYED"
  BY <1>2, QueueKinds DEF HomeIn
<1>3. CASE s[t] = "BLOCKED"
  BY <1>3, QueueKinds DEF HomeIn
<1>4. CASE s[t] \notin {"READY", "DELAYED", "BLOCKED"}
  BY <1>4 DEF HomeIn
<1> QED BY <1>1, <1>2, <1>3, <1>4

\* No queue is home to two kinds of tasks.
LEMMA OneHome ==
  ASSUME NEW s, NEW t \in Task
  PROVE  /\ s[t] = "READY" => HomeIn(s, t) = {Ready(Prio[t])}
         /\ s[t] = "DELAYED" => HomeIn(s, t) = {Delayed}
         /\ s[t] = "BLOCKED" => HomeIn(s, t) = WaitLists
         /\ s[t] \notin {"READY", "DELAYED", "BLOCKED"} => HomeIn(s, t) = {}
BY DEF HomeIn

\* A task is put at the end of the queue its new state names.
LEMMA ListedAppend ==
  ASSUME NEW c \in [Queue -> Seq(Task)], NEW m, NEW s, NEW s2, NEW T \in SUBSET Task,
         Listed(c, m, s, T), NEW t \in T, NEW q \in Queue,
         \A q2 \in Queue : t \notin Elements(c[q2]),
         m \subseteq {t}, \A u \in Task \ {t} : s2[u] = s[u],
         q \in HomeIn(s2, t)
  PROVE  Listed([c EXCEPT ![q] = Append(@, t)], {}, s2, T)
<1> DEFINE d == [c EXCEPT ![q] = Append(@, t)]
<1>1. Elements(d[q]) = Elements(c[q]) \union {t}
      /\ \A o \in Queue \ {q} : d[o] = c[o]
  BY AppendElements
<1>2. \A u \in Task \ {t} : HomeIn(s2, u) = HomeIn(s, u)
  BY DEF HomeIn
<1> HIDE DEF d
<1>3. ASSUME NEW o \in Queue, NEW u \in Elements(d[o])
      PROVE  u \in T /\ o \in HomeIn(s2, u)
  <2>1. CASE u = t
    <3>1. o = q
      BY <1>1, <2>1
    <3> QED BY <2>1, <3>1
  <2>2. CASE u # t
    <3>1. u \in Elements(c[o])
      BY <1>1, <2>2
    <3> QED BY <1>2, <2>2, <3>1 DEF Listed
  <2> QED BY <2>1, <2>2
<1>4. ASSUME NEW u \in T, HomeIn(s2, u) # {}
      PROVE  \E o \in Queue : u \in Elements(d[o])
  <2>1. CASE u = t
    BY <1>1, <2>1
  <2>2. CASE u # t
    <3>1. PICK o \in Queue : u \in Elements(c[o])
      BY <1>2, <1>4, <2>2 DEF Listed
    <3> QED BY <1>1, <3>1
  <2> QED BY <2>1, <2>2
<1>5. Listed(d, {}, s2, T)
  BY <1>3, <1>4 DEF Listed
<1> QED BY <1>5 DEF d

\* A task is taken out of its queue and is on the move.
LEMMA ListedWithout ==
  ASSUME NEW h, NEW c, NEW s, NEW T \in SUBSET Task,
         Lists(h, Queue, c), Listed(c, {}, s, T),
         NEW q \in Queue, NEW k \in 1 .. Len(c[q])
  PROVE  /\ Listed([c EXCEPT ![q] = Without(@, k)], {c[q][k]}, s, T)
         /\ c[q][k] \in T /\ q \in HomeIn(s, c[q][k])
<1> DEFINE t == c[q][k]
           d == [c EXCEPT ![q] = Without(@, k)]
<1>1. /\ c \in [Queue -> Seq(Task)] /\ c[q] \in Seq(Task)
      /\ \A i, j \in 1 .. Len(c[q]) : c[q][i] = c[q][j] => i = j
      /\ t \in Elements(c[q])
  BY DEF Lists, Disjoint, Elements
<1>2. /\ Elements(d[q]) = Elements(c[q]) \ {t} /\ Without(c[q], k) \in Seq(Task)
      /\ \A o \in Queue \ {q} : d[o] = c[o]
  BY <1>1, WithoutElements, WithoutTask
<1>4. \A o \in Queue \ {q} : t \notin Elements(c[o])
  BY DEF Lists, Disjoint, Elements
<1>5. \A o \in Queue : Elements(d[o]) = Elements(c[o]) \ {t}
  BY <1>2, <1>4
<1> HIDE DEF d, t
<1>6. t \in T /\ q \in HomeIn(s, t)
  BY <1>1 DEF Listed
<1>7. Listed(d, {t}, s, T)
  <2>1. \A o \in Queue : \A u \in Elements(d[o]) : u \in T \ {t} /\ o \in HomeIn(s, u)
    BY <1>5 DEF Listed
  <2>2. \A u \in T \ {t} : HomeIn(s, u) # {} => \E o \in Queue : u \in Elements(d[o])
    BY <1>5 DEF Listed
  <2> QED BY <2>1, <2>2 DEF Listed
<1> QED BY <1>6, <1>7 DEF d, t

\* A task in no queue leaves for a state, or a move, that names none.
LEMMA ListedAway ==
  ASSUME NEW c, NEW m, NEW m2, NEW s, NEW s2, NEW T \in SUBSET Task, NEW t \in Task,
         Listed(c, m, s, T), m \subseteq {t}, m2 \subseteq {t},
         \A q \in Queue : t \notin Elements(c[q]),
         \A u \in Task \ {t} : s2[u] = s[u],
         HomeIn(s2, t) = {} \/ t \in m2
  PROVE  Listed(c, m2, s2, T)
<1>1. \A u \in Task \ {t} : HomeIn(s2, u) = HomeIn(s, u)
  BY DEF HomeIn
<1>2. \A o \in Queue : \A u \in Elements(c[o]) : u \in T \ m2 /\ o \in HomeIn(s2, u)
  BY <1>1 DEF Listed
<1>3. \A u \in T \ m2 : HomeIn(s2, u) # {} => \E o \in Queue : u \in Elements(c[o])
  BY <1>1 DEF Listed
<1> QED BY <1>2, <1>3 DEF Listed

\* The links of a task in no queue mean nothing.
LEMMA ClearUnlisted ==
  ASSUME NEW h \in HeapOver(Queue, Pointer), NEW c, Lists(h, Queue, c), NEW t \in Task,
         \A q \in Queue : t \notin Elements(c[q])
  PROVE  Lists(ClearLinks(h, t), Queue, c) /\ ClearLinks(h, t) \in HeapOver(Queue, Pointer)
<1> DEFINE g == ClearLinks(h, t)
<1>1. /\ g.head = h.head /\ g.tail = h.tail /\ g.size = h.size
      /\ \A u \in Task \ {t} : g.next[u] = h.next[u] /\ g.prev[u] = h.prev[u]
      /\ g \in HeapOver(Queue, Pointer)
  BY DEF ClearLinks, HeapOver, Pointer
<1> HIDE DEF g
<1>2. ASSUME NEW q \in Queue PROVE ListOf(g, q, c[q])
  <2>1. \A i \in 1 .. Len(c[q]) : c[q][i] \in Task \ {t}
    BY SequenceOfTasks DEF Lists, Elements
  <2> QED BY <1>1, <2>1 DEF Lists, ListOf
<1> QED BY <1>1, <1>2 DEF Lists, g

-----------------------------------------------------------------------------
(* The invariant.                                                          *)

Statement == pc[Executing]
Registers == loc[Executing]

Placed(h, c) ==
  /\ h \in HeapOver(Queue, Pointer) /\ Lists(h, Queue, c)
  /\ heap = Half(Statement, Registers, h)
  /\ Listed(c, Moving(Statement, Registers, cur_task), state, Created)
  /\ WalkOK(Statement, Registers, h, Elements(c[Delayed]))

\* Only the context that has the core is in a critical section.
Alone == \A c \in Ctx \ {Executing} : pc[c] \notin CriticalSections

\* main only creates tasks.
MainOK == /\ pc[Main] \in {"main", "add_new", "spin"}
          /\ pc[Main] = "add_new" => ret[Main] = "main"

\* From the end of the walk to the store of RUNNING no task is in that state.
Deciding  == {"bitmap", "pop", "dispatch"} \union NextLabels \union RunLabels
Undecided == PushLabels \union WalkLabels \union {"walk_init", "requeue"} \union Deciding

RunningStates ==
  /\ \A t \in Created : state[t] = "RUNNING" => t = cur_task /\ Statement \notin Deciding
  /\ Statement \notin Undecided /\ Executing # Main =>
       cur_task # NULL /\ state[cur_task] = "RUNNING"

MovingStates ==
  /\ Statement \in PushLabels =>
       /\ Registers.task \in Created
       /\ state[Registers.task] \in {"DELAYED", "BLOCKED"}
       /\ Registers.list \in HomeIn(state, Registers.task)
  /\ Statement = "wake" =>
       Registers.walker \in Created /\ state[Registers.walker] = "DELAYED"
  /\ Statement = "dispatch" /\ Registers.task # NULL =>
       Registers.task \in Created /\ state[Registers.task] = "READY"
  /\ Statement \in NextLabels \union RunLabels =>
       /\ Registers.task = cur_task
       /\ halt = "none" => cur_task # NULL
       /\ cur_task # NULL => state[cur_task] = "READY"

\* A task that task_init has filled is made ready once.
NewTasks ==
  \A c \in Ctx : pc[c] = "add_new" =>
    /\ loc[c].task \in Created /\ state[loc[c].task] = "NONE"
    /\ \A d \in Ctx \ {c} : pc[d] = "add_new" => loc[d].task # loc[c].task

Chosen == IF Statement = "dispatch" THEN Registers.task ELSE cur_task

HighestChosen ==
  /\ Statement = "pop" =>
       Registers.reg \in ready_bitmap /\ \A p \in ready_bitmap : p <= Registers.reg
  /\ Statement \in {"dispatch"} \union NextLabels \union SwitchLabels /\ Chosen # NULL =>
       \A t \in Created : state[t] = "READY" => Prio[t] <= Prio[Chosen]

HaltsForNoTask == halt \in {"none", "assert_no_task"}

PlaceInv == /\ SchedulerInv /\ Alone /\ MainOK /\ RunningStates /\ MovingStates
            /\ NewTasks /\ HighestChosen /\ BitmapMatches /\ HaltsForNoTask /\ ~stale
            /\ \E h, c : Placed(h, c)

\* A step that leaves the ready lists as they are.
SameLines == \E h, c, g, d : /\ Placed(h, c) /\ Placed(g, d)'
                             /\ \A p \in Priority : d[Ready(p)] = c[Ready(p)]

\* The ready lists d are the lists c with t at the end of its own.
Joined(c, d, t) ==
  \A p \in Priority : d[Ready(p)] = IF p = Prio[t] THEN Append(c[Ready(p)], t)
                                                  ELSE c[Ready(p)]

\* A step that puts t at the end of its ready list.
Joins(t) == \E h, c, g, d : Placed(h, c) /\ Placed(g, d)' /\ Joined(c, d, t)

\* The ready lists d are the lists c without t, the first one of priority p, and all
\* lists of higher priorities are empty.
Left(c, d, p, t) ==
  /\ Len(c[Ready(p)]) # 0 /\ t = c[Ready(p)][1]
  /\ \A o \in Priority : d[Ready(o)] = IF o = p THEN Without(c[Ready(o)], 1)
                                               ELSE c[Ready(o)]
  /\ \A o \in Priority : o > p => Len(c[Ready(o)]) = 0

\* A step that takes t from the ready list of priority p.
Leaves(p, t) == \E h, c, g, d : Placed(h, c) /\ Placed(g, d)' /\ Left(c, d, p, t)

-----------------------------------------------------------------------------
(* Half-done operations.                                                   *)

LEMMA HalfFields ==
  ASSUME NEW h \in HeapOver(Queue, Pointer), NEW l, NEW r
  PROVE  Half(l, r, h).size = h.size
BY DEF Half, HeapOver, ClearLinks, LinkLast, LinkBack, SetTail, UnlinkHead, UnlinkTail,
       UnlinkNext, UnlinkPrev

LEMMA HalfStatements ==
  ASSUME NEW h \in HeapOver(Queue, Pointer), NEW r
  PROVE  LET q == r.list
             t == r.task
             w == r.walker
         IN
         /\ ClearLinks(h, t) = Half("push_link", r, h)
         /\ Half("push_head", r, h) = Half("push_link", r, h)
         /\ Half("push_next", r, h) = Half("push_link", r, h)
         /\ h.size[q] # 0 => LinkLast(Half("push_link", r, h), q, t) = Half("push_back", r, h)
         /\ h.size[q] = 0 => LinkLast(Half("push_link", r, h), q, t) = Half("push_tail", r, h)
         /\ Half("push_prev", r, h) = Half("push_back", r, h)
         /\ h.size[q] # 0 => LinkBack(Half("push_back", r, h), q, t) = Half("push_tail", r, h)
         /\ SetTail(Half("push_tail", r, h), q, t) = Half("push_size", r, h)
         /\ Half("push_store", r, h) = Half("push_size", r, h)
         /\ UnlinkHead(h, Delayed, w) = Half("unlink_tail", r, h)
         /\ UnlinkTail(Half("unlink_tail", r, h), Delayed, w) = Half("unlink_next", r, h)
         /\ UnlinkNext(Half("unlink_next", r, h), w) = Half("unlink_prev", r, h)
         /\ UnlinkPrev(Half("unlink_prev", r, h), w) = Half("unlink_size", r, h)
         /\ Half("unlink_store", r, h) = Half("unlink_size", r, h)
         /\ Half("store_tail", r, h) = Half("unlink_tail", r, h)
         /\ Half("store_next", r, h) = Half("unlink_next", r, h)
         /\ Half("store_prev", r, h) = Half("unlink_prev", r, h)
         /\ Half("unlink_head", r, h) = h /\ Half("store_head", r, h) = h
<1> DEFINE q == r.list
           t == r.task
           w == r.walker
           linked == LinkLast(ClearLinks(h, t), q, t)
           backed == IF h.size[q] = 0 THEN linked ELSE LinkBack(linked, q, t)
           ends   == UnlinkTail(UnlinkHead(h, Delayed, w), Delayed, w)
<1>1. \A l \in {"push_link", "push_head", "push_next"} : Half(l, r, h) = ClearLinks(h, t)
  BY DEF Half
<1>2. \A l \in {"push_back", "push_prev"} : Half(l, r, h) = linked
  BY DEF Half
<1>3. Half("push_tail", r, h) = backed
  BY DEF Half
<1>4. /\ Half("push_size", r, h) = SetTail(backed, q, t)
      /\ Half("push_store", r, h) = SetTail(backed, q, t)
  BY DEF Half
<1>5. \A l \in {"unlink_tail", "store_tail"} : Half(l, r, h) = UnlinkHead(h, Delayed, w)
  BY DEF Half
<1>6. \A l \in {"unlink_next", "store_next"} : Half(l, r, h) = ends
  BY DEF Half
<1>7. \A l \in {"unlink_prev", "store_prev"} : Half(l, r, h) = UnlinkNext(ends, w)
  BY DEF Half
<1>8. /\ Half("unlink_size", r, h) = UnlinkPrev(UnlinkNext(ends, w), w)
      /\ Half("unlink_store", r, h) = UnlinkPrev(UnlinkNext(ends, w), w)
  BY DEF Half
<1>9. Half("unlink_head", r, h) = h /\ Half("store_head", r, h) = h
  BY DEF Half
<1> HIDE DEF q, t, w
<1>10. /\ h.size[q] # 0 => LinkBack(linked, q, t) = backed
       /\ h.size[q] = 0 => linked = backed
  OBVIOUS
<1> HIDE DEF linked, backed, ends
<1>11. /\ LinkLast(Half("push_link", r, h), q, t) = linked
       /\ UnlinkTail(Half("unlink_tail", r, h), Delayed, w) = ends
  BY <1>1, <1>5 DEF linked, ends
<1> QED BY <1>1, <1>2, <1>3, <1>4, <1>5, <1>6, <1>7, <1>8, <1>9, <1>10, <1>11 DEF q, t, w

\* What the loads of task_push and task_remove find in the half-done heap.
LEMMA HalfLoads ==
  ASSUME NEW h \in HeapOver(Queue, Pointer), NEW r
  PROVE  /\ Half("push_link", r, h).tail = h.tail /\ Half("push_back", r, h).tail = h.tail
         /\ Half("unlink_tail", r, h).tail = h.tail /\ Half("unlink_tail", r, h).prev = h.prev
         /\ Half("unlink_next", r, h).next = h.next /\ Half("unlink_next", r, h).prev = h.prev
         /\ Half("unlink_prev", r, h).prev = h.prev
         /\ r.walker \in Task => Half("unlink_prev", r, h).next[r.walker] = h.next[r.walker]
BY DEF Half, HeapOver, ClearLinks, LinkLast, UnlinkHead, UnlinkTail, UnlinkNext

\* The registers that Half does not read.
LEMMA HalfRegisters ==
  ASSUME NEW h, NEW l, NEW r, NEW r2,
         r2.list = r.list, r2.task = r.task, r2.walker = r.walker
  PROVE  Half(l, r2, h) = Half(l, r, h)
BY DEF Half

LEMMA HalfDone ==
  ASSUME NEW h \in HeapOver(Queue, Pointer), NEW r
  PROVE  /\ [Half("push_store", r, h) EXCEPT !.size[r.list] = Incr(h.size[r.list])]
              = task_push(h, r.list, r.task)
         /\ ClearLinks([Half("unlink_store", r, h) EXCEPT
                          !.size[Delayed] = Decr(h.size[Delayed])], r.walker)
              = task_remove(h, Delayed, r.walker)
<1>1. [Half("push_store", r, h) EXCEPT !.size[r.list] = Incr(h.size[r.list])]
        = task_push(h, r.list, r.task)
  <2> DEFINE g == Half("push_store", r, h)
  <2>1. g.size = h.size
    BY HalfFields
  <2>2. task_push(h, r.list, r.task) = [g EXCEPT !.size[r.list] = Incr(@)]
    BY DEF task_push, Half
  <2> HIDE DEF g
  <2>3. [g EXCEPT !.size[r.list] = Incr(@)] = [g EXCEPT !.size[r.list] = Incr(g.size[r.list])]
    OBVIOUS
  <2> QED BY <2>1, <2>2, <2>3 DEF g
<1>2. ClearLinks([Half("unlink_store", r, h) EXCEPT
                    !.size[Delayed] = Decr(h.size[Delayed])], r.walker)
        = task_remove(h, Delayed, r.walker)
  <2> DEFINE g == Half("unlink_store", r, h)
  <2>1. g.size = h.size
    BY HalfFields
  <2>2. task_remove(h, Delayed, r.walker)
          = ClearLinks([g EXCEPT !.size[Delayed] = Decr(@)], r.walker)
    BY DEF task_remove, Half
  <2> HIDE DEF g
  <2>3. [g EXCEPT !.size[Delayed] = Decr(@)]
          = [g EXCEPT !.size[Delayed] = Decr(g.size[Delayed])]
    OBVIOUS
  <2> QED BY <2>1, <2>2, <2>3 DEF g
<1> QED BY <1>1, <1>2

-----------------------------------------------------------------------------
(* What every step of a context does to the invariant.                     *)

\* A step of c that does not switch contexts.
LEMMA SameContext ==
  ASSUME SchedulerInv, NEW c \in Ctx, c = Executing, NEW l \in Label, l # "idle",
         pc' = [pc EXCEPT ![c] = l], UNCHANGED cur_process
  PROVE  /\ Executing' = c /\ Statement' = l /\ Registers' = loc'[c]
         /\ \A d \in Ctx \ {c} : pc'[d] = pc[d]
         /\ Alone => Alone'
<1>1. pc \in [Ctx -> Label] /\ Handler \in Ctx /\ Handler \notin Task /\ Main # Handler
  BY SchedulerAssumption DEF SchedulerInv, TypeOK, Label, Ctx
<1>2. pc'[c] = l /\ \A d \in Ctx \ {c} : pc'[d] = pc[d]
  BY <1>1
<1>3. Running' = Running
  BY DEF Running
<1>4. Executing' = c
  <2>1. CASE c = Handler
    BY <1>2, <2>1 DEF Executing
  <2>2. CASE c # Handler
    <3>1. pc[Handler] = "idle" /\ c = Running
      BY <2>2 DEF Executing
    <3>2. pc'[Handler] = "idle"
      BY <1>1, <1>2, <2>2, <3>1
    <3> QED BY <1>3, <3>1, <3>2 DEF Executing
  <2> QED BY <2>1, <2>2
<1> QED BY <1>2, <1>4 DEF Alone, Statement, Registers

\* A step that changes the state of no task.
LEMMA QuietStep ==
  ASSUME PlaceInv, NEW c \in Ctx, c = Executing, NEW l \in Label \ {"idle", "add_new"},
         pc' = [pc EXCEPT ![c] = l], \A d \in Ctx \ {c} : loc'[d] = loc[d],
         UNCHANGED <<state, pid, next_pid, cur_task, cur_process>>,
         l \in Deciding => pc[c] \in Deciding,
         l \notin Undecided => pc[c] \notin Undecided
  PROVE  Alone' /\ RunningStates' /\ NewTasks' /\ Created' = Created
<1>1. SchedulerInv /\ Alone /\ RunningStates /\ NewTasks /\ Created' = Created
  BY NoCreation DEF PlaceInv
<1>2. /\ Executing' = c /\ Statement' = l /\ Statement = pc[c]
      /\ \A d \in Ctx \ {c} : pc'[d] = pc[d]
      /\ Alone'
  BY <1>1, SameContext DEF Statement
<1>3. RunningStates'
  BY <1>1, <1>2 DEF RunningStates
<1>4. pc'[c] # "add_new"
  BY <1>2 DEF Statement
<1>5. NewTasks'
  BY <1>1, <1>2, <1>4 DEF NewTasks
<1> QED BY <1>1, <1>2, <1>3, <1>5

\* main is not in the scheduler.
LEMMA NotMain ==
  ASSUME PlaceInv, NEW c \in Ctx, c = Executing, pc[c] \notin {"main", "add_new", "spin"},
         NEW l, pc' = [pc EXCEPT ![c] = l],
         \A d \in Ctx \ {c} : ret'[d] = ret[d]
  PROVE  c # Main /\ MainOK'
<1>1. c # Main /\ MainOK /\ Main \in Ctx
  BY DEF PlaceInv, MainOK, Ctx
<1>2. pc'[Main] = pc[Main] /\ ret'[Main] = ret[Main]
  BY <1>1 DEF PlaceInv, SchedulerInv, TypeOK
<1> QED BY <1>1, <1>2 DEF MainOK

\* A step inside task_push or task_remove, or of the walk before a task is woken.
LEMMA HalfStep ==
  ASSUME PlaceInv, SchedulerInv', NEW c \in Ctx, c = Executing,
         pc[c] \in PushLabels \union WalkLabels \union {"walk_init"},
         NEW l \in (PushLabels \union WalkLabels) \ {"wake"},
         pc' = [pc EXCEPT ![c] = l], \A d \in Ctx \ {c} : loc'[d] = loc[d],
         UNCHANGED <<state, pid, next_pid, cur_task, cur_process, ready_bitmap, ret, halt>>,
         NEW h, NEW q, Placed(h, q),
         heap' = Half(l, loc'[c], h), UNCHANGED <<torn, stale>>,
         pc[c] \in PushLabels \/ l \notin PushLabels, pc[c] # "wake",
         l \in PushLabels => loc'[c].task = loc[c].task /\ loc'[c].list = loc[c].list,
         pc[c] \in PushLabels => l \in PushLabels,
         WalkOK(l, loc'[c], h, Elements(q[Delayed]))
  PROVE  PlaceInv' /\ SameLines
<1> USE DEF PushLabels, WalkLabels
<1>l. l \in Label /\ l # "idle" /\ l # "add_new" /\ l \in Undecided /\ l \notin Deciding
  BY DEF Label, KernelLabels, Undecided, Deciding, NextLabels, RunLabels
<1>1. Alone' /\ RunningStates' /\ NewTasks' /\ Created' = Created
  <2>1. pc[c] \in Undecided
    BY DEF Undecided
  <2> QED BY <1>l, <2>1, QuietStep
<1>2. /\ Executing' = c /\ Statement' = l /\ Registers' = loc'[c]
      /\ Statement = pc[c] /\ Registers = loc[c]
  BY <1>l, SameContext DEF PlaceInv, Statement, Registers
<1>3. MainOK'
  BY NotMain
<1>4. Moving(l, loc'[c], cur_task) = Moving(pc[c], loc[c], cur_task)
  BY DEF Moving, NextLabels, RunLabels
<1>5. Placed(h, q)'
  BY <1>1, <1>2, <1>4 DEF Placed
<1>6. MovingStates'
  BY <1>1, <1>2 DEF PlaceInv, MovingStates, NextLabels, RunLabels
<1>7. HighestChosen'
  BY <1>2 DEF HighestChosen, SwitchLabels, NextLabels, RunLabels
<1>8. BitmapMatches'
  <2>1. heap'.size = heap.size
    BY <1>2, HalfFields DEF Placed
  <2> QED BY <2>1 DEF PlaceInv, BitmapMatches
<1>9. HaltsForNoTask'
  BY DEF PlaceInv, HaltsForNoTask
<1>10. SameLines
  BY <1>5 DEF SameLines
<1> QED BY <1>1, <1>3, <1>5, <1>6, <1>7, <1>8, <1>9, <1>10 DEF PlaceInv

LEMMA ListSizes ==
  ASSUME NEW h, NEW c, Lists(h, Queue, c)
  PROVE  \A q \in Queue : h.size[q] = Len(c[q]) /\ Len(c[q]) \in Nat
BY DEF Lists, ListOf

\* A task that waits is in none of the ready lists.
LEMMA WaitersHome ==
  ASSUME NEW s, NEW t \in Task, s[t] \in {"DELAYED", "BLOCKED"}, NEW q \in HomeIn(s, t)
  PROVE  q \in Queue /\ \A p \in Priority : q # Ready(p)
BY HomeKinds

\* task_push of a task on the move completes.
LEMMA PushCompletes ==
  ASSUME FewTasks, NEW h \in HeapOver(Queue, Pointer), NEW c, Lists(h, Queue, c),
         NEW t \in Created, Listed(c, {t}, state, Created),
         state[t] \in {"DELAYED", "BLOCKED"}, NEW q \in HomeIn(state, t)
  PROVE  \E g, d : /\ g = task_push(h, q, t)
                   /\ g \in HeapOver(Queue, Pointer) /\ Lists(g, Queue, d)
                   /\ Listed(d, {}, state, Created)
                   /\ \A p \in Priority : g.size[Ready(p)] = h.size[Ready(p)]
                   /\ \A p \in Priority : d[Ready(p)] = c[Ready(p)]
<1> DEFINE g == task_push(h, q, t)
           d == [c EXCEPT ![q] = Append(@, t)]
<1>0. t \in Task /\ Created \in SUBSET Task /\ q \in Queue
  <2>1. t \in Task
    BY DEF Created
  <2> QED BY <2>1, WaitersHome DEF Created
<1>1. \A o \in Queue : t \notin Elements(c[o])
  BY DEF Listed
<1>2. Lists(g, Queue, d)
  BY <1>0, <1>1, PushLists
<1>3. g \in HeapOver(Queue, Pointer)
  BY <1>0, OperationsType DEF Pointer
<1>4. c \in [Queue -> Seq(Task)]
  BY DEF Lists
<1>5. Listed(d, {}, state, Created)
  BY <1>0, <1>1, <1>4, ListedAppend
<1>6. \A o \in Queue \ {q} : d[o] = c[o]
  BY <1>4
<1> HIDE DEF g, d
<1>7. ASSUME NEW p \in Priority
      PROVE  g.size[Ready(p)] = h.size[Ready(p)] /\ d[Ready(p)] = c[Ready(p)]
  <2>1. Ready(p) \in Queue \ {q}
    BY <1>0, WaitersHome, QueueKinds
  <2>2. g.size[Ready(p)] = Len(d[Ready(p)])
    BY <1>2, <2>1, ListSizes
  <2>3. h.size[Ready(p)] = Len(c[Ready(p)])
    BY <2>1, ListSizes
  <2> QED BY <1>6, <2>1, <2>2, <2>3
<1>8. g = task_push(h, q, t)
  BY DEF g
<1> QED BY <1>2, <1>3, <1>5, <1>7, <1>8

LEMMA PushPlace ==
  ASSUME FewTasks, PlaceInv, NEW c \in Ctx, UnprotectedPush(c),
         UNCHANGED <<torn, stale>>
  PROVE  PlaceInv' /\ SameLines
<1> DEFINE r == loc[c]
           t == loc[c].task
           q == loc[c].list
<1> USE DEF PushLabels, WalkLabels
<1>1. /\ c = Executing /\ pc[c] \in PushLabels /\ SchedulerInv /\ SchedulerInv'
      /\ Statement = pc[c] /\ Registers = loc[c]
  <2>1. c = Executing /\ pc[c] \in PushLabels
    BY DEF UnprotectedPush, PushClear, PushLink, PushHead, PushNext,
              PushBack, PushPrev, PushTail, PushSize, PushStore,
           HeapStep, At
  <2> QED BY <2>1, PushInv DEF PlaceInv, Statement, Registers
<1>2. PICK h, k : Placed(h, k)
  BY DEF PlaceInv
<1>3. /\ h \in HeapOver(Queue, Pointer) /\ Lists(h, Queue, k)
      /\ heap = Half(pc[c], loc[c], h) /\ Listed(k, {t}, state, Created)
      /\ WalkOK(pc[c], loc[c], h, Elements(k[Delayed]))
  BY <1>1, <1>2 DEF Placed, Moving, NextLabels, RunLabels
<1>4. /\ t \in Created /\ t \in Task /\ state[t] \in {"DELAYED", "BLOCKED"}
      /\ q \in HomeIn(state, t)
  BY <1>1 DEF PlaceInv, MovingStates, Created
<1>5. q \in Queue /\ (h.size[q] # 0 => h.tail[q] \in Task)
  <2>1. q \in Queue
    BY <1>4, WaitersHome
  <2>2. \A o \in Queue : t \notin Elements(k[o])
    BY <1>3 DEF Listed
  <2>3. ~PushFaults(h, q) /\ h.tail[q] \in Task \union {NULL}
    BY <1>3, <1>4, <2>1, <2>2, PushLists DEF HeapOver, Pointer
  <2> QED BY <2>1, <2>3 DEF PushFaults
<1>6. heap.size = h.size
  BY <1>3, HalfFields
<1>7. /\ ClearLinks(h, t) = Half("push_link", r, h)
      /\ Half("push_head", r, h) = Half("push_link", r, h)
      /\ Half("push_next", r, h) = Half("push_link", r, h)
      /\ h.size[q] # 0 => LinkLast(Half("push_link", r, h), q, t) = Half("push_back", r, h)
      /\ h.size[q] = 0 => LinkLast(Half("push_link", r, h), q, t) = Half("push_tail", r, h)
      /\ Half("push_prev", r, h) = Half("push_back", r, h)
      /\ h.size[q] # 0 => LinkBack(Half("push_back", r, h), q, t) = Half("push_tail", r, h)
      /\ SetTail(Half("push_tail", r, h), q, t) = Half("push_size", r, h)
      /\ Half("push_store", r, h) = Half("push_size", r, h)
  BY <1>3, HalfStatements
<1>l. /\ Half("push_link", r, h).tail = h.tail /\ Half("push_back", r, h).tail = h.tail
      /\ Half("push_link", r, h).size = h.size
  BY <1>3, HalfLoads, HalfFields
<1>8. ASSUME NEW l \in PushLabels \ {"push_store"},
             pc' = [pc EXCEPT ![c] = l], heap' = Half(l, loc[c], h),
             l \in {"push_next", "push_back", "push_prev"} => h.size[q] # 0,
             l = "push_head" => h.size[q] = 0,
             l \in {"push_next", "push_prev"} => loc'[c].at = h.tail[q],
             loc' = loc \/ \E a : loc' = [loc EXCEPT ![c].at = a],
             UNCHANGED <<tcbs, sched, primask, ret, halt>>
      PROVE  PlaceInv' /\ SameLines
  <2>1. /\ loc'[c].list = q /\ loc'[c].task = t /\ loc'[c].walker = loc[c].walker
        /\ \A d \in Ctx \ {c} : loc'[d] = loc[d]
    BY <1>1, <1>8 DEF SchedulerInv, TypeOK, Locals
  <2>2. WalkOK(l, loc'[c], h, Elements(k[Delayed]))
    BY <1>8, <2>1 DEF WalkOK
  <2>3. heap' = Half(l, loc'[c], h)
    <3>1. /\ loc'[c].list = loc[c].list /\ loc'[c].task = loc[c].task
          /\ loc'[c].walker = loc[c].walker
      BY <2>1
    <3>2. Half(l, loc'[c], h) = Half(l, loc[c], h)
      BY <3>1, HalfRegisters
    <3> QED BY <1>8, <3>2
  <2>4. /\ UNCHANGED <<state, pid, next_pid, cur_task, cur_process, ready_bitmap, ret, halt>>
        /\ pc' = [pc EXCEPT ![c] = l] /\ l \in (PushLabels \union WalkLabels) \ {"wake"}
    BY <1>8 DEF tcbs, sched
  <2>5. pc[c] # "wake" /\ l \in PushLabels
    BY <1>1, <1>8
  <2> HIDE <1>8
  <2> QED BY <1>1, <1>2, <2>1, <2>2, <2>3, <2>4, <2>5, HalfStep
<1> USE DEF HeapStep, At, Goto
<1>9. CASE PushClear(c)
  <2>1. heap = h
    BY <1>3, <1>9 DEF PushClear, Half
  <2> QED BY <1>7, <1>8, <1>9, <2>1 DEF PushClear
<1>10. CASE PushLink(c)
  <2>1. heap = Half("push_link", r, h) /\ pc[c] = "push_link" /\ heap' = heap
    BY <1>3, <1>10 DEF PushLink
  <2>2. CASE h.size[q] = 0
    BY <1>6, <1>7, <1>8, <1>10, <2>1, <2>2 DEF PushLink
  <2>3. CASE h.size[q] # 0
    <3>1. loc' = [loc EXCEPT ![c].at = h.tail[q]] /\ pc' = [pc EXCEPT ![c] = "push_next"]
      BY <1>6, <1>10, <1>l, <2>1, <2>3 DEF PushLink
    <3>2. loc'[c].at = h.tail[q]
      BY <1>1, <3>1 DEF SchedulerInv, TypeOK, Locals
    <3> QED BY <1>7, <1>8, <1>10, <2>1, <2>3, <3>1, <3>2 DEF PushLink
  <2> QED BY <2>2, <2>3
<1>11. CASE PushHead(c)
  <2>1. heap = Half("push_link", r, h) /\ h.size[q] = 0
    BY <1>3, <1>7, <1>11 DEF PushHead, WalkOK
  <2>2. LinkLast(heap, q, t) = [heap EXCEPT !.head[q] = t]
    BY <1>6, <2>1 DEF LinkLast
  <2> QED BY <1>7, <1>8, <1>11, <2>1, <2>2 DEF PushHead
<1>12. CASE PushNext(c)
  <2>1. heap = Half("push_link", r, h) /\ h.size[q] # 0 /\ loc[c].at = h.tail[q]
    BY <1>3, <1>7, <1>12 DEF PushNext, WalkOK
  <2>2. LinkLast(heap, q, t) = [heap EXCEPT !.next[loc[c].at] = t]
    BY <1>6, <1>l, <2>1 DEF LinkLast
  <2>3. halt' = halt
    BY <1>5, <1>12, <2>1, TaskQueueAssumption DEF PushNext
  <2> QED BY <1>7, <1>8, <1>12, <2>1, <2>2, <2>3 DEF PushNext
<1>13. CASE PushBack(c)
  <2>1. /\ heap = Half("push_back", r, h) /\ h.size[q] # 0
        /\ heap' = heap /\ heap.tail[q] = h.tail[q]
    BY <1>3, <1>13, <1>l DEF PushBack, WalkOK
  <2>2. loc'[c].at = h.tail[q]
    BY <1>1, <1>13, <2>1 DEF PushBack, SchedulerInv, TypeOK, Locals
  <2> QED BY <1>7, <1>8, <1>13, <2>1, <2>2 DEF PushBack
<1>14. CASE PushPrev(c)
  <2>1. heap = Half("push_back", r, h) /\ h.size[q] # 0 /\ loc[c].at = h.tail[q]
    BY <1>3, <1>7, <1>14 DEF PushPrev, WalkOK
  <2>2. LinkBack(heap, q, t) = [heap EXCEPT !.prev[t] = loc[c].at]
    BY <1>l, <2>1 DEF LinkBack
  <2> QED BY <1>7, <1>8, <1>14, <2>1, <2>2 DEF PushPrev
<1>15. CASE PushTail(c)
  <2>1. heap = Half("push_tail", r, h)
    BY <1>3, <1>15 DEF PushTail
  <2> QED BY <1>7, <1>8, <1>15, <2>1 DEF PushTail
<1>16. CASE PushSize(c)
  <2> USE <1>16 DEF PushSize
  <2>1. heap = Half("push_size", r, h)
    BY <1>3
  <2>2. /\ loc'[c].list = q /\ loc'[c].task = t /\ loc'[c].walker = loc[c].walker
        /\ loc'[c].reg = h.size[q] /\ \A d \in Ctx \ {c} : loc'[d] = loc[d]
    BY <1>1, <1>6 DEF SchedulerInv, TypeOK, Locals
  <2>3. heap' = Half("push_store", loc'[c], h)
    <3>1. Half("push_store", loc'[c], h) = Half("push_store", r, h)
      <4> HIDE <1>16
      <4>1. /\ loc'[c].list = loc[c].list /\ loc'[c].task = loc[c].task
            /\ loc'[c].walker = loc[c].walker
        BY <2>2
      <4> QED BY <4>1, HalfRegisters
    <3>2. heap' = heap
      OBVIOUS
    <3> QED BY <1>7, <2>1, <3>1, <3>2
  <2>4. WalkOK("push_store", loc'[c], h, Elements(k[Delayed]))
    BY <2>2 DEF WalkOK
  <2> QED BY <1>1, <1>2, <2>2, <2>3, <2>4, HalfStep DEF tcbs, sched
<1>17. CASE PushStore(c)
  <2> USE <1>17 DEF PushStore
  <2>1. heap' = task_push(h, q, t)
    <3>1. loc[c].reg = h.size[q] /\ heap = Half("push_store", r, h)
      BY <1>3 DEF WalkOK
    <3>2. heap' = [heap EXCEPT !.size[q] = Incr(loc[c].reg)]
      OBVIOUS
    <3>3. [Half("push_store", r, h) EXCEPT !.size[q] = Incr(h.size[q])] = task_push(h, q, t)
      BY <1>3, HalfDone
    <3> HIDE <1>17
    <3> QED BY <3>1, <3>2, <3>3
  <2>2. PICK g, d :
           /\ g = task_push(h, q, t)
           /\ g \in HeapOver(Queue, Pointer) /\ Lists(g, Queue, d)
           /\ Listed(d, {}, state, Created)
           /\ \A p \in Priority : g.size[Ready(p)] = h.size[Ready(p)]
           /\ \A p \in Priority : d[Ready(p)] = k[Ready(p)]
    <3> HIDE <1>17 DEF t, q
    <3> QED BY <1>3, <1>4, PushCompletes
  <2>3. /\ "walk_init" \in Label \ {"idle", "add_new"}
        /\ "walk_init" \notin Deciding /\ "walk_init" \in Undecided
    BY DEF Label, KernelLabels, Deciding, Undecided, NextLabels, RunLabels
  <2>4. \A e \in Ctx \ {c} : loc'[e] = loc[e]
    BY <1>1 DEF SchedulerInv, TypeOK
  <2>5. Alone' /\ RunningStates' /\ NewTasks' /\ Created' = Created
    BY <1>1, <2>3, <2>4, QuietStep DEF tcbs, sched
  <2>6. Executing' = c /\ Statement' = "walk_init" /\ Registers' = loc'[c]
    BY <1>1, <2>3, SameContext DEF sched
  <2>7. MainOK'
    BY <1>1, NotMain
  <2>8. Placed(g, d)'
    <3>1. heap' = Half("walk_init", loc'[c], g)
      BY <2>1, <2>2 DEF Half
    <3>2. Moving("walk_init", loc'[c], cur_task) = {}
      BY DEF Moving, NextLabels, RunLabels
    <3>3. WalkOK("walk_init", loc'[c], g, Elements(d[Delayed]))
      BY DEF WalkOK
    <3> QED BY <2>2, <2>5, <2>6, <3>1, <3>2, <3>3 DEF Placed, tcbs, sched
  <2>9. MovingStates' /\ HighestChosen'
    BY <2>6 DEF MovingStates, HighestChosen, SwitchLabels, NextLabels, RunLabels
  <2>10. BitmapMatches' /\ HaltsForNoTask'
    BY <1>6, <2>1, <2>2 DEF PlaceInv, BitmapMatches, HaltsForNoTask, sched
  <2>11. SameLines
    BY <1>2, <2>2, <2>8 DEF SameLines
  <2> QED BY <1>1, <2>5, <2>7, <2>8, <2>9, <2>10, <2>11 DEF PlaceInv
<1> QED BY <1>9, <1>10, <1>11, <1>12, <1>13, <1>14, <1>15, <1>16, <1>17 DEF UnprotectedPush

\* The link of a listed task leads to another task of its list, or nowhere.
LEMMA NextInList ==
  ASSUME NEW h, NEW c, Lists(h, Queue, c), NEW q \in Queue, NEW k \in 1 .. Len(c[q])
  PROVE  h.next[c[q][k]] \in (Elements(c[q]) \ {c[q][k]}) \union {NULL}
<1> DEFINE n == Len(c[q])
<1>1. /\ n \in Nat /\ k \in 1 .. n
      /\ h.next[c[q][k]] = IF k = n THEN NULL ELSE c[q][k + 1]
      /\ \A i, j \in 1 .. n : c[q][i] = c[q][j] => i = j
      /\ Elements(c[q]) = {c[q][i] : i \in 1 .. n}
  BY DEF Lists, ListOf, Disjoint, Elements
<1> HIDE DEF n
<1>2. CASE k = n
  BY <1>1, <1>2
<1>3. CASE k # n
  <2>1. k + 1 \in 1 .. n /\ k + 1 # k
    BY <1>1, <1>3
  <2> QED BY <1>1, <1>3, <2>1
<1> QED BY <1>2, <1>3

\* task_remove of a sleeping task completes.
LEMMA UnlinkCompletes ==
  ASSUME FewTasks, NEW h \in HeapOver(Queue, Pointer), NEW c, Lists(h, Queue, c),
         Listed(c, {}, state, Created), NEW w \in Elements(c[Delayed])
  PROVE  \E g, d : /\ g = task_remove(h, Delayed, w)
                   /\ g \in HeapOver(Queue, Pointer) /\ Lists(g, Queue, d)
                   /\ Listed(d, {w}, state, Created)
                   /\ w \in Created /\ state[w] = "DELAYED"
                   /\ h.next[w] \in Elements(d[Delayed]) \union {NULL}
                   /\ h.size[Delayed] # 0
                   /\ \A p \in Priority : g.size[Ready(p)] = h.size[Ready(p)]
                   /\ \A p \in Priority : d[Ready(p)] = c[Ready(p)]
<1>1. PICK k \in 1 .. Len(c[Delayed]) : w = c[Delayed][k]
  BY DEF Elements
<1> DEFINE g == task_remove(h, Delayed, w)
           d == [c EXCEPT ![Delayed] = Without(@, k)]
<1>2. Delayed \in Queue /\ Created \in SUBSET Task /\ c \in [Queue -> Seq(Task)]
  BY QueueKinds DEF Created, Lists
<1>3. Lists(g, Queue, d) /\ h.size[Delayed] # 0
  BY <1>1, <1>2, RemoveLists
<1>4. /\ Listed(d, {w}, state, Created) /\ w \in Created /\ Delayed \in HomeIn(state, w)
      /\ Elements(d[Delayed]) = Elements(c[Delayed]) \ {w}
  <2> HIDE DEF g
  <2>1. /\ Listed(d, {c[Delayed][k]}, state, Created) /\ c[Delayed][k] \in Created
        /\ Delayed \in HomeIn(state, c[Delayed][k])
    BY <1>2, ListedWithout
  <2>2. Elements(d[Delayed]) = Elements(c[Delayed]) \ {c[Delayed][k]}
    <3>1. /\ c[Delayed] \in Seq(Task) /\ d[Delayed] = Without(c[Delayed], k)
          /\ \A i, j \in 1 .. Len(c[Delayed]) : c[Delayed][i] = c[Delayed][j] => i = j
      BY <1>2 DEF Lists, Disjoint
    <3> QED BY <3>1, WithoutElements
  <2> HIDE DEF d
  <2> QED BY <1>1, <1>2, <2>1, <2>2
<1>5. w \in Task /\ state[w] = "DELAYED"
  <2>1. w \in Task
    BY <1>4 DEF Created
  <2> QED BY <1>4, <2>1, HomeKinds
<1>6. g \in HeapOver(Queue, Pointer)
  BY <1>2, <1>5, OperationsType DEF Pointer
<1>7. h.next[w] \in Elements(d[Delayed]) \union {NULL}
  BY <1>1, <1>2, <1>4, NextInList
<1>8. \A o \in Queue \ {Delayed} : d[o] = c[o]
  BY <1>2
<1>9. g = task_remove(h, Delayed, w)
  OBVIOUS
<1> HIDE DEF g, d
<1>10. ASSUME NEW p \in Priority
       PROVE  g.size[Ready(p)] = h.size[Ready(p)] /\ d[Ready(p)] = c[Ready(p)]
  <2>1. Ready(p) \in Queue \ {Delayed}
    BY QueueKinds
  <2>2. g.size[Ready(p)] = Len(d[Ready(p)])
    BY <1>3, <2>1, ListSizes
  <2>3. h.size[Ready(p)] = Len(c[Ready(p)])
    BY <2>1, ListSizes
  <2> QED BY <1>8, <2>1, <2>2, <2>3
<1> QED BY <1>3, <1>4, <1>5, <1>6, <1>7, <1>9, <1>10

\* task_add_ready of a task that is in no list, in the heap h.
LEMMA ReadyPlaced ==
  ASSUME FewTasks, TypeOK, NEW h \in HeapOver(Queue, Pointer), NEW c, Lists(h, Queue, c),
         NEW t \in Created, NEW m, m \subseteq {t}, Listed(c, m, state, Created),
         \A q \in Queue : t \notin Elements(c[q]),
         \A p \in Priority : p \in ready_bitmap <=> h.size[Ready(p)] # 0,
         ReadyFrom(h, t)
  PROVE  /\ \E d : /\ heap' \in HeapOver(Queue, Pointer) /\ Lists(heap', Queue, d)
                   /\ Listed(d, {}, state', Created) /\ d[Delayed] = c[Delayed]
                   /\ Joined(c, d, t)
         /\ BitmapMatches' /\ halt' = halt
         /\ state'[t] = "READY" /\ \A u \in Task \ {t} : state'[u] = state[u]
<1> DEFINE q == Ready(Prio[t])
           g == task_push(h, q, t)
           d == [c EXCEPT ![q] = Append(@, t)]
<1>1. /\ t \in Task /\ Created \in SUBSET Task /\ q \in Queue /\ Prio[t] \in Priority
      /\ c \in [Queue -> Seq(Task)] /\ q # Delayed /\ Delayed \in Queue
  BY QueueKinds DEF Created, Lists
<1>2. /\ heap' = g /\ state' = [state EXCEPT ![t] = "READY"]
      /\ ready_bitmap' = ready_bitmap \union {Prio[t]}
      /\ halt' = IF PushFaults(h, q) THEN "fault" ELSE halt
  BY DEF ReadyFrom
<1>3. Lists(g, Queue, d) /\ ~PushFaults(h, q)
  BY <1>1, PushLists
<1>4. g \in HeapOver(Queue, Pointer)
  BY <1>1, OperationsType DEF Pointer
<1>5. state'[t] = "READY" /\ \A u \in Task \ {t} : state'[u] = state[u]
  BY <1>1, <1>2 DEF TypeOK
<1>6. q \in HomeIn(state', t)
  BY <1>1, <1>5, OneHome
<1>7. Listed(d, {}, state', Created)
  BY <1>1, <1>5, <1>6, ListedAppend
<1>8. /\ \A o \in Queue \ {q} : d[o] = c[o]
      /\ Len(d[q]) = Len(c[q]) + 1 /\ Len(c[q]) \in Nat
  <2>1. c[q] \in Seq(Task) /\ d[q] = Append(c[q], t)
    BY <1>1
  <2> QED BY <1>1, <2>1, AppendTask
<1>9. d[Delayed] = c[Delayed]
  BY <1>1, <1>8
<1>j. Joined(c, d, t)
  <2> SUFFICES ASSUME NEW p \in Priority
               PROVE  d[Ready(p)] = IF p = Prio[t] THEN Append(c[Ready(p)], t) ELSE c[Ready(p)]
    BY DEF Joined
  <2>1. Ready(p) \in Queue /\ (p # Prio[t] => Ready(p) # q)
    BY <1>1, QueueKinds
  <2> QED BY <1>1, <2>1
<1> HIDE DEF g, d
<1>10. BitmapMatches'
  <2> SUFFICES ASSUME NEW p \in Priority
               PROVE  p \in ready_bitmap' <=> g.size[Ready(p)] # 0
    BY <1>2 DEF BitmapMatches
  <2>1. Ready(p) \in Queue /\ (p # Prio[t] => Ready(p) # q)
    BY <1>1, QueueKinds
  <2>2. g.size[Ready(p)] = Len(d[Ready(p)]) /\ h.size[Ready(p)] = Len(c[Ready(p)])
    BY <1>3, <2>1, ListSizes
  <2>3. CASE p = Prio[t]
    BY <1>2, <1>8, <2>2, <2>3
  <2>4. CASE p # Prio[t]
    BY <1>2, <1>8, <2>1, <2>2, <2>4
  <2> QED BY <2>3, <2>4
<1> QED BY <1>2, <1>3, <1>4, <1>5, <1>7, <1>9, <1>10, <1>j

\* A step that takes one task t to a state other than RUNNING.
LEMMA StateStep ==
  ASSUME PlaceInv, NEW c \in Ctx, c = Executing, NEW l \in Label \ {"idle", "add_new"},
         pc' = [pc EXCEPT ![c] = l], \A d \in Ctx \ {c} : loc'[d] = loc[d],
         UNCHANGED <<pid, next_pid, cur_task, cur_process>>,
         NEW t \in Task, \A u \in Task \ {t} : state'[u] = state[u],
         state[t] # "NONE", state'[t] # "RUNNING",
         l \in Deciding => t = cur_task,
         l \in Undecided
  PROVE  Alone' /\ RunningStates' /\ NewTasks' /\ Created' = Created
<1>1. SchedulerInv /\ Alone /\ RunningStates /\ NewTasks /\ Created' = Created
  BY NoCreation DEF PlaceInv
<1>2. /\ Executing' = c /\ Statement' = l /\ Statement = pc[c]
      /\ \A d \in Ctx \ {c} : pc'[d] = pc[d]
      /\ Alone'
  BY <1>1, SameContext DEF Statement
<1>3. RunningStates'
  BY <1>1, <1>2 DEF RunningStates, Created
<1>4. pc'[c] # "add_new"
  BY <1>2 DEF Statement
<1>5. NewTasks'
  <2> SUFFICES ASSUME NEW e \in Ctx, pc'[e] = "add_new"
               PROVE  /\ loc'[e].task \in Created /\ state'[loc'[e].task] = "NONE"
                      /\ \A d \in Ctx \ {e} : pc'[d] = "add_new" => loc'[d].task # loc'[e].task
    BY <1>1 DEF NewTasks
  <2>1. e # c /\ pc[e] = "add_new" /\ loc'[e] = loc[e]
    BY <1>2, <1>4
  <2>2. /\ loc[e].task \in Created /\ state[loc[e].task] = "NONE"
        /\ \A d \in Ctx \ {e} : pc[d] = "add_new" => loc[d].task # loc[e].task
    BY <1>1, <2>1 DEF NewTasks
  <2>3. state'[loc[e].task] = "NONE"
    BY <2>2 DEF Created
  <2>4. \A d \in Ctx \ {e} : pc'[d] = "add_new" => d # c /\ pc[d] = "add_new" /\ loc'[d] = loc[d]
    BY <1>2, <1>4
  <2> QED BY <2>1, <2>2, <2>3, <2>4
<1> QED BY <1>1, <1>2, <1>3, <1>5

LEMMA BlockedPlace ==
  ASSUME FewTasks, PlaceInv, NEW c \in Ctx, HandleBlocked(c),
         UNCHANGED <<torn, stale>>
  PROVE  PlaceInv' /\ IF Wake(c) THEN Joins(loc[c].walker) ELSE SameLines
<1> DEFINE r == loc[c]
           w == loc[c].walker
<1> USE DEF PushLabels, WalkLabels
<1>1. /\ c = Executing /\ pc[c] \in WalkLabels \union {"walk_init"}
      /\ SchedulerInv /\ SchedulerInv' /\ Statement = pc[c] /\ Registers = loc[c]
  <2>1. c = Executing /\ pc[c] \in WalkLabels \union {"walk_init"}
    BY DEF HandleBlocked, WalkInit, Walk, Compare, RemoveHead, RemoveTail, RemoveNext, RemovePrev, RemoveTest, StoreHead, StoreTail, StoreNext, StorePrev, RemoveSize, RemoveStore, Wake, HeapStep, At
  <2> QED BY <2>1, HandleBlockedInv DEF PlaceInv, Statement, Registers
<1>2. PICK h, k : Placed(h, k)
  BY DEF PlaceInv
<1>3. /\ h \in HeapOver(Queue, Pointer) /\ Lists(h, Queue, k)
      /\ heap = Half(pc[c], loc[c], h) /\ WalkOK(pc[c], loc[c], h, Elements(k[Delayed]))
      /\ pc[c] # "wake" => Listed(k, {}, state, Created)
      /\ pc[c] = "wake" => Listed(k, {w}, state, Created)
  BY <1>1, <1>2 DEF Placed, Moving, NextLabels, RunLabels
<1>4. heap.size = h.size /\ Delayed \in Queue /\ k[Delayed] \in Seq(Task)
  BY <1>3, HalfFields, QueueKinds DEF Lists
<1>5. \A u \in Elements(k[Delayed]) : u \in Task /\ u # NULL
  BY <1>4, SequenceOfTasks DEF Elements
<1>6. /\ UnlinkHead(h, Delayed, w) = Half("unlink_tail", r, h)
      /\ UnlinkTail(Half("unlink_tail", r, h), Delayed, w) = Half("unlink_next", r, h)
      /\ UnlinkNext(Half("unlink_next", r, h), w) = Half("unlink_prev", r, h)
      /\ UnlinkPrev(Half("unlink_prev", r, h), w) = Half("unlink_size", r, h)
      /\ Half("unlink_store", r, h) = Half("unlink_size", r, h)
      /\ Half("store_tail", r, h) = Half("unlink_tail", r, h)
      /\ Half("store_next", r, h) = Half("unlink_next", r, h)
      /\ Half("store_prev", r, h) = Half("unlink_prev", r, h)
      /\ Half("unlink_head", r, h) = h /\ Half("store_head", r, h) = h
  BY <1>3, HalfStatements
<1>l. /\ Half("unlink_tail", r, h).tail = h.tail /\ Half("unlink_tail", r, h).prev = h.prev
      /\ Half("unlink_next", r, h).next = h.next /\ Half("unlink_next", r, h).prev = h.prev
      /\ Half("unlink_prev", r, h).prev = h.prev
      /\ w \in Task => Half("unlink_prev", r, h).next[w] = h.next[w]
  BY <1>3, HalfLoads
<1>7. ASSUME NEW l \in WalkLabels \ {"wake"}, pc[c] # "wake",
             pc' = [pc EXCEPT ![c] = l], heap' = Half(l, loc'[c], h),
             UNCHANGED <<tcbs, sched, ret, halt>>, \A d \in Ctx \ {c} : loc'[d] = loc[d],
             WalkOK(l, loc'[c], h, Elements(k[Delayed]))
      PROVE  PlaceInv' /\ SameLines
  BY <1>1, <1>2, <1>7, HalfStep DEF tcbs, sched
<1> USE DEF HeapStep, At, Goto
<1>8. ASSUME WalkInit(c)
      PROVE  PlaceInv' /\ SameLines
  <2> USE <1>8 DEF WalkInit
  <2>1. loc'[c].walker = heap.head[Delayed] /\ \A d \in Ctx \ {c} : loc'[d] = loc[d]
    BY <1>1 DEF SchedulerInv, TypeOK, Locals
  <2>2. heap = h /\ heap' = Half("walk", loc'[c], h)
    BY <1>3 DEF Half
  <2>3. h.head[Delayed] \in Elements(k[Delayed]) \union {NULL}
    BY <1>3, <1>4 DEF Lists, ListOf, Elements
  <2>4. WalkOK("walk", loc'[c], h, Elements(k[Delayed]))
    BY <2>1, <2>2, <2>3 DEF WalkOK
  <2> QED BY <1>7, <2>1, <2>2, <2>4
<1>9. ASSUME Walk(c) /\ w # NULL
      PROVE  PlaceInv' /\ SameLines
  <2> USE <1>9 DEF Walk
  <2>1. /\ loc'[c].walker = w /\ loc'[c].next = heap.next[w]
        /\ \A d \in Ctx \ {c} : loc'[d] = loc[d]
    BY <1>1 DEF SchedulerInv, TypeOK, Locals
  <2>2. heap = h /\ heap' = Half("compare", loc'[c], h)
    BY <1>3 DEF Half
  <2>3. WalkOK("compare", loc'[c], h, Elements(k[Delayed]))
    BY <1>3, <2>1, <2>2 DEF WalkOK
  <2> QED BY <1>7, <2>1, <2>2, <2>3
<1>10. ASSUME Walk(c) /\ w = NULL
       PROVE  PlaceInv' /\ SameLines
  <2> USE <1>10 DEF Walk
  <2>1. /\ "requeue" \in Label \ {"idle", "add_new"}
        /\ "requeue" \notin Deciding /\ "requeue" \in Undecided
    BY DEF Label, KernelLabels, Deciding, Undecided, NextLabels, RunLabels
  <2>2. heap = h /\ heap' = Half("requeue", loc'[c], h)
    BY <1>3 DEF Half
  <2>3. \A d \in Ctx \ {c} : loc'[d] = loc[d]
    BY <1>1 DEF SchedulerInv, TypeOK
  <2>4. Alone' /\ RunningStates' /\ NewTasks' /\ Created' = Created
    BY <1>1, <2>1, <2>3, QuietStep DEF tcbs, sched
  <2>5. Executing' = c /\ Statement' = "requeue" /\ Registers' = loc'[c]
    BY <1>1, <2>1, SameContext DEF sched
  <2>6. MainOK'
    BY <1>1, NotMain
  <2>7. Placed(h, k)'
    <3>1. Moving("requeue", loc'[c], cur_task) = {}
      BY DEF Moving, NextLabels, RunLabels
    <3>2. WalkOK("requeue", loc'[c], h, Elements(k[Delayed]))
      BY DEF WalkOK
    <3> QED BY <1>3, <2>2, <2>4, <2>5, <3>1, <3>2 DEF Placed, tcbs, sched
  <2>8. MovingStates' /\ HighestChosen'
    BY <2>5 DEF MovingStates, HighestChosen, SwitchLabels, NextLabels, RunLabels
  <2>9. BitmapMatches' /\ HaltsForNoTask'
    BY DEF PlaceInv, BitmapMatches, HaltsForNoTask, sched
  <2>10. SameLines
    BY <1>2, <2>7 DEF SameLines
  <2> QED BY <1>1, <2>4, <2>6, <2>7, <2>8, <2>9, <2>10 DEF PlaceInv
<1>11. ASSUME Compare(c)
       PROVE  PlaceInv' /\ SameLines
  <2> USE <1>11 DEF Compare
  <2>1. heap = h /\ w \in Elements(k[Delayed]) /\ loc[c].next = h.next[w]
    BY <1>3 DEF Half, WalkOK
  <2>2. PICK i \in 1 .. Len(k[Delayed]) : w = k[Delayed][i]
    BY <2>1 DEF Elements
  <2>3. heap.size[Delayed] # 0
    BY <1>3, <1>4, <2>1, <2>2, ListSizes
  <2>4. halt' = halt
    BY <2>3
  <2>5. CASE Expired(w)
    <3>1. loc' = loc /\ heap' = Half("unlink_head", loc'[c], h)
      BY <2>1, <2>5 DEF Half
    <3>2. WalkOK("unlink_head", loc'[c], h, Elements(k[Delayed]))
      BY <2>1, <3>1 DEF WalkOK
    <3> QED BY <1>7, <2>4, <2>5, <3>1, <3>2
  <2>6. CASE ~Expired(w)
    <3>1. loc'[c].walker = loc[c].next /\ \A d \in Ctx \ {c} : loc'[d] = loc[d]
      BY <1>1, <2>6 DEF SchedulerInv, TypeOK, Locals
    <3>2. heap' = Half("walk", loc'[c], h)
      BY <2>1 DEF Half
    <3>3. h.next[w] \in Elements(k[Delayed]) \union {NULL}
      BY <1>3, <1>4, <2>2, NextInList
    <3>4. WalkOK("walk", loc'[c], h, Elements(k[Delayed]))
      BY <2>1, <3>1, <3>3 DEF WalkOK
    <3> QED BY <1>7, <2>4, <2>6, <3>1, <3>2, <3>4
  <2> QED BY <2>5, <2>6
<1> DEFINE StoreOK(l, at, val) ==
             /\ l = "store_head" => h.head[Delayed] = w /\ val = h.next[w]
             /\ l = "store_tail" => h.tail[Delayed] = w /\ val = h.prev[w]
             /\ l \in {"store_next", "store_prev"} => at # NULL
             /\ l = "store_next" => at = h.prev[w] /\ val = h.next[w]
             /\ l = "store_prev" => at = h.next[w] /\ val = h.prev[w]
<1>12. ASSUME NEW from \in {"unlink_head", "unlink_tail", "unlink_next", "unlink_prev"},
              NEW store \in {"store_head", "store_tail", "store_next", "store_prev"},
              NEW at, NEW val, pc[c] = from, pc' = [pc EXCEPT ![c] = store],
              loc' = [loc EXCEPT ![c].at = at, ![c].val = val],
              UNCHANGED <<heap, tcbs, sched, primask, ret, halt>>,
              Half(store, r, h) = Half(from, r, h), StoreOK(store, at, val)
       PROVE  PlaceInv' /\ SameLines
  <2>1. /\ heap = Half(from, r, h) /\ w \in Elements(k[Delayed]) /\ loc[c].next = h.next[w]
    BY <1>3, <1>12 DEF WalkOK
  <2>2. /\ loc'[c].list = loc[c].list /\ loc'[c].task = loc[c].task
        /\ loc'[c].walker = w /\ loc'[c].next = loc[c].next
        /\ loc'[c].at = at /\ loc'[c].val = val /\ \A d \in Ctx \ {c} : loc'[d] = loc[d]
    BY <1>1, <1>12 DEF SchedulerInv, TypeOK, Locals
  <2>3. heap' = Half(store, loc'[c], h)
    <3>1. Half(store, loc'[c], h) = Half(store, loc[c], h)
      BY <2>2, HalfRegisters
    <3> QED BY <1>12, <2>1, <3>1
  <2>4. WalkOK(store, loc'[c], h, Elements(k[Delayed]))
    BY <1>12, <2>1, <2>2 DEF WalkOK
  <2> QED BY <1>7, <1>12, <2>2, <2>3, <2>4
<1>21. ASSUME NEW from \in {"unlink_head", "unlink_tail", "unlink_next", "unlink_prev"},
              NEW else \in {"unlink_tail", "unlink_next", "unlink_prev", "unlink_size"},
              pc[c] = from, pc' = [pc EXCEPT ![c] = else],
              UNCHANGED <<heap, tcbs, sched, primask, ret, loc, halt>>,
              Half(else, r, h) = Half(from, r, h)
       PROVE  PlaceInv' /\ SameLines
  <2>1. /\ heap' = Half(else, loc'[c], h) /\ loc' = loc
        /\ w \in Elements(k[Delayed]) /\ loc[c].next = h.next[w]
    BY <1>3, <1>21 DEF WalkOK
  <2>2. WalkOK(else, loc'[c], h, Elements(k[Delayed]))
    BY <2>1 DEF WalkOK
  <2> QED BY <1>7, <1>21, <2>1, <2>2
<1>13. ASSUME NEW from \in {"store_head", "store_tail", "store_next", "store_prev"},
              NEW to \in {"unlink_tail", "unlink_next", "unlink_prev", "unlink_size"},
              NEW g, HeapStep(c, from, to, g), g = Half(to, r, h)
       PROVE  PlaceInv' /\ SameLines
  <2>1. /\ pc[c] = from /\ heap' = Half(to, loc'[c], h) /\ UNCHANGED <<tcbs, sched, ret, halt>>
        /\ pc' = [pc EXCEPT ![c] = to] /\ loc' = loc
        /\ w \in Elements(k[Delayed]) /\ loc[c].next = h.next[w]
    BY <1>3, <1>13 DEF WalkOK
  <2>2. WalkOK(to, loc'[c], h, Elements(k[Delayed]))
    BY <2>1 DEF WalkOK
  <2> QED BY <1>7, <2>1, <2>2
<1>14. ASSUME RemoveHead(c) \/ StoreHead(c)
       PROVE  PlaceInv' /\ SameLines
  <2>1. CASE RemoveHead(c)
    <3>1. heap = h /\ pc[c] = "unlink_head" /\ UNCHANGED <<heap, tcbs, sched, primask, ret, halt>>
      BY <1>3, <1>6, <2>1 DEF RemoveHead, RemoveTest
    <3>2. CASE h.head[Delayed] = w
      <4>1. /\ pc' = [pc EXCEPT ![c] = "store_head"]
            /\ loc' = [loc EXCEPT ![c].at = NULL, ![c].val = h.next[w]]
        BY <2>1, <3>1, <3>2 DEF RemoveHead, RemoveTest
      <4>2. StoreOK("store_head", NULL, h.next[w])
        BY <3>2
      <4> HIDE DEF StoreOK
      <4> QED BY <1>6, <1>12, <3>1, <4>1, <4>2
    <3>3. CASE h.head[Delayed] # w
      <4>1. pc' = [pc EXCEPT ![c] = "unlink_tail"] /\ UNCHANGED loc
        BY <2>1, <3>1, <3>3 DEF RemoveHead, RemoveTest
      <4>2. Half("unlink_tail", r, h) = h
        BY <1>6, <3>3 DEF UnlinkHead
      <4> QED BY <1>6, <1>21, <3>1, <4>1, <4>2
    <3> QED BY <3>2, <3>3
  <2>2. CASE StoreHead(c)
    <3>1. heap = h /\ h.head[Delayed] = w /\ loc[c].val = h.next[w]
      BY <1>3, <1>6, <2>2 DEF StoreHead, WalkOK
    <3>2. [heap EXCEPT !.head[Delayed] = loc[c].val] = Half("unlink_tail", r, h)
      BY <1>6, <3>1 DEF UnlinkHead
    <3> QED BY <1>13, <2>2, <3>2 DEF StoreHead
  <2> QED BY <1>14, <2>1, <2>2
<1>15. ASSUME RemoveTail(c) \/ StoreTail(c)
       PROVE  PlaceInv' /\ SameLines
  <2> DEFINE g == Half("unlink_tail", r, h)
  <2>1. CASE RemoveTail(c)
    <3>1. heap = g /\ pc[c] = "unlink_tail" /\ UNCHANGED <<heap, tcbs, sched, primask, ret, halt>>
      BY <1>3, <1>6, <2>1 DEF RemoveTail, RemoveTest
    <3>2. CASE g.tail[Delayed] = w
      <4>1. /\ pc' = [pc EXCEPT ![c] = "store_tail"]
            /\ loc' = [loc EXCEPT ![c].at = NULL, ![c].val = g.prev[w]]
        BY <2>1, <3>1, <3>2 DEF RemoveTail, RemoveTest
      <4>2. StoreOK("store_tail", NULL, g.prev[w])
        BY <1>l, <3>2
      <4> HIDE DEF StoreOK
      <4> QED BY <1>6, <1>12, <3>1, <4>1, <4>2
    <3>3. CASE g.tail[Delayed] # w
      <4>1. pc' = [pc EXCEPT ![c] = "unlink_next"] /\ UNCHANGED loc
        BY <2>1, <3>1, <3>3 DEF RemoveTail, RemoveTest
      <4>2. Half("unlink_next", r, h) = g
        BY <1>6, <3>3 DEF UnlinkTail
      <4> QED BY <1>6, <1>21, <3>1, <4>1, <4>2
    <3> QED BY <3>2, <3>3
  <2>2. CASE StoreTail(c)
    <3>1. heap = g /\ g.tail[Delayed] = w /\ loc[c].val = g.prev[w]
      BY <1>3, <1>6, <1>l, <2>2 DEF StoreTail, WalkOK
    <3>2. [heap EXCEPT !.tail[Delayed] = loc[c].val] = Half("unlink_next", r, h)
      BY <1>6, <3>1 DEF UnlinkTail
    <3> QED BY <1>13, <2>2, <3>2 DEF StoreTail
  <2> QED BY <1>15, <2>1, <2>2
<1>16. ASSUME RemoveNext(c) \/ StoreNext(c)
       PROVE  PlaceInv' /\ SameLines
  <2> DEFINE g == Half("unlink_next", r, h)
  <2>1. CASE RemoveNext(c)
    <3>1. heap = g /\ pc[c] = "unlink_next" /\ UNCHANGED <<heap, tcbs, sched, primask, ret, halt>>
      BY <1>3, <1>6, <2>1 DEF RemoveNext, RemoveTest
    <3>2. CASE g.prev[w] # NULL
      <4>1. /\ pc' = [pc EXCEPT ![c] = "store_next"]
            /\ loc' = [loc EXCEPT ![c].at = g.prev[w], ![c].val = g.next[w]]
        BY <2>1, <3>1, <3>2 DEF RemoveNext, RemoveTest
      <4>2. StoreOK("store_next", g.prev[w], g.next[w])
        BY <1>l, <3>2
      <4> HIDE DEF StoreOK
      <4> QED BY <1>6, <1>12, <3>1, <4>1, <4>2
    <3>3. CASE g.prev[w] = NULL
      <4>1. pc' = [pc EXCEPT ![c] = "unlink_prev"] /\ UNCHANGED loc
        BY <2>1, <3>1, <3>3 DEF RemoveNext, RemoveTest
      <4>2. Half("unlink_prev", r, h) = g
        BY <1>6, <3>3 DEF UnlinkNext
      <4> QED BY <1>6, <1>21, <3>1, <4>1, <4>2
    <3> QED BY <3>2, <3>3
  <2>2. CASE StoreNext(c)
    <3>1. heap = g /\ g.prev[w] # NULL /\ loc[c].at = g.prev[w] /\ loc[c].val = g.next[w]
      BY <1>3, <1>6, <1>l, <2>2 DEF StoreNext, WalkOK
    <3>2. [heap EXCEPT !.next[loc[c].at] = loc[c].val] = Half("unlink_prev", r, h)
      BY <1>6, <3>1 DEF UnlinkNext
    <3> QED BY <1>13, <2>2, <3>2 DEF StoreNext
  <2> QED BY <1>16, <2>1, <2>2
<1>20. ASSUME RemovePrev(c) \/ StorePrev(c)
       PROVE  PlaceInv' /\ SameLines
  <2> DEFINE g == Half("unlink_prev", r, h)
  <2>0. w \in Task
    BY <1>3, <1>5, <1>20 DEF RemovePrev, RemoveTest, StorePrev, WalkOK
  <2>1. CASE RemovePrev(c)
    <3>1. heap = g /\ pc[c] = "unlink_prev" /\ UNCHANGED <<heap, tcbs, sched, primask, ret, halt>>
      BY <1>3, <1>6, <2>1 DEF RemovePrev, RemoveTest
    <3>2. CASE g.next[w] # NULL
      <4>1. /\ pc' = [pc EXCEPT ![c] = "store_prev"]
            /\ loc' = [loc EXCEPT ![c].at = g.next[w], ![c].val = g.prev[w]]
        BY <2>1, <3>1, <3>2 DEF RemovePrev, RemoveTest
      <4>2. StoreOK("store_prev", g.next[w], g.prev[w])
        BY <1>l, <2>0, <3>2
      <4> HIDE DEF StoreOK
      <4> QED BY <1>6, <1>12, <3>1, <4>1, <4>2
    <3>3. CASE g.next[w] = NULL
      <4>1. pc' = [pc EXCEPT ![c] = "unlink_size"] /\ UNCHANGED loc
        BY <2>1, <3>1, <3>3 DEF RemovePrev, RemoveTest
      <4>2. Half("unlink_size", r, h) = g
        BY <1>6, <3>3 DEF UnlinkPrev
      <4> QED BY <1>6, <1>21, <3>1, <4>1, <4>2
    <3> QED BY <3>2, <3>3
  <2>2. CASE StorePrev(c)
    <3>1. heap = g /\ g.next[w] # NULL /\ loc[c].at = g.next[w] /\ loc[c].val = g.prev[w]
      BY <1>3, <1>6, <1>l, <2>0, <2>2 DEF StorePrev, WalkOK
    <3>2. [heap EXCEPT !.prev[loc[c].at] = loc[c].val] = Half("unlink_size", r, h)
      BY <1>6, <3>1 DEF UnlinkPrev
    <3> QED BY <1>13, <2>2, <3>2 DEF StorePrev
  <2> QED BY <1>20, <2>1, <2>2
<1>17. ASSUME RemoveSize(c)
       PROVE  PlaceInv' /\ SameLines
  <2> USE <1>17 DEF RemoveSize
  <2>1. heap = Half("unlink_size", r, h) /\ heap' = heap
    BY <1>3
  <2>2. /\ loc'[c].list = loc[c].list /\ loc'[c].task = loc[c].task
        /\ loc'[c].walker = w /\ loc'[c].next = loc[c].next
        /\ loc'[c].reg = h.size[Delayed] /\ \A d \in Ctx \ {c} : loc'[d] = loc[d]
    BY <1>1, <1>4 DEF SchedulerInv, TypeOK, Locals
  <2>3. heap' = Half("unlink_store", loc'[c], h)
    <3>1. Half("unlink_store", loc'[c], h) = Half("unlink_store", r, h)
      <4> HIDE <1>17
      <4> QED BY <2>2, HalfRegisters
    <3> QED BY <1>6, <2>1, <3>1
  <2>4. WalkOK("unlink_store", loc'[c], h, Elements(k[Delayed]))
    BY <1>3, <2>2 DEF WalkOK
  <2> QED BY <1>7, <2>2, <2>3, <2>4
<1>18. ASSUME RemoveStore(c)
       PROVE  PlaceInv' /\ SameLines
  <2> USE <1>18 DEF RemoveStore
  <2>1. w \in Elements(k[Delayed]) /\ loc[c].next = h.next[w] /\ loc[c].reg = h.size[Delayed]
    BY <1>3 DEF WalkOK
  <2>2. heap' = task_remove(h, Delayed, w)
    <3>1. heap = Half("unlink_store", r, h)
      BY <1>3
    <3>2. heap' = ClearLinks([heap EXCEPT !.size[Delayed] = Decr(loc[c].reg)], w)
      OBVIOUS
    <3>3. ClearLinks([Half("unlink_store", r, h) EXCEPT
                        !.size[Delayed] = Decr(h.size[Delayed])], w)
            = task_remove(h, Delayed, w)
      BY <1>3, HalfDone
    <3> HIDE <1>18
    <3> QED BY <2>1, <3>1, <3>2, <3>3
  <2>3. PICK g, d :
           /\ g = task_remove(h, Delayed, w)
           /\ g \in HeapOver(Queue, Pointer) /\ Lists(g, Queue, d)
           /\ Listed(d, {w}, state, Created)
           /\ w \in Created /\ state[w] = "DELAYED"
           /\ h.next[w] \in Elements(d[Delayed]) \union {NULL}
           /\ h.size[Delayed] # 0
           /\ \A p \in Priority : g.size[Ready(p)] = h.size[Ready(p)]
           /\ \A p \in Priority : d[Ready(p)] = k[Ready(p)]
    <3>1. Listed(k, {}, state, Created)
      BY <1>3
    <3> HIDE <1>18 DEF w
    <3> QED BY <1>3, <2>1, <3>1, UnlinkCompletes
  <2>4. /\ "wake" \in Label \ {"idle", "add_new"}
        /\ "wake" \notin Deciding /\ "wake" \in Undecided
    BY DEF Label, KernelLabels, Deciding, Undecided, NextLabels, RunLabels
  <2>5. /\ loc'[c].walker = w /\ loc'[c].next = loc[c].next
        /\ \A e \in Ctx \ {c} : loc'[e] = loc[e]
    BY <1>1 DEF SchedulerInv, TypeOK, Locals
  <2>6. Alone' /\ RunningStates' /\ NewTasks' /\ Created' = Created
    BY <1>1, <2>4, <2>5, QuietStep DEF tcbs, sched
  <2>7. Executing' = c /\ Statement' = "wake" /\ Registers' = loc'[c]
    BY <1>1, <2>4, SameContext DEF sched
  <2>8. MainOK'
    BY <1>1, NotMain
  <2>9. Placed(g, d)'
    <3>1. heap' = Half("wake", loc'[c], g)
      BY <2>2, <2>3 DEF Half
    <3>2. Moving("wake", loc'[c], cur_task) = {w}
      BY <2>5 DEF Moving, NextLabels, RunLabels
    <3>3. WalkOK("wake", loc'[c], g, Elements(d[Delayed]))
      BY <2>1, <2>3, <2>5 DEF WalkOK
    <3> QED BY <2>3, <2>6, <2>7, <3>1, <3>2, <3>3 DEF Placed, tcbs, sched
  <2>10. MovingStates' /\ HighestChosen'
    BY <2>3, <2>5, <2>6, <2>7 DEF MovingStates, HighestChosen, SwitchLabels, NextLabels, RunLabels, tcbs
  <2>11. BitmapMatches' /\ HaltsForNoTask'
    BY <1>4, <2>2, <2>3 DEF PlaceInv, BitmapMatches, HaltsForNoTask, sched
  <2>12. SameLines
    BY <1>2, <2>3, <2>9 DEF SameLines
  <2> QED BY <1>1, <2>6, <2>8, <2>9, <2>10, <2>11, <2>12 DEF PlaceInv
<1>19. CASE Wake(c)
  <2> USE <1>19 DEF Wake
  <2>1. /\ heap = h /\ loc[c].next \in Elements(k[Delayed]) \union {NULL}
        /\ Listed(k, {w}, state, Created)
    BY <1>3 DEF Half, WalkOK
  <2>2. w \in Created /\ w \in Task /\ state[w] = "DELAYED"
    BY <1>1 DEF PlaceInv, MovingStates, Created
  <2>3. /\ \E d : /\ heap' \in HeapOver(Queue, Pointer) /\ Lists(heap', Queue, d)
                  /\ Listed(d, {}, state', Created) /\ d[Delayed] = k[Delayed]
                  /\ Joined(k, d, w)
        /\ BitmapMatches' /\ halt' = halt
        /\ state'[w] = "READY" /\ \A u \in Task \ {w} : state'[u] = state[u]
    <3>1. \A q \in Queue : w \notin Elements(k[q])
      BY <2>1 DEF Listed
    <3>2. \A p \in Priority : p \in ready_bitmap <=> h.size[Ready(p)] # 0
      BY <2>1 DEF PlaceInv, BitmapMatches
    <3>3. ReadyFrom(h, w) /\ TypeOK
      BY <1>1, <2>1 DEF task_add_ready, SchedulerInv
    <3> HIDE <1>19 DEF w
    <3> QED BY <1>3, <2>1, <2>2, <3>1, <3>2, <3>3, ReadyPlaced
  <2>4. PICK g, d : /\ g = heap' /\ g \in HeapOver(Queue, Pointer) /\ Lists(g, Queue, d)
                    /\ Listed(d, {}, state', Created) /\ d[Delayed] = k[Delayed]
                    /\ Joined(k, d, w)
    BY <2>3
  <2>5. "walk" \in Label \ {"idle", "add_new"} /\ "walk" \notin Deciding /\ "walk" \in Undecided
    BY DEF Label, KernelLabels, Deciding, Undecided, NextLabels, RunLabels
  <2>6. loc'[c].walker = loc[c].next /\ \A e \in Ctx \ {c} : loc'[e] = loc[e]
    BY <1>1 DEF SchedulerInv, TypeOK, Locals
  <2>7. Alone' /\ RunningStates' /\ NewTasks' /\ Created' = Created
    BY <1>1, <2>2, <2>3, <2>5, <2>6, StateStep
  <2>8. Executing' = c /\ Statement' = "walk" /\ Registers' = loc'[c]
    BY <1>1, <2>5, SameContext
  <2>9. MainOK'
    BY <1>1, NotMain
  <2>10. Placed(g, d)'
    <3>1. heap' = Half("walk", loc'[c], g)
      BY <2>4 DEF Half
    <3>2. Moving("walk", loc'[c], cur_task) = {}
      BY DEF Moving, NextLabels, RunLabels
    <3>3. WalkOK("walk", loc'[c], g, Elements(d[Delayed]))
      BY <2>1, <2>4, <2>6 DEF WalkOK
    <3> QED BY <2>4, <2>7, <2>8, <3>1, <3>2, <3>3 DEF Placed
  <2>11. MovingStates' /\ HighestChosen'
    BY <2>8 DEF MovingStates, HighestChosen, SwitchLabels, NextLabels, RunLabels
  <2>12. HaltsForNoTask'
    BY <2>3 DEF PlaceInv, HaltsForNoTask
  <2>13. Joins(w)
    BY <1>2, <2>4, <2>10 DEF Joins
  <2> QED BY <1>1, <2>3, <2>7, <2>9, <2>10, <2>11, <2>12, <2>13 DEF PlaceInv
<1> QED BY <1>8, <1>9, <1>10, <1>11, <1>14, <1>15, <1>16, <1>17, <1>18, <1>19, <1>20
        DEF HandleBlocked

\* task_pop takes t from q and makes the heap g with the lists d of the heap h with the
\* lists c.
PopEffect(h, c, q, g, d, t) ==
  /\ g = task_pop(h, q) /\ t = Popped(h, q)
  /\ g \in HeapOver(Queue, Pointer) /\ Lists(g, Queue, d)
  /\ Listed(d, {t}, state, Created)
  /\ t \in Created /\ q \in HomeIn(state, t)
  /\ \A o \in Queue \ {q} : g.size[o] = h.size[o]
  /\ Len(c[q]) # 0 /\ t = c[q][1]
  /\ \A o \in Queue : d[o] = IF o = q THEN Without(c[o], 1) ELSE c[o]

\* task_pop of a queue that is not empty.
LEMMA PopCompletes ==
  ASSUME FewTasks, NEW h \in HeapOver(Queue, Pointer), NEW c, Lists(h, Queue, c),
         Listed(c, {}, state, Created), NEW q \in Queue, h.size[q] # 0
  PROVE  /\ ~PopsNothing(h, q) /\ ~PopFaults(h, q)
         /\ \E g, d, t : PopEffect(h, c, q, g, d, t)
<1> DEFINE t == c[q][1]
           g == task_pop(h, q)
           d == [c EXCEPT ![q] = Without(@, 1)]
<1>1. Len(c[q]) # 0 /\ 1 \in 1 .. Len(c[q]) /\ Created \in SUBSET Task
  BY ListSizes DEF Created
<1>2. ~PopsNothing(h, q) /\ ~PopFaults(h, q) /\ t = Popped(h, q) /\ Lists(g, Queue, d)
  BY <1>1, PopLists
<1>3. Listed(d, {t}, state, Created) /\ t \in Created /\ q \in HomeIn(state, t)
  BY <1>1, ListedWithout
<1>4. g \in HeapOver(Queue, Pointer)
  BY PopType DEF Pointer
<1>5. \A o \in Queue : d[o] = IF o = q THEN Without(c[o], 1) ELSE c[o]
  BY DEF Lists
<1>6. g = task_pop(h, q) /\ t = c[q][1]
  OBVIOUS
<1> HIDE DEF g, d
<1>7. \A o \in Queue \ {q} : g.size[o] = h.size[o]
  BY <1>2, <1>5, ListSizes
<1> HIDE DEF t
<1>8. PopEffect(h, c, q, g, d, t)
  BY <1>1, <1>2, <1>3, <1>4, <1>5, <1>6, <1>7 DEF PopEffect
<1> QED BY <1>2, <1>8

LEMMA RequeuePlace ==
  ASSUME FewTasks, PlaceInv, NEW c \in Ctx, Requeue(c), UNCHANGED <<torn, stale>>
  PROVE  /\ PlaceInv'
         /\ cur_task # NULL /\ state[cur_task] = "RUNNING" => Joins(cur_task)
<1> USE DEF At, Goto, Requeue
<1>1. /\ c = Executing /\ pc[c] = "requeue" /\ SchedulerInv /\ SchedulerInv'
      /\ Statement = pc[c] /\ Registers = loc[c]
  <2>1. c = Executing /\ pc[c] = "requeue"
    OBVIOUS
  <2> QED BY <2>1, TickBodyInv DEF TickBody, PlaceInv, Statement, Registers
<1>2. PICK h, k : Placed(h, k)
  BY DEF PlaceInv
<1>3. /\ h \in HeapOver(Queue, Pointer) /\ Lists(h, Queue, k) /\ heap = h
      /\ Listed(k, {}, state, Created)
  BY <1>1, <1>2 DEF Placed, Moving, Half, PushLabels, NextLabels, RunLabels
<1>4. /\ "bitmap" \in Label \ {"idle", "add_new"} /\ "bitmap" \in Undecided
      /\ "bitmap" \in Deciding
  BY DEF Label, KernelLabels, Deciding, Undecided, NextLabels, RunLabels
<1>5. Executing' = c /\ Statement' = "bitmap" /\ Registers' = loc'[c] /\ (Alone => Alone')
      /\ \A d \in Ctx \ {c} : pc'[d] = pc[d]
  BY <1>1, <1>4, SameContext
<1>6. MainOK'
  BY <1>1, NotMain
<1>7. MovingStates' /\ HighestChosen'
  BY <1>5 DEF MovingStates, HighestChosen, SwitchLabels, NextLabels, RunLabels, PushLabels
<1>8. ASSUME NEW g, NEW d, g = heap', g \in HeapOver(Queue, Pointer), Lists(g, Queue, d),
             Listed(d, {}, state', Created')
      PROVE  Placed(g, d)'
  <2>1. heap' = Half("bitmap", loc'[c], g)
    BY <1>8 DEF Half
  <2>2. Moving("bitmap", loc'[c], cur_task') = {}
    BY DEF Moving, PushLabels, NextLabels, RunLabels
  <2>3. WalkOK("bitmap", loc'[c], g, Elements(d[Delayed]))
    BY DEF WalkOK, WalkLabels
  <2> QED BY <1>5, <1>8, <2>1, <2>2, <2>3 DEF Placed
<1>9. CASE cur_task # NULL /\ state[cur_task] = "RUNNING"
  <2> DEFINE t == cur_task
  <2>1. t \in Created /\ t \in Task /\ state[t] = "RUNNING"
    BY <1>1, <1>9 DEF SchedulerInv, TypeOK, Known, Created
  <2>2. /\ \E d : /\ heap' \in HeapOver(Queue, Pointer) /\ Lists(heap', Queue, d)
                  /\ Listed(d, {}, state', Created) /\ d[Delayed] = k[Delayed]
                  /\ Joined(k, d, t)
        /\ BitmapMatches' /\ halt' = halt
        /\ state'[t] = "READY" /\ \A u \in Task \ {t} : state'[u] = state[u]
    <3>1. \A q \in Queue : t \notin Elements(k[q])
      <4>1. HomeIn(state, t) = {}
        BY <2>1, OneHome
      <4> QED BY <1>3, <4>1 DEF Listed
    <3>2. \A p \in Priority : p \in ready_bitmap <=> h.size[Ready(p)] # 0
      BY <1>3 DEF PlaceInv, BitmapMatches
    <3>3. ReadyFrom(h, t) /\ TypeOK
      BY <1>1, <1>3, <1>9 DEF task_add_ready, SchedulerInv
    <3> HIDE DEF t, Requeue
    <3> QED BY <1>3, <2>1, <3>1, <3>2, <3>3, ReadyPlaced
  <2>3. Alone' /\ RunningStates' /\ NewTasks' /\ Created' = Created
    BY <1>1, <1>4, <2>1, <2>2, StateStep
  <2>4. PICK g, d : /\ g = heap' /\ g \in HeapOver(Queue, Pointer) /\ Lists(g, Queue, d)
                    /\ Listed(d, {}, state', Created) /\ Joined(k, d, t)
    BY <2>2
  <2>5. Placed(g, d)'
    BY <1>8, <2>3, <2>4
  <2>7. Joins(t)
    BY <1>2, <2>4, <2>5 DEF Joins
  <2>6. HaltsForNoTask'
    BY <2>2 DEF PlaceInv, HaltsForNoTask
  <2> QED BY <1>1, <1>6, <1>7, <2>2, <2>3, <2>5, <2>6, <2>7 DEF PlaceInv
<1>10. CASE ~(cur_task # NULL /\ state[cur_task] = "RUNNING")
  <2>1. UNCHANGED <<heap, state, ready_bitmap, halt, pid, next_pid, cur_task>>
    BY <1>10
  <2>2. Created' = Created
    BY <1>1, <2>1, NoCreation
  <2>3. RunningStates'
    <3>1. \A t \in Created : state[t] # "RUNNING"
      BY <1>10, TaskQueueAssumption DEF PlaceInv, RunningStates, Created
    <3> QED BY <1>4, <1>5, <2>1, <2>2, <3>1 DEF RunningStates
  <2>4. NewTasks'
    BY <1>1, <1>5, <2>1, <2>2 DEF PlaceInv, NewTasks, Statement
  <2>5. Placed(h, k)'
    BY <1>3, <1>8, <2>1, <2>2
  <2>6. BitmapMatches' /\ HaltsForNoTask'
    BY <2>1 DEF PlaceInv, BitmapMatches, HaltsForNoTask
  <2> QED BY <1>1, <1>5, <1>6, <1>7, <1>10, <2>3, <2>4, <2>5, <2>6 DEF PlaceInv
<1> QED BY <1>9, <1>10

\* A step of scheduler_tick that leaves the lists and the states of the tasks.
LEMMA DecisionStep ==
  ASSUME PlaceInv, SchedulerInv', NEW c \in Ctx, c = Executing,
         pc[c] \notin {"main", "add_new", "spin"} \union PushLabels \union WalkLabels,
         NEW l \in Label \ ({"idle", "add_new"} \union PushLabels \union WalkLabels),
         pc' = [pc EXCEPT ![c] = l], \A d \in Ctx \ {c} : loc'[d] = loc[d],
         UNCHANGED <<heap, state, pid, next_pid, cur_process, ready_bitmap, ret>>,
         UNCHANGED <<torn, stale>>, RunningStates',
         Moving(l, loc'[c], cur_task') \ {NULL} = Moving(pc[c], loc[c], cur_task) \ {NULL},
         HighestChosen', MovingStates', HaltsForNoTask'
  PROVE  PlaceInv'
<1>1. /\ Executing' = c /\ Statement' = l /\ Registers' = loc'[c]
      /\ Statement = pc[c] /\ Registers = loc[c]
      /\ \A d \in Ctx \ {c} : pc'[d] = pc[d]
      /\ Alone' /\ Created' = Created
  BY SameContext, NoCreation DEF PlaceInv, Statement, Registers
<1>2. MainOK'
  BY NotMain
<1>3. NewTasks'
  <2>1. pc'[c] # "add_new"
    BY <1>1 DEF Statement
  <2> QED BY <1>1, <2>1 DEF PlaceInv, NewTasks
<1>4. PICK h, k : Placed(h, k)
  BY DEF PlaceInv
<1>5. heap = h /\ heap' = Half(l, loc'[c], h)
  BY <1>1, <1>4 DEF Placed, Half, PushLabels, WalkLabels
<1>6. Listed(k, Moving(l, loc'[c], cur_task'), state, Created)
  <2>1. Listed(k, Moving(pc[c], loc[c], cur_task), state, Created) /\ Created \subseteq Task
    BY <1>1, <1>4 DEF Placed, Created
  <2> QED BY <2>1, TaskQueueAssumption DEF Listed
<1>7. WalkOK(l, loc'[c], h, Elements(k[Delayed]))
  BY DEF WalkOK, PushLabels, WalkLabels
<1>8. Placed(h, k)'
  BY <1>1, <1>4, <1>5, <1>6, <1>7 DEF Placed
<1>9. BitmapMatches'
  BY DEF PlaceInv, BitmapMatches
<1> QED BY <1>1, <1>2, <1>3, <1>8, <1>9 DEF PlaceInv

LEMMA DecisionPlace ==
  ASSUME FewTasks, PlaceInv, NEW c \in Ctx,
         ReadBitmap(c) \/ Dispatch(c) \/ LoadNext(c) \/ StoreNextProcess(c)
           \/ LoadRunning(c) \/ Count(c) \/ CountStore(c),
         UNCHANGED <<torn, stale>>
  PROVE  PlaceInv'
<1> USE DEF At, Goto, tcbs, sched, PushLabels, WalkLabels, NextLabels, RunLabels, SwitchLabels
<1>1. /\ c = Executing /\ SchedulerInv /\ SchedulerInv'
      /\ pc[c] \in {"bitmap", "dispatch", "next_load", "next_store", "run_load", "count",
                     "count_store"}
      /\ Statement = pc[c] /\ Registers = loc[c] /\ UNCHANGED ret
  <2>1. /\ c = Executing
        /\ pc[c] \in {"bitmap", "dispatch", "next_load", "next_store", "run_load", "count",
                       "count_store"}
        /\ UNCHANGED ret
    BY DEF ReadBitmap, Dispatch, LoadNext, StoreNextProcess, LoadRunning, ReadCurrent,
           Count, CountStore
  <2> QED BY <2>1, TickBodyInv DEF TickBody, PlaceInv, Statement, Registers
<1>2. /\ RunningStates /\ MovingStates /\ HighestChosen /\ HaltsForNoTask
      /\ loc \in [Ctx -> Locals] /\ Created \subseteq Task
  BY <1>1 DEF PlaceInv, SchedulerInv, TypeOK, Created
<1>3. ASSUME NEW l \in Label \ {"idle", "add_new"}, pc' = [pc EXCEPT ![c] = l],
             UNCHANGED <<pid, next_pid, cur_process>>
      PROVE  Executing' = c /\ Statement' = l /\ Registers' = loc'[c] /\ Created' = Created
  BY <1>1, <1>3, SameContext, NoCreation
<1>4. CASE ReadBitmap(c)
  <2> USE <1>4 DEF ReadBitmap
  <2> DEFINE l == IF ready_bitmap = {} THEN "dispatch" ELSE "pop"
  <2>1. l \in Label \ ({"idle", "add_new"} \union PushLabels \union WalkLabels)
        /\ pc' = [pc EXCEPT ![c] = l] /\ \A d \in Ctx \ {c} : loc'[d] = loc[d]
    BY <1>2 DEF Label, KernelLabels
  <2>2. Executing' = c /\ Statement' = l /\ Registers' = loc'[c] /\ Created' = Created
    BY <1>3, <2>1
  <2>3. /\ ready_bitmap = {} => loc'[c].task = NULL
        /\ ready_bitmap # {} => loc'[c].reg = Highest
    BY <1>2 DEF Locals
  <2>4. RunningStates'
    BY <1>1, <1>2, <2>2 DEF RunningStates, Deciding, Undecided
  <2>5. Moving(l, loc'[c], cur_task') \ {NULL} = Moving(pc[c], loc[c], cur_task) \ {NULL}
    BY <2>3 DEF Moving, NextLabels, RunLabels
  <2>6. HighestChosen'
    <3>1. CASE ready_bitmap = {}
      BY <2>2, <2>3, <3>1 DEF HighestChosen, Chosen
    <3>2. CASE ready_bitmap # {}
      <4>1. Highest \in ready_bitmap /\ \A o \in ready_bitmap : o <= Highest
        BY <1>1, <3>2, HighestIsReady DEF SchedulerInv, TypeOK
      <4> QED BY <2>2, <2>3, <3>2, <4>1 DEF HighestChosen
    <3> QED BY <3>1, <3>2
  <2>7. MovingStates' /\ HaltsForNoTask'
    BY <1>2, <2>2, <2>3 DEF MovingStates, HaltsForNoTask
  <2> HIDE DEF l
  <2> QED BY <1>1, <2>1, <2>4, <2>5, <2>6, <2>7, DecisionStep
<1>5. CASE Dispatch(c)
  <2> USE <1>5 DEF Dispatch
  <2>1. "next_load" \in Label \ ({"idle", "add_new"} \union PushLabels \union WalkLabels)
        /\ \A d \in Ctx \ {c} : loc'[d] = loc[d]
    BY <1>2 DEF Label, KernelLabels
  <2>2. Executing' = c /\ Statement' = "next_load" /\ Registers' = loc'[c] /\ Created' = Created
    BY <1>3, <2>1
  <2>3. RunningStates'
    BY <1>1, <1>2, <2>2 DEF RunningStates, Deciding, Undecided
  <2>4. Moving("next_load", loc'[c], cur_task') \ {NULL}
          = Moving(pc[c], loc[c], cur_task) \ {NULL}
    BY DEF Moving, NextLabels, RunLabels
  <2>5. HighestChosen'
    BY <1>1, <1>2, <2>2 DEF HighestChosen, Chosen
  <2>6. MovingStates' /\ HaltsForNoTask'
    BY <1>1, <1>2, <2>2 DEF MovingStates, HaltsForNoTask
  <2> QED BY <1>1, <2>1, <2>3, <2>4, <2>5, <2>6, DecisionStep
<1>6. CASE LoadNext(c) \/ StoreNextProcess(c) \/ LoadRunning(c)
  <2> USE <1>6 DEF LoadNext, StoreNextProcess, LoadRunning, ReadCurrent
  <2>1. /\ pc[c] \in {"next_load", "next_store", "run_load"} /\ UNCHANGED cur_task
        /\ UNCHANGED <<heap, state, pid, next_pid, cur_process, ready_bitmap, ret, halt>>
    OBVIOUS
  <2>2. PICK l \in {"next_store", "run_load", "run_store"} : pc' = [pc EXCEPT ![c] = l]
    OBVIOUS
  <2>3. l \in Label \ ({"idle", "add_new"} \union PushLabels \union WalkLabels)
    BY DEF Label, KernelLabels
  <2>4. loc[c].task = cur_task
    BY <1>1, <1>2, <2>1 DEF MovingStates
  <2>5. loc'[c].task = cur_task /\ \A d \in Ctx \ {c} : loc'[d] = loc[d]
    BY <1>2, <2>4 DEF Locals
  <2> HIDE <1>6
  <2>6. Executing' = c /\ Statement' = l /\ Registers' = loc'[c] /\ Created' = Created
    BY <1>3, <2>1, <2>2, <2>3
  <2>7. RunningStates'
    BY <1>1, <1>2, <2>1, <2>6 DEF RunningStates, Deciding, Undecided
  <2>8. Moving(l, loc'[c], cur_task') = Moving(pc[c], loc[c], cur_task)
    BY <2>1 DEF Moving, NextLabels, RunLabels
  <2>9. HighestChosen'
    BY <1>1, <1>2, <2>1, <2>6 DEF HighestChosen, Chosen
  <2>10. MovingStates' /\ HaltsForNoTask'
    BY <1>1, <1>2, <2>1, <2>5, <2>6 DEF MovingStates, HaltsForNoTask
  <2> QED BY <1>1, <2>1, <2>2, <2>3, <2>5, <2>7, <2>8, <2>9, <2>10, DecisionStep
<1>7. CASE Count(c) \/ CountStore(c)
  <2> USE <1>7 DEF Count, CountStore
  <2>1. PICK l \in {"count_store", "pend"} : pc' = [pc EXCEPT ![c] = l]
    OBVIOUS
  <2>2. l \in Label \ ({"idle", "add_new"} \union PushLabels \union WalkLabels)
        /\ \A d \in Ctx \ {c} : loc'[d] = loc[d]
    BY <1>2 DEF Label, KernelLabels
  <2>3. Executing' = c /\ Statement' = l /\ Registers' = loc'[c] /\ Created' = Created
    BY <1>3, <2>1, <2>2
  <2>4. RunningStates'
    BY <1>1, <1>2, <2>3 DEF RunningStates, Deciding, Undecided
  <2>5. Moving(l, loc'[c], cur_task') = Moving(pc[c], loc[c], cur_task)
    BY DEF Moving, NextLabels, RunLabels
  <2>6. HighestChosen'
    BY <1>1, <1>2, <2>3 DEF HighestChosen, Chosen
  <2>7. MovingStates' /\ HaltsForNoTask'
    BY <1>1, <1>2, <2>3 DEF MovingStates, HaltsForNoTask
  <2> QED BY <1>1, <2>1, <2>2, <2>4, <2>5, <2>6, <2>7, DecisionStep
<1> QED BY <1>4, <1>5, <1>6, <1>7

LEMMA PopPlace ==
  ASSUME FewTasks, PlaceInv, NEW c \in Ctx, PopReady(c), UNCHANGED <<torn, stale>>
  PROVE  /\ PlaceInv' /\ loc[c].reg \in Priority
         /\ Leaves(loc[c].reg, loc'[c].task)
<1> DEFINE p == loc[c].reg
           q == Ready(p)
<1> USE DEF At, Goto
<1>1. /\ c = Executing /\ pc[c] = "pop" /\ SchedulerInv /\ SchedulerInv'
      /\ Statement = pc[c] /\ Registers = loc[c]
  <2>1. c = Executing /\ pc[c] = "pop"
    BY DEF PopReady
  <2> QED BY <2>1, TickBodyInv DEF TickBody, PlaceInv, Statement, Registers
<1>2. PICK h, k : Placed(h, k)
  BY DEF PlaceInv
<1>3. /\ h \in HeapOver(Queue, Pointer) /\ Lists(h, Queue, k) /\ heap = h
      /\ Listed(k, {}, state, Created)
  BY <1>1, <1>2 DEF Placed, Moving, Half, PushLabels, NextLabels, RunLabels
<1>4. /\ p \in ready_bitmap /\ p \in Priority /\ \A o \in ready_bitmap : o <= p
      /\ q \in Queue /\ h.size[q] # 0
  <2>1. p \in ready_bitmap /\ \A o \in ready_bitmap : o <= p
    BY <1>1 DEF PlaceInv, HighestChosen
  <2>2. p \in Priority
    BY <1>1, <2>1 DEF SchedulerInv, TypeOK
  <2> QED BY <1>3, <2>1, <2>2, QueueKinds DEF PlaceInv, BitmapMatches
<1>5. ~PopsNothing(h, q) /\ ~PopFaults(h, q) /\ \E g, d, t : PopEffect(h, k, q, g, d, t)
  <2> HIDE DEF q
  <2> QED BY <1>3, <1>4, PopCompletes
<1>e. PICK g, d, t : PopEffect(h, k, q, g, d, t)
  BY <1>5
<1>6. /\ g = task_pop(h, q) /\ t = Popped(h, q)
      /\ g \in HeapOver(Queue, Pointer) /\ Lists(g, Queue, d)
      /\ Listed(d, {t}, state, Created)
      /\ t \in Created /\ q \in HomeIn(state, t)
      /\ \A o \in Queue \ {q} : g.size[o] = h.size[o]
      /\ Len(k[q]) # 0 /\ t = k[q][1]
      /\ \A o \in Queue : d[o] = IF o = q THEN Without(k[o], 1) ELSE k[o]
  BY <1>e DEF PopEffect
<1>7. t \in Task /\ state[t] = "READY" /\ Prio[t] = p
  <2>1. t \in Task
    BY <1>6 DEF Created
  <2> QED BY <1>4, <1>6, <2>1, HomeKinds
<1>8. /\ heap' = g /\ ready_bitmap' = ClearedIfEmpty(g, p) /\ halt' = halt
      /\ loc' = [loc EXCEPT ![c].task = t, ![c].reg = 0]
      /\ UNCHANGED <<state, pid, next_pid, cur_task, cur_process, ret>>
      /\ pc' = [pc EXCEPT ![c] = "dispatch"]
  BY <1>3, <1>5, <1>6 DEF PopReady, tcbs
<1>9. loc'[c].task = t /\ \A e \in Ctx \ {c} : loc'[e] = loc[e]
  BY <1>1, <1>8 DEF SchedulerInv, TypeOK, Locals
<1>10. /\ "dispatch" \in Label \ {"idle", "add_new"} /\ "dispatch" \in Deciding
       /\ "pop" \in Deciding /\ "dispatch" \in Undecided
  BY DEF Label, KernelLabels, Deciding, Undecided, NextLabels, RunLabels
<1>11. Alone' /\ RunningStates' /\ NewTasks' /\ Created' = Created
  BY <1>1, <1>8, <1>9, <1>10, QuietStep
<1>12. Executing' = c /\ Statement' = "dispatch" /\ Registers' = loc'[c]
  BY <1>1, <1>8, <1>10, SameContext
<1>13. MainOK'
  BY <1>1, <1>8, NotMain
<1>14. Placed(g, d)'
  <2>1. heap' = Half("dispatch", loc'[c], g)
    BY <1>8 DEF Half
  <2>2. Moving("dispatch", loc'[c], cur_task') = {t}
    BY <1>9 DEF Moving, NextLabels, RunLabels
  <2>3. WalkOK("dispatch", loc'[c], g, Elements(d[Delayed]))
    BY DEF WalkOK, WalkLabels
  <2> QED BY <1>6, <1>8, <1>11, <1>12, <2>1, <2>2, <2>3 DEF Placed
<1>15. BitmapMatches'
  <2> SUFFICES ASSUME NEW o \in Priority
               PROVE  o \in ready_bitmap' <=> g.size[Ready(o)] # 0
    BY <1>8 DEF BitmapMatches
  <2>1. o \in ready_bitmap <=> h.size[Ready(o)] # 0
    BY <1>3 DEF PlaceInv, BitmapMatches
  <2>2. CASE o = p
    BY <1>4, <1>8, <2>2 DEF ClearedIfEmpty
  <2>3. CASE o # p
    <3>1. Ready(o) \in Queue \ {q}
      BY <1>4, <2>3, QueueKinds
    <3>2. g.size[Ready(o)] = h.size[Ready(o)]
      BY <1>6, <3>1
    <3> QED BY <1>8, <2>1, <2>3, <3>2 DEF ClearedIfEmpty
  <2> QED BY <2>2, <2>3
<1>16. HighestChosen'
  <2>1. Chosen' = t
    BY <1>9, <1>12 DEF Chosen
  <2>2. ASSUME NEW u \in Created, state[u] = "READY"
        PROVE  Prio[u] <= Prio[t]
    <3>1. u \in Task /\ HomeIn(state, u) = {Ready(Prio[u])} /\ Prio[u] \in Priority
      <4>1. u \in Task
        BY DEF Created
      <4> QED BY <2>2, <4>1, OneHome, QueueKinds
    <3>2. PICK o \in Queue : u \in Elements(k[o])
      BY <1>3, <3>1 DEF Listed
    <3>3. o = Ready(Prio[u])
      BY <1>3, <3>1, <3>2 DEF Listed
    <3>4. h.size[o] # 0
      <4>1. Len(k[o]) # 0
        BY <1>3, <3>2 DEF Elements, Lists
      <4> QED BY <1>3, <4>1, ListSizes
    <3>5. Prio[u] \in ready_bitmap
      BY <1>3, <3>1, <3>3, <3>4 DEF PlaceInv, BitmapMatches
    <3> QED BY <1>4, <1>7, <3>5
  <2> QED BY <1>8, <1>11, <1>12, <2>1, <2>2 DEF HighestChosen
<1>17. MovingStates'
  BY <1>6, <1>7, <1>8, <1>9, <1>11, <1>12 DEF MovingStates, PushLabels, NextLabels, RunLabels
<1>18. HaltsForNoTask'
  BY <1>8 DEF PlaceInv, HaltsForNoTask
<1>19. Left(k, d, p, t)
  <2>1. \A o \in Priority : Ready(o) \in Queue /\ (Ready(o) = q <=> o = p)
    BY <1>4, QueueKinds
  <2>2. \A o \in Priority : d[Ready(o)] = IF o = p THEN Without(k[Ready(o)], 1) ELSE k[Ready(o)]
    BY <1>6, <2>1
  <2>3. ASSUME NEW o \in Priority, o > p PROVE Len(k[Ready(o)]) = 0
    <3>1. o \notin ready_bitmap
      BY <1>4, <2>3 DEF Priority
    <3> QED BY <1>3, <2>1, <3>1, ListSizes DEF PlaceInv, BitmapMatches
  <2>4. Len(k[q]) # 0 /\ t = k[q][1]
    BY <1>6
  <2> QED BY <2>2, <2>3, <2>4 DEF Left
<1>20. Leaves(p, loc'[c].task)
  BY <1>2, <1>9, <1>14, <1>19 DEF Leaves
<1> QED BY <1>1, <1>4, <1>11, <1>13, <1>14, <1>15, <1>16, <1>17, <1>18, <1>20 DEF PlaceInv

LEMMA RunPlace ==
  ASSUME FewTasks, PlaceInv, NEW c \in Ctx, StoreRunning(c), UNCHANGED <<torn, stale>>
  PROVE  PlaceInv'
<1> DEFINE t == cur_task
<1> USE DEF At, Goto, StoreRunning, sched
<1>1. /\ c = Executing /\ pc[c] = "run_store" /\ SchedulerInv /\ SchedulerInv'
      /\ Statement = pc[c] /\ Registers = loc[c]
  <2>1. c = Executing /\ pc[c] = "run_store"
    OBVIOUS
  <2> QED BY <2>1, TickBodyInv DEF TickBody, PlaceInv, Statement, Registers
<1>2. /\ t \in Created /\ t \in Task /\ t # NULL /\ state[t] = "READY"
      /\ state'[t] = "RUNNING" /\ \A u \in Task \ {t} : state'[u] = state[u]
  <2>1. t # NULL /\ state[t] = "READY" /\ loc[c].task = t
    BY <1>1 DEF PlaceInv, MovingStates, RunLabels
  <2> QED BY <1>1, <2>1 DEF SchedulerInv, TypeOK, Known, Created
<1>3. PICK h, k : Placed(h, k)
  BY DEF PlaceInv
<1>4. /\ h \in HeapOver(Queue, Pointer) /\ Lists(h, Queue, k) /\ heap = h
      /\ Listed(k, {t}, state, Created)
  BY <1>1, <1>3 DEF Placed, Moving, Half, PushLabels, NextLabels, RunLabels
<1>5. /\ "count" \in Label \ {"idle", "add_new"} /\ "count" \notin Undecided
      /\ "count" \notin Deciding
  BY DEF Label, KernelLabels, SwitchLabels, Deciding, Undecided, PushLabels, WalkLabels,
         NextLabels, RunLabels
<1>6. /\ Executing' = c /\ Statement' = "count" /\ Registers' = loc'[c] /\ Alone'
      /\ Created' = Created /\ \A d \in Ctx \ {c} : pc'[d] = pc[d]
  BY <1>1, <1>5, SameContext, NoCreation DEF PlaceInv, tcbs
<1>7. MainOK'
  BY <1>1, NotMain
<1>8. RunningStates'
  <2>1. \A u \in Created : state'[u] = "RUNNING" => u = t
    BY <1>1, <1>2 DEF PlaceInv, RunningStates, Deciding, Created, RunLabels
  <2> QED BY <1>2, <1>5, <1>6, <2>1 DEF RunningStates
<1>9. NewTasks'
  <2> SUFFICES ASSUME NEW e \in Ctx, pc'[e] = "add_new"
               PROVE  /\ loc[e].task \in Created /\ state'[loc[e].task] = "NONE"
                      /\ \A d \in Ctx \ {e} : pc'[d] = "add_new" => loc[d].task # loc[e].task
    BY <1>6 DEF NewTasks
  <2>1. pc[e] = "add_new" /\ \A d \in Ctx : pc'[d] = "add_new" => pc[d] = "add_new"
    BY <1>1, <1>5, <1>6 DEF Statement
  <2>2. /\ loc[e].task \in Created /\ state[loc[e].task] = "NONE"
        /\ \A d \in Ctx \ {e} : pc[d] = "add_new" => loc[d].task # loc[e].task
    BY <2>1 DEF PlaceInv, NewTasks
  <2>3. state'[loc[e].task] = "NONE"
    BY <1>2, <2>2 DEF Created
  <2> QED BY <2>1, <2>2, <2>3
<1>10. Listed(k, {}, state', Created)
  <2>1. HomeIn(state', t) = {} /\ Created \in SUBSET Task
    BY <1>2, OneHome DEF Created
  <2>2. \A q \in Queue : t \notin Elements(k[q])
    BY <1>4 DEF Listed
  <2>3. \A u \in Task \ {t} : HomeIn(state', u) = HomeIn(state, u)
    BY <1>2 DEF HomeIn
  <2> HIDE DEF t
  <2>4. \A o \in Queue : \A u \in Elements(k[o]) : u \in Created \ {} /\ o \in HomeIn(state', u)
    BY <1>4, <2>1, <2>3 DEF Listed
  <2>5. \A u \in Created \ {} : HomeIn(state', u) # {} => \E o \in Queue : u \in Elements(k[o])
    BY <1>4, <2>1, <2>3 DEF Listed
  <2> QED BY <2>4, <2>5 DEF Listed
<1>11. Placed(h, k)'
  <2>1. heap' = Half("count", loc'[c], h)
    BY <1>4 DEF Half
  <2>2. Moving("count", loc'[c], cur_task') = {}
    BY DEF Moving, PushLabels, NextLabels, RunLabels
  <2>3. WalkOK("count", loc'[c], h, Elements(k[Delayed]))
    BY DEF WalkOK, WalkLabels
  <2> QED BY <1>4, <1>6, <1>10, <2>1, <2>2, <2>3 DEF Placed
<1>12. HighestChosen'
  <2>1. Chosen' = t /\ Chosen = t
    BY <1>1, <1>6 DEF Chosen
  <2>2. \A u \in Created : state[u] = "READY" => Prio[u] <= Prio[t]
    BY <1>1, <1>2, <2>1 DEF PlaceInv, HighestChosen, SwitchLabels, NextLabels, RunLabels
  <2> QED BY <1>2, <1>6, <2>1, <2>2 DEF HighestChosen, Created
<1>13. MovingStates' /\ BitmapMatches' /\ HaltsForNoTask'
  BY <1>6 DEF PlaceInv, MovingStates, BitmapMatches, HaltsForNoTask, PushLabels,
                  NextLabels, RunLabels
<1> QED BY <1>1, <1>6, <1>7, <1>8, <1>9, <1>11, <1>12, <1>13 DEF PlaceInv

\* The context switch.
LEMMA SwitchPlace ==
  ASSUME FewTasks, PlaceInv, NEW c \in Ctx, PendSV(c), UNCHANGED <<torn, stale>>
  PROVE  PlaceInv' /\ Statement' \notin CriticalSections
<1> DEFINE u == cur_task
           l == IF c = Handler THEN "idle" ELSE ret[c]
<1>1. /\ c = Executing /\ pc[c] = "pend" /\ SchedulerInv /\ SchedulerInv'
      /\ Statement = pc[c] /\ Registers = loc[c] /\ Created' = Created
      /\ UNCHANGED <<heap, state, cur_task, ready_bitmap, loc, halt>>
      /\ pc' = [pc EXCEPT ![c] = l] /\ cur_process' = next_process
      /\ ret' = [ret EXCEPT ![c] = "user"]
  <2>1. c = Executing /\ pc[c] = "pend"
    BY DEF PendSV, At
  <2>2. SchedulerInv /\ SchedulerInv'
    BY TickBodyInv DEF TickBody, PlaceInv
  <2> QED BY <2>1, <2>2 DEF PendSV, Goto, tcbs, Statement, Registers, Created
<1>2. "pend" \notin Undecided /\ "pend" \in SwitchLabels /\ "pend" \notin CriticalSections
  BY DEF Undecided, Deciding, SwitchLabels, PushLabels, WalkLabels, CriticalSections,
         NextLabels, RunLabels
<1>3. l \notin CriticalSections \union {"add_new", "pend"}
  <2>1. ret[c] \in ClientLabels \union {"user", "main"}
    BY <1>1 DEF SchedulerInv, TypeOK
  <2> QED BY <2>1, SchedulerAssumption
      DEF CriticalSections, KernelLabels, PushLabels, WalkLabels, NextLabels, RunLabels, SwitchLabels
<1>4. c # Main /\ Main \in Ctx
  BY <1>1 DEF PlaceInv, MainOK, Ctx
<1>5. u \in Task /\ u # NULL /\ state[u] = "RUNNING" /\ next_process = u
  <2>1. u # NULL /\ state[u] = "RUNNING"
    BY <1>1, <1>2, <1>4 DEF PlaceInv, RunningStates
  <2>2. u \in Task
    BY <1>1, <2>1 DEF SchedulerInv, TypeOK, Known, Created
  <2>3. next_process = u
    BY <1>1, <1>2 DEF PlaceInv, SchedulerInv, SwitchAgrees, Statement
  <2> QED BY <2>1, <2>2, <2>3
<1>6. pc'[c] = l /\ \A d \in Ctx \ {c} : pc'[d] = pc[d] /\ ret'[d] = ret[d]
  BY <1>1 DEF SchedulerInv, TypeOK
<1>7. Executing' = u
  <2>1. pc'[Handler] = "idle"
    BY <1>1, <1>6 DEF Executing, Ctx
  <2> QED BY <1>1, <1>5, <2>1 DEF Executing, Running
<1> HIDE DEF l
<1>8. \A d \in Ctx : pc'[d] \notin CriticalSections /\ (pc'[d] = "add_new" => pc[d] = "add_new")
  <2> SUFFICES ASSUME NEW d \in Ctx
               PROVE  pc'[d] \notin CriticalSections /\ (pc'[d] = "add_new" => pc[d] = "add_new")
    OBVIOUS
  <2>1. CASE d = c
    BY <1>3, <1>6, <2>1
  <2>2. CASE d # c
    BY <1>1, <1>6, <2>2 DEF PlaceInv, Alone
  <2> QED BY <2>1, <2>2
<1>9. Statement' \notin CriticalSections
  BY <1>5, <1>7, <1>8 DEF Statement, Ctx
<1>10. Alone'
  BY <1>8 DEF Alone
<1>11. RunningStates'
  <2>1. Deciding \subseteq CriticalSections
    BY DEF Deciding, CriticalSections
  <2>2. \A t \in Created : state[t] = "RUNNING" => t = u
    BY DEF PlaceInv, RunningStates
  <2> QED BY <1>1, <1>5, <1>9, <2>1, <2>2 DEF RunningStates
<1>12. MovingStates'
  BY <1>9 DEF MovingStates, CriticalSections, WalkLabels, NextLabels, RunLabels, SwitchLabels
<1>13. NewTasks'
  BY <1>1, <1>8 DEF PlaceInv, NewTasks
<1>14. HighestChosen'
  <2>1. Chosen = u /\ Chosen' = u
    BY <1>1, <1>9 DEF Chosen, CriticalSections
  <2>2. \A t \in Created : state[t] = "READY" => Prio[t] <= Prio[u]
    BY <1>1, <1>2, <1>5, <2>1 DEF PlaceInv, HighestChosen
  <2> QED BY <1>1, <1>9, <2>1, <2>2 DEF HighestChosen, CriticalSections
<1>15. MainOK'
  BY <1>4, <1>6 DEF PlaceInv, MainOK
<1>16. BitmapMatches' /\ HaltsForNoTask'
  BY <1>1 DEF PlaceInv, BitmapMatches, HaltsForNoTask
<1>17. PICK h, k : Placed(h, k)
  BY DEF PlaceInv
<1>18. Placed(h, k)'
  <2>1. heap = h /\ Listed(k, {}, state, Created) /\ Lists(h, Queue, k)
        /\ h \in HeapOver(Queue, Pointer)
    BY <1>1, <1>17 DEF Placed, Half, Moving, PushLabels, NextLabels, RunLabels
  <2> DEFINE s == Statement'
             r == Registers'
  <2>2. Half(s, r, h) = h
    BY <1>9 DEF Half, CriticalSections, PushLabels, WalkLabels
  <2>3. Moving(s, r, u) = {}
    BY <1>9 DEF Moving, CriticalSections, PushLabels, WalkLabels, NextLabels, RunLabels, SwitchLabels
  <2>4. WalkOK(s, r, h, Elements(k[Delayed]))
    BY <1>9 DEF WalkOK, CriticalSections, PushLabels, WalkLabels
  <2> QED BY <1>1, <2>1, <2>2, <2>3, <2>4 DEF Placed
<1> QED BY <1>1, <1>9, <1>10, <1>11, <1>12, <1>13, <1>14, <1>15, <1>16, <1>18 DEF PlaceInv

\* task_init fills a TCB that is in no queue.
LEMMA CreatePlace ==
  ASSUME FewTasks, PlaceInv, NEW c \in Ctx, NEW t \in Task, task_init(c, t),
         UNCHANGED <<torn, stale>>
  PROVE  PlaceInv' /\ SameLines
<1>1. /\ c = Executing /\ pc[c] \in {"main", "user"} /\ SchedulerInv /\ SchedulerInv'
      /\ Statement = pc[c] /\ Registers = loc[c] /\ (c = Main => pc[c] = "main")
      /\ t \notin Created
  <2>1. /\ c = Executing /\ pc[c] \in {"main", "user"} /\ (c = Main => pc[c] = "main")
        /\ t \notin Created
    BY SchedulerAssumption DEF task_init, MayCreate, At
  <2> QED BY <2>1, CreateInv DEF PlaceInv, Statement, Registers
<1>2. /\ heap' = ClearLinks(heap, t) /\ state' = [state EXCEPT ![t] = "NONE"]
      /\ pc' = [pc EXCEPT ![c] = "add_new"] /\ ret' = [ret EXCEPT ![c] = pc[c]]
      /\ loc' = [loc EXCEPT ![c].task = t]
      /\ UNCHANGED <<cur_task, cur_process, ready_bitmap, halt>>
      /\ pid' = [pid EXCEPT ![t] = next_pid]
  BY DEF task_init, Goto, sched
<1>3. /\ state'[t] = "NONE" /\ \A u \in Task \ {t} : state'[u] = state[u]
      /\ pc'[c] = "add_new" /\ ret'[c] = pc[c] /\ loc'[c].task = t
      /\ \A d \in Ctx \ {c} : pc'[d] = pc[d] /\ ret'[d] = ret[d] /\ loc'[d] = loc[d]
  BY <1>1, <1>2 DEF SchedulerInv, TypeOK, Locals
<1>4. Created' = Created \union {t} /\ Created \in SUBSET Task
  BY <1>1, <1>2 DEF SchedulerInv, TypeOK, Created
<1>5. /\ "add_new" \in Label /\ "add_new" \notin Undecided \union CriticalSections
      /\ pc[c] \notin Undecided
  BY <1>1 DEF Label, KernelLabels, Undecided, Deciding, PushLabels, WalkLabels,
     CriticalSections, NextLabels, RunLabels
<1>6. Executing' = c /\ Statement' = "add_new" /\ Registers' = loc'[c] /\ Alone'
  BY <1>1, <1>2, <1>5, SameContext DEF PlaceInv
<1>7. MainOK'
  BY <1>1, <1>3 DEF PlaceInv, MainOK, Ctx
<1>8. RunningStates'
  <2>1. \A u \in Created : state[u] = "RUNNING" => u = cur_task
    BY DEF PlaceInv, RunningStates
  <2>2. c # Main => cur_task \in Task \ {t} /\ cur_task # NULL /\ state[cur_task] = "RUNNING"
    BY <1>1, <1>5 DEF PlaceInv, RunningStates, SchedulerInv, TypeOK, Known, Created
  <2>3. "add_new" \notin Deciding
    BY DEF Deciding, NextLabels, RunLabels
  <2> QED BY <1>2, <1>3, <1>4, <1>6, <2>1, <2>2, <2>3 DEF RunningStates
<1>9. NewTasks'
  <2>1. \A e \in Ctx \ {c} : pc[e] = "add_new" =>
          /\ loc[e].task \in Created /\ state[loc[e].task] = "NONE"
          /\ \A d \in Ctx \ {e} : pc[d] = "add_new" => loc[d].task # loc[e].task
    BY DEF PlaceInv, NewTasks
  <2> SUFFICES ASSUME NEW e \in Ctx, pc'[e] = "add_new"
               PROVE  /\ loc'[e].task \in Created' /\ state'[loc'[e].task] = "NONE"
                      /\ \A d \in Ctx \ {e} : pc'[d] = "add_new" => loc'[d].task # loc'[e].task
    BY DEF NewTasks
  <2>2. CASE e = c
    <3>1. \A d \in Ctx \ {c} : pc'[d] = "add_new" => loc'[d].task # t
      BY <1>1, <1>3, <2>1
    <3> QED BY <1>3, <1>4, <2>2, <3>1
  <2>3. CASE e # c
    <3>1. /\ loc[e].task \in Created /\ state[loc[e].task] = "NONE"
          /\ \A d \in Ctx \ {e} : pc[d] = "add_new" => loc[d].task # loc[e].task
          /\ loc'[e] = loc[e]
      BY <1>3, <2>1, <2>3
    <3>2. loc[e].task # t /\ loc[e].task \in Task
      BY <1>1, <1>4, <3>1
    <3>3. \A d \in Ctx \ {e} : pc'[d] = "add_new" => loc'[d].task # loc[e].task
      BY <1>3, <3>1, <3>2
    <3> QED BY <1>3, <1>4, <3>1, <3>2, <3>3
  <2> QED BY <2>2, <2>3
<1>10. PICK h, k : Placed(h, k)
  BY DEF PlaceInv
<1>11. /\ h \in HeapOver(Queue, Pointer) /\ Lists(h, Queue, k) /\ heap = h
       /\ Listed(k, {}, state, Created)
  BY <1>1, <1>10 DEF Placed, Moving, Half, PushLabels, NextLabels, RunLabels
<1>12. \A q \in Queue : t \notin Elements(k[q])
  BY <1>1, <1>11 DEF Listed
<1>13. Lists(heap', Queue, k) /\ heap' \in HeapOver(Queue, Pointer)
  BY <1>2, <1>11, <1>12, ClearUnlisted
<1>14. Listed(k, {}, state', Created')
  <2>1. HomeIn(state', t) = {} /\ \A u \in Task \ {t} : HomeIn(state', u) = HomeIn(state, u)
    BY <1>3 DEF HomeIn
  <2>2. \A o \in Queue : \A u \in Elements(k[o]) : u \in Created' \ {} /\ o \in HomeIn(state', u)
    BY <1>4, <1>11, <1>12, <2>1 DEF Listed
  <2>3. \A u \in Created' \ {} : HomeIn(state', u) # {} => \E o \in Queue : u \in Elements(k[o])
    BY <1>4, <1>11, <2>1 DEF Listed
  <2> QED BY <2>2, <2>3 DEF Listed
<1>15. \E g : Placed(g, k)'
  <2> DEFINE g == ClearLinks(heap, t)
  <2>0. heap' = g
    BY <1>2
  <2> HIDE DEF g
  <2>1. g = Half("add_new", loc'[c], g)
    BY DEF Half
  <2>2. Moving("add_new", loc'[c], cur_task') = {}
    BY DEF Moving, PushLabels, NextLabels, RunLabels
  <2>3. WalkOK("add_new", loc'[c], g, Elements(k[Delayed]))
    BY DEF WalkOK, WalkLabels
  <2>4. PICK x : x = g
    OBVIOUS
  <2>5. Placed(x, k)'
    BY <1>6, <1>13, <1>14, <2>0, <2>1, <2>2, <2>3, <2>4 DEF Placed
  <2> QED BY <2>5
<1>16. MovingStates' /\ HighestChosen'
  BY <1>6 DEF MovingStates, HighestChosen, PushLabels, SwitchLabels, NextLabels, RunLabels
<1>17. BitmapMatches' /\ HaltsForNoTask'
  BY <1>2 DEF PlaceInv, BitmapMatches, HaltsForNoTask, ClearLinks, SchedulerInv, TypeOK,
     HeapOver
<1>18. \E g, d : Placed(g, d)'
  BY <1>15
<1>19. SameLines
  BY <1>10, <1>15 DEF SameLines
<1> QED BY <1>19, <1>1, <1>6, <1>7, <1>8, <1>9, <1>16, <1>17, <1>18 DEF PlaceInv

LEMMA AddNewPlace ==
  ASSUME FewTasks, PlaceInv, NEW c \in Ctx, AddNew(c), UNCHANGED <<torn, stale>>
  PROVE  PlaceInv' /\ Joins(loc[c].task)
<1> DEFINE l == ret[c]
<1>1. /\ c = Executing /\ pc[c] = "add_new" /\ SchedulerInv /\ SchedulerInv'
      /\ Statement = pc[c] /\ Registers = loc[c]
  <2>1. c = Executing /\ pc[c] = "add_new"
    BY DEF AddNew, At
  <2> QED BY <2>1, AddNewInv DEF PlaceInv, Statement, Registers
<1>2. /\ task_add_ready(loc[c].task) /\ loc' = [loc EXCEPT ![c].task = NULL]
      /\ pc' = [pc EXCEPT ![c] = l]
      /\ UNCHANGED <<pid, next_pid, cur_task, cur_process, ret>>
  BY DEF AddNew, Goto
<1>3. PICK t : t = loc[c].task
  OBVIOUS
<1>4. /\ t \in Created /\ t \in Task /\ state[t] = "NONE"
      /\ \A d \in Ctx \ {c} : pc[d] = "add_new" => loc[d].task # t
  BY <1>1, <1>3 DEF PlaceInv, NewTasks, Created
<1>5. PICK h, k : Placed(h, k)
  BY DEF PlaceInv
<1>6. /\ h \in HeapOver(Queue, Pointer) /\ Lists(h, Queue, k) /\ heap = h
      /\ Listed(k, {}, state, Created)
  BY <1>1, <1>5 DEF Placed, Moving, Half, PushLabels, NextLabels, RunLabels
<1>7. \A q \in Queue : t \notin Elements(k[q])
  <2>1. HomeIn(state, t) = {}
    BY <1>4, OneHome
  <2> QED BY <1>6, <2>1 DEF Listed
<1>8. /\ \E d : /\ heap' \in HeapOver(Queue, Pointer) /\ Lists(heap', Queue, d)
                /\ Listed(d, {}, state', Created) /\ d[Delayed] = k[Delayed]
                /\ Joined(k, d, t)
      /\ BitmapMatches' /\ halt' = halt
      /\ state'[t] = "READY" /\ \A u \in Task \ {t} : state'[u] = state[u]
  <2>1. \A p \in Priority : p \in ready_bitmap <=> h.size[Ready(p)] # 0
    BY <1>6 DEF PlaceInv, BitmapMatches
  <2>2. ReadyFrom(h, t) /\ TypeOK
    BY <1>1, <1>2, <1>3, <1>6 DEF task_add_ready, SchedulerInv
  <2>3. {} \subseteq {t}
    OBVIOUS
  <2> HIDE DEF l
  <2> QED BY <1>4, <1>6, <1>7, <2>1, <2>2, <2>3, ReadyPlaced
<1>9. /\ l \notin CriticalSections \union SwitchLabels \union {"add_new"} /\ l \in Label /\ l # "idle"
      /\ l \notin Undecided /\ pc[c] \notin Undecided
  <2>1. ret[c] \in ClientLabels \union {"user", "main"}
    BY <1>1 DEF SchedulerInv, TypeOK
  <2> QED BY <1>1, <2>1, SchedulerAssumption
      DEF CriticalSections, KernelLabels, PushLabels, WalkLabels, NextLabels, RunLabels, SwitchLabels, Label,
          Undecided, Deciding
<1>10. /\ pc'[c] = l /\ \A d \in Ctx \ {c} : pc'[d] = pc[d] /\ loc'[d] = loc[d]
       /\ (c = Main => l = "main")
  BY <1>1, <1>2 DEF SchedulerInv, TypeOK, PlaceInv, MainOK
<1> HIDE DEF l
<1>11. Executing' = c /\ Statement' = l /\ Registers' = loc'[c] /\ Alone'
  BY <1>1, <1>2, <1>9, SameContext DEF PlaceInv
<1>12. Created' = Created
  BY <1>1, <1>2, NoCreation
<1>13. MainOK'
  BY <1>2, <1>10, SchedulerAssumption DEF PlaceInv, MainOK, Ctx
<1>14. RunningStates'
  <2>1. \A u \in Created : state[u] = "RUNNING" => u = cur_task
    BY DEF PlaceInv, RunningStates
  <2>2. c # Main => cur_task \in Task \ {t} /\ cur_task # NULL /\ state[cur_task] = "RUNNING"
    BY <1>1, <1>4, <1>9 DEF PlaceInv, RunningStates, SchedulerInv, TypeOK, Known, Created
  <2>3. l \notin Deciding
    BY <1>9 DEF Undecided
  <2>4. \A u \in Created : u \in Task
    BY DEF Created
  <2> QED BY <1>2, <1>8, <1>11, <1>12, <2>1, <2>2, <2>3, <2>4 DEF RunningStates
<1>15. NewTasks'
  <2> SUFFICES ASSUME NEW e \in Ctx, pc'[e] = "add_new"
               PROVE  /\ loc'[e].task \in Created /\ state'[loc'[e].task] = "NONE"
                      /\ \A d \in Ctx \ {e} : pc'[d] = "add_new" => loc'[d].task # loc'[e].task
    BY <1>12 DEF NewTasks
  <2>1. e # c /\ pc[e] = "add_new" /\ loc'[e] = loc[e]
    BY <1>9, <1>10
  <2>2. /\ loc[e].task \in Created /\ state[loc[e].task] = "NONE"
        /\ \A d \in Ctx \ {e} : pc[d] = "add_new" => loc[d].task # loc[e].task
    BY <2>1 DEF PlaceInv, NewTasks
  <2>3. loc[e].task # t /\ loc[e].task \in Task
    BY <1>4, <2>1, <2>2 DEF Created
  <2>4. \A d \in Ctx \ {e} : pc'[d] = "add_new" => d # c /\ pc[d] = "add_new" /\ loc'[d] = loc[d]
    BY <1>9, <1>10
  <2> QED BY <1>8, <2>1, <2>2, <2>3, <2>4
<1>16. \E g, d : Placed(g, d)' /\ Joined(k, d, t)
  <2>1. PICK d : /\ heap' \in HeapOver(Queue, Pointer) /\ Lists(heap', Queue, d)
                 /\ Listed(d, {}, state', Created) /\ Joined(k, d, t)
    BY <1>8
  <2>2. PICK x : x = heap'
    OBVIOUS
  <2>3. x = Half(l, loc'[c], x)
    BY <1>9 DEF Half, CriticalSections, PushLabels, WalkLabels
  <2>4. Moving(l, loc'[c], cur_task') = {}
    BY <1>9 DEF Moving, CriticalSections, PushLabels, WalkLabels, NextLabels, RunLabels, SwitchLabels
  <2>5. WalkOK(l, loc'[c], x, Elements(d[Delayed]))
    BY <1>9 DEF WalkOK, CriticalSections, PushLabels, WalkLabels
  <2>6. Placed(x, d)'
    BY <1>11, <1>12, <2>1, <2>2, <2>3, <2>4, <2>5 DEF Placed
  <2> QED BY <2>1, <2>6
<1>17. MovingStates' /\ HighestChosen'
  BY <1>9, <1>11 DEF MovingStates, HighestChosen, CriticalSections, PushLabels, WalkLabels,
     NextLabels, RunLabels, SwitchLabels
<1>18. BitmapMatches' /\ HaltsForNoTask'
  BY <1>8 DEF PlaceInv, HaltsForNoTask
<1>19. Joins(t)
  BY <1>5, <1>16 DEF Joins
<1> QED BY <1>1, <1>3, <1>11, <1>13, <1>14, <1>15, <1>16, <1>17, <1>18, <1>19 DEF PlaceInv

-----------------------------------------------------------------------------
(* The steps of mutexes and semaphores, which are made outside the kernel. *)

LEMMA OwnLabels ==
  ASSUME NEW l \in ClientLabels \union {"user"}
  PROVE  /\ l \in Label \ {"idle", "add_new", "main", "spin"}
         /\ l \notin Undecided /\ l \notin Deciding /\ l \notin CriticalSections
         /\ l \notin PushLabels /\ l \notin WalkLabels /\ l \notin SwitchLabels
         /\ l \notin {"walk_init", "requeue", "bitmap", "pop", "dispatch"}
         /\ l \notin NextLabels /\ l \notin RunLabels
BY SchedulerAssumption
   DEF Label, KernelLabels, Undecided, Deciding, CriticalSections, PushLabels, WalkLabels,
       NextLabels, RunLabels, SwitchLabels

\* Outside critical sections a context has no operation under way.
LEMMA OutsidePlace ==
  ASSUME NEW l, l \notin CriticalSections, NEW r, NEW h, NEW D, NEW cur
  PROVE  Half(l, r, h) = h /\ Moving(l, r, cur) = {} /\ WalkOK(l, r, h, D)
<1>1. /\ l \notin PushLabels /\ l \notin WalkLabels
      /\ l \notin {"dispatch"} \union NextLabels \union RunLabels
  BY DEF CriticalSections
<1> QED BY <1>1 DEF Half, Moving, WalkOK, PushLabels, WalkLabels

LEMMA OwnPlace ==
  ASSUME NEW l \in ClientLabels \union {"user"}, NEW r, NEW h, NEW D, NEW cur
  PROVE  Half(l, r, h) = h /\ Moving(l, r, cur) = {} /\ WalkOK(l, r, h, D)
BY OwnLabels, OutsidePlace

\* A step in a task's own code.
LEMMA OwnStep ==
  ASSUME PlaceInv, SchedulerInv', NEW c \in Ctx, c = Executing,
         pc[c] \in ClientLabels \union {"user"}, NEW l \in ClientLabels \union {"user"},
         pc' = [pc EXCEPT ![c] = l], \A d \in Ctx \ {c} : loc'[d] = loc[d],
         UNCHANGED <<heap, state, pid, next_pid, cur_task, cur_process, ready_bitmap, ret, halt>>,
         UNCHANGED <<torn, stale>>
  PROVE  PlaceInv' /\ Statement' = l
<1>l. /\ pc[c] \in Label \ {"idle", "add_new", "main", "spin"}
      /\ l \in Label \ {"idle", "add_new", "main", "spin"}
      /\ pc[c] \notin Undecided /\ l \notin Undecided /\ l \notin Deciding
  BY OwnLabels
<1>1. Alone' /\ RunningStates' /\ NewTasks' /\ Created' = Created
  BY <1>l, QuietStep
<1>2. /\ Executing' = c /\ Statement' = l /\ Registers' = loc'[c]
      /\ Statement = pc[c] /\ Registers = loc[c]
  BY <1>l, SameContext DEF PlaceInv, Statement, Registers
<1>3. MainOK'
  BY <1>l, NotMain
<1>4. PICK h, k : Placed(h, k)
  BY DEF PlaceInv
<1>5. Placed(h, k)'
  <2>1. /\ h \in HeapOver(Queue, Pointer) /\ Lists(h, Queue, k) /\ heap = h
        /\ Listed(k, {}, state, Created)
    BY <1>2, <1>4, OwnPlace DEF Placed
  <2>2. /\ Half(l, loc'[c], h) = h /\ Moving(l, loc'[c], cur_task') = {}
        /\ WalkOK(l, loc'[c], h, Elements(k[Delayed]))
    BY OwnPlace
  <2> QED BY <1>1, <1>2, <2>1, <2>2 DEF Placed
<1>6. MovingStates' /\ HighestChosen'
  <2>1. /\ l \notin PushLabels /\ l \notin SwitchLabels
        /\ l \notin {"wake", "pop", "dispatch"} \union NextLabels \union RunLabels
    BY OwnLabels DEF WalkLabels
  <2> QED BY <1>2, <2>1 DEF MovingStates, HighestChosen
<1>7. BitmapMatches' /\ HaltsForNoTask'
  BY DEF PlaceInv, BitmapMatches, HaltsForNoTask
<1> QED BY <1>1, <1>2, <1>3, <1>5, <1>6, <1>7 DEF PlaceInv

\* The task that has the processor blocks itself and is on the move to the queue q.
LEMMA OwnBlock ==
  ASSUME FewTasks, PlaceInv, SchedulerInv', NEW c \in Ctx, c = Executing,
         pc[c] \in ClientLabels \union {"user"}, NEW s \in {"DELAYED", "BLOCKED"},
         task_block(cur_task, s), pc' = [pc EXCEPT ![c] = "push"],
         \A d \in Ctx \ {c} : loc'[d] = loc[d] /\ ret'[d] = ret[d],
         NEW q, loc'[c].task = cur_task, loc'[c].list = q,
         s = "DELAYED" => q = Delayed, s = "BLOCKED" => q \in WaitLists,
         UNCHANGED <<pid, next_pid, cur_task, cur_process, torn, stale>>
  PROVE  /\ PlaceInv' /\ Statement' = "push" /\ UNCHANGED <<heap, ready_bitmap, halt>>
         /\ cur_task \in Created /\ cur_task # NULL /\ state[cur_task] = "RUNNING"
         /\ state' = [state EXCEPT ![cur_task] = s]
<1>1. /\ SchedulerInv /\ Statement = pc[c] /\ Registers = loc[c] /\ c # Main
      /\ pc[c] \notin Undecided
  <2>1. pc[c] \notin {"main", "add_new", "spin"} /\ pc[c] \notin Undecided
    BY OwnLabels
  <2> QED BY <2>1, NotMain DEF PlaceInv, Statement, Registers
<1>3. PICK t : t = cur_task
  OBVIOUS
<1>4. t \in Created /\ t \in Task /\ t # NULL /\ state[t] = "RUNNING"
  <2>1. t # NULL /\ state[t] = "RUNNING"
    BY <1>1, <1>3 DEF PlaceInv, RunningStates
  <2> QED BY <1>1, <1>3, <2>1 DEF SchedulerInv, TypeOK, Known, Created
<1>6. /\ UNCHANGED <<heap, ready_bitmap, halt>> /\ state' = [state EXCEPT ![t] = s]
  BY <1>3, <1>4 DEF task_block
<1>7. /\ state'[t] = s /\ \A u \in Task \ {t} : state'[u] = state[u]
  BY <1>1, <1>4, <1>6 DEF SchedulerInv, TypeOK
<1>8. /\ "push" \in Label \ {"idle", "add_new"} /\ "push" \notin Deciding
      /\ "push" \in Undecided /\ "push" \in PushLabels
  BY DEF Label, KernelLabels, Deciding, Undecided, NextLabels, RunLabels, PushLabels
<1>9. Alone' /\ RunningStates' /\ NewTasks' /\ Created' = Created
  BY <1>1, <1>3, <1>4, <1>7, <1>8, StateStep
<1>10. Executing' = c /\ Statement' = "push" /\ Registers' = loc'[c]
  BY <1>1, <1>8, SameContext
<1>11. MainOK'
  <2>1. pc[c] \notin {"main", "add_new", "spin"}
    BY OwnLabels
  <2> QED BY <2>1, NotMain
<1>12. PICK h, k : Placed(h, k)
  BY DEF PlaceInv
<1>13. /\ h \in HeapOver(Queue, Pointer) /\ Lists(h, Queue, k) /\ heap = h
       /\ Listed(k, {}, state, Created)
  BY <1>1, <1>12, OwnPlace DEF Placed
<1>14. Listed(k, {t}, state', Created)
  <2>1. HomeIn(state, t) = {} /\ \A u \in Task \ {t} : HomeIn(state', u) = HomeIn(state, u)
    BY <1>4, <1>7 DEF HomeIn
  <2>2. /\ \A o \in Queue : t \notin Elements(k[o])
        /\ \A u \in Created : u \in Task
    BY <1>13, <2>1 DEF Listed, Created
  <2>3. \A o \in Queue : \A u \in Elements(k[o]) : u \in Created \ {t} /\ o \in HomeIn(state', u)
    BY <1>13, <2>1, <2>2 DEF Listed
  <2>4. \A u \in Created \ {t} : HomeIn(state', u) # {} => \E o \in Queue : u \in Elements(k[o])
    BY <1>13, <2>1, <2>2 DEF Listed
  <2> QED BY <2>3, <2>4 DEF Listed
<1>15. Placed(h, k)'
  <2>1. heap' = Half("push", loc'[c], h)
    BY <1>6, <1>13 DEF Half
  <2>2. Moving("push", loc'[c], cur_task') = {t}
    BY <1>3, <1>8 DEF Moving
  <2>3. WalkOK("push", loc'[c], h, Elements(k[Delayed]))
    BY DEF WalkOK, WalkLabels
  <2> QED BY <1>9, <1>10, <1>13, <1>14, <2>1, <2>2, <2>3 DEF Placed
<1>16. MovingStates' /\ HighestChosen'
  <2>1. q \in HomeIn(state', t)
    BY <1>4, <1>7, OneHome
  <2> QED BY <1>3, <1>4, <1>7, <1>8, <1>9, <1>10, <2>1
      DEF MovingStates, HighestChosen, PushLabels, SwitchLabels, NextLabels, RunLabels
<1>17. BitmapMatches' /\ HaltsForNoTask'
  BY <1>6 DEF PlaceInv, BitmapMatches, HaltsForNoTask
<1> QED BY <1>3, <1>4, <1>6, <1>9, <1>10, <1>11, <1>15, <1>16, <1>17 DEF PlaceInv

\* The first task of the waiting list q is made ready.
Wakes(q) == /\ q \in WaitLists /\ heap.size[q] # 0
            /\ ~PopFaults(heap, q) => ReadyFrom(task_pop(heap, q), Popped(heap, q))

\* The lists k of the heap h have become the lists e: t has joined its ready list.
Woken(h, k, e, t) ==
  /\ Placed(h, k) /\ t \in Created
  /\ state[t] = "BLOCKED" /\ state' = [state EXCEPT ![t] = "READY"]
  /\ heap' \in HeapOver(Queue, Pointer) /\ Lists(heap', Queue, e)
  /\ Listed(e, {}, state', Created) /\ Joined(k, e, t)
  /\ BitmapMatches' /\ halt' = halt

LEMMA WakePlaced ==
  ASSUME FewTasks, PlaceInv, Statement \notin CriticalSections, NEW q, Wakes(q)
  PROVE  \E h, k, e, t : Woken(h, k, e, t)
<1> USE DEF Wakes
<1>1. /\ SchedulerInv /\ TypeOK /\ q \in Queue /\ \A p \in Priority : q # Ready(p)
  BY QueueKinds DEF PlaceInv, SchedulerInv
<1>2. PICK h, k : Placed(h, k)
  BY DEF PlaceInv
<1>3. /\ h \in HeapOver(Queue, Pointer) /\ Lists(h, Queue, k) /\ heap = h
      /\ Listed(k, {}, state, Created)
  BY <1>2, OutsidePlace DEF Placed
<1>4. ~PopFaults(h, q) /\ \E g, d, t : PopEffect(h, k, q, g, d, t)
  BY <1>1, <1>3, PopCompletes
<1>5. PICK g, d, t : PopEffect(h, k, q, g, d, t)
  BY <1>4
<1>6. /\ g = task_pop(heap, q) /\ t = Popped(heap, q) /\ ReadyFrom(g, t)
      /\ g \in HeapOver(Queue, Pointer) /\ Lists(g, Queue, d) /\ Listed(d, {t}, state, Created)
      /\ t \in Created /\ q \in HomeIn(state, t)
      /\ \A o \in Queue \ {q} : g.size[o] = h.size[o]
      /\ \A o \in Queue \ {q} : d[o] = k[o]
  BY <1>3, <1>4, <1>5 DEF PopEffect
<1>7. state[t] = "BLOCKED"
  <2>1. t \in Task
    BY <1>6 DEF Created
  <2>2. q # Delayed /\ q # Ready(Prio[t])
    BY <1>1, <2>1, QueueKinds
  <2> QED BY <1>6, <2>1, <2>2 DEF HomeIn
<1>8. /\ \E e : /\ heap' \in HeapOver(Queue, Pointer) /\ Lists(heap', Queue, e)
                /\ Listed(e, {}, state', Created) /\ Joined(d, e, t)
      /\ BitmapMatches' /\ halt' = halt
  <2>1. \A p \in Priority : p \in ready_bitmap <=> g.size[Ready(p)] # 0
    BY <1>1, <1>3, <1>6, QueueKinds DEF PlaceInv, BitmapMatches
  <2>2. \A o \in Queue : t \notin Elements(d[o])
    BY <1>6 DEF Listed
  <2>3. {t} \subseteq {t}
    OBVIOUS
  <2> QED BY <1>1, <1>6, <2>1, <2>2, <2>3, ReadyPlaced
<1>9. PICK e : /\ heap' \in HeapOver(Queue, Pointer) /\ Lists(heap', Queue, e)
               /\ Listed(e, {}, state', Created) /\ Joined(d, e, t)
  BY <1>8
<1>10. Joined(k, e, t)
  <2>1. \A p \in Priority : d[Ready(p)] = k[Ready(p)]
    BY <1>1, <1>6, QueueKinds
  <2> QED BY <1>9, <2>1 DEF Joined
<1>11. state' = [state EXCEPT ![t] = "READY"]
  BY <1>6 DEF ReadyFrom
<1>12. Woken(h, k, e, t)
  BY <1>2, <1>6, <1>7, <1>8, <1>9, <1>10, <1>11 DEF Woken
<1> QED BY <1>12

\* With one waiting list, no task waits when it is empty.
LEMMA NobodyWaits ==
  ASSUME PlaceInv, Statement \notin CriticalSections, NEW q, WaitLists = {q},
         heap.size[q] = 0, NEW t \in Created
  PROVE  state[t] # "BLOCKED"
<1> SUFFICES ASSUME state[t] = "BLOCKED" PROVE FALSE
  OBVIOUS
<1>1. t \in Task /\ HomeIn(state, t) = {q} /\ q \in Queue
  BY OneHome, QueueKinds DEF Created
<1>2. PICK h, k : Placed(h, k)
  BY DEF PlaceInv
<1>3. Lists(h, Queue, k) /\ heap = h /\ Listed(k, {}, state, Created)
  BY <1>2, OutsidePlace DEF Placed
<1>4. t \in Elements(k[q])
  BY <1>1, <1>3 DEF Listed
<1>5. Len(k[q]) = 0
  BY <1>1, <1>3, ListSizes
<1> QED BY <1>4, <1>5 DEF Elements

\* The same as a change of the invariant: from outside critical sections to outside them.
LEMMA WakeJoins ==
  ASSUME PlaceInv, SchedulerInv', NEW h, NEW k, NEW e, NEW t, Woken(h, k, e, t),
         Statement \notin CriticalSections, Statement' \notin CriticalSections,
         Statement' \in Undecided \/ Executing' = Main =>
           Statement \in Undecided \/ Executing = Main,
         Statement \in Undecided \/ Executing = Main =>
           Statement' \in Undecided \/ Executing' = Main,
         Statement' \notin SwitchLabels,
         \A d \in Ctx : pc'[d] = "add_new" => pc[d] = "add_new" /\ loc'[d] = loc[d],
         UNCHANGED <<pid, next_pid, cur_task, torn, stale>>, Alone', MainOK'
  PROVE  PlaceInv' /\ Joins(t)
<1>1. /\ Created' = Created /\ t \in Task /\ t \in Created /\ Created \subseteq Task
      /\ state'[t] = "READY" /\ \A u \in Task \ {t} : state'[u] = state[u]
      /\ state[t] = "BLOCKED"
  BY NoCreation DEF PlaceInv, SchedulerInv, TypeOK, Woken, Created
<1>2. Deciding \subseteq CriticalSections
  BY DEF Deciding, CriticalSections
<1>3. RunningStates'
  <2>1. \A u \in Created : state'[u] = "RUNNING" => u # t /\ state[u] = "RUNNING"
    BY <1>1
  <2>2. cur_task # NULL => cur_task \in Task
    BY <1>1 DEF PlaceInv, SchedulerInv, TypeOK, Known
  <2> QED BY <1>1, <1>2, <2>1, <2>2 DEF PlaceInv, RunningStates
<1>4. NewTasks'
  <2>1. \A d \in Ctx : pc[d] = "add_new" => loc[d].task \in Task \ {t}
    BY <1>1 DEF PlaceInv, NewTasks
  <2> QED BY <1>1, <2>1 DEF PlaceInv, NewTasks
<1>5. MovingStates' /\ HighestChosen'
  <2>1. /\ Statement' \notin PushLabels /\ Statement' \notin SwitchLabels
        /\ Statement' \notin {"wake", "pop", "dispatch"} \union NextLabels \union RunLabels
    BY DEF CriticalSections, WalkLabels
  <2> QED BY <2>1 DEF MovingStates, HighestChosen
<1>6. BitmapMatches' /\ HaltsForNoTask'
  BY DEF PlaceInv, HaltsForNoTask, Woken
<1>7. PICK x : x = heap'
  OBVIOUS
<1>8. Placed(x, e)'
  <2>1. /\ Half(Statement', Registers', x) = x /\ Moving(Statement', Registers', cur_task') = {}
        /\ WalkOK(Statement', Registers', x, Elements(e[Delayed]))
    BY OutsidePlace
  <2> QED BY <1>1, <1>7, <2>1 DEF Placed, Woken
<1>9. Joins(t)
  BY <1>8 DEF Joins, Woken
<1> QED BY <1>3, <1>4, <1>5, <1>6, <1>8, <1>9 DEF PlaceInv

\* A task wakes another in a step of its own code.
LEMMA OwnWake ==
  ASSUME FewTasks, PlaceInv, SchedulerInv', NEW c \in Ctx, c = Executing,
         pc[c] \in ClientLabels \union {"user"}, NEW l \in ClientLabels \union {"user"},
         pc' = [pc EXCEPT ![c] = l], UNCHANGED <<loc, ret, pid, next_pid, cur_task, cur_process>>,
         UNCHANGED <<torn, stale>>,
         NEW q, Wakes(q)
  PROVE  \E t \in Created :
           /\ PlaceInv' /\ Statement' = l /\ Joins(t)
           /\ state[t] = "BLOCKED" /\ state' = [state EXCEPT ![t] = "READY"]
<1>l. /\ pc[c] \in Label \ {"idle", "add_new", "main", "spin"}
      /\ l \in Label \ {"idle", "add_new", "main", "spin"}
      /\ pc[c] \notin Undecided /\ l \notin Undecided
      /\ pc[c] \notin CriticalSections /\ l \notin CriticalSections /\ l \notin SwitchLabels
  BY OwnLabels
<1>1. /\ SchedulerInv /\ pc \in [Ctx -> Label] /\ Statement = pc[c]
      /\ Executing' = c /\ Statement' = l /\ Alone'
      /\ \A e \in Ctx \ {c} : pc'[e] = pc[e]
  BY <1>l, SameContext DEF PlaceInv, SchedulerInv, TypeOK, Label, Statement
<1>2. c # Main /\ MainOK'
  BY <1>l, NotMain
<1>3. \A d \in Ctx : pc'[d] = "add_new" => pc[d] = "add_new"
  BY <1>l, <1>1
<1>4. PICK h, k, e, t : Woken(h, k, e, t)
  BY <1>l, <1>1, WakePlaced
<1>5. PlaceInv' /\ Joins(t)
  BY <1>l, <1>1, <1>2, <1>3, <1>4, WakeJoins
<1> QED BY <1>1, <1>4, <1>5 DEF Woken

-----------------------------------------------------------------------------
(* The other steps, and the invariant.                                     *)

\* A task that sleeps is on the move to the delayed list.
LEMMA SleepPlace ==
  ASSUME FewTasks, PlaceInv, NEW c \in Ctx, NEW n \in SleepTicks, task_sleep(c, n),
         UNCHANGED <<torn, stale>>
  PROVE  PlaceInv'
<1>1. /\ c = Executing /\ pc[c] = "user" /\ SchedulerInv /\ SchedulerInv'
      /\ Statement = pc[c] /\ c # Main
  <2>1. c = Executing /\ pc[c] = "user" /\ c # Main
    BY SchedulerAssumption DEF task_sleep, At
  <2> QED BY <2>1, SleepInv DEF PlaceInv, Statement
<1>2. cur_task # NULL /\ state[cur_task] = "RUNNING"
  BY <1>1 DEF PlaceInv, RunningStates, Undecided, Deciding, PushLabels, WalkLabels, NextLabels, RunLabels
<1>3. /\ task_block(cur_task, "DELAYED") /\ pc' = [pc EXCEPT ![c] = "push"]
      /\ ret' = [ret EXCEPT ![c] = "user"]
      /\ loc' = [loc EXCEPT ![c].task = cur_task, ![c].list = Delayed]
      /\ UNCHANGED <<pid, next_pid, cur_task, cur_process>>
  BY <1>2 DEF task_sleep, Goto
<1>4. /\ loc'[c].task = cur_task /\ loc'[c].list = Delayed
      /\ \A d \in Ctx \ {c} : loc'[d] = loc[d] /\ ret'[d] = ret[d]
  BY <1>1, <1>3 DEF SchedulerInv, TypeOK, Locals
<1> QED BY <1>1, <1>3, <1>4, OwnBlock

\* The first tick is let in, and a tick that is not taken in a critical section.
LEMMA TimerPlace ==
  ASSUME PlaceInv, (SysTick /\ ~torn') \/ (init_systick /\ UNCHANGED ticked)
  PROVE  PlaceInv'
<1>1. /\ SchedulerInv /\ SchedulerInv' /\ Handler \in Ctx /\ Main \in Ctx /\ Created' = Created
      /\ Handler # Main /\ Running \in Ctx /\ Handler \notin Task
      /\ UNCHANGED <<heap, state, pid, next_pid, cur_task, cur_process, ready_bitmap, ret,
                     loc, halt>>
  <2>1. SchedulerInv /\ SchedulerInv'
    BY TimerInv DEF PlaceInv
  <2>2. UNCHANGED <<heap, state, pid, next_pid, cur_task, cur_process, ready_bitmap, ret,
                    loc, halt>>
    BY DEF SysTick, init_systick, tcbs, sched
  <2>3. Running \in Ctx
    BY <2>1, ExecutingIsContext DEF SchedulerInv
  <2> QED BY <2>1, <2>2, <2>3, SchedulerAssumption DEF Ctx, Created
<1>2. PICK h, k : Placed(h, k)
  BY DEF PlaceInv
<1>3. CASE SysTick /\ ~torn'
  <2>1. /\ pc[Handler] = "idle" /\ pc' = [pc EXCEPT ![Handler] = "walk_init"]
        /\ pc[Running] \notin CriticalSections /\ Executing = Running
        /\ pc[Main] = "spin" /\ ~stale'
    BY <1>3 DEF SysTick, Goto, Executing, CriticalSections, PlaceInv
  <2>2. /\ Executing' = Handler /\ Statement' = "walk_init" /\ Statement = pc[Running]
        /\ \A d \in Ctx \ {Handler} : pc'[d] = pc[d]
        /\ pc'[Handler] = "walk_init"
    BY <1>1, <2>1 DEF SchedulerInv, TypeOK, Executing, Statement
  <2>3. Alone'
    BY <2>1, <2>2 DEF PlaceInv, Alone
  <2>4. MainOK' /\ NewTasks'
    BY <1>1, <2>1, <2>2 DEF PlaceInv, MainOK, NewTasks
  <2>5. RunningStates'
    <3>1. "walk_init" \notin Deciding /\ "walk_init" \in Undecided
      BY DEF Deciding, Undecided, NextLabels, RunLabels
    <3> QED BY <1>1, <2>2, <3>1 DEF PlaceInv, RunningStates
  <2>6. MovingStates' /\ HighestChosen'
    BY <2>2 DEF MovingStates, HighestChosen, PushLabels, NextLabels, RunLabels, SwitchLabels
  <2>7. BitmapMatches' /\ HaltsForNoTask'
    BY <1>1 DEF PlaceInv, BitmapMatches, HaltsForNoTask
  <2>8. Placed(h, k)'
    <3>1. /\ h \in HeapOver(Queue, Pointer) /\ Lists(h, Queue, k)
      BY <1>2 DEF Placed
    <3>2. heap = h
      BY <1>2, <2>1, <2>2 DEF Placed, Half, CriticalSections, PushLabels, WalkLabels
    <3>3. Listed(k, {}, state, Created)
      <4> DEFINE r == Registers
      <4>1. Moving(Statement, r, cur_task) = {}
        BY <2>1, <2>2 DEF Moving, CriticalSections, PushLabels, WalkLabels, NextLabels, RunLabels, SwitchLabels
      <4> QED BY <1>2, <4>1 DEF Placed
    <3> DEFINE s == Registers'
    <3>4. Half("walk_init", s, h) = h
      BY DEF Half
    <3>5. Moving("walk_init", s, cur_task') = {}
      BY DEF Moving, PushLabels, NextLabels, RunLabels
    <3>6. WalkOK("walk_init", s, h, Elements(k[Delayed]))
      BY DEF WalkOK, WalkLabels
    <3> QED BY <1>1, <2>2, <3>1, <3>2, <3>3, <3>4, <3>5, <3>6 DEF Placed
  <2> QED BY <1>1, <2>1, <2>3, <2>4, <2>5, <2>6, <2>7, <2>8 DEF PlaceInv
<1>4. CASE init_systick /\ UNCHANGED ticked
  <2>1. /\ Main = Executing /\ pc[Main] = "main" /\ pc' = [pc EXCEPT ![Main] = "spin"]
        /\ Statement = "main"
    BY <1>4 DEF init_systick, At, Goto, Statement
  <2>2. "spin" \in Label /\ "spin" \notin Undecided /\ "spin" \notin Deciding
    BY DEF Label, KernelLabels, Undecided, Deciding, PushLabels, WalkLabels, NextLabels,
           RunLabels
  <2>3. /\ Executing' = Main /\ Statement' = "spin" /\ Registers' = loc'[Main] /\ Alone'
        /\ \A d \in Ctx \ {Main} : pc'[d] = pc[d]
        /\ pc'[Main] = "spin"
    BY <1>1, <2>1, <2>2, SameContext DEF PlaceInv, Statement
  <2>4. MainOK' /\ NewTasks'
    BY <1>1, <2>1, <2>3 DEF PlaceInv, MainOK, NewTasks
  <2>5. RunningStates'
    BY <1>1, <2>2, <2>3 DEF PlaceInv, RunningStates
  <2>6. MovingStates' /\ HighestChosen'
    BY <2>3 DEF MovingStates, HighestChosen, PushLabels, NextLabels, RunLabels, SwitchLabels
  <2>7. BitmapMatches' /\ HaltsForNoTask'
    BY <1>1 DEF PlaceInv, BitmapMatches, HaltsForNoTask
  <2>8. Placed(h, k)'
    <3>1. /\ h \in HeapOver(Queue, Pointer) /\ Lists(h, Queue, k) /\ heap = h
          /\ Listed(k, {}, state, Created)
      BY <1>2, <2>1 DEF Placed, Half, Moving, PushLabels, NextLabels, RunLabels
    <3> DEFINE s == loc'[Main]
    <3>2. Half("spin", s, h) = h
      BY DEF Half
    <3>3. Moving("spin", s, cur_task') = {}
      BY DEF Moving, PushLabels, NextLabels, RunLabels
    <3>4. WalkOK("spin", s, h, Elements(k[Delayed]))
      BY DEF WalkOK, WalkLabels
    <3> QED BY <1>1, <2>3, <3>1, <3>2, <3>3, <3>4 DEF Placed
  <2> QED BY <1>1, <1>4, <2>3, <2>4, <2>5, <2>6, <2>7, <2>8 DEF PlaceInv, ticked
<1> QED BY <1>3, <1>4

LEMMA DecidePlace ==
  ASSUME FewTasks, PlaceInv, NEW c \in Ctx, TickBody(c),
         UNCHANGED <<torn, stale>>
  PROVE  PlaceInv'
BY RequeuePlace, DecisionPlace, PopPlace, RunPlace, SwitchPlace DEF TickBody

LEMMA StepPlace ==
  ASSUME FewTasks, PlaceInv, NEW c \in Ctx, Step(c),
         UNCHANGED <<torn, stale>>
  PROVE  PlaceInv'
BY CreatePlace, AddNewPlace, SleepPlace, PushPlace, BlockedPlace, DecidePlace
   DEF Step, scheduler_tick

LEMMA StutterPlace ==
  ASSUME PlaceInv, UNCHANGED <<svars, ticked>>
  PROVE  PlaceInv'
<1>1. SchedulerInv'
  BY StutterInv DEF PlaceInv
<1>2. /\ UNCHANGED <<heap, state, pid, cur_task, cur_process, ready_bitmap, pc, ret, loc, halt,
                     stale>>
      /\ Created' = Created /\ Executing' = Executing /\ Statement' = Statement
      /\ Registers' = Registers /\ Chosen' = Chosen
  BY DEF svars, ticked, tcbs, sched, frames, Created, Executing, Running, Statement,
         Registers, Chosen
<1>3. PICK h, k : Placed(h, k)
  BY DEF PlaceInv
<1>4. Placed(h, k)'
  BY <1>2, <1>3 DEF Placed
<1>5. Alone' /\ MainOK' /\ RunningStates' /\ MovingStates'
  BY <1>2 DEF PlaceInv, Alone, MainOK, RunningStates, MovingStates
<1>6. NewTasks' /\ HighestChosen' /\ BitmapMatches' /\ HaltsForNoTask'
  BY <1>2 DEF PlaceInv, NewTasks, HighestChosen, BitmapMatches, HaltsForNoTask
<1> QED BY <1>1, <1>2, <1>4, <1>5, <1>6 DEF PlaceInv

LEMMA InitPlace ==
  ASSUME SchedulerInit
  PROVE  PlaceInv
<1> USE DEF SchedulerInit
<1>1. /\ SchedulerInv /\ Created = {} /\ Main \in Ctx /\ Handler \in Ctx
      /\ Executing = Main /\ Statement = "main"
  BY InitInv, SchedulerAssumption
     DEF Created, Ctx, Executing, Running, Statement
<1>2. \A c \in Ctx : pc[c] \in {"main", "idle", "user"}
  OBVIOUS
<1>3. Alone /\ MainOK /\ NewTasks
  BY <1>1, <1>2 DEF Statement, Alone, MainOK, NewTasks, CriticalSections, PushLabels, WalkLabels,
     NextLabels, RunLabels, SwitchLabels
<1>4. RunningStates /\ MovingStates /\ HighestChosen /\ HaltsForNoTask
  BY <1>1 DEF RunningStates, MovingStates, HighestChosen, HaltsForNoTask, PushLabels,
     NextLabels, RunLabels, SwitchLabels
<1>5. BitmapMatches
  BY QueueKinds DEF BitmapMatches, EmptyHeap
<1>6. \E h, k : Placed(h, k)
  <2> DEFINE k == [q \in Queue |-> << >>]
  <2>1. heap \in HeapOver(Queue, Pointer) /\ Lists(heap, Queue, k)
    BY EmptyHeapType, EmptyLists DEF Pointer
  <2>2. Half("main", Registers, heap) = heap
    BY DEF Half
  <2>3. Moving("main", Registers, cur_task) = {}
    BY DEF Moving, PushLabels, NextLabels, RunLabels
  <2>4. WalkOK("main", Registers, heap, Elements(k[Delayed]))
    BY DEF WalkOK, WalkLabels
  <2>5. Listed(k, {}, state, Created)
    BY <1>1 DEF Listed, Elements
  <2> HIDE DEF k
  <2>6. Placed(heap, k)
    BY <1>1, <2>1, <2>2, <2>3, <2>4, <2>5 DEF Placed
  <2> QED BY <2>6
<1> QED BY <1>1, <1>3, <1>4, <1>5, <1>6 DEF PlaceInv

\* Between two critical sections the queues are those of the states.
LEMMA PlacedTasks ==
  ASSUME FewTasks, PlaceInv
  PROVE  EveryTaskPlaced
<1> SUFFICES ASSUME Quiescent
             PROVE  /\ \A q \in Queue : WellLinked(heap, q)
                    /\ \A t \in Task, q \in Queue :
                         t \in Reachable(heap, q) => q \in Home(t) /\ t \in Created
                    /\ \A t \in Created :
                         /\ Home(t) # {} => \E q \in Home(t) : t \in Reachable(heap, q)
                         /\ state[t] = "RUNNING" => t = cur_task
  BY DEF EveryTaskPlaced
<1>1. PICK h, k : Placed(h, k)
  BY DEF PlaceInv
<1>2. Statement \notin CriticalSections
  BY DEF Quiescent, Statement, Executing
<1>3. Lists(heap, Queue, k) /\ Listed(k, {}, state, Created)
  <2> DEFINE s == Statement
             r == Registers
  <2>1. Half(s, r, h) = h
    BY <1>2 DEF Half, CriticalSections, PushLabels, WalkLabels
  <2>2. Moving(s, r, cur_task) = {}
    BY <1>2 DEF Moving, CriticalSections, PushLabels, WalkLabels, NextLabels, RunLabels, SwitchLabels
  <2> QED BY <1>1, <2>1, <2>2 DEF Placed
<1>4. \A q \in Queue : WellLinked(heap, q) /\ Reachable(heap, q) = Elements(k[q])
  BY <1>3, ReachableLists
<1>5. \A t : Home(t) = HomeIn(state, t)
  BY DEF Home, HomeIn
<1>6. \A t \in Task, q \in Queue : t \in Reachable(heap, q) => q \in Home(t) /\ t \in Created
  BY <1>3, <1>4, <1>5 DEF Listed
<1>7. ASSUME NEW t \in Created, Home(t) # {}
      PROVE  \E q \in Home(t) : t \in Reachable(heap, q)
  <2>1. PICK q \in Queue : t \in Elements(k[q])
    BY <1>3, <1>5, <1>7 DEF Listed
  <2> QED BY <1>3, <1>4, <1>5, <2>1 DEF Listed
<1>8. \A t \in Created : state[t] = "RUNNING" => t = cur_task
  BY DEF PlaceInv, RunningStates
<1> QED BY <1>4, <1>6, <1>7, <1>8

\* Until a tick hits a critical section, the placement invariant holds.
THEOREM PlaceInvariant ==
  ASSUME FewTasks
  PROVE  SchedulerSpec => [](~torn => PlaceInv)
<1>1. SchedulerInit => PlaceInv
  BY InitPlace
<1>2. (~torn => PlaceInv) /\ [SchedulerNext]_<<svars, ticked>> => (~torn => PlaceInv)'
  <2> SUFFICES ASSUME ~torn => PlaceInv, [SchedulerNext]_<<svars, ticked>>, ~torn'
               PROVE  PlaceInv'
    OBVIOUS
  <2>1. CASE SysTick
    <3>1. PlaceInv
      BY <2>1 DEF SysTick
    <3> QED BY <2>1, <3>1, TimerPlace
  <2>2. CASE SchedulerCode /\ UNCHANGED ticked
    <3>1. PlaceInv
      BY <2>2 DEF ticked
    <3> QED BY <2>2, <3>1, TimerPlace, StepPlace DEF SchedulerCode, ticked
  <2>3. CASE UNCHANGED <<svars, ticked>>
    <3>1. PlaceInv
      BY <2>3 DEF ticked
    <3> QED BY <2>3, <3>1, StutterPlace
  <2> QED BY <2>1, <2>2, <2>3 DEF SchedulerNext
<1> QED BY <1>1, <1>2, PTL DEF SchedulerSpec

\* Outside critical sections every queue is well linked and every task is in the one
\* queue that its state names, until a tick has hit a critical section: task_add_ready,
\* task_block, task_sleep, the walk of scheduler_handle_blocked and task_pop_ready never
\* lose or double a task by themselves.
THEOREM TasksArePlaced ==
  ASSUME FewTasks
  PROVE  SchedulerSpec => []EveryTaskPlaced
<1>1. (~torn => PlaceInv) => EveryTaskPlaced
  BY PlacedTasks DEF EveryTaskPlaced
<1> QED BY <1>1, PlaceInvariant, PTL

\* What scheduler_tick has chosen when it pends the switch.
LEMMA PendingHighest ==
  ASSUME PlaceInv
  PROVE  HighestPriorityRuns
<1> SUFFICES ASSUME Statement = "pend"
             PROVE  \A t \in Created : state[t] = "READY" => Prio[t] <= Prio[next_process]
  BY DEF HighestPriorityRuns, Statement
<1>1. /\ "pend" \in SwitchLabels /\ "pend" \notin Undecided /\ Executing # Main
  BY DEF SwitchLabels, Undecided, Deciding, PushLabels, WalkLabels, NextLabels, RunLabels,
         PlaceInv, MainOK, Statement
<1>2. next_process = cur_task /\ Chosen = cur_task /\ cur_task # NULL
  BY <1>1 DEF PlaceInv, SchedulerInv, SwitchAgrees, RunningStates, Statement, Chosen
<1> QED BY <1>1, <1>2 DEF PlaceInv, HighestChosen

\* When scheduler_tick pends the switch, no READY task has a higher priority than the
\* task in next_process, unless a tick has hit a critical section.
THEOREM HighestPriorityIsChosen ==
  ASSUME FewTasks
  PROVE  SchedulerSpec => []HighestPriorityRuns
<1>1. (~torn => PlaceInv) => HighestPriorityRuns
  BY PendingHighest DEF HighestPriorityRuns
<1> QED BY <1>1, PlaceInvariant, PTL

-----------------------------------------------------------------------------
(* With a task that never sleeps there is always a task to run.            *)

\* As in main.c: one of the tasks created before the first tick never sleeps.
IdleBoots == \E t \in Boot : t \notin Sleepers

\* The tasks that main creates are all ready before the first tick.
Booted ==
  /\ pc[Main] # "spin" => Executing = Main
  /\ pc[Main] = "spin" => Boot \subseteq Created
  /\ \A t \in Boot \intersect Created : state[t] = "NONE" =>
       pc[Main] = "add_new" /\ loc[Main].task = t
  /\ \A t \in Created \ Sleepers : state[t] \in {"NONE", "READY", "RUNNING"}
  /\ Statement = "dispatch" => Registers.task # NULL
  /\ halt = "none"

BootInv == PlaceInv /\ Booted

\* A step of a task or of the handler after the boot.
LEMMA BootedStep ==
  ASSUME BootInv, PlaceInv', NEW c \in Ctx, c = Executing, c # Main,
         UNCHANGED pid \/ \A t \in Boot : pid'[t] = pid[t],
         pc'[Main] = pc[Main],
         \A t \in Boot : state'[t] = "NONE" => state[t] = "NONE",
         \A t \in Created' \ Sleepers : state'[t] \in {"NONE", "READY", "RUNNING"},
         Statement' = "dispatch" => Registers'.task # NULL,
         halt' # "assert_no_task"
  PROVE  BootInv'
<1>1. pc[Main] = "spin" /\ Boot \subseteq Created /\ Boot \in SUBSET Task
  BY SchedulerAssumption DEF BootInv, Booted
<1>2. Boot \subseteq Created'
  BY <1>1 DEF Created
<1>3. halt' = "none"
  BY DEF PlaceInv, HaltsForNoTask
<1>4. \A t \in Boot : state'[t] # "NONE"
  BY <1>1 DEF BootInv, Booted
<1> QED BY <1>1, <1>2, <1>3, <1>4 DEF BootInv, Booted

\* The ready task of the idle loop is seen by task_pop_ready.
LEMMA IdleIsReady ==
  ASSUME IdleBoots, BootInv, Statement = "bitmap"
  PROVE  ready_bitmap # {}
<1>1. PICK t \in Boot : t \notin Sleepers
  BY DEF IdleBoots
<1>2. Executing # Main
  BY DEF BootInv, PlaceInv, MainOK, Statement
<1>3. t \in Created /\ t \in Task /\ state[t] # "NONE"
  BY <1>1, <1>2 DEF BootInv, Booted, Created
<1>4. state[t] = "READY"
  <2>1. state[t] # "RUNNING"
    BY <1>3 DEF BootInv, PlaceInv, RunningStates, Deciding
  <2> QED BY <1>1, <1>3, <2>1 DEF BootInv, Booted
<1>5. PICK h, k : Placed(h, k)
  BY DEF BootInv, PlaceInv
<1>6. Lists(h, Queue, k) /\ heap = h /\ Listed(k, {}, state, Created)
  BY <1>5 DEF Placed, Moving, Half, PushLabels, NextLabels, RunLabels
<1>7. HomeIn(state, t) = {Ready(Prio[t])} /\ Prio[t] \in Priority
  BY <1>3, <1>4, OneHome, QueueKinds
<1>8. PICK o \in Queue : t \in Elements(k[o])
  BY <1>3, <1>6, <1>7 DEF Listed
<1>9. o = Ready(Prio[t])
  BY <1>3, <1>6, <1>7, <1>8 DEF Listed
<1>10. h.size[o] # 0
  <2>1. Len(k[o]) # 0
    BY <1>6, <1>8 DEF Elements, Lists
  <2> QED BY <1>6, <2>1, ListSizes
<1> QED BY <1>6, <1>7, <1>9, <1>10 DEF BootInv, PlaceInv, BitmapMatches

\* task_pop_ready returns a task once it has seen a bit set.
LEMMA PopsTask ==
  ASSUME FewTasks, PlaceInv, NEW c \in Ctx, c = Executing, pc[c] = "pop"
  PROVE  Popped(heap, Ready(loc[c].reg)) # NULL
<1> DEFINE p == loc[c].reg
           q == Ready(p)
<1>1. Statement = "pop" /\ Registers = loc[c]
  BY DEF Statement, Registers
<1>2. PICK h, k : Placed(h, k)
  BY DEF PlaceInv
<1>3. /\ h \in HeapOver(Queue, Pointer) /\ Lists(h, Queue, k) /\ heap = h
      /\ Listed(k, {}, state, Created)
  BY <1>1, <1>2 DEF Placed, Moving, Half, PushLabels, NextLabels, RunLabels
<1>4. q \in Queue /\ h.size[q] # 0
  <2>1. p \in ready_bitmap
    BY <1>1 DEF PlaceInv, HighestChosen
  <2>2. p \in Priority
    BY <2>1 DEF PlaceInv, SchedulerInv, TypeOK
  <2> QED BY <1>3, <2>1, <2>2, QueueKinds DEF PlaceInv, BitmapMatches
<1> HIDE DEF q
<1>5. Popped(h, q) \in Created
  <2>1. PICK g, d, t : PopEffect(h, k, q, g, d, t)
    BY <1>3, <1>4, PopCompletes
  <2> QED BY <2>1 DEF PopEffect
<1>6. Popped(h, q) # NULL
  BY <1>5, TaskQueueAssumption DEF Created
<1> QED BY <1>3, <1>6 DEF q

LEMMA BootedCreate ==
  ASSUME FewTasks, BootInv, NEW c \in Ctx, NEW t \in Task, task_init(c, t),
         UNCHANGED <<torn, stale>>
  PROVE  BootInv'
<1>1. /\ c = Executing /\ PlaceInv' /\ SchedulerInv /\ t \notin Created
      /\ \/ c = Main /\ pc[c] = "main" /\ t \in Boot
         \/ c \in Task /\ c # Main /\ pc[c] = "user" /\ t \notin Boot
  <2>0. PlaceInv'
    BY CreatePlace DEF BootInv
  <2>1. PlaceInv' /\ SchedulerInv
    BY <2>0 DEF BootInv, PlaceInv
  <2> QED BY <2>1, SchedulerAssumption DEF task_init, MayCreate, At
<1>2. /\ state' = [state EXCEPT ![t] = "NONE"] /\ pid' = [pid EXCEPT ![t] = next_pid]
      /\ pc' = [pc EXCEPT ![c] = "add_new"] /\ loc' = [loc EXCEPT ![c].task = t]
      /\ UNCHANGED <<cur_process, halt>>
  BY DEF task_init, Goto, sched
<1>3. /\ state'[t] = "NONE" /\ \A u \in Task \ {t} : state'[u] = state[u]
      /\ \A u \in Task \ {t} : pid'[u] = pid[u]
      /\ pc'[c] = "add_new" /\ loc'[c].task = t
      /\ \A d \in Ctx \ {c} : pc'[d] = pc[d]
  BY <1>1, <1>2 DEF SchedulerInv, TypeOK, Locals
<1>4. Created' = Created \union {t} /\ Boot \in SUBSET Task /\ Main \in Ctx
  BY <1>1, <1>2, SchedulerAssumption DEF SchedulerInv, TypeOK, Created, Ctx
<1>5. Executing' = c /\ Statement' = "add_new"
  <2>1. "add_new" \in Label
    BY DEF Label, KernelLabels
  <2> QED BY <1>1, <1>2, <2>1, SameContext
<1>6. \A u \in Created' \ Sleepers : state'[u] \in {"NONE", "READY", "RUNNING"}
  BY <1>3, <1>4 DEF BootInv, Booted, Created
<1>7. CASE c = Main
  <2>1. pc[Main] = "main" /\ t \in Boot
    BY <1>1, <1>7
  <2>2. \A u \in Boot \intersect Created : state[u] # "NONE"
    BY <2>1 DEF BootInv, Booted
  <2>3. \A u \in Boot \intersect Created' : state'[u] = "NONE" => u = t
    BY <1>3, <1>4, <2>2
  <2> QED BY <1>1, <1>2, <1>3, <1>5, <1>6, <1>7, <2>3 DEF BootInv, Booted
<1>8. CASE c # Main
  <2>1. \A u \in Boot : pid'[u] = pid[u] /\ state'[u] = state[u]
    BY <1>1, <1>3, <1>4, <1>8
  <2>2. pc'[Main] = pc[Main] /\ halt' # "assert_no_task"
    BY <1>2, <1>3, <1>4, <1>8 DEF BootInv, Booted
  <2> QED BY <1>1, <1>5, <1>6, <1>8, <2>1, <2>2, BootedStep
<1> QED BY <1>7, <1>8

LEMMA BootedAddNew ==
  ASSUME FewTasks, BootInv, NEW c \in Ctx, AddNew(c),
         UNCHANGED <<torn, stale>>
  PROVE  BootInv'
<1>1. /\ c = Executing /\ pc[c] = "add_new" /\ PlaceInv' /\ SchedulerInv /\ PlaceInv
      /\ Main \in Ctx
  <2>0. PlaceInv'
    BY AddNewPlace DEF BootInv
  <2>1. PlaceInv' /\ SchedulerInv /\ PlaceInv
    BY <2>0 DEF BootInv, PlaceInv
  <2> QED BY <2>1 DEF AddNew, At, Ctx
<1>2. PICK t : t = loc[c].task
  OBVIOUS
<1>3. t \in Created /\ t \in Task
  BY <1>1, <1>2 DEF PlaceInv, NewTasks, Created
<1>4. /\ state' = [state EXCEPT ![t] = "READY"] /\ halt' \in {halt, "fault"}
      /\ pc' = [pc EXCEPT ![c] = ret[c]] /\ UNCHANGED <<pid, cur_process>>
  BY <1>2 DEF AddNew, task_add_ready, ReadyFrom, Goto
<1>5. /\ state'[t] = "READY" /\ \A u \in Task \ {t} : state'[u] = state[u]
      /\ pc'[c] = ret[c] /\ \A d \in Ctx \ {c} : pc'[d] = pc[d]
      /\ Created' = Created /\ Boot \in SUBSET Task /\ Created \in SUBSET Task
  BY <1>1, <1>3, <1>4, SchedulerAssumption DEF SchedulerInv, TypeOK, Created
<1>6. ret[c] \in Label /\ ret[c] \notin {"idle", "dispatch"}
  <2>1. ret[c] \in ClientLabels \union {"user", "main"}
    BY <1>1 DEF SchedulerInv, TypeOK
  <2> QED BY <2>1, SchedulerAssumption DEF KernelLabels, Label
<1>7. Executing' = c /\ Statement' # "dispatch"
  BY <1>1, <1>4, <1>6, SameContext
<1>8. halt' # "assert_no_task"
  BY <1>4 DEF BootInv, Booted
<1>9. \A u \in Created' \ Sleepers : state'[u] \in {"NONE", "READY", "RUNNING"}
  BY <1>5 DEF BootInv, Booted
<1>10. CASE c = Main
  <2>1. pc'[Main] = "main" /\ Executing' = Main
    BY <1>1, <1>5, <1>7, <1>10 DEF PlaceInv, MainOK
  <2>2. \A u \in Boot \intersect Created' : state'[u] # "NONE"
    BY <1>1, <1>2, <1>5, <1>10 DEF BootInv, Booted
  <2>3. halt' = "none"
    BY <1>1, <1>8 DEF PlaceInv, HaltsForNoTask
  <2> QED BY <1>1, <1>7, <1>9, <2>1, <2>2, <2>3 DEF BootInv, Booted
<1>11. CASE c # Main
  <2>1. \A u \in Boot : state'[u] = "NONE" => state[u] = "NONE"
    BY <1>5
  <2>2. pc'[Main] = pc[Main]
    BY <1>1, <1>5, <1>11
  <2> QED BY <1>1, <1>4, <1>7, <1>8, <1>9, <1>11, <2>1, <2>2, BootedStep
<1> QED BY <1>10, <1>11

LEMMA BootedSleep ==
  ASSUME FewTasks, BootInv, NEW c \in Ctx, NEW n \in SleepTicks, task_sleep(c, n),
         UNCHANGED <<torn, stale>>
  PROVE  BootInv'
<1>1. /\ c = Executing /\ pc[c] = "user" /\ PlaceInv' /\ SchedulerInv /\ PlaceInv
      /\ Main \in Ctx /\ c \in Sleepers /\ c \in Task /\ c # Main /\ c # Handler
  <2>1. PlaceInv' /\ SchedulerInv /\ PlaceInv
    BY SleepPlace DEF BootInv, PlaceInv
  <2> QED BY <2>1, SchedulerAssumption DEF task_sleep, At, Ctx
<1>2. cur_task = c
  <2>1. pc[Handler] = "idle" /\ Running = c
    BY <1>1 DEF Executing
  <2> QED BY <1>1, <2>1 DEF PlaceInv, SchedulerInv, RunningIsCurrent, NextLabels, RunLabels,
                         SwitchLabels
<1>3. state[c] = "RUNNING" /\ c # NULL
  <2>1. "user" \notin Undecided
    BY DEF Undecided, Deciding, PushLabels, WalkLabels, NextLabels, RunLabels
  <2> QED BY <1>1, <1>2, <2>1 DEF PlaceInv, RunningStates, Statement
<1>4. /\ state' = [state EXCEPT ![c] = "DELAYED"] /\ UNCHANGED <<halt, pid, cur_process>>
      /\ pc' = [pc EXCEPT ![c] = "push"]
  BY <1>2, <1>3 DEF task_sleep, task_block, Goto
<1>5. /\ state'[c] = "DELAYED" /\ \A u \in Task \ {c} : state'[u] = state[u]
      /\ pc'[Main] = pc[Main] /\ Created' = Created /\ Created \in SUBSET Task
      /\ Boot \in SUBSET Task
  BY <1>1, <1>4, SchedulerAssumption DEF SchedulerInv, TypeOK, Created
<1>6. Statement' # "dispatch"
  <2>1. "push" \in Label
    BY DEF Label, KernelLabels, PushLabels
  <2> QED BY <1>1, <1>4, <2>1, SameContext
<1>7. \A u \in Created' \ Sleepers : state'[u] \in {"NONE", "READY", "RUNNING"}
  BY <1>1, <1>5 DEF BootInv, Booted
<1>8. halt' # "assert_no_task"
  BY <1>4 DEF BootInv, Booted
<1>9. \A u \in Boot : state'[u] = "NONE" => state[u] = "NONE"
  BY <1>5
<1> QED BY <1>1, <1>4, <1>5, <1>6, <1>7, <1>8, <1>9, BootedStep

\* The steps in which no task is created and none goes to sleep.
LEMMA BootedKernel ==
  ASSUME FewTasks, IdleBoots, BootInv, NEW c \in Ctx,
         UnprotectedPush(c) \/ scheduler_tick(c),
         UNCHANGED <<torn, stale>>
  PROVE  BootInv'
<1> USE DEF At, Goto, HeapStep, tcbs, sched
<1>1. /\ c = Executing /\ pc[c] \in Undecided \union SwitchLabels
      /\ UNCHANGED pid /\ \E l : pc' = [pc EXCEPT ![c] = l]
  <2>1. CASE UnprotectedPush(c)
    BY <2>1 DEF UnprotectedPush, PushClear, PushLink, PushHead, PushNext,
              PushBack, PushPrev, PushTail, PushSize, PushStore,
       Undecided, PushLabels
  <2>2. CASE HandleBlocked(c)
    BY <2>2 DEF HandleBlocked, WalkInit, Walk, Compare, RemoveHead, RemoveTail, RemoveNext, RemovePrev, RemoveTest, StoreHead, StoreTail, StoreNext, StorePrev, RemoveSize, RemoveStore, Wake, Undecided, WalkLabels
  <2>3. CASE TickBody(c)
    BY <2>3 DEF TickBody, Requeue, ReadBitmap, PopReady, Dispatch, LoadNext,
                    LoadRunning, ReadCurrent, StoreNextProcess, StoreRunning,
                    Count, CountStore, PendSV, Undecided, Deciding, NextLabels, RunLabels, SwitchLabels
  <2> QED BY <2>1, <2>2, <2>3 DEF scheduler_tick
<1>2. /\ PlaceInv' /\ PlaceInv /\ SchedulerInv /\ Main \in Ctx
      /\ Created \in SUBSET Task /\ Created' = Created /\ Boot \in SUBSET Task
  <2>1. Step(c) /\ PlaceInv
    BY DEF Step, BootInv
  <2>2. PlaceInv'
    BY <2>1, StepPlace
  <2> QED BY <1>1, <2>1, <2>2, SchedulerAssumption DEF PlaceInv, Created, Ctx
<1>3. c # Main
  BY <1>1, <1>2 DEF PlaceInv, MainOK, Undecided, Deciding, PushLabels, WalkLabels, NextLabels, RunLabels, SwitchLabels
<1>4. \A d \in Ctx \ {c} : pc'[d] = pc[d]
  BY <1>1, <1>2 DEF SchedulerInv, TypeOK
<1>5. ASSUME Statement' = "dispatch"
      PROVE  Executing' = c /\ pc'[c] = "dispatch" /\ Registers' = loc'[c]
  <2>1. Executing' \in Ctx
    BY <1>2 DEF PlaceInv, SchedulerInv, TypeOK, Executing, Running, Ctx, Known, Created
  <2>2. \A d \in Ctx \ {c} : pc'[d] # "dispatch"
    BY <1>1, <1>2, <1>4 DEF PlaceInv, Alone, CriticalSections
  <2> QED BY <1>5, <2>1, <2>2 DEF Statement, Registers
<1>6. ASSUME \A t \in Task : state'[t] \in {state[t], "READY", "RUNNING"},
             halt' # "assert_no_task",
             pc'[c] = "dispatch" => loc'[c].task # NULL
      PROVE  BootInv'
  <2>1. \A t \in Boot : state'[t] = "NONE" => state[t] = "NONE"
    BY <1>2, <1>6
  <2>2. \A t \in Created' \ Sleepers : state'[t] \in {"NONE", "READY", "RUNNING"}
    BY <1>2, <1>6 DEF BootInv, Booted
  <2>3. pc'[Main] = pc[Main]
    BY <1>2, <1>3, <1>4
  <2> QED BY <1>1, <1>2, <1>3, <1>5, <1>6, <2>1, <2>2, <2>3, BootedStep
<1>7. pc \in [Ctx -> Label] /\ state \in [Task -> TaskState] /\ loc \in [Ctx -> Locals]
      /\ halt = "none"
  BY <1>2 DEF SchedulerInv, TypeOK, Label, BootInv, Booted
<1>8. ASSUME NEW t, ReadyFrom(heap, t)
      PROVE  halt' # "assert_no_task" /\ \A u \in Task : state'[u] \in {state[u], "READY", "RUNNING"}
  BY <1>7, <1>8 DEF ReadyFrom
<1>9. CASE UnprotectedPush(c)
  BY <1>6, <1>7, <1>9 DEF UnprotectedPush, PushClear, PushLink, PushHead, PushNext, PushBack,
     PushPrev, PushTail, PushSize, PushStore
<1>10. CASE HandleBlocked(c) /\ ~Wake(c)
  BY <1>6, <1>7, <1>10 DEF HandleBlocked, WalkInit, Walk, Compare, RemoveHead, RemoveTail,
     RemoveNext, RemovePrev, RemoveTest, StoreHead, StoreTail, StoreNext, StorePrev,
     RemoveSize, RemoveStore
<1>11. CASE Wake(c)
  BY <1>6, <1>7, <1>8, <1>11 DEF Wake, task_add_ready
<1>12. CASE Requeue(c)
  BY <1>6, <1>7, <1>8, <1>12 DEF Requeue, task_add_ready
<1>13. CASE ReadBitmap(c)
  <2>1. ready_bitmap # {}
    BY <1>1, <1>13, IdleIsReady DEF ReadBitmap, Statement
  <2> QED BY <1>6, <1>7, <1>13, <2>1 DEF ReadBitmap
<1>14. CASE PopReady(c)
  <2>1. Popped(heap, Ready(loc[c].reg)) # NULL
    BY <1>2, <1>14, PopsTask DEF PopReady
  <2>2. loc'[c].task # NULL
    BY <1>7, <1>14, <2>1 DEF PopReady, Locals
  <2>3. UNCHANGED state /\ halt' # "assert_no_task"
    BY <1>7, <1>14 DEF PopReady
  <2> QED BY <1>6, <2>2, <2>3
<1>15. CASE Dispatch(c)
  <2>1. loc[c].task # NULL
    BY <1>1, <1>15 DEF Dispatch, BootInv, Booted, Statement, Registers
  <2> QED BY <1>6, <1>7, <1>15, <2>1 DEF Dispatch
<1>16. CASE \/ LoadNext(c) \/ StoreNextProcess(c) \/ LoadRunning(c) \/ StoreRunning(c)
           \/ Count(c) \/ CountStore(c)
  BY <1>6, <1>7, <1>16 DEF LoadNext, StoreNextProcess, LoadRunning, ReadCurrent, StoreRunning,
     Count, CountStore
<1>17. CASE PendSV(c)
  <2>1. ret[c] # "dispatch"
    <3>1. ret[c] \in ClientLabels \union {"user", "main"}
      BY <1>2 DEF SchedulerInv, TypeOK
    <3> QED BY <3>1, SchedulerAssumption DEF KernelLabels
  <2> QED BY <1>6, <1>7, <1>17, <2>1 DEF PendSV
<1> QED BY <1>9, <1>10, <1>11, <1>12, <1>13, <1>14, <1>15, <1>16, <1>17
    DEF scheduler_tick, TickBody

LEMMA BootedTimer ==
  ASSUME BootInv, (SysTick /\ ~torn') \/ (init_systick /\ UNCHANGED ticked)
  PROVE  BootInv'
<1>1. /\ PlaceInv' /\ SchedulerInv /\ Main \in Ctx /\ Handler \in Ctx /\ Main # Handler
      /\ UNCHANGED <<state, pid, cur_process, loc, halt>>
      /\ Created' = Created
  <2>1. PlaceInv' /\ SchedulerInv
    BY TimerPlace DEF BootInv, PlaceInv
  <2> QED BY <2>1, SchedulerAssumption DEF SysTick, init_systick, tcbs, sched, Ctx, Created
<1>2. CASE SysTick /\ ~torn'
  <2>1. pc[Main] = "spin" /\ pc' = [pc EXCEPT ![Handler] = "walk_init"]
    BY <1>2 DEF SysTick, Goto
  <2>2. pc'[Main] = "spin" /\ pc'[Handler] = "walk_init"
    BY <1>1, <2>1 DEF SchedulerInv, TypeOK
  <2>3. Statement' # "dispatch"
    BY <2>2 DEF Statement, Executing
  <2> QED BY <1>1, <2>1, <2>2, <2>3 DEF BootInv, Booted
<1>3. CASE init_systick /\ UNCHANGED ticked
  <2>1. /\ pc[Main] = "main" /\ pc' = [pc EXCEPT ![Main] = "spin"] /\ Boot \subseteq Created
        /\ Main = Executing
    BY <1>3 DEF init_systick, At, Goto
  <2>2. pc'[Main] = "spin"
    BY <1>1, <2>1 DEF SchedulerInv, TypeOK
  <2>3. Statement' # "dispatch"
    <3>1. "spin" \in Label
      BY DEF Label, KernelLabels
    <3> QED BY <1>1, <2>1, <3>1, SameContext
  <2>4. \A t \in Boot \intersect Created : state[t] # "NONE"
    BY <2>1 DEF BootInv, Booted
  <2> QED BY <1>1, <2>1, <2>2, <2>3, <2>4 DEF BootInv, Booted
<1> QED BY <1>2, <1>3

LEMMA BootedStutter ==
  ASSUME BootInv, UNCHANGED <<svars, ticked>>
  PROVE  BootInv'
<1>1. PlaceInv'
  BY StutterPlace DEF BootInv
<1>2. Booted'
  BY DEF BootInv, Booted, svars, ticked, tcbs, sched, frames, Created, Executing, Running,
     Statement, Registers
<1> QED BY <1>1, <1>2 DEF BootInv

LEMMA BootedInit ==
  ASSUME SchedulerInit
  PROVE  BootInv
<1>1. PlaceInv
  BY InitPlace
<1>2. /\ pc[Main] = "main" /\ Executing = Main /\ Created = {} /\ Statement = "main"
      /\ halt = "none"
  BY SchedulerAssumption DEF SchedulerInit, Executing, Running, Ctx, Created, Statement
<1> QED BY <1>1, <1>2 DEF BootInv, Booted

\* No ASSERT of scheduler.c, task_queue.c or tcb.c fails, and no NULL is dereferenced,
\* until a tick hits a critical section: above all, scheduler_tick always finds a task
\* to run.
THEOREM HaltsOnlyAfterTear ==
  ASSUME FewTasks, IdleBoots
  PROVE  SchedulerSpec => []HaltsOnlyIfTorn
<1>1. SchedulerInit => BootInv
  BY BootedInit
<1>2. (~torn => BootInv) /\ [SchedulerNext]_<<svars, ticked>> => (~torn => BootInv)'
  <2> SUFFICES ASSUME ~torn => BootInv, [SchedulerNext]_<<svars, ticked>>, ~torn'
               PROVE  BootInv'
    OBVIOUS
  <2>1. CASE SysTick
    <3>1. BootInv
      BY <2>1 DEF SysTick
    <3> QED BY <2>1, <3>1, BootedTimer
  <2>2. CASE SchedulerCode /\ UNCHANGED ticked
    <3>1. BootInv
      BY <2>2 DEF ticked
    <3>2. ASSUME NEW c \in Ctx, Step(c) PROVE BootInv'
      BY <2>2, <3>1, <3>2, BootedCreate, BootedAddNew, BootedSleep, BootedKernel
         DEF Step, ticked
    <3> QED BY <2>2, <3>1, <3>2, BootedTimer DEF SchedulerCode
  <2>3. CASE UNCHANGED <<svars, ticked>>
    <3>1. BootInv
      BY <2>3 DEF ticked
    <3> QED BY <2>3, <3>1, BootedStutter
  <2> QED BY <2>1, <2>2, <2>3 DEF SchedulerNext
<1>3. (~torn => BootInv) => HaltsOnlyIfTorn
  BY DEF BootInv, Booted, HaltsOnlyIfTorn
<1> QED BY <1>1, <1>2, <1>3, PTL DEF SchedulerSpec

-----------------------------------------------------------------------------
(* The ready lists during the steps that do not concern them.              *)

\* The ready lists of the heap h are those of k.
Kept(h, k) == \A p \in Priority : ListOf(h, Ready(p), k[Ready(p)])

Outside(t, k) == \A p \in Priority : t \notin Elements(k[Ready(p)])

\* A heap that agrees on the cells of the ready lists.
LEMMA KeptCells ==
  ASSUME NEW h, NEW g, NEW k, Kept(h, k),
         \A p \in Priority : /\ g.size[Ready(p)] = h.size[Ready(p)]
                             /\ g.head[Ready(p)] = h.head[Ready(p)]
                             /\ g.tail[Ready(p)] = h.tail[Ready(p)],
         \A u : ~Outside(u, k) => g.next[u] = h.next[u] /\ g.prev[u] = h.prev[u]
  PROVE  Kept(g, k)
<1> SUFFICES ASSUME NEW p \in Priority
             PROVE  ListOf(g, Ready(p), k[Ready(p)])
  BY DEF Kept
<1>1. ListOf(h, Ready(p), k[Ready(p)])
  BY DEF Kept
<1>2. \A i \in 1 .. Len(k[Ready(p)]) : ~Outside(k[Ready(p)][i], k)
  BY DEF Outside, Elements
<1> QED BY <1>1, <1>2 DEF ListOf

\* The statements of task_push and task_remove on a queue that is not a ready list.
LEMMA StatementsKeep ==
  ASSUME NEW h \in HeapOver(Queue, Pointer), NEW k, Kept(h, k),
         NEW q \in Queue, \A p \in Priority : q # Ready(p),
         NEW t \in Task, Outside(t, k)
  PROVE  /\ Kept(ClearLinks(h, t), k)
         /\ Outside(h.tail[q], k) => Kept(LinkLast(h, q, t), k)
         /\ Kept(LinkBack(h, q, t), k) /\ Kept(SetTail(h, q, t), k)
         /\ Kept(UnlinkHead(h, q, t), k) /\ Kept(UnlinkTail(h, q, t), k)
         /\ Outside(h.prev[t], k) => Kept(UnlinkNext(h, t), k)
         /\ Outside(h.next[t], k) => Kept(UnlinkPrev(h, t), k)
<1>h. /\ h.next \in [Task -> Pointer] /\ h.prev \in [Task -> Pointer]
      /\ h.head \in [Queue -> Pointer] /\ h.tail \in [Queue -> Pointer]
      /\ h = [next |-> h.next, prev |-> h.prev, head |-> h.head, tail |-> h.tail,
              size |-> h.size]
  BY DEF HeapOver
<1>1. Kept(ClearLinks(h, t), k)
  <2> DEFINE g == ClearLinks(h, t)
  <2>1. /\ g.size = h.size /\ g.head = h.head /\ g.tail = h.tail
        /\ \A u : ~Outside(u, k) => g.next[u] = h.next[u] /\ g.prev[u] = h.prev[u]
    BY <1>h DEF ClearLinks
  <2> HIDE DEF g
  <2> QED BY <2>1, KeptCells DEF g
<1>2. ASSUME Outside(h.tail[q], k) PROVE Kept(LinkLast(h, q, t), k)
  <2> DEFINE g == LinkLast(h, q, t)
  <2>1. /\ g.size = h.size /\ g.tail = h.tail /\ g.prev = h.prev
        /\ \A p \in Priority : g.head[Ready(p)] = h.head[Ready(p)]
        /\ \A u : ~Outside(u, k) => g.next[u] = h.next[u]
    BY <1>2, <1>h DEF LinkLast
  <2> HIDE DEF g
  <2> QED BY <2>1, KeptCells DEF g
<1>3. Kept(LinkBack(h, q, t), k)
  <2> DEFINE g == LinkBack(h, q, t)
  <2>1. /\ g.size = h.size /\ g.tail = h.tail /\ g.head = h.head /\ g.next = h.next
        /\ \A u : ~Outside(u, k) => g.prev[u] = h.prev[u]
    BY <1>h DEF LinkBack
  <2> HIDE DEF g
  <2> QED BY <2>1, KeptCells DEF g
<1>4. Kept(SetTail(h, q, t), k)
  <2> DEFINE g == SetTail(h, q, t)
  <2>1. /\ g.size = h.size /\ g.prev = h.prev /\ g.head = h.head /\ g.next = h.next
        /\ \A p \in Priority : g.tail[Ready(p)] = h.tail[Ready(p)]
    BY <1>h DEF SetTail
  <2> HIDE DEF g
  <2> QED BY <2>1, KeptCells DEF g
<1>5. Kept(UnlinkHead(h, q, t), k)
  <2> DEFINE g == UnlinkHead(h, q, t)
  <2>1. /\ g.size = h.size /\ g.prev = h.prev /\ g.tail = h.tail /\ g.next = h.next
        /\ \A p \in Priority : g.head[Ready(p)] = h.head[Ready(p)]
    BY <1>h DEF UnlinkHead
  <2> HIDE DEF g
  <2> QED BY <2>1, KeptCells DEF g
<1>6. Kept(UnlinkTail(h, q, t), k)
  <2> DEFINE g == UnlinkTail(h, q, t)
  <2>1. /\ g.size = h.size /\ g.prev = h.prev /\ g.head = h.head /\ g.next = h.next
        /\ \A p \in Priority : g.tail[Ready(p)] = h.tail[Ready(p)]
    BY <1>h DEF UnlinkTail
  <2> HIDE DEF g
  <2> QED BY <2>1, KeptCells DEF g
<1>7. ASSUME Outside(h.prev[t], k) PROVE Kept(UnlinkNext(h, t), k)
  <2> DEFINE g == UnlinkNext(h, t)
  <2>1. /\ g.size = h.size /\ g.prev = h.prev /\ g.head = h.head /\ g.tail = h.tail
        /\ \A u : ~Outside(u, k) => g.next[u] = h.next[u]
    BY <1>7, <1>h DEF UnlinkNext
  <2> HIDE DEF g
  <2> QED BY <2>1, KeptCells DEF g
<1>8. ASSUME Outside(h.next[t], k) PROVE Kept(UnlinkPrev(h, t), k)
  <2> DEFINE g == UnlinkPrev(h, t)
  <2>1. /\ g.size = h.size /\ g.next = h.next /\ g.head = h.head /\ g.tail = h.tail
        /\ \A u : ~Outside(u, k) => g.prev[u] = h.prev[u]
    BY <1>8, <1>h DEF UnlinkPrev
  <2> HIDE DEF g
  <2> QED BY <2>1, KeptCells DEF g
<1> QED BY <1>1, <1>2, <1>3, <1>4, <1>5, <1>6, <1>7, <1>8

LEMMA ListsKeep ==
  ASSUME NEW h, NEW k, Lists(h, Queue, k)
  PROVE  /\ Kept(h, k)
         /\ \A q \in Queue : \A t \in Elements(k[q]) :
              (\A p \in Priority : q # Ready(p)) => Outside(t, k)
<1>1. Kept(h, k)
  BY QueueKinds DEF Lists, Kept
<1>2. ASSUME NEW q \in Queue, NEW t \in Elements(k[q]), \A p \in Priority : q # Ready(p)
      PROVE  Outside(t, k)
  BY <1>2, QueueKinds DEF Lists, Disjoint, Outside, Elements
<1> QED BY <1>1, <1>2

\* The neighbours in a queue that is not a ready list are in no ready list.
LEMMA NeighboursOutside ==
  ASSUME NEW h, NEW k, Lists(h, Queue, k), NEW q \in Queue, \A p \in Priority : q # Ready(p)
  PROVE  /\ Outside(h.tail[q], k)
         /\ \A t \in Elements(k[q]) : Outside(h.next[t], k) /\ Outside(h.prev[t], k)
<1>0. Outside(NULL, k)
  <2> SUFFICES ASSUME NEW p \in Priority PROVE NULL \notin Elements(k[Ready(p)])
    BY DEF Outside
  <2>1. k[Ready(p)] \in Seq(Task)
    BY QueueKinds DEF Lists
  <2> QED BY <2>1, SequenceOfTasks DEF Elements
<1>1. \A t \in Elements(k[q]) : Outside(t, k)
  BY ListsKeep
<1>2. ListOf(h, q, k[q]) /\ Len(k[q]) \in Nat
  BY DEF Lists
<1>3. Outside(h.tail[q], k)
  <2>1. CASE Len(k[q]) = 0
    BY <1>0, <1>2, <2>1 DEF ListOf
  <2>2. CASE Len(k[q]) # 0
    <3>1. Len(k[q]) \in 1 .. Len(k[q])
      BY <1>2, <2>2
    <3> QED BY <1>1, <1>2, <2>2, <3>1 DEF ListOf, Elements
  <2> QED BY <2>1, <2>2
<1>4. ASSUME NEW i \in 1 .. Len(k[q])
      PROVE  Outside(h.next[k[q][i]], k) /\ Outside(h.prev[k[q][i]], k)
  <2>1. /\ h.next[k[q][i]] = IF i = Len(k[q]) THEN NULL ELSE k[q][i + 1]
        /\ h.prev[k[q][i]] = IF i = 1 THEN NULL ELSE k[q][i - 1]
    BY <1>2 DEF ListOf
  <2>2. i # Len(k[q]) => i + 1 \in 1 .. Len(k[q])
    BY <1>2
  <2>3. i # 1 => i - 1 \in 1 .. Len(k[q])
    BY <1>2
  <2>4. i # Len(k[q]) => Outside(k[q][i + 1], k)
    BY <1>1, <2>2 DEF Elements
  <2>5. i # 1 => Outside(k[q][i - 1], k)
    BY <1>1, <2>3 DEF Elements
  <2>6. Outside(h.next[k[q][i]], k)
    BY <1>0, <2>1, <2>4
  <2>7. Outside(h.prev[k[q][i]], k)
    BY <1>0, <2>1, <2>5
  <2> QED BY <2>6, <2>7
<1>5. \A t \in Elements(k[q]) : Outside(h.next[t], k) /\ Outside(h.prev[t], k)
  BY <1>4 DEF Elements
<1> QED BY <1>3, <1>5

LEMMA HalfPushKeeps ==
  ASSUME NEW h \in HeapOver(Queue, Pointer), NEW k, Lists(h, Queue, k),
         NEW q \in Queue, \A p \in Priority : q # Ready(p), NEW t \in Task, Outside(t, k),
         NEW r, r.task = t, r.list = q, NEW l \in PushLabels
  PROVE  Kept(Half(l, r, h), k)
<1> DEFINE cleared == ClearLinks(h, t)
           linked  == LinkLast(cleared, q, t)
           backed  == IF h.size[q] = 0 THEN linked ELSE LinkBack(linked, q, t)
           ended   == SetTail(backed, q, t)
<1>1. Kept(h, k) /\ Outside(h.tail[q], k) /\ t \in Task \intersect Pointer /\ NULL \in Pointer
  BY ListsKeep, NeighboursOutside DEF Pointer
<1>a. cleared \in HeapOver(Queue, Pointer)
  BY <1>1, StatementsType
<1>b. Kept(cleared, k)
  BY <1>1, StatementsKeep
<1>c. cleared.tail = h.tail
  BY DEF ClearLinks, HeapOver
<1>2. cleared \in HeapOver(Queue, Pointer) /\ Kept(cleared, k) /\ cleared.tail = h.tail
  BY <1>a, <1>b, <1>c
<1>3. /\ Half(l, r, h) = IF l = "push" THEN h
                         ELSE IF l \in {"push_link", "push_head", "push_next"} THEN cleared
                         ELSE IF l \in {"push_back", "push_prev"} THEN linked
                         ELSE IF l = "push_tail" THEN backed ELSE ended
  BY DEF Half, PushLabels
<1> HIDE DEF cleared
<1>4. linked \in HeapOver(Queue, Pointer) /\ Kept(linked, k)
  BY <1>1, <1>2, StatementsType, StatementsKeep
<1> HIDE DEF linked
<1>5. backed \in HeapOver(Queue, Pointer) /\ Kept(backed, k)
  <2>1. LinkBack(linked, q, t) \in HeapOver(Queue, Pointer) /\ Kept(LinkBack(linked, q, t), k)
    BY <1>1, <1>4, StatementsType, StatementsKeep
  <2> QED BY <1>4, <2>1
<1> HIDE DEF backed
<1>6. Kept(ended, k)
  BY <1>1, <1>5, StatementsKeep
<1> HIDE DEF ended
<1> QED BY <1>1, <1>2, <1>3, <1>4, <1>5, <1>6

LEMMA HalfUnlinkKeeps ==
  ASSUME NEW h \in HeapOver(Queue, Pointer), NEW k, Lists(h, Queue, k),
         NEW w \in Task, w \in Elements(k[Delayed]),
         NEW r, r.walker = w, NEW l \in WalkLabels \ {"walk", "wake"}
  PROVE  Kept(Half(l, r, h), k)
<1> DEFINE q    == Delayed
           head == UnlinkHead(h, q, w)
           ends == UnlinkTail(head, q, w)
           next == UnlinkNext(ends, w)
           prev == UnlinkPrev(next, w)
<1>1. /\ q \in Queue /\ \A p \in Priority : q # Ready(p)
      /\ w \in Task \intersect Pointer /\ NULL \in Pointer /\ Kept(h, k) /\ Outside(w, k)
      /\ Outside(h.next[w], k) /\ Outside(h.prev[w], k)
  BY QueueKinds, ListsKeep, NeighboursOutside DEF Pointer
<1>2. Half(l, r, h) \in {h, head, ends, next, prev}
  BY DEF Half, WalkLabels
<1>3. /\ head.next = h.next /\ head.prev = h.prev
      /\ ends.next = h.next /\ ends.prev = h.prev
      /\ next.next[w] \in {h.next[w]} \union {next.next[w]}
  BY DEF UnlinkHead, UnlinkTail, HeapOver
<1>4. next.next[w] = h.next[w]
  <2>1. h.prev[w] # w
    <3>1. PICK i \in 1 .. Len(k[q]) : w = k[q][i]
      BY DEF Elements
    <3>2. Len(k[q]) \in Nat /\ i \in Nat
      BY QueueKinds DEF Lists
    <3>3. /\ h.prev[w] = IF i = 1 THEN NULL ELSE k[q][i - 1]
          /\ \A j \in 1 .. Len(k[q]) : k[q][j] = w => j = i
      BY <1>1, <3>1 DEF Lists, ListOf, Disjoint
    <3>4. CASE i = 1
      BY <3>3, <3>4, TaskQueueAssumption
    <3>5. CASE i # 1
      <4>1. i - 1 \in 1 .. Len(k[q]) /\ i - 1 # i
        BY <3>2, <3>5
      <4> QED BY <3>3, <3>5, <4>1
    <3> QED BY <3>4, <3>5
  <2>2. ends.next \in [Task -> Pointer]
    BY <1>3 DEF HeapOver
  <2> HIDE DEF ends
  <2> QED BY <1>3, <2>1, <2>2 DEF UnlinkNext
<1>5. head \in HeapOver(Queue, Pointer) /\ Kept(head, k)
  BY <1>1, StatementsType, StatementsKeep
<1> HIDE DEF head
<1>6. ends \in HeapOver(Queue, Pointer) /\ Kept(ends, k)
  BY <1>1, <1>5, StatementsType, StatementsKeep
<1> HIDE DEF ends
<1>7. next \in HeapOver(Queue, Pointer) /\ Kept(next, k)
  BY <1>1, <1>3, <1>6, StatementsType, StatementsKeep
<1> HIDE DEF next
<1>8. Kept(prev, k)
  BY <1>1, <1>4, <1>7, StatementsKeep
<1> HIDE DEF prev
<1> QED BY <1>1, <1>2, <1>5, <1>6, <1>7, <1>8

\* The sequences of a placement are the ready lists, even in the middle of an operation
\* on another queue.
Lines == [p \in Priority |-> InOrder(Ready(p))]

LEMMA PlacedKept ==
  ASSUME PlaceInv, NEW h, NEW k, Placed(h, k)
  PROVE  Kept(heap, k)
<1> DEFINE l == Statement
           r == Registers
<1>1. /\ h \in HeapOver(Queue, Pointer) /\ Lists(h, Queue, k) /\ heap = Half(l, r, h)
      /\ WalkOK(l, r, h, Elements(k[Delayed]))
  BY DEF Placed
<1>m. l \in PushLabels => Listed(k, {r.task}, state, Created)
  <2>1. l \in PushLabels => Moving(l, r, cur_task) = {r.task}
    BY DEF Moving, PushLabels, NextLabels, RunLabels
  <2>2. Listed(k, Moving(l, r, cur_task), state, Created)
    BY DEF Placed
  <2> HIDE DEF l, r
  <2> QED BY <2>1, <2>2
<1>2. CASE l \in PushLabels
  <2> DEFINE t == r.task
             q == r.list
  <2>1. t \in Task /\ state[t] \in {"DELAYED", "BLOCKED"} /\ q \in HomeIn(state, t)
    BY <1>2 DEF PlaceInv, MovingStates, Created
  <2>2. q \in Queue /\ \A p \in Priority : q # Ready(p)
    BY <2>1, WaitersHome
  <2>3. Outside(t, k)
    BY <1>m, <1>2, QueueKinds DEF Listed, Outside
  <2> HIDE DEF l, r
  <2> QED BY <1>1, <1>2, <2>1, <2>2, <2>3, HalfPushKeeps
<1>3. CASE l \in WalkLabels \ {"walk", "wake"}
  <2>1. r.walker \in Elements(k[Delayed])
    BY <1>1, <1>3 DEF WalkOK
  <2>2. r.walker \in Task
    <3>1. k[Delayed] \in Seq(Task)
      BY <1>1, QueueKinds DEF Lists
    <3> QED BY <2>1, <3>1, SequenceOfTasks DEF Elements
  <2> HIDE DEF l, r
  <2> QED BY <1>1, <1>3, <2>1, <2>2, HalfUnlinkKeeps
<1>4. CASE l \notin PushLabels \union (WalkLabels \ {"walk", "wake"})
  <2>1. Half(l, r, h) = h
    BY <1>4 DEF Half, PushLabels, WalkLabels
  <2> QED BY <1>1, <2>1, ListsKeep
<1> QED BY <1>2, <1>3, <1>4

LEMMA KeptLines ==
  ASSUME FewTasks, NEW h, NEW k, k \in [Queue -> Seq(Task)], Disjoint(Queue, k), Kept(h, k)
  PROVE  [p \in Priority |-> [i \in 1 .. h.size[Ready(p)] |-> Nth(h, Ready(p))[i - 1]]]
           = [p \in Priority |-> k[Ready(p)]]
<1> SUFFICES ASSUME NEW p \in Priority
             PROVE  [i \in 1 .. h.size[Ready(p)] |-> Nth(h, Ready(p))[i - 1]] = k[Ready(p)]
  OBVIOUS
<1> DEFINE Q == {Ready(o) : o \in Priority}
           c == [q \in Q |-> k[q]]
<1>1. Q \subseteq Queue /\ Ready(p) \in Q
  BY QueueKinds
<1>2. Lists(h, Q, c)
  BY <1>1 DEF Lists, Disjoint, Kept
<1>3. c[Ready(p)] = k[Ready(p)]
  BY <1>1
<1> HIDE DEF Q, c
<1>4. /\ c[Ready(p)] = [i \in 1 .. Cardinality(Reachable(h, Ready(p))) |-> Nth(h, Ready(p))[i - 1]]
      /\ Cardinality(Reachable(h, Ready(p))) = Len(c[Ready(p)])
  <2>1. \A q \in Q : c[q] = [i \in 1 .. Cardinality(Reachable(h, q)) |-> Nth(h, q)[i - 1]]
    <3> TAKE q \in Q
    <3> QED BY <1>2, WalkOfLists
  <2>2. Cardinality(Reachable(h, Ready(p))) = Len(c[Ready(p)])
    BY <1>1, <1>2, ReachableLists
  <2> QED BY <1>1, <2>1, <2>2
<1>5. h.size[Ready(p)] = Len(c[Ready(p)])
  BY <1>1, <1>2 DEF Lists, ListOf
<1> QED BY <1>3, <1>4, <1>5

LEMMA PlacedLines ==
  FewTasks => \A h, k : PlaceInv /\ Placed(h, k) => Lines = [p \in Priority |-> k[Ready(p)]]
<1> SUFFICES ASSUME FewTasks, NEW h, NEW k, PlaceInv, Placed(h, k)
             PROVE  Lines = [p \in Priority |-> k[Ready(p)]]
  OBVIOUS
<1>1. Kept(heap, k)
  BY PlacedKept
<1>2. k \in [Queue -> Seq(Task)] /\ Disjoint(Queue, k)
  BY DEF Placed, Lists
<1>3. [p \in Priority |-> [i \in 1 .. heap.size[Ready(p)] |-> Nth(heap, Ready(p))[i - 1]]]
           = [p \in Priority |-> k[Ready(p)]]
  BY <1>1, <1>2, KeptLines
<1> QED BY <1>3 DEF Lines, InOrder

LEMMA NextPlacedLines ==
  ASSUME FewTasks, PlaceInv', NEW g, NEW d, Placed(g, d)'
  PROVE  Lines' = [p \in Priority |-> d[Ready(p)]]
<1>1. (FewTasks => \A h, k : PlaceInv /\ Placed(h, k) => Lines = [p \in Priority |-> k[Ready(p)]])'
  BY PlacedLines, PTL
<1> QED BY <1>1

LEMMA SteadyLines ==
  ASSUME FewTasks, PlaceInv, PlaceInv', SameLines
  PROVE  Lines' = Lines
<1>2. \A g, d : Placed(g, d)' => Lines' = [p \in Priority |-> d[Ready(p)]]
  BY NextPlacedLines
<1>3. \A h, k : Placed(h, k) => Lines = [p \in Priority |-> k[Ready(p)]]
  BY PlacedLines
<1> QED BY <1>2, <1>3 DEF SameLines

LEMMA JoinsLines ==
  ASSUME FewTasks, PlaceInv, PlaceInv', NEW t \in Task, Joins(t)
  PROVE  Lines' = [Lines EXCEPT ![Prio[t]] = Append(@, t)]
<1>2. PICK h, k, g, d : Placed(h, k) /\ Placed(g, d)' /\ Joined(k, d, t)
  BY DEF Joins
<1>3. Lines' = [p \in Priority |-> d[Ready(p)]]
  BY <1>2, NextPlacedLines
<1>4. Lines = [p \in Priority |-> k[Ready(p)]]
  BY <1>2, PlacedLines
<1>5. \A p \in Priority : d[Ready(p)] = IF p = Prio[t] THEN Append(k[Ready(p)], t) ELSE k[Ready(p)]
  BY <1>2 DEF Joined
<1> QED BY <1>3, <1>4, <1>5

LEMMA LeavesLines ==
  ASSUME FewTasks, PlaceInv, PlaceInv', NEW p \in Priority, NEW t, Leaves(p, t)
  PROVE  /\ Lines[p] # << >> /\ t = Head(Lines[p])
         /\ Lines' = [Lines EXCEPT ![p] = Tail(@)]
         /\ \A q \in Priority : q > p => Lines[q] = << >>
<1>2. PICK h, k, g, d : Placed(h, k) /\ Placed(g, d)' /\ Left(k, d, p, t)
  BY DEF Leaves
<1>3. Lines' = [o \in Priority |-> d[Ready(o)]]
  BY <1>2, NextPlacedLines
<1>4. Lines = [o \in Priority |-> k[Ready(o)]]
  BY <1>2, PlacedLines
<1>5. \A o \in Priority : k[Ready(o)] \in Seq(Task)
  BY <1>2, QueueKinds DEF Placed, Lists
<1>6. /\ Len(k[Ready(p)]) # 0 /\ t = k[Ready(p)][1]
      /\ \A o \in Priority : d[Ready(o)] = IF o = p THEN Without(k[Ready(o)], 1) ELSE k[Ready(o)]
      /\ \A o \in Priority : o > p => Len(k[Ready(o)]) = 0
  BY <1>2 DEF Left
<1>7. /\ Tail(k[Ready(p)]) = Without(k[Ready(p)], 1)
      /\ Head(k[Ready(p)]) = k[Ready(p)][1] /\ k[Ready(p)] # << >>
  <2> DEFINE s == k[Ready(p)]
  <2>1. s \in Seq(Task) /\ Len(s) # 0
    BY <1>5, <1>6
  <2> HIDE DEF s
  <2>2. Tail(s) = Without(s, 1) /\ Head(s) = s[1] /\ s # << >>
    BY <2>1, TailIsWithout
  <2> QED BY <2>2 DEF s
<1>8. \A o \in Priority : o > p => k[Ready(o)] = << >>
  <2> SUFFICES ASSUME NEW o \in Priority, o > p PROVE k[Ready(o)] = << >>
    OBVIOUS
  <2>1. k[Ready(o)] \in Seq(Task) /\ Len(k[Ready(o)]) = 0
    BY <1>5, <1>6
  <2> QED BY <2>1
<1> QED BY <1>3, <1>4, <1>6, <1>7, <1>8

\* The tasks of the abstract scheduler that sleep or wait.
Asleep == {t \in Created : state[t] \in {"DELAYED", "BLOCKED"}}

GivenAt(l, r, cur, s) ==
  IF l = "dispatch" THEN r.task
  ELSE IF l \in NextLabels \union RunLabels THEN cur
  ELSE IF cur # NULL /\ s[cur] = "RUNNING" THEN cur ELSE NULL

\* What has the processor depends on where the context that executes is.
LEMMA GivenNow ==
  Given = GivenAt(Statement, Registers, cur_task, state)
BY DEF Given, GivenAt, Statement, Registers, NextLabels, RunLabels

LEMMA GivenNext ==
  Given' = GivenAt(Statement', Registers', cur_task', state')
BY DEF Given, GivenAt, Statement, Registers, NextLabels, RunLabels

\* The steps of PriorityScheduler in terms of its variables here.
LEMMA AbstractStutter ==
  ASSUME Lines' = Lines, Asleep' = Asleep, Given' = Given
  PROVE  [Abstract!Next]_<<Lines, Asleep, Given>>
OBVIOUS

LEMMA AbstractCreate ==
  ASSUME NEW t \in Task, t \notin Asleep, t # Given,
         \A p \in Priority : \A i \in DOMAIN Lines[p] : Lines[p][i] # t,
         Lines' = [Lines EXCEPT ![Prio[t]] = Append(@, t)],
         Asleep' = Asleep, Given' = Given
  PROVE  Abstract!Next
<1>1. t \notin Abstract!Placed
  BY DEF Abstract!Placed, Lines, Asleep
<1>2. Abstract!Enqueued(t)
  BY DEF Abstract!Enqueued, Lines
<1>3. Abstract!Create(t)
  BY <1>1, <1>2 DEF Abstract!Create, Asleep
<1> QED BY <1>3 DEF Abstract!Next

LEMMA AbstractWake ==
  ASSUME NEW t \in Task, t \in Asleep, Asleep' = Asleep \ {t},
         Lines' = [Lines EXCEPT ![Prio[t]] = Append(@, t)], Given' = Given
  PROVE  Abstract!Next
<1>1. Abstract!Enqueued(t)
  BY DEF Abstract!Enqueued, Lines
<1>2. Abstract!Wake(t)
  BY <1>1 DEF Abstract!Wake, Asleep
<1> QED BY <1>2 DEF Abstract!Next

LEMMA AbstractPreempt ==
  ASSUME Given # NULL, Given' = NULL, Asleep' = Asleep,
         Lines' = [Lines EXCEPT ![Prio[Given]] = Append(@, Given)]
  PROVE  Abstract!Next
<1>1. Abstract!Enqueued(Given)
  BY DEF Abstract!Enqueued, Lines
<1>2. Abstract!Preempt
  BY <1>1 DEF Abstract!Preempt, Asleep
<1> QED BY <1>2 DEF Abstract!Next

LEMMA AbstractSleep ==
  ASSUME Given # NULL, Asleep' = Asleep \union {Given}, Given' = NULL, Lines' = Lines
  PROVE  Abstract!Next
<1>1. Abstract!Sleep
  BY DEF Abstract!Sleep, Asleep, Lines
<1> QED BY <1>1 DEF Abstract!Next

LEMMA AbstractChoose ==
  ASSUME NEW p \in Priority, Given = NULL, Lines[p] # << >>,
         \A q \in Priority : q > p => Lines[q] = << >>,
         Given' = Head(Lines[p]), Lines' = [Lines EXCEPT ![p] = Tail(@)], Asleep' = Asleep
  PROVE  Abstract!Next
<1>1. Abstract!Choose(p)
  BY DEF Abstract!Choose, Lines, Asleep
<1> QED BY <1>1 DEF Abstract!Next

-----------------------------------------------------------------------------
(* The steps of the scheduler.                                             *)

AbstractStep == [Abstract!Next]_<<Lines, Asleep, Given>>

Choosing == {"dispatch"} \union NextLabels \union RunLabels

LEMMA SameGiven ==
  ASSUME Statement \notin Choosing, Statement' \notin Choosing, UNCHANGED <<cur_task, state>>
  PROVE  Given' = Given
BY GivenNow, GivenNext DEF GivenAt, Choosing

LEMMA SameHeap ==
  ASSUME UNCHANGED heap
  PROVE  Lines' = Lines
BY DEF Lines, InOrder

LEMMA SameAsleep ==
  ASSUME UNCHANGED <<state, pid>>
  PROVE  Asleep' = Asleep
BY DEF Asleep, Created

\* SysTick and the end of main's set-up.
LEMMA TimerRefines ==
  ASSUME PlaceInv, (SysTick /\ ~torn') \/ (init_systick /\ UNCHANGED ticked)
  PROVE  AbstractStep
<1> USE DEF Choosing, NextLabels, RunLabels
<1>1. UNCHANGED <<heap, state, pid, cur_task>>
  BY DEF SysTick, init_systick, tcbs, sched
<1>2. SchedulerInv /\ Handler \in Ctx /\ Main \in Ctx /\ Handler # Main
  BY SchedulerAssumption DEF PlaceInv, Ctx
<1>3. CASE SysTick /\ ~torn'
  <2>1. /\ pc[Handler] = "idle" /\ pc' = [pc EXCEPT ![Handler] = "walk_init"]
        /\ pc[Running] \notin CriticalSections /\ Executing = Running
    BY <1>3 DEF SysTick, Goto, Executing
  <2>2. Statement' = "walk_init" /\ Statement = pc[Running]
    BY <1>2, <2>1 DEF SchedulerInv, TypeOK, Executing, Statement
  <2>3. Statement \notin Choosing
    BY <2>1, <2>2 DEF CriticalSections
  <2> QED BY <1>1, <2>2, <2>3, SameGiven, SameHeap, SameAsleep, AbstractStutter DEF AbstractStep
<1>4. CASE init_systick /\ UNCHANGED ticked
  <2>1. Main = Executing /\ pc[Main] = "main" /\ pc' = [pc EXCEPT ![Main] = "spin"]
        /\ UNCHANGED cur_process
    BY <1>4 DEF init_systick, At, Goto, sched
  <2>2. "spin" \in Label
    BY DEF Label, KernelLabels
  <2>3. Statement = "main" /\ Statement' = "spin"
    BY <1>2, <2>1, <2>2, SameContext DEF Statement
  <2> QED BY <1>1, <2>3, SameGiven, SameHeap, SameAsleep, AbstractStutter DEF AbstractStep
<1> QED BY <1>3, <1>4

\* task_init does nothing to the tasks that exist.
LEMMA CreateRefines ==
  ASSUME FewTasks, PlaceInv, NEW c \in Ctx, NEW t \in Task, task_init(c, t),
         UNCHANGED <<torn, stale>>
  PROVE  AbstractStep
<1>1. /\ c = Executing /\ pc[c] \in {"main", "user"} /\ SchedulerInv /\ t \notin Created
      /\ Statement = pc[c]
  BY SchedulerAssumption DEF task_init, MayCreate, At, PlaceInv, Statement
<1>2. /\ state' = [state EXCEPT ![t] = "NONE"] /\ pid' = [pid EXCEPT ![t] = next_pid]
      /\ pc' = [pc EXCEPT ![c] = "add_new"] /\ UNCHANGED <<cur_task, cur_process>>
  BY DEF task_init, Goto, sched
<1>3. /\ state'[t] = "NONE" /\ \A u \in Task \ {t} : state'[u] = state[u]
      /\ cur_task # NULL => cur_task \in Task \ {t}
  BY <1>1, <1>2 DEF SchedulerInv, TypeOK, Known, Created
<1>4. Created' = Created \union {t} /\ Created \in SUBSET Task
  BY <1>1, <1>2 DEF SchedulerInv, TypeOK, Created
<1>5. "add_new" \in Label
  BY DEF Label, KernelLabels
<1>6. Statement' = "add_new"
  BY <1>1, <1>2, <1>5, SameContext
<1>7. Asleep' = Asleep
  BY <1>1, <1>3, <1>4 DEF Asleep
<1>8. Given' = Given
  BY <1>1, <1>2, <1>3, <1>6, GivenNow, GivenNext DEF GivenAt, NextLabels, RunLabels
<1>9. PlaceInv' /\ SameLines
  BY CreatePlace
<1>10. Lines' = Lines
  BY <1>9, SteadyLines
<1> QED BY <1>7, <1>8, <1>10, AbstractStutter DEF AbstractStep

\* The lists in a state in which no task is on the move.
LEMMA InNoLine ==
  ASSUME FewTasks, PlaceInv, Statement = "add_new",
         NEW t \in Task, state[t] \notin {"READY", "DELAYED", "BLOCKED"}
  PROVE  \A p \in Priority : \A i \in DOMAIN Lines[p] : Lines[p][i] # t
<1>1. PICK h, k : Placed(h, k)
  BY DEF PlaceInv
<1>2. Lines = [p \in Priority |-> k[Ready(p)]]
  BY <1>1, PlacedLines
<1>3. Listed(k, {}, state, Created) /\ Lists(h, Queue, k)
  BY <1>1 DEF Placed, Moving, PushLabels, NextLabels, RunLabels
<1>4. HomeIn(state, t) = {}
  BY OneHome
<1> SUFFICES ASSUME NEW p \in Priority, NEW i \in DOMAIN k[Ready(p)]
             PROVE  k[Ready(p)][i] # t
  BY <1>2
<1>5. Ready(p) \in Queue /\ k[Ready(p)] \in Seq(Task)
  BY <1>3, QueueKinds DEF Lists
<1>6. k[Ready(p)][i] \in Elements(k[Ready(p)])
  BY <1>5 DEF Elements
<1>7. t \notin Elements(k[Ready(p)])
  BY <1>3, <1>4, <1>5 DEF Listed
<1> QED BY <1>6, <1>7

\* task_add_ready of a new task creates it.
LEMMA AddNewRefines ==
  ASSUME FewTasks, PlaceInv, NEW c \in Ctx, AddNew(c),
         UNCHANGED <<torn, stale>>
  PROVE  AbstractStep
<1>1. /\ c = Executing /\ pc[c] = "add_new" /\ SchedulerInv /\ Statement = pc[c]
  BY DEF AddNew, At, PlaceInv, Statement
<1>2. /\ task_add_ready(loc[c].task) /\ pc' = [pc EXCEPT ![c] = ret[c]]
      /\ UNCHANGED <<pid, cur_task, cur_process>>
  BY DEF AddNew, Goto
<1>3. PICK t : t = loc[c].task
  OBVIOUS
<1>4. t \in Created /\ t \in Task /\ state[t] = "NONE"
  BY <1>1, <1>3 DEF PlaceInv, NewTasks, Created
<1>5. state'[t] = "READY" /\ \A u \in Task \ {t} : state'[u] = state[u]
  BY <1>1, <1>2, <1>3, <1>4 DEF task_add_ready, ReadyFrom, SchedulerInv, TypeOK
<1>6. ret[c] \in Label /\ ret[c] # "idle" /\ ret[c] \notin Choosing
  <2>1. ret[c] \in ClientLabels \union {"user", "main"}
    BY <1>1 DEF SchedulerInv, TypeOK
  <2> QED BY <2>1, SchedulerAssumption
          DEF Label, KernelLabels, PushLabels, WalkLabels, NextLabels, RunLabels, SwitchLabels, Choosing
<1>7. Statement' = ret[c]
  BY <1>1, <1>2, <1>6, SameContext
<1>8. PlaceInv' /\ Joins(t)
  BY <1>3, AddNewPlace
<1>9. Lines' = [Lines EXCEPT ![Prio[t]] = Append(@, t)]
  BY <1>4, <1>8, JoinsLines
<1>10. Asleep' = Asleep /\ t \notin Asleep
  BY <1>2, <1>4, <1>5 DEF Asleep, Created
<1>11. Given' = Given /\ t # Given
  <2>1. cur_task # NULL => cur_task \in Task
    BY <1>1 DEF SchedulerInv, TypeOK, Known, Created
  <2>2. t # NULL
    BY <1>4, TaskQueueAssumption
  <2> QED BY <1>1, <1>2, <1>4, <1>5, <1>6, <1>7, <2>1, <2>2, GivenNow, GivenNext
          DEF GivenAt, Choosing, NextLabels, RunLabels
<1>12. \A p \in Priority : \A i \in DOMAIN Lines[p] : Lines[p][i] # t
  BY <1>1, <1>4, InNoLine
<1>13. Abstract!Next
  BY <1>4, <1>9, <1>10, <1>11, <1>12, AbstractCreate
<1> QED BY <1>13 DEF AbstractStep

\* Steps of mutexes, of semaphores and of task_sleep.
LEMMA OwnStepRefines ==
  ASSUME Statement \in ClientLabels \union {"user"}, Statement' \in ClientLabels \union {"user"},
         UNCHANGED <<heap, state, pid, cur_task>>
  PROVE  AbstractStep
<1>1. Statement \notin Choosing /\ Statement' \notin Choosing
  <2>1. \A l \in ClientLabels \union {"user"} : l \notin Choosing
    BY OwnLabels DEF Choosing, NextLabels, RunLabels
  <2> QED BY <2>1
<1> QED BY <1>1, SameHeap, SameAsleep, SameGiven, AbstractStutter DEF AbstractStep

LEMMA OwnBlockRefines ==
  ASSUME PlaceInv, Statement \in ClientLabels \union {"user"}, Statement' = "push",
         UNCHANGED <<heap, pid, cur_task>>, cur_task \in Created, cur_task # NULL,
         state[cur_task] = "RUNNING", NEW s \in {"DELAYED", "BLOCKED"},
         state' = [state EXCEPT ![cur_task] = s]
  PROVE  AbstractStep
<1>1. PICK t : t = cur_task
  OBVIOUS
<1>2. /\ t \in Created /\ t \in Task
      /\ state'[t] = s /\ \A u \in Task \ {t} : state'[u] = state[u]
  BY <1>1 DEF PlaceInv, SchedulerInv, TypeOK, Created
<1>3. Statement \notin Choosing /\ "push" \notin Choosing
  BY OwnLabels DEF Choosing, NextLabels, RunLabels
<1>4. Given = t /\ Given' = NULL
  BY <1>1, <1>2, <1>3, GivenNow, GivenNext DEF GivenAt, Choosing
<1>5. Asleep' = Asleep \union {t}
  BY <1>2 DEF Asleep, Created
<1>6. Abstract!Next
  BY <1>1, <1>4, <1>5, SameHeap, AbstractSleep
<1> QED BY <1>6 DEF AbstractStep

LEMMA WakeRefines ==
  ASSUME FewTasks, PlaceInv, PlaceInv', Statement \notin CriticalSections,
         Statement' \notin CriticalSections, UNCHANGED <<pid, cur_task>>,
         NEW t \in Created, Joins(t), state[t] = "BLOCKED",
         state' = [state EXCEPT ![t] = "READY"]
  PROVE  AbstractStep
<1>1. /\ t \in Task
      /\ cur_task # NULL => cur_task \in Task
      /\ state'[t] = "READY" /\ \A u \in Task \ {t} : state'[u] = state[u]
  BY DEF PlaceInv, SchedulerInv, TypeOK, Known, Created
<1>2. Lines' = [Lines EXCEPT ![Prio[t]] = Append(@, t)]
  BY <1>1, JoinsLines
<1>3. t \in Asleep /\ Asleep' = Asleep \ {t}
  BY <1>1 DEF Asleep, Created
<1>4. Statement \notin Choosing /\ Statement' \notin Choosing
  BY DEF Choosing, CriticalSections, NextLabels, RunLabels
<1>5. Given' = Given
  BY <1>1, <1>4, GivenNow, GivenNext DEF GivenAt, Choosing
<1>6. Abstract!Next
  BY <1>1, <1>2, <1>3, <1>5, AbstractWake
<1> QED BY <1>6 DEF AbstractStep

\* task_sleep puts the task that has the processor to sleep.
LEMMA SleepRefines ==
  ASSUME FewTasks, PlaceInv, NEW c \in Ctx, NEW n \in SleepTicks, task_sleep(c, n),
         UNCHANGED <<torn, stale>>
  PROVE  AbstractStep
<1>1. /\ c = Executing /\ pc[c] = "user" /\ SchedulerInv /\ Statement = pc[c] /\ c # Main
  BY SchedulerAssumption DEF task_sleep, At, PlaceInv, Statement
<1>2. cur_task # NULL /\ state[cur_task] = "RUNNING"
  BY <1>1 DEF PlaceInv, RunningStates, Undecided, Deciding, PushLabels, WalkLabels,
              NextLabels, RunLabels
<1>3. cur_task \in Created
  BY <1>1, <1>2 DEF SchedulerInv, TypeOK, Known
<1>4. /\ pc' = [pc EXCEPT ![c] = "push"] /\ UNCHANGED <<heap, pid, cur_task, cur_process>>
      /\ state' = [state EXCEPT ![cur_task] = "DELAYED"]
  BY <1>2 DEF task_sleep, task_block, Goto
<1>5. "push" \in Label /\ "push" # "idle"
  BY DEF Label, KernelLabels, PushLabels
<1>6. Statement' = "push"
  BY <1>1, <1>4, <1>5, SameContext
<1> QED BY <1>1, <1>2, <1>3, <1>4, <1>6, OwnBlockRefines

\* The push does nothing to the ready lists.
LEMMA PushRefines ==
  ASSUME FewTasks, PlaceInv, NEW c \in Ctx, UnprotectedPush(c),
         UNCHANGED <<torn, stale>>
  PROVE  AbstractStep
<1>1. /\ c = Executing /\ pc[c] \in PushLabels /\ SchedulerInv /\ Statement = pc[c]
      /\ UNCHANGED <<state, pid, cur_task, cur_process>>
  BY DEF UnprotectedPush, PushClear, PushLink, PushHead, PushNext,
              PushBack, PushPrev, PushTail, PushSize, PushStore,
         HeapStep, At, PlaceInv, Statement, tcbs, sched, PushLabels
<1>2. PICK l \in PushLabels \union {"walk_init"} : pc' = [pc EXCEPT ![c] = l]
  BY DEF UnprotectedPush, PushClear, PushLink, PushHead, PushNext,
              PushBack, PushPrev, PushTail, PushSize, PushStore,
         HeapStep, Goto, PushLabels
<1>3. l \in Label /\ l # "idle" /\ l \notin Choosing /\ pc[c] \notin Choosing
  BY <1>1 DEF Label, KernelLabels, Choosing, PushLabels, NextLabels, RunLabels
<1>4. Statement' = l
  BY <1>1, <1>2, <1>3, SameContext
<1>5. PlaceInv' /\ SameLines
  BY PushPlace
<1>6. Lines' = Lines
  BY <1>5, SteadyLines
<1>7. Asleep' = Asleep /\ Given' = Given
  BY <1>1, <1>3, <1>4, SameAsleep, SameGiven
<1> QED BY <1>6, <1>7, AbstractStutter DEF AbstractStep

\* The walk wakes sleeping tasks and does nothing else.
LEMMA BlockedRefines ==
  ASSUME FewTasks, PlaceInv, NEW c \in Ctx, HandleBlocked(c),
         UNCHANGED <<torn, stale>>
  PROVE  AbstractStep
<1>1. /\ c = Executing /\ pc[c] \in WalkLabels \union {"walk_init"} /\ SchedulerInv
      /\ Statement = pc[c] /\ UNCHANGED <<pid, cur_task, cur_process>>
  BY DEF HandleBlocked, WalkInit, Walk, Compare, RemoveHead, RemoveTail, RemoveNext, RemovePrev, RemoveTest, StoreHead, StoreTail, StoreNext, StorePrev, RemoveSize, RemoveStore, Wake, HeapStep, At, PlaceInv, Statement,
         tcbs, sched, WalkLabels
<1>2. PICK l \in WalkLabels \union {"requeue"} : pc' = [pc EXCEPT ![c] = l]
  BY DEF HandleBlocked, WalkInit, Walk, Compare, RemoveHead, RemoveTail, RemoveNext, RemovePrev, RemoveTest, StoreHead, StoreTail, StoreNext, StorePrev, RemoveSize, RemoveStore, Wake, HeapStep, Goto, WalkLabels
<1>3. l \in Label /\ l # "idle" /\ l \notin Choosing /\ pc[c] \notin Choosing
  BY <1>1 DEF Label, KernelLabels, Choosing, WalkLabels, NextLabels, RunLabels
<1>4. Statement' = l
  BY <1>1, <1>2, <1>3, SameContext
<1>5. PlaceInv' /\ IF Wake(c) THEN Joins(loc[c].walker) ELSE SameLines
  BY BlockedPlace
<1>6. CASE ~Wake(c)
  <2>1. UNCHANGED state
    BY <1>6 DEF HandleBlocked, WalkInit, Walk, Compare, RemoveHead, RemoveTail, RemoveNext,
         RemovePrev, RemoveTest, StoreHead, StoreTail, StoreNext, StorePrev, RemoveSize,
         RemoveStore, HeapStep, tcbs
  <2>2. Lines' = Lines
    BY <1>5, <1>6, SteadyLines
  <2>3. Asleep' = Asleep /\ Given' = Given
    BY <1>1, <1>3, <1>4, <2>1, SameAsleep, SameGiven
  <2> QED BY <2>2, <2>3, AbstractStutter DEF AbstractStep
<1>7. CASE Wake(c)
  <2>1. PICK t : t = loc[c].walker
    OBVIOUS
  <2>2. t \in Created /\ t \in Task /\ state[t] = "DELAYED"
    BY <1>1, <1>7, <2>1 DEF Wake, At, PlaceInv, MovingStates, Created, Registers
  <2>3. state'[t] = "READY" /\ \A u \in Task \ {t} : state'[u] = state[u]
    BY <1>1, <1>7, <2>1, <2>2 DEF Wake, task_add_ready, ReadyFrom, SchedulerInv, TypeOK
  <2>4. Lines' = [Lines EXCEPT ![Prio[t]] = Append(@, t)]
    BY <1>5, <1>7, <2>1, <2>2, JoinsLines
  <2>5. t \in Asleep /\ Asleep' = Asleep \ {t}
    BY <1>1, <2>2, <2>3 DEF Asleep, Created
  <2>6. Given' = Given
    <3>1. cur_task # NULL => cur_task \in Task
      BY <1>1 DEF SchedulerInv, TypeOK, Known, Created
    <3> QED BY <1>1, <1>3, <1>4, <2>2, <2>3, <3>1, GivenNow, GivenNext DEF GivenAt, Choosing
  <2>7. Abstract!Next
    BY <2>2, <2>4, <2>5, <2>6, AbstractWake
  <2> QED BY <2>7 DEF AbstractStep
<1> QED BY <1>6, <1>7

\* In the rest of scheduler_tick the task that had the processor is requeued and the
\* first one of the highest ready list is taken.
LEMMA RequeueRefines ==
  ASSUME FewTasks, PlaceInv, NEW c \in Ctx, Requeue(c),
         UNCHANGED <<torn, stale>>
  PROVE  AbstractStep
<1>1. /\ c = Executing /\ pc[c] = "requeue" /\ SchedulerInv /\ Statement = pc[c]
      /\ pc' = [pc EXCEPT ![c] = "bitmap"] /\ UNCHANGED <<pid, cur_task, cur_process>>
  BY DEF Requeue, At, Goto, PlaceInv, Statement
<1>2. "bitmap" \in Label
  BY DEF Label, KernelLabels
<1>3. Statement' = "bitmap"
  BY <1>1, <1>2, SameContext
<1>4. PlaceInv' /\ (cur_task # NULL /\ state[cur_task] = "RUNNING" => Joins(cur_task))
  BY RequeuePlace
<1>5. CASE cur_task # NULL /\ state[cur_task] = "RUNNING"
  <2>1. PICK t : t = cur_task
    OBVIOUS
  <2>2. t \in Created /\ t \in Task /\ state[t] = "RUNNING" /\ t # NULL
    BY <1>1, <1>5, <2>1 DEF SchedulerInv, TypeOK, Known, Created
  <2>3. state'[t] = "READY" /\ \A u \in Task \ {t} : state'[u] = state[u]
    BY <1>1, <1>5, <2>1, <2>2 DEF Requeue, task_add_ready, ReadyFrom, SchedulerInv, TypeOK
  <2>4. Joins(t)
    BY <1>4, <1>5, <2>1
  <2>5. Lines' = [Lines EXCEPT ![Prio[t]] = Append(@, t)]
    BY <1>4, <2>2, <2>4, JoinsLines
  <2>6. Given = t /\ Given' = NULL
    BY <1>1, <1>3, <2>1, <2>2, <2>3, GivenNow, GivenNext DEF GivenAt, NextLabels, RunLabels
  <2>7. Asleep' = Asleep
    BY <1>1, <2>2, <2>3 DEF Asleep, Created
  <2>8. Lines' = [Lines EXCEPT ![Prio[Given]] = Append(@, Given)]
    BY <2>5, <2>6
  <2>9. Abstract!Next
    BY <2>2, <2>6, <2>7, <2>8, AbstractPreempt
  <2> QED BY <2>9 DEF AbstractStep
<1>6. CASE ~(cur_task # NULL /\ state[cur_task] = "RUNNING")
  <2>1. UNCHANGED <<heap, state>>
    BY <1>6 DEF Requeue
  <2> QED BY <1>1, <1>3, <2>1, SameHeap, SameAsleep, SameGiven, AbstractStutter
          DEF AbstractStep, Choosing, NextLabels, RunLabels
<1> QED BY <1>5, <1>6

LEMMA PopRefines ==
  ASSUME FewTasks, PlaceInv, NEW c \in Ctx, PopReady(c),
         UNCHANGED <<torn, stale>>
  PROVE  AbstractStep
<1>1. /\ c = Executing /\ pc[c] = "pop" /\ SchedulerInv /\ Statement = pc[c]
      /\ pc' = [pc EXCEPT ![c] = "dispatch"]
      /\ UNCHANGED <<state, pid, cur_task, cur_process>>
  BY DEF PopReady, At, Goto, PlaceInv, Statement, tcbs
<1>2. "dispatch" \in Label /\ "pop" \in Deciding
  BY DEF Label, KernelLabels, Deciding
<1>3. Statement' = "dispatch" /\ Registers' = loc'[c]
  BY <1>1, <1>2, SameContext
<1>4. PlaceInv' /\ loc[c].reg \in Priority /\ Leaves(loc[c].reg, loc'[c].task)
  BY PopPlace
<1>5. PICK p, t : p = loc[c].reg /\ t = loc'[c].task
  OBVIOUS
<1>6. PlaceInv' /\ p \in Priority /\ Leaves(p, t)
  BY <1>4, <1>5
<1>7. /\ Lines[p] # << >> /\ t = Head(Lines[p])
      /\ Lines' = [Lines EXCEPT ![p] = Tail(@)]
      /\ \A q \in Priority : q > p => Lines[q] = << >>
  BY <1>6, LeavesLines
<1>8. Given = NULL
  <2>1. cur_task # NULL => cur_task \in Created
    BY <1>1 DEF SchedulerInv, TypeOK, Known
  <2>2. cur_task # NULL => state[cur_task] # "RUNNING"
    BY <1>1, <1>2, <2>1 DEF PlaceInv, RunningStates
  <2> QED BY <1>1, <2>2, GivenNow DEF GivenAt, NextLabels, RunLabels
<1>9. Given' = t
  BY <1>3, <1>5, GivenNext DEF GivenAt
<1>10. Asleep' = Asleep
  BY <1>1, SameAsleep
<1>11. Given' = Head(Lines[p])
  BY <1>7, <1>9
<1>12. Abstract!Next
  BY <1>6, <1>7, <1>8, <1>10, <1>11, AbstractChoose
<1> QED BY <1>12 DEF AbstractStep

LEMMA DecisionRefines ==
  ASSUME FewTasks, PlaceInv, NEW c \in Ctx,
         \/ ReadBitmap(c) \/ Dispatch(c) \/ LoadNext(c) \/ StoreNextProcess(c)
         \/ LoadRunning(c) \/ StoreRunning(c) \/ Count(c) \/ CountStore(c),
         UNCHANGED <<torn, stale>>
  PROVE  AbstractStep
<1> USE DEF At, Goto, tcbs, sched, GivenAt, NextLabels, RunLabels
<1>1. /\ c = Executing /\ SchedulerInv /\ Statement = pc[c] /\ Registers = loc[c]
      /\ UNCHANGED <<heap, pid, cur_process>>
  BY DEF ReadBitmap, Dispatch, LoadNext, StoreNextProcess, LoadRunning, ReadCurrent,
         StoreRunning, Count, CountStore, PlaceInv, Statement, Registers
<1>2. /\ \A t \in Created : state[t] = "RUNNING" => t = cur_task /\ Statement \notin Deciding
      /\ cur_task # NULL => cur_task \in Created
      /\ loc \in [Ctx -> Locals] /\ state \in [Task -> TaskState]
  BY <1>1 DEF SchedulerInv, TypeOK, Known, PlaceInv, RunningStates
<1>3. ASSUME NEW l \in Label, l # "idle", pc' = [pc EXCEPT ![c] = l]
      PROVE  Statement' = l /\ Registers' = loc'[c]
  BY <1>1, <1>3, SameContext
<1>4. Lines' = Lines
  BY <1>1, SameHeap
<1>5. ASSUME Given' = Given, Asleep' = Asleep PROVE AbstractStep
  BY <1>4, <1>5, AbstractStutter DEF AbstractStep
<1>6. CASE ReadBitmap(c)
  <2> USE <1>6 DEF ReadBitmap
  <2> DEFINE l == IF ready_bitmap = {} THEN "dispatch" ELSE "pop"
  <2>1. l \in Label /\ l # "idle" /\ pc' = [pc EXCEPT ![c] = l] /\ pc[c] \in Deciding
    BY DEF Label, KernelLabels, Deciding
  <2>2. Statement' = l /\ Registers' = loc'[c] /\ Statement = "bitmap"
    BY <1>1, <1>3, <2>1
  <2>3. l = "dispatch" => loc'[c].task = NULL
    BY <1>2 DEF Locals
  <2>4. Given = NULL
    BY <1>1, <1>2, <2>1, <2>2, GivenNow
  <2>5. cur_task' = cur_task /\ state' = state
    OBVIOUS
  <2>6. cur_task # NULL => state[cur_task] # "RUNNING"
    BY <1>1, <1>2, <2>1
  <2>7. Given' = NULL
    BY <2>2, <2>3, <2>5, <2>6, GivenNext
  <2> QED BY <1>1, <1>5, <2>4, <2>5, <2>7, SameAsleep
<1>7. CASE Dispatch(c)
  <2> USE <1>7 DEF Dispatch
  <2>1. "next_load" \in Label
    BY DEF Label, KernelLabels
  <2>2. Statement' = "next_load" /\ Statement = "dispatch"
    BY <1>1, <1>3, <2>1
  <2>3. Given' = Given
    BY <1>1, <2>2, GivenNow, GivenNext
  <2> QED BY <1>1, <1>5, <2>3, SameAsleep
<1>8. CASE LoadNext(c) \/ StoreNextProcess(c) \/ LoadRunning(c)
  <2> USE <1>8 DEF LoadNext, StoreNextProcess, LoadRunning, ReadCurrent
  <2>1. PICK l \in {"next_store", "run_load", "run_store"} : pc' = [pc EXCEPT ![c] = l]
    OBVIOUS
  <2>2. l \in Label /\ l # "idle"
    BY DEF Label, KernelLabels, SwitchLabels
  <2>3. Statement' = l /\ Statement \in NextLabels \union RunLabels
        /\ UNCHANGED <<cur_task, state>>
    BY <1>1, <1>3, <2>1, <2>2
  <2>4. Given' = Given
    BY <1>1, <2>3, GivenNow, GivenNext
  <2> QED BY <1>1, <1>5, <2>3, <2>4, SameAsleep
<1>9. CASE StoreRunning(c)
  <2> USE <1>9 DEF StoreRunning
  <2>1. "count" \in Label
    BY DEF Label, KernelLabels, SwitchLabels
  <2>2. Statement' = "count" /\ Statement = "run_store" /\ halt = "none"
    BY <1>1, <1>3, <2>1
  <2>3. /\ cur_task # NULL /\ state[cur_task] = "READY" /\ cur_task \in Task
        /\ loc[c].task = cur_task
    BY <1>1, <1>2, <2>2 DEF PlaceInv, MovingStates, Created
  <2>4. state'[cur_task] = "RUNNING" /\ \A u \in Task \ {cur_task} : state'[u] = state[u]
    BY <1>2, <2>3
  <2>5. Given' = Given
    BY <2>2, <2>3, <2>4, GivenNow, GivenNext
  <2>6. Asleep' = Asleep
    BY <1>1, <2>3, <2>4 DEF Asleep, Created
  <2> QED BY <1>5, <2>5, <2>6
<1>10. CASE Count(c) \/ CountStore(c)
  <2> USE <1>10 DEF Count, CountStore
  <2>1. PICK l \in {"count_store", "pend"} : pc' = [pc EXCEPT ![c] = l]
    OBVIOUS
  <2>2. l \in Label /\ l # "idle"
    BY DEF Label, KernelLabels, SwitchLabels
  <2>3. Statement' = l /\ Statement \in {"count", "count_store"} /\ UNCHANGED <<cur_task, state>>
    BY <1>1, <1>3, <2>1, <2>2
  <2> QED BY <1>1, <1>5, <2>3, SameGiven, SameAsleep DEF Choosing
<1> QED BY <1>6, <1>7, <1>8, <1>9, <1>10

\* The context that is switched to is not in the middle of scheduler_tick.
LEMMA SwitchRefines ==
  ASSUME FewTasks, PlaceInv, NEW c \in Ctx, PendSV(c),
         UNCHANGED <<torn, stale>>
  PROVE  AbstractStep
<1>1. Statement = "pend" /\ UNCHANGED <<heap, state, pid, cur_task>>
  BY DEF PendSV, At, Statement, tcbs
<1>2. Statement' \notin CriticalSections
  BY SwitchPlace
<1>3. Statement \notin Choosing /\ Statement' \notin Choosing
  BY <1>1, <1>2 DEF Choosing, CriticalSections, NextLabels, RunLabels
<1> QED BY <1>1, <1>3, SameHeap, SameAsleep, SameGiven, AbstractStutter DEF AbstractStep

LEMMA StepRefines ==
  ASSUME FewTasks, PlaceInv, NEW c \in Ctx, Step(c),
         UNCHANGED <<torn, stale>>
  PROVE  AbstractStep
BY CreateRefines, AddNewRefines, SleepRefines, PushRefines, BlockedRefines, RequeueRefines,
   PopRefines, DecisionRefines, SwitchRefines DEF Step, scheduler_tick, TickBody

LEMMA StutterRefines ==
  ASSUME UNCHANGED <<svars, ticked>>
  PROVE  AbstractStep
<1>1. UNCHANGED <<heap, state, pid>> /\ Given' = Given
  BY DEF svars, tcbs, sched, frames, Given, Executing, Running
<1> QED BY <1>1, SameHeap, SameAsleep, AbstractStutter DEF AbstractStep

LEMMA InitRefines ==
  ASSUME FewTasks, SchedulerInit
  PROVE  Abstract!Init
<1>1. PlaceInv /\ Created = {} /\ cur_task = NULL
  BY InitPlace DEF SchedulerInit, Created
<1>2. heap = EmptyHeap(Queue) /\ Statement = "main"
  BY SchedulerAssumption DEF SchedulerInit, Statement, Executing, Running, Ctx
<1>3. Given = NULL
  BY <1>1, <1>2, GivenNow DEF GivenAt
<1>4. \A p \in Priority : heap.size[Ready(p)] = 0
  BY <1>2, QueueKinds DEF EmptyHeap
<1>5. \A p \in Priority : InOrder(Ready(p)) = << >>
  BY <1>4 DEF InOrder
<1> QED BY <1>1, <1>3, <1>5 DEF Abstract!Init

\* Until a tick hits a critical section, every statement of the kernel is a step of
\* PriorityScheduler, or none: each ready list is a first-in first-out queue of its
\* priority, scheduler_tick gives the processor to the head of the highest queue that is
\* not empty, and a preempted task goes to the end of its own.
THEOREM PrioritiesImplemented ==
  ASSUME FewTasks
  PROVE  SchedulerSpec => ImplementsPriorities
<1>1. SchedulerInit => Abstract!Init
  BY InitRefines
<1>2. (~torn => PlaceInv) /\ [SchedulerNext]_<<svars, ticked>>
        => (~torn' => AbstractStep)
  <2> SUFFICES ASSUME ~torn => PlaceInv, [SchedulerNext]_<<svars, ticked>>, ~torn'
               PROVE  AbstractStep
    OBVIOUS
  <2>1. CASE SysTick
    <3>1. PlaceInv
      BY <2>1 DEF SysTick
    <3> QED BY <2>1, <3>1, TimerRefines
  <2>2. CASE SchedulerCode /\ UNCHANGED ticked
    <3>1. PlaceInv
      BY <2>2 DEF ticked
    <3> QED BY <2>2, <3>1, TimerRefines, StepRefines DEF SchedulerCode, ticked
  <2>3. CASE UNCHANGED <<svars, ticked>>
    BY <2>3, StutterRefines
  <2> QED BY <2>1, <2>2, <2>3 DEF SchedulerNext
<1>3. AbstractStep => [Abstract!Next]_Priorities
  BY DEF AbstractStep, Lines, Asleep, Priorities
<1>4. (~torn => PlaceInv) /\ [SchedulerNext]_<<svars, ticked>>
        => [~torn' => [Abstract!Next]_Priorities]_<<svars, ticked>>
  BY <1>2, <1>3
<1> QED BY <1>1, <1>4, PlaceInvariant, PTL DEF SchedulerSpec, ImplementsPriorities
==============================================================================

------------------------- MODULE SchedulerRefinement -------------------------
(***************************************************************************)
(* The scheduler of scheduler.c as an implementation of PriorityScheduler. *)
(***************************************************************************)
EXTENDS Scheduler, Sequences

\* The tasks in q, from its head on.
InOrder(q) == [i \in 1 .. heap.size[q] |-> Nth(heap, q)[i - 1]]

\* The task that has the processor, from the moment scheduler_tick has popped it
\* to the moment it is requeued or blocked.
Given == CASE pc[Executing] = "dispatch" -> loc[Executing].task
           [] pc[Executing] \in NextLabels \union RunLabels -> cur_task
           [] OTHER -> IF cur_task # NULL /\ state[cur_task] = "RUNNING"
                       THEN cur_task ELSE NULL

Priorities == <<[p \in Priority |-> InOrder(Ready(p))],
                {t \in Created : state[t] \in {"DELAYED", "BLOCKED"}}, Given>>

Abstract == INSTANCE PriorityScheduler WITH
              ready   <- [p \in Priority |-> InOrder(Ready(p))],
              asleep  <- {t \in Created : state[t] \in {"DELAYED", "BLOCKED"}},
              running <- Given

\* Until a tick hits a critical section, every statement of the scheduler is a step
\* of the priority scheduler or none: the lists, the bitmap and the states together
\* never lose or double a task, take the head of the highest ready list, and put a
\* task at the end of its own.
ImplementsPriorities ==
  Abstract!Init /\ [][~torn' => [Abstract!Next]_Priorities]_<<svars, ticked>>

\* Round robin: once main has started the timer, a READY task of the highest priority
\* gets the processor, although other tasks of this priority never give it up.
EqualsTakeTurns ==
  \A t \in Task :
    pc[Main] = "spin" /\ t \in Created /\ state[t] = "READY" /\ Prio[t] = MAX_PRIORITIES - 1
      ~> state[t] = "RUNNING"
==============================================================================

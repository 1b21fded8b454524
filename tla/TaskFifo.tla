------------------------------- MODULE TaskFifo -------------------------------
(***************************************************************************)
(* What task_queue.h promises: queues of tasks, first in, first out, from  *)
(* which a task can also be taken before its turn.  A task is in at most   *)
(* one queue.                                                              *)
(***************************************************************************)
EXTENDS Sequences, Naturals

CONSTANTS Task, NULL, Queue

VARIABLES fifo,     \* the tasks in each queue, in the order of their push
          result    \* what the last task_pop returned

Members(q) == {fifo[q][i] : i \in DOMAIN fifo[q]}

Init == fifo = [q \in Queue |-> << >>] /\ result = NULL

Push(q, t) ==
  /\ \A p \in Queue : t \notin Members(p)
  /\ fifo' = [fifo EXCEPT ![q] = Append(@, t)]
  /\ UNCHANGED result

PopEmpty(q) == fifo[q] = << >> /\ result' = NULL /\ UNCHANGED fifo

Pop(q) ==
  /\ fifo[q] # << >>
  /\ result' = Head(fifo[q])
  /\ fifo' = [fifo EXCEPT ![q] = Tail(@)]

Remove(q, t) ==
  \E i \in DOMAIN fifo[q] :
    /\ fifo[q][i] = t
    /\ fifo' = [fifo EXCEPT ![q] = SubSeq(@, 1, i - 1) \o SubSeq(@, i + 1, Len(@))]
    /\ UNCHANGED result

Next == \E q \in Queue : \/ PopEmpty(q) \/ Pop(q)
                         \/ \E t \in Task : Push(q, t) \/ Remove(q, t)

Spec == Init /\ [][Next]_<<fifo, result>>
==============================================================================

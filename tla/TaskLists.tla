------------------------------ MODULE TaskLists ------------------------------
(***************************************************************************)
(* The queues of task_queue.c under every sequence of calls that keeps a   *)
(* task in one queue at a time, each call running to its end: the linked   *)
(* lists implement the queues of TaskFifo.                                 *)
(***************************************************************************)
EXTENDS TaskQueue, Sequences

CONSTANT Queue

VARIABLES heap, result

Linked == UNION {Reachable(heap, q) : q \in Queue}

Push(q, t) == /\ t \notin Linked
              /\ heap' = task_push(heap, q, t)
              /\ UNCHANGED result

Pop(q) ==
  IF PopsNothing(heap, q)
    THEN result' = NULL /\ UNCHANGED heap
    ELSE /\ ~PopFaults(heap, q)
         /\ result' = Popped(heap, q)
         /\ heap' = task_pop(heap, q)

Remove(q, t) == /\ t \in Reachable(heap, q)
                /\ heap' = task_remove(heap, q, t)
                /\ UNCHANGED result

ListsInit == heap = EmptyHeap(Queue) /\ result = NULL

ListsNext == \E q \in Queue : \/ Pop(q)
                              \/ \E t \in Task : Push(q, t) \/ Remove(q, t)

ListsSpec == ListsInit /\ [][ListsNext]_<<heap, result>>

-----------------------------------------------------------------------------
(* Properties.                                                             *)

\* The tasks of q from its head on.
ContentsOf(q) == [i \in 1 .. Cardinality(Reachable(heap, q)) |-> Nth(heap, q)[i - 1]]

ListFifo == INSTANCE TaskFifo WITH fifo <- [q \in Queue |-> ContentsOf(q)]

\* Following the next pointers from the head gives the tasks in the order in
\* which they were pushed, whatever was popped and removed in between.
ListsImplementFifo == ListFifo!Spec

\* The fields that this walk does not read agree with it: size, tail and the prev
\* pointers describe the same list, so the size never wraps and the next push
\* or remove starts from a sound list.
ListsWellLinked == \A q \in Queue : WellLinked(heap, q)
==============================================================================

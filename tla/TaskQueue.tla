------------------------------ MODULE TaskQueue ------------------------------
(***************************************************************************)
(* Src/task_queue.c: intrusive, doubly linked FIFO queues of tasks.        *)
(*                                                                         *)
(* The links live in the task control blocks (next, prev), so that a task  *)
(* can be in one queue at a time; a queue is a head, a tail and an 8-bit   *)
(* size.  All of that memory is one record, the heap, and the C functions  *)
(* are operators from heaps to heaps.                                      *)
(*                                                                         *)
(* Two of the callers of task_push and one of task_remove run with         *)
(* interrupts enabled, where another task can see a half-done operation.   *)
(* The statements of these two functions are therefore operators of their  *)
(* own, and the functions are their composition.                           *)
(***************************************************************************)
EXTENDS Naturals, FiniteSets

CONSTANTS Task,     \* the task control blocks (tcb_t)
          NULL,     \* the null pointer
          SizeMax   \* the largest value of the 8-bit field size (255)

ASSUME TaskQueueAssumption ==
  /\ NULL \notin Task
  /\ SizeMax \in Nat \ {0}

\* The memory of a set Q of queues and of the link fields of all tasks, with
\* pointers taken from P.
HeapOver(Q, P) == [next : [Task -> P], prev : [Task -> P],
                   head : [Q -> P],    tail : [Q -> P],
                   size : [Q -> 0 .. SizeMax]]

\* init_task_queue of every queue of Q; no task is linked yet.
EmptyHeap(Q) == [next |-> [t \in Task |-> NULL], prev |-> [t \in Task |-> NULL],
                 head |-> [q \in Q |-> NULL],    tail |-> [q \in Q |-> NULL],
                 size |-> [q \in Q |-> 0]]

\* size++ and size-- on a uint8_t.
Incr(n) == IF n = SizeMax THEN 0 ELSE n + 1
Decr(n) == IF n = 0 THEN SizeMax ELSE n - 1

-----------------------------------------------------------------------------
(* task_push, statement by statement.                                      *)

ClearLinks(h, t) == [h EXCEPT !.next[t] = NULL, !.prev[t] = NULL]

\* The first store of either branch: the head of an empty queue, otherwise
\* the next link of the last task.
LinkLast(h, q, t) == IF h.size[q] = 0
                       THEN [h EXCEPT !.head[q] = t]
                       ELSE [h EXCEPT !.next[h.tail[q]] = t]

LinkBack(h, q, t) == [h EXCEPT !.prev[t] = h.tail[q]]

\* Mutant of SetTail: the store is missing for a queue that is not empty.
SetFirstTail(h, q, t) == IF h.size[q] = 0 THEN [h EXCEPT !.tail[q] = t] ELSE h

SetTail(h, q, t) == [h EXCEPT !.tail[q] = t]

\* The store through tq->tail goes to the null page.
PushFaults(h, q) == h.size[q] # 0 /\ h.tail[q] = NULL

\* Mutant of task_push: last in, first out.
PushedFirst(h, q, t) ==
  LET first  == h.head[q]
      linked == [h EXCEPT !.head[q] = t, !.next[t] = first, !.prev[t] = NULL,
                          !.size[q] = Incr(@)]
  IN  IF first = NULL THEN [linked EXCEPT !.tail[q] = t]
                      ELSE [linked EXCEPT !.prev[first] = t]

task_push(h, q, t) ==
  LET linked == LinkLast(ClearLinks(h, t), q, t)
      backed == IF h.size[q] = 0 THEN linked ELSE LinkBack(linked, q, t)
  IN  [SetTail(backed, q, t) EXCEPT !.size[q] = Incr(@)]

-----------------------------------------------------------------------------
(* task_pop: the task it returns and the heap it leaves.                   *)

PopsNothing(h, q) == h.size[q] = 0 /\ h.head[q] = NULL

\* tq->head->next is read through the null pointer.
PopFaults(h, q) == h.size[q] # 0 /\ h.head[q] = NULL

Popped(h, q) == h.head[q]

task_pop(h, q) ==
  LET t     == h.head[q]
      first == h.next[t]
      moved == IF first # NULL
                 THEN [h EXCEPT !.head[q] = first, !.prev[first] = NULL]
                 ELSE [h EXCEPT !.head[q] = NULL, !.tail[q] = NULL]
  IN  IF t = NULL
        THEN h
        ELSE ClearLinks([moved EXCEPT !.size[q] = Decr(@)], t)

-----------------------------------------------------------------------------
(* task_remove, statement by statement.                                    *)

UnlinkHead(h, q, t) == IF h.head[q] = t
                         THEN [h EXCEPT !.head[q] = h.next[t]] ELSE h

\* Mutant of UnlinkTail: the tail is left on the task that goes.
KeepsTail(h, q, t) == h

UnlinkTail(h, q, t) == IF h.tail[q] = t
                         THEN [h EXCEPT !.tail[q] = h.prev[t]] ELSE h

\* Mutant of UnlinkNext: the task before t still points to t.
KeepsNext(h, t) == h

UnlinkNext(h, t) == IF h.prev[t] # NULL
                      THEN [h EXCEPT !.next[h.prev[t]] = h.next[t]] ELSE h

UnlinkPrev(h, t) == IF h.next[t] # NULL
                      THEN [h EXCEPT !.prev[h.next[t]] = h.prev[t]] ELSE h

task_remove(h, q, t) ==
  LET ends == UnlinkTail(UnlinkHead(h, q, t), q, t)
      mid  == UnlinkPrev(UnlinkNext(ends, t), t)
  IN  ClearLinks([mid EXCEPT !.size[q] = Decr(@)], t)

-----------------------------------------------------------------------------
(* What the queues mean.                                                   *)

\* The task i links behind the head of q, NULL once the links end.
Nth(h, q) ==
  LET nth[i \in 0 .. Cardinality(Task)] ==
        IF i = 0 THEN h.head[q]
                 ELSE IF nth[i - 1] = NULL THEN NULL ELSE h.next[nth[i - 1]]
  IN  nth

\* The tasks that a walk from the head meets.
Reachable(h, q) ==
  {Nth(h, q)[i] : i \in 0 .. Cardinality(Task)} \ {NULL}

\* q is a doubly linked list of size tasks that ends in its tail.
WellLinked(h, q) ==
  LET nth == Nth(h, q)
      n   == h.size[q]
  IN  /\ n = Cardinality(Reachable(h, q))
      /\ nth[n] = NULL
      /\ h.tail[q] = IF n = 0 THEN NULL ELSE nth[n - 1]
      /\ \A i \in 0 .. n - 1 :
           h.prev[nth[i]] = IF i = 0 THEN NULL ELSE nth[i - 1]
=============================================================================

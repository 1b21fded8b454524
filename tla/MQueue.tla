-------------------------------- MODULE MQueue --------------------------------
(***************************************************************************)
(* Src/mqueue.c: a bounded queue of elements.  PRIMASK is set from the     *)
(* first statement of a call to its last, so a call is one step, whoever   *)
(* makes it.  mqueue_init does not assign ele_size: its value is what the  *)
(* caller stored in the structure, any size above zero.  An element is     *)
(* ele_size bytes long and the buffer has capacity slots of this length,   *)
(* but head and tail wrap at ele_size: if that is more than capacity, a    *)
(* call can store or load behind the buffer, in memory that others own.    *)
(***************************************************************************)
EXTENDS Integers, Sequences

CONSTANTS Elem,        \* the elements
          Garbage,     \* what memory that was not written holds
          capacity,    \* mqueue_t.capacity: the slots that buffer has
          EleSizes     \* the element sizes considered

ASSUME MQAssumption == /\ capacity \in Nat \ {0}
                       /\ EleSizes \subseteq Nat \ {0}
                       /\ Garbage \notin Elem

VARIABLES
  ele_size, buffer, mq_head, mq_tail, count,    \* mqueue_t
  popped,                                       \* what the last pop wrote to data

  (* History. *)
  due,      \* the elements accepted and not popped, oldest first
  owed,     \* what the last pop should have written
  most      \* the largest number of elements that were held at once

mqvars == <<ele_size, buffer, mq_head, mq_tail, count, popped, due, owed, most>>

\* Mutant of Wrap: the index wraps one slot late.
WrapLate(i) == (i + 1) % (ele_size + 1)

Wrap(i) == (i + 1) % ele_size

\* What slot k may hold.  Behind the buffer that is anything.
SlotContents(k) == IF k < capacity THEN {buffer[k]} ELSE Elem \union {Garbage}

\* The elements that the next pops would deliver, if ele_size is within capacity.
Queued == [i \in 1 .. count |-> buffer[(mq_head + i - 1) % ele_size]]

-----------------------------------------------------------------------------
MQInit ==
  /\ ele_size \in EleSizes
  /\ buffer = [i \in 0 .. capacity - 1 |-> Garbage]
  /\ mq_head = 0 /\ mq_tail = 0 /\ count = 0
  /\ popped = Garbage
  /\ due = << >> /\ owed = Garbage /\ most = 0

mqueue_push(e) ==
  /\ count < capacity
  /\ buffer' = IF mq_tail < capacity THEN [buffer EXCEPT ![mq_tail] = e] ELSE buffer
  /\ mq_tail' = Wrap(mq_tail)
  /\ count' = count + 1
  /\ due' = Append(due, e)
  /\ most' = IF count + 1 > most THEN count + 1 ELSE most
  /\ UNCHANGED <<ele_size, mq_head, popped, owed>>

mqueue_pop ==
  /\ count >= 1
  /\ popped' \in SlotContents(mq_head)
  /\ mq_head' = Wrap(mq_head)
  /\ count' = count - 1
  /\ owed' = Head(due) /\ due' = Tail(due)
  /\ UNCHANGED <<ele_size, buffer, mq_tail, most>>

\* A call that returns false: the queue is full, or empty.
Rejected == (count >= capacity \/ count < 1) /\ UNCHANGED mqvars

MQNext == (\E e \in Elem : mqueue_push(e)) \/ mqueue_pop \/ Rejected

MQSpec == MQInit /\ [][MQNext]_mqvars

-----------------------------------------------------------------------------
(* Properties.                                                             *)

\* The type invariant.  The indices stay below ele_size, and count below capacity.
MQTypeOK ==
  /\ ele_size \in EleSizes
  /\ buffer \in [0 .. capacity - 1 -> Elem \union {Garbage}]
  /\ mq_head \in 0 .. ele_size - 1 /\ mq_tail \in 0 .. ele_size - 1
  /\ count \in 0 .. capacity
  /\ popped \in Elem \union {Garbage} /\ owed \in Elem \union {Garbage}
  /\ due \in Seq(Elem) /\ most \in count .. capacity

\* However the wrapping of the two indices and the test of count interact, the
\* queue is first in, first out and delivers what was accepted, as long as ele_size,
\* at which the indices wrap, is within capacity and the queue never holds more
\* than ele_size elements.
FifoUpToEleSize ==
  ele_size <= capacity /\ most <= ele_size => Queued = due /\ popped = owed

\* mqueue.h: mqueue_push pushes an element and mqueue_pop pops it, in the queue's order.
PopsWhatWasPushed == popped = owed
==============================================================================

--------------------------- MODULE SequentialProofs ---------------------------
(***************************************************************************)
(* The components whose functions are called one after the other, for      *)
(* every value of the constants: the message queue of mqueue.c, the linked *)
(* lists of task_queue.c, which implement the FIFO queues of TaskFifo, and *)
(* usart_init of usart.c.                                                  *)
(***************************************************************************)
EXTENDS MQueue, TaskLists, UsartConfig, TaskQueueProofs, SequenceTheorems

(* The message queue.                                                      *)

\* The slot k places after slot i, for k up to a whole turn.
Slot(i, k) == IF i + k < ele_size THEN i + k ELSE i + k - ele_size

\* The indices stay in the buffer, and no element has been overwritten.
Sound == ele_size <= capacity /\ most <= ele_size

\* The inductive invariant: while the queue is sound, the tail is count slots after the
\* head, and the slots between them hold what is due.
MQInv ==
  /\ MQTypeOK
  /\ Len(due) = count
  /\ Sound => /\ mq_tail = Slot(mq_head, count)
              /\ \A k \in 1 .. count : due[k] = buffer[Slot(mq_head, k - 1)]
              /\ popped = owed

-----------------------------------------------------------------------------
\* A remainder of a sum that stays below two turns.
LEMMA OneTurn ==
  ASSUME NEW n \in Nat \ {0}, NEW a \in 0 .. n - 1, NEW b \in 0 .. n
  PROVE  (a + b) % n = IF a + b < n THEN a + b ELSE a + b - n
  BY SMT

LEMMA WrapIsSlot ==
  ASSUME MQTypeOK, NEW i \in 0 .. ele_size - 1
  PROVE  Wrap(i) = Slot(i, 1) /\ Wrap(i) \in 0 .. ele_size - 1
<1>1. ele_size \in Nat \ {0} /\ 1 \in 0 .. ele_size
  BY MQAssumption DEF MQTypeOK
<1>2. Wrap(i) = IF i + 1 < ele_size THEN i + 1 ELSE i + 1 - ele_size
  BY <1>1, OneTurn DEF Wrap
<1> QED  BY <1>1, <1>2 DEF Slot

\* A step of the head, and a step of the tail.
LEMMA SlotSteps ==
  ASSUME MQTypeOK, NEW i \in 0 .. ele_size - 1, NEW k \in 0 .. ele_size - 1
  PROVE  /\ Slot(i, k) \in 0 .. ele_size - 1
         /\ Slot(Slot(i, 1), k) = Slot(i, k + 1)
         /\ Slot(Slot(i, k), 1) = Slot(i, k + 1)
<1>1. ele_size \in Nat \ {0}
  BY MQAssumption DEF MQTypeOK
<1> QED  BY <1>1 DEF Slot

-----------------------------------------------------------------------------
LEMMA InitMQInv == MQInit => MQInv
<1> SUFFICES ASSUME MQInit PROVE MQInv
  OBVIOUS
<1>1. ele_size \in Nat \ {0} /\ capacity \in Nat \ {0}
  BY MQAssumption DEF MQInit
<1>2. MQTypeOK
  BY <1>1 DEF MQInit, MQTypeOK
<1>3. mq_tail = Slot(mq_head, count)
  BY <1>1 DEF MQInit, Slot
<1> QED  BY <1>1, <1>2, <1>3 DEF MQInit, MQInv

LEMMA PushKeepsMQInv == ASSUME MQInv, NEW e \in Elem, mqueue_push(e) PROVE MQInv'
<1> USE DEF mqueue_push
<1>1. MQTypeOK /\ ele_size \in Nat \ {0} /\ capacity \in Nat \ {0} /\ count \in Nat
  BY MQAssumption DEF MQInv, MQTypeOK
<1>2. Wrap(mq_tail) = Slot(mq_tail, 1) /\ Wrap(mq_tail) \in 0 .. ele_size - 1
  BY <1>1, WrapIsSlot DEF MQTypeOK
<1>3. MQTypeOK'
  BY <1>1, <1>2 DEF MQTypeOK
<1>4. (Len(due) = count)'
  BY <1>1 DEF MQInv, MQTypeOK
<1>5. ASSUME Sound'
      PROVE  /\ mq_tail' = Slot(mq_head, count + 1)
             /\ \A k \in 1 .. count + 1 : due'[k] = buffer'[Slot(mq_head, k - 1)]
             /\ popped = owed
  <2>1. Sound /\ count < ele_size /\ ele_size <= capacity
    BY <1>1, <1>5 DEF MQTypeOK, Sound
  <2>2. /\ mq_tail = Slot(mq_head, count) /\ Len(due) = count /\ popped = owed
        /\ \A k \in 1 .. count : due[k] = buffer[Slot(mq_head, k - 1)]
    BY <2>1 DEF MQInv
  <2>3. buffer' = [buffer EXCEPT ![mq_tail] = e]
    BY <1>1, <2>1 DEF MQTypeOK
  <2>4. mq_tail' = Slot(mq_head, count + 1)
    BY <1>1, <1>2, <2>1, <2>2, SlotSteps DEF MQTypeOK
  <2>5. due' \in Seq(Elem) /\ Len(due') = count + 1 /\ due'[count + 1] = e
        /\ \A k \in 1 .. count : due'[k] = due[k]
    <3>1. due \in Seq(Elem) /\ Len(due) = count /\ due' = Append(due, e)
      BY <1>1, <2>2 DEF MQTypeOK
    <3> HIDE DEF mqueue_push
    <3> QED  BY <3>1, <1>1
  <2>6. ASSUME NEW k \in 1 .. count + 1 PROVE due'[k] = buffer'[Slot(mq_head, k - 1)]
    <3>1. CASE k = count + 1
      <4>1. Slot(mq_head, k - 1) = mq_tail /\ buffer'[mq_tail] = e
        BY <1>1, <2>1, <2>2, <2>3, <3>1 DEF MQTypeOK
      <4> QED  BY <2>5, <3>1, <4>1
    <3>2. CASE k \in 1 .. count
      <4>1. Slot(mq_head, k - 1) # mq_tail /\ Slot(mq_head, k - 1) \in 0 .. ele_size - 1
        BY <1>1, <2>1, <2>2, <3>2 DEF Slot, MQTypeOK
      <4> QED  BY <1>1, <2>1, <2>2, <2>5, <2>3, <3>2, <4>1 DEF MQTypeOK
    <3>3. k = count + 1 \/ k \in 1 .. count
      BY <1>1
    <3> QED  BY <3>1, <3>2, <3>3
  <2> QED  BY <2>2, <2>4, <2>5, <2>6
<1>6. (Sound => /\ mq_tail = Slot(mq_head, count)
                /\ \A k \in 1 .. count : due[k] = buffer[Slot(mq_head, k - 1)]
                /\ popped = owed)'
  BY <1>5 DEF Slot
<1> QED  BY <1>3, <1>4, <1>6 DEF MQInv

LEMMA PopKeepsMQInv == ASSUME MQInv, mqueue_pop PROVE MQInv'
<1> USE DEF mqueue_pop
<1>1. MQTypeOK /\ ele_size \in Nat \ {0} /\ capacity \in Nat \ {0} /\ count \in Nat \ {0}
  BY MQAssumption DEF MQInv, MQTypeOK
<1>2. Wrap(mq_head) = Slot(mq_head, 1) /\ Wrap(mq_head) \in 0 .. ele_size - 1
  BY <1>1, WrapIsSlot DEF MQTypeOK
<1>3. /\ Len(due) = count /\ Head(due) = due[1] /\ Head(due) \in Elem
      /\ due' \in Seq(Elem) /\ Len(due') = count - 1
      /\ \A k \in 1 .. count - 1 : due'[k] = due[k + 1]
  BY <1>1 DEF MQInv, MQTypeOK
<1>4. MQTypeOK'
  BY <1>1, <1>2, <1>3 DEF MQTypeOK, SlotContents
<1>5. (Len(due) = count)'
  BY <1>1, <1>3 DEF MQInv, MQTypeOK
<1>6. ASSUME Sound'
      PROVE  /\ mq_tail = Slot(mq_head', count - 1)
             /\ \A k \in 1 .. count - 1 : due'[k] = buffer[Slot(mq_head', k - 1)]
             /\ popped' = owed'
  <2>1. Sound /\ count <= ele_size /\ mq_head < capacity
    BY <1>1, <1>6 DEF MQTypeOK, Sound
  <2>2. /\ mq_tail = Slot(mq_head, count) /\ popped = owed
        /\ \A k \in 1 .. count : due[k] = buffer[Slot(mq_head, k - 1)]
    BY <2>1 DEF MQInv
  <2>3. ASSUME NEW k \in 0 .. count - 1 PROVE Slot(mq_head', k) = Slot(mq_head, k + 1)
    BY <1>1, <1>2, <2>1, SlotSteps DEF MQTypeOK
  <2>4. mq_tail = Slot(mq_head', count - 1)
    BY <1>1, <2>2, <2>3
  <2>5. ASSUME NEW k \in 1 .. count - 1 PROVE due'[k] = buffer[Slot(mq_head', k - 1)]
    <3>1. k - 1 \in 0 .. count - 1 /\ k + 1 \in 1 .. count /\ (k - 1) + 1 = (k + 1) - 1
      BY <1>1
    <3>2. Slot(mq_head', k - 1) = Slot(mq_head, (k + 1) - 1)
      BY <2>3, <3>1
    <3> QED  BY <1>3, <2>2, <3>1, <3>2
  <2>6. popped' = owed'
    <3>1. Slot(mq_head, 1 - 1) = mq_head /\ 1 \in 1 .. count
      BY <1>1 DEF Slot, MQTypeOK
    <3>2. popped' = buffer[mq_head]
      BY <2>1 DEF SlotContents
    <3> QED  BY <1>3, <2>2, <3>1, <3>2
  <2> QED  BY <2>4, <2>5, <2>6
<1>7. (Sound => /\ mq_tail = Slot(mq_head, count)
                /\ \A k \in 1 .. count : due[k] = buffer[Slot(mq_head, k - 1)]
                /\ popped = owed)'
  BY <1>6 DEF Slot
<1> QED  BY <1>4, <1>5, <1>7 DEF MQInv

LEMMA StepKeepsMQInv == MQInv /\ [MQNext]_mqvars => MQInv'
<1> SUFFICES ASSUME MQInv, [MQNext]_mqvars PROVE MQInv'
  OBVIOUS
<1>1. CASE \E e \in Elem : mqueue_push(e)
  BY <1>1, PushKeepsMQInv
<1>2. CASE mqueue_pop
  BY <1>2, PopKeepsMQInv
<1>3. CASE UNCHANGED mqvars
  BY <1>3 DEF MQInv, MQTypeOK, Sound, Slot, mqvars
<1> QED  BY <1>1, <1>2, <1>3 DEF MQNext, Rejected

LEMMA QueuedIsDue == ASSUME MQInv, Sound PROVE Queued = due
<1>1. /\ MQTypeOK /\ ele_size \in Nat \ {0} /\ count \in Nat /\ count <= ele_size
      /\ Len(due) = count /\ due \in Seq(Elem)
  BY MQAssumption DEF MQInv, MQTypeOK, Sound
<1>2. ASSUME NEW k \in 1 .. count PROVE buffer[(mq_head + k - 1) % ele_size] = due[k]
  <2>1. /\ k - 1 \in 0 .. ele_size /\ mq_head \in 0 .. ele_size - 1
        /\ mq_head + k - 1 = mq_head + (k - 1)
    BY <1>1 DEF MQTypeOK
  <2>2. (mq_head + (k - 1)) % ele_size = Slot(mq_head, k - 1)
    BY <1>1, <2>1, OneTurn DEF Slot
  <2> QED  BY <2>1, <2>2 DEF MQInv
<1> QED  BY <1>1, <1>2 DEF Queued

-----------------------------------------------------------------------------
LEMMA MQueueInvariant == MQSpec => []MQInv
<1>1. MQInit => MQInv
  BY InitMQInv
<1>2. MQInv /\ [MQNext]_mqvars => MQInv'
  BY StepKeepsMQInv
<1> QED  BY <1>1, <1>2, PTL DEF MQSpec

\* For every capacity and element size, the indices of a message queue stay below
\* the element size and its count within the capacity.
THEOREM MQueueTypeCorrect == MQSpec => []MQTypeOK
<1>1. MQInv => MQTypeOK
  BY DEF MQInv
<1> QED  BY <1>1, MQueueInvariant, PTL

\* A message queue of any capacity delivers what it accepted, in order, and holds the
\* rest, while its element size is within the capacity (or an index leaves the buffer)
\* and no less than the elements that it ever held (or one overwrites another).
THEOREM MQueueIsFifo == MQSpec => []FifoUpToEleSize
<1>1. MQInv => FifoUpToEleSize
  BY QueuedIsDue DEF MQInv, FifoUpToEleSize, Sound
<1> QED  BY <1>1, MQueueInvariant, PTL

-----------------------------------------------------------------------------
(* The task lists.                                                         *)

\* The sequence of tasks in each queue.
Fifos == [q \in Queue |-> ContentsOf(q)]

ListsInv == /\ heap \in HeapOver(Queue, Pointer)
            /\ Lists(heap, Queue, Fifos)

\* The contents of the heap h are the only sequences that its queues link.
LEMMA ContentsUnique ==
  ASSUME FewTasks, NEW h, NEW c, Lists(h, Queue, c)
  PROVE  c = [q \in Queue |-> [i \in 1 .. Cardinality(Reachable(h, q)) |->
                                 Nth(h, q)[i - 1]]]
<1>1. \A q \in Queue : c[q] = [i \in 1 .. Cardinality(Reachable(h, q)) |->
                                Nth(h, q)[i - 1]]
  BY WalkOfLists
<1>2. c = [q \in Queue |-> c[q]]
  BY DEF Lists
<1> QED BY <1>1, <1>2

LEMMA RemovedAt ==
  ASSUME NEW s \in Seq(Task), NEW k \in 1 .. Len(s)
  PROVE  SubSeq(s, 1, k - 1) \o SubSeq(s, k + 1, Len(s)) = Without(s, k)
<1> DEFINE a == SubSeq(s, 1, k - 1)
           b == SubSeq(s, k + 1, Len(s))
<1>1. Len(s) \in Nat /\ k \in Nat /\ k >= 1 /\ k <= Len(s)
  OBVIOUS
<1>2. /\ a \in Seq(Task) /\ Len(a) = k - 1
      /\ \A i \in 1 .. k - 1 : a[i] = s[i]
  BY <1>1
<1>3. /\ b \in Seq(Task) /\ Len(b) = Len(s) - k
      /\ \A i \in 1 .. Len(s) - k : b[i] = s[k + i]
  BY <1>1
<1> HIDE DEF a, b
<1>4. /\ a \o b \in Seq(Task) /\ Len(a \o b) = Len(a) + Len(b)
      /\ \A i \in 1 .. Len(a) + Len(b) :
           (a \o b)[i] = IF i <= Len(a) THEN a[i] ELSE b[i - Len(a)]
  BY <1>2, <1>3, ConcatProperties
<1>5. /\ a \o b \in Seq(Task) /\ Len(a \o b) = Len(s) - 1
      /\ \A i \in 1 .. Len(s) - 1 : (a \o b)[i] = IF i < k THEN s[i] ELSE s[i + 1]
  <2>1. Len(a) + Len(b) = Len(s) - 1
    BY <1>1, <1>2, <1>3
  <2>2. ASSUME NEW i \in 1 .. Len(s) - 1
        PROVE  (a \o b)[i] = IF i < k THEN s[i] ELSE s[i + 1]
    <3>1. (a \o b)[i] = IF i <= k - 1 THEN a[i] ELSE b[i - (k - 1)]
      BY <1>2, <1>4, <2>1
    <3>2. CASE i < k
      <4>1. i \in 1 .. k - 1 /\ i <= k - 1
        BY <1>1, <3>2
      <4> QED BY <1>2, <3>1, <3>2, <4>1
    <3>3. CASE ~(i < k)
      <4>1. /\ i - (k - 1) \in 1 .. Len(s) - k /\ ~(i <= k - 1)
            /\ k + (i - (k - 1)) = i + 1
        BY <1>1, <3>3
      <4> QED BY <1>3, <3>1, <3>3, <4>1
    <3> QED BY <3>2, <3>3
  <2> QED BY <1>4, <2>1, <2>2
<1>6. /\ Without(s, k) \in Seq(Task) /\ Len(Without(s, k)) = Len(s) - 1
      /\ \A i \in 1 .. Len(s) - 1 : Without(s, k)[i] = IF i < k THEN s[i] ELSE s[i + 1]
  BY WithoutTask
<1>7. a \o b = Without(s, k)
  BY <1>1, <1>5, <1>6, SeqEqual
<1> QED BY <1>7 DEF a, b

LEMMA ElementsAre ==
  ASSUME NEW s \in Seq(Task)
  PROVE  /\ DOMAIN s = 1 .. Len(s)
         /\ Len(s) = 0 <=> s = << >>
OBVIOUS

LEMMA TypeOfOperations ==
  ASSUME NEW h \in HeapOver(Queue, Pointer), NEW q \in Queue
  PROVE  /\ task_pop(h, q) \in HeapOver(Queue, Pointer)
         /\ \A t \in Task : /\ task_push(h, q, t) \in HeapOver(Queue, Pointer)
                            /\ task_remove(h, q, t) \in HeapOver(Queue, Pointer)
<1>1. Pointer \subseteq Task \union {NULL} /\ NULL \in Pointer
      /\ Task \intersect Pointer = Task
  BY DEF Pointer
<1>2. \A t \in Task : /\ task_push(h, q, t) \in HeapOver(Queue, Pointer)
                       /\ task_remove(h, q, t) \in HeapOver(Queue, Pointer)
  BY <1>1, OperationsType
<1>3. task_pop(h, q) \in HeapOver(Queue, Pointer)
  BY <1>1, PopType
<1> QED BY <1>2, <1>3

\* What a step of the linked lists does to the contents.
LEMMA ListsStep ==
  ASSUME FewTasks, ListsInv, ListsNext
  PROVE  ListsInv' /\ ListFifo!Next
<1>1. PICK q \in Queue : Pop(q) \/ \E t \in Task : Push(q, t) \/ Remove(q, t)
  BY DEF ListsNext
<1>2. /\ heap \in HeapOver(Queue, Pointer) /\ Lists(heap, Queue, Fifos)
      /\ Fifos \in [Queue -> Seq(Task)] /\ Fifos[q] \in Seq(Task)
      /\ Len(Fifos[q]) \in Nat
  BY DEF ListsInv, Lists
<1>3. \A p \in Queue : ListFifo!Members(p) = Elements(Fifos[p])
                       /\ Reachable(heap, p) = Elements(Fifos[p])
  <2> SUFFICES ASSUME NEW p \in Queue
               PROVE  ListFifo!Members(p) = Elements(Fifos[p])
                      /\ Reachable(heap, p) = Elements(Fifos[p])
    OBVIOUS
  <2>1. Fifos[p] \in Seq(Task)
    BY <1>2
  <2>2. ListFifo!Members(p) = {Fifos[p][i] : i \in DOMAIN Fifos[p]}
    BY DEF ListFifo!Members, Fifos
  <2>3. DOMAIN Fifos[p] = 1 .. Len(Fifos[p])
    BY <2>1, ElementsAre
  <2>4. ListFifo!Members(p) = Elements(Fifos[p])
    BY <2>2, <2>3 DEF Elements
  <2>5. Reachable(heap, p) = Elements(Fifos[p])
    BY <1>2, ReachableLists
  <2> QED BY <2>4, <2>5
<1>4. ASSUME NEW c, Lists(heap', Queue, c) PROVE Fifos' = c
  BY <1>4, ContentsUnique DEF Fifos, ContentsOf
<1>5. CASE Pop(q)
  <2>1. CASE PopsNothing(heap, q)
    <3>1. Len(Fifos[q]) = 0 /\ heap' = heap /\ result' = NULL
      BY <1>2, <1>5, <2>1, PopLists DEF Pop
    <3>2. Fifos' = Fifos
      BY <1>2, <1>4, <3>1
    <3>3. ListFifo!PopEmpty(q)
      BY <1>2, <3>1, <3>2, ElementsAre DEF ListFifo!PopEmpty, Fifos
    <3> QED BY <1>2, <3>1, <3>2, <3>3 DEF ListsInv, ListFifo!Next
  <2>2. CASE ~PopsNothing(heap, q)
    <3> DEFINE d == [Fifos EXCEPT ![q] = Without(Fifos[q], 1)]
    <3>0. heap' = task_pop(heap, q) /\ result' = Popped(heap, q)
      BY <1>5, <2>2 DEF Pop
    <3>p. /\ Len(Fifos[q]) # 0 /\ Popped(heap, q) = Fifos[q][1]
          /\ Lists(task_pop(heap, q), Queue, d)
      BY <1>2, <2>2, PopLists
    <3>1. /\ heap' = task_pop(heap, q) /\ Len(Fifos[q]) # 0
          /\ result' = Fifos[q][1] /\ Lists(heap', Queue, d)
      BY <3>0, <3>p
    <3>2. Fifos' = d
      BY <1>4, <3>1
    <3>3. heap' \in HeapOver(Queue, Pointer)
      BY <1>2, <3>1, TypeOfOperations
    <3>4. ListFifo!Pop(q)
      <4>1. /\ Tail(Fifos[q]) = Without(Fifos[q], 1) /\ Head(Fifos[q]) = Fifos[q][1]
            /\ Fifos[q] # << >>
        BY <1>2, <3>1, TailIsWithout
      <4> QED BY <3>1, <3>2, <4>1 DEF ListFifo!Pop, Fifos
    <3> QED BY <3>1, <3>2, <3>3, <3>4 DEF ListsInv, ListFifo!Next
  <2> QED BY <2>1, <2>2
<1>6. ASSUME NEW t \in Task, Push(q, t) PROVE ListsInv' /\ ListFifo!Next
  <2> DEFINE d == [Fifos EXCEPT ![q] = Append(Fifos[q], t)]
  <2>1. \A p \in Queue : t \notin Elements(Fifos[p])
    BY <1>3, <1>6 DEF Push, Linked
  <2>2. heap' = task_push(heap, q, t) /\ result' = result
    BY <1>6 DEF Push
  <2>3. Lists(heap', Queue, d)
    BY <1>2, <2>1, <2>2, PushLists
  <2>4. Fifos' = d
    BY <1>4, <2>3
  <2>5. heap' \in HeapOver(Queue, Pointer)
    BY <1>2, <2>2, TypeOfOperations
  <2>6. ListFifo!Push(q, t)
    BY <1>3, <2>1, <2>2, <2>4 DEF ListFifo!Push, Fifos
  <2> QED BY <2>3, <2>4, <2>5, <2>6 DEF ListsInv, ListFifo!Next
<1>7. ASSUME NEW t \in Task, Remove(q, t) PROVE ListsInv' /\ ListFifo!Next
  <2>1. PICK k \in 1 .. Len(Fifos[q]) : t = Fifos[q][k]
    BY <1>3, <1>7 DEF Remove, Elements
  <2> DEFINE d == [Fifos EXCEPT ![q] = Without(Fifos[q], k)]
  <2>2. heap' = task_remove(heap, q, Fifos[q][k]) /\ result' = result
    BY <1>7, <2>1 DEF Remove
  <2>3. Lists(heap', Queue, d)
    BY <1>2, <2>2, RemoveLists
  <2>4. Fifos' = d
    BY <1>4, <2>3
  <2>5. heap' \in HeapOver(Queue, Pointer)
    BY <1>2, <1>7, <2>1, <2>2, TypeOfOperations
  <2>6. ListFifo!Remove(q, t)
    <3>1. k \in DOMAIN Fifos[q]
      BY <1>2, ElementsAre
    <3>2. Fifos' = [Fifos EXCEPT ![q] =
                               SubSeq(Fifos[q], 1, k - 1)
                                 \o SubSeq(Fifos[q], k + 1, Len(Fifos[q]))]
      BY <1>2, <2>4, RemovedAt
    <3> QED BY <2>1, <2>2, <3>1, <3>2 DEF ListFifo!Remove, Fifos
  <2> QED BY <2>3, <2>4, <2>5, <2>6 DEF ListsInv, ListFifo!Next
<1> QED BY <1>1, <1>5, <1>6, <1>7

LEMMA ListsStutter ==
  ASSUME ListsInv, UNCHANGED <<heap, result>>
  PROVE  ListsInv' /\ UNCHANGED <<Fifos, result>>
<1>1. Fifos' = Fifos
  BY DEF Fifos, ContentsOf
<1> QED BY <1>1 DEF ListsInv

LEMMA ListsStart ==
  ASSUME FewTasks, ListsInit
  PROVE  ListsInv /\ ListFifo!Init
<1> DEFINE d == [q \in Queue |-> << >>]
<1>1. Lists(heap, Queue, d) /\ result = NULL
  BY EmptyLists DEF ListsInit
<1>2. Fifos = d
  BY <1>1, ContentsUnique DEF Fifos, ContentsOf
<1>3. heap \in HeapOver(Queue, Pointer)
  BY EmptyHeapType DEF ListsInit, Pointer
<1> QED BY <1>1, <1>2, <1>3 DEF ListsInv, ListFifo!Init, Fifos

-----------------------------------------------------------------------------
\* After any sequence of task_push, task_pop and task_remove on any number of queues,
\* as long as there are at most SizeMax tasks, every queue is a doubly linked list
\* of size tasks that ends in its tail.
THEOREM TaskListsWellLinked ==
  ASSUME FewTasks
  PROVE  ListsSpec => []ListsWellLinked
<1>1. ListsInit => ListsInv
  BY ListsStart
<1>2. ListsInv /\ [ListsNext]_<<heap, result>> => ListsInv'
  BY ListsStep, ListsStutter
<1>3. ListsInv => ListsWellLinked
  BY ReachableLists DEF ListsInv, ListsWellLinked
<1> QED BY <1>1, <1>2, <1>3, PTL DEF ListsSpec

\* The linked lists of any number of queues and up to SizeMax tasks implement first
\* in, first out queues: task_pop returns the oldest task, and task_remove takes out
\* the task it names and leaves the order of the others.
THEOREM TaskListsImplementFifo ==
  ASSUME FewTasks
  PROVE  ListsSpec => ListsImplementFifo
<1>1. ListsInit => ListsInv /\ ListFifo!Init
  BY ListsStart
<1>2. ListsInv /\ [ListsNext]_<<heap, result>>
        => ListsInv' /\ [ListFifo!Next]_<<[q \in Queue |-> ContentsOf(q)], result>>
  BY ListsStep, ListsStutter DEF Fifos
<1> QED BY <1>1, <1>2, PTL DEF ListsSpec, ListsImplementFifo, ListFifo!Spec

-----------------------------------------------------------------------------
(* usart_init. *)

\* The divider of every rate that is asked for fits the 16 bits of BRR, also when
\* oversampling by 8.
RatesFit == \A b \in Baudrates : (2 * get_uart_clk) \div b < 65536

WordLengthSet == WordLength # 7 => DataBits = WordLength
ParitySet == Parity = config.parity_bit
StopBitsSet == StopBits = config.stop_bits
RateSet == compute_USARTDIV - Divider \in IF OVER8 \in CR1 THEN {0, 1} ELSE {0}

\* The inductive invariant: from the line that sets a field on, the field is that of the
\* configuration, and from the first line to the last the USART is off.
InitializedInv ==
  /\ config \in Config /\ at \in {0, 38, 39, 41, 47, 50, 65, 67}
  /\ at \in {39, 41, 47, 50, 65, 67} => ~Enabled
  /\ at = 39 => 28 \notin CR1 /\ 12 \notin CR1
  /\ at \in {41, 47, 50, 65, 67} => WordLengthSet
  /\ at \in {47, 50, 65, 67} => ParitySet
  /\ at \in {50, 65, 67} => StopBitsSet
  /\ at \in {65, 67} => RateSet
  /\ at = 0 /\ Enabled => WordLengthSet /\ ParitySet /\ StopBitsSet /\ RateSet

LEMMA ShiftedBits ==
  ASSUME NEW n \in 0 .. 3, NEW k \in Nat, NEW i
  PROVE  i \in Bits(n, k) <=> (i = k /\ n % 2 = 1) \/ (i = k + 1 /\ n \div 2 = 1)
  BY DEF Bits

\* What a field is read from.
LEMMA FieldsKept ==
  ASSUME UNCHANGED config
  PROVE  /\ (12 \in CR1' <=> 12 \in CR1) /\ (28 \in CR1' <=> 28 \in CR1)
              => (WordLengthSet' <=> WordLengthSet)
         /\ (9 \in CR1' <=> 9 \in CR1) /\ (10 \in CR1' <=> 10 \in CR1)
              => (ParitySet' <=> ParitySet)
         /\ CR2' = CR2 => (StopBitsSet' <=> StopBitsSet)
         /\ BRR' = BRR /\ (15 \in CR1' <=> 15 \in CR1) => (RateSet' <=> RateSet)
<1>1. (12 \in CR1' <=> 12 \in CR1) /\ (28 \in CR1' <=> 28 \in CR1)
         => (WordLengthSet' <=> WordLengthSet)
  BY DEF WordLengthSet, WordLength, DataBits
<1>2. (9 \in CR1' <=> 9 \in CR1) /\ (10 \in CR1' <=> 10 \in CR1)
         => (ParitySet' <=> ParitySet)
  BY DEF ParitySet, Parity
<1>3. CR2' = CR2 => (StopBitsSet' <=> StopBitsSet)
  BY DEF StopBitsSet, StopBits
<1>4. BRR' = BRR /\ (15 \in CR1' <=> 15 \in CR1) => (RateSet' <=> RateSet)
  BY DEF RateSet, Divider, compute_USARTDIV, OVER8
<1> QED  BY <1>1, <1>2, <1>3, <1>4

LEMMA WordLengthStep == ASSUME InitializedInv, SetWordLength PROVE InitializedInv'
<1>1. /\ at = 39 /\ at' = 41 /\ UNCHANGED config
      /\ CR1' = CR1 \union Bits(config.word_len % 2, 12)
                    \union Bits(2 * (config.word_len \div 2), 28)
  BY DEF SetWordLength, Line
<1>2. PICK w \in {0, 1, 2} : w = config.word_len
  BY DEF InitializedInv, Config
<1>3. /\ w % 2 \in 0 .. 3 /\ 2 * (w \div 2) \in 0 .. 3
      /\ (w % 2) % 2 = w % 2 /\ (w % 2) \div 2 = 0
      /\ (2 * (w \div 2)) % 2 = 0
  BY <1>2
<1>4. \A i : i \in Bits(w % 2, 12) <=> i = 12 /\ w % 2 = 1
  BY <1>3, ShiftedBits
<1>5. \A i : i \in Bits(2 * (w \div 2), 28) => i = 29
  BY <1>3, ShiftedBits
<1>6. 0 \notin CR1'
  BY <1>1, <1>2, <1>4, <1>5 DEF InitializedInv, Enabled
<1>7. 28 \notin CR1' /\ (12 \in CR1' <=> w % 2 = 1)
  BY <1>1, <1>2, <1>4, <1>5 DEF InitializedInv
<1>8. WordLengthSet'
  <2>1. CASE w = 0
    BY <1>1, <1>2, <1>7, <2>1 DEF WordLengthSet, WordLength, DataBits
  <2>2. CASE w = 1
    BY <1>1, <1>2, <1>7, <2>2 DEF WordLengthSet, WordLength, DataBits
  <2>3. CASE w = 2
    BY <1>1, <1>2, <1>7, <2>3 DEF WordLengthSet, WordLength, DataBits
  <2> QED  BY <1>2, <2>1, <2>2, <2>3
<1> QED  BY <1>1, <1>6, <1>8 DEF InitializedInv, Enabled

LEMMA ParityStep == ASSUME InitializedInv, SetParity PROVE InitializedInv'
<1>1. /\ at = 41 /\ at' = 47 /\ UNCHANGED config
      /\ CR1' = (CR1 \ {9, 10}) \union IF config.parity_bit = 2 THEN {}
                                       ELSE {10} \union Bits(config.parity_bit, 9)
  BY DEF SetParity, Line, UART_PARITY_NONE
<1>2. PICK p \in {0, 1, 2} : p = config.parity_bit
  BY DEF InitializedInv, Config
<1>3. p # 2 => \A i : i \in Bits(p, 9) <=> i = 9 /\ p = 1
  BY <1>2, ShiftedBits
<1>4. \A i : i \in CR1' <=> \/ i \in CR1 /\ i \notin {9, 10}
                            \/ p # 2 /\ i = 10
                            \/ p = 1 /\ i = 9
  BY <1>1, <1>2, <1>3
<1>5. ParitySet'
  BY <1>1, <1>2, <1>4 DEF ParitySet, Parity, UART_PARITY_NONE
<1>6. WordLengthSet'
  BY <1>1, <1>4, FieldsKept DEF InitializedInv
<1>7. 0 \notin CR1'
  BY <1>1, <1>4 DEF InitializedInv, Enabled
<1> QED  BY <1>1, <1>5, <1>6, <1>7 DEF InitializedInv, Enabled

LEMMA StopBitsStep == ASSUME InitializedInv, SetStopBits PROVE InitializedInv'
<1>1. /\ at = 47 /\ at' = 50 /\ UNCHANGED <<config, CR1, BRR>>
      /\ CR2' = (CR2 \ {12, 13}) \union Bits(config.stop_bits, 12)
  BY DEF SetStopBits, Line
<1>2. PICK s \in 0 .. 3 : s = config.stop_bits
  BY DEF InitializedInv, Config
<1>3. \A i : i \in Bits(s, 12) <=> (i = 12 /\ s % 2 = 1) \/ (i = 13 /\ s \div 2 = 1)
  BY <1>2, ShiftedBits
<1>4. (12 \in CR2' <=> s % 2 = 1) /\ (13 \in CR2' <=> s \div 2 = 1)
  BY <1>1, <1>2, <1>3
<1>5. s = (IF s % 2 = 1 THEN 1 ELSE 0) + (IF s \div 2 = 1 THEN 2 ELSE 0)
  BY <1>2
<1>6. StopBitsSet'
  BY <1>1, <1>2, <1>4, <1>5 DEF StopBitsSet, StopBits
<1>7. WordLengthSet' /\ ParitySet'
  BY <1>1, FieldsKept DEF InitializedInv
<1> QED  BY <1>1, <1>6, <1>7 DEF InitializedInv, Enabled

\* Mantissa and fraction of a divider, put together again.
LEMMA MantissaAndFraction ==
  ASSUME NEW u \in Nat, u < 65536
  PROVE  ((u \div 16) % 4096) * 16 + (u % 16) = u
  BY SMT

\* The same when oversampling by 8, where the fraction has three bits.
LEMMA MantissaAndHalfFraction ==
  ASSUME NEW u \in Nat, u < 65536,
         NEW r \in Nat, r = ((u \div 16) % 4096) * 16 + ((u % 16) \div 2)
  PROVE  u - ((r \div 16) * 16 + 2 * (r % 8)) \in {0, 1}
  BY SMT

LEMMA SlowerIsLess ==
  ASSUME NEW k \in Nat, NEW b \in Nat \ {0}
  PROVE  /\ k \div b \in Nat /\ (2 * k) \div b \in Nat
         /\ k \div b <= (2 * k) \div b
<1>1. PICK q \in Nat : q = k \div b
  BY SMT
<1>2. PICK p \in Nat : p = (2 * k) \div b
  BY SMT
<1>3. b * q <= k /\ k < b * q + b
  BY <1>1, SMT
<1>4. b * p <= 2 * k /\ 2 * k < b * p + b
  BY <1>2, SMT
<1>5. b * q < b * (p + 1)
  BY <1>3, <1>4, SMT
<1>6. q < p + 1
  BY <1>5, SMT
<1> QED  BY <1>1, <1>2, <1>6, SMT

LEMMA BaudrateStep == ASSUME RatesFit, InitializedInv, SetBaudrate PROVE InitializedInv'
<1>1. /\ at = 50 /\ at' = 65 /\ UNCHANGED <<config, CR1, CR2>>
      /\ BRR' = ((compute_USARTDIV \div 16) % 4096) * 16
                  + IF 15 \in CR1 THEN (compute_USARTDIV % 16) \div 2 ELSE compute_USARTDIV % 16
  BY SMT DEF SetBaudrate, Line, OVER8
<1>2. PICK u \in Nat : u = compute_USARTDIV /\ u < 65536
  <2>1. config.baudrate \in Baudrates /\ config.baudrate \in Nat \ {0}
    BY ConfigAssumption DEF InitializedInv, Config
  <2>2. PICK b \in Nat \ {0} : b = config.baudrate /\ (2 * get_uart_clk) \div b < 65536
    BY <2>1, SMT DEF RatesFit
  <2>3. PICK k \in Nat : k = get_uart_clk
    BY SMT DEF get_uart_clk
  <2>4. k \div b \in Nat /\ (2 * k) \div b \in Nat /\ k \div b <= (2 * k) \div b
    BY <2>2, SlowerIsLess, SMT
  <2>5. k \div b < 65536 /\ (2 * k) \div b < 65536
    BY <2>2, <2>3, <2>4, SMT
  <2>6. compute_USARTDIV \in {k \div b, (2 * k) \div b}
    BY <2>2, <2>3, SMT DEF compute_USARTDIV
  <2> QED  BY <2>4, <2>5, <2>6, SMT
<1>3. compute_USARTDIV' = u
  BY <1>1, <1>2 DEF compute_USARTDIV
<1>4. RateSet'
  <2>1. CASE 15 \in CR1
    <3>1. PICK r \in Nat : r = BRR' /\ r = ((u \div 16) % 4096) * 16 + ((u % 16) \div 2)
      BY <1>1, <1>2, <2>1, SMT
    <3>2. u - ((r \div 16) * 16 + 2 * (r % 8)) \in {0, 1}
      BY <1>2, <3>1, MantissaAndHalfFraction
    <3> QED  BY <1>1, <1>3, <2>1, <3>1, <3>2 DEF RateSet, Divider, OVER8
  <2>2. CASE 15 \notin CR1
    <3>1. BRR' = u
      BY <1>1, <1>2, <2>2, MantissaAndFraction
    <3>2. u - u \in {0}
      BY <1>2
    <3> QED  BY <1>1, <1>3, <2>2, <3>1, <3>2 DEF RateSet, Divider, OVER8
  <2> QED  BY <2>1, <2>2
<1>5. WordLengthSet' /\ ParitySet' /\ StopBitsSet'
  BY <1>1, FieldsKept DEF InitializedInv
<1> QED  BY <1>1, <1>4, <1>5 DEF InitializedInv, Enabled

\* The lines that set no field.
LEMMA OtherSteps ==
  ASSUME InitializedInv,
         \/ \E c \in Config : Call(c) 
         \/ ClearWordLength \/ EnableLines \/ Enable
         \/ UNCHANGED fvars
  PROVE  InitializedInv'
<1>1. ASSUME NEW c \in Config, Call(c) PROVE InitializedInv'
  BY <1>1 DEF InitializedInv, Call
<1>2. CASE ClearWordLength
  BY <1>2 DEF InitializedInv, ClearWordLength, Line, Enabled
<1>3. CASE EnableLines \/ Enable
  <2>1. /\ (at = 65 /\ at' = 67) \/ (at = 67 /\ at' = 0)
        /\ at' = 67 => ((0 \in CR1') <=> (0 \in CR1))
        /\ \A i \in {9, 10, 12, 15, 28} : (i \in CR1') <=> (i \in CR1)
        /\ UNCHANGED <<config, CR2, BRR>>
    BY <1>3 DEF EnableLines, Enable, Line
  <2>2. WordLengthSet' /\ ParitySet' /\ StopBitsSet' /\ RateSet'
    BY <2>1, FieldsKept DEF InitializedInv
  <2> QED  BY <2>1, <2>2 DEF InitializedInv, Enabled
<1>4. CASE UNCHANGED fvars
  BY <1>4, FieldsKept DEF InitializedInv, fvars, Enabled
<1> QED  BY <1>1, <1>2, <1>3, <1>4

LEMMA InitializedInvariant == ASSUME RatesFit PROVE ConfigSpec => []InitializedInv
<1>1. ConfigInit => InitializedInv
  BY DEF ConfigInit, InitializedInv, Enabled
<1>2. InitializedInv /\ [ConfigNext]_fvars => InitializedInv'
  BY WordLengthStep, ParityStep, StopBitsStep, BaudrateStep, OtherSteps DEF ConfigNext
<1> QED  BY <1>1, <1>2, PTL DEF ConfigSpec

\* An enabled USART has the frame format of the configuration that the last call of
\* usart_init was given, whatever its registers held before (but for words of 7 bits).
THEOREM FrameIsConfigured == ASSUME RatesFit PROVE ConfigSpec => []EnabledFrameIsConfigured
<1>1. InitializedInv => EnabledFrameIsConfigured
  BY DEF InitializedInv, EnabledFrameIsConfigured, WordLengthSet, ParitySet, StopBitsSet
<1> QED  BY <1>1, InitializedInvariant, PTL

\* An enabled USART divides its clock by what compute_USARTDIV returned, but for the
\* lowest bit when oversampling by 8.
THEOREM BaudrateIsConfigured == ASSUME RatesFit PROVE ConfigSpec => []EnabledBaudrateIsConfigured
<1>1. InitializedInv => EnabledBaudrateIsConfigured
  BY DEF InitializedInv, EnabledBaudrateIsConfigured, RateSet
<1> QED  BY <1>1, InitializedInvariant, PTL
===============================================================================

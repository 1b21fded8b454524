--------------------------- MODULE TaskQueueProofs ---------------------------
(***************************************************************************)
(* What the operations of task_queue.c do, for every heap.                 *)
(*                                                                         *)
(* First their types: a heap over the queues Q whose pointers are all in P *)
(* stays one, whatever its links look like, as long as the task that is    *)
(* put in is in P.  Nothing is assumed about the shape of the lists, since *)
(* half-done operations are visible to others.                             *)
(*                                                                         *)
(* Then their meaning: if the queues link the tasks of sequences that      *)
(* share no task (Lists), task_push appends, task_pop takes the first task *)
(* and task_remove takes any task out, and the walk along the next links   *)
(* (Nth, Reachable) meets exactly the tasks of the sequence.               *)
(***************************************************************************)
EXTENDS TaskQueue, Integers, Sequences, FiniteSetTheorems, TLAPS

\* The 8-bit size stays in its range.
LEMMA SizesType ==
  ASSUME NEW n \in 0 .. SizeMax
  PROVE  Incr(n) \in 0 .. SizeMax /\ Decr(n) \in 0 .. SizeMax
BY TaskQueueAssumption DEF Incr, Decr

\* Stores into one field of the heap.
LEMMA StoresType ==
  ASSUME NEW Q, NEW P, NEW h \in HeapOver(Q, P), NEW p \in P,
         NEW t, NEW q, NEW n \in 0 .. SizeMax
  PROVE  /\ [h EXCEPT !.next[t] = p] \in HeapOver(Q, P)
         /\ [h EXCEPT !.prev[t] = p] \in HeapOver(Q, P)
         /\ [h EXCEPT !.head[q] = p] \in HeapOver(Q, P)
         /\ [h EXCEPT !.tail[q] = p] \in HeapOver(Q, P)
         /\ [h EXCEPT !.size[q] = n] \in HeapOver(Q, P)
BY DEF HeapOver

\* The links and the queues of a typed heap.
LEMMA LoadsType ==
  ASSUME NEW Q, NEW P, NEW h \in HeapOver(Q, P)
  PROVE  /\ \A t \in Task : h.next[t] \in P /\ h.prev[t] \in P
         /\ \A q \in Q : h.head[q] \in P /\ h.tail[q] \in P /\ h.size[q] \in 0 .. SizeMax
BY DEF HeapOver

LEMMA EmptyHeapType ==
  ASSUME NEW Q, NEW P, NULL \in P
  PROVE  EmptyHeap(Q) \in HeapOver(Q, P)
BY TaskQueueAssumption DEF EmptyHeap, HeapOver

\* The statements of task_push and task_remove.
LEMMA StatementsType ==
  ASSUME NEW Q, NEW P, NULL \in P, NEW h \in HeapOver(Q, P),
         NEW q \in Q, NEW t \in Task \intersect P
  PROVE  /\ ClearLinks(h, t) \in HeapOver(Q, P)
         /\ LinkLast(h, q, t) \in HeapOver(Q, P)
         /\ LinkBack(h, q, t) \in HeapOver(Q, P)
         /\ SetTail(h, q, t) \in HeapOver(Q, P)
         /\ UnlinkHead(h, q, t) \in HeapOver(Q, P)
         /\ UnlinkTail(h, q, t) \in HeapOver(Q, P)
         /\ UnlinkNext(h, t) \in HeapOver(Q, P)
         /\ UnlinkPrev(h, t) \in HeapOver(Q, P)
         /\ [h EXCEPT !.size[q] = Incr(@)] \in HeapOver(Q, P)
         /\ [h EXCEPT !.size[q] = Decr(@)] \in HeapOver(Q, P)
<1>1. ClearLinks(h, t) \in HeapOver(Q, P)
  BY DEF ClearLinks, HeapOver
<1>2. LinkLast(h, q, t) \in HeapOver(Q, P)
  BY DEF LinkLast, HeapOver
<1>3. LinkBack(h, q, t) \in HeapOver(Q, P) /\ SetTail(h, q, t) \in HeapOver(Q, P)
  BY DEF HeapOver, LinkBack, SetTail
<1>4. UnlinkHead(h, q, t) \in HeapOver(Q, P) /\ UnlinkTail(h, q, t) \in HeapOver(Q, P)
  BY DEF HeapOver, UnlinkHead, UnlinkTail
<1>5. UnlinkNext(h, t) \in HeapOver(Q, P) /\ UnlinkPrev(h, t) \in HeapOver(Q, P)
  BY DEF HeapOver, UnlinkNext, UnlinkPrev
<1>6. /\ [h EXCEPT !.size[q] = Incr(@)] \in HeapOver(Q, P)
      /\ [h EXCEPT !.size[q] = Decr(@)] \in HeapOver(Q, P)
  <2>1. Incr(h.size[q]) \in 0 .. SizeMax /\ Decr(h.size[q]) \in 0 .. SizeMax
    BY SizesType, LoadsType
  <2>2. /\ [h EXCEPT !.size[q] = Incr(@)] = [h EXCEPT !.size[q] = Incr(h.size[q])]
        /\ [h EXCEPT !.size[q] = Decr(@)] = [h EXCEPT !.size[q] = Decr(h.size[q])]
    OBVIOUS
  <2>3. QED BY <2>1, <2>2, StoresType
<1>7. QED BY <1>1, <1>2, <1>3, <1>4, <1>5, <1>6

LEMMA PopType ==
  ASSUME NEW Q, NEW P, NULL \in P, P \subseteq Task \union {NULL},
         NEW h \in HeapOver(Q, P), NEW q \in Q
  PROVE  task_pop(h, q) \in HeapOver(Q, P)
<1> DEFINE u     == h.head[q]
           first == h.next[u]
           moved == IF first # NULL
                      THEN [h EXCEPT !.head[q] = first, !.prev[first] = NULL]
                      ELSE [h EXCEPT !.head[q] = NULL, !.tail[q] = NULL]
<1>1. CASE u = NULL
  BY <1>1 DEF task_pop
<1>2. CASE u # NULL
  <2>1. u \in Task \intersect P /\ first \in P
    BY <1>2, LoadsType
  <2> HIDE DEF u, first
  <2>2. moved \in HeapOver(Q, P)
    BY <2>1 DEF HeapOver
  <2> HIDE DEF moved
  <2>3. [moved EXCEPT !.size[q] = Decr(@)] \in HeapOver(Q, P)
    BY <2>1, <2>2, StatementsType
  <2>4. ClearLinks([moved EXCEPT !.size[q] = Decr(@)], u) \in HeapOver(Q, P)
    BY <2>1, <2>3, StatementsType
  <2>5. QED BY <1>2, <2>4 DEF task_pop, moved, first, u
<1>3. QED BY <1>1, <1>2

\* The whole operations.
LEMMA OperationsType ==
  ASSUME NEW Q, NEW P, NULL \in P, P \subseteq Task \union {NULL},
         NEW h \in HeapOver(Q, P), NEW q \in Q, NEW t \in Task \intersect P
  PROVE  /\ task_push(h, q, t) \in HeapOver(Q, P)
         /\ task_remove(h, q, t) \in HeapOver(Q, P)
         /\ task_pop(h, q) \in HeapOver(Q, P)
<1>1. task_push(h, q, t) \in HeapOver(Q, P)
  <2> DEFINE linked == LinkLast(ClearLinks(h, t), q, t)
             backed == IF h.size[q] = 0 THEN linked ELSE LinkBack(linked, q, t)
             ended  == SetTail(backed, q, t)
  <2>1. linked \in HeapOver(Q, P)
    BY StatementsType
  <2>2. backed \in HeapOver(Q, P)
    BY <2>1, StatementsType
  <2>3. ended \in HeapOver(Q, P)
    BY <2>2, StatementsType
  <2> HIDE DEF ended
  <2>4. [ended EXCEPT !.size[q] = Incr(@)] \in HeapOver(Q, P)
    BY <2>3, StatementsType
  <2>5. QED BY <2>4 DEF task_push, ended
<1>2. task_remove(h, q, t) \in HeapOver(Q, P)
  <2> DEFINE ends == UnlinkTail(UnlinkHead(h, q, t), q, t)
             mid  == UnlinkPrev(UnlinkNext(ends, t), t)
  <2>1. ends \in HeapOver(Q, P)
    BY StatementsType
  <2>2. mid \in HeapOver(Q, P)
    <3> HIDE DEF ends
    <3>1. UnlinkNext(ends, t) \in HeapOver(Q, P)
      BY <2>1, StatementsType
    <3>2. QED BY <3>1, StatementsType
  <2> HIDE DEF mid
  <2>3. [mid EXCEPT !.size[q] = Decr(@)] \in HeapOver(Q, P)
    BY <2>2, StatementsType
  <2>4. ClearLinks([mid EXCEPT !.size[q] = Decr(@)], t) \in HeapOver(Q, P)
    BY <2>3, StatementsType
  <2>5. QED BY <2>4 DEF task_remove, mid
<1>3. task_pop(h, q) \in HeapOver(Q, P)
  BY PopType
<1>4. QED BY <1>1, <1>2, <1>3

-----------------------------------------------------------------------------
(* The shape of the lists.                                                 *)

Pointer == Task \union {NULL}

\* The queue q of heap h links the tasks of the sequence s, in this order.
ListOf(h, q, s) ==
  /\ h.size[q] = Len(s)
  /\ h.head[q] = IF Len(s) = 0 THEN NULL ELSE s[1]
  /\ h.tail[q] = IF Len(s) = 0 THEN NULL ELSE s[Len(s)]
  /\ \A i \in 1 .. Len(s) :
       /\ h.next[s[i]] = IF i = Len(s) THEN NULL ELSE s[i + 1]
       /\ h.prev[s[i]] = IF i = 1 THEN NULL ELSE s[i - 1]

\* No task is twice in the sequences c[q], neither in one nor in two of them.
Disjoint(Q, c) ==
  \A p, q \in Q : \A i \in 1 .. Len(c[p]), j \in 1 .. Len(c[q]) :
    c[p][i] = c[q][j] => p = q /\ i = j

\* Every queue q of Q links the tasks of c[q].
Lists(h, Q, c) == /\ c \in [Q -> Seq(Task)]
                  /\ \A q \in Q : ListOf(h, q, c[q])
                  /\ Disjoint(Q, c)

Elements(s) == {s[i] : i \in 1 .. Len(s)}

\* The sequence without its element k.
Without(s, k) == [i \in 1 .. Len(s) - 1 |-> IF i < k THEN s[i] ELSE s[i + 1]]

FewTasks == IsFiniteSet(Task) /\ Cardinality(Task) <= SizeMax

LEMMA SequenceOfTasks ==
  ASSUME NEW s \in Seq(Task)
  PROVE  /\ Len(s) \in Nat
         /\ \A i \in 1 .. Len(s) : s[i] \in Task /\ s[i] # NULL
         /\ s = [i \in 1 .. Len(s) |-> s[i]]
BY TaskQueueAssumption

LEMMA AppendTask ==
  ASSUME NEW s \in Seq(Task), NEW t \in Task
  PROVE  /\ Append(s, t) \in Seq(Task)
         /\ Len(Append(s, t)) = Len(s) + 1
         /\ Append(s, t)[Len(s) + 1] = t
         /\ \A i \in 1 .. Len(s) : Append(s, t)[i] = s[i]
OBVIOUS

LEMMA WithoutTask ==
  ASSUME NEW s \in Seq(Task), NEW k \in 1 .. Len(s)
  PROVE  /\ Without(s, k) \in Seq(Task)
         /\ Len(Without(s, k)) = Len(s) - 1
         /\ \A i \in 1 .. Len(s) - 1 :
              Without(s, k)[i] = IF i < k THEN s[i] ELSE s[i + 1]
BY DEF Without

\* Removing the first task gives the tail.
LEMMA TailIsWithout ==
  ASSUME NEW s \in Seq(Task), Len(s) # 0
  PROVE  Tail(s) = Without(s, 1) /\ Head(s) = s[1] /\ s # << >>
<1>1. /\ Tail(s) \in Seq(Task) /\ Len(Tail(s)) = Len(s) - 1
      /\ \A i \in 1 .. Len(s) - 1 : Tail(s)[i] = s[i + 1]
      /\ Len(s) \in Nat /\ 1 \in 1 .. Len(s)
  OBVIOUS
<1>2. /\ Without(s, 1) \in Seq(Task) /\ Len(Without(s, 1)) = Len(s) - 1
      /\ \A i \in 1 .. Len(s) - 1 : Without(s, 1)[i] = s[i + 1]
  <2>1. \A i \in 1 .. Len(s) - 1 : Without(s, 1)[i] = IF i < 1 THEN s[i] ELSE s[i + 1]
    BY <1>1, WithoutTask
  <2>2. \A i \in 1 .. Len(s) - 1 : ~(i < 1)
    BY <1>1
  <2> QED BY <1>1, <2>1, <2>2, WithoutTask
<1>3. Tail(s) = Without(s, 1)
  <2>1. /\ Tail(s) = [i \in 1 .. Len(s) - 1 |-> Tail(s)[i]]
        /\ Without(s, 1) = [i \in 1 .. Len(s) - 1 |-> Without(s, 1)[i]]
    BY <1>1, <1>2, SequenceOfTasks
  <2> QED BY <1>1, <1>2, <2>1
<1> QED BY <1>3

\* The tasks of a list that has grown or lost one.
LEMMA AppendElements ==
  ASSUME NEW s \in Seq(Task), NEW t \in Task
  PROVE  Elements(Append(s, t)) = Elements(s) \union {t}
<1>1. Len(s) \in Nat
  OBVIOUS
<1>2. Elements(Append(s, t)) \subseteq Elements(s) \union {t}
  <2> SUFFICES ASSUME NEW i \in 1 .. Len(s) + 1
               PROVE  Append(s, t)[i] \in Elements(s) \union {t}
    BY AppendTask DEF Elements
  <2>1. CASE i = Len(s) + 1
    BY <2>1, AppendTask
  <2>2. CASE i # Len(s) + 1
    <3>1. i \in 1 .. Len(s)
      BY <1>1, <2>2
    <3> QED BY <3>1, AppendTask DEF Elements
  <2> QED BY <2>1, <2>2
<1>3. t \in Elements(Append(s, t))
  <2>1. Len(s) + 1 \in 1 .. Len(s) + 1
    BY <1>1
  <2> QED BY <2>1, AppendTask DEF Elements
<1>4. Elements(s) \subseteq Elements(Append(s, t))
  <2> SUFFICES ASSUME NEW i \in 1 .. Len(s)
               PROVE  s[i] \in Elements(Append(s, t))
    BY DEF Elements
  <2>1. i \in 1 .. Len(s) + 1
    BY <1>1
  <2> QED BY <2>1, AppendTask DEF Elements
<1> QED BY <1>2, <1>3, <1>4

LEMMA WithoutElements ==
  ASSUME NEW s \in Seq(Task), NEW k \in 1 .. Len(s),
         \A i, j \in 1 .. Len(s) : s[i] = s[j] => i = j
  PROVE  Elements(Without(s, k)) = Elements(s) \ {s[k]}
<1> DEFINE n == Len(s)
           w == Without(s, k)
<1>1. n \in Nat /\ k \in 1 .. n
  OBVIOUS
<1>2. Len(w) = n - 1 /\ \A i \in 1 .. n - 1 : w[i] = IF i < k THEN s[i] ELSE s[i + 1]
  BY WithoutTask
<1>3. Elements(w) = {w[i] : i \in 1 .. n - 1} /\ Elements(s) = {s[i] : i \in 1 .. n}
  BY <1>2 DEF Elements
<1>4. \A i \in 1 .. n : s[i] = s[k] => i = k
  OBVIOUS
<1> HIDE DEF n, w
<1>5. ASSUME NEW i \in 1 .. n - 1
      PROVE  w[i] \in {s[j] : j \in 1 .. n} \ {s[k]}
  <2>1. CASE i < k
    <3>1. i \in 1 .. n /\ i # k
      BY <1>1, <2>1
    <3>2. w[i] = s[i]
      BY <1>2, <2>1
    <3> QED BY <1>4, <3>1, <3>2
  <2>2. CASE ~(i < k)
    <3>1. i + 1 \in 1 .. n /\ i + 1 # k
      BY <1>1, <2>2
    <3>2. w[i] = s[i + 1]
      BY <1>2, <2>2
    <3> QED BY <1>4, <3>1, <3>2
  <2> QED BY <2>1, <2>2
<1>6. ASSUME NEW i \in 1 .. n, s[i] # s[k]
      PROVE  s[i] \in {w[j] : j \in 1 .. n - 1}
  <2>1. CASE i < k
    <3>1. i \in 1 .. n - 1
      BY <1>1, <2>1
    <3>2. w[i] = s[i]
      BY <1>2, <2>1, <3>1
    <3> QED BY <3>1, <3>2
  <2>2. CASE ~(i < k)
    <3>1. i # k
      BY <1>6
    <3>2. i - 1 \in 1 .. n - 1 /\ ~(i - 1 < k) /\ (i - 1) + 1 = i
      BY <1>1, <2>2, <3>1
    <3>3. w[i - 1] = s[i]
      BY <1>2, <3>2
    <3> QED BY <3>2, <3>3
  <2> QED BY <2>1, <2>2
<1>7. Elements(w) = Elements(s) \ {s[k]}
  <2>1. Elements(w) \subseteq Elements(s) \ {s[k]}
    BY <1>3, <1>5
  <2>2. Elements(s) \ {s[k]} \subseteq Elements(w)
    BY <1>3, <1>6
  <2> QED BY <2>1, <2>2
<1> QED BY <1>7 DEF w

LEMMA IntervalSize ==
  ASSUME NEW n \in Nat
  PROVE  IsFiniteSet(1 .. n) /\ Cardinality(1 .. n) = n
<1>1. IsFiniteSet(1 .. n) /\ Cardinality(1 .. n) = IF 1 > n THEN 0 ELSE n - 1 + 1
  BY FS_Interval
<1> QED BY <1>1

\* A queue of distinct tasks holds no more tasks than there are.
LEMMA ListLength ==
  ASSUME FewTasks, NEW s \in Seq(Task),
         \A i, j \in 1 .. Len(s) : s[i] = s[j] => i = j
  PROVE  /\ IsFiniteSet(Elements(s)) /\ Cardinality(Elements(s)) = Len(s)
         /\ Len(s) <= Cardinality(Task) /\ Len(s) <= SizeMax
         /\ Cardinality(Task) \in Nat
         /\ \A t \in Task \ Elements(s) : Len(s) < Cardinality(Task)
<1> DEFINE S == Elements(s)
<1>1. s \in Bijection(1 .. Len(s), S)
  <2>1. s \in [1 .. Len(s) -> S] /\ DOMAIN s = 1 .. Len(s)
    BY DEF Elements
  <2>2. \A t \in S : \E i \in 1 .. Len(s) : s[i] = t
    BY DEF Elements
  <2> QED BY <2>1, <2>2 DEF Bijection, Injection, Surjection, IsInjective
<1>2. IsFiniteSet(1 .. Len(s)) /\ Cardinality(1 .. Len(s)) = Len(s) /\ Len(s) \in Nat
  <2>1. Len(s) \in Nat
    OBVIOUS
  <2> QED BY <2>1, IntervalSize
<1>3. IsFiniteSet(S) /\ Cardinality(S) = Len(s)
  BY <1>1, <1>2, FS_Bijection DEF ExistsBijection
<1>4. S \subseteq Task
  BY DEF Elements
<1>5. /\ Cardinality(Task) \in Nat /\ Cardinality(S) <= Cardinality(Task)
      /\ Cardinality(S) = Cardinality(Task) => S = Task
  BY <1>4, FS_CardinalityType, FS_Subset DEF FewTasks
<1>6. Len(s) <= SizeMax
  BY <1>2, <1>3, <1>5, TaskQueueAssumption DEF FewTasks
<1>7. ASSUME NEW t \in Task \ S PROVE Len(s) < Cardinality(Task)
  BY <1>2, <1>3, <1>5
<1> QED BY <1>2, <1>3, <1>5, <1>6, <1>7


-----------------------------------------------------------------------------
(* The operations on lists.                                                *)

\* What task_push changes, field by field.
LEMMA PushEffect ==
  ASSUME NEW Q, NEW h \in HeapOver(Q, Pointer), NEW q \in Q, NEW t \in Task,
         h.size[q] # 0 => h.tail[q] \in Task \ {t},
         NEW g, g = task_push(h, q, t)
  PROVE  /\ g \in HeapOver(Q, Pointer)
         /\ \A p \in Q \ {q} : /\ g.head[p] = h.head[p] /\ g.tail[p] = h.tail[p]
                               /\ g.size[p] = h.size[p]
         /\ g.size[q] = Incr(h.size[q]) /\ g.tail[q] = t
         /\ g.head[q] = IF h.size[q] = 0 THEN t ELSE h.head[q]
         /\ g.next[t] = NULL
         /\ g.prev[t] = IF h.size[q] = 0 THEN NULL ELSE h.tail[q]
         /\ h.size[q] # 0 => g.next[h.tail[q]] = t
         /\ \A u \in Task \ {t} :
              /\ g.prev[u] = h.prev[u]
              /\ (h.size[q] = 0 \/ u # h.tail[q]) => g.next[u] = h.next[u]
<1>1. g \in HeapOver(Q, Pointer)
  BY OperationsType DEF Pointer
<1>2. CASE h.size[q] = 0
  <2>1. g = [next |-> [h.next EXCEPT ![t] = NULL], prev |-> [h.prev EXCEPT ![t] = NULL],
             head |-> [h.head EXCEPT ![q] = t], tail |-> [h.tail EXCEPT ![q] = t],
             size |-> [h.size EXCEPT ![q] = Incr(h.size[q])]]
    BY <1>2 DEF HeapOver, task_push, SetTail, LinkLast, ClearLinks
  <2> QED BY <1>1, <1>2, <2>1 DEF HeapOver
<1>3. CASE h.size[q] # 0
  <2>1. g = [next |-> [h.next EXCEPT ![t] = NULL, ![h.tail[q]] = t],
             prev |-> [h.prev EXCEPT ![t] = h.tail[q]],
             head |-> h.head, tail |-> [h.tail EXCEPT ![q] = t],
             size |-> [h.size EXCEPT ![q] = Incr(h.size[q])]]
    BY <1>3 DEF HeapOver, task_push, SetTail, LinkBack, LinkLast, ClearLinks
  <2> QED BY <1>1, <1>3, <2>1 DEF HeapOver
<1> QED BY <1>2, <1>3

\* What task_remove changes, field by field.
LEMMA RemoveEffect ==
  ASSUME NEW Q, NEW h \in HeapOver(Q, Pointer), NEW q \in Q, NEW t \in Task,
         h.next[t] # t, h.prev[t] # t,
         NEW g, g = task_remove(h, q, t)
  PROVE  /\ g \in HeapOver(Q, Pointer)
         /\ \A p \in Q \ {q} : /\ g.head[p] = h.head[p] /\ g.tail[p] = h.tail[p]
                               /\ g.size[p] = h.size[p]
         /\ g.size[q] = Decr(h.size[q])
         /\ g.head[q] = IF h.head[q] = t THEN h.next[t] ELSE h.head[q]
         /\ g.tail[q] = IF h.tail[q] = t THEN h.prev[t] ELSE h.tail[q]
         /\ g.next[t] = NULL /\ g.prev[t] = NULL
         /\ \A u \in Task \ {t} :
              /\ g.next[u] = IF u = h.prev[t] THEN h.next[t] ELSE h.next[u]
              /\ g.prev[u] = IF u = h.next[t] THEN h.prev[t] ELSE h.prev[u]
<1> DEFINE n == h.next[t]
           p == h.prev[t]
<1>1. g \in HeapOver(Q, Pointer)
  BY OperationsType DEF Pointer
<1>2. NULL \notin Task /\ n \in Pointer /\ p \in Pointer /\ n # t /\ p # t
  BY TaskQueueAssumption, LoadsType
<1>3. g = [next |-> [u \in Task |-> IF u = t THEN NULL
                                    ELSE IF u = p THEN n ELSE h.next[u]],
           prev |-> [u \in Task |-> IF u = t THEN NULL
                                    ELSE IF u = n THEN p ELSE h.prev[u]],
           head |-> [h.head EXCEPT ![q] = IF h.head[q] = t THEN n ELSE @],
           tail |-> [h.tail EXCEPT ![q] = IF h.tail[q] = t THEN p ELSE @],
           size |-> [h.size EXCEPT ![q] = Decr(h.size[q])]]
  <2> DEFINE h1 == UnlinkTail(UnlinkHead(h, q, t), q, t)
             h2 == UnlinkPrev(UnlinkNext(h1, t), t)
  <2>1. h1 = [next |-> h.next, prev |-> h.prev,
              head |-> [h.head EXCEPT ![q] = IF h.head[q] = t THEN n ELSE @],
              tail |-> [h.tail EXCEPT ![q] = IF h.tail[q] = t THEN p ELSE @],
              size |-> h.size]
    BY DEF HeapOver, UnlinkTail, UnlinkHead
  <2>2. h2 = [next |-> IF p # NULL THEN [h.next EXCEPT ![p] = n] ELSE h.next,
              prev |-> IF n # NULL THEN [h.prev EXCEPT ![n] = p] ELSE h.prev,
              head |-> h1.head, tail |-> h1.tail, size |-> h.size]
    <3> HIDE DEF h1
    <3> QED BY <1>2, <2>1 DEF HeapOver, UnlinkNext, UnlinkPrev, Pointer
  <2>3. g = ClearLinks([h2 EXCEPT !.size[q] = Decr(@)], t)
    BY DEF task_remove
  <2> HIDE DEF h1, h2
  <2>4. g = [next |-> [h2.next EXCEPT ![t] = NULL], prev |-> [h2.prev EXCEPT ![t] = NULL],
             head |-> h1.head, tail |-> h1.tail,
             size |-> [h.size EXCEPT ![q] = Decr(h.size[q])]]
    BY <2>2, <2>3 DEF ClearLinks
  <2>5. [h2.next EXCEPT ![t] = NULL]
          = [u \in Task |-> IF u = t THEN NULL ELSE IF u = p THEN n ELSE h.next[u]]
    BY <1>2, <2>2 DEF HeapOver, Pointer
  <2>6. [h2.prev EXCEPT ![t] = NULL]
          = [u \in Task |-> IF u = t THEN NULL ELSE IF u = n THEN p ELSE h.prev[u]]
    BY <1>2, <2>2 DEF HeapOver, Pointer
  <2> QED BY <2>1, <2>4, <2>5, <2>6
<1> HIDE DEF n, p
<1>4. /\ \A o \in Q \ {q} : /\ g.head[o] = h.head[o] /\ g.tail[o] = h.tail[o]
                            /\ g.size[o] = h.size[o]
      /\ g.size[q] = Decr(h.size[q])
      /\ g.head[q] = IF h.head[q] = t THEN n ELSE h.head[q]
      /\ g.tail[q] = IF h.tail[q] = t THEN p ELSE h.tail[q]
  BY <1>3 DEF HeapOver
<1>5. /\ g.next[t] = NULL /\ g.prev[t] = NULL
      /\ \A u \in Task \ {t} : /\ g.next[u] = IF u = p THEN n ELSE h.next[u]
                               /\ g.prev[u] = IF u = n THEN p ELSE h.prev[u]
  BY <1>3
<1> QED BY <1>1, <1>4, <1>5 DEF n, p

LEMMA EmptyLists ==
  ASSUME NEW Q
  PROVE  Lists(EmptyHeap(Q), Q, [q \in Q |-> << >>])
<1>1. Len(<< >>) = 0 /\ << >> \in Seq(Task)
  OBVIOUS
<1> QED BY <1>1 DEF Lists, ListOf, Disjoint, EmptyHeap

\* task_push appends.
LEMMA PushLists ==
  ASSUME FewTasks, NEW Q, NEW h \in HeapOver(Q, Pointer), NEW c, Lists(h, Q, c),
         NEW q \in Q, NEW t \in Task, \A p \in Q : t \notin Elements(c[p])
  PROVE  /\ Lists(task_push(h, q, t), Q, [c EXCEPT ![q] = Append(@, t)])
         /\ h.size[q] < SizeMax
         /\ ~PushFaults(h, q)
<1> DEFINE g == task_push(h, q, t)
           d == [c EXCEPT ![q] = Append(c[q], t)]
           s == c[q]
           n == Len(s)
<1>1. /\ s \in Seq(Task) /\ n \in Nat /\ ListOf(h, q, s)
      /\ \A i, j \in 1 .. n : s[i] = s[j] => i = j
      /\ \A i \in 1 .. n : s[i] \in Task \ {t}
  BY SequenceOfTasks DEF Lists, Disjoint, Elements
<1>2. n < SizeMax /\ h.size[q] = n /\ Incr(n) = n + 1
  BY <1>1, ListLength, TaskQueueAssumption DEF ListOf, FewTasks, Incr
<1>3. n # 0 => h.tail[q] = s[n] /\ n \in 1 .. n
  BY <1>1 DEF ListOf
<1>4. h.size[q] # 0 => h.tail[q] \in Task \ {t}
  BY <1>1, <1>2, <1>3
<1>5. /\ \A p \in Q \ {q} : /\ g.head[p] = h.head[p] /\ g.tail[p] = h.tail[p]
                            /\ g.size[p] = h.size[p]
      /\ g.size[q] = n + 1 /\ g.tail[q] = t
      /\ g.head[q] = IF n = 0 THEN t ELSE h.head[q]
      /\ g.next[t] = NULL
      /\ g.prev[t] = IF n = 0 THEN NULL ELSE s[n]
      /\ n # 0 => g.next[s[n]] = t
      /\ \A u \in Task \ {t} : /\ g.prev[u] = h.prev[u]
                               /\ (n = 0 \/ u # s[n]) => g.next[u] = h.next[u]
  <2> HIDE DEF g, n
  <2> QED BY <1>2, <1>3, <1>4, PushEffect DEF g
<1> HIDE DEF g
<1>6. ListOf(g, q, d[q])
  <2>1. d[q] = Append(s, t)
    BY DEF Lists
  <2>2. /\ Len(d[q]) = n + 1 /\ d[q][n + 1] = t
        /\ \A i \in 1 .. n : d[q][i] = s[i]
    BY <1>1, <2>1, AppendTask
  <2>3. ASSUME NEW i \in 1 .. n
        PROVE  /\ g.next[s[i]] = d[q][i + 1]
               /\ g.prev[s[i]] = IF i = 1 THEN NULL ELSE d[q][i - 1]
    <3>1. /\ h.next[s[i]] = IF i = n THEN NULL ELSE s[i + 1]
          /\ h.prev[s[i]] = IF i = 1 THEN NULL ELSE s[i - 1]
          /\ s[i] \in Task \ {t} /\ n \in 1 .. n
      BY <1>1 DEF ListOf
    <3> HIDE DEF d, s, n
    <3>2. CASE i = n
      BY <1>1, <1>5, <2>2, <3>1, <3>2
    <3>3. CASE i # n
      <4>1. s[i] # s[n] /\ i + 1 \in 1 .. n
        BY <1>1, <3>1, <3>3
      <4> QED BY <1>1, <1>5, <2>2, <3>1, <3>3, <4>1
    <3> QED BY <3>2, <3>3
  <2>4. g.head[q] = d[q][1] /\ g.size[q] = Len(d[q]) /\ g.tail[q] = d[q][n + 1]
    BY <1>1, <1>5, <2>2 DEF ListOf
  <2>5. /\ g.next[d[q][n + 1]] = NULL
        /\ g.prev[d[q][n + 1]] = IF n + 1 = 1 THEN NULL ELSE d[q][n]
    BY <1>1, <1>5, <2>2
  <2> HIDE DEF d, s, n
  <2>6. ASSUME NEW i \in 1 .. n + 1
        PROVE  /\ g.next[d[q][i]] = IF i = n + 1 THEN NULL ELSE d[q][i + 1]
               /\ g.prev[d[q][i]] = IF i = 1 THEN NULL ELSE d[q][i - 1]
    <3>1. CASE i = n + 1
      BY <1>1, <2>5, <3>1
    <3>2. CASE i # n + 1
      <4>1. i \in 1 .. n
        BY <1>1, <3>2
      <4> QED BY <2>2, <2>3, <3>2, <4>1
    <3> QED BY <3>1, <3>2
  <2> QED BY <1>1, <2>2, <2>4, <2>6 DEF ListOf
<1>7. ASSUME NEW p \in Q \ {q} PROVE ListOf(g, p, d[p])
  <2>1. d[p] = c[p] /\ c[p] \in Seq(Task) /\ ListOf(h, p, c[p])
    BY DEF Lists
  <2>2. \A i \in 1 .. Len(c[p]) : c[p][i] \in Task \ {t}
    BY <2>1, SequenceOfTasks DEF Elements
  <2>3. ASSUME NEW i \in 1 .. Len(c[p]) PROVE n = 0 \/ c[p][i] # s[n]
    BY <1>1 DEF Lists, Disjoint
  <2> HIDE DEF s, n, d
  <2>4. \A i \in 1 .. Len(c[p]) : /\ g.next[c[p][i]] = h.next[c[p][i]]
                                  /\ g.prev[c[p][i]] = h.prev[c[p][i]]
    BY <1>5, <2>2, <2>3
  <2> QED BY <1>5, <2>1, <2>4 DEF ListOf
<1>8. Disjoint(Q, d)
  <2>1. d[q] = Append(s, t) /\ \A p \in Q \ {q} : d[p] = c[p]
    BY DEF Lists
  <2>2. /\ Len(d[q]) = n + 1 /\ d[q][n + 1] = t
        /\ \A i \in 1 .. n : d[q][i] = s[i]
    BY <1>1, <2>1, AppendTask
  <2> DEFINE Old(p, i) == i \in 1 .. Len(c[p]) /\ d[p][i] = c[p][i] /\ d[p][i] # t
  <2>3. \A p \in Q : \A i \in 1 .. Len(d[p]) :
           Old(p, i) \/ (p = q /\ i = n + 1 /\ d[p][i] = t)
    <3> SUFFICES ASSUME NEW p \in Q, NEW i \in 1 .. Len(d[p])
                 PROVE  Old(p, i) \/ (p = q /\ i = n + 1 /\ d[p][i] = t)
      OBVIOUS
    <3>1. CASE p = q
      BY <1>1, <2>2, <3>1
    <3>2. CASE p # q
      BY <2>1, <3>2 DEF Elements
    <3> QED BY <3>1, <3>2
  <2>4. \A p, o \in Q : \A i, j : Old(p, i) /\ Old(o, j) /\ d[p][i] = d[o][j] => p = o /\ i = j
    BY DEF Lists, Disjoint
  <2>5. \A p \in Q : \A i : Old(p, i) => d[p][i] # t
    OBVIOUS
  <2> HIDE DEF Old, d
  <2> QED BY <2>3, <2>4, <2>5 DEF Disjoint
<1>9. d \in [Q -> Seq(Task)]
  BY <1>1, AppendTask DEF Lists
<1>10. Lists(g, Q, d)
  BY <1>6, <1>7, <1>8, <1>9 DEF Lists
<1>11. ~PushFaults(h, q)
  BY <1>4, TaskQueueAssumption DEF PushFaults
<1> QED BY <1>2, <1>10, <1>11 DEF g

\* task_remove takes a linked task out, wherever it stands.
LEMMA RemoveLists ==
  ASSUME FewTasks, NEW Q, NEW h \in HeapOver(Q, Pointer), NEW c, Lists(h, Q, c),
         NEW q \in Q, NEW k \in 1 .. Len(c[q])
  PROVE  /\ Lists(task_remove(h, q, c[q][k]), Q, [c EXCEPT ![q] = Without(@, k)])
         /\ h.size[q] # 0
<1> DEFINE t == c[q][k]
           g == task_remove(h, q, t)
           d == [c EXCEPT ![q] = Without(c[q], k)]
           s == c[q]
           n == Len(s)
<1>1. /\ s \in Seq(Task) /\ n \in Nat \ {0} /\ ListOf(h, q, s)
      /\ \A i, j \in 1 .. n : s[i] = s[j] => i = j
      /\ \A i \in 1 .. n : s[i] \in Task
      /\ t \in Task /\ t # NULL
  BY SequenceOfTasks DEF Lists, Disjoint
<1>2. /\ h.next[t] = IF k = n THEN NULL ELSE s[k + 1]
      /\ h.prev[t] = IF k = 1 THEN NULL ELSE s[k - 1]
      /\ h.size[q] = n /\ h.head[q] = s[1] /\ h.tail[q] = s[n]
  BY <1>1 DEF ListOf
<1>3. h.next[t] # t /\ h.prev[t] # t
  <2>1. k # n => k + 1 \in 1 .. n /\ s[k + 1] # s[k]
    BY <1>1
  <2>2. k # 1 => k - 1 \in 1 .. n /\ s[k - 1] # s[k]
    BY <1>1
  <2> QED BY <1>1, <1>2, <2>1, <2>2
<1>4. /\ \A p \in Q \ {q} : /\ g.head[p] = h.head[p] /\ g.tail[p] = h.tail[p]
                            /\ g.size[p] = h.size[p]
      /\ g.size[q] = n - 1
      /\ g.head[q] = IF h.head[q] = t THEN h.next[t] ELSE h.head[q]
      /\ g.tail[q] = IF h.tail[q] = t THEN h.prev[t] ELSE h.tail[q]
      /\ \A u \in Task \ {t} :
           /\ g.next[u] = IF u = h.prev[t] THEN h.next[t] ELSE h.next[u]
           /\ g.prev[u] = IF u = h.next[t] THEN h.prev[t] ELSE h.prev[u]
  <2>1. Decr(h.size[q]) = n - 1
    BY <1>1, <1>2 DEF Decr
  <2> HIDE DEF g, n
  <2> QED BY <1>1, <1>3, <2>1, RemoveEffect DEF g
<1>5. /\ d[q] \in Seq(Task) /\ Len(d[q]) = n - 1
      /\ \A i \in 1 .. n - 1 : d[q][i] = IF i < k THEN s[i] ELSE s[i + 1]
      /\ \A p \in Q \ {q} : d[p] = c[p]
  BY <1>1, WithoutTask DEF Lists
<1> HIDE DEF g
<1>6. ListOf(g, q, d[q])
  <2>0. k \in 1 .. n /\ s[k] = t
    OBVIOUS
  <2> HIDE DEF d, s, n, t
  <2>1. g.head[q] = IF n - 1 = 0 THEN NULL ELSE d[q][1]
    <3>1. h.head[q] = t <=> k = 1
      BY <1>1, <1>2, <2>0
    <3> QED BY <1>1, <1>2, <1>4, <1>5, <2>0, <3>1
  <2>2. g.tail[q] = IF n - 1 = 0 THEN NULL ELSE d[q][n - 1]
    <3>1. h.tail[q] = t <=> k = n
      BY <1>1, <1>2, <2>0
    <3> QED BY <1>1, <1>2, <1>4, <1>5, <2>0, <3>1
  <2>3. ASSUME NEW j \in 1 .. n, j # k
        PROVE  /\ g.next[s[j]] = IF j = n \/ (j = k - 1 /\ k = n) THEN NULL
                                 ELSE IF j = k - 1 THEN s[k + 1] ELSE s[j + 1]
               /\ g.prev[s[j]] = IF j = 1 \/ (j = k + 1 /\ k = 1) THEN NULL
                                 ELSE IF j = k + 1 THEN s[k - 1] ELSE s[j - 1]
    <3>1. /\ h.next[s[j]] = IF j = n THEN NULL ELSE s[j + 1]
          /\ h.prev[s[j]] = IF j = 1 THEN NULL ELSE s[j - 1]
          /\ s[j] \in Task \ {t} /\ s[j] # NULL
      BY <1>1, <2>0, <2>3, TaskQueueAssumption DEF ListOf, n
    <3>2. s[j] = h.prev[t] <=> j = k - 1
      <4>1. k # 1 => k - 1 \in 1 .. n
        BY <1>1, <2>0
      <4>2. k # 1 => (s[j] = s[k - 1] <=> j = k - 1)
        BY <1>1, <4>1
      <4> QED BY <1>2, <3>1, <4>2
    <3>3. s[j] = h.next[t] <=> j = k + 1
      <4>1. k # n => k + 1 \in 1 .. n
        BY <1>1, <2>0
      <4>2. k # n => (s[j] = s[k + 1] <=> j = k + 1)
        BY <1>1, <4>1
      <4> QED BY <1>1, <1>2, <3>1, <4>2
    <3>4. /\ g.next[s[j]] = IF j = k - 1 THEN h.next[t] ELSE h.next[s[j]]
          /\ g.prev[s[j]] = IF j = k + 1 THEN h.prev[t] ELSE h.prev[s[j]]
      BY <1>4, <3>1, <3>2, <3>3
    <3>5. g.next[s[j]] = IF j = n \/ (j = k - 1 /\ k = n) THEN NULL
                         ELSE IF j = k - 1 THEN s[k + 1] ELSE s[j + 1]
      BY <1>1, <1>2, <2>0, <3>1, <3>4
    <3>6. g.prev[s[j]] = IF j = 1 \/ (j = k + 1 /\ k = 1) THEN NULL
                         ELSE IF j = k + 1 THEN s[k - 1] ELSE s[j - 1]
      BY <1>1, <1>2, <2>0, <3>1, <3>4
    <3> QED BY <3>5, <3>6
  <2>4. ASSUME NEW i \in 1 .. n - 1
        PROVE  /\ g.next[d[q][i]] = IF i = n - 1 THEN NULL ELSE d[q][i + 1]
               /\ g.prev[d[q][i]] = IF i = 1 THEN NULL ELSE d[q][i - 1]
    <3>1. CASE i < k
      <4>1. d[q][i] = s[i] /\ i \in 1 .. n /\ i # k
        BY <1>1, <1>5, <3>1
      <4>2. g.next[s[i]] = IF i = n - 1 THEN NULL ELSE d[q][i + 1]
        BY <1>1, <1>5, <2>0, <2>3, <3>1, <4>1
      <4>3. g.prev[s[i]] = IF i = 1 THEN NULL ELSE d[q][i - 1]
        BY <1>1, <1>5, <2>0, <2>3, <3>1, <4>1
      <4> QED BY <4>1, <4>2, <4>3
    <3>2. CASE ~(i < k)
      <4> DEFINE j == i + 1
      <4>1. d[q][i] = s[j] /\ j \in 1 .. n /\ j # k
        BY <1>1, <1>5, <2>0, <3>2
      <4> HIDE DEF j
      <4>2. g.next[s[j]] = IF i = n - 1 THEN NULL ELSE d[q][i + 1]
        BY <1>1, <1>5, <2>0, <2>3, <3>2, <4>1 DEF j
      <4>3. g.prev[s[j]] = IF i = 1 THEN NULL ELSE d[q][i - 1]
        BY <1>1, <1>5, <2>0, <2>3, <3>2, <4>1 DEF j
      <4> QED BY <4>1, <4>2, <4>3
    <3> QED BY <3>1, <3>2
  <2> QED BY <1>1, <1>4, <1>5, <2>1, <2>2, <2>4 DEF ListOf
<1>7. ASSUME NEW p \in Q \ {q} PROVE ListOf(g, p, d[p])
  <2>1. d[p] = c[p] /\ c[p] \in Seq(Task) /\ ListOf(h, p, c[p])
    BY <1>5 DEF Lists
  <2>2. \A i \in 1 .. Len(c[p]) : c[p][i] \in Task /\ c[p][i] # NULL
    BY <2>1, SequenceOfTasks
  <2>3. ASSUME NEW i \in 1 .. Len(c[p]), NEW j \in 1 .. n PROVE c[p][i] # s[j]
    BY <1>1 DEF Lists, Disjoint
  <2>0. k \in 1 .. n /\ s[k] = t
    OBVIOUS
  <2> HIDE DEF s, n, d, t
  <2>4. ASSUME NEW i \in 1 .. Len(c[p])
        PROVE  c[p][i] # t /\ c[p][i] # h.next[t] /\ c[p][i] # h.prev[t]
    <3>1. k # n => k + 1 \in 1 .. n
      BY <1>1, <2>0
    <3>2. k # 1 => k - 1 \in 1 .. n
      BY <1>1, <2>0
    <3> QED BY <1>2, <2>0, <2>2, <2>3, <3>1, <3>2
  <2>5. \A i \in 1 .. Len(c[p]) : /\ g.next[c[p][i]] = h.next[c[p][i]]
                                  /\ g.prev[c[p][i]] = h.prev[c[p][i]]
    BY <1>4, <2>2, <2>4
  <2> QED BY <1>4, <2>1, <2>5 DEF ListOf
<1>8. Disjoint(Q, d)
  <2> DEFINE old(p, i) == IF p = q /\ i >= k THEN i + 1 ELSE i
  <2>1. \A p \in Q : \A i \in 1 .. Len(d[p]) :
          old(p, i) \in 1 .. Len(c[p]) /\ d[p][i] = c[p][old(p, i)] /\ i \in Nat
    <3> SUFFICES ASSUME NEW p \in Q, NEW i \in 1 .. Len(d[p])
                 PROVE  old(p, i) \in 1 .. Len(c[p]) /\ d[p][i] = c[p][old(p, i)]
                        /\ i \in Nat
      OBVIOUS
    <3>1. CASE p = q
      BY <1>1, <1>5, <3>1
    <3>2. CASE p # q
      BY <1>5, <3>2
    <3> QED BY <3>1, <3>2
  <2>2. \A p, o \in Q : \A i, j \in Nat : p = o /\ old(p, i) = old(o, j) => i = j
    OBVIOUS
  <2> HIDE DEF old, d
  <2>3. ASSUME NEW p \in Q, NEW o \in Q, NEW i \in 1 .. Len(d[p]),
               NEW j \in 1 .. Len(d[o]), d[p][i] = d[o][j]
        PROVE  p = o /\ old(p, i) = old(o, j)
    <3>1. /\ old(p, i) \in 1 .. Len(c[p]) /\ old(o, j) \in 1 .. Len(c[o])
          /\ c[p][old(p, i)] = c[o][old(o, j)]
      BY <2>1, <2>3
    <3> QED BY <3>1 DEF Lists, Disjoint
  <2> QED BY <2>1, <2>2, <2>3 DEF Disjoint
<1>9. d \in [Q -> Seq(Task)]
  BY <1>5 DEF Lists
<1>10. Lists(g, Q, d)
  BY <1>6, <1>7, <1>8, <1>9 DEF Lists
<1> QED BY <1>1, <1>2, <1>10 DEF g

\* task_pop returns the first task and takes it out.
LEMMA PopLists ==
  ASSUME FewTasks, NEW Q, NEW h \in HeapOver(Q, Pointer), NEW c, Lists(h, Q, c),
         NEW q \in Q
  PROVE  /\ PopsNothing(h, q) <=> Len(c[q]) = 0
         /\ ~PopFaults(h, q)
         /\ Len(c[q]) # 0 => /\ Popped(h, q) = c[q][1]
                             /\ h.size[q] # 0
                             /\ task_pop(h, q) = task_remove(h, q, c[q][1])
                             /\ Lists(task_pop(h, q), Q, [c EXCEPT ![q] = Without(@, 1)])
<1> DEFINE s == c[q]
           n == Len(s)
           t == s[1]
<1>1. /\ n \in Nat /\ ListOf(h, q, s)
      /\ \A i \in 1 .. n : s[i] \in Task /\ s[i] # NULL
      /\ \A i, j \in 1 .. n : s[i] = s[j] => i = j
  BY SequenceOfTasks DEF Lists, Disjoint
<1>2. /\ PopsNothing(h, q) <=> n = 0
      /\ ~PopFaults(h, q)
  BY <1>1 DEF PopsNothing, PopFaults, ListOf
<1> HIDE DEF s, n, t
<1>3. ASSUME n # 0
      PROVE  Popped(h, q) = t /\ h.size[q] # 0 /\ task_pop(h, q) = task_remove(h, q, t)
  <2>1. /\ h.head[q] = t /\ h.size[q] = n /\ h.tail[q] = s[n]
        /\ h.prev[t] = NULL /\ h.next[t] = IF n = 1 THEN NULL ELSE s[2]
        /\ t \in Task /\ t # NULL
    <3>1. 1 \in 1 .. n /\ n \in 1 .. n
      BY <1>1, <1>3
    <3>2. /\ h.next[s[1]] = IF 1 = n THEN NULL ELSE s[1 + 1]
          /\ h.prev[s[1]] = IF 1 = 1 THEN NULL ELSE s[1 - 1]
      BY <1>1, <3>1 DEF ListOf, n
    <3>3. h.head[q] = s[1] /\ h.size[q] = n /\ h.tail[q] = s[n]
      BY <1>1, <1>3 DEF ListOf, n
    <3>4. s[1] \in Task /\ s[1] # NULL /\ 1 + 1 = 2
      BY <1>1, <3>1
    <3> QED BY <3>2, <3>3, <3>4 DEF t
  <2>2. /\ n # 1 => s[2] \in Task /\ s[2] # NULL /\ s[2] # t /\ s[n] # t
        /\ n = 1 => s[n] = t
    <3>1. 1 \in 1 .. n /\ n \in 1 .. n /\ (n # 1 => 2 \in 1 .. n)
      BY <1>1, <1>3
    <3> QED BY <1>1, <3>1 DEF t
  <2>3. CASE n = 1
    <3>1. h.tail[q] = t /\ h.next[t] = NULL
      BY <2>1, <2>2, <2>3
    <3> DEFINE m == [h EXCEPT !.head[q] = NULL, !.tail[q] = NULL]
    <3>2. /\ m.head = [h.head EXCEPT ![q] = NULL] /\ m.tail = [h.tail EXCEPT ![q] = NULL]
          /\ m.next = h.next /\ m.prev = h.prev /\ m.size = h.size
      BY DEF HeapOver
    <3>3. task_pop(h, q) = ClearLinks([m EXCEPT !.size[q] = Decr(@)], t)
      BY <2>1, <3>1 DEF task_pop
    <3>4. UnlinkTail(UnlinkHead(h, q, t), q, t) = m
      BY <2>1, <3>1 DEF UnlinkHead, UnlinkTail, HeapOver
    <3> HIDE DEF m
    <3>5. UnlinkPrev(UnlinkNext(m, t), t) = m
      BY <2>1, <3>1, <3>2 DEF UnlinkNext, UnlinkPrev
    <3>6. task_remove(h, q, t) = ClearLinks([m EXCEPT !.size[q] = Decr(@)], t)
      BY <3>4, <3>5 DEF task_remove
    <3> QED BY <1>1, <1>3, <2>1, <3>3, <3>6 DEF Popped
  <2>4. CASE n # 1
    <3> DEFINE u == h.next[t]
    <3>1. u # NULL /\ u # t /\ h.tail[q] # t
      BY <2>1, <2>2, <2>4
    <3> HIDE DEF u
    <3> DEFINE e == [h EXCEPT !.head[q] = u]
               m == [h EXCEPT !.head[q] = u, !.prev[u] = NULL]
    <3>2. task_pop(h, q) = ClearLinks([m EXCEPT !.size[q] = Decr(@)], t)
      BY <2>1, <3>1 DEF task_pop, u
    <3>3. UnlinkTail(UnlinkHead(h, q, t), q, t) = e
      BY <2>1, <3>1 DEF UnlinkHead, UnlinkTail, HeapOver, u
    <3>4. e.next[t] = u /\ e.prev[t] = NULL /\ m = [e EXCEPT !.prev[u] = NULL]
      BY <2>1 DEF HeapOver, u
    <3> HIDE DEF e, m
    <3>5. UnlinkPrev(UnlinkNext(e, t), t) = m
      BY <3>1, <3>4 DEF UnlinkNext, UnlinkPrev
    <3>6. task_remove(h, q, t) = ClearLinks([m EXCEPT !.size[q] = Decr(@)], t)
      BY <3>3, <3>5 DEF task_remove
    <3> QED BY <1>1, <1>3, <2>1, <3>2, <3>6 DEF Popped
  <2> QED BY <2>3, <2>4
<1>4. ASSUME n # 0 PROVE Lists(task_pop(h, q), Q, [c EXCEPT ![q] = Without(@, 1)])
  <2>1. 1 \in 1 .. Len(c[q])
    BY <1>1, <1>4 DEF n, s
  <2>2. task_pop(h, q) = task_remove(h, q, c[q][1])
    BY <1>3, <1>4 DEF t, s
  <2> QED BY <2>1, <2>2, RemoveLists
<1> QED BY <1>2, <1>3, <1>4 DEF t, n, s

-----------------------------------------------------------------------------
(* The walk along the links.                                               *)

\* A non-empty set of natural numbers has a least element.
LEMMA LeastNatural ==
  ASSUME NEW S \in SUBSET Nat, S # {}
  PROVE  \E n \in S : \A k \in S : ~(k < n)
<1> DEFINE R == {e \in Nat \X Nat : e[1] < e[2]}
<1>1. IsWellFoundedOn(R, Nat)
  BY NatLessThanWellFounded DEF OpToRel
<1>2. PICK n \in S : \A k \in S : ~(<<k, n>> \in R)
  <2> HIDE DEF R
  <2> QED BY <1>1, WFMin
<1> QED BY <1>2

\* The walk along the next links of a list.
LEMMA WalkOfList ==
  ASSUME FewTasks, NEW h, NEW q, NEW s \in Seq(Task), ListOf(h, q, s),
         \A i, j \in 1 .. Len(s) : s[i] = s[j] => i = j
  PROVE  Nth(h, q) = [i \in 0 .. Cardinality(Task) |->
                        IF i < Len(s) THEN s[i + 1] ELSE NULL]
<1> DEFINE C == Cardinality(Task)
           n == Len(s)
           w == [i \in 0 .. C |-> IF i < n THEN s[i + 1] ELSE NULL]
           nth == Nth(h, q)
           Walked(f) == [i \in 0 .. C |->
                           IF i = 0 THEN h.head[q]
                           ELSE IF f[i - 1] = NULL THEN NULL ELSE h.next[f[i - 1]]]
<1>1. /\ C \in Nat /\ n \in Nat /\ n <= C
      /\ \A i \in 1 .. n : s[i] \in Task /\ s[i] # NULL
  BY ListLength, SequenceOfTasks
<1>2. w = Walked(w)
  <2> SUFFICES ASSUME NEW i \in 0 .. C PROVE w[i] = Walked(w)[i]
    OBVIOUS
  <2> HIDE DEF C, n
  <2>1. CASE i = 0
    BY <1>1, <2>1 DEF ListOf, n
  <2>2. CASE i # 0
    <3>1. i - 1 \in 0 .. C /\ (i - 1) + 1 = i
      BY <1>1, <2>2
    <3>2. w[i - 1] = IF i - 1 < n THEN s[i] ELSE NULL
      BY <3>1
    <3>3. i - 1 < n => /\ i \in 1 .. n /\ s[i] # NULL
                       /\ h.next[s[i]] = IF i = n THEN NULL ELSE s[i + 1]
      BY <1>1, <2>2 DEF ListOf, n
    <3> QED BY <1>1, <2>2, <3>1, <3>2, <3>3
  <2> QED BY <2>1, <2>2
<1>3. nth = Walked(nth)
  <2>1. nth = CHOOSE f : f = Walked(f)
    BY DEF Nth
  <2> HIDE DEF Walked, w, nth
  <2> QED BY <1>2, <2>1
<1>4. \A i \in 0 .. C : nth[i] = w[i]
  <2> SUFFICES ASSUME NEW j \in 0 .. C, nth[j] # w[j] PROVE FALSE
    OBVIOUS
  <2> DEFINE Bad == {i \in 0 .. C : nth[i] # w[i]}
  <2> HIDE DEF nth, w
  <2>1. PICK i \in Bad : \A k \in Bad : ~(k < i)
    <3>1. Bad \in SUBSET Nat /\ Bad # {}
      BY <1>1
    <3> HIDE DEF Bad
    <3> QED BY <3>1, LeastNatural
  <2>2. i # 0
    <3>1. nth[0] = Walked(nth)[0] /\ w[0] = Walked(w)[0] /\ 0 \in 0 .. C
      BY <1>1, <1>2, <1>3
    <3>2. nth[0] = w[0]
      BY <3>1
    <3> QED BY <2>1, <3>2
  <2>3. i - 1 \in 0 .. C /\ i - 1 < i
    BY <1>1, <2>1, <2>2
  <2>4. nth[i - 1] = w[i - 1]
    BY <2>1, <2>3
  <2>5. nth[i] = Walked(nth)[i] /\ w[i] = Walked(w)[i] /\ i \in 0 .. C
    BY <1>2, <1>3, <2>1
  <2> HIDE DEF C
  <2>6. Walked(nth)[i] = Walked(w)[i]
    BY <2>4, <2>5
  <2> QED BY <2>1, <2>5, <2>6
<1>5. nth = [i \in 0 .. C |-> nth[i]] /\ w = [i \in 0 .. C |-> w[i]]
  <2> HIDE DEF nth
  <2> QED BY <1>3
<1> QED
  <2> HIDE DEF nth
  <2> QED BY <1>4, <1>5 DEF nth

\* The sequence is what the walk meets.
LEMMA ReachableList ==
  ASSUME FewTasks, NEW h, NEW q, NEW s \in Seq(Task), ListOf(h, q, s),
         \A i, j \in 1 .. Len(s) : s[i] = s[j] => i = j
  PROVE  /\ Reachable(h, q) = Elements(s)
         /\ Cardinality(Reachable(h, q)) = Len(s)
         /\ WellLinked(h, q)
<1> DEFINE C == Cardinality(Task)
           n == Len(s)
           nth == Nth(h, q)
<1>1. /\ C \in Nat /\ n \in Nat /\ n <= C /\ Cardinality(Elements(s)) = n
      /\ \A i \in 1 .. n : s[i] \in Task /\ s[i] # NULL
  BY ListLength, SequenceOfTasks
<1>2. nth = [i \in 0 .. C |-> IF i < n THEN s[i + 1] ELSE NULL]
  BY WalkOfList
<1> HIDE DEF nth, n, C
<1>3. Reachable(h, q) = Elements(s)
  <2>1. Reachable(h, q) = {nth[i] : i \in 0 .. C} \ {NULL}
    BY DEF Reachable, nth, C
  <2>2. ASSUME NEW i \in 1 .. n PROVE s[i] \in {nth[j] : j \in 0 .. C} \ {NULL}
    <3>1. i - 1 \in 0 .. C /\ i - 1 < n /\ (i - 1) + 1 = i
      BY <1>1
    <3>2. nth[i - 1] = s[i]
      BY <1>2, <3>1
    <3> QED BY <1>1, <3>1, <3>2
  <2>3. ASSUME NEW j \in 0 .. C, nth[j] # NULL PROVE \E i \in 1 .. n : nth[j] = s[i]
    <3>1. j < n /\ nth[j] = s[j + 1] /\ j + 1 \in 1 .. n
      BY <1>1, <1>2, <2>3
    <3> QED BY <3>1
  <2> QED BY <2>1, <2>2, <2>3 DEF Elements, n
<1>4. WellLinked(h, q)
  <2>1. /\ h.size[q] = n
        /\ h.tail[q] = IF n = 0 THEN NULL ELSE s[n]
        /\ \A i \in 1 .. n : h.prev[s[i]] = IF i = 1 THEN NULL ELSE s[i - 1]
    BY DEF ListOf, n
  <2>2. nth[n] = NULL
    BY <1>1, <1>2
  <2>3. n # 0 => nth[n - 1] = s[n]
    BY <1>1, <1>2
  <2>4. ASSUME NEW i \in 0 .. n - 1
        PROVE  h.prev[nth[i]] = IF i = 0 THEN NULL ELSE nth[i - 1]
    <3>1. nth[i] = s[i + 1] /\ i + 1 \in 1 .. n /\ (i + 1) - 1 = i
      BY <1>1, <1>2
    <3>2. i # 0 => nth[i - 1] = s[i]
      BY <1>1, <1>2
    <3> QED BY <1>1, <2>1, <3>1, <3>2
  <2> QED BY <1>1, <1>3, <2>1, <2>2, <2>3, <2>4 DEF WellLinked, nth
<1> QED BY <1>1, <1>3, <1>4 DEF n

\* The same of every queue.
LEMMA ReachableLists ==
  ASSUME FewTasks, NEW h, NEW Q, NEW c, Lists(h, Q, c), NEW q \in Q
  PROVE  /\ Reachable(h, q) = Elements(c[q])
         /\ Cardinality(Reachable(h, q)) = Len(c[q])
         /\ WellLinked(h, q)
<1>1. /\ c[q] \in Seq(Task) /\ ListOf(h, q, c[q])
      /\ \A i, j \in 1 .. Len(c[q]) : c[q][i] = c[q][j] => i = j
  BY DEF Lists, Disjoint
<1> QED BY <1>1, ReachableList

LEMMA WalkOfLists ==
  ASSUME FewTasks, NEW h, NEW Q, NEW c, Lists(h, Q, c), NEW q \in Q
  PROVE  c[q] = [i \in 1 .. Cardinality(Reachable(h, q)) |-> Nth(h, q)[i - 1]]
<1> DEFINE s == c[q]
<1>1. /\ s \in Seq(Task) /\ ListOf(h, q, s) /\ Len(s) \in Nat
      /\ \A i, j \in 1 .. Len(s) : s[i] = s[j] => i = j
  BY DEF Lists, Disjoint
<1>2. Cardinality(Reachable(h, q)) = Len(s)
  BY ReachableLists
<1> HIDE DEF s
<1>3. ASSUME NEW i \in 1 .. Len(s) PROVE Nth(h, q)[i - 1] = s[i]
  <2>1. Len(s) <= Cardinality(Task) /\ Cardinality(Task) \in Nat
    BY <1>1, ListLength
  <2>2. i - 1 \in 0 .. Cardinality(Task) /\ i - 1 < Len(s) /\ (i - 1) + 1 = i
    BY <1>1, <2>1
  <2>3. Nth(h, q) = [k \in 0 .. Cardinality(Task) |->
                       IF k < Len(s) THEN s[k + 1] ELSE NULL]
    BY <1>1, WalkOfList
  <2> QED BY <2>2, <2>3
<1>4. s = [i \in 1 .. Len(s) |-> s[i]]
  BY <1>1
<1>5. s = [i \in 1 .. Len(s) |-> Nth(h, q)[i - 1]]
  BY <1>3, <1>4
<1> QED BY <1>2, <1>5 DEF s
=============================================================================

------------------------------ MODULE RingBuffer ------------------------------
(***************************************************************************)
(* Src/ring_buffer.c: a ring of bytes between head, where the next byte is *)
(* written, and tail, where the next one is read.  Equal indices mean that *)
(* it is empty; get_free_space nevertheless admits a push that makes them  *)
(* equal by filling the buffer.                                            *)
(***************************************************************************)
EXTENDS Integers, Sequences

CONSTANTS Byte,    \* the values of a byte
          Junk,    \* what the memory held before
          Size     \* ring_buffer_t.size

ASSUME RingAssumption == Size \in Nat \ {0} /\ Junk \notin Byte

Index  == 0 .. Size - 1
Blocks == UNION {[1 .. n -> Byte] : n \in 1 .. Size + 1}

VARIABLES
  buf, head, tail,    \* the fields of ring_buffer_t
  out,                \* the bytes the last ring_buffer_pop delivered
  ret                 \* the last call: its name, its length and what it returned

rvars == <<buf, head, tail, out, ret>>

get_total_elements == (head + Size - tail) % Size

\* Mutant of get_free_space: one slot too many.
FreeSpacePlusOne == Size - get_total_elements + 1

get_free_space == Size - get_total_elements

\* The bytes that the next n steps of tail would read.
Stored(n) == [i \in 1 .. n |-> buf[(tail + i - 1) % Size]]

Contents == Stored(get_total_elements)

\* Mutant of Advance: the index does not wrap.
AdvancePastEnd(i, n) == i + n

Advance(i, n) == (i + n) % Size

\* Mutant of FirstSegment: a block that would end at the end of the buffer is
\* split one byte early.
FirstSegmentShort(i, n) == IF Size - i > n THEN n ELSE Size - i - 1

\* The length of the first of the two memory blocks of n bytes from index i on.
FirstSegment(i, n) == IF Size - i > n THEN n ELSE Size - i

\* The two memcpy calls of ring_buffer_push, and those of ring_buffer_pop.
Written(data) ==
  LET n == Len(data)
      k == FirstSegment(head, n)
  IN  [i \in Index |-> CASE i < n - k                 -> data[k + i + 1]
                         [] i \in head .. head + k - 1 -> data[i - head + 1]
                         [] OTHER                      -> buf[i]]

Read(n) ==
  LET k == FirstSegment(tail, n)
  IN  [i \in 1 .. n |-> IF i <= k THEN buf[tail + i - 1] ELSE buf[i - k - 1]]

-----------------------------------------------------------------------------
\* ring_buffer_init
RingInit == /\ buf = [i \in Index |-> Junk] /\ head = 0 /\ tail = 0
            /\ out = << >> /\ ret = << >>

ring_buffer_push(data) ==
  /\ ret' = <<"push", Len(data), Len(data) <= get_free_space>>
  /\ IF Len(data) <= get_free_space
     THEN buf' = Written(data) /\ head' = Advance(head, Len(data))
     ELSE UNCHANGED <<buf, head>>
  /\ UNCHANGED <<tail, out>>

ring_buffer_pop(n) ==
  /\ ret' = <<"pop", n, n <= get_total_elements>>
  /\ IF n <= get_total_elements
     THEN out' = Read(n) /\ tail' = Advance(tail, n)
     ELSE UNCHANGED <<tail, out>>
  /\ UNCHANGED <<buf, head>>

RingNext == \/ \E data \in Blocks : ring_buffer_push(data)
            \/ \E n \in 1 .. Size + 1 : ring_buffer_pop(n)

RingSpec == RingInit /\ [][RingNext]_rvars

-----------------------------------------------------------------------------
(* Properties.                                                             *)

\* The type invariant: the indices stay inside the buffer.
RingTypeOK ==
  /\ buf \in [Index -> Byte \union {Junk}]
  /\ head \in Index /\ tail \in Index
  /\ out \in Seq(Byte \union {Junk})
  /\ ret \in {<< >>} \union ({"push", "pop"} \X Nat \X BOOLEAN)

Fifo == INSTANCE ByteFifo WITH held <- Contents

\* Every push and pop, wherever it wraps, is a push or pop of the byte FIFO: what
\* is accepted is held in order, what is refused does not fit, a pop delivers the
\* oldest bytes or, if there are too few, nothing; only a push that fills the
\* buffer exactly loses bytes, and it loses them all.
ImplementsFifo == Fifo!Spec
==============================================================================

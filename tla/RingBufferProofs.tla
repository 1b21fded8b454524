--------------------------- MODULE RingBufferProofs ---------------------------
(***************************************************************************)
(* The ring buffer implements the byte FIFO, for every size and alphabet.  *)
(***************************************************************************)
EXTENDS RingBuffer, TLAPS

\* The slot k places after slot i, for k up to a whole turn.
Slot(i, k) == IF i + k < Size THEN i + k ELSE i + k - Size

\* The number of bytes held, without a remainder.
Distance == IF tail <= head THEN head - tail ELSE head + Size - tail

\* The buffer and its indices have their types.
RingOK == buf \in [Index -> Byte \union {Junk}] /\ head \in Index /\ tail \in Index

\* Contents is the sequence of the bytes read from tail on.
ContentsFromTail ==
  /\ Contents \in Seq(Byte \union {Junk}) /\ Len(Contents) = Distance
  /\ \A i \in 1 .. Distance : Contents[i] = buf[Slot(tail, i - 1)]

-----------------------------------------------------------------------------
LEMMA OneTurn ==
  ASSUME NEW n \in Nat \ {0}, NEW a \in 0 .. n - 1, NEW b \in 0 .. n
  PROVE  (a + b) % n = IF a + b < n THEN a + b ELSE a + b - n
  BY SMT

LEMMA Concatenated ==
  ASSUME NEW S, NEW s \in Seq(S), NEW t \in Seq(S)
  PROVE  s \o t \in Seq(S) /\ Len(s \o t) = Len(s) + Len(t)
  OBVIOUS

LEMMA ModIsSlot ==
  ASSUME NEW i \in Index, NEW k \in 0 .. Size
  PROVE  (i + k) % Size = Slot(i, k) /\ Slot(i, k) \in Index
<1>1. Size \in Nat \ {0} /\ i \in 0 .. Size - 1
  BY RingAssumption DEF Index
<1>2. (i + k) % Size = IF i + k < Size THEN i + k ELSE i + k - Size
  BY <1>1, OneTurn
<1> QED  BY <1>1, <1>2 DEF Slot, Index

LEMMA TotalIsDistance ==
  ASSUME head \in Index, tail \in Index
  PROVE  /\ get_total_elements = Distance
         /\ Distance \in 0 .. Size - 1 /\ head = Slot(tail, Distance)
<1>1. Size \in Nat \ {0} /\ head \in 0 .. Size - 1 /\ tail \in 0 .. Size - 1
  BY RingAssumption DEF Index
<1>2. Size - tail \in 0 .. Size /\ head + Size - tail = head + (Size - tail)
  BY <1>1
<1>3. (head + (Size - tail)) % Size
        = IF head + (Size - tail) < Size THEN head + (Size - tail)
                                         ELSE head + (Size - tail) - Size
  BY <1>1, <1>2, OneTurn
<1>4. get_total_elements = Distance
  BY <1>1, <1>2, <1>3 DEF get_total_elements, Distance
<1> QED  BY <1>1, <1>4 DEF Distance, Slot

LEMMA ContentsAreStored == RingOK => ContentsFromTail
<1> SUFFICES ASSUME RingOK PROVE ContentsFromTail
  OBVIOUS
<1>1. /\ Size \in Nat \ {0} /\ head \in Index /\ tail \in Index
      /\ buf \in [Index -> Byte \union {Junk}]
  BY RingAssumption DEF RingOK
<1>2. get_total_elements = Distance /\ Distance \in 0 .. Size - 1
  BY <1>1, TotalIsDistance
<1>3. ASSUME NEW i \in 1 .. Distance
      PROVE  (tail + i - 1) % Size = Slot(tail, i - 1) /\ Slot(tail, i - 1) \in Index
  <2>1. i - 1 \in 0 .. Size /\ tail + i - 1 = tail + (i - 1)
    BY <1>1, <1>2 DEF Index
  <2> QED  BY <1>1, <2>1, ModIsSlot
<1>4. Contents = [i \in 1 .. Distance |-> buf[(tail + i - 1) % Size]]
  BY <1>2 DEF Contents, Stored
<1>5. \A i \in 1 .. Distance : buf[(tail + i - 1) % Size] \in Byte \union {Junk}
  BY <1>1, <1>3
<1>6. Contents \in Seq(Byte \union {Junk}) /\ Len(Contents) = Distance
  BY <1>2, <1>4, <1>5
<1> QED  BY <1>3, <1>4, <1>6 DEF ContentsFromTail

Results == {<< >>} \union ({"push", "pop"} \X Nat \X BOOLEAN)

LEMMA ResultTyped ==
  ASSUME NEW call \in {"push", "pop"}, NEW n \in Nat
  PROVE  <<call, n, TRUE>> \in Results /\ <<call, n, FALSE>> \in Results
<1>1. <<call, n, TRUE>> \in {"push", "pop"} \X Nat \X BOOLEAN
  OBVIOUS
<1>2. <<call, n, FALSE>> \in {"push", "pop"} \X Nat \X BOOLEAN
  OBVIOUS
<1> QED  BY <1>1, <1>2 DEF Results

LEMMA BlockIsSeq ==
  ASSUME NEW data \in Blocks
  PROVE  /\ data \in Seq(Byte) /\ Len(data) \in 1 .. Size + 1
         /\ data \in [1 .. Len(data) -> Byte]
<1>1. PICK n \in 1 .. Size + 1 : data \in [1 .. n -> Byte]
  BY DEF Blocks
<1>2. n \in Nat /\ Size \in Nat
  BY RingAssumption
<1> QED  BY <1>1, <1>2

\* The two copies of a push put the block after head and leave what is held alone.
LEMMA WrittenSlots ==
  ASSUME RingOK, NEW data \in Blocks, Len(data) + Distance <= Size
  PROVE  /\ Written(data) \in [Index -> Byte \union {Junk}]
         /\ \A j \in 1 .. Len(data) : Written(data)[Slot(head, j - 1)] = data[j]
         /\ \A i \in 1 .. Distance :
              Written(data)[Slot(tail, i - 1)] = buf[Slot(tail, i - 1)]
<1> DEFINE n == Len(data)
           k == FirstSegment(head, n)
<1>1. /\ Size \in Nat \ {0} /\ head \in 0 .. Size - 1 /\ tail \in 0 .. Size - 1
      /\ buf \in [0 .. Size - 1 -> Byte \union {Junk}]
      /\ Distance \in 0 .. Size - 1
  BY RingAssumption, TotalIsDistance DEF RingOK, Index
<1>2. n \in Nat /\ n >= 1 /\ n + Distance <= Size /\ data \in [1 .. n -> Byte]
  BY BlockIsSeq
<1>3. k \in 1 .. n /\ k = IF Size - head > n THEN n ELSE Size - head
  BY <1>1, <1>2 DEF FirstSegment
<1>4. Written(data) =
        [i \in 0 .. Size - 1 |-> CASE i < n - k                 -> data[k + i + 1]
                                   [] i \in head .. head + k - 1 -> data[i - head + 1]
                                   [] OTHER                      -> buf[i]]
  BY DEF Written, Index
<1> HIDE DEF n, k
<1>5. ASSUME NEW i \in 0 .. Size - 1, i < n - k
      PROVE  Written(data)[i] = data[k + i + 1] /\ data[k + i + 1] \in Byte
  BY <1>1, <1>2, <1>3, <1>4, <1>5
<1>6. ASSUME NEW i \in 0 .. Size - 1, i \in head .. head + k - 1
      PROVE  Written(data)[i] = data[i - head + 1] /\ data[i - head + 1] \in Byte
  <2>1. ~(i < n - k)
    BY <1>1, <1>2, <1>3, <1>6
  <2> QED  BY <1>1, <1>2, <1>3, <1>4, <1>6, <2>1
<1>7. ASSUME NEW i \in 0 .. Size - 1, ~(i < n - k), i \notin head .. head + k - 1
      PROVE  Written(data)[i] = buf[i]
  BY <1>4, <1>7
<1>8. Written(data) \in [Index -> Byte \union {Junk}]
  <2>1. \A i \in 0 .. Size - 1 : Written(data)[i] \in Byte \union {Junk}
    BY <1>1, <1>5, <1>6, <1>7
  <2> QED  BY <1>4, <2>1 DEF Index
<1>9. ASSUME NEW j \in 1 .. n PROVE Written(data)[Slot(head, j - 1)] = data[j]
  <2>1. CASE j <= k
    <3>1. Slot(head, j - 1) = head + j - 1 /\ head + j - 1 \in 0 .. Size - 1
      BY <1>1, <1>2, <1>3, <2>1 DEF Slot
    <3>2. head + j - 1 \in head .. head + k - 1 /\ (head + j - 1) - head + 1 = j
      BY <1>1, <1>2, <1>3, <2>1
    <3> QED  BY <1>6, <3>1, <3>2
  <2>2. CASE j > k
    <3>1. Slot(head, j - 1) = j - 1 - k /\ j - 1 - k \in 0 .. Size - 1 /\ j - 1 - k < n - k
      BY <1>1, <1>2, <1>3, <2>2 DEF Slot
    <3>2. k + (j - 1 - k) + 1 = j
      BY <1>2, <1>3
    <3> QED  BY <1>5, <3>1, <3>2
  <2> QED  BY <1>2, <1>3, <2>1, <2>2
<1>10. ASSUME NEW i \in 1 .. Distance
       PROVE  Written(data)[Slot(tail, i - 1)] = buf[Slot(tail, i - 1)]
  <2>1. Slot(tail, i - 1) \in 0 .. Size - 1
    BY <1>1 DEF Slot
  <2>2. ~(Slot(tail, i - 1) < n - k)
    BY <1>1, <1>2, <1>3 DEF Slot, Distance
  <2>3. Slot(tail, i - 1) \notin head .. head + k - 1
    BY <1>1, <1>2, <1>3 DEF Slot, Distance
  <2> QED  BY <1>7, <2>1, <2>2, <2>3
<1> QED  BY <1>8, <1>9, <1>10 DEF n

\* The two copies of a pop deliver the oldest bytes in order.
LEMMA ReadIsPrefix ==
  ASSUME RingOK, NEW n \in 1 .. Distance
  PROVE  /\ Read(n) = SubSeq(Contents, 1, n)
         /\ Read(n) \in Seq(Byte \union {Junk})
<1> DEFINE k == FirstSegment(tail, n)
<1>1. /\ Size \in Nat \ {0} /\ head \in 0 .. Size - 1 /\ tail \in 0 .. Size - 1
      /\ Distance \in 0 .. Size - 1 /\ n \in Nat
  BY RingAssumption, TotalIsDistance DEF RingOK, Index
<1>2. /\ Contents \in Seq(Byte \union {Junk}) /\ Len(Contents) = Distance
      /\ \A i \in 1 .. Distance : Contents[i] = buf[Slot(tail, i - 1)]
  BY ContentsAreStored DEF ContentsFromTail
<1>3. k = IF Size - tail > n THEN n ELSE Size - tail
  BY DEF FirstSegment
<1>4. Read(n) = [i \in 1 .. n |-> IF i <= k THEN buf[tail + i - 1] ELSE buf[i - k - 1]]
  BY DEF Read
<1> HIDE DEF k
<1>5. ASSUME NEW i \in 1 .. n PROVE Read(n)[i] = Contents[i]
  <2>1. Slot(tail, i - 1) = IF i <= k THEN tail + i - 1 ELSE i - k - 1
    BY <1>1, <1>3 DEF Slot
  <2>2. Contents[i] = buf[Slot(tail, i - 1)]
    BY <1>1, <1>2
  <2> QED  BY <1>4, <2>1, <2>2
<1>6. /\ SubSeq(Contents, 1, n) \in Seq(Byte \union {Junk})
      /\ SubSeq(Contents, 1, n) = [i \in 1 .. n |-> Contents[i]]
  BY <1>1, <1>2
<1>7. Read(n) = [i \in 1 .. n |-> Contents[i]]
  BY <1>4, <1>5
<1> QED  BY <1>6, <1>7

\* Whenever the bytes of a block are stored after head, the move of head over them
\* appends the block; if that makes head equal to tail, it empties the ring.
LEMMA HeadMoves ==
  ASSUME RingOK, RingOK', NEW data \in Seq(Byte), Len(data) \in 1 .. Size - Distance,
         \A j \in 1 .. Len(data) : buf'[Slot(head, j - 1)] = data[j],
         \A i \in 1 .. Distance : buf'[Slot(tail, i - 1)] = buf[Slot(tail, i - 1)],
         head' = Advance(head, Len(data)), tail' = tail
  PROVE  /\ Len(data) + Distance = Size => head' = tail /\ Contents' = << >>
         /\ Len(data) + Distance < Size => head' # tail /\ Contents' = Contents \o data
<1>0. PICK n \in Nat : n = Len(data)
  OBVIOUS
<1>1. /\ Size \in Nat \ {0} /\ head \in Index /\ tail \in Index
      /\ Distance \in 0 .. Size - 1 /\ head = Slot(tail, Distance)
      /\ n \in 1 .. Size - Distance
  BY <1>0, RingAssumption, TotalIsDistance DEF RingOK
<1>2. /\ Contents \in Seq(Byte \union {Junk}) /\ Len(Contents) = Distance
      /\ \A i \in 1 .. Distance : Contents[i] = buf[Slot(tail, i - 1)]
  BY ContentsAreStored DEF ContentsFromTail
<1>3. head' = Slot(head, n)
  <2>1. n \in 0 .. Size
    BY <1>1
  <2> QED  BY <1>0, <1>1, <2>1, ModIsSlot DEF Advance
<1>6. /\ Contents' \in Seq(Byte \union {Junk}) /\ Len(Contents') = Distance'
      /\ \A i \in 1 .. Distance' : Contents'[i] = buf'[Slot(tail, i - 1)]
  <2>1. ContentsFromTail'
    BY ContentsAreStored, PTL
  <2> QED  BY <2>1 DEF ContentsFromTail, Slot
<1>7. CASE n + Distance = Size
  <2>1. Distance' = 0 /\ head' = tail
    BY <1>1, <1>3, <1>7 DEF Distance, Slot, Index
  <2>2. Contents' = << >>
    BY <1>6, <2>1
  <2> QED  BY <1>0, <1>1, <1>7, <2>1, <2>2
<1>8. CASE n + Distance < Size
  <2>1. Distance' = Distance + n /\ head' # tail
    BY <1>1, <1>3, <1>8 DEF Distance, Slot, Index
  <2>2. ASSUME NEW i \in 1 .. Distance + n PROVE Contents'[i] = (Contents \o data)[i]
    <3>1. CASE i <= Distance
      <4>1. i \in 1 .. Distance /\ (Contents \o data)[i] = Contents[i]
        BY <1>0, <1>1, <1>2, <3>1
      <4> QED  BY <1>2, <1>6, <2>1, <4>1
    <3>2. CASE i > Distance
      <4>1. /\ i - Distance \in 1 .. n
            /\ (Contents \o data)[i] = data[i - Distance]
        BY <1>0, <1>1, <1>2, <3>2
      <4>2. Slot(head, (i - Distance) - 1) = Slot(tail, i - 1)
        BY <1>1, <1>8, <3>2 DEF Slot, Index
      <4> QED  BY <1>0, <1>6, <2>1, <4>1, <4>2
    <3>3. i <= Distance \/ i > Distance
      BY <1>1
    <3> QED  BY <3>1, <3>2, <3>3
  <2>3. /\ Contents \o data \in Seq(Byte \union {Junk})
        /\ Len(Contents \o data) = Distance + n
    <3>1. data \in Seq(Byte \union {Junk})
      OBVIOUS
    <3>2. Len(Contents \o data) = Len(Contents) + Len(data)
      BY <1>2, <3>1, Concatenated
    <3> QED  BY <1>0, <1>2, <3>1, <3>2
  <2>4. Contents' \in Seq(Byte \union {Junk}) /\ Len(Contents') = Distance + n
    BY <1>6, <2>1
  <2>5. Contents' = Contents \o data
    BY <2>2, <2>3, <2>4
  <2> QED  BY <1>0, <1>1, <1>8, <2>1, <2>5
<1> QED  BY <1>0, <1>1, <1>7, <1>8

\* The move of tail over n bytes drops the oldest n.
LEMMA TailMoves ==
  ASSUME RingOK, NEW n \in 1 .. Distance,
         tail' = Advance(tail, n), UNCHANGED <<buf, head>>
  PROVE  /\ RingOK' /\ Distance' = Distance - n
         /\ Contents' = SubSeq(Contents, n + 1, Len(Contents))
<1>1. /\ Size \in Nat \ {0} /\ head \in Index /\ tail \in Index
      /\ Distance \in 0 .. Size - 1 /\ n \in Nat /\ n >= 1
  BY RingAssumption, TotalIsDistance DEF RingOK
<1>2. /\ Contents \in Seq(Byte \union {Junk}) /\ Len(Contents) = Distance
      /\ \A i \in 1 .. Distance : Contents[i] = buf[Slot(tail, i - 1)]
  BY ContentsAreStored DEF ContentsFromTail
<1>3. tail' = Slot(tail, n) /\ tail' \in Index
  BY <1>1, ModIsSlot DEF Advance
<1>4. RingOK'
  BY <1>3 DEF RingOK
<1>5. /\ Contents' \in Seq(Byte \union {Junk}) /\ Len(Contents') = Distance'
      /\ \A i \in 1 .. Distance' : Contents'[i] = buf[Slot(tail', i - 1)]
  <2>1. ContentsFromTail'
    BY <1>4, ContentsAreStored, PTL
  <2> QED  BY <2>1 DEF ContentsFromTail, Slot
<1>6. Distance' = Distance - n
  BY <1>1, <1>3 DEF Distance, Slot, Index
<1>7. /\ SubSeq(Contents, n + 1, Len(Contents)) \in Seq(Byte \union {Junk})
      /\ Len(SubSeq(Contents, n + 1, Len(Contents))) = Distance - n
      /\ \A i \in 1 .. Distance - n :
           SubSeq(Contents, n + 1, Len(Contents))[i] = Contents[i + n]
  BY <1>1, <1>2
<1>8. ASSUME NEW i \in 1 .. Distance - n PROVE Contents'[i] = Contents[i + n]
  <2>1. i + n \in 1 .. Distance /\ Slot(tail', i - 1) = Slot(tail, (i + n) - 1)
    BY <1>1, <1>3 DEF Slot, Index
  <2> QED  BY <1>2, <1>5, <1>6, <2>1
<1>9. Contents' = SubSeq(Contents, n + 1, Len(Contents))
  BY <1>5, <1>6, <1>7, <1>8
<1> QED  BY <1>4, <1>6, <1>9

-----------------------------------------------------------------------------
LEMMA InitStep == RingInit => RingTypeOK /\ Fifo!Init
<1> SUFFICES ASSUME RingInit PROVE RingTypeOK /\ Fifo!Init
  OBVIOUS
<1> USE DEF RingInit
<1>1. RingTypeOK
  BY RingAssumption DEF RingTypeOK, Index
<1>2. Distance = 0
  BY RingAssumption DEF Distance
<1>3. Contents = << >>
  BY <1>1, <1>2, ContentsAreStored DEF ContentsFromTail, RingTypeOK, RingOK
<1> QED  BY <1>1, <1>3 DEF Fifo!Init

LEMMA PushStep ==
  ASSUME RingTypeOK, NEW data \in Blocks, ring_buffer_push(data)
  PROVE  RingTypeOK' /\ (Fifo!Refuse(data) \/ Fifo!Push(data) \/ Fifo!Fill(data))
<1> DEFINE n == Len(data)
<1>1. /\ Size \in Nat \ {0} /\ head \in Index /\ tail \in Index
      /\ get_total_elements = Distance /\ Distance \in 0 .. Size - 1
      /\ head = Slot(tail, Distance)
  BY RingAssumption, TotalIsDistance DEF RingTypeOK
<1>2. /\ Contents \in Seq(Byte \union {Junk}) /\ Len(Contents) = Distance
      /\ \A i \in 1 .. Distance : Contents[i] = buf[Slot(tail, i - 1)]
  BY ContentsAreStored DEF ContentsFromTail, RingTypeOK, RingOK
<1>3. n \in Nat /\ n >= 1 /\ data \in Seq(Byte)
  BY <1>1, BlockIsSeq
<1>4. ret' = <<"push", n, n <= get_free_space>> /\ tail' = tail /\ out' = out
  BY Zenon DEF ring_buffer_push
<1>5. CASE n + Distance > Size
  <2>1. (n <= get_free_space) = FALSE
    BY <1>1, <1>3, <1>5 DEF get_free_space
  <2>2. buf' = buf /\ head' = head
    BY <2>1 DEF ring_buffer_push
  <2>ret. ret' = <<"push", n, FALSE>>
    BY <1>4, <2>1, Zenon
  <2>typ. ret' \in Results
    BY <1>3, <2>ret, ResultTyped
  <2>3. Contents' = Contents
    BY <1>4, <2>2 DEF Contents, Stored, get_total_elements
  <2>4. RingTypeOK'
    BY <1>3, <1>4, <2>2, <2>typ DEF RingTypeOK, Results
  <2>5. Fifo!Refuse(data)
    <3>1. Len(Contents) + n > Size
      BY <1>1, <1>2, <1>3, <1>5
    <3> QED  BY <1>4, <2>3, <2>ret, <3>1 DEF Fifo!Refuse
  <2> QED  BY <2>4, <2>5
<1>6. CASE n + Distance <= Size
  <2>1. (n <= get_free_space) = TRUE
    BY <1>1, <1>3, <1>6 DEF get_free_space
  <2>2. buf' = Written(data) /\ head' = Advance(head, n)
    BY <2>1, Zenon DEF ring_buffer_push
  <2>ret. ret' = <<"push", n, TRUE>>
    BY <1>4, <2>1, Zenon
  <2>typ. ret' \in Results
    BY <1>3, <2>ret, ResultTyped
  <2>3. head' = Slot(head, n) /\ head' \in Index
    <3>1. n \in 0 .. Size
      BY <1>1, <1>3, <1>6
    <3> QED  BY <1>1, <2>2, <3>1, ModIsSlot DEF Advance
  <2>4. /\ buf' \in [Index -> Byte \union {Junk}]
        /\ \A j \in 1 .. n : buf'[Slot(head, j - 1)] = data[j]
        /\ \A i \in 1 .. Distance : buf'[Slot(tail, i - 1)] = buf[Slot(tail, i - 1)]
    BY <1>6, <2>2, WrittenSlots DEF RingTypeOK, RingOK
  <2>5. RingTypeOK' /\ RingOK /\ RingOK'
    BY <1>1, <1>3, <1>4, <2>3, <2>4, <2>typ DEF RingTypeOK, RingOK, Results
  <2>6. /\ n + Distance = Size => Contents' = << >>
        /\ n + Distance < Size => Contents' = Contents \o data
    <3>1. n \in 1 .. Size - Distance
      BY <1>1, <1>3, <1>6
    <3> QED  BY <1>3, <1>4, <2>2, <2>4, <2>5, <3>1, HeadMoves
  <2>7. CASE n + Distance = Size
    <3>1. Len(Contents) + n = Size
      BY <1>1, <1>2, <1>3, <2>7
    <3> QED  BY <1>4, <2>5, <2>6, <2>7, <2>ret, <3>1 DEF Fifo!Fill
  <2>8. CASE n + Distance < Size
    <3>1. Len(Contents) + n < Size
      BY <1>1, <1>2, <1>3, <2>8
    <3> QED  BY <1>4, <2>5, <2>6, <2>8, <2>ret, <3>1 DEF Fifo!Push
  <2> QED  BY <1>1, <1>3, <1>6, <2>7, <2>8
<1> QED  BY <1>1, <1>3, <1>5, <1>6

LEMMA PopStep ==
  ASSUME RingTypeOK, NEW n \in 1 .. Size + 1, ring_buffer_pop(n)
  PROVE  RingTypeOK' /\ (Fifo!Pop(n) \/ Fifo!PopTooMany(n))
<1>1. /\ Size \in Nat \ {0} /\ head \in Index /\ tail \in Index
      /\ get_total_elements = Distance /\ Distance \in 0 .. Size - 1
      /\ n \in Nat /\ n >= 1
  BY RingAssumption, TotalIsDistance DEF RingTypeOK
<1>2. /\ Contents \in Seq(Byte \union {Junk}) /\ Len(Contents) = Distance
      /\ \A i \in 1 .. Distance : Contents[i] = buf[Slot(tail, i - 1)]
  BY ContentsAreStored DEF ContentsFromTail, RingTypeOK, RingOK
<1>3. ret' = <<"pop", n, n <= get_total_elements>> /\ buf' = buf /\ head' = head
  BY Zenon DEF ring_buffer_pop
<1>4. CASE n > Distance
  <2>1. (n <= get_total_elements) = FALSE
    BY <1>1, <1>4
  <2>tail. tail' = tail /\ out' = out
    BY <2>1 DEF ring_buffer_pop
  <2>ret. ret' = <<"pop", n, FALSE>>
    BY <1>3, <2>1, Zenon
  <2>typ. ret' \in Results
    BY <1>1, <2>ret, ResultTyped
  <2>2. Contents' = Contents
    BY <1>3, <2>tail DEF Contents, Stored, get_total_elements
  <2>3. RingTypeOK'
    BY <1>1, <1>3, <2>tail, <2>typ DEF RingTypeOK, Results
  <2> QED  BY <1>2, <1>4, <2>2, <2>3, <2>tail, <2>ret DEF Fifo!PopTooMany
<1>5. CASE n <= Distance
  <2>fits. (n <= get_total_elements) = TRUE
    BY <1>1, <1>5
  <2>1. out' = Read(n) /\ tail' = Advance(tail, n)
    BY <2>fits, Zenon DEF ring_buffer_pop
  <2>ret. ret' = <<"pop", n, TRUE>>
    BY <1>3, <2>fits, Zenon
  <2>typ. ret' \in Results
    BY <1>1, <2>ret, ResultTyped
  <2>2. n \in 1 .. Distance /\ n \in 0 .. Size
    BY <1>1, <1>5
  <2>3. tail' = Slot(tail, n) /\ tail' \in Index
    BY <1>1, <2>1, <2>2, ModIsSlot DEF Advance
  <2>ok. RingOK
    BY DEF RingTypeOK, RingOK
  <2>4. out' = SubSeq(Contents, 1, n) /\ out' \in Seq(Byte \union {Junk})
    BY <2>1, <2>2, <2>ok, ReadIsPrefix
  <2>5. RingTypeOK'
    BY <1>1, <1>3, <2>3, <2>4, <2>typ DEF RingTypeOK, Results
  <2>6. Contents' = SubSeq(Contents, n + 1, Len(Contents))
    BY <1>3, <2>1, <2>2, <2>ok, TailMoves
  <2> QED  BY <1>2, <1>5, <2>4, <2>5, <2>6, <2>ret DEF Fifo!Pop
<1> QED  BY <1>1, <1>4, <1>5

LEMMA RingStep ==
  RingTypeOK /\ [RingNext]_rvars => RingTypeOK' /\ [Fifo!Next]_<<Contents, out, ret>>
<1> SUFFICES ASSUME RingTypeOK, [RingNext]_rvars
             PROVE  RingTypeOK' /\ [Fifo!Next]_<<Contents, out, ret>>
  OBVIOUS
<1>1. ASSUME NEW data \in Blocks, ring_buffer_push(data)
      PROVE  RingTypeOK' /\ Fifo!Next
  <2>1. PICK n \in 1 .. Size + 1 : data \in [1 .. n -> Byte]
    BY DEF Blocks
  <2>2. RingTypeOK' /\ (Fifo!Refuse(data) \/ Fifo!Push(data) \/ Fifo!Fill(data))
    BY <1>1, PushStep
  <2> QED  BY <2>1, <2>2 DEF Fifo!Next
<1>2. ASSUME NEW n \in 1 .. Size + 1, ring_buffer_pop(n)
      PROVE  RingTypeOK' /\ Fifo!Next
  <2>1. RingTypeOK' /\ (Fifo!Pop(n) \/ Fifo!PopTooMany(n))
    BY <1>2, PopStep
  <2> QED  BY <2>1 DEF Fifo!Next
<1>3. CASE UNCHANGED rvars
  BY <1>3 DEF rvars, RingTypeOK, Contents, Stored, get_total_elements
<1> QED  BY <1>1, <1>2, <1>3 DEF RingNext

-----------------------------------------------------------------------------
\* For every size, the indices of a ring buffer stay inside it.
THEOREM RingTypeCorrect == RingSpec => []RingTypeOK
<1>1. RingInit => RingTypeOK
  BY InitStep
<1>2. RingTypeOK /\ [RingNext]_rvars => RingTypeOK'
  BY RingStep
<1> QED  BY <1>1, <1>2, PTL DEF RingSpec

\* For every size and every alphabet, the ring buffer implements the byte FIFO.
THEOREM RingImplementsFifo == RingSpec => ImplementsFifo
<1>1. RingInit => Fifo!Init
  BY InitStep
<1>2. RingTypeOK /\ [RingNext]_rvars => [Fifo!Next]_<<Contents, out, ret>>
  BY RingStep
<1> QED  BY <1>1, <1>2, RingTypeCorrect, PTL DEF RingSpec, ImplementsFifo, Fifo!Spec
=============================================================================

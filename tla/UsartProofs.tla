----------------------------- MODULE UsartProofs -----------------------------
(***************************************************************************)
(* The transmitter of the USART driver sends what it accepted, and its     *)
(* receiver delivers what it kept, for every size of the two ring buffers  *)
(* and all bytes.  The facts about the ring are those of RingBufferProofs. *)
(***************************************************************************)
EXTENDS Usart, TLAPS

Ring == INSTANCE RingBufferProofs WITH Byte <- TxByte, Size <- TxSize, Junk <- None,
          buf <- tx_buf, head <- tx_head, tail <- tx_tail, out <- << >>, ret <- << >>

\* The block of a write in progress fits, and once copied is in the ring after head.
Staged ==
  /\ pc \in {"w_copy", "w_head"} =>
       data \in Ring!Blocks /\ Len(data) + Ring!Distance <= TxSize
  /\ pc = "w_head" =>
       \A j \in 1 .. Len(data) : tx_buf[Ring!Slot(tx_head, j - 1)] = data[j]

\* A handler that saw TXE has TDR to itself until it has written it.
Snapshot == /\ "TXE" \notin flags
            /\ isr \in {"rxne", "txe"} /\ "TXE" \in status => TDR = None

\* The inductive invariant of the transmitter.
SentInv == /\ Ring!RingOK /\ Ring!Contents \in Seq(TxByte)
           /\ TDR \in TxByte \union {None} /\ shift \in TxByte \union {None}
           /\ Staged /\ Snapshot
           /\ owed \in Seq(TxByte) /\ filled \in BOOLEAN
           /\ ~filled => owed = OnTheWay \o Ring!Contents

-----------------------------------------------------------------------------
(* Sequences. *)

LEMMA HeldTyped ==
  ASSUME NEW S, NEW r \in S \union {None}
  PROVE  Held(r) \in Seq(S)
  BY DEF Held

LEMMA EmptyJoin ==
  ASSUME NEW S, NEW s \in Seq(S)
  PROVE  << >> \o s = s /\ s \o << >> = s
  OBVIOUS

LEMMA Associative ==
  ASSUME NEW s \in Seq(TxByte), NEW t \in Seq(TxByte), NEW u \in Seq(TxByte)
  PROVE  (s \o t) \o u = s \o (t \o u)
  OBVIOUS

LEMMA TailJoin ==
  ASSUME NEW S, NEW x \in S, NEW s \in Seq(S)
  PROVE  Tail(<<x>> \o s) = s
  OBVIOUS

LEMMA HeadJoin ==
  ASSUME NEW S, NEW s \in Seq(S), s # << >>
  PROVE  /\ s = <<s[1]>> \o SubSeq(s, 2, Len(s))
         /\ SubSeq(s, 2, Len(s)) \in Seq(S) /\ s[1] \in S
  OBVIOUS

-----------------------------------------------------------------------------
(* The ring of the transmitter. *)

LEMMA SameRing ==
  /\ Tx!Contents = Ring!Contents
  /\ Tx!get_total_elements = Ring!get_total_elements
  /\ \A d : Tx!Written(d) = Ring!Written(d)
  /\ \A i, n : Tx!Advance(i, n) = Ring!Advance(i, n)
  BY DEF Tx!Contents, Ring!Contents, Tx!Stored, Ring!Stored, Tx!get_total_elements,
         Ring!get_total_elements, Tx!Written, Ring!Written, Tx!Advance, Ring!Advance,
         Tx!FirstSegment, Ring!FirstSegment, Tx!Index, Ring!Index

LEMMA RingContents == Ring!RingOK => Ring!ContentsFromTail
  BY UsartAssumption, Ring!ContentsAreStored

LEMMA RingFacts ==
  ASSUME SentInv
  PROVE  /\ TxSize \in Nat \ {0} /\ tx_head \in 0 .. TxSize - 1 /\ tx_tail \in 0 .. TxSize - 1
         /\ Tx!get_total_elements = Ring!Distance /\ Ring!Distance \in 0 .. TxSize - 1
         /\ Len(Ring!Contents) = Ring!Distance
         /\ \A i \in 1 .. Ring!Distance :
              Ring!Contents[i] = tx_buf[Ring!Slot(tx_tail, i - 1)]
<1>1. TxSize \in Nat \ {0} /\ tx_head \in Ring!Index /\ tx_tail \in Ring!Index
  BY UsartAssumption DEF SentInv, Ring!RingOK
<1>2. Tx!get_total_elements = Ring!Distance /\ Ring!Distance \in 0 .. TxSize - 1
  BY <1>1, UsartAssumption, SameRing, Ring!TotalIsDistance
<1>3. Ring!ContentsFromTail
  BY RingContents DEF SentInv
<1> QED  BY <1>1, <1>2, <1>3 DEF Ring!Index, Ring!ContentsFromTail

-----------------------------------------------------------------------------
(* The steps. *)

\* What the properties of the transmitter depend on.
transmitter == <<tx_buf, tx_head, tx_tail, TDR, shift, owed, filled>>

LEMMA TransmitterUnchanged ==
  ASSUME SentInv, UNCHANGED transmitter, Staged', Snapshot'
  PROVE  SentInv'
<1>1. Ring!RingOK' /\ Ring!Contents' = Ring!Contents /\ OnTheWay' = OnTheWay
  BY DEF transmitter, SentInv, Ring!RingOK, Ring!Contents, Ring!Stored,
         Ring!get_total_elements, OnTheWay
<1> QED  BY <1>1 DEF SentInv, transmitter

LEMMA StagedUnchanged ==
  ASSUME Staged, UNCHANGED <<tx_buf, tx_head, tx_tail, pc, data>>
  PROVE  Staged'
  BY DEF Staged, Ring!Distance, Ring!Slot

LEMMA InitSentInv == UsartInit => SentInv
<1> SUFFICES ASSUME UsartInit PROVE SentInv
  OBVIOUS
<1>1. TxSize \in Nat \ {0} /\ tx_head = 0 /\ tx_tail = 0
  BY UsartAssumption DEF UsartInit
<1>2. Ring!RingOK
  BY <1>1 DEF UsartInit, Ring!RingOK, Ring!Index
<1>3. Ring!ContentsFromTail /\ Ring!Distance = 0
  BY <1>1, <1>2, UsartAssumption, Ring!ContentsAreStored DEF Ring!Distance
<1>4. Ring!Contents = << >>
  BY <1>3 DEF Ring!ContentsFromTail
<1>5. OnTheWay = << >> /\ owed = << >> /\ filled = FALSE
  BY DEF UsartInit, OnTheWay, Held
<1>6. Staged /\ Snapshot
  BY DEF UsartInit, Staged, Snapshot
<1>7. TDR = None /\ shift = None
  BY DEF UsartInit
<1>8. << >> \in Seq(TxByte) /\ << >> \o << >> = << >>
  BY EmptyJoin
<1>9. Ring!Contents \in Seq(TxByte) /\ owed \in Seq(TxByte) /\ filled \in BOOLEAN
      /\ owed = OnTheWay \o Ring!Contents
  BY <1>4, <1>5, <1>8
<1> QED  BY <1>2, <1>6, <1>7, <1>9 DEF SentInv

\* The steps that leave the transmitter and the write in progress alone.
LEMMA OthersKeep ==
  ASSUME SentInv,
         \/ \E b \in RxByte : Arrive(b)
         \/ LineIdle \/ Pend \/ usart_irq \/ usart_handle_rxne \/ usart_handle_tc
         \/ usart_handle_ore \/ usart_handle_idle
  PROVE  SentInv'
<1>1. UNCHANGED transmitter /\ UNCHANGED <<tx_buf, tx_head, tx_tail, pc, data>>
  BY DEF Arrive, LineIdle, Pend, usart_irq, usart_handle_rxne, usart_handle_tc,
         usart_handle_ore, usart_handle_idle, Discard, transmitter, caller, tx, line, hist
<1>2. Staged'
  BY <1>1, StagedUnchanged DEF SentInv
<1>3. "TXE" \notin flags'
  <2>1. "TXE" \notin flags
    BY DEF SentInv, Snapshot
  <2> QED  BY <2>1 DEF Arrive, LineIdle, Pend, usart_irq, usart_handle_rxne,
                       usart_handle_tc, usart_handle_ore, usart_handle_idle, Discard, line
<1>4. Snapshot'
  <2>1. CASE usart_irq
    <3>1. status' = Raised /\ TDR' = TDR
      BY <2>1 DEF usart_irq, line
    <3>2. "TXE" \in Raised => TDR = None
      BY DEF SentInv, Snapshot, Raised
    <3> QED  BY <1>3, <3>1, <3>2 DEF Snapshot
  <2>2. CASE usart_handle_rxne
    <3>1. isr = "rxne" /\ status' = status \ {"RXNE"} /\ TDR' = TDR
      BY <2>2 DEF usart_handle_rxne
    <3> QED  BY <1>3, <3>1 DEF Snapshot, SentInv
  <2>3. CASE usart_handle_tc \/ usart_handle_ore \/ usart_handle_idle
    <3>1. isr' \notin {"rxne", "txe"}
      BY <2>3 DEF usart_handle_tc, usart_handle_ore, usart_handle_idle
    <3> QED  BY <1>3, <3>1 DEF Snapshot
  <2>4. CASE (\E b \in RxByte : Arrive(b)) \/ LineIdle \/ Pend
    <3>1. isr' = isr /\ status' = status /\ TDR' = TDR
      BY <2>4 DEF Arrive, LineIdle, Pend, nvic, line
    <3> QED  BY <1>3, <3>1 DEF Snapshot, SentInv
  <2> QED  BY <2>1, <2>2, <2>3, <2>4
<1> QED  BY <1>1, <1>2, <1>4, TransmitterUnchanged

\* The steps of the caller outside the copy and the store to head.
LEMMA CallerKeeps ==
  ASSUME SentInv,
         EnableTxe \/ DisableTcie \/ TestCount \/ CopyFirst \/ CopySecond \/ Consume
           \/ set_rx_int
           \/ \E n \in 1 .. RxSize : usart_read_async(n)
  PROVE  SentInv'
<1>1. /\ UNCHANGED transmitter /\ pc' \notin {"w_copy", "w_head"}
      /\ UNCHANGED <<isr, status, flags>>
  BY DEF EnableTxe, DisableTcie, TestCount, CopyFirst, CopySecond, Consume, set_rx_int,
         usart_read_async, Goto, Update, transmitter, tx, line, nvic, hist
<1>2. Staged'
  BY <1>1 DEF Staged
<1>3. Snapshot'
  BY <1>1 DEF SentInv, Snapshot, transmitter
<1> QED  BY <1>1, <1>2, <1>3, TransmitterUnchanged

LEMMA WriteKeeps ==
  ASSUME SentInv, NEW n \in 1 .. TxSize, NEW d \in [1 .. n -> TxByte], usart_write_async(d)
  PROVE  SentInv'
<1>1. /\ UNCHANGED transmitter /\ UNCHANGED <<isr, status, flags>>
      /\ pc' = "w_copy" /\ data' = d
      /\ Len(d) <= Tx!get_free_space
  BY DEF usart_write_async, Goto, transmitter, tx, line, nvic, hist
<1>2. TxSize \in Nat /\ Ring!Distance \in Nat /\ Tx!get_total_elements = Ring!Distance
  BY RingFacts
<1>3. d \in Ring!Blocks
  <2>1. n \in 1 .. TxSize + 1
    BY <1>2
  <2> QED  BY <2>1 DEF Ring!Blocks
<1>4. Len(d) = n /\ n \in Nat
  BY <1>2
<1>5. Len(d) + Ring!Distance <= TxSize
  BY <1>1, <1>2, <1>4 DEF Tx!get_free_space
<1>6. Ring!Distance' = Ring!Distance
  BY <1>1 DEF transmitter, Ring!Distance
<1>7. Staged'
  BY <1>1, <1>3, <1>5, <1>6 DEF Staged, Ring!Blocks
<1>8. Snapshot'
  BY <1>1 DEF SentInv, Snapshot, transmitter
<1> QED  BY <1>1, <1>7, <1>8, TransmitterUnchanged

LEMMA CopyKeeps == ASSUME SentInv, CopyIn PROVE SentInv'
<1>1. /\ pc = "w_copy" /\ pc' = "w_head" /\ tx_buf' = Ring!Written(data)
      /\ UNCHANGED <<data, tx_head, tx_tail, TDR, shift, owed, filled, isr, status, flags>>
  BY SameRing DEF CopyIn, Goto, line, nvic, hist
<1>2. data \in Ring!Blocks /\ Len(data) + Ring!Distance <= TxSize
  BY <1>1 DEF SentInv, Staged
<1>3. /\ Ring!Written(data) \in [Ring!Index -> TxByte \union {None}]
      /\ \A j \in 1 .. Len(data) : Ring!Written(data)[Ring!Slot(tx_head, j - 1)] = data[j]
      /\ \A i \in 1 .. Ring!Distance :
           Ring!Written(data)[Ring!Slot(tx_tail, i - 1)] = tx_buf[Ring!Slot(tx_tail, i - 1)]
  BY <1>2, UsartAssumption, Ring!WrittenSlots DEF SentInv
<1>4. Ring!RingOK' /\ Ring!Distance' = Ring!Distance
  BY <1>1, <1>3 DEF SentInv, Ring!RingOK, Ring!Distance, Ring!Index
<1>5. Ring!ContentsFromTail /\ Ring!ContentsFromTail'
  <2>1. Ring!RingOK' => Ring!ContentsFromTail'
    BY RingContents, PTL
  <2> QED  BY <1>4, <2>1, RingContents DEF SentInv
<1>6. Ring!Contents' = Ring!Contents
  <2> DEFINE D == TxByte \union {None}
  <2>1. /\ Ring!Contents \in Seq(D) /\ Len(Ring!Contents) = Ring!Distance
        /\ \A i \in 1 .. Ring!Distance :
             Ring!Contents[i] = tx_buf[Ring!Slot(tx_tail, i - 1)]
    BY <1>5 DEF Ring!ContentsFromTail
  <2>2. /\ Ring!Contents' \in Seq(D) /\ Len(Ring!Contents') = Ring!Distance
        /\ \A i \in 1 .. Ring!Distance :
             Ring!Contents'[i] = tx_buf'[Ring!Slot(tx_tail, i - 1)]
    BY <1>1, <1>4, <1>5 DEF Ring!ContentsFromTail, Ring!Slot
  <2>3. \A i \in 1 .. Ring!Distance : Ring!Contents'[i] = Ring!Contents[i]
    BY <1>1, <1>3, <2>1, <2>2
  <2> QED  BY <2>1, <2>2, <2>3
<1>7. Staged'
  BY <1>1, <1>2, <1>3, <1>4 DEF Staged, Ring!Blocks, Ring!Slot
<1>8. Snapshot' /\ OnTheWay' = OnTheWay
  BY <1>1 DEF SentInv, Snapshot, OnTheWay
<1> QED  BY <1>1, <1>4, <1>6, <1>7, <1>8 DEF SentInv

\* The store to head.
LEMMA PublishKeeps == ASSUME SentInv, Publish PROVE SentInv'
<1>1. /\ pc = "w_head" /\ pc' = "w_txeie" /\ tx_head' = Ring!Advance(tx_head, Len(data))
      /\ filled' = (filled \/ tx_head' = tx_tail)
      /\ owed' = IF filled THEN << >> ELSE owed \o data
      /\ UNCHANGED <<tx_buf, tx_tail, TDR, shift, isr, status, flags>>
  BY SameRing DEF Publish, Goto, line, nvic
<1>2. /\ data \in Ring!Blocks /\ Len(data) + Ring!Distance <= TxSize
      /\ \A j \in 1 .. Len(data) : tx_buf[Ring!Slot(tx_head, j - 1)] = data[j]
  BY <1>1 DEF SentInv, Staged
<1>3. data \in Seq(TxByte) /\ Len(data) \in 1 .. TxSize + 1
  BY <1>2, UsartAssumption, Ring!BlockIsSeq
<1>4. PICK n \in Nat : n = Len(data)
  BY <1>3
<1>5. /\ TxSize \in Nat \ {0} /\ Ring!Distance \in 0 .. TxSize - 1
      /\ n \in 1 .. TxSize - Ring!Distance
  BY <1>2, <1>3, <1>4, RingFacts
<1>6. Ring!RingOK'
  <2>1. /\ Ring!Advance(tx_head, n) = Ring!Slot(tx_head, n)
        /\ Ring!Slot(tx_head, n) \in Ring!Index
    <3>1. n \in 0 .. TxSize /\ tx_head \in Ring!Index
      BY <1>5 DEF SentInv, Ring!RingOK
    <3> QED  BY <3>1, UsartAssumption, Ring!ModIsSlot DEF Ring!Advance
  <2> QED  BY <1>1, <1>4, <2>1 DEF SentInv, Ring!RingOK
<1>7. /\ n + Ring!Distance = TxSize => tx_head' = tx_tail /\ Ring!Contents' = << >>
      /\ n + Ring!Distance < TxSize =>
           tx_head' # tx_tail /\ Ring!Contents' = Ring!Contents \o data
  <2>1. \A i \in 1 .. Ring!Distance :
          tx_buf'[Ring!Slot(tx_tail, i - 1)] = tx_buf[Ring!Slot(tx_tail, i - 1)]
    BY <1>1
  <2>2. \A j \in 1 .. Len(data) : tx_buf'[Ring!Slot(tx_head, j - 1)] = data[j]
    BY <1>1, <1>2
  <2> QED  BY <1>1, <1>3, <1>4, <1>5, <1>6, <2>1, <2>2, UsartAssumption, Ring!HeadMoves
           DEF SentInv
<1>8. OnTheWay' = OnTheWay /\ OnTheWay \in Seq(TxByte)
  BY <1>1, HeldTyped DEF SentInv, OnTheWay
<1>9. Ring!Contents' \in Seq(TxByte) /\ (~filled' => owed' = OnTheWay \o Ring!Contents')
  <2>1. CASE n + Ring!Distance = TxSize
    <3>1. << >> \in Seq(TxByte)
      OBVIOUS
    <3> QED  BY <1>1, <1>7, <2>1, <3>1
  <2>2. CASE n + Ring!Distance < TxSize
    <3>1. /\ Ring!Contents \in Seq(TxByte) /\ Ring!Contents' = Ring!Contents \o data
          /\ ~filled' => owed = OnTheWay \o Ring!Contents /\ owed' = owed \o data
      BY <1>1, <1>7, <2>2 DEF SentInv
    <3>2. Ring!Contents \o data \in Seq(TxByte)
      BY <1>3, <3>1
    <3>3. (OnTheWay \o Ring!Contents) \o data = OnTheWay \o (Ring!Contents \o data)
      BY <1>3, <1>8, <3>1, Associative, Zenon
    <3> QED  BY <1>8, <3>1, <3>2, <3>3
  <2> QED  BY <1>5, <2>1, <2>2
<1>11. owed' \in Seq(TxByte) /\ filled' \in BOOLEAN
  <2>1. owed \in Seq(TxByte) /\ filled \in BOOLEAN
    BY DEF SentInv
  <2>2. owed \o data \in Seq(TxByte) /\ << >> \in Seq(TxByte)
    BY <1>3, <2>1
  <2> QED  BY <1>1, <2>1, <2>2
<1>10. Staged' /\ Snapshot'
  BY <1>1 DEF SentInv, Staged, Snapshot
<1> QED  BY <1>1, <1>6, <1>8, <1>9, <1>10, <1>11 DEF SentInv

LEMMA ShiftKeeps == ASSUME SentInv, Shift PROVE SentInv'
<1>1. /\ shift = None /\ TDR # None /\ shift' = TDR /\ TDR' = None
      /\ UNCHANGED <<tx_buf, tx_head, tx_tail, owed, filled, pc, data, isr, status, flags>>
  BY DEF Shift, caller, tx, nvic, hist
<1>2. OnTheWay' = OnTheWay
  <2>1. Held(TDR) = <<TDR>> /\ Held(shift) = << >> /\ Held(shift)' = <<TDR>> /\ Held(TDR)' = << >>
    BY <1>1 DEF Held
  <2>2. <<TDR>> \in Seq(TxByte)
    BY <1>1 DEF SentInv
  <2> QED  BY <2>1, <2>2, EmptyJoin DEF OnTheWay
<1>3. Ring!RingOK' /\ Ring!Contents' = Ring!Contents
  BY <1>1 DEF SentInv, Ring!RingOK, Ring!Contents, Ring!Stored, Ring!get_total_elements
<1>4. Staged' /\ Snapshot'
  BY <1>1, StagedUnchanged DEF SentInv, Snapshot
<1> QED  BY <1>1, <1>2, <1>3, <1>4 DEF SentInv

LEMMA SentKeeps == ASSUME SentInv, Sent PROVE SentInv'
<1>1. /\ shift # None /\ shift' = None /\ owed' = IF filled THEN << >> ELSE Tail(owed)
      /\ filled' = (filled /\ ~(TDR = None /\ tx_head = tx_tail))
      /\ UNCHANGED <<tx_buf, tx_head, tx_tail, TDR, pc, data, isr, status>>
      /\ "TXE" \notin flags'
  BY DEF Sent, caller, tx, nvic, SentInv, Snapshot
<1>2. OnTheWay' = Held(TDR) /\ OnTheWay = <<shift>> \o Held(TDR)
  <2>1. Held(TDR) \in Seq(TxByte) /\ Held(TDR)' = Held(TDR) /\ Held(shift)' = << >>
    BY <1>1, HeldTyped DEF SentInv, Held
  <2> QED  BY <1>1, <2>1, EmptyJoin DEF OnTheWay, Held
<1>3. ASSUME ~filled PROVE owed' = Held(TDR) \o Ring!Contents /\ owed' \in Seq(TxByte)
  <2>1. Held(TDR) \in Seq(TxByte) /\ <<shift>> \in Seq(TxByte) /\ shift \in TxByte
    BY <1>1, HeldTyped DEF SentInv
  <2>2. owed = <<shift>> \o (Held(TDR) \o Ring!Contents)
    BY <1>2, <1>3, <2>1, Associative DEF SentInv
  <2>3. Held(TDR) \o Ring!Contents \in Seq(TxByte)
    BY <2>1 DEF SentInv
  <2> QED  BY <1>1, <1>3, <2>1, <2>2, <2>3, TailJoin
<1>4. ASSUME filled, ~filled' PROVE Held(TDR) \o Ring!Contents = << >>
  <2>1. TDR = None /\ tx_head = tx_tail
    BY <1>1, <1>4
  <2>2. Ring!Distance = 0 /\ Len(Ring!Contents) = 0
    BY <2>1, RingFacts DEF Ring!Distance
  <2>3. Ring!Contents = << >>
    BY <2>2 DEF SentInv
  <2> QED  BY <2>1, <2>3 DEF Held
<1>5. owed' \in Seq(TxByte) /\ filled' \in BOOLEAN
  <2>1. << >> \in Seq(TxByte)
    OBVIOUS
  <2> QED  BY <1>1, <1>3, <2>1
<1>6. ~filled' => owed' = OnTheWay' \o Ring!Contents
  BY <1>1, <1>2, <1>3, <1>4
<1>7. Ring!RingOK' /\ Ring!Contents' = Ring!Contents
  BY <1>1 DEF SentInv, Ring!RingOK, Ring!Contents, Ring!Stored, Ring!get_total_elements
<1>8. Staged' /\ Snapshot'
  BY <1>1, StagedUnchanged DEF SentInv, Snapshot
<1> QED  BY <1>1, <1>5, <1>6, <1>7, <1>8 DEF SentInv

LEMMA TxeKeeps == ASSUME SentInv, usart_handle_txe PROVE SentInv'
<1> DEFINE c == Ring!Contents
<1>1. /\ isr = "txe" /\ isr' = "tc"
      /\ UNCHANGED <<tx_buf, tx_head, shift, owed, filled, pc, data>>
      /\ "TXE" \notin flags'
  BY DEF usart_handle_txe, caller, hist, SentInv, Snapshot
<1>2. Snapshot'
  BY <1>1 DEF Snapshot
<1>3. CASE ~("TXE" \in status /\ Tx!get_total_elements >= 1)
  <2>1. UNCHANGED <<TDR, tx_tail>>
    BY <1>3 DEF usart_handle_txe
  <2>2. UNCHANGED transmitter /\ Staged'
    BY <1>1, <2>1, StagedUnchanged DEF SentInv, transmitter
  <2> QED  BY <1>2, <2>2, TransmitterUnchanged
<1>4. CASE "TXE" \in status /\ Tx!get_total_elements >= 1
  <2>1. /\ TDR = None /\ TDR' = Tx!Read(1)[1]
        /\ tx_tail' = Ring!Advance(tx_tail, 1)
    BY <1>1, <1>4, SameRing DEF usart_handle_txe, SentInv, Snapshot
  <2>2. /\ TxSize \in Nat \ {0} /\ tx_tail \in 0 .. TxSize - 1
        /\ 1 \in 1 .. Ring!Distance /\ Ring!Distance \in Nat
        /\ Len(c) = Ring!Distance /\ c[1] = tx_buf[Ring!Slot(tx_tail, 1 - 1)]
    BY <1>4, RingFacts
  <2>3. /\ c \in Seq(TxByte) /\ c # << >>
        /\ c = <<c[1]>> \o SubSeq(c, 2, Len(c))
        /\ SubSeq(c, 2, Len(c)) \in Seq(TxByte) /\ c[1] \in TxByte
    <3>1. c \in Seq(TxByte)
      BY DEF SentInv
    <3>2. c # << >>
      BY <2>2
    <3> QED  BY <3>1, <3>2, HeadJoin
  <2>4. TDR' = c[1]
    <3>1. Tx!FirstSegment(tx_tail, 1) = 1
      BY <2>2 DEF Tx!FirstSegment
    <3>2. Tx!Read(1)[1] = tx_buf[tx_tail + 1 - 1]
      BY <3>1 DEF Tx!Read
    <3>3. tx_tail + 1 - 1 = tx_tail /\ Ring!Slot(tx_tail, 1 - 1) = tx_tail
      BY <2>2 DEF Ring!Slot
    <3> QED  BY <2>1, <2>2, <3>2, <3>3
  <2>5. /\ Ring!RingOK' /\ Ring!Distance' = Ring!Distance - 1
        /\ Ring!Contents' = SubSeq(c, 1 + 1, Len(c))
    BY <1>1, <2>1, <2>2, UsartAssumption, Ring!TailMoves DEF SentInv
  <2>6. ASSUME ~filled PROVE owed' = OnTheWay' \o Ring!Contents'
    <3>1. Held(shift) \in Seq(TxByte) /\ Held(TDR) = << >> /\ Held(TDR)' = <<c[1]>>
      BY <2>1, <2>3, <2>4, HeldTyped, UsartAssumption DEF SentInv, Held
    <3>2. OnTheWay = Held(shift) /\ OnTheWay' = Held(shift) \o <<c[1]>>
      BY <1>1, <3>1, EmptyJoin DEF OnTheWay, Held
    <3>3. owed = Held(shift) \o (<<c[1]>> \o SubSeq(c, 2, Len(c)))
      BY <2>3, <2>6, <3>2 DEF SentInv
    <3>4. <<c[1]>> \in Seq(TxByte)
      BY <2>3
    <3>5. owed = (Held(shift) \o <<c[1]>>) \o SubSeq(c, 2, Len(c))
      <4>1. SubSeq(c, 2, Len(c)) \in Seq(TxByte)
        BY <2>3
      <4>2. (Held(shift) \o <<c[1]>>) \o SubSeq(c, 2, Len(c))
              = Held(shift) \o (<<c[1]>> \o SubSeq(c, 2, Len(c)))
        BY <3>1, <3>4, <4>1, Associative, Zenon
      <4> QED  BY <3>3, <4>2
    <3> QED  BY <1>1, <2>5, <3>2, <3>5
  <2>7. Staged'
    <3>1. ASSUME data \in Ring!Blocks, Len(data) + Ring!Distance <= TxSize
          PROVE  Len(data) + Ring!Distance' <= TxSize
      <4>1. PICK n \in Nat : n = Len(data)
        BY <3>1, UsartAssumption, Ring!BlockIsSeq
      <4> QED  BY <2>2, <2>5, <3>1, <4>1
    <3> QED  BY <1>1, <3>1 DEF SentInv, Staged, Ring!Slot, Ring!Blocks
  <2>8. TDR' \in TxByte \union {None} /\ Ring!Contents' \in Seq(TxByte)
    BY <2>3, <2>4, <2>5
  <2> QED  BY <1>1, <1>2, <2>5, <2>6, <2>7, <2>8 DEF SentInv
<1> QED  BY <1>3, <1>4

LEMMA StepKeepsSentInv == SentInv /\ [UsartNext]_uvars => SentInv'
<1> SUFFICES ASSUME SentInv, [UsartNext]_uvars PROVE SentInv'
  OBVIOUS
<1>1. CASE UNCHANGED uvars
  <2>1. UNCHANGED transmitter /\ UNCHANGED <<pc, data, flags, isr, status>>
    BY <1>1 DEF uvars, transmitter, caller, tx, line, nvic, hist
  <2>2. Staged' /\ Snapshot'
    BY <2>1, StagedUnchanged DEF SentInv, Snapshot, transmitter
  <2> QED  BY <2>1, <2>2, TransmitterUnchanged
<1>2. CASE Environment
  BY <1>2, OthersKeep, ShiftKeeps, SentKeeps DEF Environment
<1>3. CASE Handler
  BY <1>3, OthersKeep, TxeKeeps DEF Handler
<1>4. CASE InCall
  BY <1>4, CallerKeeps, CopyKeeps, PublishKeeps DEF InCall
<1>5. CASE Call
  BY <1>5, CallerKeeps, WriteKeeps DEF Call
<1> QED  BY <1>1, <1>2, <1>3, <1>4, <1>5 DEF UsartNext

LEMMA SentInvariant == UsartSpec => []SentInv
<1>1. UsartInit => SentInv
  BY InitSentInv
<1>2. SentInv /\ [UsartNext]_uvars => SentInv'
  BY StepKeepsSentInv
<1> QED  BY <1>1, <1>2, PTL DEF UsartSpec

\* For every size of the ring buffer and all bytes, what the accepted writes put in
\* the ring leaves the driver once and in order, wherever usart_irq interrupts them,
\* but from a write that fills the ring exactly until the line has sent what it left.
THEOREM SendsInOrder == UsartSpec => []SentInOrder
<1>1. SentInv => SentInOrder
  BY SameRing DEF SentInv, SentInOrder
<1> QED  BY <1>1, SentInvariant, PTL

-----------------------------------------------------------------------------
(* The transmit interrupt. *)

\* A value of CR1 that the caller has loaded has TXEIE as well: its store loses nothing.
EnabledInv ==
  /\ TransmitterEnabled
  /\ tx_head # tx_tail /\ pc # "w_txeie" /\ reg # None => "TXEIE" \in reg

\* The steps that leave the ring's indices, TXEIE and the caller alone.
LEMMA TxeieKept ==
  ASSUME EnabledInv, UNCHANGED <<tx_head, tx_tail, pc, reg>>,
         "TXEIE" \in CR1 => "TXEIE" \in CR1'
  PROVE  EnabledInv'
  BY DEF EnabledInv, TransmitterEnabled

\* An empty ring has nothing to send.
LEMMA NothingInEmptyRing == SentInv /\ tx_head = tx_tail => Tx!get_total_elements = 0
<1> SUFFICES ASSUME SentInv, tx_head = tx_tail PROVE Tx!get_total_elements = 0
  OBVIOUS
<1>1. Tx!get_total_elements = Ring!Distance /\ tx_head \in 0 .. TxSize - 1 /\ TxSize \in Nat
  BY RingFacts
<1> QED  BY <1>1 DEF Ring!Distance

\* The handler turns the interrupt off only with the last byte.
LEMMA TxeKeepsEnabled ==
  ASSUME SentInv, EnabledInv, usart_handle_txe
  PROVE  EnabledInv'
<1>1. UNCHANGED <<tx_head, pc, reg>>
  BY DEF usart_handle_txe, caller
<1>2. CASE ~("TXE" \in status /\ Tx!get_total_elements >= 1)
  BY <1>1, <1>2, TxeieKept DEF usart_handle_txe
<1>3. CASE "TXE" \in status /\ Tx!get_total_elements >= 1
  <2>1. tx_head # tx_tail
    BY <1>3, NothingInEmptyRing
  <2>2. tx_head # tx_tail' => CR1' = CR1
    BY <1>3 DEF usart_handle_txe, LastByte
  <2> QED  BY <1>1, <2>1, <2>2 DEF EnabledInv, TransmitterEnabled
<1> QED  BY <1>2, <1>3

\* The two halves of an update of CR1 that turns TXEIE on, or leaves it.
LEMMA UpdateKeepsEnabled ==
  ASSUME EnabledInv, NEW here, NEW there, NEW on, NEW off, Update(here, there, on, off),
         \/ here = "w_txeie" /\ "TXEIE" \in on
         \/ here # "w_txeie" /\ there # "w_txeie" /\ "TXEIE" \notin off
  PROVE  EnabledInv'
<1>1. UNCHANGED <<tx_head, tx_tail>>
  BY DEF Update, tx
<1>2. CASE Goto(here, here) /\ reg' = CR1 /\ UNCHANGED CR1
  BY <1>1, <1>2 DEF EnabledInv, TransmitterEnabled, Goto
<1>3. CASE Goto(here, there) /\ reg # None /\ reg' = None /\ CR1' = (reg \ off) \union on
  BY <1>1, <1>3 DEF EnabledInv, TransmitterEnabled, Goto
<1> QED  BY <1>2, <1>3 DEF Update

LEMMA SetRxIntKeepsEnabled == ASSUME EnabledInv, set_rx_int PROVE EnabledInv'
<1>1. CASE Update("rx_on", "main", {"RXNEIE"}, {})
  BY <1>1, UpdateKeepsEnabled
<1>2. CASE Update("rx_off", "main", {}, {"RXNEIE"})
  BY <1>2, UpdateKeepsEnabled
<1>3. CASE /\ \E l \in {"rx_on", "rx_off"} : Goto("main", l)
           /\ UNCHANGED <<data, reg, tx, rx, CR1, line, nvic, hist>>
  BY <1>3 DEF EnabledInv, TransmitterEnabled, Goto, tx
<1> QED  BY <1>1, <1>2, <1>3 DEF set_rx_int

LEMMA StepKeepsEnabledInv == SentInv /\ EnabledInv /\ [UsartNext]_uvars => EnabledInv'
<1> SUFFICES ASSUME SentInv, EnabledInv, [UsartNext]_uvars PROVE EnabledInv'
  OBVIOUS
<1>1. CASE UNCHANGED uvars
  BY <1>1, TxeieKept DEF uvars, caller, tx
<1>2. CASE Environment
  BY <1>2, TxeieKept DEF Environment, Shift, Sent, Arrive, LineIdle, Pend, caller, tx
<1>3. CASE Handler
  <2>1. CASE usart_handle_txe
    BY <2>1, TxeKeepsEnabled
  <2>2. CASE usart_irq \/ usart_handle_rxne \/ usart_handle_tc
    BY <2>2, TxeieKept DEF usart_irq, usart_handle_rxne, usart_handle_tc, caller, tx
  <2>3. CASE usart_handle_ore \/ usart_handle_idle
    BY <2>3, TxeieKept DEF usart_handle_ore, usart_handle_idle, Discard, caller, tx
  <2> QED  BY <1>3, <2>1, <2>2, <2>3 DEF Handler
<1>4. CASE InCall \/ Call
  <2>1. CASE EnableTxe \/ DisableTcie
    <3>1. CASE EnableTxe
      BY <3>1, UpdateKeepsEnabled DEF EnableTxe
    <3>2. CASE DisableTcie
      BY <3>2, UpdateKeepsEnabled DEF DisableTcie
    <3> QED  BY <2>1, <3>1, <3>2
  <2>2. CASE set_rx_int
    BY <2>2, SetRxIntKeepsEnabled
  <2>3. CASE CopyIn \/ Publish \/ TestCount \/ CopyFirst \/ CopySecond \/ Consume
    BY <2>3 DEF CopyIn, Publish, TestCount, CopyFirst, CopySecond, Consume, Goto,
                EnabledInv, TransmitterEnabled, tx
  <2>4. ASSUME NEW d, usart_write_async(d) PROVE EnabledInv'
    BY <2>4 DEF usart_write_async, Goto, EnabledInv, TransmitterEnabled, tx
  <2>5. ASSUME NEW n, usart_read_async(n) PROVE EnabledInv'
    BY <2>5 DEF usart_read_async, Goto, EnabledInv, TransmitterEnabled, tx
  <2> QED  BY <1>4, <2>1, <2>2, <2>3, <2>4, <2>5 DEF InCall, Call
<1> QED  BY <1>1, <1>2, <1>3, <1>4 DEF UsartNext

\* For every size of the two rings and all bytes, the transmit interrupt is on as long
\* as the ring holds bytes, whatever usart_irq does between the load and the store of
\* the caller's updates of CR1.
THEOREM StaysEnabled == UsartSpec => []TransmitterEnabled
<1>1. UsartInit => EnabledInv
  BY DEF UsartInit, EnabledInv, TransmitterEnabled
<1>2. SentInv /\ EnabledInv /\ [UsartNext]_uvars => EnabledInv'
  BY StepKeepsEnabledInv
<1>3. EnabledInv => TransmitterEnabled
  BY DEF EnabledInv
<1> QED  BY <1>1, <1>2, <1>3, SentInvariant, PTL DEF UsartSpec

-----------------------------------------------------------------------------
(* The bytes received. *)

RxRing == INSTANCE RingBufferProofs WITH Byte <- RxByte, Size <- RxSize, Junk <- None,
            buf <- rx_buf, head <- rx_head, tail <- rx_tail, out <- << >>, ret <- << >>

\* The handler that saw RXNE has not read RDR yet.
WillStore == isr = "rxne" /\ "RXNE" \in status

\* A byte that the handler will discard rather than store has been counted as lost.
DiscardsLost == WillDiscard /\ ~WillStore /\ RDR # None => lost

\* A read in progress has copied the first Copied bytes of the ring.
Reading == {"r_test", "r_first", "r_second", "r_tail"}

Copied == IF pc = "r_tail" THEN Len(data) ELSE IF pc = "r_second" THEN Segment ELSE 0

ReadAhead ==
  pc \in Reading => /\ data \in Seq(RxByte \union {None}) /\ Len(data) \in 1 .. RxSize
                    /\ ~lost => /\ Len(data) <= Len(RxRing!Contents)
                                /\ \A i \in 1 .. Copied : data[i] = RxRing!Contents[i]

\* The inductive invariant of the bytes received.
ReadInv == /\ RxRing!RingOK /\ RDR \in RxByte \union {None} /\ "RXNE" \notin flags
           /\ WillStore => RDR # None
           /\ DiscardsLost /\ ReadAhead
           /\ ~lost => due = RxRing!Contents \o Held(RDR)

-----------------------------------------------------------------------------
LEMMA Joined ==
  ASSUME NEW S, NEW s \in Seq(S), NEW t \in Seq(S)
  PROVE  s \o t \in Seq(S) /\ Len(s \o t) = Len(s) + Len(t)
  OBVIOUS

LEMMA Extensional ==
  ASSUME NEW S, NEW s \in Seq(S), NEW t \in Seq(S), Len(s) = Len(t),
         \A i \in 1 .. Len(s) : s[i] = t[i]
  PROVE  s = t
  OBVIOUS

LEMMA SplitJoin ==
  ASSUME NEW S, NEW s \in Seq(S), NEW t \in Seq(S), NEW n \in 1 .. Len(s)
  PROVE  /\ SubSeq(s \o t, 1, n) = SubSeq(s, 1, n)
         /\ SubSeq(s \o t, n + 1, Len(s \o t)) = SubSeq(s, n + 1, Len(s)) \o t
<1>1. /\ Len(s) \in Nat /\ Len(t) \in Nat /\ Len(s \o t) = Len(s) + Len(t)
      /\ s \o t \in Seq(S) /\ n \in Nat
  OBVIOUS
<1>2. \A i \in 1 .. Len(s) : (s \o t)[i] = s[i]
  OBVIOUS
<1>3. \A i \in 1 .. Len(t) : (s \o t)[Len(s) + i] = t[i]
  OBVIOUS
<1>4. SubSeq(s \o t, 1, n) = SubSeq(s, 1, n)
  BY <1>1, <1>2
<1>5. PICK m \in Nat : m = Len(s)
  BY <1>1
<1>6. PICK k \in Nat : k = Len(t)
  BY <1>1
<1> DEFINE a == SubSeq(s \o t, n + 1, m + k)
           b == SubSeq(s, n + 1, m)
<1>7. a \in Seq(S) /\ Len(a) = m + k - n /\ \A i \in 1 .. m + k - n : a[i] = (s \o t)[i + n]
  BY <1>1, <1>5, <1>6
<1>8. b \in Seq(S) /\ Len(b) = m - n /\ \A i \in 1 .. m - n : b[i] = s[i + n]
  BY <1>1, <1>5
<1> HIDE DEF a, b
<1>9. b \o t \in Seq(S) /\ Len(b \o t) = m + k - n
  <2>1. b \o t \in Seq(S) /\ Len(b \o t) = Len(b) + Len(t)
    BY <1>8, Joined
  <2>2. (m - n) + k = m + k - n
    BY <1>1, <1>5, <1>6
  <2> QED  BY <1>6, <1>8, <2>1, <2>2
<1>10. ASSUME NEW i \in 1 .. m + k - n PROVE a[i] = (b \o t)[i]
  <2>1. CASE i <= m - n
    <3>1. i \in 1 .. m - n /\ i + n \in 1 .. m
      BY <1>1, <1>5, <2>1
    <3>2. (b \o t)[i] = b[i]
      BY <1>8, <3>1
    <3> QED  BY <1>2, <1>5, <1>7, <1>8, <3>1, <3>2
  <2>2. CASE i > m - n
    <3>1. i - (m - n) \in 1 .. k /\ m + (i - (m - n)) = i + n
      BY <1>1, <1>5, <2>2
    <3>2. (b \o t)[i] = t[i - (m - n)]
      BY <1>6, <1>8, <2>2, <3>1
    <3> QED  BY <1>3, <1>5, <1>6, <1>7, <3>1, <3>2
  <2>3. i <= m - n \/ i > m - n
    BY <1>1, <1>5
  <2> QED  BY <2>1, <2>2, <2>3
<1>11. a = b \o t
  BY <1>7, <1>9, <1>10, Extensional
<1> QED  BY <1>1, <1>4, <1>5, <1>6, <1>11 DEF a, b

LEMMA SameRxRing ==
  /\ Rx!Contents = RxRing!Contents
  /\ Rx!get_total_elements = RxRing!get_total_elements
  /\ \A d : Rx!Written(d) = RxRing!Written(d)
  /\ \A n : Rx!Read(n) = RxRing!Read(n)
  /\ \A i, n : Rx!Advance(i, n) = RxRing!Advance(i, n)
  BY DEF Rx!Contents, RxRing!Contents, Rx!Stored, RxRing!Stored, Rx!get_total_elements,
         RxRing!get_total_elements, Rx!Written, RxRing!Written, Rx!Advance, RxRing!Advance,
         Rx!Read, RxRing!Read, Rx!FirstSegment, RxRing!FirstSegment, Rx!Index, RxRing!Index

LEMMA RxRingContents == RxRing!RingOK => RxRing!ContentsFromTail
  BY UsartAssumption, RxRing!ContentsAreStored

LEMMA RxRingFacts ==
  ASSUME RxRing!RingOK
  PROVE  /\ RxSize \in Nat \ {0} /\ rx_head \in 0 .. RxSize - 1 /\ rx_tail \in 0 .. RxSize - 1
         /\ Rx!get_total_elements = RxRing!Distance
         /\ RxRing!Distance \in 0 .. RxSize - 1
         /\ RxRing!Contents \in Seq(RxByte \union {None})
         /\ Len(RxRing!Contents) = RxRing!Distance
<1>1. RxSize \in Nat \ {0} /\ rx_head \in RxRing!Index /\ rx_tail \in RxRing!Index
  BY UsartAssumption DEF RxRing!RingOK
<1>2. Rx!get_total_elements = RxRing!Distance /\ RxRing!Distance \in 0 .. RxSize - 1
  BY <1>1, UsartAssumption, SameRxRing, RxRing!TotalIsDistance
<1> QED  BY <1>1, <1>2, RxRingContents DEF RxRing!Index, RxRing!ContentsFromTail

\* Any number of steps leaves an index in the ring.
LEMMA RxIndexInRing ==
  ASSUME NEW i \in RxRing!Index, NEW n \in Nat
  PROVE  RxRing!Advance(i, n) \in RxRing!Index
<1>1. RxSize \in Nat \ {0} /\ i + n \in Int
  BY UsartAssumption DEF RxRing!Index
<1> QED  BY <1>1 DEF RxRing!Advance, RxRing!Index

\* What the properties of the receiver depend on.
receiver == <<rx_buf, rx_head, rx_tail, RDR, due, lost>>

LEMMA RxUnchanged ==
  ASSUME ReadInv, UNCHANGED receiver
  PROVE  /\ RxRing!RingOK' /\ RxRing!Contents' = RxRing!Contents
         /\ RDR' \in RxByte \union {None}
         /\ ~lost' => due' = RxRing!Contents' \o Held(RDR)'
  BY DEF receiver, ReadInv, RxRing!RingOK, RxRing!Contents, RxRing!Stored,
         RxRing!get_total_elements, Held

LEMMA ReadAheadUnchanged ==
  ASSUME ReadInv, UNCHANGED receiver, UNCHANGED <<pc, data>> \/ pc' \notin Reading
  PROVE  ReadAhead'
<1>1. RxRing!Contents' = RxRing!Contents
  BY RxUnchanged
<1>2. CASE UNCHANGED <<pc, data>>
  BY <1>1, <1>2 DEF ReadInv, ReadAhead, receiver, Copied, Segment, Rx!FirstSegment
<1>3. CASE pc' \notin Reading
  BY <1>3 DEF ReadAhead
<1> QED  BY <1>2, <1>3

LEMMA InitReadInv == UsartInit => ReadInv
<1> SUFFICES ASSUME UsartInit PROVE ReadInv
  OBVIOUS
<1>1. RxSize \in Nat \ {0} /\ rx_head = 0 /\ rx_tail = 0
  BY UsartAssumption DEF UsartInit
<1>2. RxRing!RingOK
  BY <1>1 DEF UsartInit, RxRing!RingOK, RxRing!Index
<1>3. RxRing!ContentsFromTail /\ RxRing!Distance = 0
  BY <1>1, <1>2, RxRingContents DEF RxRing!Distance
<1>4. RxRing!Contents = << >>
  BY <1>3 DEF RxRing!ContentsFromTail
<1>5. due = << >> /\ RDR = None /\ "RXNE" \notin flags /\ isr = "off" /\ pc = "main"
  BY DEF UsartInit
<1> QED  BY <1>2, <1>4, <1>5 DEF ReadInv, WillStore, DiscardsLost, WillDiscard, ReadAhead, Reading,
                                     Held

\* The steps that leave the receiver alone.
LEMMA ReceiverKept ==
  ASSUME ReadInv,
         \/ Shift \/ Sent \/ LineIdle \/ Pend
         \/ usart_irq \/ usart_handle_txe \/ usart_handle_tc
         \/ CopyIn \/ Publish \/ EnableTxe \/ DisableTcie \/ set_rx_int
         \/ \E n \in 1 .. TxSize : \E d \in [1 .. n -> TxByte] : usart_write_async(d)
  PROVE  ReadInv'
<1>1. UNCHANGED receiver
  BY DEF Shift, Sent, LineIdle, Pend, usart_irq, usart_handle_txe, usart_handle_tc, CopyIn,
         Publish, EnableTxe, DisableTcie, set_rx_int, Update, usart_write_async,
         rx, line, hist, receiver
<1>2. UNCHANGED <<pc, data>> \/ pc' \notin Reading
  BY DEF Reading, Shift, Sent, LineIdle, Pend, usart_irq, usart_handle_txe, usart_handle_tc, CopyIn,
         Publish, EnableTxe, DisableTcie, set_rx_int, Update, usart_write_async,
         Goto, caller
<1>3. "RXNE" \notin flags'
  <2>1. "RXNE" \notin flags
    BY DEF ReadInv
  <2> QED
    BY <2>1 DEF Shift, Sent, LineIdle, Pend, usart_irq, usart_handle_txe, usart_handle_tc,
                CopyIn, Publish, EnableTxe, DisableTcie, set_rx_int, Update,
                usart_write_async, line
<1>4. (WillStore' => RDR' # None) /\ DiscardsLost'
  <2>1. CASE usart_irq
    <3>1. status' = Raised /\ isr' = "rxne" /\ RDR' = RDR /\ lost' = lost
      BY <2>1 DEF usart_irq, line, hist
    <3>2. "RXNE" \in Raised <=> RDR # None
      BY DEF ReadInv, Raised
    <3> QED  BY <3>1, <3>2 DEF WillStore, DiscardsLost, WillDiscard
  <2>2. CASE usart_handle_txe \/ usart_handle_tc
    <3>1. /\ isr \in {"txe", "tc"} /\ isr' \in {"tc", "ore"}
          /\ status' \in {status \ {"TXE"}, status \ {"TC"}}
          /\ UNCHANGED <<RDR, lost>>
      BY <2>2 DEF usart_handle_txe, usart_handle_tc, hist
    <3> QED  BY <3>1 DEF ReadInv, WillStore, DiscardsLost, WillDiscard
  <2>3. CASE ~(usart_irq \/ usart_handle_txe \/ usart_handle_tc)
    <3>1. UNCHANGED <<isr, status, RDR, lost>>
      BY <1>1, <2>3 DEF Shift, Sent, LineIdle, Pend, CopyIn, Publish, EnableTxe,
                DisableTcie, set_rx_int, Update, usart_write_async, nvic, receiver
    <3> QED  BY <3>1 DEF ReadInv, WillStore, DiscardsLost, WillDiscard
  <2> QED  BY <2>1, <2>2, <2>3
<1> QED  BY <1>1, <1>2, <1>3, <1>4, RxUnchanged, ReadAheadUnchanged DEF ReadInv

LEMMA ArriveKeeps == ASSUME ReadInv, NEW b \in RxByte, Arrive(b) PROVE ReadInv'
<1>1. /\ UNCHANGED <<rx_buf, rx_head, rx_tail, pc, data, isr, status>>
      /\ b # None /\ "RXNE" \notin flags
  BY UsartAssumption DEF Arrive, rx, caller, nvic, ReadInv
<1>2. CASE RDR # None
  <2>1. UNCHANGED receiver /\ flags' = flags \union {"ORE"}
    BY <1>1, <1>2 DEF Arrive, receiver
  <2>2. "RXNE" \notin flags' /\ (WillStore' => RDR' # None) /\ DiscardsLost'
    BY <1>1, <2>1 DEF ReadInv, WillStore, DiscardsLost, WillDiscard, receiver
  <2> QED  BY <1>1, <2>1, <2>2, RxUnchanged, ReadAheadUnchanged DEF ReadInv
<1>3. CASE RDR = None
  <2>1. /\ RDR' = b /\ flags' = flags
        /\ RxRing!RingOK' /\ RxRing!Contents' = RxRing!Contents
    BY <1>1, <1>3 DEF Arrive, ReadInv, RxRing!RingOK, RxRing!Contents, RxRing!Stored,
                     RxRing!get_total_elements
  <2>2. CASE WillDiscard
    <3>1. lost' = TRUE
      BY <1>3, <2>2 DEF Arrive, Lose
    <3> QED  BY <1>1, <2>1, <3>1 DEF ReadInv, WillStore, DiscardsLost, ReadAhead
  <2>3. CASE ~WillDiscard
    <3>1. lost' = lost /\ (~lost => due' = Append(due, b))
      BY <1>3, <2>3 DEF Arrive
    <3>2. ~lost => due' = RxRing!Contents \o <<b>>
      <4>1. RxRing!Contents \in Seq(RxByte \union {None})
        BY RxRingFacts DEF ReadInv
      <4>2. ~lost => due = RxRing!Contents
        BY <1>3, <4>1, EmptyJoin DEF ReadInv, Held
      <4> QED  BY <3>1, <4>1, <4>2
    <3>3. DiscardsLost' /\ WillDiscard' = WillDiscard
      BY <1>1, <2>3 DEF DiscardsLost, WillDiscard
    <3>4. ReadAhead'
      BY <1>1, <2>1, <3>1 DEF ReadInv, ReadAhead, Copied, Segment, Rx!FirstSegment
    <3> QED  BY <1>1, <2>1, <3>1, <3>2, <3>3, <3>4 DEF ReadInv, WillStore, Held
  <2> QED  BY <2>2, <2>3
<1> QED  BY <1>2, <1>3

LEMMA RxneKeeps == ASSUME ReadInv, usart_handle_rxne PROVE ReadInv'
<1> DEFINE c == RxRing!Contents
           d == <<RDR>>
<1>1. /\ isr = "rxne" /\ isr' = "txe"
      /\ UNCHANGED <<rx_tail, pc, data, flags>> /\ status' = status \ {"RXNE"}
  BY DEF usart_handle_rxne, caller
<1>2. ~WillStore' /\ "RXNE" \notin flags'
  BY <1>1 DEF WillStore, ReadInv
<1>3. CASE "RXNE" \notin status
  <2>1. UNCHANGED receiver
    BY <1>1, <1>3 DEF usart_handle_rxne, receiver
  <2>2. DiscardsLost'
    BY <1>1, <1>3, <2>1 DEF ReadInv, DiscardsLost, WillDiscard, WillStore, receiver
  <2> QED  BY <1>1, <1>2, <2>1, <2>2, RxUnchanged, ReadAheadUnchanged DEF ReadInv
<1>4. CASE "RXNE" \in status
  <2>1. /\ RxSize \in Nat \ {0} /\ RxRing!Distance \in 0 .. RxSize - 1
        /\ Rx!get_total_elements = RxRing!Distance
        /\ c \in Seq(RxByte \union {None}) /\ Len(c) = RxRing!Distance
        /\ rx_head \in RxRing!Index
    BY RxRingFacts DEF ReadInv, RxRing!RingOK
  <2>2. 1 <= Rx!get_free_space
    BY <2>1 DEF Rx!get_free_space
  <2>3. /\ RDR \in RxByte /\ RDR' = None
        /\ rx_buf' = RxRing!Written(d) /\ rx_head' = RxRing!Advance(rx_head, 1)
        /\ rx_tail' = rx_tail
        /\ IF rx_head' = rx_tail THEN Lose ELSE UNCHANGED <<due, lost>>
    BY <1>1, <1>4, <2>2, SameRxRing DEF usart_handle_rxne, ReadInv, WillStore
  <2>4. d \in RxRing!Blocks /\ d \in Seq(RxByte) /\ Len(d) = 1
    <3>1. d \in [1 .. 1 -> RxByte] /\ 1 \in 1 .. RxSize + 1
      BY <2>1, <2>3
    <3> QED  BY <2>3, <3>1 DEF RxRing!Blocks
  <2>5. /\ rx_buf' \in [RxRing!Index -> RxByte \union {None}]
        /\ \A j \in 1 .. Len(d) : rx_buf'[RxRing!Slot(rx_head, j - 1)] = d[j]
        /\ \A i \in 1 .. RxRing!Distance :
             rx_buf'[RxRing!Slot(rx_tail, i - 1)] = rx_buf[RxRing!Slot(rx_tail, i - 1)]
    <3>1. Len(d) + RxRing!Distance <= RxSize
      BY <2>1, <2>4
    <3> QED  BY <2>3, <2>4, <3>1, UsartAssumption, RxRing!WrittenSlots DEF ReadInv
  <2>6. RxRing!RingOK'
    BY <2>1, <2>3, <2>5, RxIndexInRing DEF ReadInv, RxRing!RingOK, RxRing!Index
  <2>7. /\ Len(d) + RxRing!Distance = RxSize => rx_head' = rx_tail
        /\ Len(d) + RxRing!Distance < RxSize =>
             rx_head' # rx_tail /\ RxRing!Contents' = c \o d
    <3>1. Len(d) \in 1 .. RxSize - RxRing!Distance
      BY <2>1, <2>4
    <3>2. rx_head' = RxRing!Advance(rx_head, Len(d))
      BY <2>3, <2>4
    <3> QED  BY <2>3, <2>4, <2>5, <2>6, <3>1, <3>2, UsartAssumption, RxRing!HeadMoves DEF ReadInv
  <2>8. DiscardsLost'
    BY <2>3 DEF DiscardsLost
  <2>9. CASE rx_head' = rx_tail
    <3>1. lost' = TRUE
      BY <2>3, <2>9 DEF Lose
    <3> QED  BY <1>1, <1>2, <2>3, <2>6, <2>8, <3>1 DEF ReadInv, ReadAhead
  <2>10. CASE rx_head' # rx_tail
    <3>1. RxRing!Contents' = c \o d /\ lost' = lost /\ due' = due
      <4>1. Len(d) + RxRing!Distance < RxSize
        BY <2>1, <2>4, <2>7, <2>10
      <4> QED  BY <2>3, <2>7, <2>10, <4>1
    <3>2. ~lost => due' = RxRing!Contents' \o Held(RDR)'
      <4>1. Held(RDR) = d /\ Held(RDR)' = << >>
        BY <2>3, UsartAssumption DEF Held
      <4>2. c \o d \in Seq(RxByte \union {None})
        <5>1. d \in Seq(RxByte \union {None})
          BY <2>3
        <5> QED  BY <2>1, <5>1, Joined
      <4>3. (c \o d) \o << >> = c \o d
        BY <4>2, EmptyJoin
      <4> QED  BY <3>1, <4>1, <4>3 DEF ReadInv
    <3>3. ReadAhead'
      <4>1. Copied' = Copied
        BY <1>1 DEF Copied, Segment, Rx!FirstSegment
      <4>2. d \in Seq(RxByte \union {None})
        BY <2>3
      <4>3. /\ Len(c \o d) = Len(c) + Len(d)
            /\ \A i \in 1 .. Len(c) : (c \o d)[i] = c[i]
        BY <2>1, <4>2
      <4> SUFFICES ASSUME pc \in Reading, ~lost
                   PROVE  /\ Len(data) <= Len(c \o d)
                          /\ \A i \in 1 .. Copied : data[i] = (c \o d)[i]
        BY <1>1, <3>1, <4>1 DEF ReadInv, ReadAhead
      <4>4. /\ Len(data) \in 1 .. RxSize /\ Len(data) <= Len(c)
            /\ \A i \in 1 .. Copied : data[i] = c[i]
        BY DEF ReadInv, ReadAhead
      <4>5. Copied <= Len(data)
        <5>1. Len(data) \in Nat
          BY <2>1, <4>4
        <5>2. Segment <= Len(data) /\ 0 <= Len(data) /\ Len(data) <= Len(data)
          BY <2>1, <5>1 DEF Segment, Rx!FirstSegment, ReadInv, RxRing!RingOK, RxRing!Index
        <5> QED  BY <5>2 DEF Copied
      <4>6. Copied \in Int
        BY <2>1, <4>4 DEF Copied, Segment, Rx!FirstSegment, ReadInv, RxRing!RingOK, RxRing!Index
      <4>7. \A i \in 1 .. Copied : i \in 1 .. Len(c)
        BY <2>1, <4>4, <4>5, <4>6
      <4> QED  BY <2>1, <2>4, <4>3, <4>4, <4>7
    <3> QED  BY <1>1, <1>2, <2>3, <2>6, <2>8, <3>1, <3>2, <3>3 DEF ReadInv
  <2> QED  BY <2>9, <2>10
<1> QED  BY <1>3, <1>4

\* The two handlers that read RDR only to clear a flag.
LEMMA DiscardKeeps == ASSUME ReadInv, usart_handle_ore \/ usart_handle_idle PROVE ReadInv'
<1>1. PICK f \in {"ORE", "IDLE"} : /\ Discard(f)
                                   /\ isr = IF f = "ORE" THEN "ore" ELSE "idle"
                                   /\ isr' = IF f = "ORE" THEN "idle" ELSE "off"
                                   /\ f = "ORE" => status' = status \ {"ORE"}
  BY DEF usart_handle_ore, usart_handle_idle
<1>2. UNCHANGED <<rx_buf, rx_head, rx_tail, due, lost, pc, data>>
  BY <1>1 DEF Discard, rx, caller, hist
<1>3. "RXNE" \notin flags' /\ ~WillStore' /\ ~WillStore
  BY <1>1 DEF Discard, ReadInv, WillStore
<1>4. CASE f \in status /\ RDR # None
  <2>1. lost
    BY <1>1, <1>3, <1>4 DEF ReadInv, DiscardsLost, WillDiscard
  <2>2. RDR' = None /\ lost'
    BY <1>1, <1>2, <1>4, <2>1 DEF Discard
  <2>3. RxRing!RingOK'
    BY <1>2 DEF ReadInv, RxRing!RingOK
  <2> QED  BY <1>2, <1>3, <2>2, <2>3 DEF ReadInv, DiscardsLost, ReadAhead
<1>5. CASE ~(f \in status /\ RDR # None)
  <2>1. UNCHANGED receiver
    BY <1>1, <1>2, <1>5 DEF Discard, receiver
  <2>2. DiscardsLost'
    BY <1>1, <1>3, <2>1 DEF ReadInv, DiscardsLost, WillDiscard, receiver
  <2> QED  BY <1>2, <1>3, <2>1, <2>2, RxUnchanged, ReadAheadUnchanged DEF ReadInv
<1> QED  BY <1>4, <1>5

\* The steps of a read up to the store to tail.
LEMMA ReadStepKeeps ==
  ASSUME ReadInv, UNCHANGED receiver, UNCHANGED <<isr, status, flags>>, ReadAhead'
  PROVE  ReadInv'
<1>1. "RXNE" \notin flags' /\ (WillStore' => RDR' # None) /\ DiscardsLost'
  BY DEF ReadInv, WillStore, DiscardsLost, WillDiscard, receiver
<1> QED  BY <1>1, RxUnchanged DEF ReadInv

LEMMA ReadKeeps ==
  ASSUME ReadInv, NEW n \in 1 .. RxSize, usart_read_async(n)
  PROVE  ReadInv'
<1>1. /\ UNCHANGED receiver /\ UNCHANGED <<isr, status, flags>>
      /\ pc' = "r_test" /\ data' = [i \in 1 .. n |-> None] /\ n <= Rx!get_total_elements
  BY DEF usart_read_async, Goto, receiver, rx, line, nvic, hist
<1>2. /\ Rx!get_total_elements = Len(RxRing!Contents) /\ RxSize \in Nat
      /\ RxRing!Contents' = RxRing!Contents
  BY <1>1, RxRingFacts, RxUnchanged DEF ReadInv
<1>3. data' \in Seq(RxByte \union {None}) /\ Len(data') = n
  BY <1>1, <1>2
<1>4. Copied' = 0
  BY <1>1 DEF Copied
<1>5. ReadAhead'
  BY <1>1, <1>2, <1>3, <1>4 DEF ReadAhead
<1> QED  BY <1>1, <1>5, ReadStepKeeps

LEMMA TestKeeps == ASSUME ReadInv, TestCount PROVE ReadInv'
<1>1. /\ UNCHANGED receiver /\ UNCHANGED <<isr, status, flags>>
      /\ (pc = "r_test" /\ pc' = "r_first" /\ data' = data) \/ pc' = "main"
  BY DEF TestCount, Goto, receiver, rx, line, nvic, hist
<1>2. RxRing!Contents' = RxRing!Contents
  BY <1>1, RxUnchanged
<1>3. pc' = "r_first" => Copied' = Copied
  BY <1>1 DEF Copied
<1>4. ReadAhead'
  BY <1>1, <1>2, <1>3 DEF ReadInv, ReadAhead, Reading, receiver
<1> QED  BY <1>1, <1>4, ReadStepKeeps

\* The two blocks that a read copies.
LEMMA Segments ==
  ASSUME ReadInv, pc \in Reading
  PROVE  /\ RxSize \in Nat \ {0} /\ rx_tail \in 0 .. RxSize - 1 /\ Len(data) \in 1 .. RxSize
         /\ Segment \in 1 .. Len(data) /\ rx_tail + Segment <= RxSize
         /\ Segment < Len(data) => rx_tail + Segment = RxSize
         /\ \A i \in 1 .. Len(data) :
              IF i <= Segment
                THEN RxRing!Slot(rx_tail, i - 1) = rx_tail + i - 1 /\ rx_tail + i - 1 \in RxRing!Index
                ELSE RxRing!Slot(rx_tail, i - 1) = i - Segment - 1 /\ i - Segment - 1 \in RxRing!Index
         /\ DOMAIN data = 1 .. Len(data)
         /\ \A i \in 1 .. Len(data) : data[i] \in RxByte \union {None}
<1>1. /\ RxSize \in Nat \ {0} /\ rx_tail \in 0 .. RxSize - 1
      /\ data \in Seq(RxByte \union {None}) /\ Len(data) \in 1 .. RxSize
  BY RxRingFacts DEF ReadInv, ReadAhead
<1>2. PICK n \in 1 .. RxSize : n = Len(data)
  BY <1>1
<1>3. /\ Segment \in 1 .. n /\ rx_tail + Segment <= RxSize
      /\ Segment < n => rx_tail + Segment = RxSize
  BY <1>1, <1>2 DEF Segment, Rx!FirstSegment
<1>4. \A i \in 1 .. n :
        IF i <= Segment
          THEN RxRing!Slot(rx_tail, i - 1) = rx_tail + i - 1 /\ rx_tail + i - 1 \in RxRing!Index
          ELSE RxRing!Slot(rx_tail, i - 1) = i - Segment - 1 /\ i - Segment - 1 \in RxRing!Index
  BY <1>1, <1>3 DEF RxRing!Slot, RxRing!Index
<1>5. DOMAIN data = 1 .. Len(data) /\ \A i \in 1 .. Len(data) : data[i] \in RxByte \union {None}
  BY <1>1
<1> QED  BY <1>1, <1>2, <1>3, <1>4, <1>5

\* What is read from the slots of the ring is what it contains.
LEMMA SlotIsContents ==
  ASSUME ReadInv, pc \in Reading, ~lost, NEW i \in 1 .. Len(data)
  PROVE  rx_buf[RxRing!Slot(rx_tail, i - 1)] = RxRing!Contents[i]
<1>1. RxRing!ContentsFromTail
  BY RxRingContents DEF ReadInv
<1>2. /\ Len(data) <= Len(RxRing!Contents) /\ Len(RxRing!Contents) = RxRing!Distance
      /\ Len(data) \in Nat /\ RxRing!Distance \in Nat
  BY RxRingFacts, Segments DEF ReadInv, ReadAhead
<1>3. i \in 1 .. RxRing!Distance
  BY <1>2
<1> QED  BY <1>1, <1>3 DEF RxRing!ContentsFromTail

LEMMA CopyFirstKeeps == ASSUME ReadInv, CopyFirst PROVE ReadInv'
<1>1. /\ UNCHANGED receiver /\ UNCHANGED <<isr, status, flags>>
      /\ pc = "r_first" /\ pc' = "r_second"
      /\ data' = [i \in DOMAIN data |-> IF i <= Segment THEN rx_buf[rx_tail + i - 1] ELSE data[i]]
  BY DEF CopyFirst, Goto, receiver, rx, line, nvic, hist
<1>2. pc \in Reading /\ RxRing!Contents' = RxRing!Contents
  BY <1>1, RxUnchanged DEF Reading
<1>3. /\ RxSize \in Nat \ {0} /\ Len(data) \in 1 .. RxSize /\ Segment \in 1 .. Len(data)
      /\ DOMAIN data = 1 .. Len(data)
  BY <1>2, Segments
<1>4. ASSUME NEW i \in 1 .. Len(data) PROVE data'[i] \in RxByte \union {None}
  BY <1>1, <1>2, <1>3, <1>4, Segments DEF ReadInv, RxRing!RingOK
<1>5. data' \in Seq(RxByte \union {None}) /\ Len(data') = Len(data)
  <2>1. PICK n \in Nat : n = Len(data)
    <3>1. Len(data) \in Nat
      BY <1>3
    <3> QED  BY <3>1
  <2>2. DOMAIN data' = 1 .. n /\ data' \in [1 .. n -> RxByte \union {None}]
    BY <1>1, <1>3, <1>4, <2>1
  <2> QED  BY <2>1, <2>2
<1>6. Copied' = Segment
  BY <1>1, <1>5 DEF Copied, Segment, Rx!FirstSegment, receiver
<1>7. ASSUME ~lost, NEW i \in 1 .. Segment PROVE data'[i] = RxRing!Contents[i]
  <2>1. i \in 1 .. Len(data) /\ i <= Segment
    BY <1>3
  <2> QED  BY <1>1, <1>2, <1>3, <1>7, <2>1, Segments, SlotIsContents
<1>8. ReadAhead'
  BY <1>1, <1>2, <1>3, <1>5, <1>6, <1>7 DEF ReadInv, ReadAhead, receiver
<1> QED  BY <1>1, <1>8, ReadStepKeeps

LEMMA CopySecondKeeps == ASSUME ReadInv, CopySecond PROVE ReadInv'
<1>1. /\ UNCHANGED receiver /\ UNCHANGED <<isr, status, flags>>
      /\ pc = "r_second" /\ pc' = "r_tail"
      /\ data' = [i \in DOMAIN data |-> IF i <= Segment THEN data[i] ELSE rx_buf[i - Segment - 1]]
  BY DEF CopySecond, Goto, receiver, rx, line, nvic, hist
<1>2. pc \in Reading /\ RxRing!Contents' = RxRing!Contents
  BY <1>1, RxUnchanged DEF Reading
<1>3. /\ RxSize \in Nat \ {0} /\ Len(data) \in 1 .. RxSize /\ Segment \in 1 .. Len(data)
      /\ DOMAIN data = 1 .. Len(data)
  BY <1>2, Segments
<1>4. ASSUME NEW i \in 1 .. Len(data) PROVE data'[i] \in RxByte \union {None}
  BY <1>1, <1>2, <1>3, <1>4, Segments DEF ReadInv, RxRing!RingOK
<1>5. data' \in Seq(RxByte \union {None}) /\ Len(data') = Len(data)
  <2>1. PICK n \in Nat : n = Len(data)
    <3>1. Len(data) \in Nat
      BY <1>3
    <3> QED  BY <3>1
  <2>2. DOMAIN data' = 1 .. n /\ data' \in [1 .. n -> RxByte \union {None}]
    BY <1>1, <1>3, <1>4, <2>1
  <2> QED  BY <2>1, <2>2
<1>6. Copied' = Len(data) /\ Copied = Segment
  BY <1>1, <1>5 DEF Copied
<1>7. ASSUME ~lost, NEW i \in 1 .. Len(data) PROVE data'[i] = RxRing!Contents[i]
  <2>1. CASE i <= Segment
    <3>1. data[i] = RxRing!Contents[i]
      BY <1>2, <1>3, <1>6, <1>7, <2>1 DEF ReadInv, ReadAhead
    <3> QED  BY <1>1, <1>3, <2>1, <3>1
  <2>2. CASE ~(i <= Segment)
    BY <1>1, <1>2, <1>3, <1>7, <2>2, Segments, SlotIsContents
  <2> QED  BY <2>1, <2>2
<1>8. ReadAhead'
  BY <1>1, <1>2, <1>3, <1>5, <1>6, <1>7 DEF ReadInv, ReadAhead, receiver
<1> QED  BY <1>1, <1>8, ReadStepKeeps

LEMMA ConsumeKeeps == ASSUME ReadInv, Consume PROVE ReadInv'
<1> DEFINE c == RxRing!Contents
<1>1. /\ pc = "r_tail" /\ pc' = "main" /\ rx_tail' = RxRing!Advance(rx_tail, Len(data))
      /\ due' = IF lost THEN due ELSE SubSeq(due, Len(data) + 1, Len(due))
      /\ UNCHANGED <<rx_buf, rx_head, RDR, flags, isr, status, lost>>
  BY SameRxRing DEF Consume, Goto, line, nvic
<1>2. RxRing!RingOK'
  <2>1. Len(data) \in Nat
    BY <1>1 DEF ReadInv, ReadAhead, Reading
  <2> QED  BY <1>1, <2>1, RxIndexInRing DEF ReadInv, RxRing!RingOK, RxRing!Index
<1>3. "RXNE" \notin flags' /\ (WillStore' => RDR' # None) /\ DiscardsLost' /\ ReadAhead'
  BY <1>1 DEF ReadInv, WillStore, DiscardsLost, WillDiscard, ReadAhead, Reading
<1>4. ASSUME ~lost PROVE due' = RxRing!Contents' \o Held(RDR)'
  <2>1. /\ c \in Seq(RxByte \union {None}) /\ Len(c) = RxRing!Distance
        /\ RxRing!Distance \in Nat
    BY RxRingFacts DEF ReadInv
  <2>2. PICK n \in 1 .. Len(c) : n = Len(data)
    <3>1. Len(data) \in 1 .. RxSize /\ Len(data) <= Len(c)
      BY <1>1, <1>4 DEF ReadInv, ReadAhead, Reading
    <3> QED  BY <2>1, <3>1
  <2>3. RxRing!Contents' = SubSeq(c, n + 1, Len(c))
    BY <1>1, <2>1, <2>2, UsartAssumption, RxRing!TailMoves DEF ReadInv
  <2>4. Held(RDR) \in Seq(RxByte \union {None}) /\ Held(RDR)' = Held(RDR)
    <3>1. RDR \in (RxByte \union {None}) \union {None}
      BY DEF ReadInv
    <3> QED  BY <1>1, <3>1, HeldTyped DEF Held
  <2>5. SubSeq(c \o Held(RDR), n + 1, Len(c \o Held(RDR))) = SubSeq(c, n + 1, Len(c)) \o Held(RDR)
    BY <2>1, <2>4, SplitJoin
  <2> QED  BY <1>1, <1>4, <2>2, <2>3, <2>4, <2>5 DEF ReadInv
<1> QED  BY <1>1, <1>2, <1>3, <1>4 DEF ReadInv

LEMMA StepKeepsReadInv == ReadInv /\ [UsartNext]_uvars => ReadInv'
<1> SUFFICES ASSUME ReadInv, [UsartNext]_uvars PROVE ReadInv'
  OBVIOUS
<1>1. CASE UNCHANGED uvars
  <2>1. UNCHANGED receiver /\ UNCHANGED <<pc, data, flags, isr, status>>
    BY <1>1 DEF uvars, receiver, caller, rx, line, nvic, hist
  <2>2. (WillStore' => RDR' # None) /\ DiscardsLost' /\ "RXNE" \notin flags'
    BY <2>1 DEF ReadInv, WillStore, DiscardsLost, WillDiscard, receiver
  <2> QED  BY <2>1, <2>2, RxUnchanged, ReadAheadUnchanged DEF ReadInv
<1>2. CASE Environment
  BY <1>2, ReceiverKept, ArriveKeeps DEF Environment
<1>3. CASE Handler
  BY <1>3, ReceiverKept, RxneKeeps, DiscardKeeps DEF Handler
<1>4. CASE InCall
  BY <1>4, ReceiverKept, TestKeeps, CopyFirstKeeps, CopySecondKeeps, ConsumeKeeps DEF InCall
<1>5. CASE Call
  BY <1>5, ReceiverKept, ReadKeeps DEF Call
<1> QED  BY <1>1, <1>2, <1>3, <1>4, <1>5 DEF UsartNext

LEMMA ReadInvariant == UsartSpec => []ReadInv
<1>1. UsartInit => ReadInv
  BY InitReadInv
<1>2. ReadInv /\ [UsartNext]_uvars => ReadInv'
  BY StepKeepsReadInv
<1> QED  BY <1>1, <1>2, PTL DEF UsartSpec

\* For every size of the ring buffer and all bytes, what the receiver has not lost is
\* read once and in order, wherever usart_irq interrupts the read.
THEOREM ReadsInOrder == UsartSpec => []ReadInOrder
<1>1. ReadInv => ReadInOrder
  <2> SUFFICES ASSUME ReadInv, ~lost
               PROVE  /\ due = Rx!Contents \o Held(RDR)
                      /\ pc = "r_tail" => data = SubSeq(due, 1, Len(data))
    BY DEF ReadInOrder
  <2>1. due = RxRing!Contents \o Held(RDR)
    BY DEF ReadInv
  <2>2. ASSUME pc = "r_tail" PROVE data = SubSeq(due, 1, Len(data))
    <3>1. /\ data \in Seq(RxByte \union {None}) /\ Len(data) \in 1 .. RxSize
          /\ Len(data) <= Len(RxRing!Contents)
          /\ \A i \in 1 .. Len(data) : data[i] = RxRing!Contents[i]
      BY <2>2 DEF ReadInv, ReadAhead, Reading, Copied
    <3>2. RDR \in (RxByte \union {None}) \union {None}
      BY DEF ReadInv
    <3>3. Held(RDR) \in Seq(RxByte \union {None}) /\ RxRing!Contents \in Seq(RxByte \union {None})
      BY <3>2, HeldTyped, RxRingFacts DEF ReadInv
    <3>4. PICK n \in 1 .. Len(RxRing!Contents) : n = Len(data)
      BY <3>1, <3>3
    <3>5. SubSeq(due, 1, n) = SubSeq(RxRing!Contents, 1, n)
      BY <2>1, <3>3, SplitJoin
    <3>6. /\ SubSeq(RxRing!Contents, 1, n) \in Seq(RxByte \union {None})
          /\ Len(SubSeq(RxRing!Contents, 1, n)) = n
          /\ \A i \in 1 .. n : SubSeq(RxRing!Contents, 1, n)[i] = RxRing!Contents[i]
      BY <3>3
    <3>7. data = SubSeq(RxRing!Contents, 1, n)
      BY <3>1, <3>4, <3>6, Extensional
    <3> QED  BY <3>4, <3>5, <3>7
  <2> QED  BY <2>1, <2>2, SameRxRing
<1> QED  BY <1>1, ReadInvariant, PTL

-----------------------------------------------------------------------------
(* The types. *)

\* The processor and the registers of the peripheral.
ControlOK ==
  /\ CR1 \subseteq Bits /\ reg \in (SUBSET Bits) \union {None}
  /\ flags \subseteq {"TC", "ORE", "IDLE"}
  /\ status \subseteq {"TC", "ORE", "IDLE", "TXE", "RXNE"}
  /\ pending \in BOOLEAN /\ isr \in {"off", "rxne", "txe", "tc", "ore", "idle"}
  /\ pc \in Labels

\* A read never reaches a slot that no byte was stored in: either all slots have had a
\* byte, or head has not wrapped yet and tail, with the read in progress, is behind it.
SlotsStored ==
  \/ \A i \in RxRing!Index : rx_buf[i] \in RxByte
  \/ /\ rx_tail <= rx_head /\ \A i \in 0 .. rx_head - 1 : rx_buf[i] \in RxByte
     /\ pc \in Reading \ {"r_test"} => rx_tail + Len(data) <= rx_head

CopiedStored == pc \in {"r_second", "r_tail"} => \A i \in 1 .. Copied : data[i] \in RxByte

Datum == TxByte \union RxByte \union {None}

BytesOK == /\ data \in Seq(Datum) /\ rx_sem \in {0, 1}
           /\ due \in Seq(RxByte) /\ lost \in BOOLEAN
           /\ SlotsStored /\ CopiedStored

LEMMA UpdateTyped ==
  ASSUME ControlOK, NEW here, NEW there \in Labels, NEW on \in SUBSET Bits, NEW off,
         Update(here, there, on, off)
  PROVE  ControlOK'
<1>1. UNCHANGED <<flags, status, pending, isr>>
  BY DEF Update, line, nvic
<1>2. CASE Goto(here, here) /\ reg' = CR1 /\ UNCHANGED CR1
  BY <1>1, <1>2 DEF ControlOK, Goto
<1>3. CASE Goto(here, there) /\ reg # None /\ reg' = None /\ CR1' = (reg \ off) \union on
  <2>1. reg \in SUBSET Bits
    BY <1>3 DEF ControlOK
  <2> QED  BY <1>1, <1>3, <2>1 DEF ControlOK, Goto
<1> QED  BY <1>2, <1>3 DEF Update

LEMMA SetRxIntTyped == ASSUME ControlOK, set_rx_int PROVE ControlOK'
<1>1. ASSUME NEW l \in {"rx_on", "rx_off"}, Goto("main", l),
             UNCHANGED <<reg, CR1, line, nvic>>
      PROVE  ControlOK'
  BY <1>1 DEF ControlOK, Goto, line, nvic, Labels
<1>2. CASE Update("rx_on", "main", {"RXNEIE"}, {})
  BY <1>2, UpdateTyped DEF Labels, Bits
<1>3. CASE Update("rx_off", "main", {}, {"RXNEIE"})
  BY <1>3, UpdateTyped DEF Labels, Bits
<1> QED  BY <1>1, <1>2, <1>3 DEF set_rx_int

LEMMA EnvironmentTyped == ASSUME ControlOK, Environment PROVE ControlOK'
<1>1. ASSUME NEW b \in RxByte, Arrive(b) PROVE ControlOK'
  BY <1>1 DEF ControlOK, Arrive, caller, nvic
<1>2. CASE Shift \/ Sent \/ LineIdle
  BY <1>2 DEF ControlOK, Shift, Sent, LineIdle, caller, nvic
<1>3. CASE Pend
  BY <1>3 DEF ControlOK, Pend, caller, line
<1> QED  BY <1>1, <1>2, <1>3 DEF Environment

LEMMA HandlerTyped == ASSUME ControlOK, Handler PROVE ControlOK'
<1>1. CASE usart_irq
  BY <1>1 DEF ControlOK, usart_irq, Raised, caller, line
<1>2. CASE usart_handle_rxne
  BY <1>2 DEF ControlOK, usart_handle_rxne, caller
<1>3. CASE usart_handle_txe
  <2>1. /\ CR1' \in {CR1, (CR1 \ {"TXEIE"}) \union {"TCIE"}}
        /\ flags' \in {flags, flags \ {"TC"}} /\ isr' = "tc"
        /\ status' = status \ {"TXE"}
        /\ UNCHANGED <<reg, pending, pc>>
    BY <1>3 DEF usart_handle_txe, caller
  <2> QED  BY <2>1 DEF ControlOK, Bits
<1>4. CASE usart_handle_tc
  BY <1>4 DEF ControlOK, usart_handle_tc, caller
<1>5. CASE usart_handle_ore
  BY <1>5 DEF ControlOK, usart_handle_ore, Discard, caller
<1>6. CASE usart_handle_idle
  <2>1. pending' \in BOOLEAN
    BY <1>6 DEF usart_handle_idle, Level
  <2> QED  BY <1>6, <2>1 DEF ControlOK, usart_handle_idle, Discard, caller
<1> QED  BY <1>1, <1>2, <1>3, <1>4, <1>5, <1>6 DEF Handler

LEMMA ControlTyped == ControlOK /\ [UsartNext]_uvars => ControlOK'
<1> SUFFICES ASSUME ControlOK, [UsartNext]_uvars PROVE ControlOK'
  OBVIOUS
<1>1. CASE UNCHANGED uvars
  BY <1>1 DEF ControlOK, uvars, caller, line, nvic
<1>2. CASE CopyIn \/ Publish \/ TestCount \/ CopyFirst \/ CopySecond \/ Consume
  BY <1>2 DEF ControlOK, CopyIn, Publish, TestCount, CopyFirst, CopySecond, Consume, Goto,
              Labels, line, nvic
<1>3. CASE EnableTxe \/ DisableTcie
  BY <1>3, UpdateTyped DEF EnableTxe, DisableTcie, Labels, Bits
<1>4. CASE set_rx_int
  BY <1>4, SetRxIntTyped
<1>5. ASSUME NEW d, usart_write_async(d) PROVE ControlOK'
  BY <1>5 DEF ControlOK, usart_write_async, Goto, Labels, line, nvic
<1>6. ASSUME NEW n, usart_read_async(n) PROVE ControlOK'
  BY <1>6 DEF ControlOK, usart_read_async, Goto, Labels, line, nvic
<1> QED  BY <1>1, <1>2, <1>3, <1>4, <1>5, <1>6, EnvironmentTyped, HandlerTyped
         DEF UsartNext, InCall, Call

-----------------------------------------------------------------------------
\* Only the steps below change what the receiver stored, holds or reads.
LEMMA StoredUnchanged ==
  ASSUME SlotsStored, CopiedStored, UNCHANGED <<rx_buf, rx_head, rx_tail>>,
         UNCHANGED <<pc, data>> \/ pc' \notin Reading
  PROVE  SlotsStored' /\ CopiedStored'
<1>1. CASE UNCHANGED <<pc, data>>
  <2>1. Copied' = Copied
    BY <1>1 DEF Copied, Segment, Rx!FirstSegment
  <2> QED  BY <1>1, <2>1 DEF SlotsStored, CopiedStored
<1>2. CASE pc' \notin Reading
  BY <1>2 DEF SlotsStored, CopiedStored, Reading
<1> QED  BY <1>1, <1>2

\* usart_handle_rxne stores one byte at head.
LEMMA OneWritten ==
  ASSUME RxRing!RingOK, NEW b \in RxByte
  PROVE  Rx!Written(<<b>>) = [rx_buf EXCEPT ![rx_head] = b]
<1>1. /\ RxSize \in Nat \ {0} /\ rx_head \in 0 .. RxSize - 1
      /\ rx_buf \in [0 .. RxSize - 1 -> RxByte \union {None}]
  BY UsartAssumption DEF RxRing!RingOK, RxRing!Index
<1>2. Len(<<b>>) = 1 /\ <<b>>[1] = b /\ Rx!FirstSegment(rx_head, 1) = 1
  BY <1>1 DEF Rx!FirstSegment
<1>3. Rx!Written(<<b>>) = [i \in 0 .. RxSize - 1 |-> IF i = rx_head THEN b ELSE rx_buf[i]]
  <2>1. \A i \in 0 .. RxSize - 1 : /\ ~ (i < 1 - 1)
                                   /\ (i \in rx_head .. rx_head + 1 - 1) <=> (i = rx_head)
                                   /\ (i = rx_head) => (i - rx_head + 1 = 1)
    BY <1>1
  <2> QED  BY <1>2, <2>1 DEF Rx!Written, Rx!Index
<1> QED  BY <1>1, <1>3

LEMMA RxneFills ==
  ASSUME ReadInv, BytesOK, usart_handle_rxne
  PROVE  BytesOK'
<1>1. /\ UNCHANGED <<rx_tail, pc, data>>
      /\ (due' = due /\ lost' = lost) \/ (due' = << >> /\ lost' = TRUE)
  BY DEF usart_handle_rxne, caller, Lose
<1>2. /\ data' \in Seq(Datum) /\ due' \in Seq(RxByte) /\ lost' \in BOOLEAN
      /\ rx_sem' \in {0, 1} /\ CopiedStored'
  <2>1. data' \in Seq(Datum)
    BY <1>1 DEF BytesOK
  <2>2. due' \in Seq(RxByte)
    <3>1. due \in Seq(RxByte) /\ << >> \in Seq(RxByte)
      BY DEF BytesOK
    <3> QED  BY <1>1, <3>1
  <2>3. lost' \in BOOLEAN
    BY <1>1 DEF BytesOK
  <2>4. rx_sem' \in {0, 1}
    <3>1. rx_sem' \in {rx_sem, IF rx_sem < 1 THEN rx_sem + 1 ELSE rx_sem}
      BY DEF usart_handle_rxne
    <3> QED  BY <3>1 DEF BytesOK
  <2>5. CopiedStored'
    <3>1. Copied' = Copied
      BY <1>1 DEF Copied, Segment, Rx!FirstSegment
    <3> QED  BY <1>1, <3>1 DEF BytesOK, CopiedStored
  <2> QED  BY <2>1, <2>2, <2>3, <2>4, <2>5
<1>3. CASE UNCHANGED <<rx_buf, rx_head>>
  BY <1>1, <1>2, <1>3, StoredUnchanged DEF BytesOK
<1>4. CASE rx_buf' = Rx!Written(<<RDR>>) /\ rx_head' = Rx!Advance(rx_head, 1) /\ RDR # None
  <2>1. /\ RxSize \in Nat \ {0} /\ rx_head \in 0 .. RxSize - 1 /\ rx_tail \in 0 .. RxSize - 1
        /\ rx_buf \in [0 .. RxSize - 1 -> RxByte \union {None}] /\ RDR \in RxByte
    BY <1>4, UsartAssumption DEF ReadInv, RxRing!RingOK, RxRing!Index
  <2>2. rx_buf' = [rx_buf EXCEPT ![rx_head] = RDR]
    BY <1>4, <2>1, OneWritten DEF ReadInv
  <2>3. CASE \A i \in RxRing!Index : rx_buf[i] \in RxByte
    BY <1>2, <2>1, <2>2, <2>3 DEF BytesOK, SlotsStored, RxRing!Index
  <2>4. CASE /\ rx_tail <= rx_head /\ \A i \in 0 .. rx_head - 1 : rx_buf[i] \in RxByte
             /\ pc \in Reading \ {"r_test"} => rx_tail + Len(data) <= rx_head
    <3>1. \A i \in 0 .. rx_head : rx_buf'[i] \in RxByte
      BY <2>1, <2>2, <2>4
    <3>2. CASE rx_head + 1 = RxSize
      <4>1. \A i \in RxRing!Index : rx_buf'[i] \in RxByte
        BY <2>1, <3>1, <3>2 DEF RxRing!Index
      <4> QED  BY <1>2, <4>1 DEF BytesOK, SlotsStored
    <3>3. CASE rx_head + 1 < RxSize
      <4>1. rx_head' = rx_head + 1
        BY <1>4, <2>1, <3>3 DEF Rx!Advance
      <4>2. pc' \in Reading \ {"r_test"} => rx_tail' + Len(data') <= rx_head'
        <5>1. Len(data) \in Nat
          BY DEF BytesOK
        <5> QED  BY <1>1, <2>1, <2>4, <4>1, <5>1
      <4>3. rx_tail' <= rx_head' /\ \A i \in 0 .. rx_head' - 1 : rx_buf'[i] \in RxByte
        BY <1>1, <2>1, <2>4, <3>1, <4>1
      <4> QED  BY <1>2, <4>2, <4>3 DEF BytesOK, SlotsStored
    <3> QED  BY <2>1, <3>2, <3>3
  <2> QED  BY <2>3, <2>4 DEF BytesOK, SlotsStored
<1> QED  BY <1>3, <1>4 DEF usart_handle_rxne, ReadInv, WillStore

\* A read begins.
LEMMA ReadFills ==
  ASSUME ReadInv, BytesOK, NEW n \in 1 .. RxSize, usart_read_async(n)
  PROVE  BytesOK'
<1>1. /\ UNCHANGED <<rx_buf, rx_head, rx_tail, rx_sem, due, lost>>
      /\ data' = [i \in 1 .. n |-> None] /\ pc' = "r_test"
  BY DEF usart_read_async, Goto, rx, hist
<1>2. SlotsStored' /\ CopiedStored'
  BY <1>1 DEF BytesOK, SlotsStored, CopiedStored
<1>3. data' \in Seq(Datum)
  <2>1. n \in Nat /\ None \in Datum
    BY UsartAssumption DEF Datum
  <2> QED  BY <1>1, <2>1
<1> QED  BY <1>1, <1>2, <1>3 DEF BytesOK

LEMMA TestFills == ASSUME ReadInv, BytesOK, TestCount PROVE BytesOK'
<1>1. /\ UNCHANGED <<rx_buf, rx_head, rx_tail, rx_sem, due, lost>> /\ pc = "r_test"
      /\ \/ pc' = "r_first" /\ data' = data /\ Len(data) <= Rx!get_total_elements
         \/ pc' = "main" /\ data' = << >>
  BY DEF TestCount, Goto, rx, hist
<1>2. data' \in Seq(Datum)
  <2>1. << >> \in Seq(Datum)
    OBVIOUS
  <2> QED  BY <1>1, <2>1 DEF BytesOK
<1>3. CopiedStored'
  BY <1>1 DEF CopiedStored
<1>4. SlotsStored'
  <2>1. /\ RxSize \in Nat \ {0} /\ rx_head \in 0 .. RxSize - 1 /\ rx_tail \in 0 .. RxSize - 1
        /\ Rx!get_total_elements = RxRing!Distance /\ Len(data) \in Nat
    BY <1>1, RxRingFacts DEF ReadInv, ReadAhead, Reading
  <2>2. rx_tail <= rx_head /\ Len(data) <= Rx!get_total_elements => rx_tail + Len(data) <= rx_head
    BY <2>1 DEF RxRing!Distance
  <2> QED  BY <1>1, <2>2 DEF BytesOK, SlotsStored, Reading
<1> QED  BY <1>1, <1>2, <1>3, <1>4 DEF BytesOK

\* What a slot of the ring holds that a read copies.
LEMMA CopiesStored ==
  ASSUME ReadInv, BytesOK, pc \in Reading \ {"r_test"}, NEW i \in 1 .. Len(data)
  PROVE  rx_buf[RxRing!Slot(rx_tail, i - 1)] \in RxByte
<1>1. /\ RxSize \in Nat \ {0} /\ rx_tail \in 0 .. RxSize - 1 /\ rx_head \in 0 .. RxSize - 1
      /\ Len(data) \in 1 .. RxSize /\ RxRing!Slot(rx_tail, i - 1) \in RxRing!Index
  BY Segments, RxRingFacts DEF ReadInv
<1>2. CASE \A j \in RxRing!Index : rx_buf[j] \in RxByte
  BY <1>1, <1>2
<1>3. CASE /\ \A j \in 0 .. rx_head - 1 : rx_buf[j] \in RxByte
           /\ rx_tail + Len(data) <= rx_head
  <2>1. RxRing!Slot(rx_tail, i - 1) \in 0 .. rx_head - 1
    BY <1>1, <1>3 DEF RxRing!Slot
  <2> QED  BY <1>3, <2>1
<1> QED  BY <1>2, <1>3 DEF BytesOK, SlotsStored

LEMMA CopyFirstFills == ASSUME ReadInv, BytesOK, CopyFirst PROVE BytesOK'
<1>1. /\ UNCHANGED <<rx_buf, rx_head, rx_tail, rx_sem, due, lost>>
      /\ pc = "r_first" /\ pc' = "r_second"
      /\ data' = [i \in DOMAIN data |-> IF i <= Segment THEN rx_buf[rx_tail + i - 1] ELSE data[i]]
  BY DEF CopyFirst, Goto, rx, hist
<1>2. /\ Segment \in 1 .. Len(data) /\ DOMAIN data = 1 .. Len(data) /\ Len(data) \in Nat
      /\ \A i \in 1 .. Segment : RxRing!Slot(rx_tail, i - 1) = rx_tail + i - 1
  BY <1>1, Segments DEF Reading
<1>3. ReadInv'
  BY CopyFirstKeeps
<1>4. data' \in Seq(Datum) /\ Len(data') = Len(data)
  <2>1. data' \in Seq(RxByte \union {None})
    BY <1>1, <1>3 DEF ReadInv, ReadAhead, Reading
  <2>2. PICK n \in Nat : n = Len(data)
    BY <1>2
  <2>3. DOMAIN data' = 1 .. n /\ DOMAIN data' = 1 .. Len(data') /\ Len(data') \in Nat
    BY <1>1, <1>2, <2>1, <2>2
  <2> QED  BY <2>1, <2>2, <2>3 DEF Datum
<1>5. Copied' = Segment
  BY <1>1, <1>4 DEF Copied, Segment, Rx!FirstSegment
<1>6. ASSUME NEW i \in 1 .. Segment PROVE data'[i] \in RxByte
  <2>1. i \in 1 .. Len(data) /\ data'[i] = rx_buf[RxRing!Slot(rx_tail, i - 1)]
    BY <1>1, <1>2
  <2> QED  BY <1>1, <2>1, CopiesStored DEF Reading
<1>7. CopiedStored' /\ SlotsStored'
  BY <1>1, <1>4, <1>5, <1>6 DEF CopiedStored, SlotsStored, BytesOK, Reading
<1> QED  BY <1>1, <1>4, <1>7 DEF BytesOK

LEMMA CopySecondFills == ASSUME ReadInv, BytesOK, CopySecond PROVE BytesOK'
<1>1. /\ UNCHANGED <<rx_buf, rx_head, rx_tail, rx_sem, due, lost>>
      /\ pc = "r_second" /\ pc' = "r_tail"
      /\ data' = [i \in DOMAIN data |-> IF i <= Segment THEN data[i] ELSE rx_buf[i - Segment - 1]]
  BY DEF CopySecond, Goto, rx, hist
<1>2. /\ Segment \in 1 .. Len(data) /\ DOMAIN data = 1 .. Len(data) /\ Len(data) \in Nat
      /\ \A i \in 1 .. Len(data) :
           ~(i <= Segment) => RxRing!Slot(rx_tail, i - 1) = i - Segment - 1
  BY <1>1, Segments DEF Reading
<1>3. ReadInv'
  BY CopySecondKeeps
<1>4. data' \in Seq(Datum) /\ Len(data') = Len(data)
  <2>1. data' \in Seq(RxByte \union {None})
    BY <1>1, <1>3 DEF ReadInv, ReadAhead, Reading
  <2>2. PICK n \in Nat : n = Len(data)
    BY <1>2
  <2>3. DOMAIN data' = 1 .. n /\ DOMAIN data' = 1 .. Len(data') /\ Len(data') \in Nat
    BY <1>1, <1>2, <2>1, <2>2
  <2> QED  BY <2>1, <2>2, <2>3 DEF Datum
<1>5. Copied' = Len(data) /\ Copied = Segment
  BY <1>1, <1>4 DEF Copied
<1>6. ASSUME NEW i \in 1 .. Len(data) PROVE data'[i] \in RxByte
  <2>1. CASE i <= Segment
    <3>1. data[i] \in RxByte
      BY <1>1, <1>2, <1>5, <2>1 DEF BytesOK, CopiedStored
    <3> QED  BY <1>1, <1>2, <2>1, <3>1
  <2>2. CASE ~(i <= Segment)
    <3>1. data'[i] = rx_buf[RxRing!Slot(rx_tail, i - 1)]
      BY <1>1, <1>2, <2>2
    <3> QED  BY <1>1, <3>1, CopiesStored DEF Reading
  <2> QED  BY <2>1, <2>2
<1>7. CopiedStored' /\ SlotsStored'
  BY <1>1, <1>4, <1>5, <1>6 DEF CopiedStored, SlotsStored, BytesOK, Reading
<1> QED  BY <1>1, <1>4, <1>7 DEF BytesOK

\* Consume moves tail over the bytes of the read.
LEMMA ConsumeFills == ASSUME ReadInv, BytesOK, Consume PROVE BytesOK'
<1>1. /\ pc = "r_tail" /\ pc' = "main" /\ rx_tail' = Rx!Advance(rx_tail, Len(data))
      /\ due' = IF lost THEN due ELSE SubSeq(due, Len(data) + 1, Len(due))
      /\ data' = << >> /\ UNCHANGED <<rx_buf, rx_head, rx_sem, lost>>
  BY DEF Consume, Goto
<1>2. Len(data) \in Nat /\ due \in Seq(RxByte) /\ Len(due) \in Nat
  BY DEF BytesOK
<1>3. /\ due' \in Seq(RxByte) /\ data' \in Seq(Datum) /\ lost' \in BOOLEAN
      /\ CopiedStored'
  BY <1>1, <1>2 DEF BytesOK, CopiedStored
<1>4. SlotsStored'
  <2>1. CASE \A i \in RxRing!Index : rx_buf[i] \in RxByte
    BY <1>1, <2>1 DEF SlotsStored
  <2>2. CASE /\ \A i \in 0 .. rx_head - 1 : rx_buf[i] \in RxByte
             /\ rx_tail + Len(data) <= rx_head
    <3>1. PICK m \in Nat : m = Len(data)
      BY <1>2
    <3>2. /\ RxSize \in Nat \ {0} /\ rx_head \in 0 .. RxSize - 1
          /\ rx_tail \in 0 .. RxSize - 1
      BY UsartAssumption DEF ReadInv, RxRing!RingOK, RxRing!Index
    <3>3. rx_tail + m \in 0 .. RxSize - 1
      BY <2>2, <3>1, <3>2
    <3>4. rx_tail' = (rx_tail + m) % RxSize
      BY <1>1, <3>1 DEF Rx!Advance
    <3>5. rx_tail' = rx_tail + m
      BY <3>2, <3>3, <3>4
    <3> QED  BY <1>1, <2>2, <3>1, <3>2, <3>5 DEF SlotsStored, Reading
  <2> QED  BY <1>1, <2>1, <2>2 DEF BytesOK, SlotsStored, Reading
<1> QED  BY <1>1, <1>3, <1>4 DEF BytesOK

LEMMA BytesTyped == ReadInv /\ BytesOK /\ [UsartNext]_uvars => BytesOK'
<1> SUFFICES ASSUME ReadInv, BytesOK, [UsartNext]_uvars PROVE BytesOK'
  OBVIOUS
<1>1. CASE \/ UNCHANGED uvars \/ Shift \/ Sent \/ LineIdle \/ Pend \/ usart_irq
           \/ usart_handle_txe \/ usart_handle_tc \/ usart_handle_ore \/ usart_handle_idle
  <2>1. UNCHANGED <<rx_buf, rx_head, rx_tail, rx_sem, pc, data, due, lost>>
    BY <1>1 DEF uvars, Shift, Sent, LineIdle, Pend, usart_irq, usart_handle_txe,
                usart_handle_tc, usart_handle_ore, usart_handle_idle, Discard,
                caller, rx, hist
  <2> QED  BY <2>1, StoredUnchanged DEF BytesOK
<1>2. ASSUME NEW b \in RxByte, Arrive(b) PROVE BytesOK'
  <2>1. UNCHANGED <<rx_buf, rx_head, rx_tail, rx_sem, pc, data>>
    BY <1>2 DEF Arrive, caller, rx
  <2>2. due' \in {due, << >>, Append(due, b)} /\ (lost' = lost \/ lost' = TRUE)
    BY <1>2 DEF Arrive, Lose
  <2>3. due' \in Seq(RxByte)
    <3>1. due \in Seq(RxByte)
      BY DEF BytesOK
    <3>2. << >> \in Seq(RxByte) /\ Append(due, b) \in Seq(RxByte)
      BY <3>1
    <3> QED  BY <2>2, <3>1, <3>2
  <2>4. lost' \in BOOLEAN
    BY <2>2 DEF BytesOK
  <2>5. data' \in Seq(Datum)
    BY <2>1 DEF BytesOK
  <2>6. SlotsStored' /\ CopiedStored'
    BY <2>1, StoredUnchanged DEF BytesOK
  <2>7. rx_sem' \in {0, 1}
    BY <2>1 DEF BytesOK
  <2> QED  BY <2>3, <2>4, <2>5, <2>6, <2>7 DEF BytesOK
<1>3. CASE CopyIn \/ EnableTxe \/ DisableTcie \/ set_rx_int
  <2>1. /\ UNCHANGED <<rx_buf, rx_head, rx_tail, rx_sem, data, due, lost>>
        /\ pc' \notin Reading
    BY <1>3 DEF CopyIn, EnableTxe, DisableTcie, set_rx_int, Update, Goto, rx, hist, Reading
  <2> QED  BY <2>1, StoredUnchanged DEF BytesOK
<1>4. CASE Publish
  <2>1. /\ UNCHANGED <<rx_buf, rx_head, rx_tail, rx_sem, due, lost>>
        /\ pc' \notin Reading /\ data' = << >>
    BY <1>4 DEF Publish, Goto, rx, Reading
  <2> QED  BY <2>1, StoredUnchanged DEF BytesOK
<1>5. ASSUME NEW n \in 1 .. TxSize, NEW d \in [1 .. n -> TxByte], usart_write_async(d)
      PROVE  BytesOK'
  <2>1. /\ UNCHANGED <<rx_buf, rx_head, rx_tail, rx_sem, due, lost>>
        /\ pc' \notin Reading /\ data' = d
    BY <1>5 DEF usart_write_async, Goto, rx, hist, Reading
  <2>2. d \in Seq(Datum)
    BY UsartAssumption DEF Datum
  <2> QED  BY <2>1, <2>2, StoredUnchanged DEF BytesOK
<1> QED  BY <1>1, <1>2, <1>3, <1>4, <1>5, RxneFills, ReadFills, TestFills,
         CopyFirstFills, CopySecondFills, ConsumeFills
         DEF UsartNext, Environment, Handler, InCall, Call

\* For every size of the rings and all bytes, the driver and the peripheral keep their
\* types: no index leaves its ring, and no read delivers a slot that no byte was
\* stored in, even after the receiver has lost bytes.
THEOREM UsartTypeCorrect == UsartSpec => []UsartTypeOK
<1>1. UsartInit => ControlOK /\ BytesOK
  <2> SUFFICES ASSUME UsartInit PROVE ControlOK /\ BytesOK
    OBVIOUS
  <2>1. ControlOK
    BY DEF UsartInit, ControlOK, Labels, Bits
  <2>2. SlotsStored /\ CopiedStored /\ rx_sem = 0
    BY DEF UsartInit, SlotsStored, CopiedStored, Reading
  <2>3. data = << >> /\ due = << >> /\ lost \in BOOLEAN
    BY DEF UsartInit
  <2> QED  BY <2>1, <2>2, <2>3 DEF BytesOK
<1>2. SentInv /\ ReadInv /\ ControlOK /\ BytesOK => UsartTypeOK
  <2> SUFFICES ASSUME SentInv, ReadInv, ControlOK, BytesOK
               PROVE  UsartTypeOK
    OBVIOUS
  <2>1. /\ tx_buf \in [0 .. TxSize - 1 -> TxByte \union {None}]
        /\ tx_head \in 0 .. TxSize - 1 /\ tx_tail \in 0 .. TxSize - 1
        /\ TDR \in TxByte \union {None} /\ shift \in TxByte \union {None}
    BY DEF SentInv, Ring!RingOK, Ring!Index
  <2>2. /\ rx_buf \in [0 .. RxSize - 1 -> RxByte \union {None}]
        /\ rx_head \in 0 .. RxSize - 1 /\ rx_tail \in 0 .. RxSize - 1
        /\ RDR \in RxByte \union {None}
    BY DEF ReadInv, RxRing!RingOK, RxRing!Index
  <2>3. owed \in Seq(TxByte) /\ filled \in BOOLEAN
    BY DEF SentInv
  <2>4. pc = "r_tail" => data \in Seq(RxByte)
    <3> SUFFICES ASSUME pc = "r_tail" PROVE data \in Seq(RxByte)
      OBVIOUS
    <3>1. /\ \A i \in 1 .. Len(data) : data[i] \in RxByte
          /\ data \in Seq(Datum)
      BY DEF BytesOK, CopiedStored, Copied
    <3> QED  BY <3>1
  <2> QED  BY <2>1, <2>2, <2>3, <2>4 DEF UsartTypeOK, ControlOK, BytesOK, Datum
<1> QED  BY <1>1, <1>2, ControlTyped, BytesTyped, SentInvariant, ReadInvariant, PTL DEF UsartSpec
==============================================================================

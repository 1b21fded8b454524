-------------------------------- MODULE Usart --------------------------------
(***************************************************************************)
(* Src/usart.c: the USART driver after usart_init, between one caller in   *)
(* thread mode, as in main.c, and the peripheral.  The caller executes one *)
(* memory access that the handler could tell apart per step; the handler   *)
(* (usart_irq) preempts it at any of them, works on one snapshot of the    *)
(* status register, and is interleaved with the line: bytes leave and      *)
(* arrive while it runs.  The peripheral is modelled as usart.c uses it:   *)
(* a one-byte data register and shift register in each direction, status   *)
(* flags, and an interrupt line that the NVIC samples by its level.        *)
(***************************************************************************)
EXTENDS Integers, Sequences

CONSTANTS TxByte, RxByte,    \* the bytes the caller sends, and those that arrive
          TxSize, RxSize,    \* the sizes of the two ring buffers
          None               \* an empty register

ASSUME UsartAssumption == /\ TxSize \in Nat \ {0} /\ RxSize \in Nat \ {0}
                          /\ None \notin TxByte \union RxByte

VARIABLES
  (* usart_t: the two channels.  tx.state, which nothing reads, is left out. *)
  tx_buf, tx_head, tx_tail,
  rx_buf, rx_head, rx_tail, rx_sem,
  (* The peripheral.  TXE is TDR = None, RXNE is RDR # None. *)
  CR1,        \* the interrupt enable bits that are set
  TDR, RDR,   \* data registers
  shift,      \* the byte on the line
  flags,      \* which of TC, ORE and IDLE are set
  (* The processor. *)
  pending,    \* the NVIC has latched the interrupt
  isr,        \* what usart_irq does next, "off" when it is not active
  status,     \* usart_irq: the flags in status that are still to be handled
  pc,         \* what the caller does next, "main" outside the driver
  data,       \* the bytes of the call: to be written, or read, None where not read yet
  reg,        \* CR1 as loaded by a read-modify-write, or None
  (* History. *)
  owed,       \* the bytes accepted for sending and not sent
  filled,     \* a write filled the ring exactly: owed is not tracked until the line
              \* has nothing left to send
  due,        \* the bytes received and not read
  lost        \* bytes were received and not kept: due is no longer tracked

caller == <<pc, data, reg>>
tx     == <<tx_buf, tx_head, tx_tail>>
rx     == <<rx_buf, rx_head, rx_tail, rx_sem>>
line   == <<TDR, RDR, shift, flags>>
nvic   == <<pending, isr, status>>
hist   == <<owed, filled, due, lost>>

uvars == <<caller, tx, rx, CR1, line, nvic, hist>>

Tx == INSTANCE RingBuffer WITH Byte <- TxByte, Size <- TxSize, Junk <- None,
        buf <- tx_buf, head <- tx_head, tail <- tx_tail, out <- << >>, ret <- << >>
Rx == INSTANCE RingBuffer WITH Byte <- RxByte, Size <- RxSize, Junk <- None,
        buf <- rx_buf, head <- rx_head, tail <- rx_tail, out <- << >>, ret <- << >>

Held(r) == IF r = None THEN << >> ELSE <<r>>

\* The bytes between the ring buffer and the end of the line.
OnTheWay == Held(shift) \o Held(TDR)

-----------------------------------------------------------------------------
(* The peripheral. *)

Raised == flags \union (IF TDR = None THEN {"TXE"} ELSE {})
                \union (IF RDR # None THEN {"RXNE"} ELSE {})

\* The interrupt line.  RXNEIE enables the overrun interrupt as well; the handler
\* looks at IDLE although nothing enables it.
Level == \/ "TXEIE" \in CR1 /\ TDR = None
         \/ "TCIE" \in CR1 /\ "TC" \in flags
         \/ "RXNEIE" \in CR1 /\ (RDR # None \/ "ORE" \in flags)

Shift == /\ shift = None /\ TDR # None
         /\ shift' = TDR /\ TDR' = None
         /\ UNCHANGED <<caller, tx, rx, CR1, RDR, flags, nvic, hist>>

Sent == /\ shift # None
        /\ shift' = None
        /\ flags' = IF TDR = None THEN flags \union {"TC"} ELSE flags
        /\ owed' = IF filled THEN << >> ELSE Tail(owed)
        /\ filled' = (filled /\ ~(TDR = None /\ tx_head = tx_tail))
        /\ UNCHANGED <<caller, tx, rx, CR1, TDR, RDR, nvic, due, lost>>

\* The handler is active and may still read RDR only to clear a flag.
WillDiscard == isr # "off" /\ status \intersect {"ORE", "IDLE"} # {}

Lose == lost' = TRUE /\ due' = << >>

Arrive(b) ==
  /\ IF RDR = None THEN RDR' = b /\ UNCHANGED flags
                   ELSE flags' = flags \union {"ORE"} /\ UNCHANGED RDR
  /\ IF RDR = None /\ WillDiscard
     THEN Lose
     ELSE UNCHANGED lost /\ due' = IF RDR = None /\ ~lost THEN Append(due, b) ELSE due
  /\ UNCHANGED <<caller, tx, rx, CR1, TDR, shift, nvic, owed, filled>>

LineIdle == /\ RxByte # {} /\ "IDLE" \notin flags
            /\ flags' = flags \union {"IDLE"}
            /\ UNCHANGED <<caller, tx, rx, CR1, TDR, RDR, shift, nvic, hist>>

Pend == /\ isr = "off" /\ ~pending /\ Level
        /\ pending' = TRUE
        /\ UNCHANGED <<caller, tx, rx, CR1, line, isr, status, hist>>

-----------------------------------------------------------------------------
(* The handler. *)

\* Exception entry and the read of the status register.
usart_irq == /\ pending /\ isr = "off"
             /\ pending' = FALSE /\ isr' = "rxne" /\ status' = Raised
             /\ UNCHANGED <<caller, tx, rx, CR1, line, hist>>

usart_handle_rxne ==
  /\ isr = "rxne" /\ isr' = "txe" /\ status' = status \ {"RXNE"}
  /\ IF "RXNE" \in status
     THEN /\ RDR' = None
          /\ IF 1 <= Rx!get_free_space
             THEN /\ rx_buf' = Rx!Written(<<RDR>>)
                  /\ rx_head' = Rx!Advance(rx_head, 1)
                  /\ UNCHANGED rx_sem
                  /\ IF rx_head' = rx_tail THEN Lose ELSE UNCHANGED <<due, lost>>
             ELSE /\ rx_sem' = IF rx_sem < 1 THEN rx_sem + 1 ELSE rx_sem
                  /\ Lose /\ UNCHANGED <<rx_buf, rx_head>>
     ELSE UNCHANGED <<RDR, rx_buf, rx_head, rx_sem, due, lost>>
  /\ UNCHANGED <<caller, tx, rx_tail, CR1, TDR, shift, flags, pending, owed, filled>>

\* ring_buffer_empty
LastByte == tx_head = tx_tail'

usart_handle_txe ==
  /\ isr = "txe" /\ isr' = "tc" /\ status' = status \ {"TXE"}
  /\ IF "TXE" \in status /\ Tx!get_total_elements >= 1
     THEN /\ TDR' = Tx!Read(1)[1] /\ flags' = flags \ {"TC"}
          /\ tx_tail' = Tx!Advance(tx_tail, 1)
          /\ CR1' = IF LastByte THEN (CR1 \ {"TXEIE"}) \union {"TCIE"} ELSE CR1
     ELSE UNCHANGED <<TDR, flags, tx_tail, CR1>>
  /\ UNCHANGED <<caller, tx_buf, tx_head, rx, RDR, shift, pending, hist>>

usart_handle_tc ==
  /\ isr = "tc" /\ isr' = "ore" /\ status' = status \ {"TC"}
  /\ IF "TC" \in status
     THEN CR1' = CR1 \ {"TCIE"} /\ flags' = flags \ {"TC"}
     ELSE UNCHANGED <<CR1, flags>>
  /\ UNCHANGED <<caller, tx, rx, TDR, RDR, shift, pending, hist>>

\* Mutant of Discard: RDR is read before the flag is tested.
DiscardFirst(f) ==
  /\ RDR' = None
  /\ flags' = IF f \in status THEN flags \ {f} ELSE flags
  /\ UNCHANGED <<caller, tx, rx, CR1, TDR, shift, hist>>

\* A read of RDR, which clears RXNE, and the clearing of flag f.
Discard(f) ==
  /\ IF f \in status THEN RDR' = None /\ flags' = flags \ {f} ELSE UNCHANGED <<RDR, flags>>
  /\ UNCHANGED <<caller, tx, rx, CR1, TDR, shift, hist>>

usart_handle_ore == /\ isr = "ore" /\ isr' = "idle" /\ status' = status \ {"ORE"}
                    /\ Discard("ORE") /\ UNCHANGED pending

\* The last handler, and the exception return: an interrupt that is still requested
\* is pending again before the caller executes anything.
usart_handle_idle == /\ isr = "idle" /\ isr' = "off" /\ status' = {}
                     /\ Discard("IDLE") /\ pending' = Level'

Handler == \/ usart_irq \/ usart_handle_rxne \/ usart_handle_txe \/ usart_handle_tc
           \/ usart_handle_ore \/ usart_handle_idle

-----------------------------------------------------------------------------
(* The caller. *)

HasCore == isr = "off" /\ ~pending

Goto(here, there) == HasCore /\ pc = here /\ pc' = there

\* CR1 |= on or CR1 &= ~off: a load and a store.
Update(here, there, on, off) ==
  /\ \/ Goto(here, here) /\ reg = None /\ reg' = CR1 /\ UNCHANGED CR1
     \/ Goto(here, there) /\ reg # None /\ reg' = None /\ CR1' = (reg \ off) \union on
  /\ UNCHANGED <<data, tx, rx, line, nvic, hist>>

\* usart_write_async up to the test of the free space in ring_buffer_push.
usart_write_async(d) ==
  /\ Goto("main", "w_copy")
  /\ Len(d) <= Tx!get_free_space
  /\ data' = d
  /\ UNCHANGED <<reg, tx, rx, CR1, line, nvic, hist>>

CopyIn == /\ Goto("w_copy", "w_head")
          /\ tx_buf' = Tx!Written(data)
          /\ UNCHANGED <<data, reg, tx_head, tx_tail, rx, CR1, line, nvic, hist>>

\* The store to head.
Publish == /\ Goto("w_head", "w_txeie")
           /\ tx_head' = Tx!Advance(tx_head, Len(data))
           /\ filled' = (filled \/ tx_head' = tx_tail)
           /\ owed' = IF filled THEN << >> ELSE owed \o data
           /\ data' = << >>
           /\ UNCHANGED <<reg, tx_buf, tx_tail, rx, CR1, line, nvic, due, lost>>

\* Mutant of EnableTxe: usart.c:113 "enable transmit complete interrupt" to the letter.
EnableTc == Update("w_txeie", "w_tcie", {"TCIE"}, {})

EnableTxe == Update("w_txeie", "w_tcie", {"TXEIE"}, {})
DisableTcie == Update("w_tcie", "main", {}, {"TCIE"})

\* usart_read_async up to the test of the count that it makes itself.
usart_read_async(n) ==
  /\ Goto("main", "r_test")
  /\ n <= Rx!get_total_elements
  /\ data' = [i \in 1 .. n |-> None]
  /\ UNCHANGED <<reg, tx, rx, CR1, line, nvic, hist>>

\* The test of the count in ring_buffer_pop.
TestCount ==
  /\ IF Len(data) <= Rx!get_total_elements
     THEN Goto("r_test", "r_first") /\ UNCHANGED data
     ELSE Goto("r_test", "main") /\ data' = << >>
  /\ UNCHANGED <<reg, tx, rx, CR1, line, nvic, hist>>

\* The first memcpy of ring_buffer_pop, from tail on, and the second, from the start.
Segment == Rx!FirstSegment(rx_tail, Len(data))

CopyFirst ==
  /\ Goto("r_first", "r_second")
  /\ data' = [i \in DOMAIN data |-> IF i <= Segment THEN rx_buf[rx_tail + i - 1] ELSE data[i]]
  /\ UNCHANGED <<reg, tx, rx, CR1, line, nvic, hist>>

CopySecond ==
  /\ Goto("r_second", "r_tail")
  /\ data' = [i \in DOMAIN data |-> IF i <= Segment THEN data[i] ELSE rx_buf[i - Segment - 1]]
  /\ UNCHANGED <<reg, tx, rx, CR1, line, nvic, hist>>

\* The store to tail.
Consume == /\ Goto("r_tail", "main")
           /\ rx_tail' = Rx!Advance(rx_tail, Len(data))
           /\ due' = IF lost THEN due ELSE SubSeq(due, Len(data) + 1, Len(due))
           /\ data' = << >>
           /\ UNCHANGED <<reg, tx, rx_buf, rx_head, rx_sem, CR1, line, nvic, owed, filled, lost>>

\* usart_enable_rx_int and usart_disable_rx_int.
set_rx_int == \/ /\ \E l \in {"rx_on", "rx_off"} : Goto("main", l)
                 /\ UNCHANGED <<data, reg, tx, rx, CR1, line, nvic, hist>>
              \/ Update("rx_on", "main", {"RXNEIE"}, {})
              \/ Update("rx_off", "main", {}, {"RXNEIE"})

\* The rest of a call, and the calls.
InCall == \/ CopyIn \/ Publish \/ EnableTxe \/ DisableTcie
          \/ TestCount \/ CopyFirst \/ CopySecond \/ Consume
          \/ pc # "main" /\ set_rx_int

Call == \/ \E n \in 1 .. TxSize : \E d \in [1 .. n -> TxByte] : usart_write_async(d)
        \/ \E n \in 1 .. RxSize : usart_read_async(n)
        \/ pc = "main" /\ RxByte # {} /\ set_rx_int

-----------------------------------------------------------------------------
\* After usart_init.
UsartInit ==
  /\ tx_buf = [i \in 0 .. TxSize - 1 |-> None] /\ tx_head = 0 /\ tx_tail = 0
  /\ rx_buf = [i \in 0 .. RxSize - 1 |-> None] /\ rx_head = 0 /\ rx_tail = 0
  /\ rx_sem = 0
  /\ CR1 = {} /\ TDR = None /\ RDR = None /\ shift = None /\ flags = {"TC"}
  /\ pending = FALSE /\ isr = "off" /\ status = {}
  /\ pc = "main" /\ data = << >> /\ reg = None
  /\ owed = << >> /\ filled = FALSE /\ due = << >> /\ lost = FALSE

Environment == Shift \/ Sent \/ (\E b \in RxByte : Arrive(b)) \/ LineIdle \/ Pend

UsartNext == Environment \/ Handler \/ InCall \/ Call

UsartSpec == UsartInit /\ [][UsartNext]_uvars

-----------------------------------------------------------------------------
(* Properties. *)

Bits   == {"TXEIE", "TCIE", "RXNEIE"}
Labels == {"main", "w_copy", "w_head", "w_txeie", "w_tcie",
           "r_test", "r_first", "r_second", "r_tail", "rx_on", "rx_off"}

\* The type invariant.  No read delivers a slot of the ring that no byte was stored in.
UsartTypeOK ==
  /\ tx_buf \in [0 .. TxSize - 1 -> TxByte \union {None}]
  /\ tx_head \in 0 .. TxSize - 1 /\ tx_tail \in 0 .. TxSize - 1
  /\ rx_buf \in [0 .. RxSize - 1 -> RxByte \union {None}]
  /\ rx_head \in 0 .. RxSize - 1 /\ rx_tail \in 0 .. RxSize - 1
  /\ rx_sem \in {0, 1}
  /\ CR1 \subseteq Bits /\ flags \subseteq {"TC", "ORE", "IDLE"}
  /\ TDR \in TxByte \union {None} /\ shift \in TxByte \union {None}
  /\ RDR \in RxByte \union {None}
  /\ pending \in BOOLEAN /\ isr \in {"off", "rxne", "txe", "tc", "ore", "idle"}
  /\ status \subseteq {"TC", "ORE", "IDLE", "TXE", "RXNE"}
  /\ pc \in Labels /\ data \in Seq(TxByte \union RxByte \union {None})
  /\ pc = "r_tail" => data \in Seq(RxByte)
  /\ reg \in (SUBSET Bits) \union {None}
  /\ owed \in Seq(TxByte) /\ filled \in BOOLEAN
  /\ due \in Seq(RxByte) /\ lost \in BOOLEAN

\* Every byte of an accepted write is sent once and in order, wherever the handler
\* interrupts the write: what is owed is on the line, in TDR or in the ring, in this
\* order.  But a write that fills the ring exactly is lost with what the ring held, and
\* nothing is said until the line has sent what is left.
SentInOrder == ~filled => owed = OnTheWay \o Tx!Contents

\* usart_write_async says of what it accepts: put data into the fifo, load more data
\* from it each time the interrupt goes off, until no more data is left.
AcceptedIsSent == owed = OnTheWay \o Tx!Contents

\* Every received byte that found RDR empty is read once and in order, wherever the
\* handler interrupts the read, unless it arrived after the handler had read a status
\* with ORE or IDLE, or a byte filled the ring.
ReadInOrder == ~lost => /\ due = Rx!Contents \o Held(RDR)
                        /\ pc = "r_tail" => data = SubSeq(due, 1, Len(data))

\* While the ring holds bytes, the transmit interrupt is on, unless the caller is about
\* to turn it on: no update of CR1 that is lost between the load and the store of the
\* caller, whichever of the three bits it changes, leaves bytes in the ring unsent.
TransmitterEnabled == tx_head # tx_tail /\ pc # "w_txeie" => "TXEIE" \in CR1
==============================================================================

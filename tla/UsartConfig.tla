----------------------------- MODULE UsartConfig -----------------------------
(***************************************************************************)
(* usart_init of Src/usart.c: the frame format and the baud rate that it   *)
(* sets in CR1, CR2 and BRR, one statement per step, when it is called     *)
(* again and again with different configurations, so that the registers    *)
(* hold what an earlier call left.  A register is the set of its one bits; *)
(* BRR is a number.                                                        *)
(***************************************************************************)
EXTENDS Integers

CONSTANT Baudrates    \* the baud rates requested

ASSUME ConfigAssumption == Baudrates \subseteq Nat \ {0}

\* usart_config_t with the enumerations of usart.h as numbers.
Config == [baudrate : Baudrates, word_len : 0 .. 2, stop_bits : 0 .. 3, parity_bit : 0 .. 2]

VARIABLES CR1, CR2, BRR,    \* registers of the peripheral
          config,           \* parameter of usart_init
          at                \* the line of usart_init that is executed next, 0 outside

fvars == <<CR1, CR2, BRR, config, at>>

UART_PARITY_NONE == 2
OVER8 == 15

\* The number n shifted left by k, as a set of bits, for n below 4.
Bits(n, k) == {k : i \in {1} \intersect {n % 2}} \union {k + 1 : i \in {1} \intersect {n \div 2}}

get_uart_clk == 16000000

compute_USARTDIV == (IF OVER8 \in CR1 THEN 2 * get_uart_clk ELSE get_uart_clk) \div config.baudrate

Line(from, to) == at = from /\ at' = to /\ UNCHANGED config

\* The call, after the application has chosen the oversampling, which usart_init reads.
Call(c) == /\ at = 0 /\ at' = 38
           /\ config' = c
           /\ CR1' \in {CR1 \ {OVER8}, CR1 \union {OVER8}}
           /\ UNCHANGED <<CR2, BRR>>

\* Mutant of ClearWordLength: the bits of the last call stay.
DisableOnly == Line(38, 39) /\ CR1' = CR1 \ {0} /\ UNCHANGED <<CR2, BRR>>

ClearWordLength == Line(38, 39) /\ CR1' = CR1 \ {0, 12, 28} /\ UNCHANGED <<CR2, BRR>>

SetWordLength ==
  /\ Line(39, 41)
  /\ LET low  == config.word_len % 2
         high == 2 * (config.word_len \div 2)
     IN  CR1' = CR1 \union Bits(low, 12) \union Bits(high, 28)
  /\ UNCHANGED <<CR2, BRR>>

SetParity ==
  /\ Line(41, 47)
  /\ CR1' = (CR1 \ {9, 10}) \union
              IF config.parity_bit = UART_PARITY_NONE THEN {} ELSE {10} \union Bits(config.parity_bit, 9)
  /\ UNCHANGED <<CR2, BRR>>

SetStopBits == /\ Line(47, 50)
               /\ CR2' = (CR2 \ {12, 13}) \union Bits(config.stop_bits, 12)
               /\ UNCHANGED <<CR1, BRR>>

\* Mutant of SetBaudrate: the fraction is not shifted when oversampling by 8.
UnshiftedFraction == Line(50, 65) /\ BRR' = compute_USARTDIV % 2^16 /\ UNCHANGED <<CR1, CR2>>

\* BRR has 16 bits; the mantissa is masked with 0xFFF0.
SetBaudrate ==
  LET usartdiv == compute_USARTDIV
      fraction == usartdiv % 16
  IN  /\ Line(50, 65)
      /\ BRR' = ((usartdiv \div 16) % 2^12) * 16 + IF OVER8 \in CR1 THEN fraction \div 2 ELSE fraction
      /\ UNCHANGED <<CR1, CR2>>

EnableLines == Line(65, 67) /\ CR1' = CR1 \union {2, 3} /\ UNCHANGED <<CR2, BRR>>

Enable == Line(67, 0) /\ CR1' = CR1 \union {0} /\ UNCHANGED <<CR2, BRR>>

\* The registers after reset.
ConfigInit == /\ CR1 = {} /\ CR2 = {} /\ BRR = 0 /\ at = 0
              /\ config \in Config

ConfigNext == \/ \E c \in Config : Call(c)
              \/ ClearWordLength \/ SetWordLength \/ SetParity \/ SetStopBits
              \/ SetBaudrate \/ EnableLines \/ Enable

ConfigSpec == ConfigInit /\ [][ConfigNext]_fvars

-----------------------------------------------------------------------------
(* How the peripheral reads its registers: the bits that stm32l476xx.h     *)
(* names M0 (12), M1 (28), PS (9), PCE (10), OVER8 (15), STOP (12 and 13). *)

DataBits == IF 12 \in CR1 THEN 9 ELSE IF 28 \in CR1 THEN 7 ELSE 8

Parity == IF 10 \notin CR1 THEN UART_PARITY_NONE ELSE IF 9 \in CR1 THEN 1 ELSE 0

StopBits == (IF 12 \in CR2 THEN 1 ELSE 0) + (IF 13 \in CR2 THEN 2 ELSE 0)

\* The clock cycles per bit, times two when oversampling by 8.
Divider == IF OVER8 \in CR1 THEN (BRR \div 16) * 16 + 2 * (BRR % 8) ELSE BRR

WordLength == <<8, 9, 7>>[config.word_len + 1]

Enabled == 0 \in CR1

(* Properties. *)

\* Whatever configuration and oversampling the registers were left in, and at every
\* step of the call, an enabled USART has the parity, the stop bits and, unless it
\* is 7 bits, the word length of the current configuration.
EnabledFrameIsConfigured ==
  Enabled /\ at \notin {38} =>
    /\ Parity = config.parity_bit /\ StopBits = config.stop_bits
    /\ WordLength # 7 => DataBits = WordLength

\* The divider that an enabled USART applies is that of the requested baud rate, but
\* for the bit that oversampling by 8 cannot express.
EnabledBaudrateIsConfigured ==
  Enabled /\ at \notin {38} =>
    compute_USARTDIV - Divider \in IF OVER8 \in CR1 THEN {0, 1} ELSE {0}
==============================================================================

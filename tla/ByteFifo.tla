------------------------------- MODULE ByteFifo -------------------------------
(***************************************************************************)
(* What a ring buffer of Size bytes does for its callers: first in, first  *)
(* out, what does not fit is refused, and a push that fits exactly loses   *)
(* everything that is held, because a full ring looks like an empty one.   *)
(***************************************************************************)
EXTENDS Naturals, Sequences

CONSTANTS Byte, Size

VARIABLES held,    \* the bytes in the buffer, oldest first
          out,     \* the bytes the last pop delivered
          ret      \* the last call: its name, its length and what it returned

Refuse(data) == /\ Len(held) + Len(data) > Size
                /\ ret' = <<"push", Len(data), FALSE>> /\ UNCHANGED <<held, out>>

Push(data) == /\ Len(held) + Len(data) < Size
              /\ held' = held \o data
              /\ ret' = <<"push", Len(data), TRUE>> /\ UNCHANGED out

Fill(data) == /\ Len(held) + Len(data) = Size
              /\ held' = << >>
              /\ ret' = <<"push", Len(data), TRUE>> /\ UNCHANGED out

Pop(n) == /\ n <= Len(held)
          /\ out' = SubSeq(held, 1, n)
          /\ held' = SubSeq(held, n + 1, Len(held))
          /\ ret' = <<"pop", n, TRUE>>

PopTooMany(n) == /\ n > Len(held)
                 /\ ret' = <<"pop", n, FALSE>> /\ UNCHANGED <<held, out>>

Init == held = << >> /\ out = << >> /\ ret = << >>

Next == \/ \E n \in 1 .. Size + 1 : \E data \in [1 .. n -> Byte] :
              Refuse(data) \/ Push(data) \/ Fill(data)
        \/ \E n \in 1 .. Size + 1 : Pop(n) \/ PopTooMany(n)

Spec == Init /\ [][Next]_<<held, out, ret>>
==============================================================================

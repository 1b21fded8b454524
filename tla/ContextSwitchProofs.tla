-------------------------- MODULE ContextSwitchProofs --------------------------
(***************************************************************************)
(* Context switches are transparent to the tasks, for any number of tasks, *)
(* any stack size and any values in the registers.                         *)
(***************************************************************************)
EXTENDS ContextSwitch, TLAPS

\* The words that registers and stacks hold.
Datum == {Nil} \union {Word(t, r, v) : t \in Process, r \in Register,
                           v \in Value \union {"arg", "0xFFFFFFFD", "entry", "0x01000000", "0"}}

SwitchTypeOK ==
  /\ regs \in [Register -> Datum]
  /\ psp \in [stack : Process \union {Nil}, at : Nat]
  /\ mem \in [Process -> [1 .. StackWords -> Datum]]
  /\ sp \in [Process -> Nat]
  /\ os_started \in BOOLEAN /\ mode \in {"thread", "handler", "pendsv"}
  /\ ctx \in [Process -> [Register -> Datum]] /\ own \in [Process -> Seq(Datum)]

\* The eight words from address a on are task t's registers f.
HasWords(t, a, f) == \A i \in 1 .. 8 : mem[t][a + i - 1] = ctx[t][f[i]]

SwitchedOut(t) == /\ sp[t] >= 1
                  /\ HasWords(t, sp[t], r4_r11) /\ HasWords(t, sp[t] + 8, Stacked)
                  /\ OwnsFrom(t, sp[t] + 16)

Interrupted(t) == /\ psp.stack = t /\ psp.at >= 9
                  /\ HasWords(t, psp.at, Stacked) /\ OwnsFrom(t, psp.at + 8)
                  /\ \A i \in 1 .. 8 : regs[r4_r11[i]] = ctx[t][r4_r11[i]]

Running(t) == /\ psp.stack = t /\ psp.at >= 17
              /\ OwnsFrom(t, psp.at) /\ regs = ctx[t]

\* The inductive invariant: each created task is running, interrupted or switched out.
SwitchInv ==
  /\ SwitchTypeOK
  /\ IF os_started THEN cur_process \in Created ELSE cur_process = Nil
  /\ \A t \in Created : t # cur_process => SwitchedOut(t)
  /\ \A t \in Process : t \notin Created => own[t] = << >>
  /\ mode = "pendsv" => next_process \in Created
  /\ os_started => IF mode = "thread" THEN Running(cur_process) ELSE Interrupted(cur_process)

-----------------------------------------------------------------------------
(* Registers and frames. *)

\* The two groups are eight different registers each, and have none in common.
LEMMA Groups ==
  /\ \A f \in {Stacked, r4_r11} :
       /\ DOMAIN f = 1 .. 8 /\ In(f) = {f[i] : i \in 1 .. 8} /\ In(f) \subseteq Register
       /\ \A i, j \in 1 .. 8 : f[i] = f[j] => i = j
  /\ Register = In(Stacked) \union In(r4_r11)
  /\ In(Stacked) \intersect In(r4_r11) = {}
<1>1. /\ DOMAIN Stacked = 1 .. 8
      /\ \A i, j \in 1 .. 8 : Stacked[i] = Stacked[j] => i = j
  BY DEF Stacked
<1>2. /\ DOMAIN r4_r11 = 1 .. 8
      /\ \A i, j \in 1 .. 8 : r4_r11[i] = r4_r11[j] => i = j
  BY DEF r4_r11
<1>3. \A i, j \in 1 .. 8 : Stacked[i] # r4_r11[j]
  BY DEF Stacked, r4_r11
<1> QED  BY <1>1, <1>2, <1>3 DEF In, Register

LEMMA LoadedFrame ==
  ASSUME NEW f \in {Stacked, r4_r11}, NEW rs, NEW m, NEW a
  PROVE  /\ \A i \in 1 .. 8 : Loaded(rs, m, a, f)[f[i]] = m[a + i - 1]
         /\ \A r \in Register : r \notin In(f) => Loaded(rs, m, a, f)[r] = rs[r]
         /\ Loaded(rs, m, a, f) = [r \in Register |-> Loaded(rs, m, a, f)[r]]
<1>1. /\ DOMAIN f = 1 .. 8 /\ In(f) = {f[i] : i \in 1 .. 8} /\ In(f) \subseteq Register
      /\ \A i, j \in 1 .. 8 : f[i] = f[j] => i = j
  BY Groups
<1>2. ASSUME NEW i \in 1 .. 8 PROVE Loaded(rs, m, a, f)[f[i]] = m[a + i - 1]
  <2>1. f[i] \in In(f) /\ f[i] \in Register
    BY <1>1
  <2>2. (CHOOSE j \in DOMAIN f : f[j] = f[i]) = i
    BY <1>1
  <2>3. Loaded(rs, m, a, f)[f[i]] = m[a + (CHOOSE j \in DOMAIN f : f[j] = f[i]) - 1]
    BY <2>1 DEF Loaded
  <2> QED  BY <2>2, <2>3
<1> QED  BY <1>2 DEF Loaded

\* What a push of the words w below address a changes and leaves alone.
LEMMA PushedWords ==
  ASSUME NEW m \in [1 .. StackWords -> Datum], NEW w \in Seq(Datum), NEW a \in Nat,
         a > Len(w), a <= StackWords + 1
  PROVE  /\ Pushed(m, a, w) \in [1 .. StackWords -> Datum]
         /\ \A i \in 1 .. Len(w) : Pushed(m, a, w)[(a - Len(w)) + i - 1] = w[i]
         /\ \A j \in 1 .. StackWords : j < a - Len(w) \/ j >= a => Pushed(m, a, w)[j] = m[j]
<1>1. StackWords \in Nat /\ Len(w) \in Nat
  BY SwitchAssumption
<1>2. DOMAIN m = 1 .. StackWords
  OBVIOUS
<1>3. Pushed(m, a, w) = [j \in 1 .. StackWords |->
          IF j \in a - Len(w) .. a - 1 THEN w[j - a + Len(w) + 1] ELSE m[j]]
  BY <1>2 DEF Pushed
<1>4. ASSUME NEW j \in 1 .. StackWords, j \in a - Len(w) .. a - 1
      PROVE  j - a + Len(w) + 1 \in 1 .. Len(w) /\ w[j - a + Len(w) + 1] \in Datum
  BY <1>1, <1>4
<1>5. Pushed(m, a, w) \in [1 .. StackWords -> Datum]
  BY <1>3, <1>4
<1>6. ASSUME NEW i \in 1 .. Len(w) PROVE Pushed(m, a, w)[(a - Len(w)) + i - 1] = w[i]
  <2>1. /\ (a - Len(w)) + i - 1 \in 1 .. StackWords
        /\ (a - Len(w)) + i - 1 \in a - Len(w) .. a - 1
        /\ ((a - Len(w)) + i - 1) - a + Len(w) + 1 = i
    BY <1>1
  <2> QED  BY <1>3, <2>1
<1>7. ASSUME NEW j \in 1 .. StackWords, j < a - Len(w) \/ j >= a
      PROVE  Pushed(m, a, w)[j] = m[j]
  <2>1. j \notin a - Len(w) .. a - 1
    BY <1>1, <1>7
  <2> QED  BY <1>3, <2>1
<1> QED  BY <1>5, <1>6, <1>7

LEMMA StoredWords ==
  ASSUME NEW f \in {Stacked, r4_r11}, NEW rs \in [Register -> Datum]
  PROVE  /\ Saved(rs, f) \in Seq(Datum) /\ Len(Saved(rs, f)) = 8
         /\ \A i \in 1 .. 8 : Saved(rs, f)[i] = rs[f[i]]
<1>1. DOMAIN f = 1 .. 8 /\ \A i \in 1 .. 8 : f[i] \in Register
  BY Groups
<1>2. Saved(rs, f) = [i \in 1 .. 8 |-> rs[f[i]]]
  BY <1>1 DEF Saved
<1> QED  BY <1>1, <1>2

\* The stack n is m with the registers f of the file rs below address a.
FramePushed(n, m, a, rs, f) ==
  /\ n \in [1 .. StackWords -> Datum]
  /\ \A i \in 1 .. 8 : n[(a - 8) + i - 1] = rs[f[i]]
  /\ \A j \in 1 .. StackWords : j < a - 8 \/ j >= a => n[j] = m[j]

LEMMA PushedFrame ==
  ASSUME NEW f \in {Stacked, r4_r11}, NEW rs \in [Register -> Datum],
         NEW m \in [1 .. StackWords -> Datum], NEW a \in Nat, a >= 9, a <= StackWords + 1
  PROVE  FramePushed(Pushed(m, a, Saved(rs, f)), m, a, rs, f)
<1> DEFINE w == Saved(rs, f)
<1>1. w \in Seq(Datum) /\ Len(w) = 8 /\ \A i \in 1 .. 8 : w[i] = rs[f[i]]
  BY StoredWords
<1> HIDE DEF w
<1>2. /\ Pushed(m, a, w) \in [1 .. StackWords -> Datum]
      /\ \A i \in 1 .. Len(w) : Pushed(m, a, w)[(a - Len(w)) + i - 1] = w[i]
      /\ \A j \in 1 .. StackWords : j < a - Len(w) \/ j >= a => Pushed(m, a, w)[j] = m[j]
  <2>1. a > Len(w)
    BY <1>1
  <2> QED  BY <1>1, <2>1, PushedWords
<1>3. /\ \A i \in 1 .. 8 : Pushed(m, a, w)[(a - 8) + i - 1] = rs[f[i]]
      /\ \A j \in 1 .. StackWords : j < a - 8 \/ j >= a => Pushed(m, a, w)[j] = m[j]
  BY <1>1, <1>2
<1> QED  BY <1>2, <1>3 DEF w, FramePushed

LEMMA InitialContextTyped ==
  ASSUME NEW t \in Process PROVE InitialContext(t) \in [Register -> Datum]
<1>1. ASSUME NEW r \in Register PROVE InitialContext(t)[r] \in Datum
  <2>1. \A x \in {"arg", "0xFFFFFFFD", "entry", "0x01000000", "0"} : Word(t, r, x) \in Datum
    BY DEF Datum
  <2> QED  BY <2>1 DEF InitialContext
<1> QED  BY <1>1 DEF InitialContext

-----------------------------------------------------------------------------
(* The steps. *)

LEMMA KeepsSwitchedOut ==
  ASSUME NEW t, SwitchedOut(t),
         mem'[t] = mem[t], ctx'[t] = ctx[t], own'[t] = own[t], sp'[t] = sp[t]
  PROVE  SwitchedOut(t)'
  BY DEF SwitchedOut, HasWords, OwnsFrom

\* The room for a frame in a stack of which words are owned from address a on.
LEMMA Room ==
  ASSUME SwitchTypeOK, NEW t \in Process, NEW a \in Nat, OwnsFrom(t, a)
  PROVE  StackWords \in Nat /\ a <= StackWords + 1 /\ a = StackWords + 1 - Len(own[t])
<1>1. own[t] \in Seq(Datum)
  BY DEF SwitchTypeOK
<1>2. Len(own[t]) \in Nat /\ StackWords \in Nat
  BY <1>1, SwitchAssumption
<1>3. a = StackWords + 1 - Len(own[t])
  BY DEF OwnsFrom
<1>4. \A n \in Nat : a = StackWords + 1 - n => a <= StackWords + 1
  BY <1>2
<1> QED  BY <1>2, <1>3, <1>4

LEMMA InitSwitchInv == SwitchInit => SwitchInv
<1> SUFFICES ASSUME SwitchInit PROVE SwitchInv
  OBVIOUS
<1> USE DEF SwitchInit
<1>1. SwitchTypeOK
  <2>1. Nil \in Datum /\ << >> \in Seq(Datum)
    BY DEF Datum
  <2>2. psp \in [stack : Process \union {Nil}, at : Nat]
    OBVIOUS
  <2> QED  BY <2>1, <2>2 DEF SwitchTypeOK
<1>2. Created = {} /\ own = [t \in Process |-> << >>] /\ os_started = FALSE
  BY DEF Created
<1> QED  BY <1>1, <1>2 DEF SwitchInv

LEMMA CreateKeeps ==
  ASSUME SwitchInv, NEW t \in Process, task_create(t)
  PROVE  SwitchInv'
<1> USE DEF task_create
<1>1. SwitchTypeOK /\ t \notin Created /\ StackWords \in Nat /\ StackWords >= 16
  BY SwitchAssumption DEF SwitchInv
<1> DEFINE rs == InitialContext(t)
           m  == Pushed(mem[t], StackWords + 1, Saved(rs, Stacked))
<1>2. rs \in [Register -> Datum] /\ mem[t] \in [1 .. StackWords -> Datum]
  BY <1>1, InitialContextTyped DEF SwitchTypeOK
<1> HIDE DEF rs
<1>3. FramePushed(m, mem[t], StackWords + 1, rs, Stacked)
  <2>1. StackWords + 1 >= 9 /\ StackWords + 1 <= StackWords + 1 /\ StackWords + 1 \in Nat
    BY <1>1
  <2> QED  BY <1>2, <2>1, PushedFrame
<1> HIDE DEF m
<1>4. init_stack(t) = Pushed(m, StackWords + 1 - 8, Saved(rs, r4_r11))
  BY DEF init_stack, m, rs
<1>5. FramePushed(init_stack(t), m, StackWords + 1 - 8, rs, r4_r11)
  <2>1. StackWords + 1 - 8 >= 9 /\ StackWords + 1 - 8 <= StackWords + 1 /\ StackWords + 1 - 8 \in Nat
    BY <1>1
  <2>2. m \in [1 .. StackWords -> Datum]
    BY <1>3 DEF FramePushed
  <2> QED  BY <1>2, <1>4, <2>1, <2>2, PushedFrame
<1>low. \A i \in 1 .. 8 : m[(StackWords + 1 - 8) + i - 1] = rs[Stacked[i]]
  <2>1. PICK b \in Nat : b = StackWords + 1
    BY <1>1
  <2>2. FramePushed(m, mem[t], b, rs, Stacked)
    BY <1>3, <2>1
  <2>3. \A i \in 1 .. 8 : m[(b - 8) + i - 1] = rs[Stacked[i]]
    BY <2>2 DEF FramePushed
  <2>4. \A i \in 1 .. 8 : (b - 8) + i - 1 = (StackWords + 1 - 8) + i - 1
    BY <1>1, <2>1
  <2> QED  BY <2>3, <2>4, Zenon
<1>6. ASSUME NEW i \in 1 .. 8
      PROVE  init_stack(t)[(StackWords + 1 - 8) + i - 1] = rs[Stacked[i]]
  <2> DEFINE j == (StackWords + 1 - 8) + i - 1
  <2>1. j \in 1 .. StackWords /\ j >= StackWords + 1 - 8
    BY <1>1
  <2>2. m[j] = rs[Stacked[i]]
    BY <1>low
  <2> HIDE DEF j
  <2>3. init_stack(t)[j] = m[j]
    BY <1>5, <2>1 DEF FramePushed
  <2> QED  BY <2>2, <2>3 DEF j
<1>7. /\ mem'[t] = init_stack(t) /\ sp'[t] = StackWords + 1 - 16 /\ ctx'[t] = rs
      /\ own[t] = << >> /\ t # cur_process
      /\ \A u \in Process : u # t => mem'[u] = mem[u] /\ sp'[u] = sp[u] /\ ctx'[u] = ctx[u]
      /\ UNCHANGED <<regs, psp, os_started, cur_process, next_process, mode, own>>
  <2>1. t # cur_process
    BY <1>1, SwitchAssumption DEF SwitchInv, Created
  <2> QED  BY <1>1, <2>1 DEF SwitchInv, SwitchTypeOK, rs
<1>8. SwitchTypeOK'
  <2>1. init_stack(t) \in [1 .. StackWords -> Datum] /\ StackWords + 1 - 16 \in Nat
    BY <1>1, <1>5 DEF FramePushed
  <2>2. InitialContext(t) \in [Register -> Datum]
    BY <1>2 DEF rs
  <2> QED  BY <1>1, <1>7, <2>1, <2>2 DEF SwitchTypeOK
<1>9. SwitchedOut(t)'
  <2>1. sp'[t] >= 1 /\ sp'[t] + 8 = StackWords + 1 - 8 /\ sp'[t] = (StackWords + 1 - 8) - 8
        /\ sp'[t] + 16 = StackWords + 1
    BY <1>1, <1>7
  <2>2. HasWords(t, sp[t], r4_r11)' /\ HasWords(t, sp[t] + 8, Stacked)'
    <3>1. \A i \in 1 .. 8 : mem'[t][sp'[t] + i - 1] = ctx'[t][r4_r11[i]]
      BY <1>5, <1>7, <2>1 DEF FramePushed
    <3>2. \A i \in 1 .. 8 : mem'[t][sp'[t] + 8 + i - 1] = ctx'[t][Stacked[i]]
      BY <1>6, <1>7, <2>1
    <3> QED  BY <3>1, <3>2 DEF HasWords
  <2>3. OwnsFrom(t, sp[t] + 16)'
    BY <1>1, <1>7, <2>1 DEF OwnsFrom
  <2> QED  BY <2>1, <2>2, <2>3 DEF SwitchedOut
<1>10. Created' = Created \union {t}
  BY <1>1, <1>7 DEF Created
<1>11. \A u \in Created' : u # cur_process => SwitchedOut(u)'
  <2>1. ASSUME NEW u \in Created, u # cur_process, u # t PROVE SwitchedOut(u)'
    BY <1>7, <2>1, KeepsSwitchedOut DEF SwitchInv, Created
  <2> QED  BY <1>9, <1>10, <2>1
<1>12. ASSUME os_started PROVE Running(cur_process)'
  <2>1. cur_process \in Process /\ cur_process # t /\ Running(cur_process)
    BY <1>7, <1>12 DEF SwitchInv, Created
  <2> QED  BY <1>7, <2>1 DEF Running, OwnsFrom
<1> QED  BY <1>1, <1>7, <1>8, <1>10, <1>11, <1>12 DEF SwitchInv

LEMMA ExceptionKeeps == ASSUME SwitchInv, Exception PROVE SwitchInv'
<1> USE DEF Exception
<1>1. SwitchTypeOK /\ Created' = Created /\ mode = "thread"
  BY DEF SwitchInv, Created
<1>2. /\ regs' \in [Register -> Datum]
      /\ \A i \in 1 .. 8 : regs'[r4_r11[i]] = regs[r4_r11[i]]
  <2>1. \A i \in 1 .. 8 : r4_r11[i] \in Register /\ r4_r11[i] \notin In(Stacked)
    BY Groups
  <2>2. Nil \in Datum
    BY DEF Datum
  <2> QED  BY <1>1, <2>1, <2>2 DEF SwitchTypeOK, Clobbered
<1>3. CASE ~os_started
  <2>1. SwitchTypeOK'
    BY <1>1, <1>2, <1>3 DEF SwitchTypeOK
  <2>2. ASSUME NEW t \in Created, t # cur_process PROVE SwitchedOut(t)'
    BY <1>3, <2>2, KeepsSwitchedOut DEF SwitchInv
  <2> QED  BY <1>1, <1>3, <2>1, <2>2 DEF SwitchInv
<1>4. CASE os_started
  <2> DEFINE t == cur_process
  <2>1. /\ t \in Created /\ t \in Process /\ psp.stack = t /\ psp.at >= 17 /\ psp.at \in Nat
        /\ OwnsFrom(t, psp.at) /\ regs = ctx[t] /\ mem[t] \in [1 .. StackWords -> Datum]
        /\ regs \in [Register -> Datum]
    BY <1>1, <1>4 DEF SwitchInv, Running, SwitchTypeOK, Created
  <2>2. StackWords \in Nat /\ psp.at <= StackWords + 1
    BY <1>1, <2>1, Room
  <2>3. FramePushed(Pushed(mem[t], psp.at, Saved(regs, Stacked)), mem[t], psp.at, regs, Stacked)
    <3>1. psp.at >= 9
      BY <2>1
    <3> QED  BY <2>1, <2>2, <3>1, PushedFrame
  <2>4. mem' = [mem EXCEPT ![t] = Pushed(mem[t], psp.at, Saved(regs, Stacked))]
    BY <1>4, <2>1
  <2>11. psp'.stack = t /\ psp'.at = psp.at - 8 /\ psp' \in [stack : Process \union {Nil}, at : Nat]
    <3>1. psp' = [psp EXCEPT !.at = @ - 8] /\ psp \in [stack : Process \union {Nil}, at : Nat]
      BY <1>1, <1>4 DEF SwitchTypeOK
    <3> QED  BY <2>1, <3>1
  <2>5. SwitchTypeOK'
    BY <1>1, <1>2, <2>1, <2>3, <2>4, <2>11 DEF SwitchTypeOK, FramePushed
  <2>6. ASSUME NEW u \in Created, u # cur_process PROVE SwitchedOut(u)'
    <3>1. mem'[u] = mem[u]
      BY <1>1, <2>4, <2>6 DEF SwitchTypeOK, Created
    <3> QED  BY <2>6, <3>1, KeepsSwitchedOut DEF SwitchInv
  <2>7. mem'[t] = Pushed(mem[t], psp.at, Saved(regs, Stacked))
    BY <1>1, <2>1, <2>4 DEF SwitchTypeOK
  <2>8. HasWords(t, psp.at, Stacked)'
    <3>1. \A i \in 1 .. 8 : mem'[t][psp'.at + i - 1] = ctx'[t][Stacked[i]]
      BY <2>1, <2>3, <2>7, <2>11 DEF FramePushed
    <3> QED  BY <3>1 DEF HasWords
  <2>9. OwnsFrom(t, psp.at + 8)'
    <3>1. own[t] \in Seq(Datum) /\ Len(own[t]) \in Nat
      BY <1>1, <2>1 DEF SwitchTypeOK
    <3>2. ASSUME NEW i \in 1 .. Len(own[t])
          PROVE  psp.at + i - 1 \in 1 .. StackWords /\ psp.at + i - 1 >= psp.at
      BY <2>1, <2>2, <3>1 DEF OwnsFrom
    <3>3. psp'.at + 8 = psp.at
      BY <2>1, <2>11
    <3>4. ASSUME NEW i \in 1 .. Len(own[t]) PROVE mem'[t][psp.at + i - 1] = own[t][i]
      BY <2>1, <2>3, <2>7, <3>2 DEF FramePushed, OwnsFrom
    <3> QED  BY <2>1, <3>3, <3>4 DEF OwnsFrom
  <2>10. Interrupted(t)'
    BY <1>2, <2>1, <2>8, <2>9, <2>11 DEF Interrupted
  <2> QED  BY <1>1, <1>4, <2>1, <2>5, <2>6, <2>10 DEF SwitchInv
<1> QED  BY <1>3, <1>4

LEMMA ReturnKeeps == ASSUME SwitchInv, Return PROVE SwitchInv'
<1> USE DEF Return
<1>1. SwitchTypeOK /\ Created' = Created /\ mode = "handler"
  BY DEF SwitchInv, Created
<1>2. ASSUME NEW u \in Created, u # cur_process PROVE SwitchedOut(u)'
  BY <1>2, KeepsSwitchedOut DEF SwitchInv
<1>3. CASE ~os_started
  <2>1. SwitchTypeOK' /\ mode' = "thread"
    BY <1>1, <1>3 DEF SwitchTypeOK
  <2> QED  BY <1>1, <1>2, <1>3, <2>1 DEF SwitchInv
<1>4. CASE os_started
  <2> DEFINE t == cur_process
             a == psp.at
  <2>1. /\ t \in Created /\ t \in Process /\ psp.stack = t /\ a >= 9 /\ a \in Nat
        /\ HasWords(t, a, Stacked) /\ OwnsFrom(t, a + 8)
        /\ \A i \in 1 .. 8 : regs[r4_r11[i]] = ctx[t][r4_r11[i]]
    BY <1>1, <1>4 DEF SwitchInv, Interrupted, SwitchTypeOK, Created
  <2>2. /\ regs' = Loaded(regs, mem[t], a, Stacked)
        /\ psp' = [stack |-> t, at |-> a + 8] /\ mode' = "thread"
    BY <1>4, <2>1 DEF Resume
  <2>3. regs' = ctx[t]
    <3>1. /\ \A i \in 1 .. 8 : regs'[Stacked[i]] = mem[t][a + i - 1]
          /\ \A r \in Register : r \notin In(Stacked) => regs'[r] = regs[r]
          /\ regs' = [r \in Register |-> regs'[r]]
      BY <2>2, LoadedFrame
    <3>2. ASSUME NEW r \in Register PROVE regs'[r] = ctx[t][r]
      <4>1. CASE r \in In(Stacked)
        <5>1. PICK i \in 1 .. 8 : r = Stacked[i]
          BY <4>1, Groups
        <5> QED  BY <2>1, <3>1, <5>1 DEF HasWords
      <4>2. CASE r \notin In(Stacked)
        <5>1. PICK i \in 1 .. 8 : r = r4_r11[i]
          BY <4>2, Groups
        <5> QED  BY <2>1, <3>1, <4>2, <5>1
      <4> QED  BY <4>1, <4>2
    <3>3. ctx[t] = [r \in Register |-> ctx[t][r]]
      BY <1>1, <2>1 DEF SwitchTypeOK
    <3> QED  BY <3>1, <3>2, <3>3
  <2>4. psp'.stack = t /\ psp'.at = a + 8 /\ psp' \in [stack : Process \union {Nil}, at : Nat]
    BY <2>1, <2>2
  <2>5. SwitchTypeOK'
    BY <1>1, <2>1, <2>2, <2>3, <2>4 DEF SwitchTypeOK
  <2>6. Running(t)'
    BY <2>1, <2>3, <2>4 DEF Running, OwnsFrom
  <2> QED  BY <1>1, <1>2, <1>4, <2>1, <2>2, <2>5, <2>6 DEF SwitchInv
<1> QED  BY <1>3, <1>4

LEMMA TickKeeps == ASSUME SwitchInv, NEW t \in Process, scheduler_tick(t) PROVE SwitchInv'
<1> USE DEF scheduler_tick
<1>1. SwitchTypeOK' /\ Created' = Created
  BY DEF SwitchInv, SwitchTypeOK, Created
<1>2. \A u \in Created : u # cur_process => SwitchedOut(u)'
  BY KeepsSwitchedOut DEF SwitchInv
<1>3. os_started => Interrupted(cur_process)'
  BY DEF SwitchInv, Interrupted, HasWords, OwnsFrom
<1> QED  BY <1>1, <1>2, <1>3 DEF SwitchInv

\* The save makes the interrupted task a switched-out one.
LEMMA SaveKeeps ==
  ASSUME SwitchInv, mode = "pendsv", os_started, save_state,
         UNCHANGED <<ctx, own>>
  PROVE  /\ mem' \in [Process -> [1 .. StackWords -> Datum]] /\ sp' \in [Process -> Nat]
         /\ Created' = Created
         /\ \A u \in Created : SwitchedOut(u)'
<1>t. PICK t \in Process : t = cur_process
  BY DEF SwitchInv, Created
<1>a. PICK a \in Nat : a = psp.at
  BY DEF SwitchInv, SwitchTypeOK
<1> DEFINE n == Pushed(mem[t], a, Saved(regs, r4_r11))
<1>1. /\ SwitchTypeOK /\ t \in Created /\ psp.stack = t /\ a >= 9
      /\ HasWords(t, a, Stacked) /\ OwnsFrom(t, a + 8)
      /\ \A i \in 1 .. 8 : regs[r4_r11[i]] = ctx[t][r4_r11[i]]
  BY <1>t, <1>a DEF SwitchInv, Interrupted, SwitchTypeOK, Created
<1>2. /\ mem[t] \in [1 .. StackWords -> Datum] /\ regs \in [Register -> Datum]
      /\ own[t] \in Seq(Datum) /\ Len(own[t]) \in Nat
  BY <1>1 DEF SwitchTypeOK
<1>3. StackWords \in Nat /\ a + 8 <= StackWords + 1 /\ a + 8 = StackWords + 1 - Len(own[t])
  <2>1. a + 8 \in Nat
    BY <1>1
  <2> QED  BY <1>1, <2>1, Room
<1>4. FramePushed(n, mem[t], a, regs, r4_r11)
  <2>1. a <= StackWords + 1
    BY <1>1, <1>3
  <2> QED  BY <1>1, <1>2, <2>1, PushedFrame
<1>5. /\ mem' = [mem EXCEPT ![t] = n] /\ sp' = [sp EXCEPT ![t] = a - 8]
      /\ ctx' = ctx /\ own' = own
  BY <1>t, <1>a, <1>1 DEF save_state
<1> HIDE DEF n
<1>6. mem' \in [Process -> [1 .. StackWords -> Datum]] /\ sp' \in [Process -> Nat]
  <2>1. n \in [1 .. StackWords -> Datum] /\ a - 8 \in Nat
    BY <1>1, <1>4 DEF FramePushed
  <2> QED  BY <1>1, <1>5, <2>1 DEF SwitchTypeOK
<1>7. mem'[t] = n /\ sp'[t] = a - 8
  BY <1>1, <1>5 DEF SwitchTypeOK
<1>8. Created' = Created
  BY <1>1, <1>5, <1>7 DEF Created, SwitchTypeOK
<1>9. SwitchedOut(t)'
  <2>1. sp'[t] >= 1 /\ sp'[t] + 8 = a /\ sp'[t] + 16 = a + 8
    BY <1>1, <1>7
  <2>2. \A i \in 1 .. 8 : mem'[t][sp'[t] + i - 1] = ctx'[t][r4_r11[i]]
    <3>1. \A i \in 1 .. 8 : n[(a - 8) + i - 1] = regs[r4_r11[i]]
      BY <1>4 DEF FramePushed
    <3> QED  BY <1>1, <1>5, <1>7, <3>1
  <2>3. ASSUME NEW i \in 1 .. 8 PROVE mem'[t][a + i - 1] = ctx'[t][Stacked[i]]
    <3>1. a + i - 1 \in 1 .. StackWords /\ a + i - 1 >= a
      BY <1>1, <1>3
    <3>2. n[a + i - 1] = mem[t][a + i - 1]
      BY <1>4, <3>1 DEF FramePushed
    <3> QED  BY <1>1, <1>5, <1>7, <3>2 DEF HasWords
  <2>4. ASSUME NEW i \in 1 .. Len(own[t]) PROVE mem'[t][(a + 8) + i - 1] = own[t][i]
    <3>1. (a + 8) + i - 1 \in 1 .. StackWords /\ (a + 8) + i - 1 >= a
      <4>1. PICK k \in Nat : k = Len(own[t])
        BY <1>2
      <4>2. a + 8 = StackWords + 1 - k /\ i \in 1 .. k
        BY <1>3, <4>1
      <4> QED  BY <1>3, <4>2
    <3>2. n[(a + 8) + i - 1] = mem[t][(a + 8) + i - 1]
      BY <1>4, <3>1 DEF FramePushed
    <3> QED  BY <1>1, <1>7, <3>2 DEF OwnsFrom
  <2>5. HasWords(t, sp[t], r4_r11)' /\ HasWords(t, sp[t] + 8, Stacked)'
    BY <2>1, <2>2, <2>3 DEF HasWords
  <2>6. OwnsFrom(t, sp[t] + 16)'
    BY <1>1, <1>5, <2>1, <2>4 DEF OwnsFrom
  <2> QED  BY <2>1, <2>5, <2>6 DEF SwitchedOut
<1>10. ASSUME NEW u \in Created, u # t PROVE SwitchedOut(u)'
  <2>1. mem'[u] = mem[u] /\ sp'[u] = sp[u]
    BY <1>1, <1>5, <1>10 DEF SwitchTypeOK, Created
  <2> QED  BY <1>t, <1>5, <1>10, <2>1, KeepsSwitchedOut DEF SwitchInv
<1> QED  BY <1>6, <1>8, <1>9, <1>10

LEMMA PendSVKeeps == ASSUME SwitchInv, PendSV_Handler PROVE SwitchInv'
<1> USE DEF PendSV_Handler
<1> DEFINE t == next_process
<1>1. SwitchTypeOK /\ t \in Created /\ t \in Process /\ mode = "pendsv"
  BY DEF SwitchInv, Created
<1>2. /\ mem' \in [Process -> [1 .. StackWords -> Datum]] /\ sp' \in [Process -> Nat]
      /\ Created' = Created /\ \A u \in Created : SwitchedOut(u)'
  <2>1. CASE os_started
    BY <1>1, <2>1, SaveKeeps
  <2>2. CASE ~os_started
    <3>1. mem' = mem /\ sp' = sp /\ ctx' = ctx /\ own' = own /\ cur_process \notin Process
      BY <2>2, SwitchAssumption DEF SwitchInv
    <3>2. \A u \in Created : SwitchedOut(u)
      BY <3>1 DEF SwitchInv, Created
    <3> QED  BY <1>1, <3>1, <3>2, KeepsSwitchedOut DEF SwitchTypeOK, Created
  <2> QED  BY <2>1, <2>2
<1>3. /\ sp'[t] \in Nat /\ sp'[t] >= 1 /\ ctx' = ctx /\ own' = own
      /\ \A i \in 1 .. 8 : mem'[t][sp'[t] + i - 1] = ctx[t][r4_r11[i]]
      /\ \A i \in 1 .. 8 : mem'[t][sp'[t] + 8 + i - 1] = ctx[t][Stacked[i]]
      /\ OwnsFrom(t, sp[t] + 16)'
  BY <1>1, <1>2 DEF SwitchedOut, HasWords
<1> DEFINE rs == Loaded(regs, mem'[t], sp'[t], r4_r11)
<1>4. /\ regs' = Loaded(rs, mem'[t], sp'[t] + 8, Stacked)
      /\ psp' = [stack |-> t, at |-> sp'[t] + 8 + 8] /\ mode' = "thread"
      /\ cur_process' = t /\ os_started' = TRUE /\ next_process' = t
  BY DEF restore_state, Resume, increment_process
<1>5. regs' = ctx[t]
  <2>1. \A i \in 1 .. 8 : rs[r4_r11[i]] = mem'[t][sp'[t] + i - 1]
    BY LoadedFrame
  <2> HIDE DEF rs
  <2>2. /\ \A i \in 1 .. 8 : regs'[Stacked[i]] = mem'[t][(sp'[t] + 8) + i - 1]
        /\ \A r \in Register : r \notin In(Stacked) => regs'[r] = rs[r]
        /\ regs' = [r \in Register |-> regs'[r]]
    BY <1>4, LoadedFrame
  <2>3. ASSUME NEW r \in Register PROVE regs'[r] = ctx[t][r]
    <3>1. CASE r \in In(Stacked)
      <4>1. PICK i \in 1 .. 8 : r = Stacked[i]
        BY <3>1, Groups
      <4> QED  BY <1>3, <2>2, <4>1
    <3>2. CASE r \notin In(Stacked)
      <4>1. PICK i \in 1 .. 8 : r = r4_r11[i]
        BY <3>2, Groups
      <4> QED  BY <1>3, <2>1, <2>2, <3>2, <4>1
    <3> QED  BY <3>1, <3>2
  <2>4. ctx[t] = [r \in Register |-> ctx[t][r]]
    BY <1>1 DEF SwitchTypeOK
  <2> QED  BY <2>2, <2>3, <2>4
<1>6. /\ psp'.stack = t /\ psp'.at = sp'[t] + 16 /\ psp'.at >= 17
      /\ psp' \in [stack : Process \union {Nil}, at : Nat]
  BY <1>1, <1>3, <1>4
<1>7. SwitchTypeOK'
  <2>1. os_started' \in BOOLEAN
    BY <1>4, Zenon
  <2>2. regs' \in [Register -> Datum]
    BY <1>1, <1>5 DEF SwitchTypeOK
  <2> QED  BY <1>1, <1>2, <1>3, <1>4, <1>6, <2>1, <2>2 DEF SwitchTypeOK
<1>8. Running(t)'
  BY <1>3, <1>5, <1>6 DEF Running, OwnsFrom
<1>9. \A u \in Process : u \notin Created => own'[u] = << >>
  BY <1>3 DEF SwitchInv
<1> QED  BY <1>1, <1>2, <1>4, <1>7, <1>8, <1>9 DEF SwitchInv

\* What a task does keeps the others as they are.
LEMMA TaskStepKeeps ==
  ASSUME SwitchInv, NEW t \in Process, InTask(t), SwitchTypeOK', Running(t)',
         UNCHANGED <<sp, os_started, cur_process, next_process, mode>>,
         \A u \in Process : u # t => mem'[u] = mem[u] /\ ctx'[u] = ctx[u] /\ own'[u] = own[u]
  PROVE  SwitchInv'
<1>1. t = cur_process /\ t \in Created /\ mode = "thread" /\ Created' = Created
  BY DEF InTask, SwitchInv, Created
<1>2. ASSUME NEW u \in Created, u # t PROVE SwitchedOut(u)'
  <2>1. u \in Process /\ sp'[u] = sp[u] /\ SwitchedOut(u)
    BY <1>1, <1>2 DEF SwitchInv, Created
  <2> QED  BY <1>2, <2>1, KeepsSwitchedOut
<1>3. ASSUME NEW u \in Process, u \notin Created PROVE own'[u] = << >>
  BY <1>1, <1>3 DEF SwitchInv
<1> QED  BY <1>1, <1>2, <1>3 DEF SwitchInv

LEMMA InTaskRuns ==
  ASSUME SwitchInv, NEW t \in Process, InTask(t)
  PROVE  SwitchTypeOK /\ Running(t)
  BY DEF InTask, SwitchInv

LEMMA ComputeKeeps == ASSUME SwitchInv, NEW t \in Process, Compute(t) PROVE SwitchInv'
<1> USE DEF Compute
<1>1. SwitchTypeOK /\ Running(t)
  BY InTaskRuns
<1>2. regs' \in [Register -> Datum]
  BY DEF Datum
<1>3. ctx'[t] = regs' /\ \A u \in Process : u # t => ctx'[u] = ctx[u]
  BY <1>1 DEF SwitchTypeOK
<1>4. SwitchTypeOK'
  BY <1>1, <1>2 DEF SwitchTypeOK
<1>5. Running(t)'
  BY <1>1, <1>3 DEF Running, OwnsFrom
<1> QED  BY <1>3, <1>4, <1>5, TaskStepKeeps

LEMMA PushKeeps == ASSUME SwitchInv, NEW t \in Process, PushWord(t) PROVE SwitchInv'
<1>1. /\ InTask(t) /\ psp.at - 1 > 16 /\ psp' = [psp EXCEPT !.at = @ - 1]
      /\ mem' = [mem EXCEPT ![psp.stack] = Pushed(@, psp.at, <<regs["r4"]>>)]
      /\ own' = [own EXCEPT ![t] = <<ctx[t]["r4"]>> \o @]
      /\ UNCHANGED <<regs, sp, os_started, cur_process, next_process, mode, ctx>>
  BY DEF PushWord
<1>2. SwitchTypeOK /\ Running(t)
  BY <1>1, InTaskRuns
<1>3. PICK a \in Nat : a = psp.at
  BY <1>2 DEF SwitchTypeOK
<1>4. PICK d \in Datum : d = regs["r4"]
  <2>1. "r4" \in Register
    BY DEF Register, In, r4_r11
  <2> QED  BY <1>2, <2>1 DEF SwitchTypeOK
<1>5. /\ psp.stack = t /\ a >= 18 /\ OwnsFrom(t, a) /\ regs = ctx[t]
      /\ mem[t] \in [1 .. StackWords -> Datum] /\ own[t] \in Seq(Datum)
  BY <1>1, <1>2, <1>3 DEF Running, SwitchTypeOK
<1>6. StackWords \in Nat /\ a <= StackWords + 1 /\ a = StackWords + 1 - Len(own[t])
  BY <1>2, <1>5, Room
<1> DEFINE n == Pushed(mem[t], a, <<d>>)
<1>7. /\ n \in [1 .. StackWords -> Datum] /\ n[a - 1] = d
      /\ \A j \in 1 .. StackWords : j >= a => n[j] = mem[t][j]
  <2>1. <<d>> \in Seq(Datum) /\ Len(<<d>>) = 1 /\ <<d>>[1] = d /\ a > 1
    BY <1>5
  <2>2. PICK w \in Seq(Datum) : w = <<d>>
    BY <2>1
  <2>3. Len(w) = 1 /\ w[1] = d
    BY <2>1, <2>2
  <2>4. /\ Pushed(mem[t], a, w) \in [1 .. StackWords -> Datum]
        /\ \A i \in 1 .. Len(w) : Pushed(mem[t], a, w)[(a - Len(w)) + i - 1] = w[i]
        /\ \A j \in 1 .. StackWords :
             j < a - Len(w) \/ j >= a => Pushed(mem[t], a, w)[j] = mem[t][j]
    <3>1. a > Len(w)
      BY <2>1, <2>3
    <3> QED  BY <1>5, <1>6, <3>1, PushedWords
  <2>5. (a - 1) + 1 - 1 = a - 1 /\ 1 \in 1 .. 1
    OBVIOUS
  <2>6. Pushed(mem[t], a, w)[a - 1] = d
    BY <2>3, <2>4, <2>5
  <2>7. n = Pushed(mem[t], a, w)
    BY <2>2
  <2> QED  BY <2>4, <2>6, <2>7
<1>8. mem' = [mem EXCEPT ![t] = n] /\ own' = [own EXCEPT ![t] = <<d>> \o own[t]]
  BY <1>1, <1>3, <1>4, <1>5
<1> HIDE DEF n
<1>9. /\ mem'[t] = n /\ own'[t] = <<d>> \o own[t]
      /\ \A u \in Process : u # t => mem'[u] = mem[u] /\ own'[u] = own[u]
  BY <1>2, <1>8 DEF SwitchTypeOK
<1>10. PICK k \in Nat : k = Len(own[t])
  BY <1>5
<1>11. /\ own'[t] \in Seq(Datum) /\ Len(own'[t]) = k + 1 /\ own'[t][1] = d
       /\ \A i \in 1 .. k : own'[t][i + 1] = own[t][i]
  BY <1>5, <1>9, <1>10
<1>12. /\ psp'.stack = t /\ psp'.at = a - 1
       /\ psp' \in [stack : Process \union {Nil}, at : Nat]
  <2>1. psp \in [stack : Process \union {Nil}, at : Nat]
    BY <1>2 DEF SwitchTypeOK
  <2> QED  BY <1>1, <1>3, <1>5, <2>1
<1>13. SwitchTypeOK'
  BY <1>1, <1>2, <1>7, <1>8, <1>11, <1>12, <1>9 DEF SwitchTypeOK
<1>14. ASSUME NEW i \in 1 .. k + 1 PROVE mem'[t][(a - 1) + i - 1] = own'[t][i]
  <2>1. CASE i = 1
    BY <1>7, <1>9, <1>11, <2>1
  <2>2. CASE i # 1
    <3>1. i - 1 \in 1 .. k /\ (i - 1) + 1 = i /\ (a - 1) + i - 1 = a + (i - 1) - 1
      BY <2>2
    <3>2. a + (i - 1) - 1 \in 1 .. StackWords /\ a + (i - 1) - 1 >= a
      <4>1. a = StackWords + 1 - k
        BY <1>6, <1>10
      <4>2. a \in Nat /\ a >= 18 /\ StackWords \in Nat /\ k \in Nat /\ i \in 2 .. k + 1
        BY <1>3, <1>5, <1>6, <2>2
      <4> QED  BY <4>1, <4>2
    <3>3. mem[t][a + (i - 1) - 1] = own[t][i - 1]
      BY <1>5, <1>10, <3>1 DEF OwnsFrom
    <3>4. own'[t][i] = own[t][i - 1]
      BY <1>11, <3>1
    <3>5. mem'[t][a + (i - 1) - 1] = mem[t][a + (i - 1) - 1]
      BY <1>7, <1>9, <3>2
    <3> QED  BY <3>1, <3>3, <3>4, <3>5
  <2> QED  BY <2>1, <2>2
<1>15. OwnsFrom(t, psp.at)'
  <2>1. a - 1 = StackWords + 1 - (k + 1)
    BY <1>6, <1>10
  <2> QED  BY <1>11, <1>12, <1>14, <2>1 DEF OwnsFrom
<1>16. Running(t)'
  BY <1>1, <1>5, <1>12, <1>15 DEF Running
<1> QED  BY <1>1, <1>9, <1>13, <1>16, TaskStepKeeps

LEMMA PopKeeps == ASSUME SwitchInv, NEW t \in Process, PopWord(t) PROVE SwitchInv'
<1>1. /\ InTask(t) /\ own[t] # << >> /\ psp' = [psp EXCEPT !.at = @ + 1]
      /\ regs' = [regs EXCEPT !["r4"] = mem[psp.stack][psp.at]]
      /\ ctx' = [ctx EXCEPT ![t]["r4"] = Head(own[t])]
      /\ own' = [own EXCEPT ![t] = Tail(@)]
      /\ UNCHANGED <<mem, sp, os_started, cur_process, next_process, mode>>
  BY DEF PopWord
<1>2. SwitchTypeOK /\ Running(t)
  BY <1>1, InTaskRuns
<1>3. PICK a \in Nat : a = psp.at
  BY <1>2 DEF SwitchTypeOK
<1>5. /\ psp.stack = t /\ a >= 17 /\ OwnsFrom(t, a) /\ regs = ctx[t]
      /\ own[t] \in Seq(Datum) /\ regs \in [Register -> Datum]
  BY <1>1, <1>2, <1>3 DEF Running, SwitchTypeOK
<1>6. StackWords \in Nat /\ a = StackWords + 1 - Len(own[t])
  BY <1>2, <1>5, Room
<1>7. PICK k \in Nat : k + 1 = Len(own[t])
  <2>1. PICK n \in Nat : n = Len(own[t])
    BY <1>5
  <2>2. n # 0
    BY <1>1, <1>5, <2>1
  <2>3. n - 1 \in Nat /\ (n - 1) + 1 = n
    BY <2>2
  <2> QED  BY <2>1, <2>3
<1>8. /\ Head(own[t]) \in Datum /\ Head(own[t]) = own[t][1]
      /\ Tail(own[t]) \in Seq(Datum) /\ Len(Tail(own[t])) = k
      /\ \A i \in 1 .. k : Tail(own[t])[i] = own[t][i + 1]
  BY <1>1, <1>5, <1>7
<1>9. mem[t][a] = Head(own[t])
  <2>1. 1 \in 1 .. Len(own[t]) /\ a + 1 - 1 = a
    BY <1>7
  <2> QED  BY <1>5, <1>8, <2>1 DEF OwnsFrom
<1>10. /\ own'[t] = Tail(own[t]) /\ ctx'[t] = [ctx[t] EXCEPT !["r4"] = Head(own[t])]
       /\ \A u \in Process : u # t => ctx'[u] = ctx[u] /\ own'[u] = own[u]
  BY <1>1, <1>2 DEF SwitchTypeOK
<1>11. regs' = ctx'[t]
  BY <1>1, <1>3, <1>5, <1>9, <1>10
<1>12. /\ psp'.stack = t /\ psp'.at = a + 1
       /\ psp' \in [stack : Process \union {Nil}, at : Nat]
  <2>1. psp \in [stack : Process \union {Nil}, at : Nat]
    BY <1>2 DEF SwitchTypeOK
  <2> QED  BY <1>1, <1>3, <1>5, <2>1
<1>13. regs' \in [Register -> Datum]
  BY <1>1, <1>3, <1>5, <1>8, <1>9
<1>14. SwitchTypeOK'
  BY <1>1, <1>2, <1>8, <1>10, <1>11, <1>12, <1>13 DEF SwitchTypeOK
<1>15. ASSUME NEW i \in 1 .. k PROVE mem[t][(a + 1) + i - 1] = own'[t][i]
  <2>1. i + 1 \in 1 .. Len(own[t]) /\ (a + 1) + i - 1 = a + (i + 1) - 1
    BY <1>7
  <2>2. mem[t][a + (i + 1) - 1] = own[t][i + 1]
    BY <1>5, <2>1 DEF OwnsFrom
  <2> QED  BY <1>8, <1>10, <2>1, <2>2
<1>16. OwnsFrom(t, psp.at)'
  <2>1. a = StackWords + 1 - (k + 1)
    BY <1>6, <1>7
  <2>2. a + 1 = StackWords + 1 - k
    <3>1. StackWords \in Nat
      BY <1>6
    <3> QED  BY <2>1, <3>1
  <2>3. Len(own'[t]) = k
    BY <1>8, <1>10
  <2>4. mem'[t] = mem[t] /\ psp'.at = a + 1
    BY <1>1, <1>12
  <2>5. \A i \in 1 .. k : mem'[t][(a + 1) + i - 1] = own'[t][i]
    BY <1>15, <2>4
  <2>6. /\ psp'.at = StackWords + 1 - Len(own'[t])
        /\ \A i \in 1 .. Len(own'[t]) : mem'[t][psp'.at + i - 1] = own'[t][i]
    BY <2>2, <2>3, <2>4, <2>5
  <2> QED  BY <2>6 DEF OwnsFrom
<1>17. Running(t)'
  BY <1>5, <1>11, <1>12, <1>16 DEF Running
<1> QED  BY <1>1, <1>10, <1>14, <1>17, TaskStepKeeps

LEMMA StepKeepsSwitchInv == SwitchInv /\ [SwitchNext]_cvars => SwitchInv'
<1> SUFFICES ASSUME SwitchInv, [SwitchNext]_cvars PROVE SwitchInv'
  OBVIOUS
<1>1. CASE UNCHANGED cvars
  <2>1. Created' = Created /\ SwitchTypeOK'
    BY <1>1 DEF cvars, Created, SwitchTypeOK, SwitchInv
  <2> QED  BY <1>1, <2>1 DEF cvars, SwitchInv, SwitchedOut, Running, Interrupted, HasWords, OwnsFrom
<1>2. CASE SwitchNext
  <2>1. ASSUME NEW t \in Process,
               task_create(t) \/ scheduler_tick(t) \/ Compute(t) \/ PushWord(t) \/ PopWord(t)
        PROVE  SwitchInv'
    BY <2>1, CreateKeeps, TickKeeps, ComputeKeeps, PushKeeps, PopKeeps
  <2>2. CASE Exception \/ Return \/ PendSV_Handler
    BY <2>2, ExceptionKeeps, ReturnKeeps, PendSVKeeps
  <2> QED  BY <1>2, <2>1, <2>2 DEF SwitchNext
<1> QED  BY <1>1, <1>2

-----------------------------------------------------------------------------
LEMMA SwitchInvariant == SwitchSpec => []SwitchInv
<1>1. SwitchInit => SwitchInv
  BY InitSwitchInv
<1>2. SwitchInv /\ [SwitchNext]_cvars => SwitchInv'
  BY StepKeepsSwitchInv
<1> QED  BY <1>1, <1>2, PTL DEF SwitchSpec

\* For any number of tasks and any stack size, a task continues after every exception
\* and every switch with the registers and the stack it had.
THEOREM SwitchesAreTransparent == SwitchSpec => []SwitchIsTransparent
<1>1. SwitchInv => SwitchIsTransparent
  BY DEF SwitchInv, Running, SwitchIsTransparent
<1> QED  BY <1>1, SwitchInvariant, PTL

\* For any number of tasks and any stack size, the stack pointer of a task that is
\* switched out leads to its sixteen registers and its own words.
THEOREM FramesHoldContexts == SwitchSpec => []FrameIsContext
<1>1. SwitchInv => FrameIsContext
  <2> SUFFICES ASSUME SwitchInv, NEW t \in Created, t # cur_process
               PROVE  /\ \A i \in 1 .. 8 : /\ mem[t][sp[t] + i - 1] = ctx[t][r4_r11[i]]
                                           /\ mem[t][sp[t] + i + 7] = ctx[t][Stacked[i]]
                      /\ OwnsFrom(t, sp[t] + 16)
    BY DEF FrameIsContext
  <2>1. SwitchedOut(t) /\ sp[t] \in Nat
    BY DEF SwitchInv, SwitchTypeOK, Created
  <2>2. \A i \in 1 .. 8 : sp[t] + 8 + i - 1 = sp[t] + i + 7
    BY <2>1
  <2> QED  BY <2>1, <2>2 DEF SwitchedOut, HasWords
<1> QED  BY <1>1, SwitchInvariant, PTL
==============================================================================

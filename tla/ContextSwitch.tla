---------------------------- MODULE ContextSwitch ----------------------------
(***************************************************************************)
(* Src/start_task.s and init_stack of tcb.c: how tasks share the registers *)
(* of the core.  Each task has a stack; an exception saves the caller-     *)
(* saved registers on it (the hardware does), PendSV_Handler the others.   *)
(* Which task is next is the scheduler's choice, here any created one.     *)
(* A stack grows down from StackWords; a stack pointer is the lowest       *)
(* address in use, StackWords + 1 when the stack is empty.                 *)
(***************************************************************************)
EXTENDS Integers, Sequences

CONSTANTS Process, Nil,
          StackWords,    \* words in a stack (STACK_SIZE)
          Value          \* the values that a task computes in its registers

\* Registers in the order in which they are stored, from the lowest address on.
Stacked  == <<"r0", "r1", "r2", "r3", "r12", "lr", "pc", "xpsr">>
r4_r11   == <<"r4", "r5", "r6", "r7", "r8", "r9", "r10", "r11">>
In(f)    == {f[i] : i \in DOMAIN f}
Register == In(Stacked) \union In(r4_r11)

ASSUME SwitchAssumption == /\ Nil \notin Process
                           /\ StackWords \in Nat /\ StackWords >= 16

VARIABLES
  regs,    \* the registers of the core
  psp,     \* the process stack pointer: a task's stack and an address in it
  mem,     \* the memory of each stack
  sp,      \* tcb_t.sp, 0 in a TCB that is not created
  os_started, cur_process, next_process,
  mode,    \* "thread", "handler", or "pendsv" once PendSV is pended and taken
  (* History. *)
  ctx,     \* the registers of each task as it left them
  own      \* what each task has pushed on its stack, the last word first

cvars == <<regs, psp, mem, sp, os_started, cur_process, next_process, mode, ctx, own>>

Created == {t \in Process : sp[t] # 0}

\* A word that register r holds for task t.
Word(t, r, v) == <<t, r, v>>

\* The stack m with the words of the sequence w stored below address a.
Pushed(m, a, w) ==
  [i \in DOMAIN m |-> IF i \in a - Len(w) .. a - 1 THEN w[i - a + Len(w) + 1] ELSE m[i]]

\* The words that registers f of the file rs hold, and the file rs with these
\* registers loaded from address a on.
Saved(rs, f) == [i \in DOMAIN f |-> rs[f[i]]]

Loaded(rs, m, a, f) ==
  [r \in Register |-> IF r \in In(f) THEN m[a + (CHOOSE i \in DOMAIN f : f[i] = r) - 1]
                                        ELSE rs[r]]

\* What exception handlers leave in the registers that the hardware saved.
Clobbered(rs) == [r \in Register |-> IF r \in In(Stacked) THEN Nil ELSE rs[r]]

-----------------------------------------------------------------------------
\* The registers that init_stack prepares.
InitialContext(t) ==
  [r \in Register |-> Word(t, r, CASE r = "r0"   -> "arg"
                                   [] r = "lr"   -> "0xFFFFFFFD"
                                   [] r = "pc"   -> "entry"
                                   [] r = "xpsr" -> "0x01000000"
                                   [] OTHER      -> "0")]

\* Mutant of init_stack: R11 is left out, so that the hardware frame is one word low.
ShortFrame(t) ==
  Pushed(Pushed(mem[t], StackWords + 1, Saved(InitialContext(t), Stacked)),
         StackWords + 1 - 8, SubSeq(Saved(InitialContext(t), r4_r11), 2, 8))

init_stack(t) ==
  Pushed(Pushed(mem[t], StackWords + 1, Saved(InitialContext(t), Stacked)),
         StackWords + 1 - 8, Saved(InitialContext(t), r4_r11))

\* task_create, by main or by the running task.
task_create(t) ==
  /\ mode = "thread" /\ t \notin Created
  /\ mem' = [mem EXCEPT ![t] = init_stack(t)]
  /\ sp' = [sp EXCEPT ![t] = StackWords + 1 - 16]
  /\ ctx' = [ctx EXCEPT ![t] = InitialContext(t)]
  /\ UNCHANGED <<regs, psp, os_started, cur_process, next_process, mode, own>>

\* Exception entry.  Before the first switch it is main that is interrupted, whose
\* frame goes to the main stack.
Exception ==
  /\ mode = "thread"
  /\ IF os_started
     THEN /\ mem' = [mem EXCEPT ![psp.stack] = Pushed(@, psp.at, Saved(regs, Stacked))]
          /\ psp' = [psp EXCEPT !.at = @ - 8]
     ELSE UNCHANGED <<mem, psp>>
  /\ regs' = Clobbered(regs)
  /\ mode' = "handler"
  /\ UNCHANGED <<sp, os_started, cur_process, next_process, ctx, own>>

\* Exception return to stack s, which is used from a on: the hardware loads its frame.
Resume(rs, s, a) == /\ regs' = Loaded(rs, mem'[s], a, Stacked)
                    /\ psp' = [stack |-> s, at |-> a + 8]
                    /\ mode' = "thread"

\* A handler that does not reschedule.
Return ==
  /\ mode = "handler"
  /\ UNCHANGED <<mem, sp, os_started, cur_process, next_process, ctx, own>>
  /\ IF os_started THEN Resume(regs, psp.stack, psp.at)
                   ELSE mode' = "thread" /\ UNCHANGED <<regs, psp>>

\* scheduler_tick, in the handler or, with the exception entry of PendSV before it,
\* in thread mode.
scheduler_tick(t) == /\ mode = "handler" /\ t \in Created
                     /\ next_process' = t
                     /\ mode' = "pendsv"
                     /\ UNCHANGED <<regs, psp, mem, sp, os_started, cur_process, ctx, own>>

\* Mutant of save_state: the stack pointer goes to the TCB of the next task.
SaveToNext == /\ mem' = [mem EXCEPT ![psp.stack] = Pushed(@, psp.at, Saved(regs, r4_r11))]
              /\ sp' = [sp EXCEPT ![next_process] = psp.at - 8]

save_state == /\ mem' = [mem EXCEPT ![psp.stack] = Pushed(@, psp.at, Saved(regs, r4_r11))]
              /\ sp' = [sp EXCEPT ![cur_process] = psp.at - 8]

restore_state ==
  LET t == next_process
  IN  Resume(Loaded(regs, mem'[t], sp'[t], r4_r11), t, sp'[t] + 8)

increment_process == cur_process' = next_process

PendSV_Handler == /\ mode = "pendsv"
                  /\ IF os_started THEN save_state ELSE UNCHANGED <<mem, sp>>
                  /\ restore_state
                  /\ increment_process
                  /\ os_started' = TRUE
                  /\ UNCHANGED <<next_process, ctx, own>>

-----------------------------------------------------------------------------
(* The running task. *)

InTask(t) == mode = "thread" /\ os_started /\ t = cur_process

\* New values in all registers.
Compute(t) == /\ InTask(t)
              /\ \E v \in Value : regs' = [r \in Register |-> Word(t, r, v)]
              /\ ctx' = [ctx EXCEPT ![t] = regs']
              /\ UNCHANGED <<psp, mem, sp, os_started, cur_process, next_process, mode, own>>

\* A push, by a task whose stack has room for the two frames of a switch below it.
PushWord(t) == /\ InTask(t) /\ psp.at - 1 > 16
           /\ mem' = [mem EXCEPT ![psp.stack] = Pushed(@, psp.at, <<regs["r4"]>>)]
           /\ psp' = [psp EXCEPT !.at = @ - 1]
           /\ own' = [own EXCEPT ![t] = <<ctx[t]["r4"]>> \o @]
           /\ UNCHANGED <<regs, sp, os_started, cur_process, next_process, mode, ctx>>

PopWord(t) == /\ InTask(t) /\ own[t] # << >>
          /\ regs' = [regs EXCEPT !["r4"] = mem[psp.stack][psp.at]]
          /\ ctx' = [ctx EXCEPT ![t]["r4"] = Head(own[t])]
          /\ psp' = [psp EXCEPT !.at = @ + 1]
          /\ own' = [own EXCEPT ![t] = Tail(@)]
          /\ UNCHANGED <<mem, sp, os_started, cur_process, next_process, mode>>

-----------------------------------------------------------------------------
SwitchInit ==
  /\ regs = [r \in Register |-> Nil] /\ psp = [stack |-> Nil, at |-> 0]
  /\ mem = [t \in Process |-> [i \in 1 .. StackWords |-> Nil]]
  /\ sp = [t \in Process |-> 0]
  /\ os_started = FALSE /\ cur_process = Nil /\ next_process = Nil
  /\ mode = "thread"
  /\ ctx = [t \in Process |-> [r \in Register |-> Nil]] /\ own = [t \in Process |-> << >>]

SwitchNext ==
  \/ Exception \/ Return \/ PendSV_Handler
  \/ \E t \in Process : task_create(t) \/ scheduler_tick(t) \/ Compute(t) \/ PushWord(t) \/ PopWord(t)

SwitchSpec == SwitchInit /\ [][SwitchNext]_cvars

-----------------------------------------------------------------------------
(* Properties. *)

\* Task t holds the stack from address a on with just its own words.
OwnsFrom(t, a) == /\ a = StackWords + 1 - Len(own[t])
                  /\ \A i \in 1 .. Len(own[t]) : mem[t][a + i - 1] = own[t][i]

\* Wherever a task was interrupted and whatever ran in between, it continues with
\* the registers and the stack it had; a new task starts at its entry with its argument.
SwitchIsTransparent ==
  mode = "thread" /\ os_started =>
    /\ regs = ctx[cur_process]
    /\ psp.stack = cur_process /\ OwnsFrom(cur_process, psp.at)

\* The sp of a task that is switched out leads to its sixteen registers, in the order
\* in which they will be loaded, and above them to its own words.
FrameIsContext ==
  \A t \in Created \ {cur_process} :
    /\ \A i \in 1 .. 8 : /\ mem[t][sp[t] + i - 1] = ctx[t][r4_r11[i]]
                         /\ mem[t][sp[t] + i + 7] = ctx[t][Stacked[i]]
    /\ OwnsFrom(t, sp[t] + 16)
==============================================================================

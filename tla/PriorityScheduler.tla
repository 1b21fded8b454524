-------------------------- MODULE PriorityScheduler --------------------------
(***************************************************************************)
(* What the scheduler does for the tasks, without lists, links, bitmap,    *)
(* interrupts or stacks: one queue per priority, the processor goes to the *)
(* head of the highest queue that is not empty, and a task that has had it *)
(* goes to the end of its queue.  No task is ever in two places or none.   *)
(***************************************************************************)
EXTENDS Naturals, Sequences

CONSTANTS Task, NULL, Priority, Prio

VARIABLES ready,      \* the queue of each priority
          asleep,     \* the tasks that sleep or wait for a mutex or semaphore
          running     \* the task that was given the processor, or NULL

Placed == asleep \union {running} \union UNION {{ready[p][i] : i \in DOMAIN ready[p]} : p \in Priority}

Enqueued(t) == ready' = [ready EXCEPT ![Prio[t]] = Append(@, t)]

Create(t) == /\ t \notin Placed
             /\ Enqueued(t) /\ UNCHANGED <<asleep, running>>

Sleep == /\ running # NULL
         /\ asleep' = asleep \union {running} /\ running' = NULL
         /\ UNCHANGED ready

Wake(t) == /\ t \in asleep
           /\ asleep' = asleep \ {t}
           /\ Enqueued(t) /\ UNCHANGED running

Preempt == /\ running # NULL
           /\ Enqueued(running) /\ running' = NULL
           /\ UNCHANGED asleep

Choose(p) == /\ running = NULL
             /\ ready[p] # << >>
             /\ \A q \in Priority : q > p => ready[q] = << >>
             /\ running' = Head(ready[p])
             /\ ready' = [ready EXCEPT ![p] = Tail(@)]
             /\ UNCHANGED asleep

Init == ready = [p \in Priority |-> << >>] /\ asleep = {} /\ running = NULL

Next == \/ \E t \in Task : Create(t) \/ Wake(t)
        \/ Sleep \/ Preempt \/ \E p \in Priority : Choose(p)

Spec == Init /\ [][Next]_<<ready, asleep, running>>
==============================================================================

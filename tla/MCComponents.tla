----------------------------- MODULE MCComponents -----------------------------
(***************************************************************************)
(* An instance of the components that one caller at a time uses: the       *)
(* queues of task_queue.c, the message queue, usart_init, the ring buffer  *)
(* and the switch between tasks.  They share nothing, so a behaviour       *)
(* exercises one of them, component, and the others stay as they were      *)
(* initialised.                                                            *)
(***************************************************************************)
EXTENDS MQueue, TaskLists, UsartConfig, RingBuffer, ContextSwitch, TLC

VARIABLE component

Components == {"task_queue", "mqueue", "usart_init", "ring_buffer", "start_task"}

\* The processes, the values of their registers and the bytes are interchangeable.
Symmetry == Permutations(Process) \union Permutations(Value) \union Permutations(Byte)

lvars == <<heap, result>>

\* Which configuration or element size an idle component holds is immaterial.
MCInit == /\ ListsInit /\ MQInit /\ ConfigInit /\ RingInit /\ SwitchInit
          /\ component \in Components
          /\ component # "mqueue" => ele_size = CHOOSE n \in EleSizes : TRUE
          /\ component # "usart_init" => config = CHOOSE c \in Config : TRUE

CallTaskQueue == /\ component = "task_queue" /\ ListsNext
                 /\ UNCHANGED <<mqvars, fvars, rvars, cvars, component>>

CallMQueue == /\ component = "mqueue" /\ MQNext
              /\ UNCHANGED <<lvars, fvars, rvars, cvars, component>>

CallUsartInit == /\ component = "usart_init" /\ ConfigNext
                 /\ UNCHANGED <<lvars, mqvars, rvars, cvars, component>>

CallRingBuffer == /\ component = "ring_buffer" /\ RingNext
                  /\ UNCHANGED <<lvars, mqvars, fvars, cvars, component>>

SwitchTasks == /\ component = "start_task" /\ SwitchNext
               /\ UNCHANGED <<lvars, mqvars, fvars, rvars, component>>

MCNext == CallTaskQueue \/ CallMQueue \/ CallUsartInit \/ CallRingBuffer \/ SwitchTasks

MCSpec == MCInit /\ [][MCNext]_<<lvars, mqvars, fvars, rvars, cvars, component>>
==============================================================================

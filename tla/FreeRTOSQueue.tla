--------------------------- MODULE FreeRTOSQueue ---------------------------
(***************************************************************************)
(* The queue of the FreeRTOS implementation (queue_freertos.c): each        *)
(* operation is one call of FreeRTOS, which blocks until it is done or its  *)
(* time is up, and an answer made of what that call returned.  FreeRTOS     *)
(* itself is external: its queue takes and gives whole elements in order.   *)
(***************************************************************************)
EXTENDS Naturals, Sequences

CONSTANTS Reader, Writer, \* the threads that pop and those that push
          Timed,          \* those of them that use the timed variants
          ErEvent,
          Capacity,       \* a_capacity of ErQueueNew()
          NDEBUG,         \* TRUE: assert() does not evaluate its argument
          NoAnswer, Written

Thread == Reader \cup Writer

VARIABLES xqueue, \* the elements of the FreeRTOS queue
          pc,     \* where each thread is
          arg,    \* the event each writer writes
          answer  \* the event read, or Written (TRUE or a return), or NoAnswer

vars == <<xqueue, pc, arg, answer>>

(* ErQueueNew().                                                           *)
Init ==
  /\ xqueue = <<>>
  /\ pc = [t \in Thread |-> "idle"]
  /\ arg \in [Writer -> ErEvent]
  /\ answer = [t \in Thread |-> NoAnswer]

Answer(t, a) ==
  /\ pc' = [pc EXCEPT ![t] = "idle"]
  /\ answer' = [answer EXCEPT ![t] = a]

(* ErQueuePopFront() and ErQueueTimedPopFront().                           *)
PopFront(t) ==
  /\ pc[t] = "idle" /\ t \in Reader
  /\ pc' = [pc EXCEPT ![t] = "called"]
  /\ answer' = [answer EXCEPT ![t] = NoAnswer]
  /\ UNCHANGED <<xqueue, arg>>

(* ErQueuePushBack() and ErQueueTimedPushBack().                           *)
PushBack(t, event) ==
  /\ pc[t] = "idle" /\ t \in Writer
  /\ pc' = [pc EXCEPT ![t] = "called"]
  /\ arg' = [arg EXCEPT ![t] = event]
  /\ answer' = [answer EXCEPT ![t] = NoAnswer]
  /\ UNCHANGED xqueue

(* The untimed variants make their call of FreeRTOS within an assert().    *)
CallMade(t) == pc[t] = "called" /\ (t \in Timed \/ ~NDEBUG)

xQueueReceive(t) ==
  /\ CallMade(t) /\ t \in Reader
  /\ xqueue # <<>>
  /\ xqueue' = Tail(xqueue)
  /\ Answer(t, Head(xqueue))
  /\ UNCHANGED arg

xQueueSend(t) ==
  /\ CallMade(t) /\ t \in Writer
  /\ Len(xqueue) < Capacity
  /\ xqueue' = Append(xqueue, arg[t])
  /\ Answer(t, Written)
  /\ UNCHANGED arg

(* The call of FreeRTOS returns pdFALSE; the push assigns pdTRUE to that   *)
(* result and returns it.                                                  *)
TimeOut(t) ==
  /\ pc[t] = "called" /\ t \in Timed
  /\ IF t \in Reader THEN xqueue = <<>> ELSE Len(xqueue) = Capacity
  /\ Answer(t, IF t \in Reader THEN NoAnswer ELSE Written)
  /\ UNCHANGED <<xqueue, arg>>

(* Without the assert() the pop returns NULL, and the push just returns.   *)
CallLeftOut(t) ==
  /\ pc[t] = "called" /\ t \notin Timed /\ NDEBUG
  /\ Answer(t, IF t \in Reader THEN NoAnswer ELSE Written)
  /\ UNCHANGED <<xqueue, arg>>

Step(t) ==
  \/ PopFront(t)
  \/ \E event \in ErEvent : PushBack(t, event)
  \/ xQueueReceive(t) \/ xQueueSend(t) \/ TimeOut(t) \/ CallLeftOut(t)

Next == \E t \in Thread : Step(t)

Spec == Init /\ [][Next]_vars
-----------------------------------------------------------------------------
(* The wrappers are the queue that EventRouterOS takes them for.           *)
Fifo == INSTANCE BoundedFifo WITH contents <- xqueue
FifoSpec == Fifo!Spec
=============================================================================

------------------------ MODULE FreeRTOSQueue_proofs ------------------------
(* When the wrappers of FreeRTOSQueue are a queue as queue_.h describes it. *)
EXTENDS FreeRTOSQueue, TLAPS

(* A call in progress has not been answered, and a writer writes an event. *)
Pending ==
  /\ arg \in [Writer -> ErEvent]
  /\ answer \in [Thread -> ErEvent \cup {NoAnswer, Written}]
  /\ pc \in [Thread -> {"idle", "called"}]
  /\ xqueue \in Seq(ErEvent)
  /\ \A t \in Thread : pc[t] = "called" => answer[t] = NoAnswer

(* That is so in every state.                                              *)
LEMMA PendingInvariant == Spec => []Pending
<1>1. Init => Pending
  BY DEF Init, Pending
<1>2. ASSUME Pending, NEW t \in Thread, Step(t) PROVE Pending'
  <2> USE <1>2 DEF Pending, Answer, CallMade
  <2>1. CASE PopFront(t)
    BY <2>1 DEF PopFront
  <2>2. CASE \E event \in ErEvent : PushBack(t, event)
    BY <2>2 DEF PushBack
  <2>3. CASE xQueueReceive(t)
    <3>1. Head(xqueue) \in ErEvent /\ Tail(xqueue) \in Seq(ErEvent)
      BY <2>3 DEF xQueueReceive
    <3> QED  BY <2>3, <3>1 DEF xQueueReceive
  <2>4. CASE xQueueSend(t)
    <3>1. Append(xqueue, arg[t]) \in Seq(ErEvent)
      BY <2>4 DEF xQueueSend
    <3> QED  BY <2>4, <3>1 DEF xQueueSend
  <2>5. CASE TimeOut(t) \/ CallLeftOut(t)
    BY <2>5 DEF TimeOut, CallLeftOut
  <2> QED  BY <2>1, <2>2, <2>3, <2>4, <2>5 DEF Step
<1>3. Pending /\ [Next]_vars => Pending'
  BY <1>2 DEF Next, Pending, vars
<1> QED  BY <1>1, <1>3, PTL DEF Spec

(* With assert() compiled in and no timed push the wrappers are the bounded *)
(* first-in first-out queue of queue_.h: the timeout of a pop is harmless.  *)
THEOREM ImplementsFifo ==
  ASSUME ~NDEBUG, Writer \cap Timed = {}, Reader \cap Writer = {}
  PROVE  Spec => FifoSpec
<1> USE DEF Fifo!vars
<1>1. Init => Fifo!Init
  BY DEF Init, Fifo!Init, Thread, Fifo!Thread
<1>2. ASSUME Pending, NEW t \in Thread, Step(t) PROVE [Fifo!Next]_(Fifo!vars)
  <2> USE <1>2 DEF Answer, CallMade, Pending
  <2>1. CASE PopFront(t) \/ \E event \in ErEvent : PushBack(t, event)
    BY <2>1 DEF PopFront, PushBack, Fifo!Next, Fifo!CallRead, Fifo!CallWrite,
                Fifo!Unanswered
  <2>2. CASE xQueueReceive(t)
    BY <2>2 DEF xQueueReceive, Fifo!Next, Fifo!Read
  <2>3. CASE xQueueSend(t)
    <3>1. Fifo!Write(t) /\ t \in Writer
      BY <2>3 DEF xQueueSend, Fifo!Write
    <3> QED  BY <3>1 DEF Fifo!Next
  <2>4. CASE TimeOut(t)
    <3>1. t \in Reader /\ answer[t] = NoAnswer
      BY <2>4 DEF TimeOut, Thread
    <3>2. UNCHANGED <<xqueue, arg, answer>>
      BY <2>4, <3>1 DEF TimeOut
    <3> QED  BY <3>2
  <2>5. ~CallLeftOut(t)
    BY DEF CallLeftOut
  <2> QED  BY <2>1, <2>2, <2>3, <2>4, <2>5 DEF Step
<1>3. Pending /\ [Next]_vars => [Fifo!Next]_(Fifo!vars)
  BY <1>2 DEF Next, vars
<1> QED
  BY <1>1, <1>3, PendingInvariant, PTL DEF Spec, FifoSpec, Fifo!Spec

(* A timed push whose time is up is no step of that queue: its caller is    *)
(* told that the event was written ("Returns true if `a_event` was written  *)
(* to `a_queue` within `a_ms`", queue_.h), and the queue is as it was       *)
(* (queue_freertos.c, the assignment in ErQueueTimedPushBack()).            *)
THEOREM TimedOutPushClaimsSuccess ==
  ASSUME Pending, NEW t \in Writer, TimeOut(t),
         Reader \cap Writer = {}, NoAnswer # Written
  PROVE  ~[Fifo!Next]_(Fifo!vars)
<1>1. /\ answer[t] = NoAnswer /\ answer'[t] = Written
      /\ xqueue' = xqueue /\ xqueue \in Seq(ErEvent)
  BY DEF Pending, TimeOut, Answer, Thread
<1>2. \A u \in Thread : Fifo!Unanswered(u) => answer'[t] = NoAnswer
  BY <1>1 DEF Fifo!Unanswered, Pending
<1>3. ASSUME NEW u \in Reader PROVE ~Fifo!CallRead(u) /\ ~Fifo!Read(u)
  <2>1. u # t
    OBVIOUS
  <2> QED  BY <1>1, <1>2, <2>1 DEF Fifo!CallRead, Fifo!Read, Thread
<1>4. ASSUME NEW u \in Writer
      PROVE  ~Fifo!Write(u) /\ \A event \in ErEvent : ~Fifo!CallWrite(u, event)
  <2>1. Append(xqueue, arg[u]) # xqueue
    <3>1. arg[u] \in ErEvent
      BY DEF Pending
    <3> QED  BY <1>1, <3>1
  <2> QED  BY <1>1, <1>2, <2>1 DEF Fifo!CallWrite, Fifo!Write, Thread
<1>5. ~UNCHANGED Fifo!vars
  BY <1>1 DEF Fifo!vars
<1> QED
  BY <1>3, <1>4, <1>5 DEF Fifo!Next
=============================================================================

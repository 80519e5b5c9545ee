----------------------- MODULE ReferenceCount_proofs -----------------------
(* The reference count of EventRouterOS accounts for every reference, when  *)
(* only the owner's task sends and re-sends an event.                       *)
EXTENDS EventRouterOS_proofs, WellFoundedInduction

OnlyOwnersSend ==
  \A c \in Context, e \in Event : e \in MaySend[c] \cup MayResend[c] => c = OwnerTask(e)
-----------------------------------------------------------------------------
(* Sends happen in the owner's task; a task that makes a call does so from  *)
(* a handler or from its loop; queues stay within their bounds.             *)
ContextsInv ==
  /\ \A c \in Context :
       op[c].pc \in {"mark", "add", "addReturn"} => c = OwnerTask(op[c].e)
  /\ \A t \in Task : op[t].pc # "none" => disp[t].pc \in {"none", "handler"}
  /\ \A t \in Task : Len(queue[t]) <= Capacity

FiniteReferences(e) ==
  /\ IsFiniteSet(Marked(e))
  /\ IsFiniteSet(Queued(e))
  /\ IsFiniteSet(Delivered(e))
  /\ IsFiniteSet(Returned(e))
  /\ IsFiniteSet(Keeping(e))

WayBack(e) == IF m_reference_count[e] > 1 /\ ~HalfCounted(e) THEN 1 ELSE 0

(* What RefCountMatches says of one event.                                 *)
Counted(e) == m_reference_count[e] = References(e) + WayBack(e)

(* All references are in, or posted to, the owner's task.                  *)
AtHome(e) ==
  /\ \A x \in Marked(e) : x[2] = OwnerTask(e)
  /\ \A x \in Queued(e) : x[1] = OwnerTask(e)
  /\ Delivered(e) \subseteq {OwnerTask(e)}
  /\ Returned(e) \subseteq {OwnerTask(e)}
  /\ Keeping(e) = {}

(* Between the two additions of a send, what was there before is one copy  *)
(* that waits for the owner's task, which is busy with the send.           *)
WaitsForOwner(e) ==
  /\ \A x \in Marked(e) : OwnerTask(e) \in {x[1], x[2]}
  /\ \A x \in Queued(e) : x[1] = OwnerTask(e)
  /\ Delivered(e) = {} /\ Returned(e) = {} /\ Keeping(e) = {}
  /\ op[OwnerTask(e)].mask = {} => m_reference_count[e] = 0

InHandlers(e) == {t \in Task : disp[t].pc \in {"loop", "handler"} /\ disp[t].e = e}

(* An event is idle while its owner sends it without leave to re-send, and  *)
(* counts 1 while its owner's task takes the way back without a queue.     *)
StagesInv(e) ==
  /\ \A c \in Context :
       op[c].pc \in {"mark", "add"} /\ op[c].e = e /\ ~op[c].resend
         => m_reference_count[e] = 0
  /\ \A t \in Task : op[t].pc = "subOwner" /\ op[t].e = e => m_reference_count[e] = 1

EventInv(e) ==
  /\ FiniteReferences(e)
  /\ Counted(e)
  /\ m_reference_count[e] <= 1 /\ ~HalfCounted(e) => AtHome(e)
  /\ HalfCounted(e) => WaitsForOwner(e)
  /\ InHandlers(e) # {} => m_reference_count[e] > 1
  /\ StagesInv(e)

CountInv == failed = "none" => ContextsInv /\ \A e \in Event : EventInv(e)
-----------------------------------------------------------------------------
(* A call that is part of EventInv(e).                                     *)
Concerns(x, e) ==
  x.pc \in {"mark", "add", "addReturn", "post", "sub", "subOwner"} /\ x.e = e

(* What EventInv(e) says of the calls in progress is as it was.            *)
SameCalls(e) ==
  /\ UNCHANGED <<Marked(e), Returned(e)>>
  /\ HalfCounted(e)' <=> HalfCounted(e)
  /\ HalfCounted(e) => op'[OwnerTask(e)].mask = op[OwnerTask(e)].mask

SameActivations(e) == UNCHANGED <<Delivered(e), InHandlers(e)>>

(* A step of a context from one call to the next, neither about e.         *)
LEMMA OtherCall ==
  ASSUME TypeOK, ContextsInv, NEW e \in Event, NEW c \in Context, NEW x, Call(c, x),
         ~Concerns(op[c], e), ~Concerns(x, e)
  PROVE  /\ SameCalls(e)
         /\ StagesInv(e) /\ m_reference_count'[e] = m_reference_count[e] => StagesInv(e)'
<1>0. op \in [Context -> Calls] /\ Task \subseteq Context
  BY DEF TypeOK, Context
<1>1. \A d \in Context : op'[d] = IF d = c THEN x ELSE op[d]
  BY <1>0 DEF Call
<1>2. \A d \in Context : op'[d] = op[d] \/ (~Concerns(op[d], e) /\ ~Concerns(op'[d], e))
  BY <1>1
<1>3. Marked(e)' = Marked(e)
  BY <1>2 DEF Marked, Concerns
<1>4. Returned(e)' = Returned(e)
  BY <1>0, <1>2 DEF Returned, Concerns
<1>5. HalfCounted(e)' <=> HalfCounted(e)
  BY <1>2 DEF HalfCounted, Concerns
<1>6. HalfCounted(e) => op'[OwnerTask(e)].mask = op[OwnerTask(e)].mask
  BY <1>1, <1>2 DEF HalfCounted, Concerns, ContextsInv
<1>7. StagesInv(e) /\ m_reference_count'[e] = m_reference_count[e] => StagesInv(e)'
  BY <1>0, <1>2 DEF StagesInv, Concerns
<1> QED  BY <1>3, <1>4, <1>5, <1>6, <1>7 DEF SameCalls

(* A step that leaves all calls alone.                                     *)
LEMMA NoCall ==
  ASSUME NEW e \in Event, UNCHANGED op
  PROVE  /\ SameCalls(e)
         /\ StagesInv(e) /\ m_reference_count'[e] = m_reference_count[e] => StagesInv(e)'
  BY DEF SameCalls, StagesInv, Marked, Returned, HalfCounted

(* A step of a task from one activation to the next, neither about e.      *)
LEMMA OtherActivation ==
  ASSUME TypeOK, NEW e \in Event, NEW t \in Task, NEW x,
         disp' = [disp EXCEPT ![t] = x],
         disp[t].pc = "none" \/ disp[t].e # e, x.pc = "none" \/ x.e # e
  PROVE  SameActivations(e)
<1>1. \A u \in Task : disp'[u] = IF u = t THEN x ELSE disp[u]
  BY DEF TypeOK
<1>2. Delivered(e)' = Delivered(e)
  BY <1>1 DEF Delivered
<1>3. InHandlers(e)' = InHandlers(e)
  BY <1>1 DEF InHandlers
<1> QED  BY <1>2, <1>3 DEF SameActivations

(* A step that leaves all activations alone.                                *)
LEMMA NoActivation ==
  ASSUME NEW e \in Event, UNCHANGED disp
  PROVE  SameActivations(e)
  BY DEF SameActivations, Delivered, InHandlers

(* The copies of e in the queues may move up, but are as many, in the same  *)
(* queues.                                                                 *)
SameQueued(e) ==
  /\ IsFiniteSet(Queued(e)')
  /\ Cardinality(Queued(e)') = Cardinality(Queued(e))
  /\ \A x \in Queued(e)' : \E y \in Queued(e) : y[1] = x[1]

(* A step that does not concern e keeps what holds of e.                   *)
LEMMA QueuedMove ==
  ASSUME NEW e \in Event, EventInv(e), SameCalls(e), SameActivations(e),
         StagesInv(e)', m_reference_count'[e] = m_reference_count[e],
         SameQueued(e), UNCHANGED Keeping(e)
  PROVE  EventInv(e)'
<1> USE DEF SameCalls, SameActivations, SameQueued
<1>1. FiniteReferences(e)'
  BY DEF EventInv, FiniteReferences
<1>2. Counted(e)'
  BY DEF EventInv, Counted, References, WayBack
<1>3. AtHome(e) => AtHome(e)'
  BY DEF AtHome, OwnerTask
<1>4. HalfCounted(e) /\ WaitsForOwner(e) => WaitsForOwner(e)'
  BY DEF WaitsForOwner, OwnerTask
<1> QED
  BY <1>1, <1>2, <1>3, <1>4 DEF EventInv, Context

(* A step that does not concern e, neither its copies nor its count.        *)
LEMMA OtherEvent ==
  ASSUME NEW e \in Event, EventInv(e), SameCalls(e), SameActivations(e),
         StagesInv(e)', m_reference_count'[e] = m_reference_count[e],
         UNCHANGED <<Queued(e), Keeping(e)>>
  PROVE  EventInv(e)'
<1>1. SameQueued(e)
  BY DEF EventInv, FiniteReferences, SameQueued
<1> QED  BY <1>1, QueuedMove
-----------------------------------------------------------------------------
(* The parts of References(e) are numbers, 0 just when they are empty.     *)
LEMMA PartsAreNumbers ==
  ASSUME NEW e \in Event, FiniteReferences(e)
  PROVE  /\ Cardinality(Marked(e)) \in Nat /\ Cardinality(Queued(e)) \in Nat
         /\ Cardinality(Delivered(e)) \in Nat /\ Cardinality(Returned(e)) \in Nat
         /\ Cardinality(Keeping(e)) \in Nat
         /\ References(e) \in Nat
         /\ Cardinality(Marked(e)) = 0 <=> Marked(e) = {}
         /\ Cardinality(Queued(e)) = 0 <=> Queued(e) = {}
         /\ Cardinality(Delivered(e)) = 0 <=> Delivered(e) = {}
         /\ Cardinality(Returned(e)) = 0 <=> Returned(e) = {}
         /\ Cardinality(Keeping(e)) = 0 <=> Keeping(e) = {}
<1>1. \A S : IsFiniteSet(S) => Cardinality(S) \in Nat
  BY FS_CardinalityType
<1>2. \A S : IsFiniteSet(S) => (Cardinality(S) = 0 <=> S = {})
  BY FS_EmptySet
<1> QED  BY <1>1, <1>2 DEF FiniteReferences, References

(* An event that counts 0 has no references.                               *)
LEMMA NoReferences ==
  ASSUME TypeOK, NEW e \in Event, FiniteReferences(e), Counted(e),
         m_reference_count[e] <= 0
  PROVE  /\ m_reference_count[e] = 0
         /\ Marked(e) = {} /\ Queued(e) = {} /\ Delivered(e) = {} /\ Returned(e) = {}
         /\ Keeping(e) = {}
<1>1. m_reference_count[e] \in Int /\ References(e) \in Nat
  BY PartsAreNumbers DEF TypeOK
<1>2. m_reference_count[e] = References(e)
  BY <1>1 DEF Counted, WayBack
<1>3. m_reference_count[e] = 0 /\ References(e) = 0
  BY <1>1, <1>2
<1>4. /\ Cardinality(Marked(e)) \in Nat /\ Cardinality(Queued(e)) \in Nat
      /\ Cardinality(Delivered(e)) \in Nat /\ Cardinality(Returned(e)) \in Nat
      /\ Cardinality(Keeping(e)) \in Nat
  BY PartsAreNumbers
<1>5. /\ Cardinality(Marked(e)) = 0 /\ Cardinality(Queued(e)) = 0
      /\ Cardinality(Delivered(e)) = 0 /\ Cardinality(Returned(e)) = 0
      /\ Cardinality(Keeping(e)) = 0
  BY <1>3, <1>4 DEF References
<1> QED  BY <1>3, <1>5, PartsAreNumbers

(* While a task is about to drop a reference the count is above 0, and a    *)
(* count of 1 or 2 says that there is no other reference.                  *)
LEMMA ReturnedIsCounted ==
  ASSUME TypeOK, NEW e \in Event, EventInv(e), NEW t \in Returned(e)
  PROVE  /\ m_reference_count[e] \in Nat \ {0}
         /\ ~HalfCounted(e)
         /\ m_reference_count[e] <= 2 =>
              /\ Marked(e) = {} /\ Queued(e) = {} /\ Delivered(e) = {}
              /\ Keeping(e) = {} /\ Returned(e) = {t}
<1>1. FiniteReferences(e) /\ Counted(e) /\ ~HalfCounted(e)
  BY DEF EventInv, WaitsForOwner
<1>2. Cardinality(Returned(e)) >= 1
  BY <1>1, PartsAreNumbers
<1>3. m_reference_count[e] \in Nat \ {0}
  BY <1>1, <1>2, PartsAreNumbers DEF Counted, WayBack, References
<1>4. ASSUME m_reference_count[e] <= 2
      PROVE  /\ Marked(e) = {} /\ Queued(e) = {} /\ Delivered(e) = {}
             /\ Keeping(e) = {} /\ Returned(e) = {t}
  <2>1. References(e) = 1
    BY <1>1, <1>3, <1>4, PartsAreNumbers DEF Counted, WayBack
  <2>2. /\ Cardinality(Returned(e)) = 1 /\ Cardinality(Marked(e)) = 0
        /\ Cardinality(Queued(e)) = 0 /\ Cardinality(Delivered(e)) = 0
        /\ Cardinality(Keeping(e)) = 0
    BY <1>1, <1>2, <2>1, PartsAreNumbers DEF References
  <2>3. PICK x : Returned(e) = {x}
    BY <1>1, <2>2, FS_Singleton DEF FiniteReferences
  <2> QED  BY <1>1, <2>2, <2>3, PartsAreNumbers
<1> QED  BY <1>1, <1>3, <1>4

(* The tasks a call has marked for e.                                      *)
MarkedBy(x, e) == IF x.pc \in {"addReturn", "post"} /\ x.e = e THEN x.mask ELSE {}

(* Only the context that makes a step changes what it has marked.           *)
LEMMA MarkedAfter ==
  ASSUME NEW e \in Event, TypeOK, NEW c \in Context, NEW x, Call(c, x)
  PROVE  \A p \in Context \X Task :
           p \in Marked(e)' <=> IF p[1] = c THEN p[2] \in MarkedBy(x, e) ELSE p \in Marked(e)
  BY DEF Marked, MarkedBy, Call, TypeOK

(* A context marks tasks for e.                                            *)
LEMMA MarkedGrows ==
  ASSUME NEW e \in Event, TypeOK, NEW c \in Context, NEW x, Call(c, x),
         MarkedBy(op[c], e) = {}, MarkedBy(x, e) \in SUBSET Task, IsFiniteSet(Marked(e))
  PROVE  /\ Marked(e)' = Marked(e) \cup ({c} \X MarkedBy(x, e))
         /\ IsFiniteSet(Marked(e)')
         /\ Cardinality(Marked(e)') = Cardinality(Marked(e)) + Cardinality(MarkedBy(x, e))
<1> DEFINE new == {c} \X MarkedBy(x, e)
<1>1. Marked(e) \subseteq Context \X Task /\ Marked(e)' \subseteq Context \X Task
  BY DEF Marked, Context, Task
<1>2. \A p \in Marked(e) : p[1] # c
  BY DEF Marked, MarkedBy
<1>3. Marked(e)' = Marked(e) \cup new
  BY <1>1, <1>2, MarkedAfter
<1>4. Marked(e) \cap new = {}
  BY <1>2
<1>5. IsFiniteSet({c}) /\ Cardinality({c}) = 1
  BY FS_Singleton
<1>6. IsFiniteSet(MarkedBy(x, e)) /\ Cardinality(MarkedBy(x, e)) \in Nat
  BY MaskFinite
<1>7. IsFiniteSet(new) /\ Cardinality(new) = 1 * Cardinality(MarkedBy(x, e))
  BY <1>5, <1>6, FS_Product
<1>8. /\ IsFiniteSet(Marked(e) \cup new)
      /\ Cardinality(Marked(e) \cup new)
           = Cardinality(Marked(e)) + Cardinality(new) - Cardinality(Marked(e) \cap new)
  BY <1>7, FS_Union
<1>9. Cardinality({}) = 0 /\ Cardinality(Marked(e)) \in Nat
  BY FS_EmptySet, FS_CardinalityType
<1>10. Cardinality(new) = Cardinality(MarkedBy(x, e))
  BY <1>6, <1>7
<1>11. Cardinality(Marked(e) \cup new) = Cardinality(Marked(e)) + Cardinality(MarkedBy(x, e))
  BY <1>4, <1>6, <1>8, <1>9, <1>10
<1> QED  BY <1>3, <1>8, <1>11

(* A context keeps what it has marked for e.                               *)
LEMMA MarkedSame ==
  ASSUME NEW e \in Event, TypeOK, NEW c \in Context, NEW x, Call(c, x),
         MarkedBy(x, e) = MarkedBy(op[c], e)
  PROVE  Marked(e)' = Marked(e)
<1>1. Marked(e) \subseteq Context \X Task /\ Marked(e)' \subseteq Context \X Task
  BY DEF Marked, Context, Task
<1>2. \A p \in Context \X Task : p[1] = c => (p \in Marked(e) <=> p[2] \in MarkedBy(op[c], e))
  BY DEF Marked, MarkedBy
<1> QED  BY <1>1, <1>2, MarkedAfter

(* A task starts, or is done with, dropping a reference to e.              *)
LEMMA ReturnedAfter ==
  ASSUME NEW e \in Event, TypeOK, NEW t \in Task, NEW x, Call(t, x)
  PROVE  Returned(e)' = IF x.pc \in {"sub", "subOwner"} /\ x.e = e
                          THEN Returned(e) \cup {t} ELSE Returned(e) \ {t}
  BY DEF Returned, Call, TypeOK, Context

(* Only the task that makes a step changes what it delivers.                *)
LEMMA DeliveredAfter ==
  ASSUME NEW e \in Event, TypeOK, NEW t \in Task, NEW x, disp' = [disp EXCEPT ![t] = x]
  PROVE  /\ Delivered(e)' = IF x.pc # "none" /\ x.e = e
                              THEN Delivered(e) \cup {t} ELSE Delivered(e) \ {t}
         /\ InHandlers(e)' = IF x.pc \in {"loop", "handler"} /\ x.e = e
                               THEN InHandlers(e) \cup {t} ELSE InHandlers(e) \ {t}
  BY DEF Delivered, InHandlers, TypeOK
-----------------------------------------------------------------------------
(* Half counted means that the owner's task is between the two additions.  *)
LEMMA HalfCountedByOwner ==
  ASSUME ContextsInv, NEW e \in Event
  PROVE  HalfCounted(e) <=> /\ op[OwnerTask(e)].pc = "addReturn"
                            /\ op[OwnerTask(e)].e = e
  BY OwnerTaskTyped DEF ContextsInv, HalfCounted, Context

(* A call that is not about references to an event goes on.                *)
LEMMA QuietCallKeeps ==
  ASSUME TypeOK, CountInv, failed = "none",
         NEW c \in Context, NEW x, Call(c, x),
         \A e \in Event : ~Concerns(op[c], e) /\ ~Concerns(x, e),
         x.pc \notin {"mark", "add", "addReturn"},
         c \in Task /\ x.pc # "none" => disp[c].pc \in {"none", "handler"},
         UNCHANGED <<m_reference_count, queue, disp, kept>>
  PROVE  CountInv'
<1>0. ContextsInv /\ op \in [Context -> Calls] /\ Task \subseteq Context
  BY DEF CountInv, TypeOK, Context
<1>1. \A d \in Context : op'[d] = IF d = c THEN x ELSE op[d]
  BY <1>0 DEF Call
<1>2. ContextsInv'
  BY <1>0, <1>1 DEF ContextsInv, OwnerTask
<1>3. ASSUME NEW e \in Event PROVE EventInv(e)'
  <2>1. EventInv(e) /\ StagesInv(e)
    BY DEF CountInv, EventInv
  <2>2. SameCalls(e) /\ StagesInv(e)'
    BY <1>0, <2>1, OtherCall
  <2>3. SameActivations(e)
    BY NoActivation
  <2>4. UNCHANGED <<Queued(e), Keeping(e)>>
    BY DEF Queued, Keeping
  <2> QED  BY <2>1, <2>2, <2>3, <2>4, OtherEvent
<1> QED  BY <1>2, <1>3 DEF CountInv

(* A send or a re-send starts in the owner's task.                          *)
LEMMA ErSendExKeeps ==
  ASSUME TypeOK, OnlyOwnersSend, CountInv,
         NEW c \in Context, NEW e0 \in Event, NEW resend \in BOOLEAN,
         ErSendEx(c, e0, resend)
  PROVE  CountInv'
<1> DEFINE x == [pc |-> "mark", e |-> e0, i |-> 1, mask |-> {}, resend |-> resend]
<1>0. ContextsInv /\ op \in [Context -> Calls] /\ Task \subseteq Context
  BY DEF CountInv, TypeOK, Context, ErSendEx, InClient, Running
<1>1. op[c].pc = "none" /\ Call(c, x) /\ c = OwnerTask(e0) /\ c \in Task
  <2>1. e0 \in MaySend[c] \cup MayResend[c]
    BY DEF ErSendEx
  <2> QED  BY <2>1, OwnerTaskTyped DEF ErSendEx, InClient, OnlyOwnersSend
<1>2. UNCHANGED <<m_reference_count, queue, disp, kept>>
  BY DEF ErSendEx
<1>3. \A d \in Context : op'[d] = IF d = c THEN x ELSE op[d]
  BY <1>0, <1>1 DEF Call
<1>4. ContextsInv'
  <2>1. disp[c].pc \in {"none", "handler"}
    BY <1>1 DEF ErSendEx, InClient, Activation
  <2> QED  BY <1>0, <1>1, <1>2, <1>3, <2>1 DEF ContextsInv, OwnerTask
<1>5. ASSUME NEW e \in Event PROVE EventInv(e)'
  <2>1. EventInv(e) /\ StagesInv(e)
    BY DEF CountInv, EventInv, ErSendEx, InClient, Running
  <2>2. SameCalls(e) /\ StagesInv(e)'
    <3>1. CASE e # e0
      BY <1>0, <1>1, <1>2, <2>1, <3>1, OtherCall DEF Concerns
    <3>2. CASE e = e0
      <4>1. Marked(e)' = Marked(e)
        BY <1>1, MarkedSame DEF MarkedBy
      <4>2. Returned(e)' = Returned(e)
        BY <1>0, <1>1, <1>3 DEF Returned
      <4>3. ~HalfCounted(e) /\ ~HalfCounted(e)'
        BY <1>0, <1>1, <1>3, <3>2, HalfCountedByOwner DEF HalfCounted
      <4>4. StagesInv(e)'
        <5>1. ~resend => m_reference_count[e] = 0
          BY <3>2 DEF ErSendEx, ErEventIsInFlight
        <5> QED  BY <1>0, <1>2, <1>3, <2>1, <5>1 DEF StagesInv
      <4> QED  BY <4>1, <4>2, <4>3, <4>4 DEF SameCalls
    <3> QED  BY <3>1, <3>2
  <2>3. SameActivations(e)
    BY <1>2, NoActivation
  <2>4. UNCHANGED <<Queued(e), Keeping(e)>>
    BY <1>2 DEF Queued, Keeping
  <2> QED  BY <1>2, <2>1, <2>2, <2>3, <2>4, OtherEvent
<1> QED  BY <1>4, <1>5 DEF CountInv

(* Marking a task counts nothing yet.                                       *)
LEMMA MarkTaskKeeps ==
  ASSUME TypeOK, CountInv, NEW c \in Context, MarkTask(c)
  PROVE  CountInv'
<1> DEFINE x == [op[c] EXCEPT !.mask = IF m_type[op[c].e] \in taskSubscriptions[op[c].i]
                                         THEN @ \cup {op[c].i} ELSE @,
                              !.i = op[c].i + 1,
                              !.pc = IF op[c].i = NumTasks THEN "add" ELSE @]
<1>0. ContextsInv /\ op \in [Context -> Calls] /\ Task \subseteq Context
  BY DEF CountInv, TypeOK, Context, MarkTask, At, Running
<1>1. op[c].pc = "mark" /\ Call(c, x)
  BY DEF MarkTask, At
<1>2. UNCHANGED <<m_reference_count, queue, disp, kept>>
  BY DEF MarkTask
<1>3. /\ op[c] \in [pc : {"mark"}, e : Event, i : Task, mask : SUBSET Task,
                    resend : BOOLEAN]
      /\ c = OwnerTask(op[c].e)
  BY <1>0, <1>1, CallShapes DEF ContextsInv
<1>4. x.pc \in {"mark", "add"} /\ x.e = op[c].e /\ x.resend = op[c].resend
  BY <1>3
<1>5. \A d \in Context : op'[d] = IF d = c THEN x ELSE op[d]
  BY <1>0, <1>1 DEF Call
<1> HIDE DEF x
<1>6. ContextsInv'
  BY <1>0, <1>1, <1>2, <1>3, <1>4, <1>5 DEF ContextsInv, OwnerTask
<1>7. ASSUME NEW e \in Event PROVE EventInv(e)'
  <2>1. EventInv(e) /\ StagesInv(e)
    BY DEF CountInv, EventInv, MarkTask, At, Running
  <2>2. SameCalls(e) /\ StagesInv(e)'
    <3>1. Marked(e)' = Marked(e)
      BY <1>1, <1>4, MarkedSame DEF MarkedBy
    <3>2. Returned(e)' = Returned(e)
      BY <1>0, <1>1, <1>4, <1>5 DEF Returned
    <3>3. HalfCounted(e)' <=> HalfCounted(e)
      BY <1>1, <1>4, <1>5 DEF HalfCounted
    <3>4. HalfCounted(e) => op'[OwnerTask(e)].mask = op[OwnerTask(e)].mask
      BY <1>0, <1>1, <1>5, HalfCountedByOwner, OwnerTaskTyped
    <3>5. StagesInv(e)'
      BY <1>0, <1>1, <1>2, <1>4, <1>5, <2>1 DEF StagesInv
    <3> QED  BY <3>1, <3>2, <3>3, <3>4, <3>5 DEF SameCalls
  <2>3. SameActivations(e)
    BY <1>2, NoActivation
  <2>4. UNCHANGED <<Queued(e), Keeping(e)>>
    BY <1>2 DEF Queued, Keeping
  <2> QED  BY <1>2, <2>1, <2>2, <2>3, <2>4, OtherEvent
<1> QED  BY <1>6, <1>7 DEF CountInv

(* A context posts e to the tasks of the mask, or nothing: either way these *)
(* are the tasks it has marked.                                            *)
LEMMA PostingMarks ==
  ASSUME NEW e, NEW mask
  PROVE  /\ MarkedBy(Posting(e, mask), e) = mask
         /\ Posting(e, mask).pc \in {"none", "post"}
         /\ Posting(e, mask).pc = "post" => Posting(e, mask).e = e
  BY DEF MarkedBy, Posting, None

(* When the owner's task sends, a count of at most 1 is that of an event    *)
(* that is idle or waits for that task.                                    *)
LEMMA IdleOrWaiting ==
  ASSUME TypeOK, ContextsInv, NEW e \in Event, EventInv(e),
         op[OwnerTask(e)].pc \in {"mark", "add"}
  PROVE  /\ ~HalfCounted(e)
         /\ \A t \in Task : ~(op[t].pc = "subOwner" /\ op[t].e = e)
         /\ m_reference_count[e] <= 1 =>
              /\ AtHome(e)
              /\ InHandlers(e) = {} /\ Delivered(e) = {} /\ Returned(e) = {}
<1> DEFINE o == OwnerTask(e)
<1>1. o \in Task
  BY OwnerTaskTyped
<1>2. ~HalfCounted(e)
  BY <1>1, HalfCountedByOwner
<1>3. ASSUME m_reference_count[e] <= 1
      PROVE  AtHome(e) /\ InHandlers(e) = {} /\ Delivered(e) = {} /\ Returned(e) = {}
  <2>1. AtHome(e)
    BY <1>2, <1>3 DEF EventInv
  <2>2. InHandlers(e) = {}
    BY <1>3 DEF EventInv, TypeOK
  <2>3. disp[o].pc \in {"none", "handler"}
    BY <1>1 DEF ContextsInv
  <2>4. Delivered(e) = {}
    BY <1>1, <2>1, <2>2, <2>3 DEF AtHome, Delivered, InHandlers
  <2>5. Returned(e) = {}
    BY <1>1, <2>1 DEF AtHome, Returned
  <2> QED  BY <2>1, <2>2, <2>4, <2>5
<1>4. ASSUME NEW t \in Task, op[t].pc = "subOwner", op[t].e = e PROVE FALSE
  <2>1. m_reference_count[e] = 1 /\ t \in Returned(e)
    BY <1>4 DEF EventInv, StagesInv, Returned
  <2> QED  BY <1>3, <2>1
<1> QED  BY <1>2, <1>3, <1>4

(* The first addition: the cases that ErSendEx() tells by the old count.    *)
LEMMA AddSubscribersKeeps ==
  ASSUME TypeOK, CountInv, NEW c \in Context, AddSubscribers(c), failed' = "none"
  PROVE  CountInv'
<1>0. /\ failed = "none" /\ ContextsInv /\ op \in [Context -> Calls]
      /\ Task \subseteq Context
  BY DEF CountInv, TypeOK, Context, AddSubscribers, At, Running
<1>1. op[c].pc = "add"
  BY DEF AddSubscribers, At
<1>2. UNCHANGED <<queue, disp, kept>>
  BY DEF AddSubscribers
<1>3. PICK e0 \in Event, mask \in SUBSET Task, old \in Nat :
        op[c].e = e0 /\ op[c].mask = mask /\ m_reference_count[e0] = old
  <2>1. op[c].e \in Event /\ op[c].mask \in SUBSET Task
    BY <1>0, <1>1, CallShapes
  <2>2. m_reference_count[op[c].e] \in Nat
    BY <1>0, <2>1 DEF AddSubscribers, Assert, TypeOK
  <2> QED  BY <2>1, <2>2
<1> DEFINE x == AfterCount(e0, mask, old)
<1>4. Call(c, x) /\ Add(e0, Cardinality(mask)) /\ c = OwnerTask(e0) /\ c \in Task
  BY <1>0, <1>1, <1>3, OwnerTaskTyped DEF AddSubscribers, ContextsInv
<1>5. \A d \in Context : op'[d] = IF d = c THEN x ELSE op[d]
  BY <1>0, <1>1, <1>4 DEF Call
<1>6. \A e \in Event : m_reference_count'[e] =
                         IF e = e0 THEN old + Cardinality(mask) ELSE m_reference_count[e]
  BY <1>1, <1>4, <1>3 DEF Add, TypeOK
<1>7. IsFiniteSet(mask) /\ Cardinality(mask) \in Nat
  BY <1>3, <1>4, MaskFinite
<1>8. /\ x.pc \in {"none", "addReturn", "post"}
      /\ x.pc # "none" => x.e = e0
  BY PostingMarks DEF AfterCount
<1>9. ContextsInv'
  BY <1>0, <1>1, <1>4, <1>2, <1>3, <1>5, <1>8 DEF ContextsInv, OwnerTask
<1>10. ASSUME NEW e \in Event, e # e0 PROVE EventInv(e)'
  <2>1. EventInv(e) /\ StagesInv(e)
    BY <1>0 DEF CountInv, EventInv
  <2>2. ~Concerns(op[c], e) /\ ~Concerns(x, e)
    BY <1>3, <1>8, <1>10 DEF Concerns
  <2>3. m_reference_count'[e] = m_reference_count[e]
    BY <1>6, <1>10
  <2>4. SameCalls(e) /\ StagesInv(e)'
    BY <1>0, <1>1, <1>4, <2>1, <2>2, <2>3, OtherCall
  <2>5. SameActivations(e)
    BY <1>2, NoActivation
  <2>6. UNCHANGED <<Queued(e), Keeping(e)>>
    BY <1>2 DEF Queued, Keeping
  <2> QED  BY <2>1, <2>3, <2>4, <2>5, <2>6, OtherEvent
<1>11. EventInv(e0)'
  <2>1. EventInv(e0) /\ FiniteReferences(e0) /\ Counted(e0) /\ StagesInv(e0)
    BY <1>0, <1>3, <1>4 DEF CountInv, EventInv
  <2>2. /\ ~HalfCounted(e0)
        /\ \A t \in Task : ~(op[t].pc = "subOwner" /\ op[t].e = e0)
        /\ old <= 1 => /\ AtHome(e0) /\ InHandlers(e0) = {}
                       /\ Delivered(e0) = {} /\ Returned(e0) = {}
    BY <1>0, <1>1, <1>4, <1>3, <2>1, IdleOrWaiting
  <2>3. UNCHANGED <<Queued(e0), Keeping(e0), Delivered(e0), InHandlers(e0)>>
    BY <1>2 DEF Queued, Keeping, Delivered, InHandlers
  <2>4. Returned(e0)' = Returned(e0)
    BY <1>0, <1>1, <1>4, <1>5, <1>8 DEF Returned
  <2>5. StagesInv(e0)'
    <3>1. \A d \in Context : op'[d].pc \in {"mark", "add"} => op'[d].e # e0
      BY <1>0, <1>1, <1>4, <1>3, <1>5, <1>8 DEF ContextsInv
    <3>2. \A t \in Task : ~(op'[t].pc = "subOwner" /\ op'[t].e = e0)
      BY <1>0, <1>5, <1>8, <2>2
    <3> QED  BY <3>1, <3>2 DEF StagesInv
  <2>6. MarkedBy(op[c], e0) = {}
    BY <1>1, <1>4 DEF MarkedBy
  <2>7. References(e0) \in Nat /\ Cardinality(Marked(e0)) \in Nat
    BY <2>1, PartsAreNumbers
  <2>8. CASE old = 0 \/ (old = 1 /\ mask # {} /\ OwnerTask(e0) \notin mask)
    <3>1. x = [pc |-> "addReturn", e |-> e0, mask |-> mask]
      BY <2>8 DEF AfterCount
    <3>2. MarkedBy(x, e0) = mask
      BY <3>1 DEF MarkedBy
    <3>3. /\ Marked(e0)' = Marked(e0) \cup ({c} \X mask)
          /\ IsFiniteSet(Marked(e0)')
          /\ Cardinality(Marked(e0)') = Cardinality(Marked(e0)) + Cardinality(mask)
      BY <1>1, <1>4, <1>3, <2>1, <2>6, <3>2, MarkedGrows DEF FiniteReferences
    <3>4. FiniteReferences(e0)'
      BY <2>1, <2>3, <2>4, <3>3 DEF FiniteReferences
    <3>5. HalfCounted(e0)'
      BY <1>5, <3>1 DEF HalfCounted
    <3>6. old = References(e0)
      BY <1>3, <2>1, <2>7, <2>8 DEF Counted, WayBack
    <3>7. References(e0)' = References(e0) + Cardinality(mask)
      <4>1. /\ Cardinality(Queued(e0)) \in Nat /\ Cardinality(Delivered(e0)) \in Nat
            /\ Cardinality(Returned(e0)) \in Nat /\ Cardinality(Keeping(e0)) \in Nat
        BY <2>1, PartsAreNumbers
      <4> QED  BY <1>7, <2>3, <2>4, <2>7, <3>3, <4>1 DEF References
    <3>8. Counted(e0)'
      BY <1>3, <1>4, <1>6, <1>7, <2>7, <3>5, <3>6, <3>7 DEF Counted, WayBack
    <3>9. WaitsForOwner(e0)'
      <4>1. \A p \in Marked(e0)' : OwnerTask(e0) \in {p[1], p[2]}
        BY <1>3, <1>4, <2>2, <2>8, <3>3 DEF AtHome
      <4>2. \A p \in Queued(e0)' : p[1] = OwnerTask(e0)
        BY <2>2, <2>3, <2>8 DEF AtHome
      <4>3. Delivered(e0)' = {} /\ Returned(e0)' = {} /\ Keeping(e0)' = {}
        BY <2>2, <2>3, <2>4, <2>8 DEF AtHome
      <4>4. op'[OwnerTask(e0)].mask = {} => m_reference_count'[e0] = 0
        <5>1. op'[OwnerTask(e0)].mask = mask
          BY <1>3, <1>4, <1>5, <3>1
        <5>2. mask = {} => Cardinality(mask) = 0
          BY FS_EmptySet
        <5> QED  BY <1>3, <1>4, <1>6, <2>8, <5>1, <5>2
      <4> QED  BY <4>1, <4>2, <4>3, <4>4 DEF WaitsForOwner, OwnerTask
    <3>10. InHandlers(e0)' = {}
      BY <2>2, <2>3, <2>8
    <3> QED  BY <2>5, <3>4, <3>5, <3>8, <3>9, <3>10 DEF EventInv
  <2>9. CASE ~(old = 0 \/ (old = 1 /\ mask # {} /\ OwnerTask(e0) \notin mask))
    <3> DEFINE rest == IF old = 1 THEN mask \ {OwnerTask(e0)} ELSE mask
    <3>1. x = Posting(e0, rest)
      BY <2>9 DEF AfterCount
    <3>2. /\ MarkedBy(x, e0) = rest /\ rest \in SUBSET Task
          /\ old = 1 => rest = mask \ {OwnerTask(e0)}
          /\ old # 1 => rest = mask
      BY <1>3, <1>4, <3>1, PostingMarks
    <3> HIDE DEF rest, x
    <3>3. /\ Marked(e0)' = Marked(e0) \cup ({c} \X rest)
          /\ IsFiniteSet(Marked(e0)')
          /\ Cardinality(Marked(e0)') = Cardinality(Marked(e0)) + Cardinality(rest)
      BY <1>1, <1>4, <1>3, <2>1, <2>6, <3>2, MarkedGrows DEF FiniteReferences
    <3>4. FiniteReferences(e0)'
      BY <2>1, <2>3, <2>4, <3>3 DEF FiniteReferences
    <3>5. ~HalfCounted(e0)'
      <4>1. x.pc \in {"none", "post"}
        BY <3>1, PostingMarks
      <4> QED  BY <1>0, <1>3, <1>4, <1>5, <4>1 DEF HalfCounted, ContextsInv
    <3>6. Cardinality(rest) \in Nat
      BY <3>2, MaskFinite
    <3>7. References(e0)' = References(e0) + Cardinality(rest)
      <4>1. /\ Cardinality(Queued(e0)) \in Nat /\ Cardinality(Delivered(e0)) \in Nat
            /\ Cardinality(Returned(e0)) \in Nat /\ Cardinality(Keeping(e0)) \in Nat
        BY <2>1, PartsAreNumbers
      <4> QED  BY <2>3, <2>4, <2>7, <3>3, <3>6, <4>1 DEF References
    <3>8. CASE old = 1 /\ mask = {}
      <4>1. rest = {} /\ Cardinality(rest) = 0 /\ Cardinality(mask) = 0
        BY <3>2, <3>8, FS_EmptySet
      <4>2. m_reference_count'[e0] = 1 /\ References(e0)' = References(e0)
        BY <1>3, <1>4, <1>6, <2>7, <3>7, <3>8, <4>1
      <4>3. References(e0) = 1
        BY <1>3, <2>1, <2>7, <3>8 DEF Counted, WayBack
      <4>4. Counted(e0)'
        BY <4>2, <4>3 DEF Counted, WayBack
      <4>5. Marked(e0)' = Marked(e0)
        BY <3>3, <4>1
      <4>6. AtHome(e0)'
        BY <2>2, <2>3, <2>4, <3>8, <4>5 DEF AtHome, OwnerTask
      <4>7. InHandlers(e0)' = {}
        BY <2>2, <2>3, <3>8
      <4> QED  BY <2>5, <3>4, <3>5, <4>4, <4>6, <4>7 DEF EventInv
    <3>9. CASE old > 1 \/ (old = 1 /\ OwnerTask(e0) \in mask)
      <4>1. old = References(e0) + IF old > 1 THEN 1 ELSE 0
        BY <1>3, <2>1, <2>2 DEF Counted, WayBack
      <4>2. /\ m_reference_count'[e0] = References(e0)' + 1
            /\ m_reference_count'[e0] > 1
        <5>1. CASE old > 1
          <6>1. rest = mask
            BY <3>2, <5>1
          <6> QED  BY <1>3, <1>4, <1>6, <1>7, <2>7, <3>7, <4>1, <5>1, <6>1
        <5>2. CASE old = 1 /\ OwnerTask(e0) \in mask
          <6>1. rest = mask \ {OwnerTask(e0)}
            BY <3>2, <5>2
          <6>2. Cardinality(rest) = Cardinality(mask) - 1
            BY <1>7, <5>2, <6>1, FS_RemoveElement
          <6>3. References(e0) = 1
            BY <2>7, <4>1, <5>2
          <6> QED  BY <1>3, <1>4, <1>6, <1>7, <3>6, <3>7, <5>2, <6>2, <6>3
        <5> QED  BY <3>9, <5>1, <5>2
      <4>3. Counted(e0)'
        BY <3>5, <4>2 DEF Counted, WayBack
      <4>4. m_reference_count'[e0] > 1 => ~(m_reference_count'[e0] <= 1)
        BY <1>4, <1>6, <1>7, <1>3
      <4> QED  BY <2>5, <3>4, <3>5, <4>2, <4>3, <4>4 DEF EventInv
    <3> QED  BY <1>4, <2>9, <3>8, <3>9
  <2> QED  BY <2>8, <2>9
<1> QED  BY <1>9, <1>10, <1>11 DEF CountInv

(* A step of a context that is about another event, or about none.         *)
LEMMA OthersKeep ==
  ASSUME TypeOK, ContextsInv, NEW e \in Event, EventInv(e),
         NEW c \in Context, NEW x, Call(c, x), ~Concerns(op[c], e), ~Concerns(x, e),
         m_reference_count'[e] = m_reference_count[e], SameActivations(e),
         UNCHANGED <<Queued(e), Keeping(e)>>
  PROVE  EventInv(e)'
<1>1. SameCalls(e) /\ StagesInv(e)'
  BY OtherCall DEF EventInv
<1> QED  BY <1>1, OtherEvent

(* The second addition ends the half-counted stage.                         *)
LEMMA AddReturnTripKeeps ==
  ASSUME TypeOK, CountInv, NEW c \in Context, AddReturnTrip(c)
  PROVE  CountInv'
<1>0. /\ failed = "none" /\ ContextsInv /\ op \in [Context -> Calls]
      /\ Task \subseteq Context
  BY DEF CountInv, TypeOK, Context, AddReturnTrip, At, Running
<1>1. op[c].pc = "addReturn"
  BY DEF AddReturnTrip, At
<1>2. UNCHANGED <<queue, disp, kept>>
  BY DEF AddReturnTrip
<1>3. PICK e0 \in Event, mask \in SUBSET Task : op[c].e = e0 /\ op[c].mask = mask
  BY <1>0, <1>1, CallShapes
<1> DEFINE next == IF mask = {} THEN {OwnerTask(e0)} ELSE mask
           x == Posting(e0, next)
<1>4. /\ Call(c, x) /\ Add(e0, 1)
      /\ c = OwnerTask(e0) /\ c \in Task
  BY <1>0, <1>1, <1>3, OwnerTaskTyped DEF AddReturnTrip, ContextsInv
<1>5. \A d \in Context : op'[d] = IF d = c THEN x ELSE op[d]
  BY <1>0, <1>4 DEF Call
<1>6. \A e \in Event : m_reference_count'[e] =
                         IF e = e0 THEN m_reference_count[e] + 1 ELSE m_reference_count[e]
  BY <1>3, <1>4 DEF Add, TypeOK
<1>7. /\ mask = {} => next = {c}
      /\ mask # {} => next = mask
      /\ next \in SUBSET Task
      /\ MarkedBy(x, e0) = next
      /\ x.pc = "post" /\ x.e = e0
  BY <1>3, <1>4, PostingMarks DEF Posting
<1> HIDE DEF next, x
<1>8. ContextsInv'
  BY <1>0, <1>1, <1>2, <1>3, <1>4, <1>5, <1>7 DEF ContextsInv, OwnerTask
<1>9. ASSUME NEW e \in Event, e # e0 PROVE EventInv(e)'
  <2>1. EventInv(e)
    BY <1>0 DEF CountInv
  <2>2. ~Concerns(op[c], e) /\ ~Concerns(x, e)
    BY <1>3, <1>7, <1>9 DEF Concerns
  <2>3. SameActivations(e)
    BY <1>2, NoActivation
  <2>4. UNCHANGED <<Queued(e), Keeping(e)>>
    BY <1>2 DEF Queued, Keeping
  <2>5. m_reference_count'[e] = m_reference_count[e]
    BY <1>6, <1>9
  <2> QED  BY <1>0, <1>4, <2>1, <2>2, <2>3, <2>4, <2>5, OthersKeep
<1>10. EventInv(e0)'
  <2>1. EventInv(e0) /\ FiniteReferences(e0) /\ Counted(e0)
    BY <1>0 DEF CountInv, EventInv
  <2>2. HalfCounted(e0) /\ WaitsForOwner(e0)
    BY <1>1, <1>3, <2>1 DEF HalfCounted, EventInv
  <2>3. UNCHANGED <<Queued(e0), Keeping(e0), Delivered(e0), InHandlers(e0)>>
    BY <1>2 DEF Queued, Keeping, Delivered, InHandlers
  <2>4. Returned(e0)' = Returned(e0)
    BY <1>0, <1>1, <1>5, <1>7 DEF Returned
  <2>5. ~HalfCounted(e0)'
    BY <1>0, <1>3, <1>4, <1>5, <1>7 DEF HalfCounted, ContextsInv
  <2>6. /\ References(e0) \in Nat /\ m_reference_count[e0] = References(e0)
        /\ Cardinality(Marked(e0)) \in Nat /\ Cardinality(Queued(e0)) \in Nat
        /\ Cardinality(Delivered(e0)) \in Nat /\ Cardinality(Returned(e0)) \in Nat
        /\ Cardinality(Keeping(e0)) \in Nat
    BY <2>1, <2>2, PartsAreNumbers DEF Counted, WayBack
  <2>7. StagesInv(e0)'
    <3>1. \A d \in Context : op'[d].pc \in {"mark", "add"} => op'[d].e # e0
      BY <1>0, <1>3, <1>4, <1>5, <1>7 DEF ContextsInv
    <3>2. \A t \in Task : ~(op'[t].pc = "subOwner" /\ op'[t].e = e0)
      BY <1>0, <1>5, <1>7, <2>2 DEF WaitsForOwner, Returned
    <3> QED  BY <3>1, <3>2 DEF StagesInv
  <2>8. CASE mask = {}
    <3>1. m_reference_count[e0] = 0
      BY <1>3, <1>4, <2>2, <2>8 DEF WaitsForOwner
    <3>2. /\ Marked(e0) = {} /\ Queued(e0) = {} /\ Delivered(e0) = {}
          /\ Returned(e0) = {} /\ Keeping(e0) = {}
      BY <2>1, <3>1, NoReferences
    <3>3. MarkedBy(op[c], e0) = {}
      BY <1>3, <2>8 DEF MarkedBy
    <3>4. /\ Marked(e0)' = Marked(e0) \cup ({c} \X {c})
          /\ IsFiniteSet(Marked(e0)')
          /\ Cardinality(Marked(e0)') = Cardinality(Marked(e0)) + Cardinality({c})
      <4>1. MarkedBy(x, e0) = {c} /\ MarkedBy(x, e0) \in SUBSET Task
        BY <1>7, <2>8
      <4>2. IsFiniteSet(Marked(e0))
        BY <2>1 DEF FiniteReferences
      <4>3. /\ Marked(e0)' = Marked(e0) \cup ({c} \X MarkedBy(x, e0))
            /\ IsFiniteSet(Marked(e0)')
            /\ Cardinality(Marked(e0)') = Cardinality(Marked(e0)) + Cardinality(MarkedBy(x, e0))
        BY <1>4, <3>3, <4>1, <4>2, MarkedGrows
      <4> QED  BY <4>1, <4>3
    <3>5. FiniteReferences(e0)'
      BY <2>1, <2>3, <2>4, <3>4 DEF FiniteReferences
    <3>6. References(e0)' = 1
      <4>1. Cardinality({c}) = 1 /\ Cardinality({}) = 0
        BY FS_Singleton, FS_EmptySet
      <4> QED  BY <2>3, <2>4, <3>2, <3>4, <4>1 DEF References
    <3>7. Counted(e0)' /\ m_reference_count'[e0] = 1
      <4>1. m_reference_count'[e0] = 1
        BY <1>3, <1>6, <3>1
      <4> QED  BY <3>6, <4>1 DEF Counted, WayBack
    <3>8. AtHome(e0)'
      <4>1. \A p \in Marked(e0)' : p[2] = c
        BY <3>2, <3>4
      <4> QED  BY <1>4, <2>3, <2>4, <3>2, <4>1 DEF AtHome, OwnerTask
    <3>9. InHandlers(e0)' = {}
      BY <2>1, <2>3, <3>1 DEF EventInv
    <3> QED  BY <2>5, <2>7, <3>5, <3>7, <3>8, <3>9 DEF EventInv
  <2>9. CASE mask # {}
    <3>1. Marked(e0)' = Marked(e0)
      <4>1. MarkedBy(x, e0) = MarkedBy(op[c], e0)
        BY <1>1, <1>3, <1>7, <2>9 DEF MarkedBy
      <4> QED  BY <1>4, <4>1, MarkedSame
    <3>2. FiniteReferences(e0)' /\ References(e0)' = References(e0)
      BY <2>1, <2>3, <2>4, <3>1 DEF FiniteReferences, References
    <3>3. References(e0) >= 1
      <4>1. PICK t \in Task : t \in mask
        BY <2>9
      <4>2. <<c, t>> \in Marked(e0)
        BY <1>1, <1>3, <4>1 DEF Marked
      <4>3. Cardinality(Marked(e0)) # 0
        BY <2>1, <4>2, PartsAreNumbers
      <4> QED  BY <2>6, <4>3 DEF References
    <3>4. m_reference_count'[e0] = References(e0)' + 1 /\ m_reference_count'[e0] > 1
      BY <1>6, <2>6, <3>2, <3>3
    <3>5. Counted(e0)'
      BY <2>5, <3>4 DEF Counted, WayBack
    <3>6. ~(m_reference_count'[e0] <= 1)
      BY <2>6, <3>2, <3>4
    <3> QED  BY <2>5, <2>7, <3>2, <3>4, <3>5, <3>6 DEF EventInv
  <2> QED  BY <2>8, <2>9
<1> QED  BY <1>8, <1>9, <1>10 DEF CountInv

(* A mask has a task of highest priority.                                  *)
LEMMA SmallestInMask ==
  ASSUME NEW mask \in (SUBSET Task) \ {{}}
  PROVE  Smallest(mask) \in mask
<1> DEFINE Upto(t) == {u \in mask : u <= t}
           R == StrictSubsetOrdering(Task)
<1>1. mask \subseteq Nat /\ mask # {}
  BY TasksAssumption DEF Task
<1>2. \A t \in mask : Upto(t) \in FiniteSubsetsOf(Task)
  BY MaskFinite DEF FiniteSubsetsOf
<1>3. PICK x \in {Upto(t) : t \in mask} :
        \A y \in {Upto(t) : t \in mask} : ~(<<y, x>> \in R)
  <2>1. {Upto(t) : t \in mask} # {} /\ {Upto(t) : t \in mask} \subseteq FiniteSubsetsOf(Task)
    BY <1>1, <1>2
  <2> HIDE DEF Upto, R
  <2>2. IsWellFoundedOn(R, FiniteSubsetsOf(Task))
    BY FS_StrictSubsetOrderingWellFounded DEF R
  <2> QED  BY <2>1, <2>2, WFMin
<1>4. PICK t \in mask : x = Upto(t)
  BY <1>3
<1>5. ASSUME NEW u \in mask, ~(t <= u) PROVE FALSE
  <2>1. u < t /\ t \in Nat /\ u \in Nat
    BY <1>1, <1>5
  <2>2. Upto(u) \subseteq Upto(t) /\ t \in Upto(t) /\ t \notin Upto(u)
    <3>1. \A v \in mask : v <= u => v <= t
      BY <1>1, <2>1
    <3>2. t <= t /\ ~(t <= u)
      BY <2>1
    <3> QED  BY <3>1, <3>2
  <2>3. <<Upto(u), Upto(t)>> \in R
    <3>1. Upto(u) \in SUBSET Task /\ Upto(t) \in SUBSET Task
      OBVIOUS
    <3> HIDE DEF Upto
    <3> QED  BY <2>2, <3>1 DEF StrictSubsetOrdering
  <2> QED  BY <1>3, <1>4, <2>3
<1> QED  BY <1>5 DEF Smallest

(* A queue with room takes a copy of e0 at its end.                        *)
LEMMA QueuedGrows ==
  ASSUME TypeOK, NEW t \in Task, NEW e0 \in Event, Len(queue[t]) < Capacity,
         queue' = [queue EXCEPT ![t] = Append(@, e0)], NEW e \in Event
  PROVE  /\ Queued(e)' = IF e = e0 THEN Queued(e) \cup {<<t, Len(queue[t]) + 1>>}
                                   ELSE Queued(e)
         /\ <<t, Len(queue[t]) + 1>> \notin Queued(e)
<1> DEFINE n == Len(queue[t])
           P(x) == x[2] <= Len(queue[x[1]]) /\ queue[x[1]][x[2]] = e
<1>1. n \in Nat /\ n + 1 \in 1..Capacity /\ Capacity \in Nat
  BY BoundsAssumption DEF TypeOK
<1>2. /\ queue'[t] = Append(queue[t], e0)
      /\ Len(queue'[t]) = n + 1 /\ queue'[t][n + 1] = e0
      /\ \A i \in 1..n : queue'[t][i] = queue[t][i]
  BY DEF TypeOK
<1>3. \A u \in Task : u # t => queue'[u] = queue[u]
  BY DEF TypeOK
<1>4. \A x \in Task \X (1..Capacity) :
        P(x)' <=> P(x) \/ (e = e0 /\ x = <<t, n + 1>>)
  <2> SUFFICES ASSUME NEW u \in Task, NEW i \in 1..Capacity
               PROVE  (i <= Len(queue'[u]) /\ queue'[u][i] = e)
                        <=> \/ i <= Len(queue[u]) /\ queue[u][i] = e
                            \/ e = e0 /\ u = t /\ i = n + 1
    OBVIOUS
  <2>1. CASE u # t
    BY <1>3, <2>1
  <2>2. CASE u = t /\ i <= n
    BY <1>1, <1>2, <2>2
  <2>3. CASE u = t /\ i > n
    BY <1>1, <1>2, <2>3
  <2> QED  BY <1>1, <2>1, <2>2, <2>3
<1>5. <<t, n + 1>> \notin Queued(e)
  BY <1>1 DEF Queued
<1>6. <<t, n + 1>> \in Task \X (1..Capacity)
  BY <1>1
<1>7. /\ Queued(e) = {x \in Task \X (1..Capacity) : P(x)}
      /\ Queued(e)' = {x \in Task \X (1..Capacity) : P(x)'}
  BY DEF Queued, Task
<1> HIDE DEF n, P
<1>8. Queued(e)' = IF e = e0 THEN Queued(e) \cup {<<t, n + 1>>} ELSE Queued(e)
  BY <1>4, <1>6, <1>7
<1> QED  BY <1>5, <1>8 DEF n

(* Posting turns a marked copy into a queued one.                           *)
LEMMA SendEventKeeps ==
  ASSUME TypeOK, CountInv, NEW c \in Context, SendEvent(c), failed' = "none"
  PROVE  CountInv'
<1>0. /\ failed = "none" /\ ContextsInv /\ op \in [Context -> Calls]
      /\ Task \subseteq Context
  BY DEF CountInv, TypeOK, Context, SendEvent, At, Running
<1>1. op[c].pc = "post"
  BY DEF SendEvent, At
<1>2. UNCHANGED <<m_reference_count, disp, kept>>
  BY DEF SendEvent
<1>3. PICK e0 \in Event, mask \in (SUBSET Task) \ {{}} : op[c].e = e0 /\ op[c].mask = mask
  BY <1>0, <1>1, CallShapes
<1>4. PICK t \in Task : t = Smallest(mask) /\ t \in mask
  BY <1>3, SmallestInMask
<1> DEFINE x == Posting(e0, mask \ {t})
<1>5. Call(c, x) /\ Len(queue[t]) < Capacity
  BY <1>0, <1>3, <1>4 DEF SendEvent, Assert
<1>6. queue' = [queue EXCEPT ![t] = Append(@, e0)]
  BY <1>3, <1>4, <1>5 DEF SendEvent
<1>7. \A d \in Context : op'[d] = IF d = c THEN x ELSE op[d]
  BY <1>0, <1>5 DEF Call
<1>8. /\ MarkedBy(x, e0) = mask \ {t}
      /\ x.pc \in {"none", "post"}
      /\ x.pc = "post" => x.e = e0
  BY PostingMarks
<1> HIDE DEF x
<1>9. ContextsInv'
  <2>1. \A u \in Task : Len(queue'[u]) <= Capacity
    BY <1>0, <1>5, <1>6, BoundsAssumption DEF ContextsInv, TypeOK
  <2> QED  BY <1>0, <1>1, <1>2, <1>7, <1>8, <2>1 DEF ContextsInv, OwnerTask
<1>10. ASSUME NEW e \in Event, e # e0 PROVE EventInv(e)'
  <2>1. EventInv(e)
    BY <1>0 DEF CountInv
  <2>2. ~Concerns(op[c], e) /\ ~Concerns(x, e)
    BY <1>3, <1>8, <1>10 DEF Concerns
  <2>3. SameActivations(e)
    BY <1>2, NoActivation
  <2>4. Queued(e)' = Queued(e)
    BY <1>3, <1>5, <1>6, <1>10, QueuedGrows
  <2>5. Keeping(e)' = Keeping(e) /\ m_reference_count'[e] = m_reference_count[e]
    BY <1>2 DEF Keeping
  <2> QED  BY <1>0, <1>5, <2>1, <2>2, <2>3, <2>4, <2>5, OthersKeep
<1>11. EventInv(e0)'
  <2>1. EventInv(e0) /\ FiniteReferences(e0) /\ Counted(e0) /\ StagesInv(e0)
    BY <1>0, <1>3 DEF CountInv, EventInv
  <2>2. UNCHANGED <<Keeping(e0), Delivered(e0), InHandlers(e0), m_reference_count>>
    BY <1>2 DEF Keeping, Delivered, InHandlers
  <2>3. Returned(e0)' = Returned(e0)
    BY <1>0, <1>1, <1>7, <1>8 DEF Returned
  <2>4. HalfCounted(e0)' <=> HalfCounted(e0)
    BY <1>1, <1>7, <1>8 DEF HalfCounted
  <2>5. StagesInv(e0)'
    BY <1>0, <1>1, <1>2, <1>7, <1>8, <2>1 DEF StagesInv
  <2>6. /\ Queued(e0)' = Queued(e0) \cup {<<t, Len(queue[t]) + 1>>}
        /\ <<t, Len(queue[t]) + 1>> \notin Queued(e0)
    BY <1>3, <1>5, <1>6, QueuedGrows
  <2>7. /\ Marked(e0)' = Marked(e0) \ {<<c, t>>}
        /\ <<c, t>> \in Marked(e0)
    <3>1. <<c, t>> \in Marked(e0)
      BY <1>1, <1>3, <1>4 DEF Marked
    <3>2. \A p \in Context \X Task :
            p \in Marked(e0)' <=> IF p[1] = c THEN p[2] \in mask \ {t} ELSE p \in Marked(e0)
      BY <1>3, <1>5, <1>8, MarkedAfter
    <3>3. \A p \in Context \X Task : p[1] = c => (p \in Marked(e0) <=> p[2] \in mask)
      BY <1>1, <1>3 DEF Marked
    <3>4. Marked(e0) \subseteq Context \X Task /\ Marked(e0)' \subseteq Context \X Task
      BY DEF Marked, Context, Task
    <3> QED  BY <3>1, <3>2, <3>3, <3>4
  <2>8. /\ IsFiniteSet(Queued(e0)') /\ Cardinality(Queued(e0)') = Cardinality(Queued(e0)) + 1
        /\ IsFiniteSet(Marked(e0)') /\ Cardinality(Marked(e0)') = Cardinality(Marked(e0)) - 1
    <3>1. IsFiniteSet(Queued(e0)) /\ IsFiniteSet(Marked(e0))
      BY <2>1 DEF FiniteReferences
    <3>2. /\ IsFiniteSet(Queued(e0)')
          /\ Cardinality(Queued(e0)') = Cardinality(Queued(e0)) + 1
      BY <2>6, <3>1, FS_AddElement
    <3>3. /\ IsFiniteSet(Marked(e0)')
          /\ Cardinality(Marked(e0)') = Cardinality(Marked(e0)) - 1
      <4>1. PICK y : y = <<c, t>>
        OBVIOUS
      <4>2. Marked(e0)' = Marked(e0) \ {y} /\ y \in Marked(e0)
        BY <2>7, <4>1
      <4> QED  BY <3>1, <4>2, FS_RemoveElement
    <3> QED  BY <3>2, <3>3
  <2>9. FiniteReferences(e0)'
    BY <2>1, <2>2, <2>3, <2>8 DEF FiniteReferences
  <2>10. References(e0)' = References(e0)
    BY <2>1, <2>2, <2>3, <2>8, PartsAreNumbers DEF References
  <2>11. Counted(e0)'
    BY <2>1, <2>2, <2>4, <2>10 DEF Counted, WayBack
  <2>12. AtHome(e0) => AtHome(e0)'
    <3>1. AtHome(e0) => t = OwnerTask(e0)
      BY <2>7 DEF AtHome
    <3>2. <<t, Len(queue[t]) + 1>>[1] = t
      OBVIOUS
    <3> QED  BY <2>2, <2>3, <2>6, <2>7, <3>1, <3>2 DEF AtHome, OwnerTask
  <2>13. HalfCounted(e0) => WaitsForOwner(e0)'
    <3> SUFFICES ASSUME HalfCounted(e0) PROVE WaitsForOwner(e0)'
      OBVIOUS
    <3>1. WaitsForOwner(e0) /\ c # OwnerTask(e0)
      BY <1>0, <1>1, <1>3, <2>1, HalfCountedByOwner DEF EventInv
    <3>2. t = OwnerTask(e0)
      BY <2>7, <3>1 DEF WaitsForOwner
    <3>3. op'[OwnerTask(e0)] = op[OwnerTask(e0)]
      BY <1>0, <1>3, <1>7, <3>1, OwnerTaskTyped
    <3>4. \A p \in Queued(e0)' : p[1] = OwnerTask(e0)
      BY <2>6, <3>1, <3>2 DEF WaitsForOwner
    <3>5. \A p \in Marked(e0)' : OwnerTask(e0) \in {p[1], p[2]}
      BY <2>7, <3>1 DEF WaitsForOwner
    <3> QED  BY <2>2, <2>3, <3>1, <3>3, <3>4, <3>5 DEF WaitsForOwner, OwnerTask
  <2> QED
    BY <2>1, <2>2, <2>4, <2>5, <2>9, <2>11, <2>12, <2>13 DEF EventInv
<1> QED  BY <1>9, <1>10, <1>11 DEF CountInv

(* A queue gives its first copy away: the others move up by one place.     *)
LEMMA QueuedShrinks ==
  ASSUME TypeOK, NEW t \in Task, queue[t] # <<>>, Len(queue[t]) <= Capacity,
         queue' = [queue EXCEPT ![t] = Tail(@)], NEW e \in Event, IsFiniteSet(Queued(e))
  PROVE  /\ IsFiniteSet(Queued(e)')
         /\ Cardinality(Queued(e)')
              = IF Head(queue[t]) = e THEN Cardinality(Queued(e)) - 1
                                      ELSE Cardinality(Queued(e))
         /\ \A x \in Queued(e)' : \E y \in Queued(e) : y[1] = x[1]
         /\ Head(queue[t]) = e => <<t, 1>> \in Queued(e)
<1> DEFINE first == <<t, 1>>
           S == Queued(e) \ {first}
           f == [x \in S |-> IF x[1] = t THEN <<t, x[2] - 1>> ELSE x]
<1>1. /\ Len(queue[t]) \in Nat \ {0} /\ Capacity \in Nat
      /\ Head(queue[t]) = queue[t][1]
      /\ Len(queue'[t]) = Len(queue[t]) - 1
      /\ \A i \in 1..Len(queue'[t]) : queue'[t][i] = queue[t][i + 1]
  BY BoundsAssumption DEF TypeOK
<1>2. \A u \in Task : u # t => queue'[u] = queue[u]
  BY DEF TypeOK
<1>3. first \in Queued(e) <=> Head(queue[t]) = e
  BY <1>1 DEF Queued
<1>4. /\ IsFiniteSet(S)
      /\ Cardinality(S) = IF Head(queue[t]) = e THEN Cardinality(Queued(e)) - 1
                                                ELSE Cardinality(Queued(e))
  BY <1>3, FS_RemoveElement
<1>5. \A u \in Task, i \in Int :
        <<u, i>> \in Queued(e) <=> /\ i \in 1..Capacity /\ i <= Len(queue[u])
                                   /\ queue[u][i] = e
  BY DEF Queued
<1>6. \A u \in Task, i \in Int :
        <<u, i>> \in Queued(e)' <=> /\ i \in 1..Capacity /\ i <= Len(queue'[u])
                                    /\ queue'[u][i] = e
  BY DEF Queued, Task
<1>7. /\ \A x \in Queued(e) : x = <<x[1], x[2]>> /\ x[1] \in Task /\ x[2] \in 1..Capacity
      /\ \A x \in Queued(e)' : x = <<x[1], x[2]>> /\ x[1] \in Task /\ x[2] \in 1..Capacity
  BY DEF Queued, Task
<1>8. \A u \in Task, i \in Int : u # t => (<<u, i>> \in Queued(e)' <=> <<u, i>> \in Queued(e))
  BY <1>2, <1>5, <1>6
<1>9. \A i \in Int : <<t, i>> \in Queued(e)' <=> i >= 1 /\ <<t, i + 1>> \in Queued(e)
  BY <1>1, <1>5, <1>6
<1>10. f \in [S -> Queued(e)']
  <2> SUFFICES ASSUME NEW x \in S PROVE f[x] \in Queued(e)'
    OBVIOUS
  <2>1. x[2] \in Int /\ x[1] \in Task /\ x = <<x[1], x[2]>> /\ x \in Queued(e) /\ x[2] >= 1
    BY <1>1, <1>7
  <2>2. CASE x[1] = t
    <3>1. x[2] # 1
      BY <2>1, <2>2
    <3>2. x[2] - 1 \in Int /\ x[2] - 1 >= 1 /\ (x[2] - 1) + 1 = x[2]
      BY <2>1, <3>1
    <3> QED  BY <1>9, <2>1, <2>2, <3>2
  <2>3. CASE x[1] # t
    BY <1>8, <2>1, <2>3
  <2> QED  BY <2>2, <2>3
<1>11. \A x, y \in S : f[x] = f[y] => x = y
  <2> SUFFICES ASSUME NEW x \in S, NEW y \in S, f[x] = f[y] PROVE x = y
    OBVIOUS
  <2>1. /\ x = <<x[1], x[2]>> /\ x[2] \in Int
        /\ y = <<y[1], y[2]>> /\ y[2] \in Int
    BY <1>1, <1>7
  <2>2. CASE x[1] = t /\ y[1] = t
    BY <2>1, <2>2
  <2>3. CASE x[1] # t /\ y[1] # t
    BY <2>3
  <2>4. CASE (x[1] = t /\ y[1] # t) \/ (x[1] # t /\ y[1] = t)
    BY <2>1, <2>4
  <2> QED  BY <2>2, <2>3, <2>4
<1>12. \A y \in Queued(e)' : \E x \in S : f[x] = y
  <2> SUFFICES ASSUME NEW y \in Queued(e)' PROVE \E x \in S : f[x] = y
    OBVIOUS
  <2>1. y = <<y[1], y[2]>> /\ y[1] \in Task /\ y[2] \in Int /\ y[2] >= 1
    BY <1>1, <1>7
  <2>2. CASE y[1] = t
    <3>1. <<t, y[2] + 1>> \in S
      BY <1>9, <2>1, <2>2
    <3>2. f[<<t, y[2] + 1>>] = <<t, (y[2] + 1) - 1>>
      BY <3>1
    <3>3. (y[2] + 1) - 1 = y[2]
      BY <2>1
    <3>4. f[<<t, y[2] + 1>>] = y
      BY <2>1, <2>2, <3>2, <3>3
    <3> QED  BY <3>1, <3>4
  <2>3. CASE y[1] # t
    <3>1. y \in S /\ f[y] = y
      BY <1>8, <2>1, <2>3
    <3> QED  BY <3>1
  <2> QED  BY <2>2, <2>3
<1>13. ExistsBijection(S, Queued(e)')
  <2> HIDE DEF f, S
  <2>1. DOMAIN f = S
    BY <1>10
  <2>2. f \in Bijection(S, Queued(e)')
    BY <1>10, <1>11, <1>12, <2>1 DEF Bijection, Injection, Surjection, IsInjective
  <2> QED  BY <2>2 DEF ExistsBijection
<1>14. IsFiniteSet(Queued(e)') /\ Cardinality(Queued(e)') = Cardinality(S)
  BY <1>4, <1>13, FS_Bijection
<1>15. \A x \in Queued(e)' : \E y \in Queued(e) : y[1] = x[1]
  <2> SUFFICES ASSUME NEW x \in Queued(e)' PROVE \E y \in Queued(e) : y[1] = x[1]
    OBVIOUS
  <2>1. PICK y \in S : f[y] = x
    BY <1>12
  <2>2. y \in Queued(e) /\ f[y][1] = y[1]
    OBVIOUS
  <2> QED  BY <2>1, <2>2
<1> QED  BY <1>3, <1>4, <1>14, <1>15

(* Receiving turns a queued copy into a delivered one.                      *)
LEMMA ErReceiveKeeps ==
  ASSUME TypeOK, CountInv, NEW t \in Task, ErReceive(t)
  PROVE  CountInv'
<1>0. failed = "none" /\ ContextsInv /\ Task \subseteq Context
  BY DEF CountInv, Context, ErReceive, InClient, Running
<1>1. UNCHANGED <<m_reference_count, op, kept>> /\ op[t].pc = "none" /\ disp[t].pc = "none"
  BY DEF ErReceive, InClient
<1>2. PICK e0 \in Event : e0 = Head(queue[t])
  BY DEF ErReceive, TypeOK
<1>3. /\ queue[t] # <<>> /\ Len(queue[t]) <= Capacity
      /\ queue' = [queue EXCEPT ![t] = Tail(@)]
  BY <1>0 DEF ErReceive, ContextsInv
<1> DEFINE x == [pc |-> "check", e |-> e0]
<1>4. disp' = [disp EXCEPT ![t] = x]
  BY <1>2 DEF ErReceive
<1>5. ContextsInv'
  <2>1. \A u \in Task : Len(queue'[u]) <= Capacity
    BY <1>0, <1>3, BoundsAssumption DEF ContextsInv, TypeOK
  <2> QED  BY <1>0, <1>1, <1>4, <2>1 DEF ContextsInv, OwnerTask, TypeOK
<1>6. ASSUME NEW e \in Event, e # e0 PROVE EventInv(e)'
  <2>1. EventInv(e) /\ StagesInv(e) /\ IsFiniteSet(Queued(e))
    BY <1>0 DEF CountInv, EventInv, FiniteReferences
  <2>2. SameCalls(e) /\ StagesInv(e)'
    BY <1>1, <2>1, NoCall
  <2>3. SameActivations(e)
    BY <1>1, <1>4, <1>6, OtherActivation
  <2>4. SameQueued(e)
    BY <1>2, <1>3, <1>6, <2>1, QueuedShrinks DEF SameQueued
  <2>5. UNCHANGED Keeping(e)
    BY <1>1 DEF Keeping
  <2> QED  BY <1>1, <2>1, <2>2, <2>3, <2>4, <2>5, QueuedMove
<1>7. EventInv(e0)'
  <2>1. EventInv(e0) /\ FiniteReferences(e0) /\ Counted(e0) /\ StagesInv(e0)
    BY <1>0, <1>2 DEF CountInv, EventInv
  <2>2. UNCHANGED <<Marked(e0), Returned(e0), Keeping(e0)>>
    BY <1>1 DEF Marked, Returned, Keeping
  <2>3. StagesInv(e0)' /\ (HalfCounted(e0)' <=> HalfCounted(e0))
    BY <1>1, <2>1 DEF StagesInv, HalfCounted
  <2>4. /\ IsFiniteSet(Queued(e0)')
        /\ Cardinality(Queued(e0)') = Cardinality(Queued(e0)) - 1
        /\ \A p \in Queued(e0)' : \E q \in Queued(e0) : q[1] = p[1]
        /\ <<t, 1>> \in Queued(e0)
    BY <1>2, <1>3, <2>1, QueuedShrinks DEF FiniteReferences
  <2>5. Delivered(e0)' = Delivered(e0) \cup {t} /\ InHandlers(e0)' = InHandlers(e0) \ {t}
    <3>1. x.pc = "check" /\ x.e = e0
      OBVIOUS
    <3> HIDE DEF x
    <3> QED  BY <1>4, <3>1, DeliveredAfter
  <2>6. t \notin Delivered(e0)
    BY <1>1 DEF Delivered
  <2>7. /\ IsFiniteSet(Delivered(e0)')
        /\ Cardinality(Delivered(e0)') = Cardinality(Delivered(e0)) + 1
    BY <2>1, <2>5, <2>6, FS_AddElement DEF FiniteReferences
  <2>8. FiniteReferences(e0)'
    BY <2>1, <2>2, <2>4, <2>7 DEF FiniteReferences
  <2>9. References(e0)' = References(e0)
    BY <2>1, <2>2, <2>4, <2>7, PartsAreNumbers DEF References
  <2>10. Counted(e0)'
    BY <1>1, <2>1, <2>3, <2>9 DEF Counted, WayBack
  <2>11. AtHome(e0) \/ WaitsForOwner(e0) => t = OwnerTask(e0)
    BY <2>4 DEF AtHome, WaitsForOwner
  <2>12. AtHome(e0) => AtHome(e0)'
    BY <2>2, <2>4, <2>5, <2>11 DEF AtHome, OwnerTask
  <2>13. ~HalfCounted(e0)
    BY <1>0, <1>1, <2>1, <2>11, HalfCountedByOwner DEF EventInv
  <2> QED  BY <1>1, <2>1, <2>3, <2>5, <2>8, <2>10, <2>12, <2>13 DEF EventInv
<1> QED  BY <1>5, <1>6, <1>7 DEF CountInv

(* An event that is being delivered, returned or kept is fully counted.    *)
LEMMA HeldIsCounted ==
  ASSUME NEW e \in Event, EventInv(e),
         Delivered(e) # {} \/ Returned(e) # {} \/ Keeping(e) # {}
  PROVE  ~HalfCounted(e)
  BY DEF EventInv, WaitsForOwner

(* The event of an activation that is over is returned by the same task.   *)
LEMMA DoneKeeps ==
  ASSUME TypeOK, CountInv, failed = "none", NEW t \in Task, Done(t),
         op[t].pc = "none", disp[t].pc # "none",
         UNCHANGED <<m_reference_count, queue, kept>>
  PROVE  CountInv'
<1>0. ContextsInv /\ op \in [Context -> Calls] /\ t \in Context
  BY DEF CountInv, Context, TypeOK
<1>1. PICK e0 \in Event : e0 = disp[t].e
  <2>1. disp[t] \in Activations
    BY DEF TypeOK
  <2> QED  BY <2>1 DEF Activations, None
<1> DEFINE x == [pc |-> "sub", e |-> e0]
<1>2. Call(t, x) /\ disp' = [disp EXCEPT ![t] = None]
  BY <1>1 DEF Done
<1>3. \A d \in Context : op'[d] = IF d = t THEN x ELSE op[d]
  BY <1>0, <1>2 DEF Call
<1>4. ContextsInv'
  <2>1. \A u \in Task : disp'[u] = IF u = t THEN None ELSE disp[u]
    BY <1>2 DEF TypeOK
  <2> QED  BY <1>0, <1>3, <2>1 DEF ContextsInv, OwnerTask, Context, None
<1>5. ASSUME NEW e \in Event, e # e0 PROVE EventInv(e)'
  <2>1. EventInv(e)
    BY DEF CountInv
  <2>2. ~Concerns(op[t], e) /\ ~Concerns(x, e)
    BY <1>5 DEF Concerns
  <2>3. SameActivations(e)
    BY <1>1, <1>2, <1>5, OtherActivation DEF None
  <2>4. UNCHANGED <<Queued(e), Keeping(e)>>
    BY DEF Queued, Keeping
  <2> QED  BY <1>0, <1>2, <2>1, <2>2, <2>3, <2>4, OthersKeep
<1>6. EventInv(e0)'
  <2>1. EventInv(e0) /\ FiniteReferences(e0) /\ Counted(e0) /\ StagesInv(e0)
    BY <1>1 DEF CountInv, EventInv
  <2>2. t \in Delivered(e0) /\ t \notin Returned(e0)
    BY <1>1 DEF Delivered, Returned
  <2>3. ~HalfCounted(e0)
    BY <2>1, <2>2, HeldIsCounted
  <2>4. UNCHANGED <<Queued(e0), Keeping(e0)>>
    BY DEF Queued, Keeping
  <2>5. Marked(e0)' = Marked(e0)
    BY <1>0, <1>2, MarkedSame DEF MarkedBy
  <2>6. Returned(e0)' = Returned(e0) \cup {t}
    BY <1>2, ReturnedAfter
  <2>7. Delivered(e0)' = Delivered(e0) \ {t} /\ InHandlers(e0)' = InHandlers(e0) \ {t}
    BY <1>2, DeliveredAfter DEF None
  <2>8. IsFiniteSet(Delivered(e0)) /\ IsFiniteSet(Returned(e0))
    BY <2>1 DEF FiniteReferences
  <2>9. /\ IsFiniteSet(Returned(e0)')
        /\ Cardinality(Returned(e0)') = Cardinality(Returned(e0)) + 1
    BY <2>2, <2>6, <2>8, FS_AddElement
  <2>10. /\ IsFiniteSet(Delivered(e0)')
         /\ Cardinality(Delivered(e0)') = Cardinality(Delivered(e0)) - 1
    BY <2>2, <2>7, <2>8, FS_RemoveElement
  <2>11. FiniteReferences(e0)'
    BY <2>1, <2>4, <2>5, <2>9, <2>10 DEF FiniteReferences
  <2>12. References(e0)' = References(e0)
    BY <2>1, <2>4, <2>5, <2>9, <2>10, PartsAreNumbers DEF References
  <2>13. ~HalfCounted(e0)'
    BY <1>3, <2>3 DEF HalfCounted
  <2>14. Counted(e0)'
    BY <2>1, <2>3, <2>12, <2>13 DEF Counted, WayBack
  <2>15. AtHome(e0) => AtHome(e0)'
    BY <2>2, <2>4, <2>5, <2>6, <2>7 DEF AtHome, OwnerTask
  <2>16. StagesInv(e0)'
    BY <1>0, <1>3, <2>1 DEF StagesInv, Context
  <2> QED
    BY <2>1, <2>3, <2>7, <2>11, <2>13, <2>14, <2>15, <2>16 DEF EventInv
<1> QED  BY <1>4, <1>5, <1>6 DEF CountInv

(* An activation goes on among the handlers of its event.                  *)
LEMMA GoesOnKeeps ==
  ASSUME TypeOK, CountInv, failed = "none", NEW t \in Task, NEW e0 \in Event,
         NEW x, disp' = [disp EXCEPT ![t] = x],
         disp[t].pc # "none", disp[t].e = e0, x.pc \in {"loop", "handler"}, x.e = e0,
         m_reference_count[e0] > 1, op[t].pc = "none",
         UNCHANGED <<m_reference_count, queue, op, kept>>
  PROVE  CountInv'
<1>0. ContextsInv /\ t \in Context
  BY DEF CountInv, Context
<1>1. ContextsInv'
  BY <1>0 DEF ContextsInv, OwnerTask, TypeOK
<1>2. ASSUME NEW e \in Event PROVE EventInv(e)'
  <2>1. EventInv(e) /\ StagesInv(e)
    BY DEF CountInv, EventInv
  <2>2. SameCalls(e) /\ StagesInv(e)'
    BY <2>1, NoCall
  <2>3. UNCHANGED <<Queued(e), Keeping(e)>>
    BY DEF Queued, Keeping
  <2>4. CASE e # e0
    <3>1. SameActivations(e)
      BY <2>4, OtherActivation
    <3> QED  BY <2>1, <2>2, <2>3, <3>1, OtherEvent
  <2>5. CASE e = e0
    <3>1. Delivered(e)' = Delivered(e)
      <4>1. Delivered(e)' = Delivered(e) \cup {t} /\ t \in Delivered(e)
        BY <2>5, DeliveredAfter DEF Delivered
      <4> QED  BY <4>1
    <3>2. UNCHANGED <<Marked(e), Returned(e)>> /\ (HalfCounted(e)' <=> HalfCounted(e))
      BY <2>2 DEF SameCalls
    <3>3. FiniteReferences(e)' /\ References(e)' = References(e)
      BY <2>1, <2>3, <3>1, <3>2 DEF EventInv, FiniteReferences, References
    <3>4. Counted(e)'
      BY <2>1, <3>2, <3>3 DEF EventInv, Counted, WayBack
    <3>5. ~HalfCounted(e)
      <4>1. t \in Delivered(e)
        BY <2>5 DEF Delivered
      <4> QED  BY <2>1, <4>1, HeldIsCounted
    <3>6. ~(m_reference_count[e] <= 1)
      BY <2>5 DEF TypeOK
    <3> QED  BY <2>2, <2>5, <3>2, <3>3, <3>4, <3>5, <3>6 DEF EventInv
  <2> QED  BY <2>4, <2>5
<1> QED  BY <1>1, <1>2 DEF CountInv

(* A delivery that ends becomes a return; one that goes on counts above 1.  *)
LEMMA DispatchStepKeeps ==
  ASSUME TypeOK, CountInv, NEW t \in Task, DispatchStep(t)
  PROVE  CountInv'
<1>1. /\ failed = "none" /\ op[t].pc = "none" /\ disp[t].pc \in {"check", "loop"}
      /\ UNCHANGED <<m_reference_count, queue, kept>>
  BY DEF DispatchStep, ErCallHandlers, CallNextHandler, Dispatching, Running
<1>2. CASE Done(t)
  BY <1>1, <1>2, DoneKeeps
<1>3. CASE ~Done(t)
  <2>1. PICK x : /\ disp' = [disp EXCEPT ![t] = x]
                 /\ x.pc \in {"loop", "handler"} /\ x.e = disp[t].e
                 /\ UNCHANGED op
    BY <1>3 DEF DispatchStep, ErCallHandlers, CallNextHandler
  <2>2. disp[t].e \in Event
    BY <1>1, ActivationShapes DEF TypeOK
  <2>3. m_reference_count[disp[t].e] > 1
    <3>1. CASE ErCallHandlers(t)
      BY <1>3, <2>2, <3>1 DEF ErCallHandlers, TypeOK
    <3>2. CASE CallNextHandler(t)
      <4>1. t \in InHandlers(disp[t].e)
        BY <3>2 DEF CallNextHandler, Dispatching, InHandlers
      <4> QED  BY <1>1, <2>2, <4>1 DEF CountInv, EventInv
    <3> QED  BY <3>1, <3>2 DEF DispatchStep
  <2> QED  BY <1>1, <2>1, <2>2, <2>3, GoesOnKeeps
<1> QED  BY <1>2, <1>3

(* A handler that runs has an event that counts more than one.             *)
LEMMA InHandler ==
  ASSUME TypeOK, CountInv, NEW t \in Task, Dispatching(t, "handler")
  PROVE  /\ failed = "none" /\ disp[t].e \in Event /\ disp[t].m \in Module
         /\ t \in InHandlers(disp[t].e)
         /\ m_reference_count[disp[t].e] > 1
<1>1. failed = "none" /\ disp[t].pc = "handler"
  BY DEF Dispatching, Running
<1>2. disp[t].e \in Event /\ disp[t].m \in Module
  BY <1>1, ActivationShapes DEF TypeOK
<1>3. t \in InHandlers(disp[t].e)
  BY <1>1 DEF InHandlers
<1> QED  BY <1>1, <1>2, <1>3 DEF CountInv, EventInv

(* A handler that handles the event leaves the count alone.                 *)
LEMMA HandlerHandledKeeps ==
  ASSUME TypeOK, CountInv, NEW t \in Task, HandlerHandled(t)
  PROVE  CountInv'
<1> DEFINE x == [pc |-> "loop", e |-> disp[t].e, i |-> m_module_idx[disp[t].m] + 1]
<1>1. /\ Dispatching(t, "handler") /\ op[t].pc = "none" /\ disp[t].pc # "none"
      /\ disp' = [disp EXCEPT ![t] = x]
      /\ UNCHANGED <<m_reference_count, queue, op, kept>>
  BY DEF HandlerHandled, Dispatching, Continue
<1>2. x.pc = "loop" /\ x.e = disp[t].e
  OBVIOUS
<1> HIDE DEF x
<1> QED  BY <1>1, <1>2, InHandler, GoesOnKeeps

(* A copy more, or less, that a module keeps.                              *)
LEMMA KeepingAfter ==
  ASSUME TypeOK, NEW m \in Module, NEW e0 \in Event, NEW n \in Nat,
         kept' = [kept EXCEPT ![m][e0] = n]
  PROVE  /\ \A e \in Event : e # e0 => Keeping(e)' = Keeping(e)
         /\ n = kept[m][e0] + 1 =>
              /\ <<m, n>> \notin Keeping(e0)
              /\ Keeping(e0)' = Keeping(e0) \cup {<<m, n>>}
         /\ n = kept[m][e0] - 1 =>
              /\ <<m, kept[m][e0]>> \in Keeping(e0)
              /\ Keeping(e0)' = Keeping(e0) \ {<<m, kept[m][e0]>>}
<1> DEFINE K(p, e) == p[2] >= 1 /\ p[2] <= kept[p[1]][e]
<1>1. \A p \in Module, e \in Event : kept[p][e] \in Nat
  BY DEF TypeOK
<1>2. \A p \in Module, e \in Event :
        kept'[p][e] = IF p = m /\ e = e0 THEN n ELSE kept[p][e]
  BY DEF TypeOK
<1>3. \A e \in Event :
        /\ Keeping(e) = {p \in Module \X Nat : p[2] \in 1..kept[p[1]][e]}
        /\ Keeping(e)' = {p \in Module \X Nat : p[2] \in 1..kept'[p[1]][e]}
  <2> TAKE e \in Event
  <2>1. \A p : p \in Keeping(e) <=> \E q \in Module : p \in {q} \X (1..kept[q][e])
    BY DEF Keeping
  <2>2. \A p : p \in Keeping(e)' <=> \E q \in Module : p \in {q} \X (1..kept'[q][e])
    BY DEF Keeping
  <2> QED  BY <1>1, <1>2, <2>1, <2>2
<1>4. ASSUME NEW e \in Event, e # e0 PROVE Keeping(e)' = Keeping(e)
  <2>1. \A p \in Module \X Nat : p[2] \in 1..kept'[p[1]][e] <=> p[2] \in 1..kept[p[1]][e]
    BY <1>2, <1>4
  <2> QED  BY <1>3, <2>1
<1>5. ASSUME n = kept[m][e0] + 1
      PROVE  <<m, n>> \notin Keeping(e0) /\ Keeping(e0)' = Keeping(e0) \cup {<<m, n>>}
  <2>1. \A p \in Module \X Nat : p[2] \in 1..kept'[p[1]][e0]
                                   <=> p[2] \in 1..kept[p[1]][e0] \/ p = <<m, n>>
    <3> SUFFICES ASSUME NEW q \in Module, NEW i \in Nat
                 PROVE  i \in 1..kept'[q][e0]
                          <=> i \in 1..kept[q][e0] \/ (q = m /\ i = n)
      OBVIOUS
    <3> QED  BY <1>1, <1>2, <1>5
  <2>2. <<m, n>> \in Module \X Nat /\ ~(n \in 1..kept[m][e0])
    BY <1>1, <1>5
  <2> QED  BY <1>3, <2>1, <2>2
<1>6. ASSUME n = kept[m][e0] - 1
      PROVE  /\ <<m, kept[m][e0]>> \in Keeping(e0)
             /\ Keeping(e0)' = Keeping(e0) \ {<<m, kept[m][e0]>>}
  <2>1. \A p \in Module \X Nat : p[2] \in 1..kept'[p[1]][e0]
                                   <=> p[2] \in 1..kept[p[1]][e0] /\ p # <<m, kept[m][e0]>>
    <3> SUFFICES ASSUME NEW q \in Module, NEW i \in Nat
                 PROVE  i \in 1..kept'[q][e0]
                          <=> i \in 1..kept[q][e0] /\ ~(q = m /\ i = kept[m][e0])
      OBVIOUS
    <3> QED  BY <1>1, <1>2, <1>6
  <2>2. <<m, kept[m][e0]>> \in Module \X Nat /\ kept[m][e0] \in 1..kept[m][e0]
    BY <1>1, <1>6
  <2> QED  BY <1>3, <2>1, <2>2
<1> QED  BY <1>4, <1>5, <1>6

(* A handler that keeps the event adds a reference and counts it.           *)
LEMMA HandlerKeptKeeps ==
  ASSUME TypeOK, CountInv, NEW t \in Task, HandlerKept(t)
  PROVE  CountInv'
<1>0. /\ failed = "none" /\ ContextsInv /\ op[t].pc = "none" /\ disp[t].pc = "handler"
      /\ Dispatching(t, "handler")
      /\ UNCHANGED <<queue, op>>
  BY DEF CountInv, HandlerKept, Dispatching, Running
<1>1. PICK e0 \in Event, m \in Module :
        /\ disp[t].e = e0 /\ disp[t].m = m /\ t \in InHandlers(e0)
        /\ m_reference_count[e0] > 1
  BY <1>0, InHandler
<1> DEFINE x == [pc |-> "loop", e |-> e0, i |-> m_module_idx[m] + 1]
           n == kept[m][e0] + 1
<1>2. disp' = [disp EXCEPT ![t] = x]
  BY <1>1 DEF HandlerKept, Continue
<1>3. n \in Nat /\ kept' = [kept EXCEPT ![m][e0] = n]
  BY <1>1 DEF HandlerKept, TypeOK
<1>n. n = kept[m][e0] + 1 /\ x.pc = "loop" /\ x.e = e0
  OBVIOUS
<1> HIDE DEF n, x
<1>4. \A e \in Event : m_reference_count'[e] =
                         IF e = e0 THEN m_reference_count[e] + 1 ELSE m_reference_count[e]
  BY <1>1 DEF HandlerKept, Add, TypeOK
<1>5. ContextsInv'
  BY <1>0, <1>2, <1>n DEF ContextsInv, OwnerTask, TypeOK
<1>6. ASSUME NEW e \in Event, e # e0 PROVE EventInv(e)'
  <2>1. EventInv(e) /\ StagesInv(e)
    BY <1>0 DEF CountInv, EventInv
  <2>2. m_reference_count'[e] = m_reference_count[e]
    BY <1>4, <1>6
  <2>3. SameCalls(e) /\ StagesInv(e)'
    BY <1>0, <2>1, <2>2, NoCall
  <2>4. SameActivations(e)
    BY <1>1, <1>2, <1>6, <1>n, OtherActivation
  <2>5. Queued(e)' = Queued(e)
    BY <1>0 DEF Queued
  <2>6. Keeping(e)' = Keeping(e)
    BY <1>1, <1>3, <1>6, KeepingAfter
  <2> QED  BY <2>1, <2>2, <2>3, <2>4, <2>5, <2>6, OtherEvent
<1>7. EventInv(e0)'
  <2>1. EventInv(e0) /\ FiniteReferences(e0) /\ Counted(e0) /\ StagesInv(e0)
    BY <1>0, <1>1 DEF CountInv, EventInv
  <2>2. t \in Delivered(e0) /\ ~HalfCounted(e0)
    <3>1. t \in Delivered(e0)
      BY <1>0, <1>1 DEF Delivered
    <3> QED  BY <2>1, <3>1, HeldIsCounted
  <2>3. UNCHANGED <<Marked(e0), Queued(e0), Returned(e0)>> /\ ~HalfCounted(e0)'
    BY <1>0, <2>2 DEF Marked, Queued, Returned, HalfCounted
  <2>4. Delivered(e0)' = Delivered(e0)
    <3>1. Delivered(e0)' = Delivered(e0) \cup {t}
      BY <1>1, <1>2, <1>n, DeliveredAfter
    <3> QED  BY <2>2, <3>1
  <2>5. IsFiniteSet(Keeping(e0)') /\ Cardinality(Keeping(e0)') = Cardinality(Keeping(e0)) + 1
    <3>1. Keeping(e0)' = Keeping(e0) \cup {<<m, n>>} /\ <<m, n>> \notin Keeping(e0)
      <4>1. /\ m \in Module /\ e0 \in Event /\ n \in Nat
            /\ kept' = [kept EXCEPT ![m][e0] = n]
        BY <1>1, <1>3
      <4>2. n = kept[m][e0] + 1
        BY <1>n
      <4>3. n = kept[m][e0] + 1 => /\ <<m, n>> \notin Keeping(e0)
                                   /\ Keeping(e0)' = Keeping(e0) \cup {<<m, n>>}
        BY <4>1, KeepingAfter
      <4> QED  BY <4>2, <4>3
    <3>2. IsFiniteSet(Keeping(e0))
      BY <2>1 DEF FiniteReferences
    <3> QED  BY <3>1, <3>2, FS_AddElement
  <2>6. FiniteReferences(e0)'
    BY <2>1, <2>3, <2>4, <2>5 DEF FiniteReferences
  <2>7. References(e0)' = References(e0) + 1 /\ References(e0) \in Nat
    BY <2>1, <2>3, <2>4, <2>5, PartsAreNumbers DEF References
  <2>8. /\ m_reference_count[e0] = References(e0) + 1
        /\ m_reference_count'[e0] = m_reference_count[e0] + 1
        /\ m_reference_count'[e0] > 1 /\ ~(m_reference_count'[e0] <= 1)
    BY <1>1, <1>4, <2>1, <2>2, <2>7 DEF Counted, WayBack
  <2>9. Counted(e0)'
    BY <2>3, <2>7, <2>8 DEF Counted, WayBack
  <2>10. StagesInv(e0)'
    BY <1>0, <1>1, <2>1 DEF StagesInv, TypeOK
  <2> QED  BY <2>3, <2>6, <2>8, <2>9, <2>10 DEF EventInv
<1> QED  BY <1>5, <1>6, <1>7 DEF CountInv

(* Giving an event back turns a kept copy into a returned one.              *)
LEMMA ErReturnToSenderKeeps ==
  ASSUME TypeOK, CountInv, NEW t \in Task, NEW m \in Module, NEW e0 \in Event,
         ErReturnToSender(t, m, e0)
  PROVE  CountInv'
<1> DEFINE x == [pc |-> "sub", e |-> e0]
           n == kept[m][e0] - 1
<1>0. /\ failed = "none" /\ ContextsInv /\ op \in [Context -> Calls] /\ t \in Context
      /\ Task \subseteq Context
  BY DEF CountInv, TypeOK, Context, ErReturnToSender, InClient, Running
<1>1. /\ op[t].pc = "none" /\ disp[t].pc \in {"none", "handler"}
      /\ Call(t, x) /\ UNCHANGED <<m_reference_count, queue, disp>>
  BY DEF ErReturnToSender, InClient, Activation
<1>2. n \in Nat /\ kept' = [kept EXCEPT ![m][e0] = n]
  BY DEF ErReturnToSender, TypeOK
<1>3. \A d \in Context : op'[d] = IF d = t THEN x ELSE op[d]
  BY <1>0, <1>1 DEF Call
<1>4. ContextsInv'
  BY <1>0, <1>1, <1>3 DEF ContextsInv, OwnerTask
<1>5. ASSUME NEW e \in Event, e # e0 PROVE EventInv(e)'
  <2>1. EventInv(e)
    BY <1>0 DEF CountInv
  <2>2. ~Concerns(op[t], e) /\ ~Concerns(x, e)
    BY <1>1, <1>5 DEF Concerns
  <2>3. SameActivations(e)
    BY <1>1, NoActivation
  <2>4. Queued(e)' = Queued(e)
    BY <1>1 DEF Queued
  <2>5. Keeping(e)' = Keeping(e)
    <3> HIDE DEF n
    <3> QED  BY <1>2, <1>5, KeepingAfter
  <2> HIDE DEF x
  <2> QED  BY <1>0, <1>1, <2>1, <2>2, <2>3, <2>4, <2>5, OthersKeep
<1>6. EventInv(e0)'
  <2>1. EventInv(e0) /\ FiniteReferences(e0) /\ Counted(e0) /\ StagesInv(e0)
    BY <1>0 DEF CountInv, EventInv
  <2>2. /\ <<m, kept[m][e0]>> \in Keeping(e0)
        /\ Keeping(e0)' = Keeping(e0) \ {<<m, kept[m][e0]>>}
    BY <1>2, KeepingAfter
  <2>3. ~HalfCounted(e0) /\ ~AtHome(e0)
    BY <2>1, <2>2, HeldIsCounted DEF AtHome
  <2>4. UNCHANGED <<Queued(e0), Delivered(e0), InHandlers(e0)>>
    BY <1>1 DEF Queued, Delivered, InHandlers
  <2>5. Marked(e0)' = Marked(e0)
    BY <1>0, <1>1, MarkedSame DEF MarkedBy
  <2>6. Returned(e0)' = Returned(e0) \cup {t} /\ t \notin Returned(e0)
    BY <1>1, ReturnedAfter DEF Returned
  <2>7. IsFiniteSet(Keeping(e0)) /\ IsFiniteSet(Returned(e0))
    BY <2>1 DEF FiniteReferences
  <2>8. IsFiniteSet(Keeping(e0)') /\ Cardinality(Keeping(e0)') = Cardinality(Keeping(e0)) - 1
    <3>1. PICK y : y = <<m, kept[m][e0]>>
      OBVIOUS
    <3>2. Keeping(e0)' = Keeping(e0) \ {y} /\ y \in Keeping(e0)
      BY <2>2, <3>1
    <3> QED  BY <2>7, <3>2, FS_RemoveElement
  <2>9. /\ IsFiniteSet(Returned(e0)')
        /\ Cardinality(Returned(e0)') = Cardinality(Returned(e0)) + 1
    BY <2>6, <2>7, FS_AddElement
  <2>10. FiniteReferences(e0)'
    BY <2>1, <2>4, <2>5, <2>8, <2>9 DEF FiniteReferences
  <2>11. References(e0)' = References(e0)
    BY <2>1, <2>4, <2>5, <2>8, <2>9, PartsAreNumbers DEF References
  <2>12. ~HalfCounted(e0)'
    BY <1>3, <2>3 DEF HalfCounted
  <2>13. Counted(e0)'
    BY <1>1, <2>1, <2>3, <2>11, <2>12 DEF Counted, WayBack
  <2>14. ~(m_reference_count[e0] <= 1)
    BY <2>1, <2>3 DEF EventInv
  <2>15. StagesInv(e0)'
    BY <1>0, <1>1, <1>3, <2>1 DEF StagesInv
  <2> QED
    BY <1>1, <2>1, <2>4, <2>10, <2>12, <2>13, <2>14, <2>15 DEF EventInv
<1> QED  BY <1>4, <1>5, <1>6 DEF CountInv

(* A task that is about to drop a reference leaves other events alone.     *)
LEMMA DropOthers ==
  ASSUME TypeOK, ContextsInv, \A e \in Event : EventInv(e),
         NEW t \in Task, op[t].pc \in {"sub", "subOwner"},
         NEW e0 \in Event, op[t].e = e0,
         NEW x, Call(t, x), x.pc \in {"load", "post", "subOwner"}, x.e = e0,
         Add(e0, -1), UNCHANGED <<queue, disp, kept>>
  PROVE  /\ ContextsInv'
         /\ \A e \in Event : e # e0 => EventInv(e)'
         /\ m_reference_count'[e0] = m_reference_count[e0] - 1
         /\ UNCHANGED <<Queued(e0), Delivered(e0), InHandlers(e0), Keeping(e0)>>
         /\ t \in Returned(e0)
         /\ HalfCounted(e0)' <=> HalfCounted(e0)
<1>0. op \in [Context -> Calls] /\ t \in Context /\ Task \subseteq Context
  BY DEF TypeOK, Context
<1>1. \A d \in Context : op'[d] = IF d = t THEN x ELSE op[d]
  BY <1>0 DEF Call
<1>2. \A e \in Event : m_reference_count'[e] =
                         IF e = e0 THEN m_reference_count[e] - 1 ELSE m_reference_count[e]
  BY DEF Add, TypeOK
<1>3. ContextsInv'
  BY <1>0, <1>1 DEF ContextsInv, OwnerTask
<1>4. ASSUME NEW e \in Event, e # e0 PROVE EventInv(e)'
  <2>1. ~Concerns(op[t], e) /\ ~Concerns(x, e)
    BY <1>4 DEF Concerns
  <2>2. SameActivations(e)
    BY NoActivation
  <2>3. UNCHANGED <<Queued(e), Keeping(e)>>
    BY DEF Queued, Keeping
  <2>4. m_reference_count'[e] = m_reference_count[e]
    BY <1>2, <1>4
  <2> QED  BY <1>0, <2>1, <2>2, <2>3, <2>4, OthersKeep
<1>5. UNCHANGED <<Queued(e0), Delivered(e0), InHandlers(e0), Keeping(e0)>>
  BY DEF Queued, Delivered, InHandlers, Keeping
<1>6. t \in Returned(e0)
  BY DEF Returned
<1>7. HalfCounted(e0)' <=> HalfCounted(e0)
  BY <1>0, <1>1 DEF HalfCounted
<1> QED  BY <1>2, <1>3, <1>4, <1>5, <1>6, <1>7

(* The last reference is dropped: the event is idle.                       *)
LEMMA LastDropKeeps ==
  ASSUME TypeOK, ContextsInv, \A e \in Event : EventInv(e),
         NEW t \in Task, op[t].pc \in {"sub", "subOwner"},
         NEW e0 \in Event, op[t].e = e0, m_reference_count[e0] = 1,
         Call(t, [pc |-> "load", e |-> e0]),
         Add(e0, -1), UNCHANGED <<queue, disp, kept>>
  PROVE  CountInv'
<1> DEFINE x == [pc |-> "load", e |-> e0]
<1>0. op \in [Context -> Calls] /\ t \in Context /\ Task \subseteq Context
  BY DEF TypeOK, Context
<1>1. \A d \in Context : op'[d] = IF d = t THEN x ELSE op[d]
  BY <1>0 DEF Call
<1>2. /\ ContextsInv'
      /\ \A e \in Event : e # e0 => EventInv(e)'
      /\ m_reference_count'[e0] = 0
      /\ UNCHANGED <<Queued(e0), Delivered(e0), InHandlers(e0), Keeping(e0)>>
      /\ t \in Returned(e0)
      /\ HalfCounted(e0)' <=> HalfCounted(e0)
  <2>1. Call(t, x) /\ x.pc \in {"load", "post", "subOwner"} /\ x.e = e0
    OBVIOUS
  <2> HIDE DEF x
  <2>2. /\ ContextsInv'
        /\ \A e \in Event : e # e0 => EventInv(e)'
        /\ m_reference_count'[e0] = m_reference_count[e0] - 1
        /\ UNCHANGED <<Queued(e0), Delivered(e0), InHandlers(e0), Keeping(e0)>>
        /\ t \in Returned(e0)
        /\ HalfCounted(e0)' <=> HalfCounted(e0)
    BY <2>1, DropOthers
  <2> QED  BY <2>2
<1>3. /\ ~HalfCounted(e0)
      /\ Marked(e0) = {} /\ Queued(e0) = {} /\ Delivered(e0) = {}
      /\ Keeping(e0) = {} /\ Returned(e0) = {t}
  BY <1>2, ReturnedIsCounted
<1>4. Marked(e0)' = {}
  <2>1. MarkedBy(x, e0) = MarkedBy(op[t], e0)
    BY DEF MarkedBy
  <2> QED  BY <1>0, <1>3, <2>1, MarkedSame
<1>5. Returned(e0)' = {}
  <2>1. Returned(e0)' = Returned(e0) \ {t}
    BY ReturnedAfter
  <2> QED  BY <1>3, <2>1
<1>6. IsFiniteSet({}) /\ Cardinality({}) = 0
  BY FS_EmptySet
<1>7. FiniteReferences(e0)' /\ References(e0)' = 0
  BY <1>2, <1>3, <1>4, <1>5, <1>6 DEF FiniteReferences, References
<1>8. Counted(e0)'
  BY <1>2, <1>7 DEF Counted, WayBack
<1>9. AtHome(e0)'
  BY <1>2, <1>3, <1>4, <1>5 DEF AtHome
<1>10. InHandlers(e0)' = {}
  BY <1>2 DEF EventInv
<1>11. StagesInv(e0)'
  BY <1>0, <1>1, <1>2, <1>5 DEF StagesInv, Returned
<1>12. EventInv(e0)'
  BY <1>2, <1>3, <1>7, <1>8, <1>9, <1>10, <1>11 DEF EventInv
<1> QED  BY <1>2, <1>12 DEF CountInv

(* The subtraction of ErReturnToSender() drops the reference it counts.     *)
LEMMA DropReferenceKeeps ==
  ASSUME TypeOK, CountInv, NEW t \in Task, DropReference(t)
  PROVE  CountInv'
<1>0. /\ failed = "none" /\ ContextsInv /\ \A e \in Event : EventInv(e)
      /\ op \in [Context -> Calls] /\ t \in Context /\ Task \subseteq Context
  BY DEF CountInv, TypeOK, Context, DropReference, At, Running
<1>1. op[t].pc = "sub" /\ UNCHANGED <<queue, disp, kept>>
  BY DEF DropReference, At
<1>2. PICK e0 \in Event, old \in Int : op[t].e = e0 /\ m_reference_count[e0] = old
  BY <1>0, <1>1, CallShapes DEF TypeOK
<1> DEFINE x == AfterDrop(t, e0, old - 1)
<1>3. Call(t, x) /\ Add(e0, -1)
  BY <1>2 DEF DropReference
<1>4. \A d \in Context : op'[d] = IF d = t THEN x ELSE op[d]
  BY <1>0, <1>3 DEF Call
<1>5. x.pc \in {"load", "post", "subOwner"} /\ x.e = e0
  BY DEF AfterDrop, Posting
<1>6. /\ old # 2 => x = [pc |-> "load", e |-> e0]
      /\ old = 2 /\ t = OwnerTask(e0) => x = [pc |-> "subOwner", e |-> e0]
      /\ old = 2 /\ t # OwnerTask(e0) =>
           x = [pc |-> "post", e |-> e0, mask |-> {OwnerTask(e0)}]
  BY <1>2 DEF AfterDrop, Posting
<1> HIDE DEF x
<1>7. /\ ContextsInv'
      /\ \A e \in Event : e # e0 => EventInv(e)'
      /\ m_reference_count'[e0] = old - 1
      /\ UNCHANGED <<Queued(e0), Delivered(e0), InHandlers(e0), Keeping(e0)>>
      /\ t \in Returned(e0)
      /\ HalfCounted(e0)' <=> HalfCounted(e0)
  BY <1>0, <1>1, <1>2, <1>3, <1>5, DropOthers
<1>8. /\ EventInv(e0) /\ FiniteReferences(e0) /\ Counted(e0) /\ StagesInv(e0)
      /\ References(e0) \in Nat
  BY <1>0, <1>2, PartsAreNumbers DEF EventInv
<1>9. /\ old \in Nat \ {0} /\ ~HalfCounted(e0)
      /\ old <= 2 => /\ Marked(e0) = {} /\ Queued(e0) = {} /\ Delivered(e0) = {}
                     /\ Keeping(e0) = {} /\ Returned(e0) = {t}
  BY <1>2, <1>7, <1>8, ReturnedIsCounted
<1>10. MarkedBy(op[t], e0) = {}
  BY <1>1 DEF MarkedBy
<1>11. CASE old = 1
  BY <1>0, <1>1, <1>2, <1>3, <1>6, <1>11, LastDropKeeps
<1>12. CASE old = 2
  <2>1. \A d \in Context : ~(op'[d].pc \in {"mark", "add"} /\ op'[d].e = e0 /\ ~op'[d].resend)
    BY <1>2, <1>4, <1>5, <1>8, <1>12 DEF StagesInv
  <2>2. StagesInv(e0)'
    BY <1>7, <1>12, <2>1 DEF StagesInv
  <2>3. InHandlers(e0)' = {}
    BY <1>7, <1>9, <1>12 DEF InHandlers, Delivered
  <2>4. IsFiniteSet({}) /\ Cardinality({}) = 0 /\ IsFiniteSet({t}) /\ Cardinality({t}) = 1
    BY FS_EmptySet, FS_Singleton
  <2>5. m_reference_count'[e0] = 1
    BY <1>7, <1>12
  <2>6. CASE t = OwnerTask(e0)
    <3>1. x = [pc |-> "subOwner", e |-> e0]
      BY <1>6, <1>12, <2>6
    <3>2. Marked(e0)' = {}
      <4>1. MarkedBy(x, e0) = {}
        BY <3>1 DEF MarkedBy
      <4> QED  BY <1>0, <1>3, <1>9, <1>10, <1>12, <4>1, MarkedSame
    <3>3. Returned(e0)' = {t}
      <4>1. Returned(e0)' = Returned(e0) \cup {t}
        BY <1>3, <3>1, ReturnedAfter
      <4> QED  BY <1>9, <1>12, <4>1
    <3>4. FiniteReferences(e0)' /\ References(e0)' = 1
      BY <1>7, <1>9, <1>12, <2>4, <3>2, <3>3 DEF FiniteReferences, References
    <3>5. Counted(e0)'
      BY <2>5, <3>4 DEF Counted, WayBack
    <3>6. AtHome(e0)'
      BY <1>7, <1>9, <1>12, <2>6, <3>2, <3>3 DEF AtHome, OwnerTask
    <3>7. EventInv(e0)'
      BY <1>7, <1>9, <2>2, <2>3, <3>4, <3>5, <3>6 DEF EventInv
    <3> QED  BY <1>7, <3>7 DEF CountInv
  <2>7. CASE t # OwnerTask(e0)
    <3>1. x = [pc |-> "post", e |-> e0, mask |-> {OwnerTask(e0)}]
      BY <1>6, <1>12, <2>7
    <3>2. /\ Marked(e0)' = Marked(e0) \cup ({t} \X {OwnerTask(e0)})
          /\ IsFiniteSet(Marked(e0)')
          /\ Cardinality(Marked(e0)') = Cardinality(Marked(e0)) + Cardinality({OwnerTask(e0)})
      <4>1. MarkedBy(x, e0) = {OwnerTask(e0)} /\ MarkedBy(x, e0) \in SUBSET Task
        BY <1>2, <3>1, OwnerTaskTyped DEF MarkedBy
      <4>2. IsFiniteSet(Marked(e0))
        BY <1>8 DEF FiniteReferences
      <4>3. /\ Marked(e0)' = Marked(e0) \cup ({t} \X MarkedBy(x, e0))
            /\ IsFiniteSet(Marked(e0)')
            /\ Cardinality(Marked(e0)') = Cardinality(Marked(e0)) + Cardinality(MarkedBy(x, e0))
        BY <1>0, <1>2, <1>3, <1>10, <4>1, <4>2, MarkedGrows
      <4> QED  BY <4>1, <4>3
    <3>3. Returned(e0)' = {}
      <4>1. Returned(e0)' = Returned(e0) \ {t}
        BY <1>3, <3>1, ReturnedAfter
      <4> QED  BY <1>9, <1>12, <4>1
    <3>4. Cardinality(Marked(e0)') = 1
      <4>1. Cardinality({OwnerTask(e0)}) = 1
        BY FS_Singleton
      <4> QED  BY <1>9, <1>12, <2>4, <3>2, <4>1
    <3>5. FiniteReferences(e0)' /\ References(e0)' = 1
      BY <1>7, <1>9, <1>12, <2>4, <3>2, <3>3, <3>4 DEF FiniteReferences, References
    <3>6. Counted(e0)'
      BY <2>5, <3>5 DEF Counted, WayBack
    <3>7. AtHome(e0)'
      <4>1. \A p \in Marked(e0)' : p[2] = OwnerTask(e0)
        BY <1>9, <1>12, <3>2
      <4> QED  BY <1>7, <1>9, <1>12, <3>3, <4>1 DEF AtHome, OwnerTask
    <3>8. EventInv(e0)'
      BY <1>7, <1>9, <2>2, <2>3, <3>5, <3>6, <3>7 DEF EventInv
    <3> QED  BY <1>7, <3>8 DEF CountInv
  <2> QED  BY <2>6, <2>7
<1>13. CASE old > 2
  <2>1. x = [pc |-> "load", e |-> e0]
    BY <1>6, <1>13
  <2>2. Marked(e0)' = Marked(e0)
    <3>1. MarkedBy(x, e0) = {}
      BY <2>1 DEF MarkedBy
    <3> QED  BY <1>0, <1>3, <1>10, <3>1, MarkedSame
  <2>3. Returned(e0)' = Returned(e0) \ {t}
    BY <1>3, <2>1, ReturnedAfter
  <2>4. /\ IsFiniteSet(Returned(e0)')
        /\ Cardinality(Returned(e0)') = Cardinality(Returned(e0)) - 1
    BY <1>7, <1>8, <2>3, FS_RemoveElement DEF FiniteReferences
  <2>5. FiniteReferences(e0)'
    BY <1>7, <1>8, <2>2, <2>4 DEF FiniteReferences
  <2>6. References(e0)' = References(e0) - 1
    BY <1>7, <1>8, <2>2, <2>4, PartsAreNumbers DEF References
  <2>7. /\ old = References(e0) + 1
        /\ m_reference_count'[e0] = old - 1
        /\ m_reference_count'[e0] > 1 /\ ~(m_reference_count'[e0] <= 1)
    BY <1>2, <1>7, <1>8, <1>9, <1>13 DEF Counted, WayBack
  <2>8. Counted(e0)'
    BY <1>7, <1>8, <1>9, <2>6, <2>7 DEF Counted, WayBack
  <2>9. StagesInv(e0)'
    BY <1>0, <1>2, <1>4, <1>8, <1>13, <2>1 DEF StagesInv
  <2>10. EventInv(e0)'
    BY <1>7, <1>9, <2>5, <2>7, <2>8, <2>9 DEF EventInv
  <2> QED  BY <1>7, <2>10 DEF CountInv
<1> QED  BY <1>9, <1>11, <1>12, <1>13

(* The owner's task takes the way back and drops the last reference.        *)
LEMMA DropOwnerReferenceKeeps ==
  ASSUME TypeOK, CountInv, NEW t \in Task, DropOwnerReference(t)
  PROVE  CountInv'
<1>1. /\ failed = "none" /\ ContextsInv /\ \A e \in Event : EventInv(e)
      /\ op[t] \in Calls /\ op[t].pc = "subOwner"
      /\ UNCHANGED <<queue, disp, kept>>
  BY DEF CountInv, TypeOK, Context, DropOwnerReference, At, Running
<1>2. PICK e0 \in Event : op[t].e = e0
  BY <1>1, CallShapes
<1>3. m_reference_count[e0] = 1
  BY <1>1, <1>2 DEF EventInv, StagesInv
<1>4. Call(t, [pc |-> "load", e |-> e0]) /\ Add(e0, -1)
  BY <1>2 DEF DropOwnerReference
<1> QED  BY <1>1, <1>2, <1>3, <1>4, LastDropKeeps

(* The last steps of a return and the calls that subscribe count nothing.   *)
LEMMA SubscribingKeeps ==
  ASSUME TypeOK, CountInv, NEW t \in Task,
         \/ CheckReturned(t) \/ CallSender(t) \/ SubscribeStep(t)
         \/ \E m \in Module, ty \in Type : ErSubscribe(t, m, ty) \/ ErUnsubscribe(t, m, ty)
  PROVE  CountInv'
<1>1. /\ failed = "none" /\ ContextsInv /\ t \in Context
      /\ UNCHANGED <<m_reference_count, queue, disp, kept>>
  <2>1. failed = "none"
    BY DEF Running, At, InClient, CheckReturned, CallSender,
           SubscribeStep, SetTaskBit, ClearTaskBit, ErSubscribe, ErUnsubscribe
  <2>2. UNCHANGED <<m_reference_count, queue, disp, kept>>
    BY DEF CheckReturned, CallSender, SubscribeStep, SetTaskBit, ClearTaskBit,
           ErSubscribe, ErUnsubscribe
  <2> QED  BY <2>1, <2>2 DEF CountInv, Context
<1>2. op[t].pc \in {"none", "load", "deliver", "setTask", "clearTask"}
  BY DEF At, InClient, CheckReturned, CallSender, SubscribeStep, SetTaskBit,
         ClearTaskBit, ErSubscribe, ErUnsubscribe
<1>3. PICK x : /\ Call(t, x)
               /\ x.pc \in {"none", "deliver", "setTask", "clearTask"}
  <2>1. CASE CheckReturned(t)
    BY <2>1 DEF CheckReturned, None
  <2>2. CASE CallSender(t) \/ SubscribeStep(t)
    BY <2>2 DEF CallSender, SubscribeStep, SetTaskBit, ClearTaskBit, None
  <2>3. CASE \E m \in Module, ty \in Type : ErSubscribe(t, m, ty) \/ ErUnsubscribe(t, m, ty)
    BY <2>3 DEF ErSubscribe, ErUnsubscribe
  <2> QED  BY <2>1, <2>2, <2>3
<1>4. disp[t].pc \in {"none", "handler"}
  <2>1. CASE op[t].pc # "none"
    BY <1>1, <2>1 DEF ContextsInv
  <2>2. CASE op[t].pc = "none"
    BY <2>2 DEF At, InClient, Activation, CheckReturned, CallSender, SubscribeStep,
                SetTaskBit, ClearTaskBit, ErSubscribe, ErUnsubscribe
  <2> QED  BY <2>1, <2>2
<1>5. \A e \in Event : ~Concerns(op[t], e) /\ ~Concerns(x, e)
  BY <1>2, <1>3 DEF Concerns
<1> QED  BY <1>1, <1>3, <1>4, <1>5, QuietCallKeeps

(* A step that is about no event at all.                                   *)
LEMMA NothingCounted ==
  ASSUME CountInv, UNCHANGED <<m_reference_count, queue, op, disp, kept, failed>>
  PROVE  CountInv'
<1> SUFFICES ASSUME failed = "none" PROVE CountInv'
  BY DEF CountInv
<1>1. ContextsInv'
  BY DEF CountInv, ContextsInv, OwnerTask
<1>2. ASSUME NEW e \in Event PROVE EventInv(e)'
  <2>1. EventInv(e) /\ StagesInv(e)
    BY DEF CountInv, EventInv
  <2>2. SameCalls(e) /\ StagesInv(e)' /\ SameActivations(e)
    BY <2>1, NoCall, NoActivation
  <2>3. UNCHANGED <<Queued(e), Keeping(e)>>
    BY DEF Queued, Keeping
  <2> QED  BY <2>1, <2>2, <2>3, OtherEvent
<1> QED  BY <1>1, <1>2 DEF CountInv

(* No event is referred to when the program starts.                         *)
LEMMA CountInvInit == ASSUME Init PROVE CountInv
<1>1. ContextsInv
  BY BoundsAssumption DEF Init, ContextsInv, None
<1>2. ASSUME NEW e \in Event PROVE EventInv(e)
  <2>1. /\ Marked(e) = {} /\ Queued(e) = {} /\ Delivered(e) = {} /\ Returned(e) = {}
        /\ InHandlers(e) = {} /\ ~HalfCounted(e)
    BY DEF Init, Marked, Queued, Delivered, Returned, InHandlers, HalfCounted, None,
           Context
  <2>2. Keeping(e) = {}
    <3>1. \A m \in Module : {m} \X (1..kept[m][e]) = {}
      BY DEF Init
    <3> QED  BY <3>1 DEF Keeping
  <2>3. IsFiniteSet({}) /\ Cardinality({}) = 0
    BY FS_EmptySet
  <2>4. m_reference_count[e] = 0
    BY DEF Init
  <2>5. FiniteReferences(e) /\ Counted(e)
    BY <2>1, <2>2, <2>3, <2>4 DEF FiniteReferences, Counted, References, WayBack
  <2>6. AtHome(e)
    BY <2>1, <2>2 DEF AtHome
  <2>7. StagesInv(e)
    BY DEF Init, StagesInv, None, Context
  <2> QED  BY <2>1, <2>5, <2>6, <2>7 DEF EventInv
<1> QED  BY <1>1, <1>2 DEF CountInv

(* Every step keeps the invariant.                                          *)
LEMMA CountInvStep ==
  ASSUME OnlyOwnersSend, TypeOK, CountInv, [Next]_vars
  PROVE  CountInv'
<1> SUFFICES ASSUME failed' = "none" PROVE CountInv'
  BY DEF CountInv
<1>1. ASSUME NEW c \in Context, NEW e \in Event, NEW resend \in BOOLEAN,
             ErSendEx(c, e, resend)
      PROVE  CountInv'
  BY <1>1, ErSendExKeeps
<1>2. ASSUME NEW c \in Context, SendStep(c) PROVE CountInv'
  BY <1>2, MarkTaskKeeps, AddSubscribersKeeps, AddReturnTripKeeps, SendEventKeeps
  DEF SendStep
<1>3. ASSUME NEW t \in Task,
             ErReceive(t) \/ DispatchStep(t) \/ HandlerHandled(t) \/ HandlerKept(t)
      PROVE  CountInv'
  BY <1>3, ErReceiveKeeps, DispatchStepKeeps, HandlerHandledKeeps, HandlerKeptKeeps
<1>4. ASSUME NEW t \in Task, ReturnStep(t) \/ SubscribeStep(t) PROVE CountInv'
  BY <1>4, DropReferenceKeeps, DropOwnerReferenceKeeps, SubscribingKeeps DEF ReturnStep
<1>5. ASSUME NEW t \in Task, NEW m \in Module, NEW e \in Event, ErReturnToSender(t, m, e)
      PROVE  CountInv'
  BY <1>5, ErReturnToSenderKeeps
<1>6. ASSUME NEW t \in Task, NEW m \in Module, NEW ty \in Type,
             ErSubscribe(t, m, ty) \/ ErUnsubscribe(t, m, ty)
      PROVE  CountInv'
  BY <1>6, SubscribingKeeps
<1>7. ASSUME ErInit \/ ErDeinit \/ UNCHANGED vars PROVE CountInv'
  BY <1>7, NothingCounted DEF ErInit, ErDeinit, vars
<1> QED
  BY <1>1, <1>2, <1>3, <1>4, <1>5, <1>6, <1>7 DEF Next

(* The reference count is the number of references, plus one for the way   *)
(* back: nothing is lost or handed back too soon, for any number of tasks,  *)
(* modules and events, any queues, any clients that keep, give back and     *)
(* re-send, as long as an event is sent and re-sent by its owner's task.    *)
THEOREM ReferenceCounts == ASSUME OnlyOwnersSend PROVE Spec => []RefCountMatches
<1>1. ASSUME Init PROVE CountInv
  BY <1>1, CountInvInit
<1>2. ASSUME TypeOK, CountInv, [Next]_vars PROVE CountInv'
  BY <1>2, CountInvStep
<1>3. CountInv => RefCountMatches
  BY DEF CountInv, EventInv, Counted, WayBack, RefCountMatches
<1> QED  BY <1>1, <1>2, <1>3, Typing, PTL DEF Spec
-----------------------------------------------------------------------------
(* "The reference count may NEVER go negative": it does not when events    *)
(* are sent by their owners' tasks, whatever else the clients do.          *)
THEOREM CountsStayNatural == ASSUME OnlyOwnersSend PROVE Spec => []CountNeverNegative
<1> DEFINE CountsInv == CountInv /\ (failed # "none" => CountNeverNegative)
<1>1. ASSUME Init PROVE CountsInv
  BY <1>1, CountInvInit DEF Init
<1>2. ASSUME TypeOK, CountsInv PROVE CountNeverNegative
  <2> SUFFICES ASSUME NEW e \in Event, failed = "none" PROVE m_reference_count[e] >= 0
    BY <1>2 DEF CountNeverNegative
  <2>1. FiniteReferences(e) /\ Counted(e)
    BY <1>2 DEF CountInv, EventInv
  <2>2. References(e) \in Nat
    BY <2>1, PartsAreNumbers
  <2> QED  BY <2>1, <2>2 DEF Counted, WayBack
<1>3. ASSUME TypeOK, CountsInv, [Next]_vars PROVE CountsInv'
  <2>1. CountInv' /\ CountNeverNegative
    BY <1>2, <1>3, CountInvStep
  <2>2. CASE failed' = "none"
    BY <2>1, <2>2
  <2>3. CASE failed' # "none"
    <3>1. CASE UNCHANGED m_reference_count
      BY <2>1, <3>1 DEF CountNeverNegative
    <3>2. ASSUME NEW c \in Context, AddSubscribers(c) PROVE CountNeverNegative'
      <4>1. op[c].e \in Event /\ op[c].mask \in SUBSET Task
        <5>1. op[c] \in Calls /\ op[c].pc = "add"
          BY <1>3, <3>2 DEF AddSubscribers, At, TypeOK
        <5> QED  BY <5>1, CallShapes
      <4>2. Cardinality(op[c].mask) \in Nat
        BY <4>1, MaskFinite
      <4>3. Add(op[c].e, Cardinality(op[c].mask))
        BY <3>2 DEF AddSubscribers
      <4> QED  BY <1>3, <2>1, <4>1, <4>2, <4>3 DEF Add, CountNeverNegative, TypeOK
    <3>3. ASSUME NEW t \in Task, DropOwnerReference(t) PROVE FALSE
      <4>1. /\ failed = "none" /\ op[t] \in Calls /\ op[t].pc = "subOwner"
        BY <1>3, <3>3 DEF DropOwnerReference, At, Running, TypeOK, Context
      <4>2. op[t].e \in Event
        BY <4>1, CallShapes
      <4>3. m_reference_count[op[t].e] = 1
        BY <1>3, <4>1, <4>2 DEF CountInv, EventInv, StagesInv
      <4> QED  BY <2>3, <3>3, <4>1, <4>3 DEF DropOwnerReference, Assert
    <3>4. \/ UNCHANGED m_reference_count
          \/ failed' = failed /\ failed = "none"
          \/ \E c \in Context : AddSubscribers(c)
          \/ \E t \in Task : DropOwnerReference(t)
      <4>1. ASSUME NEW c \in Context, NEW e \in Event, NEW resend \in BOOLEAN,
                   ErSendEx(c, e, resend)
            PROVE  UNCHANGED m_reference_count
        BY <4>1 DEF ErSendEx
      <4>2. ASSUME NEW c \in Context, SendStep(c)
            PROVE  \/ UNCHANGED m_reference_count \/ AddSubscribers(c)
                   \/ failed' = failed /\ failed = "none"
        BY <4>2 DEF SendStep, MarkTask, AddReturnTrip, SendEvent, At, Running
      <4>3. ASSUME NEW t \in Task, ErReceive(t) \/ DispatchStep(t) \/ HandlerHandled(t)
            PROVE  UNCHANGED m_reference_count
        BY <4>3 DEF ErReceive, DispatchStep, ErCallHandlers, CallNextHandler, HandlerHandled
      <4>4. ASSUME NEW t \in Task, HandlerKept(t) \/ DropReference(t)
            PROVE  failed' = failed /\ failed = "none"
        BY <4>4 DEF HandlerKept, DropReference, At, Running, Dispatching
      <4>5. ASSUME NEW t \in Task,
                   CheckReturned(t) \/ CallSender(t) \/ SetTaskBit(t) \/ ClearTaskBit(t)
            PROVE  UNCHANGED m_reference_count
        BY <4>5 DEF CheckReturned, CallSender, SetTaskBit, ClearTaskBit
      <4>6. ASSUME NEW t \in Task, NEW m \in Module,
                   \/ \E e \in Event : ErReturnToSender(t, m, e)
                   \/ \E ty \in Type : ErSubscribe(t, m, ty) \/ ErUnsubscribe(t, m, ty)
            PROVE  UNCHANGED m_reference_count
        BY <4>6 DEF ErReturnToSender, ErSubscribe, ErUnsubscribe
      <4>7. ASSUME ErInit \/ ErDeinit \/ UNCHANGED vars PROVE UNCHANGED m_reference_count
        BY <4>7 DEF ErInit, ErDeinit, vars
      <4> QED
        BY <1>3, <4>1, <4>2, <4>3, <4>4, <4>5, <4>6, <4>7
        DEF Next, ReturnStep, SubscribeStep
    <3> QED  BY <2>1, <2>3, <3>1, <3>2, <3>3, <3>4
  <2> QED  BY <2>2, <2>3
<1> QED  BY <1>1, <1>2, <1>3, Typing, PTL DEF Spec
-----------------------------------------------------------------------------
(* Modules do not subscribe to what they send, as eventrouter.h asks.      *)
NobodySubscribesToOwn ==
  \A e \in Event : <<m_sending_module[e], m_type[e]>> \notin MaySubscribe

SubscriptionsAllowed ==
  \A m \in Module : \A ty \in moduleSubscriptions[m] : <<m, ty>> \in MaySubscribe

(* A module is only ever subscribed to what it may subscribe to.            *)
LEMMA SubscriptionsStayAllowed ==
  ASSUME TypeOK, SubscriptionsAllowed, [Next]_vars
  PROVE  SubscriptionsAllowed'
<1>1. ASSUME NEW t \in Task, NEW m \in Module, NEW ty \in Type,
             ErSubscribe(t, m, ty) \/ ErUnsubscribe(t, m, ty)
      PROVE  SubscriptionsAllowed'
  <2>1. moduleSubscriptions \in [Module -> SUBSET Type]
    BY DEF TypeOK
  <2>2. CASE ErSubscribe(t, m, ty)
    <3>1. /\ moduleSubscriptions' = [moduleSubscriptions EXCEPT ![m] = @ \cup {ty}]
          /\ <<m, ty>> \in MaySubscribe
      BY <2>2 DEF ErSubscribe
    <3> QED  BY <2>1, <3>1 DEF SubscriptionsAllowed
  <2>3. CASE ErUnsubscribe(t, m, ty)
    <3>1. moduleSubscriptions' = [moduleSubscriptions EXCEPT ![m] = @ \ {ty}]
      BY <2>3 DEF ErUnsubscribe
    <3> QED  BY <2>1, <3>1 DEF SubscriptionsAllowed
  <2> QED  BY <1>1, <2>2, <2>3
<1>2. CASE ErInit
  BY <1>2 DEF ErInit, SubscriptionsAllowed
<1>3. CASE UNCHANGED moduleSubscriptions
  BY <1>3 DEF SubscriptionsAllowed
<1>4. \/ UNCHANGED moduleSubscriptions
      \/ ErInit
      \/ \E t \in Task, m \in Module, ty \in Type :
           ErSubscribe(t, m, ty) \/ ErUnsubscribe(t, m, ty)
  <2>1. ASSUME NEW c \in Context,
               \/ \E e \in Event, resend \in BOOLEAN : ErSendEx(c, e, resend)
               \/ SendStep(c)
        PROVE  UNCHANGED moduleSubscriptions
    BY <2>1 DEF ErSendEx, SendStep, MarkTask, AddSubscribers, AddReturnTrip, SendEvent,
                subscriptions
  <2>2. ASSUME NEW t \in Task,
               ErReceive(t) \/ DispatchStep(t) \/ HandlerHandled(t) \/ HandlerKept(t)
        PROVE  UNCHANGED moduleSubscriptions
    BY <2>2 DEF ErReceive, DispatchStep, ErCallHandlers, CallNextHandler, HandlerHandled,
                HandlerKept, subscriptions
  <2>3. ASSUME NEW t \in Task, ReturnStep(t) PROVE UNCHANGED moduleSubscriptions
    BY <2>3 DEF ReturnStep, DropReference, DropOwnerReference, CheckReturned, CallSender,
                subscriptions
  <2>4. ASSUME NEW t \in Task,
               SubscribeStep(t) \/ \E m \in Module, e \in Event : ErReturnToSender(t, m, e)
        PROVE  UNCHANGED moduleSubscriptions
    BY <2>4 DEF SubscribeStep, SetTaskBit, ClearTaskBit, ErReturnToSender, subscriptions
  <2>5. ASSUME ErDeinit \/ UNCHANGED vars PROVE UNCHANGED moduleSubscriptions
    BY <2>5 DEF ErDeinit, vars, subscriptions
  <2> QED  BY <2>1, <2>2, <2>3, <2>4, <2>5 DEF Next
<1> QED  BY <1>1, <1>2, <1>3, <1>4

AssertInv == CountInv /\ SubscriptionsAllowed /\ failed = "none"

(* No step of the router trips an ER_ASSERT(), unless SendEvent() finds a   *)
(* queue full.                                                             *)
LEMMA AssertInvStep ==
  ASSUME OnlyOwnersSend, NobodySubscribesToOwn, TypeOK, AssertInv, [Next]_vars,
         \A c \in Context : SendEvent(c) => failed' = "none"
  PROVE  AssertInv'
<1> USE DEF AssertInv
<1>1. CountInv' /\ SubscriptionsAllowed'
  BY CountInvStep, SubscriptionsStayAllowed
<1>2. ASSUME NEW c \in Context, NEW e \in Event, NEW resend \in BOOLEAN,
             ErSendEx(c, e, resend)
      PROVE  failed' = "none"
  <2>1. m_sending_module[e] \in Module
    BY EventsAssumption
  <2>2. ~Subscribed(m_sending_module[e], e)
    BY <2>1 DEF SubscriptionsAllowed, NobodySubscribesToOwn, Subscribed
  <2> QED  BY <1>2, <2>2 DEF ErSendEx, Assert
<1>3. ASSUME NEW c \in Context, AddSubscribers(c) PROVE failed' = "none"
  <2>1. op[c] \in Calls /\ op[c].pc = "add" /\ ContextsInv
    BY <1>3 DEF AddSubscribers, At, TypeOK, CountInv
  <2>2. op[c].e \in Event /\ op[c].resend \in BOOLEAN
    BY <2>1, CallShapes
  <2>3. c = OwnerTask(op[c].e)
    BY <2>1 DEF ContextsInv
  <2>4. /\ ~op[c].resend => m_reference_count[op[c].e] = 0
        /\ FiniteReferences(op[c].e) /\ Counted(op[c].e)
    BY <2>1, <2>2 DEF CountInv, EventInv, StagesInv
  <2>5. m_reference_count[op[c].e] \in Nat
    BY <2>2, <2>4, PartsAreNumbers DEF Counted, WayBack
  <2>6. \/ m_reference_count[op[c].e] = 0
        \/ /\ m_reference_count[op[c].e] > 0
           /\ EventResendingAllowed(c, op[c].e, op[c].resend)
    BY <2>2, <2>3, <2>4, <2>5 DEF EventResendingAllowed
  <2> QED  BY <1>3, <2>6 DEF AddSubscribers, Assert
<1>4. ASSUME NEW c \in Context, SendEvent(c) PROVE failed' = "none"
  BY <1>4
<1>5. ASSUME NEW t \in Task, DropOwnerReference(t) PROVE failed' = "none"
  <2>1. op[t] \in Calls /\ op[t].pc = "subOwner"
    BY <1>5 DEF DropOwnerReference, At, TypeOK, Context
  <2>2. op[t].e \in Event
    BY <2>1, CallShapes
  <2>3. m_reference_count[op[t].e] = 1
    BY <2>1, <2>2 DEF CountInv, EventInv, StagesInv
  <2> QED  BY <1>5, <2>3 DEF DropOwnerReference, Assert
<1>6. \/ UNCHANGED failed
      \/ \E c \in Context, e \in Event, resend \in BOOLEAN : ErSendEx(c, e, resend)
      \/ \E c \in Context : AddSubscribers(c) \/ SendEvent(c)
      \/ \E t \in Task : DropOwnerReference(t)
  <2>1. ASSUME NEW c \in Context, SendStep(c)
        PROVE  UNCHANGED failed \/ AddSubscribers(c) \/ SendEvent(c)
    BY <2>1 DEF SendStep, MarkTask, AddReturnTrip
  <2>2. ASSUME NEW t \in Task,
               ErReceive(t) \/ DispatchStep(t) \/ HandlerHandled(t) \/ HandlerKept(t)
        PROVE  UNCHANGED failed
    BY <2>2 DEF ErReceive, DispatchStep, ErCallHandlers, CallNextHandler, HandlerHandled,
                HandlerKept
  <2>3. ASSUME NEW t \in Task, ReturnStep(t)
        PROVE  UNCHANGED failed \/ DropOwnerReference(t)
    BY <2>3 DEF ReturnStep, DropReference, CheckReturned, CallSender
  <2>4. ASSUME NEW t \in Task,
               \/ SubscribeStep(t)
               \/ \E m \in Module, e \in Event : ErReturnToSender(t, m, e)
               \/ \E m \in Module, ty \in Type :
                    ErSubscribe(t, m, ty) \/ ErUnsubscribe(t, m, ty)
        PROVE  UNCHANGED failed
    BY <2>4 DEF SubscribeStep, SetTaskBit, ClearTaskBit, ErReturnToSender, ErSubscribe,
                ErUnsubscribe
  <2>5. ASSUME ErInit \/ ErDeinit \/ UNCHANGED vars PROVE UNCHANGED failed
    BY <2>5 DEF ErInit, ErDeinit, vars
  <2> QED  BY <2>1, <2>2, <2>3, <2>4, <2>5 DEF Next
<1> QED  BY <1>1, <1>2, <1>3, <1>4, <1>5, <1>6

(* No ER_ASSERT() of the router fails on POSIX, where queues block, when    *)
(* modules do not subscribe to what they send and events are sent, and     *)
(* re-sent, by their owners' tasks.                                        *)
THEOREM AssertionsHold ==
  ASSUME OnlyOwnersSend, Blocking, NobodySubscribesToOwn
  PROVE  Spec => []NoAssertionFails
<1>1. ASSUME Init PROVE AssertInv
  BY <1>1, CountInvInit DEF Init, SubscriptionsAllowed, AssertInv
<1>2. ASSUME TypeOK, AssertInv, [Next]_vars PROVE AssertInv'
  <2>1. ASSUME NEW c \in Context, SendEvent(c) PROVE failed' = "none"
    BY <1>2, <2>1 DEF SendEvent, Assert, AssertInv
  <2> QED  BY <1>2, <2>1, AssertInvStep
<1>3. AssertInv => NoAssertionFails
  BY DEF AssertInv, NoAssertionFails
<1> QED  BY <1>1, <1>2, <1>3, Typing, PTL DEF Spec
-----------------------------------------------------------------------------
(* While an event that is in flight counts 0, its owner's task is between   *)
(* the two additions of a send, or about to call the owner's handler.      *)
Busy(e) ==
  /\ op[OwnerTask(e)].pc \in {"mark", "add", "addReturn", "load", "deliver"}
  /\ op[OwnerTask(e)].e = e

ReturnInv ==
  failed = "none" =>
    \A e \in Event : e \in inFlight /\ m_reference_count[e] = 0 => Busy(e)

(* The owner's task goes on from one busy call to the next.                 *)
LEMMA BusyGoesOn ==
  ASSUME TypeOK, NEW e \in Event, Busy(e), NEW c \in Context, NEW x, Call(c, x),
         /\ op[c].pc \in {"mark", "add", "addReturn", "load", "deliver"}
         /\ op[c].e = e
         => x.pc \in {"mark", "add", "addReturn", "load", "deliver"} /\ x.e = e
  PROVE  Busy(e)'
<1>1. OwnerTask(e) \in Context
  BY OwnerTaskTyped DEF Context
<1>2. \A d \in Context : op'[d] = IF d = c THEN x ELSE op[d]
  BY DEF Call, TypeOK
<1>3. CASE OwnerTask(e) = c
  BY <1>1, <1>2, <1>3 DEF Busy, OwnerTask
<1>4. CASE OwnerTask(e) # c
  BY <1>1, <1>2, <1>4 DEF Busy, OwnerTask
<1> QED  BY <1>3, <1>4

(* The program takes no step once an assertion has failed.                 *)
LEMMA NextRuns == ASSUME Next PROVE failed = "none"
<1>1. ASSUME NEW c \in Context, \/ \E e0 \in Event, resend \in BOOLEAN : ErSendEx(c, e0, resend)
                               \/ SendStep(c)
      PROVE  failed = "none"
  BY <1>1 DEF SendStep, ErSendEx, MarkTask, AddSubscribers, AddReturnTrip, SendEvent,
              At, InClient, Running
<1>2. ASSUME NEW t \in Task, \/ ErReceive(t) \/ DispatchStep(t) \/ HandlerHandled(t)
                            \/ HandlerKept(t)
      PROVE  failed = "none"
  BY <1>2 DEF ErReceive, DispatchStep, ErCallHandlers, CallNextHandler,
              HandlerHandled, HandlerKept, Dispatching, InClient, Running
<1>3. ASSUME NEW t \in Task, ReturnStep(t) \/ SubscribeStep(t) PROVE failed = "none"
  BY <1>3 DEF ReturnStep, SubscribeStep, DropReference, DropOwnerReference,
              CheckReturned, CallSender, SetTaskBit, ClearTaskBit, At, Running
<1>4. ASSUME NEW t \in Task, NEW m \in Module,
             \/ \E e0 \in Event : ErReturnToSender(t, m, e0)
             \/ \E ty \in Type : ErSubscribe(t, m, ty) \/ ErUnsubscribe(t, m, ty)
      PROVE  failed = "none"
  BY <1>4 DEF ErReturnToSender, ErSubscribe, ErUnsubscribe, InClient, Running
<1>5. ErInit \/ ErDeinit => failed = "none"
  BY DEF ErInit, ErDeinit
<1> QED
  BY <1>1, <1>2, <1>3, <1>4, <1>5 DEF Next

(* Every step keeps the invariant that IdleWhenSent rests on.               *)
LEMMA ReturnInvStep ==
  ASSUME OnlyOwnersSend, TypeOK, CountInv, ReturnInv, [Next]_vars
  PROVE  ReturnInv'
<1> SUFFICES ASSUME failed' = "none", NEW e \in Event, e \in inFlight',
                    m_reference_count'[e] = 0
             PROVE  Busy(e)'
  BY DEF ReturnInv
<1>1. CASE UNCHANGED vars
  BY <1>1 DEF vars, ReturnInv, Busy, OwnerTask
<1>2. ASSUME Next PROVE Busy(e)'
  <2>0. /\ failed = "none" /\ ContextsInv /\ op \in [Context -> Calls]
        /\ Task \subseteq Context /\ EventInv(e)
        /\ e \in inFlight /\ m_reference_count[e] = 0 => Busy(e)
    <3>1. failed = "none"
      BY <1>2, NextRuns
    <3> QED  BY <3>1 DEF CountInv, ReturnInv, TypeOK, Context
  <2>1. ASSUME NEW c \in Context, NEW e0 \in Event, NEW resend \in BOOLEAN,
               ErSendEx(c, e0, resend)
        PROVE  Busy(e)'
    <3> DEFINE x == [pc |-> "mark", e |-> e0, i |-> 1, mask |-> {}, resend |-> resend]
    <3>1. /\ Call(c, x) /\ op[c].pc = "none" /\ inFlight' = inFlight \cup {e0}
          /\ UNCHANGED m_reference_count /\ e0 \in MaySend[c] \cup MayResend[c]
      BY <2>1 DEF ErSendEx, InClient
    <3>2. CASE e = e0
      <4>1. op'[c] = x
        BY <2>0, <3>1 DEF Call
      <4> QED  BY <3>1, <3>2, <4>1 DEF Busy, OwnerTask, OnlyOwnersSend
    <3>3. CASE e # e0
      <4> HIDE DEF x
      <4> QED  BY <2>0, <3>1, <3>3, BusyGoesOn
    <3> QED  BY <3>2, <3>3
  <2>2. ASSUME NEW c \in Context, MarkTask(c) PROVE Busy(e)'
    <3>1. op[c] \in Calls /\ op[c].pc = "mark"
      BY <2>0, <2>2 DEF MarkTask, At
    <3>2. PICK x : Call(c, x) /\ x.pc \in {"mark", "add"} /\ x.e = op[c].e
      <4> DEFINE i == op[c].i
                 marked == m_type[op[c].e] \in taskSubscriptions[i]
                 y == [op[c] EXCEPT !.mask = IF marked THEN @ \cup {i} ELSE @,
                                    !.i = i + 1,
                                    !.pc = IF i = NumTasks THEN "add" ELSE @]
      <4>1. Call(c, y)
        BY <2>2 DEF MarkTask
      <4>2. op[c] \in [pc : {"mark"}, e : Event, i : Task, mask : SUBSET Task,
                       resend : BOOLEAN]
        BY <3>1, CallShapes
      <4>3. y.pc \in {"mark", "add"} /\ y.e = op[c].e
        BY <4>2
      <4> QED  BY <4>1, <4>3
    <3>3. UNCHANGED <<m_reference_count, inFlight>>
      BY <2>2 DEF MarkTask
    <3> QED  BY <2>0, <3>2, <3>3, BusyGoesOn
  <2>3. ASSUME NEW c \in Context, AddSubscribers(c) PROVE Busy(e)'
    <3>1. op[c] \in Calls /\ op[c].pc = "add" /\ UNCHANGED inFlight
      BY <2>0, <2>3 DEF AddSubscribers, At, history
    <3>2. PICK e0 \in Event, mask \in SUBSET Task : op[c].e = e0 /\ op[c].mask = mask
      BY <3>1, CallShapes
    <3>3. PICK x : /\ x = AfterCount(e0, mask, m_reference_count[e0])
                   /\ Call(c, x) /\ Add(e0, Cardinality(mask))
      BY <2>3, <3>2 DEF AddSubscribers
    <3>4. CASE e = e0
      <4>1. m_reference_count[e] \in Nat /\ Cardinality(mask) \in Nat
        BY <2>0, <3>2, MaskFinite, PartsAreNumbers DEF EventInv, Counted, WayBack
      <4>2. m_reference_count[e] = 0
        BY <3>2, <3>3, <3>4, <4>1 DEF Add, TypeOK
      <4>3. x = [pc |-> "addReturn", e |-> e, mask |-> mask]
        BY <3>3, <3>4, <4>2 DEF AfterCount
      <4>4. op'[c] = x /\ c = OwnerTask(e)
        BY <2>0, <3>1, <3>2, <3>3, <3>4 DEF Call, ContextsInv
      <4> QED  BY <4>3, <4>4 DEF Busy, OwnerTask
    <3>5. CASE e # e0
      <4>1. m_reference_count[e] = 0
        BY <3>2, <3>3, <3>5 DEF Add, TypeOK
      <4> QED  BY <2>0, <3>1, <3>2, <3>3, <3>5, <4>1, BusyGoesOn
    <3> QED  BY <3>4, <3>5
  <2>4. ASSUME NEW c \in Context, AddReturnTrip(c) PROVE Busy(e)'
    <3>1. op[c] \in Calls /\ op[c].pc = "addReturn" /\ UNCHANGED inFlight
      BY <2>0, <2>4 DEF AddReturnTrip, At, history
    <3>0. PICK e0 \in Event : op[c].e = e0
      BY <3>1, CallShapes
    <3>2. PICK x : op[c].e = e0 /\ Call(c, x) /\ Add(e0, 1)
      BY <2>4, <3>0 DEF AddReturnTrip
    <3>3. m_reference_count[e] \in Nat
      BY <2>0, PartsAreNumbers DEF EventInv, Counted, WayBack
    <3>4. e # e0 /\ m_reference_count[e] = 0
      BY <3>2, <3>3 DEF Add, TypeOK
    <3> QED  BY <2>0, <3>1, <3>2, <3>4, BusyGoesOn
  <2>5. ASSUME NEW c \in Context, SendEvent(c) PROVE Busy(e)'
    <3>1. PICK x : Call(c, x)
      BY <2>5 DEF SendEvent
    <3>2. op[c].pc = "post" /\ UNCHANGED <<m_reference_count, inFlight>>
      BY <2>5 DEF SendEvent, At, history
    <3> QED  BY <2>0, <3>1, <3>2, BusyGoesOn
  <2>6. ASSUME NEW t \in Task, ErReceive(t) \/ HandlerHandled(t) PROVE Busy(e)'
    BY <2>0, <2>6 DEF ErReceive, HandlerHandled, history, Busy, OwnerTask
  <2>7. ASSUME NEW t \in Task, DispatchStep(t) PROVE Busy(e)'
    <3>1. op[t].pc = "none" /\ UNCHANGED <<m_reference_count, inFlight>>
      BY <2>7 DEF DispatchStep, ErCallHandlers, CallNextHandler, Dispatching, history
    <3>2. CASE UNCHANGED op
      BY <2>0, <3>1, <3>2 DEF Busy, OwnerTask
    <3>3. CASE Done(t)
      <4>1. PICK x : Call(t, x)
        BY <3>3 DEF Done
      <4> QED  BY <2>0, <3>1, <4>1, BusyGoesOn
    <3> QED  BY <2>7, <3>2, <3>3 DEF DispatchStep, ErCallHandlers, CallNextHandler
  <2>8. ASSUME NEW t \in Task, HandlerKept(t) PROVE Busy(e)'
    <3>1. /\ UNCHANGED <<op, inFlight>> /\ Add(disp[t].e, 1)
          /\ disp[t].e \in Event /\ m_reference_count[disp[t].e] > 1
      BY <2>8, InHandler DEF HandlerKept, history
    <3>2. m_reference_count[e] = 0
      BY <3>1 DEF Add, TypeOK
    <3> QED  BY <2>0, <3>1, <3>2 DEF Busy, OwnerTask
  <2>9. ASSUME NEW t \in Task, NEW m \in Module, NEW e0 \in Event,
               ErReturnToSender(t, m, e0)
        PROVE  Busy(e)'
    <3>1. PICK x : Call(t, x)
      BY <2>9 DEF ErReturnToSender
    <3>2. op[t].pc = "none" /\ UNCHANGED <<m_reference_count, inFlight>>
      BY <2>9 DEF ErReturnToSender, InClient, history
    <3> QED  BY <2>0, <3>1, <3>2, BusyGoesOn
  <2>10. ASSUME NEW t \in Task, DropReference(t) \/ DropOwnerReference(t) PROVE Busy(e)'
    <3>1. op[t] \in Calls /\ op[t].pc \in {"sub", "subOwner"} /\ UNCHANGED inFlight
      BY <2>0, <2>10 DEF DropReference, DropOwnerReference, At, history
    <3>2. PICK e0 \in Event : op[t].e = e0 /\ Add(e0, -1)
      <4>1. op[t].e \in Event /\ Add(op[t].e, -1)
        BY <2>10, <3>1, CallShapes DEF DropReference, DropOwnerReference
      <4> QED  BY <4>1
    <3>3. PICK x : /\ Call(t, x)
                   /\ m_reference_count[e0] = 1 => x = [pc |-> "load", e |-> e0]
      <4>1. CASE DropReference(t)
        <5>1. Call(t, AfterDrop(t, e0, m_reference_count[e0] - 1))
          BY <3>2, <4>1 DEF DropReference
        <5>2. m_reference_count[e0] = 1 =>
                AfterDrop(t, e0, m_reference_count[e0] - 1) = [pc |-> "load", e |-> e0]
          BY DEF AfterDrop
        <5> QED  BY <5>1, <5>2
      <4>2. CASE DropOwnerReference(t)
        BY <3>2, <4>2 DEF DropOwnerReference
      <4> QED  BY <2>10, <4>1, <4>2
    <3>4. CASE e = e0
      <4>1. m_reference_count[e] = 1
        BY <3>2, <3>4 DEF Add, TypeOK
      <4>2. t \in Returned(e)
        BY <3>1, <3>2, <3>4 DEF Returned
      <4>3. t = OwnerTask(e)
        <5>1. ~HalfCounted(e)
          BY <2>0, <4>2, HeldIsCounted
        <5> QED  BY <2>0, <4>1, <4>2, <5>1 DEF EventInv, AtHome
      <4>4. op'[t] = [pc |-> "load", e |-> e]
        BY <2>0, <3>3, <3>4, <4>1 DEF Call
      <4> QED  BY <4>3, <4>4 DEF Busy, OwnerTask
    <3>5. CASE e # e0
      <4>1. m_reference_count[e] = 0
        BY <3>2, <3>5 DEF Add, TypeOK
      <4> QED  BY <2>0, <3>1, <3>2, <3>3, <3>5, <4>1, BusyGoesOn
    <3> QED  BY <3>4, <3>5
  <2>11. ASSUME NEW t \in Task, CheckReturned(t) PROVE Busy(e)'
    <3>1. PICK x : /\ Call(t, x)
                   /\ m_reference_count[op[t].e] = 0 =>
                        x = [pc |-> "deliver", e |-> op[t].e]
      BY <2>11 DEF CheckReturned
    <3>2. UNCHANGED <<m_reference_count, inFlight>>
      BY <2>11 DEF CheckReturned, history
    <3>3. op[t].e = e => x.pc = "deliver" /\ x.e = e
      BY <3>1, <3>2
    <3> QED  BY <2>0, <3>1, <3>2, <3>3, BusyGoesOn
  <2>12. ASSUME NEW t \in Task, CallSender(t) PROVE Busy(e)'
    <3>1. Call(t, None) /\ UNCHANGED m_reference_count /\ inFlight' = inFlight \ {op[t].e}
      BY <2>12 DEF CallSender
    <3>2. e \in inFlight /\ e # op[t].e
      BY <3>1
    <3> QED  BY <2>0, <3>1, <3>2, BusyGoesOn
  <2>13. ASSUME NEW t \in Task,
                \/ SubscribeStep(t)
                \/ \E m \in Module, ty \in Type : ErSubscribe(t, m, ty) \/ ErUnsubscribe(t, m, ty)
         PROVE  Busy(e)'
    <3>1. PICK x : Call(t, x)
      BY <2>13 DEF SubscribeStep, SetTaskBit, ClearTaskBit, ErSubscribe, ErUnsubscribe
    <3>2. op[t].pc \in {"none", "setTask", "clearTask"}
      BY <2>13 DEF SubscribeStep, SetTaskBit, ClearTaskBit, ErSubscribe, ErUnsubscribe,
                   At, InClient
    <3>3. UNCHANGED <<m_reference_count, inFlight>>
      BY <2>13 DEF SubscribeStep, SetTaskBit, ClearTaskBit, ErSubscribe, ErUnsubscribe,
                   history
    <3> QED  BY <2>0, <3>1, <3>2, <3>3, BusyGoesOn
  <2>14. ASSUME ErInit \/ ErDeinit PROVE Busy(e)'
    BY <2>0, <2>14 DEF ErInit, ErDeinit, history, Busy, OwnerTask
  <2> QED
    BY <1>2, <2>1, <2>2, <2>3, <2>4, <2>5, <2>6, <2>7, <2>8, <2>9, <2>10, <2>11, <2>12,
       <2>13, <2>14
    DEF Next, SendStep, ReturnStep
<1> QED  BY <1>1, <1>2

(* When an event is sent by its owner's task, what ErEventIsInFlight()      *)
(* answers is true: an event that it calls idle was handed back.           *)
THEOREM IdleWhenSent == ASSUME OnlyOwnersSend PROVE Spec => SentOnlyWhenReturned
<1>1. ASSUME Init PROVE CountInv /\ ReturnInv
  BY <1>1, CountInvInit DEF Init, ReturnInv
<1>2. ASSUME TypeOK, CountInv /\ ReturnInv, [Next]_vars PROVE (CountInv /\ ReturnInv)'
  BY <1>2, CountInvStep, ReturnInvStep
<1>3. ASSUME TypeOK, ReturnInv, NEW c \in Context, NEW e \in Event, ErSendEx(c, e, FALSE)
      PROVE  e \notin inFlight
  <2>1. failed = "none" /\ m_reference_count[e] = 0 /\ e \in MaySend[c] /\ op[c].pc = "none"
    BY <1>3 DEF ErSendEx, ErEventIsInFlight, InClient, Running
  <2>2. c = OwnerTask(e)
    BY <2>1 DEF OnlyOwnersSend
  <2> QED  BY <1>3, <2>1, <2>2 DEF ReturnInv, Busy
<1>4. TypeOK /\ ReturnInv /\ [Next]_vars
        => [\A c \in Context, e \in Event : ErSendEx(c, e, FALSE) => e \notin inFlight]_vars
  BY <1>3
<1> QED  BY <1>1, <1>2, <1>4, Typing, PTL DEF Spec, SentOnlyWhenReturned
=============================================================================

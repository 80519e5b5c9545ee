-------------------------- MODULE Delivery_proofs --------------------------
(* What owners and subscribers may rely on, when only the owner's task      *)
(* sends an event and nobody re-sends it: every subscriber gets it, and,    *)
(* with subscribers in one task, it is handed back once, with nobody left.  *)
EXTENDS QueueCapacity_proofs

(* The tasks that may ever be subscribed to e.                             *)
MayReceive(e) ==
  {t \in Task : \E m \in ModulesOf(t) : <<m, m_type[e]>> \in MaySubscribe}

OneSubscribingTask == \A e \in Event : \A s, t \in MayReceive(e) : s = t
-----------------------------------------------------------------------------
(* A copy of e is in, or posted to, the task, or kept by its modules.      *)
Holds(t, e) ==
  \/ \E c \in Context : op[c].pc \in {"addReturn", "post"} /\ op[c].e = e /\ t \in op[c].mask
  \/ \E i \in 1..Len(queue[t]) : queue[t][i] = e
  \/ disp[t].pc # "none" /\ disp[t].e = e
  \/ op[t].pc \in {"sub", "subOwner"} /\ op[t].e = e
  \/ \E m \in ModulesOf(t) : kept[m][e] > 0

(* Bits, masks and copies stay where subscriptions are allowed.            *)
BitsAllowed ==
  /\ \A t \in Task, ty \in Type :
       ty \in taskSubscriptions[t] \/ op[t] = [pc |-> "setTask", ty |-> ty]
         => \E m \in ModulesOf(t) : <<m, ty>> \in MaySubscribe
  /\ \A c \in Context :
       op[c].pc \in {"mark", "add", "addReturn"} => op[c].mask \subseteq MayReceive(op[c].e)
  /\ \A t \in Task : disp[t].pc = "handler" => m_task_idx[disp[t].m] = t

(* While e is away from its owner, copies are only with subscribers.       *)
Away(e) ==
  m_reference_count[e] > 1 \/ HalfCounted(e) =>
    \A t \in Task : Holds(t, e) => t \in MayReceive(e)

(* Only the owner's task finds a count of 0, and no one changes it then.   *)
Returning(e) ==
  \A t \in Task :
    /\ op[t].pc = "load" /\ op[t].e = e /\ t # OwnerTask(e)
         => m_reference_count[e] > 1 /\ t \in MayReceive(e)
    /\ op[t].pc = "deliver" /\ op[t].e = e
         => m_reference_count[e] = 0 /\ t = OwnerTask(e)

(* Nothing is going on with an event that its owner has.                   *)
HandedBack(e) ==
  e \notin inFlight =>
    /\ m_reference_count[e] = 0
    /\ \A c \in Context : op[c].pc \in {"mark", "add", "addReturn"} => op[c].e # e
    /\ \A t \in Task : op[t].pc \in {"load", "deliver"} => op[t].e # e
-----------------------------------------------------------------------------
(* A context goes on with its call: who holds copies of e then.            *)
LEMMA HoldsAfter ==
  ASSUME TypeOK, NEW c \in Context, NEW x, Call(c, x), UNCHANGED <<queue, disp, kept>>,
         NEW t \in Task, NEW e \in Event, Holds(t, e)'
  PROVE  \/ Holds(t, e)
         \/ x.pc \in {"addReturn", "post"} /\ x.e = e /\ t \in x.mask
         \/ x.pc \in {"sub", "subOwner"} /\ x.e = e /\ t = c
<1>1. \A d \in Context : op'[d] = IF d = c THEN x ELSE op[d]
  BY DEF Call, TypeOK
<1>2. t \in Context
  BY DEF Context
<1> QED  BY <1>1, <1>2 DEF Holds, ModulesOf

(* Nobody holds an event that has no references.                           *)
LEMMA NobodyHolds ==
  ASSUME TypeOK, ContextsInv, NEW e \in Event,
         Marked(e) = {}, Queued(e) = {}, Delivered(e) = {}, Returned(e) = {},
         Keeping(e) = {}
  PROVE  \A t \in Task : ~Holds(t, e)
<1> SUFFICES ASSUME NEW t \in Task, Holds(t, e) PROVE FALSE
  OBVIOUS
<1>1. ASSUME NEW c \in Context, op[c].pc \in {"addReturn", "post"}, op[c].e = e,
             t \in op[c].mask
      PROVE  FALSE
  <2>1. <<c, t>> \in Marked(e)
    BY <1>1 DEF Marked
  <2> QED  BY <2>1
<1>2. ASSUME NEW i \in 1..Len(queue[t]), queue[t][i] = e PROVE FALSE
  <2>1. <<t, i>> \in Queued(e)
    BY <1>2, BoundsAssumption DEF Queued, ContextsInv, TypeOK
  <2> QED  BY <2>1
<1>3. ASSUME NEW m \in Module, kept[m][e] > 0 PROVE FALSE
  <2>1. kept[m][e] \in Nat
    BY DEF TypeOK
  <2>2. <<m, 1>> \in {m} \X (1..kept[m][e])
    BY <1>3, <2>1
  <2>3. <<m, 1>> \in Keeping(e)
    BY <2>2 DEF Keeping
  <2> QED  BY <2>3
<1> QED  BY <1>1, <1>2, <1>3 DEF Holds, Delivered, Returned, ModulesOf

(* A step that neither counts e, nor hands it back, nor is the last one of  *)
(* a return, keeps what holds of e.                                        *)
LEMMA EventKept ==
  ASSUME TypeOK, NEW c \in Context, NEW x, Call(c, x), NEW e \in Event,
         Away(e), Returning(e), HandedBack(e),
         \A t \in Task : Holds(t, e)' => Holds(t, e),
         HalfCounted(e)' => HalfCounted(e),
         m_reference_count'[e] = m_reference_count[e],
         e \notin inFlight' => e \notin inFlight,
         x.pc \in {"mark", "add", "addReturn"} /\ x.e = e => e \in inFlight',
         x.pc \in {"load", "deliver"} /\ x.e = e => x = op[c]
  PROVE  (Away(e) /\ Returning(e) /\ HandedBack(e))'
<1>1. \A d \in Context : op'[d] = IF d = c THEN x ELSE op[d]
  BY DEF Call, TypeOK
<1>2. Task \subseteq Context
  BY DEF Context
<1>3. Away(e)'
  BY DEF Away, MayReceive, ModulesOf
<1>4. Returning(e)'
  BY <1>1, <1>2 DEF Returning, MayReceive, ModulesOf, OwnerTask
<1>5. HandedBack(e)'
  BY <1>1, <1>2 DEF HandedBack
<1> QED  BY <1>3, <1>4, <1>5

(* Subscriptions and masks stay where they are allowed when a context goes  *)
(* on with a call that sets no bit.                                        *)
LEMMA BitsKept ==
  ASSUME TypeOK, BitsAllowed, NEW c \in Context, NEW x, Call(c, x),
         x.pc # "setTask",
         x.pc \in {"mark", "add", "addReturn"} => x.mask \subseteq MayReceive(x.e),
         \A t \in Task : disp'[t] = disp[t] \/ disp'[t].pc # "handler",
         UNCHANGED taskSubscriptions
  PROVE  BitsAllowed'
<1>1. \A d \in Context : op'[d] = IF d = c THEN x ELSE op[d]
  BY DEF Call, TypeOK
<1>2. Task \subseteq Context
  BY DEF Context
<1>3. ASSUME NEW t \in Task, NEW ty \in Type,
             ty \in taskSubscriptions'[t] \/ op'[t] = [pc |-> "setTask", ty |-> ty]
      PROVE  \E m \in ModulesOf(t) : <<m, ty>> \in MaySubscribe
  <2>1. ty \in taskSubscriptions[t] \/ op[t] = [pc |-> "setTask", ty |-> ty]
    BY <1>1, <1>2, <1>3
  <2> QED  BY <2>1 DEF BitsAllowed
<1>4. \A d \in Context :
        op'[d].pc \in {"mark", "add", "addReturn"} => op'[d].mask \subseteq MayReceive(op'[d].e)
  BY <1>1 DEF BitsAllowed
<1>5. \A t \in Task : disp'[t].pc = "handler" => m_task_idx[disp'[t].m] = t
  BY DEF BitsAllowed
<1> QED  BY <1>3, <1>4, <1>5 DEF BitsAllowed, ModulesOf, MayReceive

(* Every step keeps subscriptions, masks and handlers where they belong.   *)
LEMMA BitsAllowedStep ==
  ASSUME TypeOK, BitsAllowed, Next
  PROVE  BitsAllowed'
<1>0. Task \subseteq Context
  BY DEF Context
<1>1. ASSUME UNCHANGED <<op, taskSubscriptions>>,
             \A t \in Task : disp'[t] = disp[t] \/ disp'[t].pc # "handler"
                             \/ m_task_idx[disp'[t].m] = t
      PROVE  BitsAllowed'
  <2>1. \A t \in Task : disp'[t].pc = "handler" => m_task_idx[disp'[t].m] = t
    BY <1>1 DEF BitsAllowed
  <2>2. ASSUME NEW t \in Task, NEW ty \in Type,
               ty \in taskSubscriptions'[t] \/ op'[t] = [pc |-> "setTask", ty |-> ty]
        PROVE  \E m \in ModulesOf(t) : <<m, ty>> \in MaySubscribe
    <3>1. ty \in taskSubscriptions[t] \/ op[t] = [pc |-> "setTask", ty |-> ty]
      BY <1>1, <2>2
    <3> QED  BY <3>1 DEF BitsAllowed
  <2>3. \A d \in Context :
          op'[d].pc \in {"mark", "add", "addReturn"} => op'[d].mask \subseteq MayReceive(op'[d].e)
    BY <1>1 DEF BitsAllowed
  <2> QED  BY <2>1, <2>2, <2>3 DEF BitsAllowed, ModulesOf, MayReceive
<1>2. ASSUME NEW c \in Context, NEW e \in Event, NEW resend \in BOOLEAN,
             ErSendEx(c, e, resend)
      PROVE  BitsAllowed'
  <2>1. PICK x : Call(c, x) /\ x.pc = "mark" /\ x.mask = {}
    <3> DEFINE x == [pc |-> "mark", e |-> e, i |-> 1, mask |-> {}, resend |-> resend]
    <3>1. Call(c, x) /\ x.pc = "mark" /\ x.mask = {}
      BY <1>2 DEF ErSendEx
    <3> QED  BY <3>1
  <2> QED  BY <1>2, <2>1, BitsKept DEF ErSendEx, subscriptions
<1>3. ASSUME NEW c \in Context, MarkTask(c) PROVE BitsAllowed'
  <2>1. op[c] \in Calls /\ op[c].pc = "mark" /\ UNCHANGED <<taskSubscriptions, disp>>
    BY <1>3 DEF MarkTask, At, TypeOK, subscriptions
  <2>2. op[c] \in [pc : {"mark"}, e : Event, i : Task, mask : SUBSET Task, resend : BOOLEAN]
    BY <2>1, CallShapes
  <2> DEFINE i == op[c].i
             marked == m_type[op[c].e] \in taskSubscriptions[i]
             x == [op[c] EXCEPT !.mask = IF marked THEN @ \cup {i} ELSE @,
                                !.i = i + 1,
                                !.pc = IF i = NumTasks THEN "add" ELSE @]
  <2>3. Call(c, x)
    BY <1>3 DEF MarkTask
  <2>4. marked => i \in MayReceive(op[c].e)
    <3>1. i \in Task /\ m_type[op[c].e] \in Type
      BY <2>2, EventsAssumption
    <3> QED  BY <3>1 DEF BitsAllowed, MayReceive
  <2>5. op[c].mask \subseteq MayReceive(op[c].e)
    BY <2>1 DEF BitsAllowed
  <2>6. /\ x.pc \in {"mark", "add"} /\ x.e = op[c].e
        /\ x.mask = IF marked THEN op[c].mask \cup {i} ELSE op[c].mask
    BY <2>2
  <2>7. x.mask \subseteq MayReceive(x.e)
    BY <2>4, <2>5, <2>6
  <2> HIDE DEF x
  <2> QED  BY <2>1, <2>3, <2>6, <2>7, BitsKept
<1>4. ASSUME NEW c \in Context, AddSubscribers(c) PROVE BitsAllowed'
  <2>1. op[c] \in Calls /\ op[c].pc = "add" /\ UNCHANGED <<taskSubscriptions, disp>>
    BY <1>4 DEF AddSubscribers, At, TypeOK, subscriptions
  <2>2. PICK e \in Event, mask \in SUBSET Task : op[c].e = e /\ op[c].mask = mask
    BY <2>1, CallShapes
  <2>3. PICK x : x = AfterCount(e, mask, m_reference_count[e]) /\ Call(c, x)
    BY <1>4, <2>2 DEF AddSubscribers
  <2>4. /\ x.pc \in {"none", "addReturn", "post"}
        /\ x.pc = "addReturn" => x.e = e /\ x.mask = mask
    BY <2>3, PostingMarks DEF AfterCount
  <2>5. mask \subseteq MayReceive(e)
    BY <2>1, <2>2 DEF BitsAllowed
  <2> QED  BY <2>1, <2>3, <2>4, <2>5, BitsKept
<1>5. ASSUME NEW c \in Context, AddReturnTrip(c) \/ SendEvent(c) PROVE BitsAllowed'
  <2>1. PICK e, mask : Call(c, Posting(e, mask))
    BY <1>5 DEF AddReturnTrip, SendEvent
  <2>2. Posting(e, mask).pc \in {"none", "post"}
    BY PostingMarks
  <2>3. UNCHANGED <<taskSubscriptions, disp>>
    BY <1>5 DEF AddReturnTrip, SendEvent, subscriptions
  <2> QED  BY <2>1, <2>2, <2>3, BitsKept
<1>6. ASSUME NEW t \in Task, ErReceive(t) \/ HandlerHandled(t) \/ HandlerKept(t)
      PROVE  BitsAllowed'
  <2>1. UNCHANGED <<op, taskSubscriptions>>
    BY <1>6 DEF ErReceive, HandlerHandled, HandlerKept, subscriptions
  <2>2. \A u \in Task : disp'[u] = disp[u] \/ disp'[u].pc # "handler"
    <3>1. CASE ErReceive(t)
      <4>1. PICK x : x = [pc |-> "check", e |-> Head(queue[t])] /\ disp' = [disp EXCEPT ![t] = x]
        BY <3>1 DEF ErReceive
      <4> QED  BY <4>1 DEF TypeOK
    <3>2. CASE HandlerHandled(t) \/ HandlerKept(t)
      <4>1. PICK x : /\ x = [pc |-> "loop", e |-> disp[t].e, i |-> m_module_idx[disp[t].m] + 1]
                     /\ disp' = [disp EXCEPT ![t] = x]
        BY <3>2 DEF HandlerHandled, HandlerKept, Continue
      <4> QED  BY <4>1 DEF TypeOK
    <3> QED  BY <1>6, <3>1, <3>2
  <2> QED  BY <1>1, <2>1, <2>2
<1>7. ASSUME NEW t \in Task, DispatchStep(t) PROVE BitsAllowed'
  <2>1. UNCHANGED taskSubscriptions
    BY <1>7 DEF DispatchStep, ErCallHandlers, CallNextHandler, subscriptions
  <2>2. CASE Done(t)
    <3>1. PICK x : Call(t, x) /\ x.pc = "sub"
      BY <2>2 DEF Done
    <3>2. \A u \in Task : disp'[u] = disp[u] \/ disp'[u].pc # "handler"
      BY <2>2 DEF Done, TypeOK, None
    <3> QED  BY <1>0, <2>1, <3>1, <3>2, BitsKept
  <2>3. CASE ~Done(t)
    <3>1. /\ UNCHANGED op
          /\ \A u \in Task : \/ disp'[u] = disp[u] \/ disp'[u].pc # "handler"
                              \/ m_task_idx[disp'[u].m] = u
      <4>1. CASE ErCallHandlers(t)
        <5>1. PICK x : /\ x = [pc |-> "loop", e |-> disp[t].e, i |-> 0]
                       /\ disp' = [disp EXCEPT ![t] = x] /\ UNCHANGED op
          BY <2>3, <4>1 DEF ErCallHandlers
        <5> QED  BY <5>1 DEF TypeOK
      <4>2. CASE CallNextHandler(t)
        <5>1. PICK m, x :
                /\ m \in ModulesOf(t) /\ x = [pc |-> "handler", e |-> disp[t].e, m |-> m]
                /\ disp' = [disp EXCEPT ![t] = x] /\ UNCHANGED op
          BY <2>3, <4>2 DEF CallNextHandler, Receivers
        <5> QED  BY <5>1 DEF TypeOK, ModulesOf
      <4> QED  BY <1>7, <4>1, <4>2 DEF DispatchStep
    <3> QED  BY <1>1, <2>1, <3>1
  <2> QED  BY <2>2, <2>3
<1>8. ASSUME NEW t \in Task, ReturnStep(t) PROVE BitsAllowed'
  <2>1. UNCHANGED <<taskSubscriptions, disp>>
    BY <1>8 DEF ReturnStep, DropReference, DropOwnerReference, CheckReturned, CallSender,
                subscriptions
  <2>2. PICK x : Call(t, x) /\ x.pc \in {"none", "post", "subOwner", "load", "deliver"}
    <3>1. CASE DropReference(t)
      <4>1. PICK x : x = AfterDrop(t, op[t].e, m_reference_count[op[t].e] - 1) /\ Call(t, x)
        BY <3>1 DEF DropReference
      <4>2. x.pc \in {"none", "post", "subOwner", "load", "deliver"}
        BY <4>1, PostingMarks DEF AfterDrop
      <4> QED  BY <4>1, <4>2
    <3>2. CASE DropOwnerReference(t)
      <4>1. PICK x : x = [pc |-> "load", e |-> op[t].e] /\ Call(t, x)
        BY <3>2 DEF DropOwnerReference
      <4> QED  BY <4>1
    <3>3. CASE CheckReturned(t)
      <4>1. PICK x : Call(t, x) /\ x \in {None, [pc |-> "deliver", e |-> op[t].e]}
        BY <3>3 DEF CheckReturned
      <4> QED  BY <4>1 DEF None
    <3>4. CASE CallSender(t)
      BY <3>4 DEF CallSender, None
    <3> QED  BY <1>8, <3>1, <3>2, <3>3, <3>4 DEF ReturnStep
  <2> QED  BY <1>0, <2>1, <2>2, BitsKept
<1>9. ASSUME NEW t \in Task, ClearTaskBit(t) \/ SetTaskBit(t) PROVE BitsAllowed'
  <2>1. /\ op[t].pc \in {"setTask", "clearTask"} /\ Call(t, None) /\ UNCHANGED disp
        /\ \A u \in Task : \/ taskSubscriptions'[u] \subseteq taskSubscriptions[u]
                           \/ /\ u = t /\ op[t].pc = "setTask"
                              /\ taskSubscriptions'[u] = taskSubscriptions[u] \cup {op[t].ty}
    BY <1>9 DEF ClearTaskBit, SetTaskBit, At, TypeOK
  <2>2. \A d \in Context : op'[d] = IF d = t THEN None ELSE op[d]
    BY <2>1 DEF Call, TypeOK
  <2>3. op[t].pc = "setTask" => op[t] = [pc |-> "setTask", ty |-> op[t].ty]
    BY <1>0, CallShapes DEF TypeOK
  <2>4. ASSUME NEW u \in Task, NEW ty \in Type,
               ty \in taskSubscriptions'[u] \/ op'[u] = [pc |-> "setTask", ty |-> ty]
        PROVE  \E m \in ModulesOf(u) : <<m, ty>> \in MaySubscribe
    <3>1. op'[u] = [pc |-> "setTask", ty |-> ty] => op[u] = [pc |-> "setTask", ty |-> ty]
      BY <1>0, <2>2 DEF None
    <3>2. ty \in taskSubscriptions[u] \/ op[u] = [pc |-> "setTask", ty |-> ty]
      BY <2>1, <2>3, <2>4, <3>1
    <3> QED  BY <3>2 DEF BitsAllowed
  <2>5. \A d \in Context :
          op'[d].pc \in {"mark", "add", "addReturn"} => op'[d].mask \subseteq MayReceive(op'[d].e)
    BY <2>2 DEF BitsAllowed, None
  <2> QED  BY <2>1, <2>4, <2>5 DEF BitsAllowed, ModulesOf, MayReceive
<1>10. ASSUME NEW t \in Task, NEW m \in Module, NEW ty \in Type, ErSubscribe(t, m, ty)
       PROVE  BitsAllowed'
  <2>1. /\ Call(t, [pc |-> "setTask", ty |-> ty]) /\ UNCHANGED <<disp, taskSubscriptions>>
        /\ m \in ModulesOf(t) /\ <<m, ty>> \in MaySubscribe
    BY <1>10 DEF ErSubscribe, ModulesOf
  <2>2. \A d \in Context : op'[d] = IF d = t THEN [pc |-> "setTask", ty |-> ty] ELSE op[d]
    BY <2>1 DEF Call, TypeOK
  <2>3. ASSUME NEW u \in Task, NEW ty2 \in Type,
               ty2 \in taskSubscriptions'[u] \/ op'[u] = [pc |-> "setTask", ty |-> ty2]
        PROVE  \E n \in ModulesOf(u) : <<n, ty2>> \in MaySubscribe
    <3>1. CASE u = t /\ op'[u] = [pc |-> "setTask", ty |-> ty2]
      <4>1. [pc |-> "setTask", ty |-> ty2].ty = [pc |-> "setTask", ty |-> ty].ty
        BY <1>0, <2>2, <3>1
      <4> QED  BY <2>1, <3>1, <4>1
    <3>2. CASE ty2 \in taskSubscriptions[u] \/ op[u] = [pc |-> "setTask", ty |-> ty2]
      BY <3>2 DEF BitsAllowed
    <3> QED  BY <1>0, <2>1, <2>2, <2>3, <3>1, <3>2
  <2>4. \A d \in Context :
          op'[d].pc \in {"mark", "add", "addReturn"} => op'[d].mask \subseteq MayReceive(op'[d].e)
    BY <2>2 DEF BitsAllowed
  <2> QED  BY <2>1, <2>3, <2>4 DEF BitsAllowed, ModulesOf, MayReceive
<1>11. ASSUME NEW t \in Task, NEW m \in Module,
              \/ \E e \in Event : ErReturnToSender(t, m, e)
              \/ \E ty \in Type : ErUnsubscribe(t, m, ty)
       PROVE  BitsAllowed'
  <2>1. PICK x : Call(t, x) /\ x.pc \in {"sub", "clearTask"}
    <3>1. CASE \E e \in Event : ErReturnToSender(t, m, e)
      <4>1. PICK e, x : x = [pc |-> "sub", e |-> e] /\ Call(t, x)
        BY <3>1 DEF ErReturnToSender
      <4> QED  BY <4>1
    <3>2. CASE \E ty \in Type : ErUnsubscribe(t, m, ty)
      <4>1. PICK ty, x : x = [pc |-> "clearTask", ty |-> ty] /\ Call(t, x)
        BY <3>2 DEF ErUnsubscribe
      <4> QED  BY <4>1
    <3> QED  BY <1>11, <3>1, <3>2
  <2>2. UNCHANGED <<disp, taskSubscriptions>>
    BY <1>11 DEF ErReturnToSender, ErUnsubscribe, subscriptions
  <2> QED  BY <1>0, <2>1, <2>2, BitsKept
<1>12. ASSUME ErInit \/ ErDeinit PROVE BitsAllowed'
  BY <1>1, <1>12 DEF ErInit, ErDeinit, subscriptions
<1> QED
  BY <1>2, <1>3, <1>4, <1>5, <1>6, <1>7, <1>8, <1>9, <1>10, <1>11, <1>12
  DEF Next, SendStep, SubscribeStep
-----------------------------------------------------------------------------
(* What holds of each event, which the lemmas below keep.                  *)
EventsInv == \A e \in Event : Away(e) /\ Returning(e) /\ HandedBack(e)

(* A call that goes on to one that has nothing to do with returning.       *)
LEMMA QuietStep ==
  ASSUME TypeOK, EventsInv, NEW c \in Context, NEW x, Call(c, x),
         UNCHANGED <<m_reference_count, queue, disp, kept>>, inFlight \subseteq inFlight',
         x.pc \notin {"addReturn", "post", "sub", "subOwner", "load", "deliver"},
         \A e \in Event : x.pc \in {"mark", "add"} /\ x.e = e => e \in inFlight'
  PROVE  EventsInv'
<1> SUFFICES ASSUME NEW e \in Event PROVE (Away(e) /\ Returning(e) /\ HandedBack(e))'
  BY DEF EventsInv
<1>1. \A t \in Task : Holds(t, e)' => Holds(t, e)
  BY HoldsAfter
<1>2. HalfCounted(e)' => HalfCounted(e)
  BY DEF HalfCounted, Call, TypeOK
<1> QED  BY <1>1, <1>2, EventKept DEF EventsInv

(* An event that starts to be sent is in flight.                           *)
LEMMA SendingKeeps ==
  ASSUME TypeOK, EventsInv, NEW c \in Context,
         \/ \E e \in Event, resend \in BOOLEAN : ErSendEx(c, e, resend)
         \/ MarkTask(c)
  PROVE  EventsInv'
<1>1. ASSUME NEW e0 \in Event, NEW resend \in BOOLEAN, ErSendEx(c, e0, resend)
      PROVE  EventsInv'
  <2>1. PICK x : x = [pc |-> "mark", e |-> e0, i |-> 1, mask |-> {}, resend |-> resend]
    OBVIOUS
  <2>2. /\ Call(c, x) /\ inFlight' = inFlight \cup {e0}
        /\ UNCHANGED <<m_reference_count, queue, disp, kept>>
    BY <1>1, <2>1 DEF ErSendEx
  <2>3. x.pc = "mark" /\ x.e = e0
    BY <2>1
  <2> QED  BY <2>2, <2>3, QuietStep
<1>2. CASE MarkTask(c)
  <2>1. /\ op[c] \in Calls /\ op[c].pc = "mark"
        /\ UNCHANGED <<m_reference_count, queue, disp, kept, inFlight>>
    BY <1>2 DEF MarkTask, At, TypeOK
  <2>2. op[c] \in [pc : {"mark"}, e : Event, i : Task, mask : SUBSET Task, resend : BOOLEAN]
    BY <2>1, CallShapes
  <2> DEFINE i == op[c].i
             marked == m_type[op[c].e] \in taskSubscriptions[i]
             x == [op[c] EXCEPT !.mask = IF marked THEN @ \cup {i} ELSE @,
                                !.i = i + 1,
                                !.pc = IF i = NumTasks THEN "add" ELSE @]
  <2>3. Call(c, x)
    BY <1>2 DEF MarkTask
  <2>4. x.pc \in {"mark", "add"} /\ x.e = op[c].e
    BY <2>2
  <2>5. op[c].e \in inFlight
    BY <2>1, <2>2 DEF EventsInv, HandedBack
  <2> HIDE DEF x
  <2> QED  BY <2>1, <2>3, <2>4, <2>5, QuietStep
<1> QED  BY <1>1, <1>2

(* The first addition counts the copies of an idle event.                  *)
LEMMA AddingKeeps ==
  ASSUME TypeOK, CountInv, OnceInv, BitsAllowed, EventsInv, NEW c \in Context,
         AddSubscribers(c)
  PROVE  EventsInv'
<1>0. /\ failed = "none" /\ ContextsInv /\ op[c] \in Calls /\ op[c].pc = "add"
      /\ UNCHANGED <<queue, disp, kept, inFlight>>
  BY DEF CountInv, TypeOK, AddSubscribers, At, Running, history
<1>1. PICK e0 \in Event, mask \in SUBSET Task : op[c].e = e0 /\ op[c].mask = mask
  BY <1>0, CallShapes
<1>2. c = OwnerTask(e0) /\ op[c].resend = FALSE
  BY <1>0, <1>1 DEF ContextsInv, OnceInv, PlainSends
<1>3. FiniteReferences(e0) /\ Counted(e0) /\ m_reference_count[e0] = 0
  BY <1>0, <1>1, <1>2 DEF CountInv, EventInv, StagesInv
<1>4. \A t \in Task : ~Holds(t, e0)
  BY <1>0, <1>3, NoReferences, NobodyHolds
<1>5. PICK x : /\ x = [pc |-> "addReturn", e |-> e0, mask |-> mask]
               /\ Call(c, x) /\ Add(e0, Cardinality(mask))
  BY <1>1, <1>3 DEF AddSubscribers, AfterCount
<1>6. x.pc = "addReturn" /\ x.e = e0 /\ x.mask = mask
  BY <1>5
<1>7. \A d \in Context : op'[d] = IF d = c THEN x ELSE op[d]
  BY <1>5 DEF Call, TypeOK
<1>8. e0 \in inFlight
  BY <1>0, <1>1 DEF EventsInv, HandedBack
<1>9. ASSUME NEW e \in Event, e # e0 PROVE (Away(e) /\ Returning(e) /\ HandedBack(e))'
  <2>1. \A t \in Task : Holds(t, e)' => Holds(t, e)
    BY <1>0, <1>5, <1>6, <1>9, HoldsAfter
  <2>2. HalfCounted(e)' => HalfCounted(e)
    BY <1>6, <1>7, <1>9 DEF HalfCounted
  <2>3. m_reference_count'[e] = m_reference_count[e]
    BY <1>5, <1>9 DEF Add, TypeOK
  <2> QED  BY <1>0, <1>5, <1>6, <1>9, <2>1, <2>2, <2>3, EventKept DEF EventsInv
<1>10. Away(e0)'
  <2>1. \A t \in Task : Holds(t, e0)' => t \in mask
    BY <1>0, <1>4, <1>5, <1>6, HoldsAfter
  <2>2. mask \subseteq MayReceive(e0)
    BY <1>0, <1>1 DEF BitsAllowed
  <2> QED  BY <2>1, <2>2 DEF Away, MayReceive, ModulesOf
<1>11. Returning(e0)'
  <2>1. \A t \in Task : ~(op[t].pc \in {"load", "deliver"} /\ op[t].e = e0)
    BY <1>0, <1>2, <1>3 DEF EventsInv, Returning
  <2>2. \A t \in Task : ~(op'[t].pc \in {"load", "deliver"} /\ op'[t].e = e0)
    BY <1>6, <1>7, <2>1 DEF Context
  <2> QED  BY <2>2 DEF Returning
<1>12. HandedBack(e0)'
  BY <1>0, <1>8 DEF HandedBack
<1> QED  BY <1>9, <1>10, <1>11, <1>12 DEF EventsInv

(* The second addition: the event is away if there are subscribers, and on  *)
(* its way back if there are none.                                         *)
LEMMA AddingReturnKeeps ==
  ASSUME TypeOK, CountInv, BitsAllowed, EventsInv, NEW c \in Context, AddReturnTrip(c)
  PROVE  EventsInv'
<1>0. /\ failed = "none" /\ ContextsInv /\ op[c] \in Calls /\ op[c].pc = "addReturn"
      /\ UNCHANGED <<queue, disp, kept, inFlight>>
  BY DEF CountInv, TypeOK, AddReturnTrip, At, Running, history
<1>1. PICK e0 \in Event, mask \in SUBSET Task : op[c].e = e0 /\ op[c].mask = mask
  BY <1>0, CallShapes
<1>2. c = OwnerTask(e0) /\ HalfCounted(e0)
  BY <1>0, <1>1 DEF ContextsInv, HalfCounted
<1>3. FiniteReferences(e0) /\ Counted(e0) /\ WaitsForOwner(e0)
  BY <1>0, <1>1, <1>2 DEF CountInv, EventInv
<1>4. PICK x : /\ x = Posting(e0, IF mask = {} THEN {OwnerTask(e0)} ELSE mask)
               /\ Call(c, x) /\ Add(e0, 1)
  BY <1>1 DEF AddReturnTrip
<1>5. x = [pc |-> "post", e |-> e0, mask |-> IF mask = {} THEN {OwnerTask(e0)} ELSE mask]
  BY <1>4 DEF Posting
<1>6. x.pc = "post" /\ x.e = e0 /\ (mask # {} => x.mask = mask)
  BY <1>5
<1>7. \A d \in Context : op'[d] = IF d = c THEN x ELSE op[d]
  BY <1>4 DEF Call, TypeOK
<1>8. m_reference_count'[e0] = m_reference_count[e0] + 1
  BY <1>4 DEF Add, TypeOK
<1>9. ASSUME NEW e \in Event, e # e0 PROVE (Away(e) /\ Returning(e) /\ HandedBack(e))'
  <2>1. \A t \in Task : Holds(t, e)' => Holds(t, e)
    BY <1>0, <1>4, <1>6, <1>9, HoldsAfter
  <2>2. HalfCounted(e)' => HalfCounted(e)
    BY <1>6, <1>7, <1>9 DEF HalfCounted
  <2>3. m_reference_count'[e] = m_reference_count[e]
    BY <1>4, <1>9 DEF Add, TypeOK
  <2> QED  BY <1>0, <1>4, <1>6, <1>9, <2>1, <2>2, <2>3, EventKept DEF EventsInv
<1>10. Away(e0)'
  <2>1. ~HalfCounted(e0)'
    BY <1>0, <1>2, <1>6, <1>7 DEF HalfCounted, ContextsInv
  <2>2. ASSUME m_reference_count'[e0] > 1, NEW t \in Task, Holds(t, e0)'
        PROVE  t \in MayReceive(e0)
    <3>1. mask # {}
      BY <1>1, <1>2, <1>3, <1>8, <2>2 DEF WaitsForOwner
    <3>2. Holds(t, e0) \/ t \in mask
      BY <1>0, <1>4, <1>6, <2>2, <3>1, HoldsAfter
    <3>3. Holds(t, e0)
      BY <1>0, <1>1, <3>2 DEF Holds
    <3> QED  BY <1>2, <3>3 DEF EventsInv, Away
  <2> QED  BY <2>1, <2>2 DEF Away, MayReceive, ModulesOf
<1>11. Returning(e0)'
  <2>1. \A t \in Task : ~(op[t].pc = "deliver" /\ op[t].e = e0)
    BY <1>0, <1>2 DEF EventsInv, Returning
  <2>2. \A t \in Task : op'[t].pc \in {"load", "deliver"} => op'[t] = op[t]
    BY <1>6, <1>7 DEF Context
  <2>3. ASSUME NEW t \in Task, op'[t].pc = "load", op'[t].e = e0, t # OwnerTask(e0)
        PROVE  m_reference_count'[e0] > 1 /\ t \in MayReceive(e0)
    <3>1. m_reference_count[e0] > 1 /\ t \in MayReceive(e0)
      BY <2>2, <2>3 DEF EventsInv, Returning
    <3>2. m_reference_count[e0] \in Int
      BY DEF TypeOK
    <3> QED  BY <1>8, <3>1, <3>2
  <2>4. \A t \in Task : ~(op'[t].pc = "deliver" /\ op'[t].e = e0)
    BY <2>1, <2>2
  <2> QED  BY <2>3, <2>4 DEF Returning, MayReceive, ModulesOf, OwnerTask
<1>12. HandedBack(e0)'
  BY <1>0, <1>1 DEF EventsInv, HandedBack
<1> QED  BY <1>9, <1>10, <1>11, <1>12 DEF EventsInv

(* Copies that move from a mask to a queue, into a delivery and out of it   *)
(* stay with their task.                                                   *)
LEMMA MovingKeeps ==
  ASSUME TypeOK, EventsInv, NEW c \in Context, NEW x, Call(c, x),
         \A t \in Task, e \in Event : Holds(t, e)' => Holds(t, e),
         UNCHANGED <<m_reference_count, inFlight>>,
         x.pc \notin {"mark", "add", "addReturn"},
         x.pc \in {"load", "deliver"} => x = op[c]
  PROVE  EventsInv'
<1> SUFFICES ASSUME NEW e \in Event PROVE (Away(e) /\ Returning(e) /\ HandedBack(e))'
  BY DEF EventsInv
<1>1. HalfCounted(e)' => HalfCounted(e)
  BY DEF HalfCounted, Call, TypeOK
<1> QED  BY <1>1, EventKept DEF EventsInv

(* A copy that is posted was marked for its task before.                   *)
LEMMA PostingKeeps ==
  ASSUME TypeOK, EventsInv, NEW c \in Context, SendEvent(c), failed' = "none"
  PROVE  EventsInv'
<1>0. op[c] \in Calls /\ op[c].pc = "post" /\ failed = "none"
  BY DEF TypeOK, SendEvent, At, Running
<1>1. PICK e0 \in Event, mask \in (SUBSET Task) \ {{}} : op[c].e = e0 /\ op[c].mask = mask
  BY <1>0, CallShapes
<1>2. PICK u \in Task : u = Smallest(mask) /\ u \in mask
  BY <1>1, SmallestInMask
<1>3. PICK x : x = Posting(e0, mask \ {u}) /\ Call(c, x)
  BY <1>1, <1>2 DEF SendEvent
<1>4. /\ x.pc \in {"none", "post"} /\ (x.pc = "post" => x.e = e0 /\ x.mask = mask \ {u})
  BY <1>3 DEF Posting, None
<1>5. /\ queue' = [queue EXCEPT ![u] = Append(@, e0)]
      /\ UNCHANGED <<m_reference_count, disp, kept, inFlight>>
  BY <1>0, <1>1, <1>2 DEF SendEvent, Assert, history
<1>6. \A d \in Context : op'[d] = IF d = c THEN x ELSE op[d]
  BY <1>3 DEF Call, TypeOK
<1>7. ASSUME NEW t \in Task, NEW e \in Event, Holds(t, e)' PROVE Holds(t, e)
  <2>1. ASSUME NEW d \in Context, op'[d].pc \in {"addReturn", "post"}, op'[d].e = e,
               t \in op'[d].mask
        PROVE  Holds(t, e)
    <3>1. op[d].pc \in {"addReturn", "post"} /\ op[d].e = e /\ t \in op[d].mask
      BY <1>0, <1>1, <1>4, <1>6, <2>1
    <3> QED  BY <3>1 DEF Holds
  <2>2. ASSUME NEW i \in 1..Len(queue'[t]), queue'[t][i] = e PROVE Holds(t, e)
    <3>1. CASE i \in 1..Len(queue[t]) /\ queue[t][i] = e
      BY <3>1 DEF Holds
    <3>2. CASE t = u /\ e = e0
      BY <1>0, <1>1, <1>2, <3>2 DEF Holds
    <3> QED  BY <1>5, <2>2, <3>1, <3>2 DEF TypeOK
  <2>3. op'[t].pc \in {"sub", "subOwner"} => op'[t] = op[t]
    BY <1>4, <1>6 DEF Context
  <2> QED  BY <1>5, <1>7, <2>1, <2>2, <2>3 DEF Holds, ModulesOf
<1> QED  BY <1>3, <1>4, <1>5, <1>7, MovingKeeps

(* A step that makes no call, counts nothing and moves no copy elsewhere.  *)
LEMMA RestKeeps ==
  ASSUME TypeOK, EventsInv, UNCHANGED <<op, m_reference_count, inFlight>>,
         \A t \in Task, e \in Event : Holds(t, e)' => Holds(t, e)
  PROVE  EventsInv'
<1> SUFFICES ASSUME NEW e \in Event PROVE (Away(e) /\ Returning(e) /\ HandedBack(e))'
  BY DEF EventsInv
<1>1. HalfCounted(e)' => HalfCounted(e)
  BY DEF HalfCounted
<1>2. Away(e)' /\ Returning(e)' /\ HandedBack(e)'
  BY <1>1 DEF EventsInv, Away, Returning, HandedBack, MayReceive, ModulesOf, OwnerTask
<1> QED  BY <1>2

(* A task takes a copy from its queue; a handler returns.                  *)
LEMMA ReceivingKeeps ==
  ASSUME TypeOK, EventsInv, NEW t \in Task, ErReceive(t) \/ HandlerHandled(t)
  PROVE  EventsInv'
<1>1. UNCHANGED <<op, m_reference_count, inFlight, kept>>
  BY DEF ErReceive, HandlerHandled, history
<1>2. ASSUME NEW u \in Task, NEW e \in Event, Holds(u, e)' PROVE Holds(u, e)
  <2>1. CASE ErReceive(t)
    <3>1. PICK e0, x : /\ e0 = Head(queue[t]) /\ x = [pc |-> "check", e |-> e0]
                       /\ disp' = [disp EXCEPT ![t] = x]
      BY <2>1 DEF ErReceive
    <3>2. queue[t] # <<>> /\ queue' = [queue EXCEPT ![t] = Tail(@)]
      BY <2>1 DEF ErReceive
    <3>3. ASSUME NEW i \in 1..Len(queue'[u]), queue'[u][i] = e PROVE Holds(u, e)
      <4>1. \E j \in 1..Len(queue[u]) : queue[u][j] = e
        <5>1. CASE u = t
          <6>1. i + 1 \in 1..Len(queue[u]) /\ queue[u][i + 1] = e
            BY <3>2, <3>3, <5>1 DEF TypeOK
          <6> QED  BY <6>1
        <5>2. CASE u # t
          BY <3>2, <3>3, <5>2 DEF TypeOK
        <5> QED  BY <5>1, <5>2
      <4> QED  BY <4>1 DEF Holds
    <3>4. ASSUME disp'[u].pc # "none", disp'[u].e = e PROVE Holds(u, e)
      <4>1. CASE u = t
        <5>1. e0 = e
          BY <3>1, <3>4, <4>1 DEF TypeOK
        <5>2. 1 \in 1..Len(queue[u]) /\ queue[u][1] = e
          BY <3>1, <3>2, <4>1, <5>1 DEF TypeOK
        <5> QED  BY <5>2 DEF Holds
      <4>2. CASE u # t
        BY <3>1, <3>4, <4>2 DEF TypeOK, Holds
      <4> QED  BY <4>1, <4>2
    <3> QED  BY <1>1, <1>2, <3>3, <3>4 DEF Holds, ModulesOf
  <2>2. CASE HandlerHandled(t)
    <3>1. PICK x : /\ x = [pc |-> "loop", e |-> disp[t].e, i |-> m_module_idx[disp[t].m] + 1]
                   /\ disp' = [disp EXCEPT ![t] = x]
      BY <2>2 DEF HandlerHandled, Continue
    <3>2. disp[t].pc = "handler" /\ UNCHANGED queue
      BY <2>2 DEF HandlerHandled, Dispatching
    <3>3. disp'[u].pc # "none" /\ disp'[u].e = e => disp[u].pc # "none" /\ disp[u].e = e
      BY <3>1, <3>2 DEF TypeOK
    <3> QED  BY <1>1, <1>2, <3>2, <3>3 DEF Holds, ModulesOf
  <2> QED  BY <2>1, <2>2
<1> QED  BY <1>1, <1>2, RestKeeps

(* ErCallHandlers() holds its copy until ErReturnToSender() takes it.       *)
LEMMA DispatchingKeeps ==
  ASSUME TypeOK, EventsInv, NEW t \in Task, DispatchStep(t)
  PROVE  EventsInv'
<1>1. /\ UNCHANGED <<m_reference_count, inFlight, kept, queue>>
      /\ op[t].pc = "none" /\ disp[t].pc \in {"check", "loop"} /\ t \in Context
  BY DEF DispatchStep, ErCallHandlers, CallNextHandler, Dispatching, Context, history
<1>2. CASE Done(t)
  <2>1. PICK e0, x : /\ e0 = disp[t].e /\ x = [pc |-> "sub", e |-> e0] /\ Call(t, x)
                     /\ disp' = [disp EXCEPT ![t] = None]
    BY <1>2 DEF Done
  <2>2. \A d \in Context : op'[d] = IF d = t THEN x ELSE op[d]
    BY <2>1 DEF Call, TypeOK
  <2>3. ASSUME NEW u \in Task, NEW e \in Event, Holds(u, e)' PROVE Holds(u, e)
    <3>1. disp'[u].pc # "none" => disp'[u] = disp[u]
      BY <2>1 DEF TypeOK, None
    <3>2. op'[u].pc \in {"sub", "subOwner"} /\ op'[u].e = e
            => \/ op[u].pc \in {"sub", "subOwner"} /\ op[u].e = e
               \/ disp[u].pc # "none" /\ disp[u].e = e
      BY <1>1, <2>1, <2>2 DEF Context
    <3>3. \A d \in Context : op'[d].pc \in {"addReturn", "post"} => op'[d] = op[d]
      BY <2>1, <2>2
    <3> QED  BY <1>1, <2>3, <3>1, <3>2, <3>3 DEF Holds, ModulesOf
  <2>4. x.pc = "sub"
    BY <2>1
  <2> QED  BY <1>1, <2>1, <2>3, <2>4, MovingKeeps
<1>3. CASE ~Done(t)
  <2>1. /\ UNCHANGED op
        /\ \A u \in Task : disp'[u].pc # "none" => disp[u].pc # "none" /\ disp'[u].e = disp[u].e
    <3>1. CASE ErCallHandlers(t)
      <4>1. PICK x : /\ x = [pc |-> "loop", e |-> disp[t].e, i |-> 0]
                     /\ disp' = [disp EXCEPT ![t] = x] /\ UNCHANGED op
        BY <1>3, <3>1 DEF ErCallHandlers
      <4> QED  BY <1>1, <4>1 DEF TypeOK
    <3>2. CASE CallNextHandler(t)
      <4>1. PICK m, x : /\ x = [pc |-> "handler", e |-> disp[t].e, m |-> m]
                        /\ disp' = [disp EXCEPT ![t] = x] /\ UNCHANGED op
        BY <1>3, <3>2 DEF CallNextHandler
      <4> QED  BY <1>1, <4>1 DEF TypeOK
    <3> QED  BY <3>1, <3>2 DEF DispatchStep
  <2>2. ASSUME NEW u \in Task, NEW e \in Event, Holds(u, e)' PROVE Holds(u, e)
    BY <1>1, <2>1, <2>2 DEF Holds, ModulesOf
  <2> QED  BY <1>1, <2>1, <2>2, RestKeeps
<1> QED  BY <1>2, <1>3

(* A kept copy stays with the task of the module that keeps it.            *)
LEMMA KeepingKeeps ==
  ASSUME TypeOK, CountInv, BitsAllowed, EventsInv, NEW t \in Task, HandlerKept(t)
  PROVE  EventsInv'
<1>1. /\ UNCHANGED <<op, queue, inFlight>> /\ disp[t].pc = "handler" /\ failed = "none"
      /\ kept' = [kept EXCEPT ![disp[t].m][disp[t].e] = @ + 1] /\ Add(disp[t].e, 1)
  BY DEF HandlerKept, Dispatching, Running, history
<1>2. PICK e0 \in Event, m0 \in Module :
        e0 = disp[t].e /\ m0 = disp[t].m /\ m_task_idx[m0] = t
  <2>1. disp[t].e \in Event /\ disp[t].m \in Module /\ m_task_idx[disp[t].m] = t
    BY <1>1, ActivationShapes DEF TypeOK, BitsAllowed
  <2> QED  BY <2>1
<1>3. m_reference_count[e0] > 1
  <2>1. Dispatching(t, "handler")
    BY DEF HandlerKept
  <2> QED  BY <1>2, <2>1, InHandler
<1>4. \A u \in Task : disp'[u].pc # "none" => disp[u].pc # "none" /\ disp'[u].e = disp[u].e
  <2>1. PICK x : /\ x = [pc |-> "loop", e |-> disp[t].e, i |-> m_module_idx[disp[t].m] + 1]
                 /\ disp' = [disp EXCEPT ![t] = x]
    BY DEF HandlerKept, Continue
  <2> QED  BY <1>1, <2>1 DEF TypeOK
<1>5. \A m \in Module, e \in Event :
        kept'[m][e] = IF m = m0 /\ e = e0 THEN kept[m][e] + 1 ELSE kept[m][e]
  BY <1>1, <1>2 DEF TypeOK
<1>6. ASSUME NEW u \in Task, NEW e \in Event, Holds(u, e)' PROVE Holds(u, e)
  <2>1. CASE u = t /\ e = e0
    BY <1>1, <1>2, <2>1 DEF Holds
  <2>2. CASE ~(u = t /\ e = e0)
    <3>1. \A m \in ModulesOf(u) : kept'[m][e] = kept[m][e]
      BY <1>2, <1>5, <2>2 DEF ModulesOf
    <3> QED  BY <1>1, <1>4, <1>6, <3>1 DEF Holds, ModulesOf
  <2> QED  BY <2>1, <2>2
<1>7. /\ m_reference_count'[e0] = m_reference_count[e0] + 1
      /\ \A e \in Event : e # e0 => m_reference_count'[e] = m_reference_count[e]
      /\ m_reference_count[e0] \in Int
  BY <1>1, <1>2 DEF Add, TypeOK
<1> SUFFICES ASSUME NEW e \in Event PROVE (Away(e) /\ Returning(e) /\ HandedBack(e))'
  BY DEF EventsInv
<1>8. HalfCounted(e)' => HalfCounted(e)
  BY <1>1 DEF HalfCounted
<1>9. /\ m_reference_count'[e] > 1 <=> m_reference_count[e] > 1
      /\ m_reference_count[e] = 0 => m_reference_count'[e] = 0
  BY <1>3, <1>7
<1>10. Away(e)' /\ Returning(e)' /\ HandedBack(e)'
  BY <1>1, <1>6, <1>8, <1>9
  DEF EventsInv, Away, Returning, HandedBack, MayReceive, ModulesOf, OwnerTask
<1> QED  BY <1>10

(* The copy a module gives back is one that its task held.                 *)
LEMMA GivingBackKeeps ==
  ASSUME TypeOK, EventsInv, NEW t \in Task, NEW m \in Module, NEW e0 \in Event,
         ErReturnToSender(t, m, e0)
  PROVE  EventsInv'
<1>1. PICK x : x = [pc |-> "sub", e |-> e0] /\ Call(t, x)
  BY DEF ErReturnToSender
<1>2. /\ UNCHANGED <<m_reference_count, inFlight, queue, disp>> /\ t \in Context
      /\ m \in ModulesOf(t) /\ kept[m][e0] > 0
      /\ kept' = [kept EXCEPT ![m][e0] = @ - 1]
  BY DEF ErReturnToSender, ModulesOf, Context, history
<1>3. \A n \in Module, e \in Event : kept'[n][e] > 0 => kept[n][e] > 0
  BY <1>2 DEF TypeOK
<1>4. \A d \in Context : op'[d] = IF d = t THEN x ELSE op[d]
  BY <1>1 DEF Call, TypeOK
<1>5. x.pc = "sub" /\ x.e = e0
  BY <1>1
<1>6. ASSUME NEW u \in Task, NEW e \in Event, Holds(u, e)' PROVE Holds(u, e)
  <2>1. \A d \in Context : op'[d].pc \in {"addReturn", "post"} => op'[d] = op[d]
    BY <1>4, <1>5
  <2>2. op'[u].pc \in {"sub", "subOwner"} /\ op'[u].e = e
          => \/ op[u].pc \in {"sub", "subOwner"} /\ op[u].e = e
             \/ u = t /\ e = e0
    BY <1>4, <1>5 DEF Context
  <2>3. u = t /\ e = e0 => Holds(u, e)
    BY <1>2 DEF Holds
  <2>4. (\E n \in ModulesOf(u) : kept'[n][e] > 0) => Holds(u, e)
    BY <1>3 DEF Holds, ModulesOf
  <2> QED  BY <1>2, <1>6, <2>1, <2>2, <2>3, <2>4 DEF Holds, ModulesOf
<1> QED  BY <1>1, <1>2, <1>5, <1>6, MovingKeeps

(* A task drops a reference: only the last copy goes on to be handed back.  *)
LEMMA DroppingKeeps ==
  ASSUME OneSubscribingTask, TypeOK, EventsInv, NEW t \in Task, NEW e0 \in Event, NEW x,
         EventInv(e0), Call(t, x), Add(e0, -1),
         UNCHANGED <<queue, disp, kept, inFlight>>,
         op[t].pc \in {"sub", "subOwner"}, op[t].e = e0,
         x.e = e0, x.pc \in {"load", "post", "subOwner"},
         x.pc = "load" => m_reference_count[e0] # 2,
         x.pc # "load" => m_reference_count[e0] <= 2
  PROVE  EventsInv'
<1>0. t \in Context /\ t \in Returned(e0) /\ Holds(t, e0)
  BY DEF Context, Returned, Holds
<1>1. \A d \in Context : op'[d] = IF d = t THEN x ELSE op[d]
  BY <1>0 DEF Call, TypeOK
<1>2. /\ m_reference_count[e0] \in Nat \ {0} /\ ~HalfCounted(e0)
      /\ m_reference_count'[e0] = m_reference_count[e0] - 1
      /\ \A e \in Event : e # e0 => m_reference_count'[e] = m_reference_count[e]
  BY <1>0, ReturnedIsCounted DEF Add, TypeOK
<1>3. ASSUME NEW e \in Event, HalfCounted(e)' PROVE HalfCounted(e)
  BY <1>1, <1>3 DEF HalfCounted
<1>4. m_reference_count[e0] > 1 => t \in MayReceive(e0)
  BY <1>0 DEF EventsInv, Away
<1>5. ASSUME NEW e \in Event, e # e0 PROVE (Away(e) /\ Returning(e) /\ HandedBack(e))'
  <2>1. \A u \in Task : Holds(u, e)' => Holds(u, e)
    BY <1>0, <1>5, HoldsAfter
  <2> QED  BY <1>0, <1>2, <1>3, <1>5, <2>1, EventKept DEF EventsInv
<1>6. Away(e0)'
  <2>1. ASSUME m_reference_count'[e0] > 1, NEW u \in Task, Holds(u, e0)'
        PROVE  u \in MayReceive(e0)
    <3>1. x.pc = "load" /\ m_reference_count[e0] > 1
      BY <1>2, <2>1
    <3>2. Holds(u, e0)
      BY <1>0, <2>1, <3>1, HoldsAfter
    <3> QED  BY <3>1, <3>2 DEF EventsInv, Away
  <2> QED  BY <1>2, <1>3, <2>1 DEF Away, MayReceive, ModulesOf
<1>7. ASSUME NEW u \in Task, op'[u].pc = "load", op'[u].e = e0, u # OwnerTask(e0)
      PROVE  m_reference_count'[e0] > 1 /\ u \in MayReceive(e0)
  <2>1. CASE u = t
    <3>1. m_reference_count[e0] # 1
      BY <1>0, <1>2, <1>7, <2>1 DEF EventInv, AtHome
    <3>2. m_reference_count[e0] # 2
      BY <1>0, <1>1, <1>7, <2>1
    <3> QED  BY <1>2, <1>4, <2>1, <3>1, <3>2
  <2>2. CASE u # t
    <3>1. op[u] = op'[u]
      BY <1>1, <2>2 DEF Context
    <3>2. m_reference_count[e0] > 1 /\ u \in MayReceive(e0)
      BY <1>7, <3>1 DEF EventsInv, Returning
    <3> QED  BY <1>4, <2>2, <3>2 DEF OneSubscribingTask
  <2> QED  BY <2>1, <2>2
<1>8. ASSUME NEW u \in Task, op'[u].pc = "deliver", op'[u].e = e0 PROVE FALSE
  <2>1. op[u] = op'[u]
    BY <1>0, <1>1, <1>8 DEF Context
  <2> QED  BY <1>2, <1>8, <2>1 DEF EventsInv, Returning
<1>9. Returning(e0)'
  BY <1>7, <1>8 DEF Returning, MayReceive, ModulesOf, OwnerTask
<1>10. HandedBack(e0)'
  BY <1>2 DEF EventsInv, HandedBack
<1> QED  BY <1>5, <1>6, <1>9, <1>10 DEF EventsInv

(* ErReturnToSender() drops a reference, or the owner's task drops the last *)
(* one without a queue.                                                    *)
LEMMA ReturningKeeps ==
  ASSUME OneSubscribingTask, TypeOK, CountInv, EventsInv, NEW t \in Task,
         DropReference(t) \/ DropOwnerReference(t)
  PROVE  EventsInv'
<1>0. /\ failed = "none" /\ \A e \in Event : EventInv(e)
      /\ op[t] \in Calls /\ t \in Context
      /\ UNCHANGED <<queue, disp, kept, inFlight>>
  BY DEF CountInv, TypeOK, Context, DropReference, DropOwnerReference, At, Running, history
<1>1. CASE DropReference(t)
  <2>1. op[t].pc = "sub"
    BY <1>1 DEF DropReference, At
  <2>2. PICK e0 \in Event, old \in Int : op[t].e = e0 /\ m_reference_count[e0] = old
    BY <1>0, <2>1, CallShapes DEF TypeOK
  <2>3. PICK x : x = AfterDrop(t, e0, old - 1) /\ Call(t, x) /\ Add(e0, -1)
    BY <1>1, <2>2 DEF DropReference
  <2>4. /\ x.pc \in {"load", "post", "subOwner"} /\ x.e = e0
        /\ x.pc = "load" => old # 2
        /\ x.pc # "load" => old <= 2
    BY <2>2, <2>3 DEF AfterDrop, Posting
  <2> QED  BY <1>0, <2>1, <2>2, <2>3, <2>4, DroppingKeeps
<1>2. CASE DropOwnerReference(t)
  <2>1. op[t].pc = "subOwner"
    BY <1>2 DEF DropOwnerReference, At
  <2>2. PICK e0 \in Event : op[t].e = e0
    BY <1>0, <2>1, CallShapes
  <2>3. PICK x : x = [pc |-> "load", e |-> e0] /\ Call(t, x) /\ Add(e0, -1)
    BY <1>2, <2>2 DEF DropOwnerReference
  <2>4. x.pc = "load" /\ x.e = e0
    BY <2>3
  <2>5. m_reference_count[e0] = 1
    BY <1>0, <2>1, <2>2 DEF EventInv, StagesInv
  <2> QED  BY <1>0, <2>1, <2>2, <2>3, <2>4, <2>5, DroppingKeeps
<1> QED  BY <1>1, <1>2

(* Only the owner's task finds the count at 0.                             *)
LEMMA CheckingKeeps ==
  ASSUME TypeOK, EventsInv, NEW t \in Task, CheckReturned(t)
  PROVE  EventsInv'
<1>0. /\ op[t] \in Calls /\ op[t].pc = "load" /\ t \in Context
      /\ UNCHANGED <<m_reference_count, queue, disp, kept, inFlight>>
  BY DEF TypeOK, Context, CheckReturned, At, history
<1>1. PICK e0 \in Event : op[t].e = e0
  BY <1>0, CallShapes
<1>2. PICK x : /\ x = (IF m_reference_count[e0] = 0
                         THEN [pc |-> "deliver", e |-> e0] ELSE None)
               /\ Call(t, x)
  BY <1>1 DEF CheckReturned
<1>3. /\ x.pc \in {"none", "deliver"}
      /\ x.pc = "deliver" => x.e = e0 /\ m_reference_count[e0] = 0
  BY <1>2 DEF None
<1>4. \A d \in Context : op'[d] = IF d = t THEN x ELSE op[d]
  BY <1>0, <1>2 DEF Call, TypeOK
<1>5. ASSUME NEW e \in Event
      PROVE  /\ HalfCounted(e)' => HalfCounted(e)
             /\ \A u \in Task : Holds(u, e)' => Holds(u, e)
  <2>1. HalfCounted(e)' => HalfCounted(e)
    BY <1>3, <1>4 DEF HalfCounted
  <2> QED  BY <1>0, <1>2, <1>3, <2>1, HoldsAfter
<1>6. ASSUME NEW e \in Event, e # e0 PROVE (Away(e) /\ Returning(e) /\ HandedBack(e))'
  BY <1>0, <1>2, <1>3, <1>5, <1>6, EventKept DEF EventsInv
<1>7. Away(e0)'
  BY <1>0, <1>5 DEF EventsInv, Away, MayReceive, ModulesOf
<1>8. ASSUME NEW u \in Task, op'[u].pc \in {"load", "deliver"}, op'[u].e = e0
      PROVE  /\ op'[u].pc = "load" /\ u # OwnerTask(e0)
                  => m_reference_count[e0] > 1 /\ u \in MayReceive(e0)
             /\ op'[u].pc = "deliver"
                  => m_reference_count[e0] = 0 /\ u = OwnerTask(e0)
  <2>1. CASE u = t
    <3>1. t # OwnerTask(e0) => m_reference_count[e0] > 1
      BY <1>0, <1>1 DEF EventsInv, Returning
    <3> QED  BY <1>0, <1>3, <1>4, <1>8, <2>1, <3>1
  <2>2. CASE u # t
    <3>1. op'[u] = op[u]
      BY <1>4, <2>2 DEF Context
    <3> QED  BY <1>8, <3>1 DEF EventsInv, Returning
  <2> QED  BY <2>1, <2>2
<1>9. Returning(e0)'
  BY <1>0, <1>8 DEF Returning, MayReceive, ModulesOf, OwnerTask
<1>10. HandedBack(e0)'
  BY <1>0, <1>1 DEF EventsInv, HandedBack
<1> QED  BY <1>6, <1>7, <1>9, <1>10 DEF EventsInv

(* The owner's handler gets an event of which nothing is left elsewhere.    *)
LEMMA HandingBackKeeps ==
  ASSUME TypeOK, CountInv, EventsInv, NEW t \in Task, CallSender(t)
  PROVE  EventsInv'
<1>0. /\ op[t] \in Calls /\ op[t].pc = "deliver" /\ t \in Context /\ ContextsInv
      /\ UNCHANGED <<m_reference_count, queue, disp, kept>> /\ failed = "none"
  BY DEF TypeOK, CountInv, Context, CallSender, At, Running
<1>1. PICK e0 \in Event : op[t].e = e0
  BY <1>0, CallShapes
<1>2. PICK x : x = None /\ Call(t, x) /\ inFlight' = inFlight \ {e0}
  BY <1>1 DEF CallSender
<1>3. x.pc = "none"
  BY <1>2 DEF None
<1>4. \A d \in Context : op'[d] = IF d = t THEN x ELSE op[d]
  BY <1>0, <1>2 DEF Call, TypeOK
<1>5. m_reference_count[e0] = 0 /\ t = OwnerTask(e0)
  BY <1>0, <1>1 DEF EventsInv, Returning
<1>6. ASSUME NEW e \in Event
      PROVE  /\ HalfCounted(e)' => HalfCounted(e)
             /\ \A u \in Task : Holds(u, e)' => Holds(u, e)
  <2>1. HalfCounted(e)' => HalfCounted(e)
    BY <1>3, <1>4 DEF HalfCounted
  <2> QED  BY <1>0, <1>2, <1>3, <2>1, HoldsAfter
<1>7. ASSUME NEW e \in Event, e # e0 PROVE (Away(e) /\ Returning(e) /\ HandedBack(e))'
  BY <1>0, <1>2, <1>3, <1>6, <1>7, EventKept DEF EventsInv
<1>8. Away(e0)'
  BY <1>0, <1>6 DEF EventsInv, Away, MayReceive, ModulesOf
<1>9. \A u \in Task : op'[u].pc \in {"load", "deliver"} => op'[u] = op[u] /\ u # t
  BY <1>3, <1>4 DEF Context
<1>10. Returning(e0)'
  BY <1>0, <1>9 DEF EventsInv, Returning, MayReceive, ModulesOf, OwnerTask
<1>11. ASSUME NEW c \in Context, op'[c].pc \in {"mark", "add", "addReturn"}
       PROVE  op'[c].e # e0
  <2>1. op[c] = op'[c] /\ c # t
    BY <1>3, <1>4, <1>11
  <2> QED  BY <1>0, <1>5, <1>11, <2>1 DEF ContextsInv
<1>12. ASSUME NEW u \in Task, op'[u].pc \in {"load", "deliver"} PROVE op'[u].e # e0
  BY <1>5, <1>9, <1>12 DEF EventsInv, Returning
<1>13. HandedBack(e0)'
  BY <1>0, <1>5, <1>11, <1>12 DEF HandedBack
<1> QED  BY <1>7, <1>8, <1>10, <1>13 DEF EventsInv

(* Calls that subscribe leave events alone.                                *)
LEMMA SubscribingLeaves ==
  ASSUME TypeOK, EventsInv, NEW t \in Task,
         \/ SubscribeStep(t)
         \/ \E m \in Module, ty \in Type : ErSubscribe(t, m, ty) \/ ErUnsubscribe(t, m, ty)
  PROVE  EventsInv'
<1>1. /\ t \in Context
      /\ UNCHANGED <<m_reference_count, queue, disp, kept, inFlight>>
  BY DEF Context, SubscribeStep, SetTaskBit, ClearTaskBit, ErSubscribe, ErUnsubscribe, history
<1>2. PICK x : Call(t, x) /\ x.pc \in {"none", "setTask", "clearTask"}
  <2>1. None.pc = "none"
    BY DEF None
  <2>2. CASE SubscribeStep(t)
    <3>1. Call(t, None)
      BY <2>2 DEF SubscribeStep, SetTaskBit, ClearTaskBit
    <3> QED  BY <2>1, <3>1
  <2>3. CASE \E m \in Module, ty \in Type : ErSubscribe(t, m, ty) \/ ErUnsubscribe(t, m, ty)
    <3>1. PICK ty \in Type :
            Call(t, [pc |-> "setTask", ty |-> ty]) \/ Call(t, [pc |-> "clearTask", ty |-> ty])
      BY <2>3 DEF ErSubscribe, ErUnsubscribe
    <3> QED  BY <3>1
  <2> QED  BY <2>2, <2>3
<1> QED  BY <1>1, <1>2, QuietStep

(* Every step keeps what holds of the events.                              *)
LEMMA EventsInvStep ==
  ASSUME OneSubscribingTask, TypeOK, CountInv, OnceInv, BitsAllowed, EventsInv, Next,
         failed' = "none"
  PROVE  EventsInv'
<1>1. ASSUME NEW c \in Context,
             \/ \E e \in Event, resend \in BOOLEAN : ErSendEx(c, e, resend)
             \/ SendStep(c)
      PROVE  EventsInv'
  BY <1>1, SendingKeeps, AddingKeeps, AddingReturnKeeps, PostingKeeps DEF SendStep
<1>2. ASSUME NEW t \in Task, ErReceive(t) \/ HandlerHandled(t) PROVE EventsInv'
  BY <1>2, ReceivingKeeps
<1>3. ASSUME NEW t \in Task, DispatchStep(t) PROVE EventsInv'
  BY <1>3, DispatchingKeeps
<1>4. ASSUME NEW t \in Task, HandlerKept(t) PROVE EventsInv'
  BY <1>4, KeepingKeeps
<1>5. ASSUME NEW t \in Task, ReturnStep(t) PROVE EventsInv'
  BY <1>5, ReturningKeeps, CheckingKeeps, HandingBackKeeps DEF ReturnStep
<1>6. ASSUME NEW t \in Task,
             \/ SubscribeStep(t)
             \/ \E m \in Module, ty \in Type :
                  ErSubscribe(t, m, ty) \/ ErUnsubscribe(t, m, ty)
      PROVE  EventsInv'
  BY <1>6, SubscribingLeaves
<1>7. ASSUME NEW t \in Task, NEW m \in Module, NEW e \in Event, ErReturnToSender(t, m, e)
      PROVE  EventsInv'
  BY <1>7, GivingBackKeeps
<1>8. ASSUME ErInit \/ ErDeinit PROVE EventsInv'
  <2>1. UNCHANGED <<op, m_reference_count, inFlight, queue, disp, kept>>
    BY <1>8 DEF ErInit, ErDeinit, history
  <2>2. \A t \in Task, e \in Event : Holds(t, e)' => Holds(t, e)
    BY <2>1 DEF Holds, ModulesOf
  <2> QED  BY <2>1, <2>2, RestKeeps
<1> QED
  BY <1>1, <1>2, <1>3, <1>4, <1>5, <1>6, <1>7, <1>8 DEF Next

-----------------------------------------------------------------------------
(* A copy of e is posted, or about to be posted, to the task.              *)
Posted(t, e) ==
  \/ \E c \in Context : op[c].pc \in {"addReturn", "post"} /\ op[c].e = e /\ t \in op[c].mask
  \/ \E i \in 1..Len(queue[t]) : queue[t][i] = e

(* ErCallHandlers() will not call the module's handler any more.           *)
Past(t, m) ==
  \/ disp[t].pc = "loop" /\ disp[t].i > m_module_idx[m]
  \/ disp[t].pc = "handler" /\ m_module_idx[disp[t].m] > m_module_idx[m]

(* A task that delivers e gets no second copy, and no module that keeps e   *)
(* is called for it again.                                                 *)
FirstTime(e) ==
  /\ \A t \in Task : disp[t].pc # "none" /\ disp[t].e = e => ~Posted(t, e)
  /\ \A t \in Task : \A m \in ModulesOf(t) : kept[m][e] > 0 =>
       /\ ~Posted(t, e)
       /\ disp[t].pc # "none" /\ disp[t].e = e => Past(t, m)

FirstInv == \A e \in Event : FirstTime(e)
-----------------------------------------------------------------------------
(* A context goes on with its call: where copies of e are posted then.      *)
LEMMA PostedAfter ==
  ASSUME TypeOK, NEW c \in Context, NEW x, Call(c, x), UNCHANGED queue,
         NEW t \in Task, NEW e \in Event, Posted(t, e)'
  PROVE  Posted(t, e) \/ (x.pc \in {"addReturn", "post"} /\ x.e = e /\ t \in x.mask)
<1>1. \A d \in Context : op'[d] = IF d = c THEN x ELSE op[d]
  BY DEF Call, TypeOK
<1> QED  BY <1>1 DEF Posted

(* A step that posts, delivers and keeps nothing more.                     *)
LEMMA NothingNew ==
  ASSUME NEW e \in Event, FirstTime(e),
         \A t \in Task : Posted(t, e)' => Posted(t, e),
         \A t \in Task : disp'[t] = disp[t] \/ disp'[t].pc = "none",
         \A m \in Module : kept'[m][e] > 0 => kept[m][e] > 0
  PROVE  FirstTime(e)'
<1>1. ASSUME NEW t \in Task, disp'[t].pc # "none", disp'[t].e = e PROVE ~Posted(t, e)'
  BY <1>1 DEF FirstTime
<1>2. ASSUME NEW t \in Task, NEW m \in ModulesOf(t), kept'[m][e] > 0
      PROVE  /\ ~Posted(t, e)'
             /\ disp'[t].pc # "none" /\ disp'[t].e = e => Past(t, m)'
  <2>1. kept[m][e] > 0
    BY <1>2 DEF ModulesOf
  <2> QED  BY <2>1 DEF FirstTime, Past
<1> QED  BY <1>1, <1>2 DEF FirstTime, ModulesOf

(* A step of a call that posts no copy of e.                               *)
LEMMA QuietFirst ==
  ASSUME TypeOK, NEW e \in Event, FirstTime(e), NEW c \in Context, NEW x, Call(c, x),
         UNCHANGED queue, x.pc \notin {"addReturn", "post"} \/ x.e # e,
         \A t \in Task : disp'[t] = disp[t] \/ disp'[t].pc = "none",
         \A m \in Module : kept'[m][e] > 0 => kept[m][e] > 0
  PROVE  FirstTime(e)'
<1>1. \A t \in Task : Posted(t, e)' => Posted(t, e)
  BY PostedAfter
<1> QED  BY <1>1, NothingNew

(* An event that no task delivers and no module keeps.                     *)
LEMMA NobodyHasIt ==
  ASSUME TypeOK, NEW e \in Event, Delivered(e) = {}, Keeping(e) = {},
         UNCHANGED <<disp, kept>>
  PROVE  FirstTime(e)'
<1>1. \A t \in Task : ~(disp[t].pc # "none" /\ disp[t].e = e)
  BY DEF Delivered
<1>2. ASSUME NEW m \in Module, kept[m][e] > 0 PROVE FALSE
  <2>1. kept[m][e] \in Nat
    BY DEF TypeOK
  <2>2. <<m, 1>> \in {m} \X (1..kept[m][e])
    BY <1>2, <2>1
  <2> QED  BY <2>2 DEF Keeping
<1> QED  BY <1>1, <1>2 DEF FirstTime, ModulesOf

(* Sending finds every copy of the event gone.                             *)
LEMMA SendingFirst ==
  ASSUME TypeOK, CountInv, OnceInv, FirstInv, NEW c \in Context,
         \/ \E e \in Event, resend \in BOOLEAN : ErSendEx(c, e, resend)
         \/ MarkTask(c) \/ AddSubscribers(c) \/ AddReturnTrip(c)
  PROVE  FirstInv'
<1>0. /\ failed = "none" /\ ContextsInv /\ op[c] \in Calls
      /\ UNCHANGED <<queue, disp, kept>>
  BY DEF CountInv, TypeOK, ErSendEx, MarkTask, AddSubscribers, AddReturnTrip, At,
         InClient, Running
<1>1. ASSUME NEW x, Call(c, x), x.pc \notin {"addReturn", "post"} PROVE FirstInv'
  BY <1>0, <1>1, QuietFirst DEF FirstInv
<1>2. ASSUME NEW e0 \in Event, Delivered(e0) = {}, Keeping(e0) = {},
             NEW x, Call(c, x), x.e = e0
      PROVE  FirstInv'
  <2>1. FirstTime(e0)'
    BY <1>0, <1>2, NobodyHasIt
  <2>2. ASSUME NEW e \in Event, e # e0 PROVE FirstTime(e)'
    BY <1>0, <1>2, <2>2, QuietFirst DEF FirstInv
  <2> QED  BY <2>1, <2>2 DEF FirstInv
<1>3. ASSUME NEW e \in Event, NEW resend \in BOOLEAN, ErSendEx(c, e, resend)
      PROVE  FirstInv'
  <2>1. PICK x : x = [pc |-> "mark", e |-> e, i |-> 1, mask |-> {}, resend |-> resend]
    OBVIOUS
  <2>2. Call(c, x) /\ x.pc = "mark"
    BY <1>3, <2>1 DEF ErSendEx
  <2> QED  BY <1>1, <2>2
<1>4. CASE MarkTask(c)
  <2>1. op[c].pc = "mark"
    BY <1>4 DEF MarkTask, At
  <2>2. op[c] \in [pc : {"mark"}, e : Event, i : Task, mask : SUBSET Task, resend : BOOLEAN]
    BY <1>0, <2>1, CallShapes
  <2> DEFINE i == op[c].i
             marked == m_type[op[c].e] \in taskSubscriptions[i]
             x == [op[c] EXCEPT !.mask = IF marked THEN @ \cup {i} ELSE @,
                                !.i = i + 1,
                                !.pc = IF i = NumTasks THEN "add" ELSE @]
  <2>3. Call(c, x)
    BY <1>4 DEF MarkTask
  <2>4. x.pc \in {"mark", "add"}
    BY <2>2
  <2> HIDE DEF x
  <2> QED  BY <1>1, <2>3, <2>4
<1>5. CASE AddSubscribers(c)
  <2>1. op[c].pc = "add"
    BY <1>5 DEF AddSubscribers, At
  <2>2. PICK e0 \in Event, mask \in SUBSET Task : op[c].e = e0 /\ op[c].mask = mask
    BY <1>0, <2>1, CallShapes
  <2>3. op[c].resend = FALSE
    BY <1>0, <2>1 DEF OnceInv, PlainSends
  <2>4. FiniteReferences(e0) /\ Counted(e0) /\ m_reference_count[e0] = 0
    BY <1>0, <2>1, <2>2, <2>3 DEF CountInv, EventInv, StagesInv
  <2>5. Delivered(e0) = {} /\ Keeping(e0) = {}
    BY <2>4, NoReferences
  <2>6. PICK x : x = [pc |-> "addReturn", e |-> e0, mask |-> mask] /\ Call(c, x)
    BY <1>5, <2>2, <2>4 DEF AddSubscribers, AfterCount
  <2>7. x.e = e0
    BY <2>6
  <2> QED  BY <1>2, <2>5, <2>6, <2>7
<1>6. CASE AddReturnTrip(c)
  <2>1. op[c].pc = "addReturn"
    BY <1>6 DEF AddReturnTrip, At
  <2>2. PICK e0 \in Event, mask \in SUBSET Task : op[c].e = e0 /\ op[c].mask = mask
    BY <1>0, <2>1, CallShapes
  <2>3. HalfCounted(e0)
    BY <2>1, <2>2 DEF HalfCounted
  <2>4. Delivered(e0) = {} /\ Keeping(e0) = {}
    BY <1>0, <2>3 DEF CountInv, EventInv, WaitsForOwner
  <2>5. PICK x : /\ x = Posting(e0, IF mask = {} THEN {OwnerTask(e0)} ELSE mask)
                 /\ Call(c, x)
    BY <1>6, <2>2 DEF AddReturnTrip
  <2>6. x.e = e0
    BY <2>5 DEF Posting
  <2> QED  BY <1>2, <2>4, <2>5, <2>6
<1> QED  BY <1>3, <1>4, <1>5, <1>6

(* What is posted was marked.                                              *)
LEMMA PostingFirst ==
  ASSUME TypeOK, FirstInv, NEW c \in Context, SendEvent(c), failed' = "none"
  PROVE  FirstInv'
<1>0. op[c] \in Calls /\ op[c].pc = "post" /\ failed = "none"
  BY DEF TypeOK, SendEvent, At, Running
<1>1. PICK e0 \in Event, mask \in (SUBSET Task) \ {{}} : op[c].e = e0 /\ op[c].mask = mask
  BY <1>0, CallShapes
<1>2. PICK u \in Task : u = Smallest(mask) /\ u \in mask
  BY <1>1, SmallestInMask
<1>3. PICK x : x = Posting(e0, mask \ {u}) /\ Call(c, x)
  BY <1>1, <1>2 DEF SendEvent
<1>4. /\ x.pc \in {"none", "post"} /\ (x.pc = "post" => x.e = e0 /\ x.mask = mask \ {u})
  BY <1>3 DEF Posting, None
<1>5. queue' = [queue EXCEPT ![u] = Append(@, e0)] /\ UNCHANGED <<disp, kept>>
  BY <1>0, <1>1, <1>2 DEF SendEvent, Assert
<1>6. \A d \in Context : op'[d] = IF d = c THEN x ELSE op[d]
  BY <1>3 DEF Call, TypeOK
<1>7. ASSUME NEW t \in Task, NEW e \in Event, Posted(t, e)' PROVE Posted(t, e)
  <2>1. ASSUME NEW d \in Context, op'[d].pc \in {"addReturn", "post"}, op'[d].e = e,
               t \in op'[d].mask
        PROVE  Posted(t, e)
    <3>1. op[d].pc \in {"addReturn", "post"} /\ op[d].e = e /\ t \in op[d].mask
      BY <1>0, <1>1, <1>4, <1>6, <2>1
    <3> QED  BY <3>1 DEF Posted
  <2>2. ASSUME NEW i \in 1..Len(queue'[t]), queue'[t][i] = e PROVE Posted(t, e)
    <3>1. CASE i \in 1..Len(queue[t]) /\ queue[t][i] = e
      BY <3>1 DEF Posted
    <3>2. CASE t = u /\ e = e0
      BY <1>0, <1>1, <1>2, <3>2 DEF Posted
    <3> QED  BY <1>5, <2>2, <3>1, <3>2 DEF TypeOK
  <2> QED  BY <1>7, <2>1, <2>2 DEF Posted
<1> QED  BY <1>5, <1>7, NothingNew DEF FirstInv

(* The copy that a task takes from its queue was the only one for it.       *)
LEMMA ReceivingFirst ==
  ASSUME TypeOK, CountInv, OnceInv, FirstInv, NEW t \in Task, ErReceive(t)
  PROVE  FirstInv'
<1>0. failed = "none" /\ ContextsInv /\ UNCHANGED <<op, kept>> /\ disp[t].pc = "none"
  BY DEF ErReceive, InClient, Running, CountInv
<1>1. PICK e0 \in Event : e0 = Head(queue[t]) /\ queue[t] # <<>> /\ queue[t][1] = e0
  BY DEF ErReceive, TypeOK
<1>2. /\ queue' = [queue EXCEPT ![t] = Tail(@)] /\ Len(queue[t]) <= Capacity
      /\ \A u \in Task : u # t => disp'[u] = disp[u]
  BY <1>0 DEF ErReceive, ContextsInv, TypeOK
<1>3. disp'[t] = [pc |-> "check", e |-> e0]
  BY <1>1 DEF ErReceive, TypeOK
<1>4. /\ Len(queue[t]) \in Nat \ {0} /\ Len(queue'[t]) = Len(queue[t]) - 1
      /\ \A i \in 1..Len(queue'[t]) : queue'[t][i] = queue[t][i + 1]
      /\ \A u \in Task : u # t => queue'[u] = queue[u]
  BY <1>1, <1>2 DEF TypeOK
<1>5. ASSUME NEW u \in Task, NEW e \in Event, Posted(u, e)' PROVE Posted(u, e)
  <2>1. CASE u # t
    BY <1>0, <1>4, <1>5, <2>1 DEF Posted
  <2>2. CASE u = t
    <3>1. ASSUME NEW i \in 1..Len(queue'[t]), queue'[t][i] = e
          PROVE  \E j \in 1..Len(queue[t]) : queue[t][j] = e
      <4>1. i + 1 \in 1..Len(queue[t]) /\ queue[t][i + 1] = e
        BY <1>4, <3>1
      <4> QED  BY <4>1
    <3> QED  BY <1>0, <1>5, <2>2, <3>1 DEF Posted
  <2> QED  BY <2>1, <2>2
<1>6. Posted(t, e0)
  BY <1>1, <1>4 DEF Posted
<1>7. ~Posted(t, e0)'
  <2> SUFFICES ASSUME Posted(t, e0)' PROVE FALSE
    OBVIOUS
  <2>1. OneCopy(e0) /\ Capacity \in Nat
    BY <1>0, BoundsAssumption DEF OnceInv
  <2>2. <<t, 1>> \in Queued(e0)
    BY <1>1, <1>2, <1>4, <2>1 DEF Queued
  <2>3. ASSUME NEW d \in Context, op[d].pc \in {"addReturn", "post"}, op[d].e = e0,
               t \in op[d].mask
        PROVE  FALSE
    <3>1. <<d, t>> \in Marked(e0)
      BY <2>3 DEF Marked
    <3> QED  BY <2>1, <2>2, <3>1 DEF OneCopy
  <2>4. ASSUME NEW i \in 1..Len(queue'[t]), queue'[t][i] = e0 PROVE FALSE
    <3>1. <<t, i + 1>> \in Queued(e0)
      BY <1>2, <1>4, <2>1, <2>4 DEF Queued
    <3>2. <<t, i + 1>> = <<t, 1>>
      BY <2>1, <2>2, <3>1 DEF OneCopy
    <3> QED  BY <2>4, <3>2
  <2> QED  BY <1>0, <2>3, <2>4 DEF Posted
<1>8. ASSUME NEW e \in Event PROVE FirstTime(e)'
  <2>1. ASSUME NEW u \in Task, disp'[u].pc # "none", disp'[u].e = e PROVE ~Posted(u, e)'
    <3>1. CASE u = t
      BY <1>3, <1>7, <2>1, <3>1
    <3>2. CASE u # t
      BY <1>2, <1>5, <2>1, <3>2 DEF FirstInv, FirstTime
    <3> QED  BY <3>1, <3>2
  <2>2. ASSUME NEW u \in Task, NEW m \in ModulesOf(u), kept'[m][e] > 0
        PROVE  /\ ~Posted(u, e)'
               /\ disp'[u].pc # "none" /\ disp'[u].e = e => Past(u, m)'
    <3>1. ~Posted(u, e) /\ (disp[u].pc # "none" /\ disp[u].e = e => Past(u, m))
      BY <1>0, <2>2 DEF FirstInv, FirstTime
    <3>2. CASE u = t
      BY <1>3, <1>5, <1>6, <3>1, <3>2
    <3>3. CASE u # t
      BY <1>2, <1>5, <3>1, <3>3 DEF Past
    <3> QED  BY <3>2, <3>3
  <2> QED  BY <2>1, <2>2 DEF FirstTime, ModulesOf
<1> QED  BY <1>8 DEF FirstInv

(* ErCallHandlers() goes on through its modules; one that it is past may    *)
(* keep the event.                                                         *)
LEMMA GoingOnFirst ==
  ASSUME TypeOK, FirstInv, NEW t \in Task, NEW y, disp[t].pc # "none", y.pc # "none",
         y.e = disp[t].e, disp' = [disp EXCEPT ![t] = y], UNCHANGED <<op, queue>>,
         \A m \in ModulesOf(t) : Past(t, m) => Past(t, m)',
         \A m \in Module, e \in Event : kept'[m][e] > 0 =>
           kept[m][e] > 0 \/ (e = disp[t].e /\ m \in ModulesOf(t) /\ Past(t, m)')
  PROVE  FirstInv'
<1>1. disp'[t] = y /\ \A u \in Task : u # t => disp'[u] = disp[u]
  BY DEF TypeOK
<1>2. \A u \in Task, e \in Event : Posted(u, e)' <=> Posted(u, e)
  BY DEF Posted
<1> SUFFICES ASSUME NEW e \in Event PROVE FirstTime(e)'
  BY DEF FirstInv
<1>3. ASSUME NEW u \in Task, disp'[u].pc # "none", disp'[u].e = e PROVE ~Posted(u, e)'
  <2>1. disp[u].pc # "none" /\ disp[u].e = e
    BY <1>1, <1>3
  <2> QED  BY <1>2, <2>1 DEF FirstInv, FirstTime
<1>4. ASSUME NEW u \in Task, NEW m \in ModulesOf(u), kept'[m][e] > 0
      PROVE  /\ ~Posted(u, e)'
             /\ disp'[u].pc # "none" /\ disp'[u].e = e => Past(u, m)'
  <2>1. CASE kept[m][e] > 0
    <3>1. ~Posted(u, e) /\ (disp[u].pc # "none" /\ disp[u].e = e => Past(u, m))
      BY <2>1 DEF FirstInv, FirstTime
    <3>2. CASE u = t
      BY <1>1, <1>2, <3>1, <3>2
    <3>3. CASE u # t
      BY <1>1, <1>2, <3>1, <3>3 DEF Past
    <3> QED  BY <3>2, <3>3
  <2>2. CASE e = disp[t].e /\ m \in ModulesOf(t) /\ Past(t, m)'
    <3>1. u = t
      BY <2>2 DEF ModulesOf
    <3> QED  BY <1>2, <2>2, <3>1 DEF FirstInv, FirstTime
  <2> QED  BY <1>4, <2>1, <2>2 DEF ModulesOf
<1> QED  BY <1>3, <1>4 DEF FirstTime, ModulesOf

(* Handlers are called, and return, in the order of the task's list.       *)
LEMMA DispatchingFirst ==
  ASSUME TypeOK, BitsAllowed, FirstInv, NEW t \in Task,
         DispatchStep(t) \/ HandlerHandled(t) \/ HandlerKept(t)
  PROVE  FirstInv'
<1>1. /\ UNCHANGED queue /\ disp[t].pc \in {"check", "loop", "handler"} /\ t \in Context
      /\ disp[t] \in Activations
  BY DEF DispatchStep, ErCallHandlers, CallNextHandler, HandlerHandled, HandlerKept,
         Dispatching, Context, TypeOK
<1>2. ASSUME Done(t), UNCHANGED kept PROVE FirstInv'
  <2>1. PICK x : x = [pc |-> "sub", e |-> disp[t].e] /\ Call(t, x)
    BY <1>2 DEF Done
  <2>2. x.pc = "sub"
    BY <2>1
  <2>3. \A u \in Task : disp'[u] = disp[u] \/ disp'[u].pc = "none"
    BY <1>2 DEF Done, None, TypeOK
  <2> QED  BY <1>1, <1>2, <2>1, <2>2, <2>3, QuietFirst DEF FirstInv
<1>3. ASSUME ErCallHandlers(t), ~Done(t) PROVE FirstInv'
  <2>1. PICK y : /\ y = [pc |-> "loop", e |-> disp[t].e, i |-> 0]
                 /\ disp' = [disp EXCEPT ![t] = y]
    BY <1>3 DEF ErCallHandlers
  <2>2. disp[t].pc = "check" /\ UNCHANGED <<op, kept>>
    BY <1>3 DEF ErCallHandlers, Dispatching
  <2>3. \A m \in ModulesOf(t) : ~Past(t, m)
    BY <2>2 DEF Past
  <2>4. y.pc = "loop" /\ y.e = disp[t].e
    BY <2>1
  <2> QED  BY <1>1, <2>1, <2>2, <2>3, <2>4, GoingOnFirst
<1>4. ASSUME CallNextHandler(t), ~Done(t) PROVE FirstInv'
  <2>1. disp[t].pc = "loop" /\ UNCHANGED <<op, kept>>
    BY <1>4 DEF CallNextHandler, Dispatching
  <2>2. PICK m0 \in Receivers(t, disp[t].e, disp[t].i) :
          disp' = [disp EXCEPT ![t] = [pc |-> "handler", e |-> disp[t].e, m |-> m0]]
    BY <1>4 DEF CallNextHandler
  <2>3. PICK y : /\ y = [pc |-> "handler", e |-> disp[t].e, m |-> m0]
                 /\ disp' = [disp EXCEPT ![t] = y]
    BY <2>2
  <2>4. y.pc = "handler" /\ y.e = disp[t].e /\ y.m = m0
    BY <2>3
  <2>5. /\ disp[t].i \in Nat /\ m_module_idx[m0] \in Nat
        /\ m_module_idx[m0] >= disp[t].i
    BY <1>1, <2>1, <2>2, ActivationShapes, ModulesAssumption DEF Receivers, ModulesOf
  <2>6. disp'[t] = y
    BY <2>3 DEF TypeOK
  <2>7. ASSUME NEW m \in ModulesOf(t), Past(t, m) PROVE Past(t, m)'
    <3>1. disp[t].i > m_module_idx[m] /\ m_module_idx[m] \in Nat
      BY <2>1, <2>7, ModulesAssumption DEF Past, ModulesOf
    <3>2. m_module_idx[m0] > m_module_idx[m]
      BY <2>5, <3>1
    <3> QED  BY <2>4, <2>6, <3>2 DEF Past
  <2> QED  BY <1>1, <2>1, <2>3, <2>4, <2>7, GoingOnFirst
<1>5. ASSUME HandlerHandled(t) \/ HandlerKept(t) PROVE FirstInv'
  <2>1. disp[t].pc = "handler" /\ UNCHANGED op
    BY <1>5 DEF HandlerHandled, HandlerKept, Dispatching
  <2>2. PICK e0 \in Event, m0 \in Module :
          e0 = disp[t].e /\ m0 = disp[t].m /\ m_task_idx[m0] = t
    <3>1. disp[t].e \in Event /\ disp[t].m \in Module /\ m_task_idx[disp[t].m] = t
      BY <1>1, <2>1, ActivationShapes DEF BitsAllowed
    <3> QED  BY <3>1
  <2>3. PICK y : /\ y = [pc |-> "loop", e |-> disp[t].e, i |-> m_module_idx[m0] + 1]
                 /\ disp' = [disp EXCEPT ![t] = y]
    BY <1>5, <2>2 DEF HandlerHandled, HandlerKept, Continue
  <2>4. y.pc = "loop" /\ y.e = disp[t].e /\ y.i = m_module_idx[m0] + 1
    BY <2>3
  <2>5. m_module_idx[m0] \in Nat
    BY ModulesAssumption
  <2>6. disp'[t] = y
    BY <2>3 DEF TypeOK
  <2>7. ASSUME NEW m \in ModulesOf(t), Past(t, m) \/ m = m0 PROVE Past(t, m)'
    <3>1. m_module_idx[m0] >= m_module_idx[m] /\ m_module_idx[m] \in Nat
      BY <2>1, <2>2, <2>5, <2>7, ModulesAssumption DEF Past, ModulesOf
    <3>2. m_module_idx[m0] + 1 > m_module_idx[m]
      BY <2>5, <3>1
    <3> QED  BY <2>4, <2>6, <3>2 DEF Past
  <2>8. ASSUME NEW m \in Module, NEW e \in Event, kept'[m][e] > 0
        PROVE  kept[m][e] > 0 \/ (e = disp[t].e /\ m \in ModulesOf(t) /\ Past(t, m)')
    <3>1. kept'[m][e] = kept[m][e] \/ (m = m0 /\ e = e0)
      <4>1. UNCHANGED kept \/ kept' = [kept EXCEPT ![m0][e0] = @ + 1]
        BY <1>5, <2>2 DEF HandlerHandled, HandlerKept
      <4> QED  BY <4>1 DEF TypeOK
    <3>2. m0 \in ModulesOf(t)
      BY <2>2 DEF ModulesOf
    <3> QED  BY <2>2, <2>7, <2>8, <3>1, <3>2
  <2> QED  BY <1>1, <2>1, <2>3, <2>4, <2>7, <2>8, GoingOnFirst
<1>6. CASE ErCallHandlers(t) /\ Done(t)
  BY <1>2, <1>6 DEF ErCallHandlers
<1>7. CASE CallNextHandler(t) /\ Done(t)
  BY <1>2, <1>7 DEF CallNextHandler
<1> QED  BY <1>3, <1>4, <1>5, <1>6, <1>7 DEF DispatchStep

(* The last copy becomes the way back: no task delivers it, nobody keeps it. *)
LEMMA DroppingFirst ==
  ASSUME TypeOK, CountInv, FirstInv, NEW t \in Task, DropReference(t)
  PROVE  FirstInv'
<1>0. /\ failed = "none" /\ op[t] \in Calls /\ t \in Context /\ op[t].pc = "sub"
      /\ UNCHANGED <<queue, disp, kept>>
  BY DEF TypeOK, Context, DropReference, At, Running
<1>1. PICK e0 \in Event, old \in Int : op[t].e = e0 /\ m_reference_count[e0] = old
  BY <1>0, CallShapes DEF TypeOK
<1>2. PICK x : x = AfterDrop(t, e0, old - 1) /\ Call(t, x)
  BY <1>1 DEF DropReference
<1>3. x.e = e0 /\ (x.pc \in {"load", "subOwner"} \/ old = 2)
  BY <1>1, <1>2 DEF AfterDrop, Posting
<1>4. ASSUME NEW e \in Event PROVE FirstTime(e)'
  <2>1. CASE x.pc \in {"load", "subOwner"} \/ e # e0
    BY <1>0, <1>2, <1>3, <2>1, QuietFirst DEF FirstInv
  <2>2. CASE e = e0 /\ old = 2
    <3>1. t \in Returned(e0) /\ EventInv(e0)
      BY <1>0, <1>1 DEF Returned, CountInv
    <3>2. Delivered(e0) = {} /\ Keeping(e0) = {}
      BY <1>1, <2>2, <3>1, ReturnedIsCounted
    <3> QED  BY <1>0, <2>2, <3>2, NobodyHasIt
  <2> QED  BY <1>3, <2>1, <2>2
<1> QED  BY <1>4 DEF FirstInv

(* The other calls of a task post nothing.                                 *)
LEMMA OtherCallsFirst ==
  ASSUME TypeOK, FirstInv, NEW t \in Task,
         \/ DropOwnerReference(t) \/ CheckReturned(t) \/ CallSender(t) \/ SubscribeStep(t)
         \/ \E m \in Module, ty \in Type : ErSubscribe(t, m, ty) \/ ErUnsubscribe(t, m, ty)
         \/ \E m \in Module, e \in Event : ErReturnToSender(t, m, e)
  PROVE  FirstInv'
<1>1. t \in Context /\ UNCHANGED <<queue, disp>>
  BY DEF Context, DropOwnerReference, CheckReturned, CallSender, SubscribeStep,
         SetTaskBit, ClearTaskBit, ErSubscribe, ErUnsubscribe, ErReturnToSender
<1>2. \A m \in Module, e \in Event : kept'[m][e] > 0 => kept[m][e] > 0
  <2>1. CASE UNCHANGED kept
    BY <2>1
  <2>2. CASE \E m \in Module, e \in Event : ErReturnToSender(t, m, e)
    BY <2>2 DEF ErReturnToSender, TypeOK
  <2> QED
    BY <2>1, <2>2 DEF DropOwnerReference, CheckReturned, CallSender, SubscribeStep,
         SetTaskBit, ClearTaskBit, ErSubscribe, ErUnsubscribe
<1>3. PICK x : Call(t, x) /\ x.pc \notin {"addReturn", "post"}
  <2>1. None.pc = "none"
    BY DEF None
  <2>2. CASE CallSender(t) \/ SubscribeStep(t)
    <3>1. Call(t, None)
      BY <2>2 DEF CallSender, SubscribeStep, SetTaskBit, ClearTaskBit
    <3> QED  BY <2>1, <3>1
  <2>3. CASE DropOwnerReference(t) \/ CheckReturned(t)
    <3>1. PICK e : \/ Call(t, None)
                   \/ Call(t, [pc |-> "load", e |-> e]) \/ Call(t, [pc |-> "deliver", e |-> e])
      BY <2>3 DEF DropOwnerReference, CheckReturned
    <3> QED  BY <2>1, <3>1
  <2>4. CASE \E m \in Module, ty \in Type : ErSubscribe(t, m, ty) \/ ErUnsubscribe(t, m, ty)
    <3>1. PICK ty \in Type :
            Call(t, [pc |-> "setTask", ty |-> ty]) \/ Call(t, [pc |-> "clearTask", ty |-> ty])
      BY <2>4 DEF ErSubscribe, ErUnsubscribe
    <3> QED  BY <3>1
  <2>5. CASE \E m \in Module, e \in Event : ErReturnToSender(t, m, e)
    <3>1. PICK e \in Event : Call(t, [pc |-> "sub", e |-> e])
      BY <2>5 DEF ErReturnToSender
    <3> QED  BY <3>1
  <2> QED  BY <2>2, <2>3, <2>4, <2>5
<1> QED  BY <1>1, <1>2, <1>3, QuietFirst DEF FirstInv

(* Every step keeps deliveries apart.                                      *)
LEMMA FirstInvStep ==
  ASSUME TypeOK, CountInv, OnceInv, BitsAllowed, FirstInv, Next, failed' = "none"
  PROVE  FirstInv'
<1>1. ASSUME NEW c \in Context,
             \/ \E e \in Event, resend \in BOOLEAN : ErSendEx(c, e, resend)
             \/ SendStep(c)
      PROVE  FirstInv'
  BY <1>1, SendingFirst, PostingFirst DEF SendStep
<1>2. ASSUME NEW t \in Task, ErReceive(t) PROVE FirstInv'
  BY <1>2, ReceivingFirst
<1>3. ASSUME NEW t \in Task, DispatchStep(t) \/ HandlerHandled(t) \/ HandlerKept(t)
      PROVE  FirstInv'
  BY <1>3, DispatchingFirst
<1>4. ASSUME NEW t \in Task,
             \/ ReturnStep(t) \/ SubscribeStep(t)
             \/ \E m \in Module, ty \in Type :
                  ErSubscribe(t, m, ty) \/ ErUnsubscribe(t, m, ty)
             \/ \E m \in Module, e \in Event : ErReturnToSender(t, m, e)
      PROVE  FirstInv'
  BY <1>4, DroppingFirst, OtherCallsFirst DEF ReturnStep
<1>5. ASSUME ErInit \/ ErDeinit PROVE FirstInv'
  <2>1. \A t \in Task, e \in Event : Posted(t, e)' => Posted(t, e)
    BY <1>5 DEF ErInit, ErDeinit, Posted
  <2>2. UNCHANGED <<disp, kept>>
    BY <1>5 DEF ErInit, ErDeinit
  <2> QED  BY <2>1, <2>2, NothingNew DEF FirstInv
<1> QED
  BY <1>1, <1>2, <1>3, <1>4, <1>5 DEF Next
-----------------------------------------------------------------------------
(* All of it together; AssertInv and OnceInv are those of the modules this  *)
(* one extends.                                                            *)
DeliveryInv == AssertInv /\ OnceInv /\ BitsAllowed /\ EventsInv /\ FirstInv

(* The router keeps it when clients and queues are as the theorems assume.  *)
LEMMA DeliveryInvariant ==
  ASSUME OnlyOwnersSend, NobodyResends, NobodySubscribesToOwn, OneSubscribingTask,
         Blocking \/ SlotForEach
  PROVE  Spec => []DeliveryInv
<1>1. ASSUME Init PROVE DeliveryInv
  <2>1. AssertInv
    BY <1>1, CountInvInit DEF Init, SubscriptionsAllowed, AssertInv
  <2>2. \A c \in Context : op[c].pc = "none"
    BY <1>1 DEF Init, None
  <2>3. \A t \in Task : op[t].pc = "none" /\ disp[t].pc = "none" /\ queue[t] = <<>>
    BY <1>1, <2>2 DEF Init, None, Context
  <2>4. OnceInv
    BY <2>2, <2>3 DEF OnceInv, PlainSends, OneCopy, Marked, Queued
  <2>5. BitsAllowed
    <3>1. \A t \in Task, ty \in Type : op[t] # [pc |-> "setTask", ty |-> ty]
      BY <2>3
    <3> QED  BY <1>1, <2>2, <2>3, <3>1 DEF BitsAllowed, Init
  <2>6. ASSUME NEW t \in Task, NEW e \in Event PROVE ~Holds(t, e)
    <3>1. \A m \in ModulesOf(t) : kept[m][e] = 0
      BY <1>1 DEF Init, ModulesOf
    <3> QED  BY <2>2, <2>3, <3>1 DEF Holds
  <2>7. EventsInv
    BY <1>1, <2>2, <2>3, <2>6 DEF EventsInv, Away, Returning, HandedBack, Init
  <2>8. FirstInv
    BY <1>1, <2>3 DEF FirstInv, FirstTime, ModulesOf, Init
  <2> QED  BY <2>1, <2>4, <2>5, <2>7, <2>8 DEF DeliveryInv
<1>2. ASSUME TypeOK, DeliveryInv, [Next]_vars PROVE DeliveryInv'
  <2> USE DEF DeliveryInv
  <2>1. CountInv /\ failed = "none"
    BY <1>2 DEF AssertInv
  <2>2. ASSUME NEW c \in Context, SendEvent(c) PROVE failed' = "none"
    <3>1. CASE Blocking
      BY <2>1, <2>2, <3>1 DEF SendEvent, Assert
    <3>2. CASE SlotForEach
      <4>1. op[c].pc = "post"
        BY <2>2 DEF SendEvent, At
      <4>2. Len(queue[Smallest(op[c].mask)]) < Capacity
        BY <1>2, <2>1, <3>2, <4>1, RoomToPost
      <4> QED  BY <2>1, <2>2, <4>2 DEF SendEvent, Assert
    <3> QED  BY <3>1, <3>2
  <2>3. AssertInv'
    BY <1>2, <2>2, AssertInvStep
  <2>4. OnceInv'
    BY <1>2, <2>1, OnceInvStep
  <2>5. CASE Next
    <3>1. failed' = "none"
      BY <2>3 DEF AssertInv
    <3> QED  BY <1>2, <2>1, <2>3, <2>4, <2>5, <3>1, BitsAllowedStep, EventsInvStep,
                FirstInvStep
  <2>6. CASE UNCHANGED vars
    <3>1. \A t \in Task, e \in Event : Holds(t, e)' => Holds(t, e)
      BY <2>6 DEF vars, Holds, ModulesOf
    <3>2. EventsInv'
      BY <1>2, <2>6, <3>1, RestKeeps DEF vars, history
    <3>3. BitsAllowed'
      BY <1>2, <2>6 DEF vars, subscriptions, BitsAllowed, ModulesOf, MayReceive
    <3>4. \A t \in Task, e \in Event : Posted(t, e)' => Posted(t, e)
      BY <2>6 DEF vars, Posted
    <3>5. FirstInv'
      BY <1>2, <2>6, <3>4, NothingNew DEF vars, FirstInv
    <3> QED  BY <2>3, <2>4, <3>2, <3>3, <3>5
  <2> QED  BY <1>2, <2>5, <2>6
<1> QED  BY <1>1, <1>2, Typing, PTL DEF Spec

(* An event is handed back once for each send, in its owner's task and with *)
(* no reference left anywhere, when its subscribers are in one task, only   *)
(* its owner's task sends it, and nobody re-sends it; either queues block,  *)
(* or they have a slot for each event.                                     *)
THEOREM HandedBackOnce ==
  ASSUME OnlyOwnersSend, NobodyResends, NobodySubscribesToOwn, OneSubscribingTask,
         Blocking \/ SlotForEach
  PROVE  Spec => [](OwnerHasExclusiveUse /\ ReturnedExactlyOnce)
<1>1. ASSUME TypeOK, DeliveryInv PROVE OwnerHasExclusiveUse
  <2>1. ASSUME NEW e \in Event, e \notin inFlight PROVE References(e) = 0
    <3>1. m_reference_count[e] = 0 /\ FiniteReferences(e) /\ Counted(e)
      BY <1>1, <2>1 DEF DeliveryInv, AssertInv, CountInv, EventInv, EventsInv, HandedBack
    <3>2. /\ Marked(e) = {} /\ Queued(e) = {} /\ Delivered(e) = {} /\ Returned(e) = {}
          /\ Keeping(e) = {}
      BY <1>1, <3>1, NoReferences
    <3> QED  BY <3>2, FS_EmptySet DEF References
  <2> QED  BY <2>1 DEF OwnerHasExclusiveUse
<1>2. ASSUME TypeOK, DeliveryInv PROVE ReturnedExactlyOnce
  <2>1. ASSUME NEW t \in Task, op[t].pc = "deliver"
        PROVE  op[t].e \in inFlight /\ t = OwnerTask(op[t].e)
    <3>1. op[t] \in Calls
      BY <1>2 DEF TypeOK, Context
    <3>2. op[t].e \in Event
      BY <2>1, <3>1, CallShapes
    <3> QED  BY <1>2, <2>1, <3>2 DEF DeliveryInv, EventsInv, Returning, HandedBack
  <2> QED  BY <2>1 DEF ReturnedExactlyOnce
<1> QED  BY <1>1, <1>2, DeliveryInvariant, Typing, PTL

(* So an event that was handed back is its owner's alone: no queue, no task *)
(* and no module has a reference to it until it is sent again.             *)
THEOREM ExclusiveUse ==
  ASSUME OnlyOwnersSend, NobodyResends, NobodySubscribesToOwn, OneSubscribingTask,
         Blocking \/ SlotForEach
  PROVE  Spec => []OwnerHasExclusiveUse
BY HandedBackOnce, PTL
-----------------------------------------------------------------------------
(* A step that no module notices.                                          *)
LEMMA NobodyNotices ==
  ASSUME UNCHANGED <<kept, inFlight>>,
         \A t \in Task : disp'[t] = disp[t]
                         \/ (disp[t].pc # "handler" /\ disp'[t].pc # "handler")
  PROVE  UNCHANGED Lifecycle!vars
<1>1. ASSUME NEW t \in Task, NEW e \in Event, NEW m \in Module
      PROVE  disp'[t] = [pc |-> "handler", e |-> e, m |-> m]
               <=> disp[t] = [pc |-> "handler", e |-> e, m |-> m]
  OBVIOUS
<1>2. UNCHANGED holders
  BY <1>1 DEF holders
<1> QED  BY <1>2 DEF Lifecycle!vars

(* Who holds an event, before and after a step of one task's delivery.      *)
LEMMA HoldersAfter ==
  ASSUME TypeOK, NEW t \in Task, NEW e0 \in Event, NEW m0 \in Module,
         \A u \in Task : u # t => disp'[u] = disp[u],
         \A m \in Module, e \in Event : m # m0 \/ e # e0 =>
           /\ kept'[m][e] = kept[m][e]
           /\ disp'[t] = [pc |-> "handler", e |-> e, m |-> m]
                <=> disp[t] = [pc |-> "handler", e |-> e, m |-> m]
  PROVE  /\ holders' \in [Event -> SUBSET Module] /\ holders \in [Event -> SUBSET Module]
         /\ \A e \in Event : e # e0 => holders'[e] = holders[e]
         /\ \A m \in Module : m # m0 => (m \in holders'[e0] <=> m \in holders[e0])
<1>1. holders' \in [Event -> SUBSET Module] /\ holders \in [Event -> SUBSET Module]
  BY DEF holders
<1>2. ASSUME NEW e \in Event, NEW m \in Module, m # m0 \/ e # e0
      PROVE  m \in holders'[e] <=> m \in holders[e]
  <2>1. ASSUME NEW u \in Task
        PROVE  disp'[u] = [pc |-> "handler", e |-> e, m |-> m]
                 <=> disp[u] = [pc |-> "handler", e |-> e, m |-> m]
    BY <1>2
  <2>2. kept'[m][e] = kept[m][e]
    BY <1>2
  <2> QED  BY <2>1, <2>2 DEF holders
<1>3. ASSUME NEW e \in Event, e # e0 PROVE holders'[e] = holders[e]
  BY <1>1, <1>2, <1>3
<1> QED  BY <1>1, <1>2, <1>3

(* A module that gives up one use of an event releases it, or still has     *)
(* another.                                                                *)
LEMMA GivingUpReleases ==
  ASSUME TypeOK, NEW t \in Task, NEW e0 \in Event, NEW m0 \in Module,
         m0 \in holders[e0], UNCHANGED inFlight,
         \A u \in Task : u # t => disp'[u] = disp[u],
         \A m \in Module, e \in Event : m # m0 \/ e # e0 =>
           /\ kept'[m][e] = kept[m][e]
           /\ disp'[t] = [pc |-> "handler", e |-> e, m |-> m]
                <=> disp[t] = [pc |-> "handler", e |-> e, m |-> m]
  PROVE  [Lifecycle!Next]_(Lifecycle!vars)
<1>1. /\ holders' \in [Event -> SUBSET Module] /\ holders \in [Event -> SUBSET Module]
      /\ \A e \in Event : e # e0 => holders'[e] = holders[e]
      /\ \A m \in Module : m # m0 => (m \in holders'[e0] <=> m \in holders[e0])
  BY HoldersAfter
<1>2. CASE m0 \in holders'[e0]
  <2>1. holders'[e0] = holders[e0]
    BY <1>1, <1>2
  <2>2. \A e \in Event : holders'[e] = holders[e]
    BY <1>1, <2>1
  <2>3. holders' = holders
    BY <1>1, <2>2
  <2> QED  BY <2>3 DEF Lifecycle!vars
<1>3. CASE m0 \notin holders'[e0]
  <2>1. holders'[e0] = holders[e0] \ {m0}
    BY <1>1, <1>3
  <2>2. holders' = [holders EXCEPT ![e0] = @ \ {m0}]
    BY <1>1, <2>1
  <2>3. Lifecycle!Release(e0, m0)
    BY <2>2 DEF Lifecycle!Release
  <2> QED  BY <2>3 DEF Lifecycle!Next
<1> QED  BY <1>2, <1>3

(* A handler that is called gets an event in flight that the module has not *)
(* got yet.                                                                *)
LEMMA CallingDelivers ==
  ASSUME NobodySubscribesToOwn, TypeOK, AssertInv, BitsAllowed, EventsInv, FirstInv,
         NEW t \in Task, CallNextHandler(t)
  PROVE  [Lifecycle!Next]_(Lifecycle!vars)
<1>0. /\ disp[t].pc = "loop" /\ UNCHANGED <<kept, inFlight>> /\ disp[t] \in Activations
      /\ failed = "none"
  BY DEF CallNextHandler, Dispatching, Running, TypeOK
<1>1. PICK e0 \in Event, i \in Nat : disp[t].e = e0 /\ disp[t].i = i
  BY <1>0, ActivationShapes
<1>2. CASE Done(t)
  <2>1. \A u \in Task : disp'[u] = disp[u]
                        \/ (disp[u].pc # "handler" /\ disp'[u].pc # "handler")
    BY <1>0, <1>2 DEF Done, None, TypeOK
  <2> QED  BY <1>0, <2>1, NobodyNotices
<1>3. CASE ~Done(t)
  <2>1. PICK m0 \in Receivers(t, e0, i) :
          disp' = [disp EXCEPT ![t] = [pc |-> "handler", e |-> e0, m |-> m0]]
    BY <1>1, <1>3 DEF CallNextHandler
  <2>2. /\ m0 \in Module /\ m_task_idx[m0] = t /\ m_module_idx[m0] >= i
        /\ Subscribed(m0, e0)
    BY <2>1 DEF Receivers, ModulesOf
  <2>3. e0 \in inFlight
    <3>1. t \in InHandlers(e0)
      BY <1>0, <1>1 DEF InHandlers
    <3>2. m_reference_count[e0] > 1
      BY <1>0, <3>1 DEF AssertInv, CountInv, EventInv
    <3> QED  BY <3>2 DEF EventsInv, HandedBack
  <2>4. m0 # m_sending_module[e0]
    BY <2>2 DEF AssertInv, SubscriptionsAllowed, NobodySubscribesToOwn, Subscribed
  <2>5. m0 \notin holders[e0]
    <3>1. ~(kept[m0][e0] > 0)
      <4>1. ~Past(t, m0)
        BY <1>0, <1>1, <2>2, ModulesAssumption DEF Past
      <4> QED  BY <1>0, <1>1, <2>2, <4>1 DEF FirstInv, FirstTime, ModulesOf
    <3>2. ASSUME NEW u \in Task, disp[u] = [pc |-> "handler", e |-> e0, m |-> m0]
          PROVE  FALSE
      <4>1. disp[u].pc = "handler" /\ disp[u].m = m0
        BY <3>2
      <4>2. u = t
        BY <2>2, <4>1 DEF BitsAllowed
      <4> QED  BY <1>0, <4>1, <4>2
    <3> QED  BY <3>1, <3>2 DEF holders
  <2>6. disp'[t] = [pc |-> "handler", e |-> e0, m |-> m0]
    BY <2>1 DEF TypeOK
  <2>7. \A m \in Module, e \in Event : m # m0 \/ e # e0 =>
          /\ kept'[m][e] = kept[m][e]
          /\ disp'[t] = [pc |-> "handler", e |-> e, m |-> m]
               <=> disp[t] = [pc |-> "handler", e |-> e, m |-> m]
    BY <1>0, <2>6
  <2>13. \A u \in Task : u # t => disp'[u] = disp[u]
    BY <2>1 DEF TypeOK
  <2>14. m0 \in Module
    BY <2>2
  <2>8. /\ holders' \in [Event -> SUBSET Module] /\ holders \in [Event -> SUBSET Module]
        /\ \A e \in Event : e # e0 => holders'[e] = holders[e]
        /\ \A m \in Module : m # m0 => (m \in holders'[e0] <=> m \in holders[e0])
    BY <2>7, <2>13, <2>14, HoldersAfter
  <2>9. m0 \in holders'[e0]
    BY <2>2, <2>6 DEF holders
  <2>10. holders'[e0] = holders[e0] \cup {m0}
    BY <2>2, <2>8, <2>9
  <2>11. holders' = [holders EXCEPT ![e0] = @ \cup {m0}]
    BY <2>8, <2>10
  <2>12. Lifecycle!Deliver(e0, m0)
    BY <1>0, <2>3, <2>4, <2>5, <2>11 DEF Lifecycle!Deliver
  <2> QED  BY <2>2, <2>12 DEF Lifecycle!Next
<1> QED  BY <1>2, <1>3

(* A handler that returns releases the event, or the module keeps it.       *)
LEMMA HandlerReleases ==
  ASSUME TypeOK, NEW t \in Task, HandlerHandled(t) \/ HandlerKept(t)
  PROVE  [Lifecycle!Next]_(Lifecycle!vars)
<1>1. /\ disp[t].pc = "handler" /\ disp[t] \in Activations /\ UNCHANGED inFlight
  BY DEF HandlerHandled, HandlerKept, Dispatching, TypeOK, history
<1>2. PICK e0 \in Event, m0 \in Module : disp[t] = [pc |-> "handler", e |-> e0, m |-> m0]
  <2>1. disp[t] \in [pc : {"handler"}, e : Event, m : Module]
    BY <1>1, ActivationShapes
  <2> QED  BY <2>1
<1>3. /\ \A u \in Task : u # t => disp'[u] = disp[u]
      /\ disp'[t] = [pc |-> "loop", e |-> disp[t].e, i |-> m_module_idx[disp[t].m] + 1]
  BY DEF HandlerHandled, HandlerKept, Continue, TypeOK
<1>4. disp'[t].pc = "loop"
  BY <1>3
<1>5. disp[t].e = e0 /\ disp[t].m = m0
  BY <1>2
<1>6. UNCHANGED kept \/ kept' = [kept EXCEPT ![m0][e0] = @ + 1]
  BY <1>5 DEF HandlerHandled, HandlerKept
<1>7. ASSUME NEW m \in Module, NEW e \in Event, m # m0 \/ e # e0
      PROVE  /\ kept'[m][e] = kept[m][e]
             /\ disp'[t] = [pc |-> "handler", e |-> e, m |-> m]
                  <=> disp[t] = [pc |-> "handler", e |-> e, m |-> m]
  <2>1. kept'[m][e] = kept[m][e]
    BY <1>6, <1>7 DEF TypeOK
  <2>2. disp[t] # [pc |-> "handler", e |-> e, m |-> m]
    BY <1>5, <1>7
  <2>3. disp'[t] # [pc |-> "handler", e |-> e, m |-> m]
    BY <1>4
  <2> QED  BY <2>1, <2>2, <2>3
<1>8. m0 \in holders[e0]
  BY <1>2 DEF holders
<1> QED  BY <1>1, <1>3, <1>7, <1>8, GivingUpReleases

(* A module gives back what it kept.                                       *)
LEMMA GivingBackReleases ==
  ASSUME TypeOK, NEW t \in Task, NEW m0 \in Module, NEW e0 \in Event,
         ErReturnToSender(t, m0, e0)
  PROVE  [Lifecycle!Next]_(Lifecycle!vars)
<1>1. /\ kept[m0][e0] > 0 /\ kept' = [kept EXCEPT ![m0][e0] = @ - 1]
      /\ UNCHANGED <<disp, inFlight>>
  BY DEF ErReturnToSender, history
<1>2. m0 \in holders[e0]
  BY <1>1 DEF holders
<1>3. \A m \in Module, e \in Event : m # m0 \/ e # e0 => kept'[m][e] = kept[m][e]
  BY <1>1 DEF TypeOK
<1> QED  BY <1>1, <1>2, <1>3, GivingUpReleases

(* The sender's handler gets an event that nobody holds.                   *)
LEMMA HandingBackReturns ==
  ASSUME TypeOK, CountInv, EventsInv, NEW t \in Task, CallSender(t)
  PROVE  Lifecycle!Next
<1>1. /\ op[t] \in Calls /\ op[t].pc = "deliver" /\ failed = "none"
      /\ UNCHANGED <<disp, kept>>
  BY DEF TypeOK, Context, CallSender, At, Running
<1>2. PICK e0 \in Event : op[t].e = e0
  BY <1>1, CallShapes
<1>3. e0 \in inFlight /\ m_reference_count[e0] = 0
  BY <1>1, <1>2 DEF EventsInv, Returning, HandedBack
<1>4. Delivered(e0) = {} /\ Keeping(e0) = {}
  BY <1>1, <1>3, NoReferences DEF CountInv, EventInv
<1>5. ASSUME NEW m \in Module, m \in holders[e0] PROVE FALSE
  <2>1. CASE kept[m][e0] > 0
    <3>1. kept[m][e0] \in Nat
      BY DEF TypeOK
    <3>2. <<m, 1>> \in {m} \X (1..kept[m][e0])
      BY <2>1, <3>1
    <3> QED  BY <1>4, <3>2 DEF Keeping
  <2>2. ASSUME NEW u \in Task, disp[u] = [pc |-> "handler", e |-> e0, m |-> m]
        PROVE  FALSE
    <3>1. disp[u].pc = "handler" /\ disp[u].e = e0
      BY <2>2
    <3> QED  BY <1>4, <3>1 DEF Delivered
  <2> QED  BY <1>5, <2>1, <2>2 DEF holders
<1>6. holders[e0] = {}
  BY <1>5 DEF holders
<1>7. UNCHANGED holders
  BY <1>1 DEF holders
<1>8. Lifecycle!Return(e0)
  BY <1>2, <1>3, <1>6, <1>7 DEF CallSender, Lifecycle!Return
<1> QED  BY <1>8 DEF Lifecycle!Next

(* Every step of the router is one of the lifecycle, or changes nothing.    *)
LEMMA StepSimulated ==
  ASSUME NobodyResends, NobodySubscribesToOwn, TypeOK, DeliveryInv, [Next]_vars,
         \A c \in Context, e \in Event : ErSendEx(c, e, FALSE) => e \notin inFlight
  PROVE  [Lifecycle!Next]_(Lifecycle!vars)
<1> USE DEF DeliveryInv
<1>1. ASSUME NEW c \in Context, NEW e \in Event, NEW resend \in BOOLEAN,
             ErSendEx(c, e, resend)
      PROVE  [Lifecycle!Next]_(Lifecycle!vars)
  <2>1. resend = FALSE
    BY <1>1 DEF ErSendEx, NobodyResends
  <2>2. e \notin inFlight
    BY <1>1, <2>1
  <2>3. UNCHANGED holders /\ inFlight' = inFlight \cup {e}
    BY <1>1 DEF ErSendEx, holders
  <2>4. Lifecycle!Send(e)
    BY <2>2, <2>3 DEF Lifecycle!Send
  <2> QED  BY <2>4 DEF Lifecycle!Next
<1>2. ASSUME UNCHANGED <<disp, kept, inFlight>> PROVE UNCHANGED Lifecycle!vars
  BY <1>2, NobodyNotices
<1>3. ASSUME NEW c \in Context, SendStep(c) PROVE UNCHANGED Lifecycle!vars
  BY <1>2, <1>3 DEF SendStep, MarkTask, AddSubscribers, AddReturnTrip, SendEvent, history
<1>4. ASSUME NEW t \in Task, ErReceive(t) \/ ErCallHandlers(t)
      PROVE  UNCHANGED Lifecycle!vars
  <2>1. UNCHANGED <<kept, inFlight>> /\ disp[t].pc \in {"none", "check"}
    BY <1>4 DEF ErReceive, ErCallHandlers, Dispatching, history
  <2>2. /\ \A u \in Task : u # t => disp'[u] = disp[u]
        /\ disp'[t].pc \in {"none", "check", "loop"}
    BY <1>4 DEF ErReceive, ErCallHandlers, Done, None, TypeOK
  <2> QED  BY <2>1, <2>2, NobodyNotices
<1>5. ASSUME NEW t \in Task, CallNextHandler(t)
      PROVE  [Lifecycle!Next]_(Lifecycle!vars)
  BY <1>5, CallingDelivers
<1>6. ASSUME NEW t \in Task, HandlerHandled(t) \/ HandlerKept(t)
      PROVE  [Lifecycle!Next]_(Lifecycle!vars)
  BY <1>6, HandlerReleases
<1>7. ASSUME NEW t \in Task, CallSender(t) PROVE Lifecycle!Next
  BY <1>7, HandingBackReturns DEF AssertInv
<1>8. ASSUME NEW t \in Task,
             DropReference(t) \/ DropOwnerReference(t) \/ CheckReturned(t)
      PROVE  UNCHANGED Lifecycle!vars
  BY <1>2, <1>8 DEF DropReference, DropOwnerReference, CheckReturned, history
<1>9. ASSUME NEW t \in Task,
             \/ SubscribeStep(t)
             \/ \E m \in Module, ty \in Type :
                  ErSubscribe(t, m, ty) \/ ErUnsubscribe(t, m, ty)
      PROVE  UNCHANGED Lifecycle!vars
  BY <1>2, <1>9 DEF SubscribeStep, SetTaskBit, ClearTaskBit, ErSubscribe, ErUnsubscribe,
                    history
<1>10. ASSUME NEW t \in Task, NEW m \in Module, NEW e \in Event, ErReturnToSender(t, m, e)
       PROVE  [Lifecycle!Next]_(Lifecycle!vars)
  BY <1>10, GivingBackReleases
<1>11. ASSUME ErInit \/ ErDeinit \/ UNCHANGED vars PROVE UNCHANGED Lifecycle!vars
  BY <1>2, <1>11 DEF ErInit, ErDeinit, vars, history
<1> QED
  BY <1>1, <1>3, <1>4, <1>5, <1>6, <1>7, <1>8, <1>9, <1>10, <1>11
  DEF Next, DispatchStep, ReturnStep

(* The router implements the documented lifecycle: an idle event is sent,   *)
(* handlers of subscribed modules that are not its owner get it, each once, *)
(* some keep it, and its owner gets it back when nobody holds it any more.  *)
THEOREM ImplementsLifecycle ==
  ASSUME OnlyOwnersSend, NobodyResends, NobodySubscribesToOwn, OneSubscribingTask,
         Blocking \/ SlotForEach
  PROVE  Spec => LifecycleSpec
<1>1. Init => Lifecycle!Init
  <2> SUFFICES ASSUME Init PROVE Lifecycle!Init
    OBVIOUS
  <2>1. ASSUME NEW e \in Event, NEW m \in Module
        PROVE  /\ ~(kept[m][e] > 0)
               /\ \A t \in Task : disp[t] # [pc |-> "handler", e |-> e, m |-> m]
    <3>1. kept[m][e] = 0 /\ \A t \in Task : disp[t].pc = "none"
      BY DEF Init, None
    <3> QED  BY <3>1
  <2>2. holders = [e \in Event |-> {}]
    BY <2>1 DEF holders
  <2> QED  BY <2>2 DEF Init, Lifecycle!Init
<1> DEFINE Idle == \A c \in Context, e \in Event : ErSendEx(c, e, FALSE) => e \notin inFlight
<1>2. ASSUME TypeOK, DeliveryInv, [Next]_vars, [Idle]_vars
      PROVE  [Lifecycle!Next]_(Lifecycle!vars)
  <2>1. CASE Idle
    BY <1>2, <2>1, StepSimulated
  <2>2. CASE UNCHANGED vars
    <3>1. UNCHANGED Lifecycle!vars
      BY <2>2, NobodyNotices DEF vars, history
    <3> QED  BY <3>1
  <2> QED  BY <1>2, <2>1, <2>2
<1>3. Spec => [][Idle]_vars
  BY IdleWhenSent DEF SentOnlyWhenReturned
<1> HIDE DEF Idle
<1> QED
  BY <1>1, <1>2, <1>3, DeliveryInvariant, Typing, PTL DEF Spec, LifecycleSpec, Lifecycle!Spec
-----------------------------------------------------------------------------
Sending == {"mark", "add", "addReturn"}

(* The tasks a call has found to be subscribed to e, and has yet to post to.*)
Marks(x, e) == IF x.pc \in Sending \cup {"post"} /\ x.e = e THEN x.mask ELSE {}

(* A copy of e will come to the task.                                      *)
Arriving(t, e) ==
  \/ \E c \in Context : t \in Marks(op[c], e)
  \/ \E i \in 1..Len(queue[t]) : queue[t][i] = e

(* ErCallHandlers() has the module's handler before it.                    *)
ToCall(t, m, e) ==
  /\ disp[t].pc # "none" /\ disp[t].e = e
  /\ disp[t].pc = "loop" => disp[t].i <= m_module_idx[m]
  /\ disp[t].pc = "handler" => m_module_idx[disp[t].m] < m_module_idx[m]

Coming(m, e) == Arriving(m_task_idx[m], e) \/ ToCall(m_task_idx[m], m, e)

(* Copies of e are not taken for one on its way back.                      *)
Due(e) == m_reference_count[e] > 1 \/ BeingSent(e)

(* What a module is owed is one delivery, which is coming.                 *)
Owed(e) ==
  \A m \in Module : owed[e][m] > 0 =>
    owed[e][m] = 1 /\ Subscribed(m, e) /\ Coming(m, e) /\ Due(e)

Quiet ==
  /\ \A c \in Context : op[c].pc = "none"
  /\ \A t \in Task : disp[t].pc = "none" /\ queue[t] = <<>>

OwedInv ==
  /\ ~m_initialized => Quiet
  /\ \A c \in Context : op[c].pc = "mark" => op[c].mask \subseteq 1..(op[c].i - 1)
  /\ \A e \in Event : Owed(e)
-----------------------------------------------------------------------------
(* What is owed of e stays owed, or is owed no more.                       *)
LEMMA OwedKept ==
  ASSUME NEW e \in Event, Owed(e), Due(e) => Due(e)' \/ \A m \in Module : ~Coming(m, e),
         \A m \in Module : owed'[e][m] > 0 =>
           /\ owed'[e][m] = owed[e][m]
           /\ Subscribed(m, e) => Subscribed(m, e)'
           /\ Coming(m, e) => Coming(m, e)'
  PROVE  Owed(e)'
<1> SUFFICES ASSUME NEW m \in Module, owed'[e][m] > 0
             PROVE  owed'[e][m] = 1 /\ Subscribed(m, e)' /\ Coming(m, e)' /\ Due(e)'
  BY DEF Owed
<1>1. owed[e][m] = 1 /\ Subscribed(m, e) /\ Coming(m, e) /\ Due(e)
  BY DEF Owed
<1> QED  BY <1>1

(* Nothing comes of an event without references that no send marks tasks for.*)
LEMMA NothingComes ==
  ASSUME TypeOK, ContextsInv, NEW e \in Event,
         Marked(e) = {}, Queued(e) = {}, Delivered(e) = {},
         \A c \in Context : op[c].pc \in Sending /\ op[c].e = e => op[c].mask = {}
  PROVE  \A m \in Module : ~Coming(m, e)
<1> SUFFICES ASSUME NEW m \in Module, Coming(m, e) PROVE FALSE
  OBVIOUS
<1>1. PICK t \in Task : t = m_task_idx[m]
  BY ModulesAssumption
<1>2. CASE Arriving(t, e)
  <2>1. ASSUME NEW c \in Context, t \in Marks(op[c], e) PROVE FALSE
    <3>1. op[c].pc = "post" /\ op[c].e = e /\ t \in op[c].mask
      BY <2>1 DEF Marks
    <3>2. <<c, t>> \in Marked(e)
      BY <3>1 DEF Marked
    <3> QED  BY <3>2
  <2>2. ASSUME NEW i \in 1..Len(queue[t]), queue[t][i] = e PROVE FALSE
    <3>1. i \in 1..Capacity
      BY BoundsAssumption DEF ContextsInv, TypeOK
    <3>2. <<t, i>> \in Queued(e)
      BY <2>2, <3>1 DEF Queued
    <3> QED  BY <3>2
  <2> QED  BY <1>2, <2>1, <2>2 DEF Arriving
<1>3. CASE ToCall(t, m, e)
  <2>1. t \in Delivered(e)
    BY <1>3 DEF ToCall, Delivered
  <2> QED  BY <2>1
<1> QED  BY <1>1, <1>2, <1>3 DEF Coming

(* An event that is being sent counts 0, until its way back is to be added. *)
LEMMA CountedWhileSent ==
  ASSUME ContextsInv, PlainSends, NEW e \in Event, EventInv(e), ~HalfCounted(e),
         m_reference_count[e] # 0
  PROVE  ~BeingSent(e)
<1>1. ASSUME NEW c \in Context, op[c].pc \in {"mark", "add"}, op[c].e = e PROVE FALSE
  <2>1. op[c].resend = FALSE
    BY <1>1 DEF PlainSends
  <2> QED  BY <1>1, <2>1 DEF EventInv, StagesInv
<1> QED  BY <1>1 DEF BeingSent, HalfCounted

(* Only a router that is initialized is in a call or delivers anything.     *)
LEMMA InitializedInCalls ==
  ASSUME OwedInv,
         \/ \E c \in Context : op[c].pc # "none"
         \/ \E t \in Task : disp[t].pc # "none"
  PROVE  m_initialized
  BY DEF OwedInv, Quiet

(* A context goes on with its call: the event it sends stays due.           *)
LEMMA StaysDue ==
  ASSUME TypeOK, NEW c \in Context, NEW x, Call(c, x), NEW e \in Event,
         op[c].pc \in Sending /\ op[c].e = e => x.pc \in Sending /\ x.e = e,
         m_reference_count[e] > 1 => m_reference_count'[e] > 1
  PROVE  Due(e) => Due(e)'
<1>1. \A d \in Context : op'[d] = IF d = c THEN x ELSE op[d]
  BY DEF Call, TypeOK
<1>2. BeingSent(e) => BeingSent(e)'
  BY <1>1 DEF BeingSent, Sending
<1> QED  BY <1>2 DEF Due

(* A copy that a call has marked a task for will come.                      *)
LEMMA ArrivesMarked ==
  ASSUME NEW t \in Task, NEW e \in Event, \E c \in Context : t \in Marks(op'[c], e)
  PROVE  Arriving(t, e)'
<1>1. \A c \in Context : Marks(op[c], e)' = Marks(op'[c], e)
  BY DEF Marks, Sending
<1> QED  BY <1>1 DEF Arriving

(* A context goes on with its call: a copy that it posts to still comes.    *)
LEMMA ComesOn ==
  ASSUME TypeOK, NEW c \in Context, NEW x, Call(c, x), NEW e \in Event, NEW m \in Module,
         Marks(op[c], e) \subseteq Marks(x, e), UNCHANGED <<queue, disp>>, Coming(m, e)
  PROVE  Coming(m, e)'
<1>1. \A d \in Context : op'[d] = IF d = c THEN x ELSE op[d]
  BY DEF Call, TypeOK
<1>2. \A d \in Context : Marks(op[d], e) \subseteq Marks(op'[d], e)
  BY <1>1
<1>3. PICK t \in Task : t = m_task_idx[m]
  BY ModulesAssumption
<1>4. ASSUME NEW d \in Context, t \in Marks(op[d], e) PROVE Arriving(t, e)'
  BY <1>2, <1>4, ArrivesMarked
<1>5. Arriving(t, e) => Arriving(t, e)'
  <2>1. ASSUME NEW i \in 1..Len(queue[t]), queue[t][i] = e PROVE Arriving(t, e)'
    BY <2>1 DEF Arriving
  <2> QED  BY <1>4, <2>1 DEF Arriving
<1>6. ToCall(t, m, e) => ToCall(t, m, e)'
  BY DEF ToCall
<1> QED  BY <1>3, <1>5, <1>6 DEF Coming

(* A context goes on with its call and unmarks no task.                    *)
LEMMA OwedInCalls ==
  ASSUME TypeOK, OwedInv, m_initialized, UNCHANGED <<m_initialized, queue, disp>>,
         NEW c \in Context, NEW x, Call(c, x),
         x.pc = "mark" => x.mask \subseteq 1..(x.i - 1),
         \A e \in Event :
           /\ Marks(op[c], e) \subseteq Marks(x, e)
           /\ Due(e) => Due(e)' \/ \A m \in Module : ~Coming(m, e)
           /\ \A m \in Module : owed'[e][m] > 0 =>
                owed'[e][m] = owed[e][m] /\ (Subscribed(m, e) => Subscribed(m, e)')
  PROVE  OwedInv'
<1>1. \A d \in Context : op'[d] = IF d = c THEN x ELSE op[d]
  BY DEF Call, TypeOK
<1>2. ASSUME NEW e \in Event PROVE Owed(e)'
  <2>1. ASSUME NEW m \in Module, Coming(m, e) PROVE Coming(m, e)'
    BY <2>1, ComesOn
  <2>2. Owed(e)
    BY DEF OwedInv
  <2> QED  BY <2>1, <2>2, OwedKept
<1>3. \A d \in Context : op'[d].pc = "mark" => op'[d].mask \subseteq 1..(op'[d].i - 1)
  BY <1>1 DEF OwedInv
<1> QED  BY <1>2, <1>3 DEF OwedInv

(* The start of a send, and the rest of a call that no task is marked by.   *)
LEMMA OtherCallsOwed ==
  ASSUME TypeOK, CountInv, OwedInv, NEW c \in Context, NEW x, Call(c, x),
         failed = "none", op[c].pc \notin Sending \cup {"post"},
         op[c].pc # "none" \/ m_initialized,
         UNCHANGED <<m_initialized, queue, disp>>,
         x.pc = "mark" => x.mask = {},
         \A e \in Event : Due(e) => Due(e)' \/ \A m \in Module : ~Coming(m, e),
         \A e \in Event, m \in Module : owed'[e][m] > 0 =>
           owed'[e][m] = owed[e][m] /\ (Subscribed(m, e) => Subscribed(m, e)')
  PROVE  OwedInv'
<1>1. m_initialized
  BY InitializedInCalls
<1>2. \A e \in Event : Marks(op[c], e) \subseteq Marks(x, e)
  BY DEF Marks
<1> QED  BY <1>1, <1>2, OwedInCalls

(* A send that starts has marked nobody.                                   *)
LEMMA StartingOwed ==
  ASSUME TypeOK, CountInv, OwedInv, NEW c \in Context, NEW e0 \in Event, NEW resend \in BOOLEAN,
         ErSendEx(c, e0, resend)
  PROVE  OwedInv'
<1>1. PICK x : /\ x = [pc |-> "mark", e |-> e0, i |-> 1, mask |-> {}, resend |-> resend]
               /\ Call(c, x)
  BY DEF ErSendEx
<1>2. /\ failed = "none" /\ m_initialized /\ op[c].pc = "none"
      /\ UNCHANGED <<m_initialized, m_reference_count, moduleSubscriptions, queue, disp, owed>>
  BY DEF ErSendEx, InClient, Running, subscriptions
<1>3. x.mask = {} /\ op[c].pc \notin Sending \cup {"post"}
  BY <1>1, <1>2 DEF Sending
<1>4. \A e \in Event : Due(e) => Due(e)'
  BY <1>1, <1>2, <1>3, StaysDue
<1>5. \A e \in Event, m \in Module : Subscribed(m, e) => Subscribed(m, e)'
  BY <1>2 DEF Subscribed
<1> QED  BY <1>1, <1>2, <1>3, <1>4, <1>5, OtherCallsOwed

(* A task that is marked comes in no mask, and nothing is owed there yet.   *)
LEMMA MarkingOwed ==
  ASSUME TypeOK, CountInv, OnceInv, OwedInv, NEW c \in Context, MarkTask(c)
  PROVE  OwedInv'
<1>0. /\ failed = "none" /\ ContextsInv /\ op[c] \in Calls /\ op[c].pc = "mark"
      /\ UNCHANGED <<m_initialized, m_reference_count, moduleSubscriptions, queue, disp>>
  BY DEF CountInv, TypeOK, MarkTask, At, Running, subscriptions
<1>1. PICK e0 \in Event, t \in Task, mask \in SUBSET Task :
        op[c].e = e0 /\ op[c].i = t /\ op[c].mask = mask
  BY <1>0, CallShapes
<1>2. c = OwnerTask(e0) /\ op[c].resend = FALSE
  BY <1>0, <1>1 DEF ContextsInv, OnceInv, PlainSends
<1>3. FiniteReferences(e0) /\ Counted(e0) /\ m_reference_count[e0] = 0
  BY <1>0, <1>1, <1>2 DEF CountInv, EventInv, StagesInv
<1>4. mask \subseteq 1..(t - 1) /\ t \in Nat /\ t \notin mask
  BY <1>0, <1>1, TasksAssumption DEF OwedInv, Task
<1> DEFINE marked == m_type[e0] \in taskSubscriptions[t]
<1>5. PICK x : /\ x = [op[c] EXCEPT !.mask = IF marked THEN @ \cup {t} ELSE @,
                                    !.i = t + 1,
                                    !.pc = IF t = NumTasks THEN "add" ELSE @]
               /\ Call(c, x)
  BY <1>1 DEF MarkTask
<1>6. /\ x.pc \in {"mark", "add"} /\ x.e = e0 /\ x.i = t + 1
      /\ x.mask = IF marked THEN mask \cup {t} ELSE mask
  <2>1. op[c] \in [pc : {"mark"}, e : Event, i : Task, mask : SUBSET Task, resend : BOOLEAN]
    BY <1>0, CallShapes
  <2> QED  BY <1>0, <1>1, <1>5, <2>1
<1>7. \A d \in Context : op'[d] = IF d = c THEN x ELSE op[d]
  BY <1>5 DEF Call, TypeOK
<1>8. /\ \A e \in Event \ {e0} : owed'[e] = owed[e]
      /\ \A m \in Module : owed'[e0][m] = IF marked /\ m_task_idx[m] = t /\ Subscribed(m, e0)
                                            THEN owed[e0][m] + 1 ELSE owed[e0][m]
  BY <1>1 DEF MarkTask, TypeOK
<1>9. \A e \in Event, m \in Module : Subscribed(m, e) => Subscribed(m, e)'
  BY <1>0 DEF Subscribed
<1>10. \A e \in Event : Marks(op[c], e) \subseteq Marks(x, e)
  BY <1>0, <1>1, <1>6 DEF Marks, Sending
<1>11. \A e \in Event : Due(e) => Due(e)'
  BY <1>0, <1>1, <1>5, <1>6, StaysDue DEF Sending
<1>12. ASSUME NEW e \in Event, NEW m \in Module, Coming(m, e) PROVE Coming(m, e)'
  BY <1>0, <1>5, <1>10, <1>12, ComesOn
<1>13. ASSUME NEW e \in Event, e # e0 PROVE Owed(e)'
  BY <1>8, <1>9, <1>11, <1>12, <1>13, OwedKept DEF OwedInv
<1>14. Owed(e0)'
  <2> SUFFICES ASSUME NEW m \in Module, owed'[e0][m] > 0
               PROVE  owed'[e0][m] = 1 /\ Subscribed(m, e0)' /\ Coming(m, e0)' /\ Due(e0)'
    BY DEF Owed
  <2>1. CASE owed[e0][m] > 0
    <3>1. owed[e0][m] = 1 /\ Subscribed(m, e0) /\ Coming(m, e0) /\ Due(e0)
      BY <2>1 DEF OwedInv, Owed
    <3>2. m_task_idx[m] # t
      <4>1. Arriving(m_task_idx[m], e0)
        <5>1. Delivered(e0) = {}
          BY <1>3, NoReferences
        <5>2. ~ToCall(m_task_idx[m], m, e0)
          BY <5>1, ModulesAssumption DEF ToCall, Delivered
        <5> QED  BY <3>1, <5>2 DEF Coming
      <4>2. ASSUME NEW d \in Context, m_task_idx[m] \in Marks(op[d], e0)
            PROVE  m_task_idx[m] \in mask
        <5>1. op[d].pc \in Sending \cup {"post"} /\ op[d].e = e0 /\ m_task_idx[m] \in op[d].mask
          BY <4>2 DEF Marks
        <5>2. Marked(e0) = {}
          BY <1>3, NoReferences
        <5>3. op[d].pc # "post"
          <6> SUFFICES ASSUME op[d].pc = "post" PROVE FALSE
            OBVIOUS
          <6>1. PICK u \in Task : u = m_task_idx[m]
            BY ModulesAssumption
          <6>2. <<d, u>> \in Marked(e0)
            BY <5>1, <6>1 DEF Marked
          <6> QED  BY <5>2, <6>2
        <5>4. d = c
          BY <1>0, <1>2, <5>1, <5>3 DEF ContextsInv, Sending
        <5> QED  BY <1>1, <5>1, <5>4
      <4>3. ASSUME NEW i \in 1..Len(queue[m_task_idx[m]]), queue[m_task_idx[m]][i] = e0
            PROVE  FALSE
        <5>1. m_task_idx[m] \in Task /\ i \in 1..Capacity
          BY <1>0, BoundsAssumption, ModulesAssumption DEF ContextsInv, TypeOK
        <5>2. <<m_task_idx[m], i>> \in Queued(e0)
          BY <4>3, <5>1 DEF Queued
        <5> QED  BY <1>3, <5>2, NoReferences
      <4> QED  BY <1>4, <4>1, <4>2, <4>3 DEF Arriving
    <3>3. owed'[e0][m] = 1
      BY <1>8, <3>1, <3>2
    <3> QED  BY <1>9, <1>11, <1>12, <3>1, <3>3
  <2>2. CASE ~(owed[e0][m] > 0)
    <3>1. marked /\ m_task_idx[m] = t /\ Subscribed(m, e0) /\ owed'[e0][m] = 1
      <4>1. owed[e0][m] \in Nat
        BY DEF TypeOK
      <4> QED  BY <1>8, <2>2, <4>1
    <3>2. t \in Marks(op'[c], e0)
      BY <1>6, <1>7, <3>1 DEF Marks, Sending
    <3>3. Coming(m, e0)'
      <4>1. \E d \in Context : t \in Marks(op'[d], e0)
        BY <3>2
      <4> QED  BY <3>1, <4>1, ArrivesMarked DEF Coming
    <3>4. BeingSent(e0)
      BY <1>0, <1>1 DEF BeingSent
    <3> QED  BY <1>9, <1>11, <3>1, <3>3, <3>4 DEF Due
  <2> QED  BY <2>1, <2>2
<1>15. ASSUME NEW d \in Context, op'[d].pc = "mark"
       PROVE  op'[d].mask \subseteq 1..(op'[d].i - 1)
  <2>1. CASE d = c
    <3>1. t \in Nat /\ t >= 1 /\ x.i - 1 = t
      BY <1>4, <1>6, TasksAssumption DEF Task
    <3>2. \A u \in 1..(t - 1) : u \in 1..t
      BY <3>1
    <3>3. x.mask \subseteq 1..t
      BY <1>4, <1>6, <3>1, <3>2
    <3> QED  BY <1>7, <2>1, <3>1, <3>3
  <2> QED  BY <1>7, <1>15, <2>1 DEF OwedInv
<1>16. m_initialized
  BY <1>0, InitializedInCalls
<1> QED  BY <1>0, <1>13, <1>14, <1>15, <1>16 DEF OwedInv

(* A plain send finds the count at 0: the way back is still to be added.    *)
LEMMA CountingOwed ==
  ASSUME TypeOK, CountInv, OnceInv, OwedInv, NEW c \in Context, AddSubscribers(c)
  PROVE  OwedInv'
<1>0. /\ failed = "none" /\ ContextsInv /\ op[c] \in Calls /\ op[c].pc = "add"
      /\ UNCHANGED <<m_initialized, moduleSubscriptions, queue, disp, owed>>
  BY DEF CountInv, TypeOK, AddSubscribers, At, Running, subscriptions, history
<1>1. PICK e0 \in Event, mask \in SUBSET Task : op[c].e = e0 /\ op[c].mask = mask
  BY <1>0, CallShapes
<1>2. op[c].resend = FALSE
  BY <1>0 DEF OnceInv, PlainSends
<1>3. m_reference_count[e0] = 0
  BY <1>0, <1>1, <1>2 DEF CountInv, EventInv, StagesInv
<1>4. PICK x : /\ x = [pc |-> "addReturn", e |-> e0, mask |-> mask]
               /\ Call(c, x) /\ Add(e0, Cardinality(mask))
  BY <1>1, <1>3 DEF AddSubscribers, AfterCount
<1>5. x.pc = "addReturn" /\ x.e = e0 /\ x.mask = mask
  BY <1>4
<1>6. \A e \in Event : m_reference_count[e] > 1 => m_reference_count'[e] > 1
  BY <1>3, <1>4 DEF Add, TypeOK
<1>7. \A e \in Event : Due(e) => Due(e)'
  BY <1>0, <1>1, <1>4, <1>5, <1>6, StaysDue DEF Sending
<1>8. \A e \in Event : Marks(op[c], e) \subseteq Marks(x, e)
  BY <1>0, <1>1, <1>5 DEF Marks, Sending
<1>9. \A e \in Event, m \in Module : Subscribed(m, e) => Subscribed(m, e)'
  BY <1>0 DEF Subscribed
<1>10. m_initialized
  BY <1>0, InitializedInCalls
<1> QED  BY <1>0, <1>4, <1>5, <1>7, <1>8, <1>9, <1>10, OwedInCalls

(* With somebody marked the count goes beyond 1, else nobody is owed it.    *)
LEMMA CountingReturnOwed ==
  ASSUME TypeOK, CountInv, OwedInv, NEW c \in Context, AddReturnTrip(c)
  PROVE  OwedInv'
<1>0. /\ failed = "none" /\ ContextsInv /\ op[c] \in Calls /\ op[c].pc = "addReturn"
      /\ UNCHANGED <<m_initialized, moduleSubscriptions, queue, disp, owed>>
  BY DEF CountInv, TypeOK, AddReturnTrip, At, Running, subscriptions, history
<1>1. PICK e0 \in Event, mask \in SUBSET Task : op[c].e = e0 /\ op[c].mask = mask
  BY <1>0, CallShapes
<1>2. /\ FiniteReferences(e0) /\ Counted(e0) /\ WaitsForOwner(e0) /\ HalfCounted(e0)
      /\ c = OwnerTask(e0)
  BY <1>0, <1>1 DEF CountInv, EventInv, HalfCounted, ContextsInv
<1>3. PICK x : /\ x = Posting(e0, IF mask = {} THEN {OwnerTask(e0)} ELSE mask)
               /\ Call(c, x)
  BY <1>1 DEF AddReturnTrip
<1>4. x.pc = "post" /\ x.e = e0 /\ mask \subseteq x.mask
  BY <1>3 DEF Posting, None
<1>5. \A d \in Context : op'[d] = IF d = c THEN x ELSE op[d]
  BY <1>3 DEF Call, TypeOK
<1>6. \A e \in Event : m_reference_count'[e]
                         = IF e = e0 THEN m_reference_count[e] + 1 ELSE m_reference_count[e]
  BY <1>1 DEF AddReturnTrip, Add, TypeOK
<1>7. \A e \in Event : Marks(op[c], e) \subseteq Marks(x, e)
  BY <1>0, <1>1, <1>4 DEF Marks
<1>8. ASSUME NEW e \in Event, e # e0 PROVE Due(e) => Due(e)'
  BY <1>0, <1>1, <1>3, <1>6, <1>8, StaysDue
<1>9. ASSUME mask # {} PROVE Due(e0)'
  <2>1. m_reference_count[e0] >= 1
    <3>1. Marked(e0) # {}
      <4>1. PICK t \in Task : t \in mask
        BY <1>9
      <4>2. <<c, t>> \in Marked(e0)
        BY <1>0, <1>1, <4>1 DEF Marked
      <4> QED  BY <4>2
    <3>2. m_reference_count[e0] \in Int
      BY DEF TypeOK
    <3>3. ~(m_reference_count[e0] <= 0)
      BY <1>2, <3>1, NoReferences
    <3> QED  BY <3>2, <3>3
  <2>2. m_reference_count'[e0] > 1
    <3>1. m_reference_count[e0] \in Int
      BY DEF TypeOK
    <3> QED  BY <1>6, <2>1, <3>1
  <2> QED  BY <2>2 DEF Due
<1>10. ASSUME mask = {} PROVE \A m \in Module : ~Coming(m, e0)
  <2>1. m_reference_count[e0] = 0
    BY <1>1, <1>2, <1>10 DEF WaitsForOwner
  <2>2. \A d \in Context : op[d].pc \in Sending /\ op[d].e = e0 => op[d].mask = {}
    BY <1>0, <1>1, <1>2, <1>10 DEF ContextsInv, Sending
  <2>3. Marked(e0) = {} /\ Queued(e0) = {} /\ Delivered(e0) = {}
    BY <1>2, <2>1, NoReferences
  <2> QED  BY <1>0, <2>2, <2>3, NothingComes
<1>11. \A e \in Event : Due(e) => Due(e)' \/ \A m \in Module : ~Coming(m, e)
  BY <1>8, <1>9, <1>10
<1>12. \A e \in Event, m \in Module : Subscribed(m, e) => Subscribed(m, e)'
  BY <1>0 DEF Subscribed
<1>13. m_initialized
  BY <1>0, InitializedInCalls
<1> QED  BY <1>0, <1>3, <1>4, <1>7, <1>11, <1>12, <1>13, OwedInCalls

(* Posting moves a copy from the mask to the task's queue.                  *)
LEMMA PostingOwed ==
  ASSUME TypeOK, CountInv, OwedInv, NEW c \in Context, SendEvent(c), failed' = "none"
  PROVE  OwedInv'
<1>0. /\ failed = "none" /\ op[c] \in Calls /\ op[c].pc = "post"
      /\ UNCHANGED <<m_initialized, m_reference_count, moduleSubscriptions, disp, owed>>
  BY DEF TypeOK, SendEvent, At, Running, subscriptions, history
<1>1. PICK e0 \in Event, mask \in (SUBSET Task) \ {{}} : op[c].e = e0 /\ op[c].mask = mask
  BY <1>0, CallShapes
<1>2. PICK u \in Task : u = Smallest(mask) /\ u \in mask
  BY <1>1, SmallestInMask
<1>3. PICK x : x = Posting(e0, mask \ {u}) /\ Call(c, x)
  BY <1>1, <1>2 DEF SendEvent
<1>4. /\ x.pc \in {"none", "post"}
      /\ \A t \in mask \ {u} : x.pc = "post" /\ x.e = e0 /\ t \in x.mask
  BY <1>3 DEF Posting, None
<1>5. queue' = [queue EXCEPT ![u] = Append(@, e0)]
  BY <1>0, <1>1, <1>2 DEF SendEvent, Assert
<1>6. \A d \in Context : op'[d] = IF d = c THEN x ELSE op[d]
  BY <1>3 DEF Call, TypeOK
<1>7. /\ \A t \in Task : \A i \in 1..Len(queue[t]) :
           i \in 1..Len(queue'[t]) /\ queue'[t][i] = queue[t][i]
      /\ Len(queue'[u]) \in 1..Len(queue'[u]) /\ queue'[u][Len(queue'[u])] = e0
  BY <1>5 DEF TypeOK
<1>8. ASSUME NEW e \in Event, NEW m \in Module, Coming(m, e) PROVE Coming(m, e)'
  <2>1. PICK t \in Task : t = m_task_idx[m]
    BY ModulesAssumption
  <2>2. ASSUME NEW d \in Context, t \in Marks(op[d], e) PROVE Arriving(t, e)'
    <3>1. CASE d = c
      <4>1. e = e0 /\ t \in mask
        BY <1>1, <2>2, <3>1 DEF Marks
      <4>2. CASE t = u
        <5>1. \E i \in 1..Len(queue'[t]) : queue'[t][i] = e
          BY <1>7, <4>1, <4>2
        <5> QED  BY <5>1 DEF Arriving
      <4>3. CASE t # u
        <5>1. t \in Marks(op'[c], e)
          BY <1>4, <1>6, <4>1, <4>3 DEF Marks
        <5> QED  BY <5>1, ArrivesMarked
      <4> QED  BY <4>2, <4>3
    <3>2. CASE d # c
      BY <1>6, <2>2, <3>2, ArrivesMarked
    <3> QED  BY <3>1, <3>2
  <2>3. ASSUME NEW i \in 1..Len(queue[t]), queue[t][i] = e PROVE Arriving(t, e)'
    <3>1. i \in 1..Len(queue'[t]) /\ queue'[t][i] = e
      BY <1>7, <2>3
    <3> QED  BY <3>1 DEF Arriving
  <2>4. Arriving(t, e) => Arriving(t, e)'
    BY <2>2, <2>3 DEF Arriving
  <2>5. ToCall(t, m, e) => ToCall(t, m, e)'
    BY <1>0 DEF ToCall
  <2> QED  BY <1>8, <2>1, <2>4, <2>5 DEF Coming
<1>9. \A e \in Event : Due(e) => Due(e)'
  BY <1>0, <1>3, StaysDue DEF Sending
<1>10. \A e \in Event, m \in Module : Subscribed(m, e) => Subscribed(m, e)'
  BY <1>0 DEF Subscribed
<1>11. \A e \in Event : Owed(e)'
  BY <1>0, <1>8, <1>9, <1>10, OwedKept DEF OwedInv
<1>12. \A d \in Context : op'[d].pc = "mark" => op'[d].mask \subseteq 1..(op'[d].i - 1)
  BY <1>4, <1>6 DEF OwedInv
<1>13. m_initialized /\ m_initialized'
  BY <1>0, InitializedInCalls
<1> QED  BY <1>11, <1>12, <1>13 DEF OwedInv
-----------------------------------------------------------------------------
(* ErCallHandlers() may end in a call to ErReturnToSender().                *)
OnlyReturns ==
  \A c \in Context : op'[c] = op[c] \/ (op[c].pc = "none" /\ op'[c].pc = "sub")

(* What is marked and queued stays so.                                     *)
LEMMA ArrivingKept ==
  ASSUME OnlyReturns, UNCHANGED queue, NEW t \in Task, NEW e \in Event, Arriving(t, e)
  PROVE  Arriving(t, e)'
<1>1. ASSUME NEW c \in Context, t \in Marks(op[c], e) PROVE Arriving(t, e)'
  <2>1. op'[c] = op[c]
    BY <1>1 DEF OnlyReturns, Marks, Sending
  <2> QED  BY <1>1, <2>1, ArrivesMarked
<1>2. ASSUME NEW i \in 1..Len(queue[t]), queue[t][i] = e PROVE Arriving(t, e)'
  BY <1>2 DEF Arriving
<1> QED  BY <1>1, <1>2 DEF Arriving

(* A task goes on with what it received.                                   *)
LEMMA OwedInDispatch ==
  ASSUME OwedInv, NEW t \in Task, OnlyReturns,
         disp[t].pc # "none" \/ m_initialized,
         UNCHANGED <<m_initialized, moduleSubscriptions>>,
         \A e \in Event : m_reference_count[e] > 1 => m_reference_count'[e] > 1,
         \A e \in Event, m \in Module : owed'[e][m] > 0 =>
           owed'[e][m] = owed[e][m] /\ (Coming(m, e) => Coming(m, e)')
  PROVE  OwedInv'
<1>1. \A e \in Event, m \in Module : Subscribed(m, e) => Subscribed(m, e)'
  BY DEF Subscribed
<1>2. \A e \in Event : Due(e) => Due(e)'
  <2>1. \A e \in Event : BeingSent(e) => BeingSent(e)'
    BY DEF BeingSent, OnlyReturns
  <2> QED  BY <2>1 DEF Due
<1>3. \A e \in Event : Owed(e)'
  BY <1>1, <1>2, OwedKept DEF OwedInv
<1>4. \A c \in Context : op'[c].pc = "mark" => op'[c].mask \subseteq 1..(op'[c].i - 1)
  BY DEF OwedInv, OnlyReturns
<1>5. m_initialized
  BY InitializedInCalls
<1> QED  BY <1>3, <1>4, <1>5 DEF OwedInv

(* What comes out of the queue is delivered from the first module on.      *)
LEMMA ReceivingOwed ==
  ASSUME TypeOK, OwedInv, NEW t \in Task, ErReceive(t)
  PROVE  OwedInv'
<1>0. /\ m_initialized /\ disp[t].pc = "none" /\ queue[t] # <<>>
      /\ UNCHANGED <<m_initialized, m_reference_count, moduleSubscriptions, op, owed>>
  BY DEF ErReceive, InClient, subscriptions, history
<1>1. PICK e0 \in Event : e0 = queue[t][1]
  BY <1>0 DEF TypeOK
<1>2. /\ disp' = [disp EXCEPT ![t] = [pc |-> "check", e |-> e0]]
      /\ queue' = [queue EXCEPT ![t] = Tail(@)]
  BY <1>0, <1>1 DEF ErReceive, TypeOK
<1>3. \A u \in Task : disp'[u] = IF u = t THEN [pc |-> "check", e |-> e0] ELSE disp[u]
  BY <1>2 DEF TypeOK
<1>4. ASSUME NEW u \in Task, NEW i \in 1..Len(queue[u]), u # t \/ i # 1
      PROVE  \E j \in 1..Len(queue'[u]) : queue'[u][j] = queue[u][i]
  <2>1. CASE u # t
    BY <1>2, <2>1 DEF TypeOK
  <2>2. CASE u = t
    <3>1. queue[t] \in Seq(Event) /\ queue'[t] = Tail(queue[t])
      BY <1>2 DEF TypeOK
    <3>2. i - 1 \in 1..Len(queue'[t]) /\ queue'[t][i - 1] = queue[t][i]
      BY <1>0, <1>4, <2>2, <3>1
    <3> QED  BY <2>2, <3>2
  <2> QED  BY <2>1, <2>2
<1>5. ASSUME NEW e \in Event, NEW m \in Module, Coming(m, e) PROVE Coming(m, e)'
  <2>1. PICK u \in Task : u = m_task_idx[m]
    BY ModulesAssumption
  <2>2. ASSUME NEW c \in Context, u \in Marks(op[c], e) PROVE Arriving(u, e)'
    BY <1>0, <2>2, ArrivesMarked
  <2>3. ASSUME NEW i \in 1..Len(queue[u]), queue[u][i] = e, u # t \/ i # 1
        PROVE  Arriving(u, e)'
    <3>1. \E j \in 1..Len(queue'[u]) : queue'[u][j] = e
      BY <1>4, <2>3
    <3> QED  BY <3>1 DEF Arriving
  <2>4. u = t /\ e = e0 => ToCall(u, m, e)'
    BY <1>3 DEF ToCall
  <2>5. ToCall(u, m, e) => ToCall(u, m, e)'
    BY <1>0, <1>3 DEF ToCall
  <2>6. Arriving(u, e) => Arriving(u, e)' \/ ToCall(u, m, e)'
    BY <1>1, <2>2, <2>3, <2>4 DEF Arriving
  <2> QED  BY <1>5, <2>1, <2>5, <2>6 DEF Coming
<1> QED  BY <1>0, <1>5, OwedInDispatch DEF OnlyReturns

(* A count that sends the event back says that nobody is owed it.          *)
LEMMA CheckingOwed ==
  ASSUME TypeOK, CountInv, OnceInv, OwedInv, NEW t \in Task, ErCallHandlers(t)
  PROVE  OwedInv'
<1>0. /\ failed = "none" /\ ContextsInv /\ op[t].pc = "none" /\ disp[t].pc = "check"
      /\ disp[t] \in Activations /\ t \in Context
      /\ UNCHANGED <<m_initialized, m_reference_count, moduleSubscriptions, queue, owed>>
  BY DEF CountInv, TypeOK, Context, ErCallHandlers, Dispatching, Running, subscriptions,
         history
<1>1. PICK e0 \in Event : disp[t].e = e0
  BY <1>0, ActivationShapes
<1>2. CASE m_reference_count[e0] <= 1
  <2>1. disp' = [disp EXCEPT ![t] = None] /\ Call(t, [pc |-> "sub", e |-> e0])
    BY <1>1, <1>2 DEF ErCallHandlers, Done
  <2>2. OnlyReturns
    BY <1>0, <2>1 DEF OnlyReturns, Call, TypeOK
  <2>3. \A u \in Task \ {t} : disp'[u] = disp[u]
    BY <2>1 DEF TypeOK
  <2>4. ~Due(e0)
    <3>1. EventInv(e0) /\ t \in Delivered(e0)
      BY <1>0, <1>1 DEF CountInv, Delivered
    <3>2. ~(m_reference_count[e0] <= 0)
      BY <3>1, NoReferences DEF EventInv
    <3>3. ~HalfCounted(e0)
      BY <3>1 DEF EventInv, WaitsForOwner
    <3>4. PlainSends
      BY <1>0 DEF OnceInv
    <3>5. ~BeingSent(e0)
      BY <1>0, <3>1, <3>2, <3>3, <3>4, CountedWhileSent
    <3>6. m_reference_count[e0] \in Int
      BY DEF TypeOK
    <3> QED  BY <1>2, <3>5, <3>6 DEF Due
  <2>5. \A m \in Module : ~(owed[e0][m] > 0)
    BY <2>4 DEF OwedInv, Owed
  <2>6. ASSUME NEW e \in Event, NEW m \in Module, owed'[e][m] > 0, Coming(m, e)
        PROVE  Coming(m, e)'
    <3>1. PICK u \in Task : u = m_task_idx[m]
      BY ModulesAssumption
    <3>2. e # e0
      BY <1>0, <2>5, <2>6
    <3>3. ToCall(u, m, e) => ToCall(u, m, e)'
      BY <1>1, <2>3, <3>2 DEF ToCall
    <3>4. Arriving(u, e) => Arriving(u, e)'
      BY <1>0, <2>2, ArrivingKept
    <3> QED  BY <2>6, <3>1, <3>3, <3>4 DEF Coming
  <2> QED  BY <1>0, <2>2, <2>6, OwedInDispatch
<1>3. CASE ~(m_reference_count[e0] <= 1)
  <2>1. /\ disp' = [disp EXCEPT ![t] = [pc |-> "loop", e |-> e0, i |-> 0]]
        /\ UNCHANGED op
    BY <1>1, <1>3 DEF ErCallHandlers
  <2>2. OnlyReturns
    BY <2>1 DEF OnlyReturns
  <2>3. \A u \in Task : disp'[u] = IF u = t THEN [pc |-> "loop", e |-> e0, i |-> 0]
                                            ELSE disp[u]
    BY <2>1 DEF TypeOK
  <2>4. ASSUME NEW e \in Event, NEW m \in Module, Coming(m, e) PROVE Coming(m, e)'
    <3>1. PICK u \in Task : u = m_task_idx[m]
      BY ModulesAssumption
    <3>2. m_module_idx[m] \in Nat
      BY ModulesAssumption
    <3>3. ToCall(u, m, e) => ToCall(u, m, e)'
      BY <1>1, <2>3, <3>2 DEF ToCall
    <3>4. Arriving(u, e) => Arriving(u, e)'
      BY <1>0, <2>2, ArrivingKept
    <3> QED  BY <2>4, <3>1, <3>3, <3>4 DEF Coming
  <2> QED  BY <1>0, <2>2, <2>4, OwedInDispatch
<1> QED  BY <1>2, <1>3

(* The next handler is that of the first subscribed module: nobody who is   *)
(* owed the event is passed over.                                          *)
LEMMA CallingOwed ==
  ASSUME TypeOK, OwedInv, NEW t \in Task, CallNextHandler(t)
  PROVE  OwedInv'
<1>0. /\ op[t].pc = "none" /\ disp[t].pc = "loop" /\ disp[t] \in Activations /\ t \in Context
      /\ UNCHANGED <<m_initialized, m_reference_count, moduleSubscriptions, queue>>
  BY DEF TypeOK, Context, CallNextHandler, Dispatching, subscriptions
<1>1. PICK e0 \in Event, i0 \in Nat : disp[t].e = e0 /\ disp[t].i = i0
  BY <1>0, ActivationShapes
<1>2. m_module_idx \in [Module -> Nat] /\ m_task_idx \in [Module -> Task]
  BY ModulesAssumption
<1> DEFINE ms == Receivers(t, e0, i0)
<1>3. ASSUME NEW m \in Module, ToCall(t, m, e0), owed[e0][m] > 0, m_task_idx[m] = t
      PROVE  m \in ms
  BY <1>0, <1>1, <1>3 DEF OwedInv, Owed, ToCall, Receivers, ModulesOf
<1>4. CASE ms = {}
  <2>1. /\ disp' = [disp EXCEPT ![t] = None] /\ Call(t, [pc |-> "sub", e |-> e0])
        /\ UNCHANGED owed
    BY <1>1, <1>4 DEF CallNextHandler, Done
  <2>2. OnlyReturns
    BY <1>0, <2>1 DEF OnlyReturns, Call, TypeOK
  <2>3. \A u \in Task \ {t} : disp'[u] = disp[u]
    BY <2>1 DEF TypeOK
  <2>4. ASSUME NEW e \in Event, NEW m \in Module, owed'[e][m] > 0, Coming(m, e)
        PROVE  Coming(m, e)'
    <3>1. PICK u \in Task : u = m_task_idx[m]
      BY <1>2
    <3>2. ToCall(u, m, e) => u # t
      <4>1. ToCall(t, m, e) => e = e0
        BY <1>1 DEF ToCall
      <4> QED  BY <1>3, <1>4, <2>1, <2>4, <3>1, <4>1
    <3>3. ToCall(u, m, e) => ToCall(u, m, e)'
      BY <2>3, <3>2 DEF ToCall
    <3>4. Arriving(u, e) => Arriving(u, e)'
      BY <1>0, <2>2, ArrivingKept
    <3> QED  BY <2>4, <3>1, <3>3, <3>4 DEF Coming
  <2> QED  BY <1>0, <2>1, <2>2, <2>4, OwedInDispatch
<1>5. CASE ms # {}
  <2>1. PICK m0 \in ms :
          /\ \A n \in ms : m_module_idx[m0] <= m_module_idx[n]
          /\ disp' = [disp EXCEPT ![t] = [pc |-> "handler", e |-> e0, m |-> m0]]
          /\ owed' = [owed EXCEPT ![e0][m0] = IF @ = 0 THEN 0 ELSE @ - 1]
          /\ UNCHANGED op
    BY <1>1, <1>5 DEF CallNextHandler
  <2>2. m0 \in Module /\ m_task_idx[m0] = t
    BY DEF Receivers, ModulesOf
  <2>3. OnlyReturns
    BY <2>1 DEF OnlyReturns
  <2>4. \A u \in Task : disp'[u] = IF u = t THEN [pc |-> "handler", e |-> e0, m |-> m0]
                                            ELSE disp[u]
    BY <2>1 DEF TypeOK
  <2>5. ASSUME NEW e \in Event, NEW m \in Module, owed'[e][m] > 0
        PROVE  owed'[e][m] = owed[e][m] /\ (e # e0 \/ m # m0)
    <3>1. owed'[e][m] = IF e = e0 /\ m = m0
                          THEN IF owed[e][m] = 0 THEN 0 ELSE owed[e][m] - 1
                          ELSE owed[e][m]
      BY <2>1, <2>2 DEF TypeOK
    <3>2. owed[e][m] = 0 \/ owed[e][m] = 1
      <4>1. owed[e][m] \in Nat
        BY DEF TypeOK
      <4> QED  BY <4>1 DEF OwedInv, Owed
    <3> QED  BY <2>5, <3>1, <3>2
  <2>6. ASSUME NEW e \in Event, NEW m \in Module, owed'[e][m] > 0, Coming(m, e)
        PROVE  Coming(m, e)'
    <3>1. PICK u \in Task : u = m_task_idx[m]
      BY <1>2
    <3>2. ASSUME ToCall(u, m, e), u = t PROVE ToCall(u, m, e)'
      <4>1. e = e0 /\ m # m0
        BY <1>1, <2>5, <2>6, <3>2 DEF ToCall
      <4>2. m \in ms
        BY <1>3, <2>5, <2>6, <3>1, <3>2, <4>1
      <4>3. m_module_idx[m0] # m_module_idx[m]
        BY <2>2, <3>1, <3>2, <4>1, ModulesAssumption
      <4>4. m_module_idx[m0] < m_module_idx[m]
        <5>1. m_module_idx[m0] <= m_module_idx[m]
          BY <2>1, <4>2
        <5>2. m_module_idx[m0] \in Nat /\ m_module_idx[m] \in Nat
          BY <1>2, <2>2
        <5> QED  BY <4>3, <5>1, <5>2
      <4>5. disp'[t] = [pc |-> "handler", e |-> e0, m |-> m0]
        BY <2>4
      <4> QED  BY <3>2, <4>1, <4>4, <4>5 DEF ToCall
    <3>3. u # t /\ ToCall(u, m, e) => ToCall(u, m, e)'
      BY <2>4 DEF ToCall
    <3>4. Arriving(u, e) => Arriving(u, e)'
      BY <1>0, <2>3, ArrivingKept
    <3> QED  BY <2>6, <3>1, <3>2, <3>3, <3>4 DEF Coming
  <2> QED  BY <1>0, <2>3, <2>5, <2>6, OwedInDispatch
<1> QED  BY <1>4, <1>5

(* A handler returns: the modules behind its own are still to be called.   *)
LEMMA HandledOwed ==
  ASSUME TypeOK, OwedInv, NEW t \in Task, HandlerHandled(t) \/ HandlerKept(t)
  PROVE  OwedInv'
<1>0. /\ disp[t].pc = "handler" /\ disp[t] \in Activations /\ Continue(t)
      /\ UNCHANGED <<m_initialized, moduleSubscriptions, queue, op, owed>>
  BY DEF TypeOK, HandlerHandled, HandlerKept, Dispatching, subscriptions, history
<1>1. PICK e0 \in Event, m0 \in Module : disp[t].e = e0 /\ disp[t].m = m0
  BY <1>0, ActivationShapes
<1>2. m_module_idx \in [Module -> Nat] /\ m_task_idx \in [Module -> Task]
  BY ModulesAssumption
<1>3. \A u \in Task : disp'[u] = IF u = t THEN [pc |-> "loop", e |-> e0,
                                                i |-> m_module_idx[m0] + 1]
                                          ELSE disp[u]
  BY <1>0, <1>1 DEF Continue, TypeOK
<1>4. \A e \in Event : m_reference_count[e] > 1 => m_reference_count'[e] > 1
  <2>1. m_reference_count \in [Event -> Int]
    BY DEF TypeOK
  <2>2. m_reference_count' = m_reference_count \/ Add(e0, 1)
    BY <1>1 DEF HandlerHandled, HandlerKept
  <2> QED  BY <2>1, <2>2 DEF Add
<1>5. OnlyReturns
  BY <1>0 DEF OnlyReturns
<1>6. ASSUME NEW e \in Event, NEW m \in Module, Coming(m, e) PROVE Coming(m, e)'
  <2>1. PICK u \in Task : u = m_task_idx[m]
    BY <1>2
  <2>2. ASSUME ToCall(t, m, e) PROVE ToCall(t, m, e)'
    <3>1. e = e0 /\ m_module_idx[m0] < m_module_idx[m]
      BY <1>0, <1>1, <2>2 DEF ToCall
    <3>2. m_module_idx[m0] + 1 <= m_module_idx[m]
      BY <1>2, <3>1
    <3>3. disp'[t] = [pc |-> "loop", e |-> e0, i |-> m_module_idx[m0] + 1]
      BY <1>3
    <3> QED  BY <3>1, <3>2, <3>3 DEF ToCall
  <2>3. u # t /\ ToCall(u, m, e) => ToCall(u, m, e)'
    BY <1>3 DEF ToCall
  <2>4. Arriving(u, e) => Arriving(u, e)'
    BY <1>0, <1>5, ArrivingKept
  <2> QED  BY <1>6, <2>1, <2>2, <2>3, <2>4 DEF Coming
<1> QED  BY <1>0, <1>4, <1>5, <1>6, OwedInDispatch
-----------------------------------------------------------------------------
(* A count that falls to 1 falls with the last reference: nothing comes.    *)
LEMMA DroppingOwed ==
  ASSUME TypeOK, CountInv, OnceInv, OwedInv, NEW t \in Task,
         DropReference(t) \/ DropOwnerReference(t)
  PROVE  OwedInv'
<1>0. /\ failed = "none" /\ ContextsInv /\ PlainSends /\ t \in Context
      /\ op[t] \in Calls /\ op[t].pc \in {"sub", "subOwner"}
      /\ UNCHANGED <<m_initialized, moduleSubscriptions, queue, disp, owed>>
  BY DEF CountInv, OnceInv, TypeOK, Context, DropReference, DropOwnerReference, At, Running,
         subscriptions, history
<1>1. PICK e0 \in Event : op[t].e = e0
  BY <1>0, CallShapes
<1>2. PICK x : x.pc # "mark" /\ Call(t, x) /\ Add(e0, -1)
  <2>1. CASE DropReference(t)
    <3>1. PICK x : x = AfterDrop(t, e0, m_reference_count[e0] - 1) /\ Call(t, x)
                   /\ Add(e0, -1)
      BY <1>1, <2>1 DEF DropReference
    <3>2. x.pc # "mark"
      BY <3>1 DEF AfterDrop, Posting, None
    <3> QED  BY <3>1, <3>2
  <2>2. CASE DropOwnerReference(t)
    <3>1. PICK x : x = [pc |-> "load", e |-> e0] /\ Call(t, x) /\ Add(e0, -1)
      BY <1>1, <2>2 DEF DropOwnerReference
    <3>2. x.pc # "mark"
      BY <3>1
    <3> QED  BY <3>1, <3>2
  <2> QED  BY <2>1, <2>2
<1>3. \A e \in Event : m_reference_count'[e]
                         = IF e = e0 THEN m_reference_count[e] - 1 ELSE m_reference_count[e]
  BY <1>2 DEF Add, TypeOK
<1>4. t \in Returned(e0) /\ EventInv(e0)
  BY <1>0, <1>1 DEF Returned, CountInv
<1>5. m_reference_count[e0] \in Nat \ {0} /\ ~HalfCounted(e0)
  BY <1>4, ReturnedIsCounted
<1>6. op[t].pc \notin Sending \cup {"post"}
  BY <1>0 DEF Sending
<1>7. ASSUME NEW e \in Event PROVE Due(e) => Due(e)' \/ \A m \in Module : ~Coming(m, e)
  <2>1. CASE e # e0 \/ m_reference_count[e0] > 2
    <3>1. m_reference_count[e] > 1 => m_reference_count'[e] > 1
      BY <1>3, <1>5, <2>1
    <3> QED  BY <1>0, <1>2, <1>6, <3>1, StaysDue
  <2>2. CASE e = e0 /\ m_reference_count[e0] <= 2
    <3>1. Marked(e0) = {} /\ Queued(e0) = {} /\ Delivered(e0) = {}
      BY <1>4, <2>2, ReturnedIsCounted
    <3>2. ~BeingSent(e0)
      BY <1>0, <1>4, <1>5, CountedWhileSent
    <3>3. \A c \in Context : op[c].pc \in Sending /\ op[c].e = e0 => op[c].mask = {}
      BY <3>2 DEF BeingSent, Sending
    <3> QED  BY <1>0, <2>2, <3>1, <3>3, NothingComes
  <2> QED  BY <1>5, <2>1, <2>2
<1>8. \A e \in Event, m \in Module : Subscribed(m, e) => Subscribed(m, e)'
  BY <1>0 DEF Subscribed
<1> QED  BY <1>0, <1>2, <1>6, <1>7, <1>8, OtherCallsOwed

(* Returns and subscriptions; an unsubscription cancels what is owed.       *)
LEMMA QuietCallsOwed ==
  ASSUME TypeOK, CountInv, OwedInv, NEW t \in Task,
         \/ CheckReturned(t) \/ CallSender(t) \/ SubscribeStep(t)
         \/ \E m \in Module, e \in Event : ErReturnToSender(t, m, e)
         \/ \E m \in Module, ty \in Type : ErSubscribe(t, m, ty) \/ ErUnsubscribe(t, m, ty)
  PROVE  OwedInv'
<1>1. /\ failed = "none" /\ t \in Context
      /\ op[t].pc \in {"none", "load", "deliver", "setTask", "clearTask"}
      /\ op[t].pc # "none" \/ m_initialized
      /\ UNCHANGED <<m_initialized, m_reference_count, queue, disp>>
  BY DEF CheckReturned, CallSender, SubscribeStep, SetTaskBit, ClearTaskBit, ErReturnToSender,
         ErSubscribe, ErUnsubscribe, At, InClient, Running, Context
<1>2. PICK x : Call(t, x) /\ x.pc \in {"none", "deliver", "sub", "setTask", "clearTask"}
  <2>1. CASE CheckReturned(t)
    <3>1. PICK x : /\ x = IF m_reference_count[op[t].e] = 0
                            THEN [pc |-> "deliver", e |-> op[t].e] ELSE None
                   /\ Call(t, x)
      BY <2>1 DEF CheckReturned
    <3>2. x.pc \in {"none", "deliver"}
      BY <3>1 DEF None
    <3> QED  BY <3>1, <3>2
  <2>2. CASE CallSender(t) \/ SubscribeStep(t)
    BY <2>2 DEF CallSender, SubscribeStep, SetTaskBit, ClearTaskBit, None
  <2>3. CASE \E m \in Module, e \in Event : ErReturnToSender(t, m, e)
    BY <2>3 DEF ErReturnToSender
  <2>4. CASE \E m \in Module, ty \in Type : ErSubscribe(t, m, ty) \/ ErUnsubscribe(t, m, ty)
    BY <2>4 DEF ErSubscribe, ErUnsubscribe
  <2> QED  BY <2>1, <2>2, <2>3, <2>4
<1>3. ASSUME NEW e \in Event, NEW m \in Module, owed'[e][m] > 0
      PROVE  owed'[e][m] = owed[e][m] /\ (Subscribed(m, e) => Subscribed(m, e)')
  <2>1. CASE UNCHANGED <<moduleSubscriptions, owed>>
    BY <2>1 DEF Subscribed
  <2>2. ASSUME NEW n \in Module, NEW ty \in Type, ErSubscribe(t, n, ty)
        PROVE  owed'[e][m] = owed[e][m] /\ (Subscribed(m, e) => Subscribed(m, e)')
    <3>1. /\ moduleSubscriptions' = [moduleSubscriptions EXCEPT ![n] = @ \cup {ty}]
          /\ UNCHANGED owed
      BY <2>2 DEF ErSubscribe, history
    <3>2. moduleSubscriptions \in [Module -> SUBSET Type]
      BY DEF TypeOK
    <3> QED  BY <3>1, <3>2 DEF Subscribed
  <2>3. ASSUME NEW n \in Module, NEW ty \in Type, ErUnsubscribe(t, n, ty)
        PROVE  owed'[e][m] = owed[e][m] /\ (Subscribed(m, e) => Subscribed(m, e)')
    <3>1. /\ moduleSubscriptions' = [moduleSubscriptions EXCEPT ![n] = @ \ {ty}]
          /\ owed'[e][m] = IF m = n /\ m_type[e] = ty THEN 0 ELSE owed[e][m]
      BY <2>3 DEF ErUnsubscribe
    <3>2. moduleSubscriptions \in [Module -> SUBSET Type]
      BY DEF TypeOK
    <3>3. m # n \/ m_type[e] # ty
      BY <1>3, <3>1
    <3> QED  BY <3>1, <3>2, <3>3 DEF Subscribed
  <2>4. \/ UNCHANGED <<moduleSubscriptions, owed>>
        \/ \E n \in Module, ty \in Type : ErSubscribe(t, n, ty) \/ ErUnsubscribe(t, n, ty)
    BY DEF CheckReturned, CallSender, SubscribeStep, SetTaskBit, ClearTaskBit,
           ErReturnToSender, subscriptions, history
  <2> QED  BY <2>1, <2>2, <2>3, <2>4
<1>4. op[t].pc \notin Sending \cup {"post"}
  BY <1>1 DEF Sending
<1>5. \A e \in Event : Due(e) => Due(e)'
  BY <1>1, <1>2, <1>4, StaysDue
<1> QED  BY <1>1, <1>2, <1>3, <1>4, <1>5, OtherCallsOwed

(* ErInit() forgets subscriptions when nothing is owed to anybody.          *)
LEMMA InitOwed ==
  ASSUME TypeOK, OwedInv, ErInit \/ ErDeinit
  PROVE  OwedInv'
<1>1. Quiet /\ UNCHANGED <<m_reference_count, queue, op, disp, owed>>
  BY DEF OwedInv, Quiet, ErInit, ErDeinit, history
<1>2. ASSUME NEW e \in Event, NEW m \in Module PROVE ~Coming(m, e)
  <2>1. m_task_idx[m] \in Task
    BY ModulesAssumption
  <2> QED  BY <1>1, <2>1 DEF Coming, Arriving, ToCall, Marks, Sending, Quiet
<1>3. \A e \in Event, m \in Module : ~(owed[e][m] > 0)
  BY <1>2 DEF OwedInv, Owed
<1>4. Quiet'
  BY <1>1 DEF Quiet
<1>5. \A e \in Event : Owed(e)'
  BY <1>1, <1>3 DEF Owed
<1> QED  BY <1>4, <1>5 DEF OwedInv, Quiet

(* Every step but one that finds a queue full keeps what is owed coming.    *)
LEMMA OwedStep ==
  ASSUME TypeOK, CountInv, OnceInv, OwedInv, Next,
         \A c \in Context : ~SendEvent(c) \/ failed' = "none"
  PROVE  OwedInv'
<1>1. ASSUME NEW c \in Context, NEW e \in Event, NEW resend \in BOOLEAN, ErSendEx(c, e, resend)
      PROVE  OwedInv'
  BY <1>1, StartingOwed
<1>2. ASSUME NEW c \in Context, SendStep(c) PROVE OwedInv'
  BY <1>2, MarkingOwed, CountingOwed, CountingReturnOwed, PostingOwed DEF SendStep
<1>3. ASSUME NEW t \in Task,
             ErReceive(t) \/ DispatchStep(t) \/ HandlerHandled(t) \/ HandlerKept(t)
      PROVE  OwedInv'
  BY <1>3, ReceivingOwed, CheckingOwed, CallingOwed, HandledOwed DEF DispatchStep
<1>4. ASSUME NEW t \in Task,
             \/ ReturnStep(t) \/ SubscribeStep(t)
             \/ \E m \in Module, e \in Event : ErReturnToSender(t, m, e)
             \/ \E m \in Module, ty \in Type : ErSubscribe(t, m, ty) \/ ErUnsubscribe(t, m, ty)
      PROVE  OwedInv'
  BY <1>4, DroppingOwed, QuietCallsOwed DEF ReturnStep
<1> QED  BY <1>1, <1>2, <1>3, <1>4, InitOwed DEF Next

(* Also where the program stops at an assertion, what is owed is due.       *)
DueInv == \A e \in Event, m \in Module : owed[e][m] > 0 => Due(e)

(* An event that is idle again was delivered to every module that was       *)
(* subscribed when its task was marked and stayed subscribed, wherever the  *)
(* subscribers are, when only the owner's task sends it and nobody re-sends *)
(* it.                                                                     *)
THEOREM NobodyMissed ==
  ASSUME OnlyOwnersSend, NobodyResends
  PROVE  Spec => []NoSubscriberMissed
<1> DEFINE MissInv == CountInv /\ OnceInv /\ (failed = "none" => OwedInv) /\ DueInv
<1>1. ASSUME Init PROVE MissInv
  <2>1. /\ \A c \in Context : op[c].pc = "none"
        /\ \A t \in Task : disp[t].pc = "none" /\ queue[t] = <<>>
    BY <1>1 DEF Init, None
  <2>2. OnceInv
    BY <2>1 DEF OnceInv, PlainSends, OneCopy, Marked, Queued
  <2>3. \A e \in Event, m \in Module : ~(owed[e][m] > 0)
    BY <1>1 DEF Init
  <2> QED  BY <1>1, <2>1, <2>2, <2>3, CountInvInit DEF OwedInv, Quiet, Owed, DueInv
<1>2. ASSUME TypeOK, MissInv, [Next]_vars PROVE MissInv'
  <2>1. CountInv' /\ OnceInv'
    BY <1>2, CountInvStep, OnceInvStep
  <2>2. CASE UNCHANGED vars
    BY <1>2, <2>1, <2>2 DEF vars, OwedInv, Quiet, Owed, Subscribed, Coming, Arriving, Marks,
       ToCall, Due, BeingSent, DueInv
  <2>3. ASSUME Next, \A c \in Context : ~SendEvent(c) \/ failed' = "none"
        PROVE  MissInv'
    <3>1. OwedInv'
      BY <1>2, <2>3, NextRuns, OwedStep
    <3>2. DueInv'
      BY <3>1 DEF OwedInv, Owed, DueInv
    <3> QED  BY <2>1, <3>1, <3>2
  <2>4. ASSUME NEW c \in Context, SendEvent(c), failed' # "none" PROVE MissInv'
    <3>1. UNCHANGED <<m_reference_count, owed>> /\ op[c].pc = "post"
      BY <2>4 DEF SendEvent, At, history
    <3>2. PICK x : Call(c, x)
      BY <2>4 DEF SendEvent
    <3>3. \A e \in Event : Due(e) => Due(e)'
      BY <1>2, <3>1, <3>2, StaysDue DEF Sending
    <3>4. DueInv'
      BY <1>2, <3>1, <3>3 DEF DueInv
    <3> QED  BY <2>1, <2>4, <3>4
  <2> QED  BY <1>2, <2>2, <2>3, <2>4
<1>3. ASSUME TypeOK, MissInv PROVE NoSubscriberMissed
  <2> SUFFICES ASSUME NEW e \in Event, NEW m \in Module, m_reference_count[e] = 0,
                      ~BeingSent(e)
               PROVE  owed[e][m] = 0
    BY DEF NoSubscriberMissed
  <2>1. ~(owed[e][m] > 0)
    BY <1>3 DEF DueInv, Due
  <2>2. owed[e][m] \in Nat
    BY <1>3 DEF TypeOK
  <2> QED  BY <2>1, <2>2
<1> QED  BY <1>1, <1>2, <1>3, Typing, PTL DEF Spec
=============================================================================

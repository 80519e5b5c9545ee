------------------------ MODULE EventRouterOS_proofs ------------------------
(* Theorems about EventRouterOS, for every number of tasks, modules, events *)
(* and interrupts, every queue capacity and every set of clients.           *)
EXTENDS EventRouterOS, FiniteSetTheorems, TLAPS

(* What a call that is at a given point carries.                           *)
LEMMA CallShapes ==
  ASSUME NEW x \in Calls
  PROVE  /\ x.pc = "mark" => x \in [pc : {"mark"}, e : Event, i : Task,
                                    mask : SUBSET Task, resend : BOOLEAN]
         /\ x.pc = "add" => x \in [pc : {"add"}, e : Event, i : {NumTasks + 1},
                                   mask : SUBSET Task, resend : BOOLEAN]
         /\ x.pc = "addReturn" => x \in [pc : {"addReturn"}, e : Event, mask : SUBSET Task]
         /\ x.pc = "post" => x \in [pc : {"post"}, e : Event,
                                    mask : (SUBSET Task) \ {{}}]
         /\ x.pc \in {"sub", "subOwner", "load", "deliver"} =>
              x \in [pc : {"sub", "subOwner", "load", "deliver"}, e : Event]
         /\ x.pc \in {"setTask", "clearTask"} =>
              x \in [pc : {"setTask", "clearTask"}, ty : Type]
  BY DEF Calls, None

(* What an activation of ErCallHandlers() at a given point carries.        *)
LEMMA ActivationShapes ==
  ASSUME NEW x \in Activations
  PROVE  /\ x.pc = "check" => x \in [pc : {"check"}, e : Event]
         /\ x.pc = "loop" => x \in [pc : {"loop"}, e : Event, i : Nat]
         /\ x.pc = "handler" => x \in [pc : {"handler"}, e : Event, m : Module]
  BY DEF Activations, None

(* Moving one context on to a well-formed call keeps all calls well formed.*)
LEMMA CallTyped ==
  ASSUME op \in [Context -> Calls], NEW c \in Context, NEW x \in Calls, Call(c, x)
  PROVE  op' \in [Context -> Calls]
  BY DEF Call

(* The posting that is left of ErSendEx() is a well-formed call.           *)
LEMMA PostingTyped ==
  ASSUME NEW e \in Event, NEW mask \in SUBSET Task
  PROVE  Posting(e, mask) \in Calls
  BY DEF Posting, Calls

(* Every event has an owner, and the owner a task.                         *)
LEMMA OwnerTaskTyped == \A e \in Event : OwnerTask(e) \in Task
  BY ModulesAssumption, EventsAssumption DEF OwnerTask

(* A mask of tasks is finite: its size can be added to a reference count.  *)
LEMMA MaskFinite ==
  ASSUME NEW mask \in SUBSET Task
  PROVE  IsFiniteSet(mask) /\ Cardinality(mask) \in Nat
<1>1. IsFiniteSet(Task)
  BY TasksAssumption, FS_Interval DEF Task
<1> QED  BY <1>1, FS_Subset, FS_CardinalityType

(* Adding to one reference count leaves every count a number.              *)
LEMMA AddTyped ==
  ASSUME m_reference_count \in [Event -> Int], NEW e \in Event, NEW n \in Int, Add(e, n)
  PROVE  m_reference_count' \in [Event -> Int]
  BY DEF Add

(* The type invariant holds in every state.                                *)
THEOREM Typing == Spec => []TypeOK
<1>1. ASSUME Init PROVE TypeOK
  <2>1. op \in [Context -> Calls] /\ disp \in [Task -> Activations]
    BY <1>1 DEF Init, Calls, Activations
  <2>2. kept \in [Module -> [Event -> Nat]] /\ owed \in [Event -> [Module -> Nat]]
    BY <1>1 DEF Init
  <2>3. queue \in [Task -> Seq(Event)] /\ m_reference_count \in [Event -> Int]
    BY <1>1 DEF Init
  <2>4. /\ moduleSubscriptions \in [Module -> SUBSET Type]
        /\ taskSubscriptions \in [Task -> SUBSET Type]
    BY <1>1 DEF Init
  <2>5. m_initialized \in BOOLEAN /\ inFlight \subseteq Event
    BY <1>1 DEF Init
  <2> QED  BY <2>1, <2>2, <2>3, <2>4, <2>5 DEF TypeOK
<1>2. ASSUME TypeOK, [Next]_vars PROVE TypeOK'
  <2> USE <1>2
  <2>0. Task \subseteq Context
    BY DEF Context
  <2>1. ASSUME NEW c \in Context, NEW e \in Event, NEW resend \in BOOLEAN,
               ErSendEx(c, e, resend)
        PROVE  TypeOK'
    <3>1. [pc |-> "mark", e |-> e, i |-> 1, mask |-> {}, resend |-> resend] \in Calls
      BY TasksAssumption DEF Calls, Task
    <3>2. op' \in [Context -> Calls]
      BY <2>1, <3>1, CallTyped DEF ErSendEx, TypeOK
    <3> QED  BY <2>1, <3>2 DEF ErSendEx, TypeOK, subscriptions
  <2>2. ASSUME NEW c \in Context, MarkTask(c) PROVE TypeOK'
    <3> DEFINE next == [op[c] EXCEPT !.mask = IF m_type[op[c].e] \in taskSubscriptions[op[c].i]
                                                THEN @ \cup {op[c].i} ELSE @,
                                     !.i = op[c].i + 1,
                                     !.pc = IF op[c].i = NumTasks THEN "add" ELSE @]
    <3>1. op[c] \in [pc : {"mark"}, e : Event, i : Task, mask : SUBSET Task,
                     resend : BOOLEAN]
      BY <2>2, CallShapes DEF MarkTask, At, TypeOK
    <3>2. next \in Calls
      <4>1. next.mask \in SUBSET Task /\ next.e \in Event /\ next.resend \in BOOLEAN
        BY <3>1
      <4>2. CASE op[c].i = NumTasks
        <5>1. next.i = NumTasks + 1 /\ next.pc = "add"
          BY <3>1, <4>2
        <5>2. next \in [pc : {"add"}, e : Event, i : {NumTasks + 1},
                        mask : SUBSET Task, resend : BOOLEAN]
          BY <3>1, <4>1, <5>1
        <5> QED  BY <5>2 DEF Calls
      <4>3. CASE op[c].i # NumTasks
        <5>1. next.i \in Task /\ next.pc = "mark"
          BY <3>1, <4>3, TasksAssumption DEF Task
        <5>2. next \in [pc : {"mark"}, e : Event, i : Task,
                        mask : SUBSET Task, resend : BOOLEAN]
          BY <3>1, <4>1, <5>1
        <5> QED  BY <5>2 DEF Calls
      <4> QED  BY <4>2, <4>3
    <3>3. Call(c, next)
      BY <2>2 DEF MarkTask
    <3>4. op' \in [Context -> Calls]
      BY <3>2, <3>3, CallTyped DEF TypeOK
    <3>5. owed' \in [Event -> [Module -> Nat]]
      BY <2>2, <3>1 DEF MarkTask, TypeOK
    <3> QED  BY <2>2, <3>4, <3>5 DEF MarkTask, TypeOK, subscriptions
  <2>3. ASSUME NEW c \in Context, AddSubscribers(c) PROVE TypeOK'
    <3>0. op[c] \in Calls /\ op[c].pc = "add"
      BY <2>3 DEF AddSubscribers, At, TypeOK
    <3>1. op[c].e \in Event /\ op[c].mask \in SUBSET Task
      BY <3>0, CallShapes
    <3>2. AfterCount(op[c].e, op[c].mask, m_reference_count[op[c].e]) \in Calls
      BY <3>1, PostingTyped DEF AfterCount, Calls
    <3>3. op' \in [Context -> Calls]
      BY <2>3, <3>2, CallTyped DEF AddSubscribers, TypeOK
    <3>4. Cardinality(op[c].mask) \in Int
      BY <3>1, MaskFinite
    <3>5. m_reference_count' \in [Event -> Int]
      BY <2>3, <3>1, <3>4, AddTyped DEF AddSubscribers, TypeOK
    <3> QED  BY <2>3, <3>3, <3>5 DEF AddSubscribers, TypeOK, subscriptions, history
  <2>4. ASSUME NEW c \in Context, AddReturnTrip(c) PROVE TypeOK'
    <3>1. op[c].e \in Event /\ op[c].mask \in SUBSET Task
      BY <2>4, CallShapes DEF AddReturnTrip, At, TypeOK
    <3>2. Posting(op[c].e, IF op[c].mask = {} THEN {OwnerTask(op[c].e)} ELSE op[c].mask)
            \in Calls
      BY <3>1, PostingTyped, OwnerTaskTyped
    <3>3. op' \in [Context -> Calls]
      BY <2>4, <3>2, CallTyped DEF AddReturnTrip, TypeOK
    <3>4. m_reference_count' \in [Event -> Int]
      BY <2>4, <3>1, AddTyped DEF AddReturnTrip, TypeOK
    <3> QED  BY <2>4, <3>3, <3>4 DEF AddReturnTrip, TypeOK, subscriptions, history
  <2>5. ASSUME NEW c \in Context, SendEvent(c) PROVE TypeOK'
    <3>0. op[c] \in Calls /\ op[c].pc = "post"
      BY <2>5 DEF SendEvent, At, TypeOK
    <3>1. op[c].e \in Event /\ op[c].mask \in SUBSET Task
      BY <3>0, CallShapes
    <3>2. Posting(op[c].e, op[c].mask \ {Smallest(op[c].mask)}) \in Calls
      BY <3>1, PostingTyped
    <3>3. op' \in [Context -> Calls]
      BY <2>5, <3>2, CallTyped DEF SendEvent, TypeOK
    <3>4. queue' \in [Task -> Seq(Event)]
      <4>1. \A q \in Seq(Event) : Append(q, op[c].e) \in Seq(Event)
        BY <3>1
      <4>2. PICK room \in BOOLEAN, t \in {Smallest(op[c].mask)} :
              queue' = [queue EXCEPT ![t] = IF room THEN Append(@, op[c].e) ELSE @]
        BY <2>5 DEF SendEvent
      <4> QED  BY <4>1, <4>2 DEF TypeOK
    <3> QED  BY <2>5, <3>3, <3>4 DEF SendEvent, TypeOK, subscriptions, history
  <2>6. ASSUME NEW t \in Task, ErReceive(t) PROVE TypeOK'
    <3>1. Head(queue[t]) \in Event /\ Tail(queue[t]) \in Seq(Event)
      BY <2>6 DEF ErReceive, TypeOK
    <3>2. disp' \in [Task -> Activations]
      BY <2>6, <3>1 DEF ErReceive, TypeOK, Activations
    <3> QED  BY <2>6, <3>1, <3>2 DEF ErReceive, TypeOK, subscriptions, history
  <2>7. ASSUME NEW t \in Task, disp[t].e \in Event, Done(t)
        PROVE  op' \in [Context -> Calls] /\ disp' \in [Task -> Activations]
    <3>1. [pc |-> "sub", e |-> disp[t].e] \in Calls
      BY <2>7 DEF Calls
    <3>2. op' \in [Context -> Calls]
      BY <2>0, <2>7, <3>1, CallTyped DEF Done, TypeOK
    <3> QED  BY <2>7, <3>2 DEF Done, TypeOK, Activations
  <2>8. ASSUME NEW t \in Task, ErCallHandlers(t) PROVE TypeOK'
    <3>1. disp[t].e \in Event
      BY <2>8, ActivationShapes DEF ErCallHandlers, Dispatching, TypeOK
    <3>2. op' \in [Context -> Calls] /\ disp' \in [Task -> Activations]
      <4>1. CASE m_reference_count[disp[t].e] <= 1
        BY <2>7, <2>8, <3>1, <4>1 DEF ErCallHandlers
      <4>2. CASE ~(m_reference_count[disp[t].e] <= 1)
        <5>1. UNCHANGED op
          BY <2>8, <4>2 DEF ErCallHandlers
        <5>2. disp' = [disp EXCEPT ![t] = [pc |-> "loop", e |-> disp[t].e, i |-> 0]]
          BY <2>8, <4>2 DEF ErCallHandlers
        <5> QED  BY <3>1, <5>1, <5>2 DEF TypeOK, Activations
      <4> QED  BY <4>1, <4>2
    <3> QED  BY <2>8, <3>2 DEF ErCallHandlers, TypeOK, subscriptions, history
  <2>9. ASSUME NEW t \in Task, CallNextHandler(t) PROVE TypeOK'
    <3> DEFINE ms == Receivers(t, disp[t].e, disp[t].i)
    <3>1. disp[t].e \in Event
      BY <2>9, ActivationShapes DEF CallNextHandler, Dispatching, TypeOK
    <3>2. CASE ms = {}
      <4>1. Done(t) /\ UNCHANGED owed
        BY <2>9, <3>2 DEF CallNextHandler
      <4>2. op' \in [Context -> Calls] /\ disp' \in [Task -> Activations]
        BY <2>7, <3>1, <4>1
      <4> QED  BY <2>9, <4>1, <4>2 DEF CallNextHandler, TypeOK, subscriptions
    <3>3. CASE ms # {}
      <4>1. PICK m \in ms :
              /\ disp' = [disp EXCEPT ![t] = [pc |-> "handler", e |-> disp[t].e, m |-> m]]
              /\ owed' = [owed EXCEPT ![disp[t].e][m] = IF @ = 0 THEN 0 ELSE @ - 1]
              /\ UNCHANGED op
        BY <2>9, <3>3 DEF CallNextHandler
      <4>2. m \in Module
        BY DEF Receivers, ModulesOf
      <4>3. disp' \in [Task -> Activations]
        BY <3>1, <4>1, <4>2 DEF TypeOK, Activations
      <4>4. owed' \in [Event -> [Module -> Nat]]
        BY <3>1, <4>1, <4>2 DEF TypeOK
      <4> QED  BY <2>9, <4>1, <4>3, <4>4 DEF CallNextHandler, TypeOK, subscriptions
    <3> QED  BY <3>2, <3>3
  <2>10. ASSUME NEW t \in Task, Dispatching(t, "handler")
         PROVE  disp[t].e \in Event /\ disp[t].m \in Module
    BY <2>10, ActivationShapes DEF Dispatching, TypeOK
  <2>11. ASSUME NEW t \in Task, Dispatching(t, "handler"), Continue(t)
         PROVE  disp' \in [Task -> Activations]
    <3>1. m_module_idx[disp[t].m] + 1 \in Nat
      BY <2>10, <2>11, ModulesAssumption
    <3> QED  BY <2>10, <2>11, <3>1 DEF Continue, TypeOK, Activations
  <2>12. ASSUME NEW t \in Task, HandlerHandled(t) PROVE TypeOK'
    <3>1. disp' \in [Task -> Activations]
      BY <2>11, <2>12 DEF HandlerHandled
    <3> QED  BY <2>12, <3>1 DEF HandlerHandled, TypeOK, subscriptions, history
  <2>13. ASSUME NEW t \in Task, HandlerKept(t) PROVE TypeOK'
    <3>1. disp' \in [Task -> Activations]
      BY <2>11, <2>13 DEF HandlerKept
    <3>2. m_reference_count' \in [Event -> Int]
      BY <2>10, <2>13, AddTyped DEF HandlerKept, TypeOK
    <3>3. kept' \in [Module -> [Event -> Nat]]
      BY <2>10, <2>13 DEF HandlerKept, TypeOK
    <3> QED  BY <2>13, <3>1, <3>2, <3>3 DEF HandlerKept, TypeOK, subscriptions, history
  <2>14. ASSUME NEW t \in Task, NEW m \in Module, NEW e \in Event,
                ErReturnToSender(t, m, e)
         PROVE  TypeOK'
    <3>1. [pc |-> "sub", e |-> e] \in Calls
      BY DEF Calls
    <3>2. op' \in [Context -> Calls]
      BY <2>0, <2>14, <3>1, CallTyped DEF ErReturnToSender, TypeOK
    <3>3. kept' \in [Module -> [Event -> Nat]]
      BY <2>14 DEF ErReturnToSender, TypeOK
    <3> QED  BY <2>14, <3>2, <3>3 DEF ErReturnToSender, TypeOK, subscriptions, history
  <2>15. ASSUME NEW t \in Task, op[t].pc \in {"sub", "subOwner", "load", "deliver"}
         PROVE  op[t].e \in Event
    BY <2>0, <2>15, CallShapes DEF TypeOK
  <2>16. ASSUME NEW t \in Task, DropReference(t) PROVE TypeOK'
    <3>1. op[t].e \in Event
      BY <2>15, <2>16 DEF DropReference, At
    <3>2. AfterDrop(t, op[t].e, m_reference_count[op[t].e] - 1) \in Calls
      BY <3>1, PostingTyped, OwnerTaskTyped DEF AfterDrop, Calls
    <3>3. op' \in [Context -> Calls]
      BY <2>0, <2>16, <3>2, CallTyped DEF DropReference, TypeOK
    <3>4. m_reference_count' \in [Event -> Int]
      BY <2>16, <3>1, AddTyped DEF DropReference, TypeOK
    <3> QED  BY <2>16, <3>3, <3>4 DEF DropReference, TypeOK, subscriptions, history
  <2>17. ASSUME NEW t \in Task, DropOwnerReference(t) PROVE TypeOK'
    <3>1. op[t].e \in Event
      BY <2>15, <2>17 DEF DropOwnerReference, At
    <3>2. [pc |-> "load", e |-> op[t].e] \in Calls
      BY <3>1 DEF Calls
    <3>3. op' \in [Context -> Calls]
      BY <2>0, <2>17, <3>2, CallTyped DEF DropOwnerReference, TypeOK
    <3>4. m_reference_count' \in [Event -> Int]
      <4>1. Add(op[t].e, -1)
        BY <2>17 DEF DropOwnerReference
      <4> QED  BY <3>1, <4>1, AddTyped DEF TypeOK
    <3> QED  BY <2>17, <3>3, <3>4 DEF DropOwnerReference, TypeOK, subscriptions, history
  <2>18. ASSUME NEW t \in Task, CheckReturned(t) PROVE TypeOK'
    <3>1. op[t].e \in Event
      BY <2>15, <2>18 DEF CheckReturned, At
    <3>2. (IF m_reference_count[op[t].e] = 0
             THEN [pc |-> "deliver", e |-> op[t].e] ELSE None) \in Calls
      BY <3>1 DEF Calls
    <3>3. op' \in [Context -> Calls]
      BY <2>0, <2>18, <3>2, CallTyped DEF CheckReturned, TypeOK
    <3> QED  BY <2>18, <3>3 DEF CheckReturned, TypeOK, subscriptions, history
  <2>19. None \in Calls
    BY DEF Calls
  <2>20. ASSUME NEW t \in Task, CallSender(t) PROVE TypeOK'
    <3>1. op' \in [Context -> Calls]
      BY <2>0, <2>19, <2>20, CallTyped DEF CallSender, TypeOK
    <3> QED  BY <2>20, <3>1 DEF CallSender, TypeOK, subscriptions
  <2>21. ASSUME NEW t \in Task, NEW m \in Module, NEW ty \in Type, ErSubscribe(t, m, ty)
         PROVE  TypeOK'
    <3>1. [pc |-> "setTask", ty |-> ty] \in Calls
      BY DEF Calls
    <3>2. op' \in [Context -> Calls]
      BY <2>0, <2>21, <3>1, CallTyped DEF ErSubscribe, TypeOK
    <3> QED  BY <2>21, <3>2 DEF ErSubscribe, TypeOK, history
  <2>22. ASSUME NEW t \in Task, NEW m \in Module, NEW ty \in Type, ErUnsubscribe(t, m, ty)
         PROVE  TypeOK'
    <3>1. [pc |-> "clearTask", ty |-> ty] \in Calls
      BY DEF Calls
    <3>2. op' \in [Context -> Calls]
      BY <2>0, <2>22, <3>1, CallTyped DEF ErUnsubscribe, TypeOK
    <3> QED  BY <2>22, <3>2 DEF ErUnsubscribe, TypeOK
  <2>23. ASSUME NEW t \in Task, SubscribeStep(t) PROVE TypeOK'
    <3>1. op[t].ty \in Type
      BY <2>0, <2>23, CallShapes DEF SubscribeStep, SetTaskBit, ClearTaskBit, At, TypeOK
    <3>2. op' \in [Context -> Calls]
      BY <2>0, <2>19, <2>23, CallTyped DEF SubscribeStep, SetTaskBit, ClearTaskBit, TypeOK
    <3>3. taskSubscriptions' \in [Task -> SUBSET Type]
      <4>1. PICK ty \in Type : op[t].ty = ty
        BY <3>1
      <4>2. taskSubscriptions \in [Task -> SUBSET Type]
        BY DEF TypeOK
      <4>3. CASE SetTaskBit(t)
        BY <4>1, <4>2, <4>3 DEF SetTaskBit
      <4>4. CASE ClearTaskBit(t)
        BY <4>1, <4>2, <4>4 DEF ClearTaskBit
      <4> QED  BY <2>23, <4>3, <4>4 DEF SubscribeStep
    <3> QED
      BY <2>23, <3>2, <3>3 DEF SubscribeStep, SetTaskBit, ClearTaskBit, TypeOK, history
  <2>24. ASSUME ErInit \/ ErDeinit PROVE TypeOK'
    BY <2>24 DEF ErInit, ErDeinit, TypeOK, subscriptions, history
  <2>25. CASE UNCHANGED vars
    BY <2>25 DEF vars, TypeOK
  <2> QED
    BY <2>1, <2>2, <2>3, <2>4, <2>5, <2>6, <2>8, <2>9, <2>12, <2>13, <2>14, <2>16,
       <2>17, <2>18, <2>20, <2>21, <2>22, <2>23, <2>24, <2>25
    DEF Next, SendStep, DispatchStep, ReturnStep
<1> QED  BY <1>1, <1>2, PTL DEF Spec
-----------------------------------------------------------------------------
(* A step that leaves the subscriptions alone, and every task that is about *)
(* to set its bit where it is, keeps all subscriptions covered.             *)
LEMMA CoveredKept ==
  ASSUME SubscriptionsCovered, UNCHANGED subscriptions,
         \A t \in Task : op[t].pc = "setTask" => op'[t] = op[t]
  PROVE  SubscriptionsCovered'
<1> SUFFICES ASSUME NEW m \in Module, NEW ty \in moduleSubscriptions[m]
             PROVE  \/ ty \in taskSubscriptions[m_task_idx[m]]
                    \/ op'[m_task_idx[m]] = [pc |-> "setTask", ty |-> ty]
  BY DEF SubscriptionsCovered, subscriptions
<1>1. m_task_idx[m] \in Task
  BY ModulesAssumption
<1>2. CASE op[m_task_idx[m]] = [pc |-> "setTask", ty |-> ty]
  BY <1>1, <1>2
<1>3. CASE ty \in taskSubscriptions[m_task_idx[m]]
  BY <1>3
<1> QED  BY <1>2, <1>3 DEF SubscriptionsCovered

(* A call that is made, or goes on, in a context that is not setting bits. *)
LEMMA CallElsewhere ==
  ASSUME TypeOK, NEW c \in Context, NEW x, Call(c, x), op[c].pc # "setTask"
  PROVE  \A t \in Task : op[t].pc = "setTask" => op'[t] = op[t]
  BY DEF Call, TypeOK, Context

(* No send overlooks a subscription: the task of a subscribed module is    *)
(* marked, whatever the modules of the task subscribe and unsubscribe.     *)
THEOREM Coverage == Spec => []SubscriptionsCovered
<1>1. Init => SubscriptionsCovered
  BY DEF Init, SubscriptionsCovered
<1>2. ASSUME TypeOK, SubscriptionsCovered, [Next]_vars PROVE SubscriptionsCovered'
  <2> USE <1>2
  <2>0. Task \subseteq Context
    BY DEF Context
  <2>1. ASSUME NEW c \in Context, NEW e \in Event, NEW resend \in BOOLEAN,
               ErSendEx(c, e, resend)
        PROVE  SubscriptionsCovered'
    <3>1. \A t \in Task : op[t].pc = "setTask" => op'[t] = op[t]
      BY <2>1, CallElsewhere DEF ErSendEx, InClient
    <3> QED  BY <2>1, <3>1, CoveredKept DEF ErSendEx
  <2>2. ASSUME NEW c \in Context, SendStep(c) PROVE SubscriptionsCovered'
    <3>1. PICK x : Call(c, x)
      BY <2>2 DEF SendStep, MarkTask, AddSubscribers, AddReturnTrip, SendEvent
    <3>2. op[c].pc # "setTask" /\ UNCHANGED subscriptions
      BY <2>2 DEF SendStep, MarkTask, AddSubscribers, AddReturnTrip, SendEvent, At
    <3> QED  BY <3>1, <3>2, CallElsewhere, CoveredKept
  <2>3. ASSUME NEW t \in Task, ErReceive(t) \/ HandlerHandled(t) \/ HandlerKept(t)
        PROVE  SubscriptionsCovered'
    BY <2>3, CoveredKept DEF ErReceive, HandlerHandled, HandlerKept
  <2>4. ASSUME NEW t \in Task, DispatchStep(t) PROVE SubscriptionsCovered'
    <3>1. UNCHANGED op \/ \E x : Call(t, x)
      BY <2>4 DEF DispatchStep, ErCallHandlers, CallNextHandler, Done
    <3>2. op[t].pc # "setTask" /\ UNCHANGED subscriptions
      BY <2>4 DEF DispatchStep, ErCallHandlers, CallNextHandler, Dispatching
    <3> QED  BY <2>0, <3>1, <3>2, CallElsewhere, CoveredKept
  <2>5. ASSUME NEW t \in Task, ReturnStep(t) PROVE SubscriptionsCovered'
    <3>1. PICK x : Call(t, x)
      BY <2>5 DEF ReturnStep, DropReference, DropOwnerReference, CheckReturned, CallSender
    <3>2. op[t].pc # "setTask" /\ UNCHANGED subscriptions
      BY <2>5
      DEF ReturnStep, DropReference, DropOwnerReference, CheckReturned, CallSender, At
    <3> QED  BY <2>0, <3>1, <3>2, CallElsewhere, CoveredKept
  <2>6. ASSUME NEW t \in Task, NEW m \in Module, NEW e \in Event,
               ErReturnToSender(t, m, e)
        PROVE  SubscriptionsCovered'
    <3>1. \A u \in Task : op[u].pc = "setTask" => op'[u] = op[u]
      BY <2>0, <2>6, CallElsewhere DEF ErReturnToSender, InClient
    <3> QED  BY <2>6, <3>1, CoveredKept DEF ErReturnToSender
  <2>7. ASSUME NEW t \in Task, NEW m \in Module, NEW ty \in Type, ErSubscribe(t, m, ty)
        PROVE  SubscriptionsCovered'
    <3> SUFFICES ASSUME NEW n \in Module, NEW u \in moduleSubscriptions'[n]
                 PROVE  \/ u \in taskSubscriptions[m_task_idx[n]]
                        \/ op'[m_task_idx[n]] = [pc |-> "setTask", ty |-> u]
      BY <2>7 DEF SubscriptionsCovered, ErSubscribe
    <3>1. op' = [op EXCEPT ![t] = [pc |-> "setTask", ty |-> ty]] /\ op[t].pc = "none"
      BY <2>7 DEF ErSubscribe, Call, InClient
    <3>2. moduleSubscriptions' = [moduleSubscriptions EXCEPT ![m] = @ \cup {ty}]
      BY <2>7 DEF ErSubscribe
    <3>3. CASE n = m /\ u = ty
      BY <2>0, <2>7, <3>1, <3>3 DEF ErSubscribe, TypeOK
    <3>4. CASE u \in moduleSubscriptions[n]
      <4>1. \/ u \in taskSubscriptions[m_task_idx[n]]
            \/ op[m_task_idx[n]] = [pc |-> "setTask", ty |-> u]
        BY <3>4 DEF SubscriptionsCovered
      <4>2. op[m_task_idx[n]] = [pc |-> "setTask", ty |-> u] => m_task_idx[n] # t
        BY <3>1
      <4> QED  BY <2>0, <3>1, <4>1, <4>2, ModulesAssumption DEF TypeOK
    <3> QED  BY <3>2, <3>3, <3>4 DEF TypeOK
  <2>8. ASSUME NEW t \in Task, NEW m \in Module, NEW ty \in Type, ErUnsubscribe(t, m, ty)
        PROVE  SubscriptionsCovered'
    <3>1. \A n \in Module : moduleSubscriptions'[n] \subseteq moduleSubscriptions[n]
      BY <2>8 DEF ErUnsubscribe, TypeOK
    <3>2. \A u \in Task : op[u].pc = "setTask" => op'[u] = op[u]
      BY <2>0, <2>8, CallElsewhere DEF ErUnsubscribe, InClient
    <3>3. UNCHANGED taskSubscriptions
      BY <2>8 DEF ErUnsubscribe
    <3> SUFFICES ASSUME NEW n \in Module, NEW u \in moduleSubscriptions'[n]
                 PROVE  \/ u \in taskSubscriptions[m_task_idx[n]]
                        \/ op'[m_task_idx[n]] = [pc |-> "setTask", ty |-> u]
      BY <3>3 DEF SubscriptionsCovered
    <3>4. m_task_idx[n] \in Task /\ u \in moduleSubscriptions[n]
      BY <3>1, ModulesAssumption
    <3>5. CASE op[m_task_idx[n]] = [pc |-> "setTask", ty |-> u]
      BY <3>2, <3>4, <3>5
    <3> QED  BY <3>4, <3>5 DEF SubscriptionsCovered
  <2>9. ASSUME NEW t \in Task, SetTaskBit(t) PROVE SubscriptionsCovered'
    <3> SUFFICES ASSUME NEW n \in Module, NEW u \in moduleSubscriptions[n]
                 PROVE  \/ u \in taskSubscriptions'[m_task_idx[n]]
                        \/ op'[m_task_idx[n]] = [pc |-> "setTask", ty |-> u]
      BY <2>9 DEF SubscriptionsCovered, SetTaskBit
    <3>1. m_task_idx[n] \in Task
      BY ModulesAssumption
    <3>2. /\ taskSubscriptions' = [taskSubscriptions EXCEPT ![t] = @ \cup {op[t].ty}]
          /\ op' = [op EXCEPT ![t] = None]
      BY <2>9 DEF SetTaskBit, Call
    <3>3. CASE u \in taskSubscriptions[m_task_idx[n]]
      BY <3>1, <3>2, <3>3 DEF TypeOK
    <3>4. CASE op[m_task_idx[n]] = [pc |-> "setTask", ty |-> u]
      <4>1. CASE m_task_idx[n] = t
        BY <3>1, <3>2, <3>4, <4>1 DEF TypeOK
      <4>2. CASE m_task_idx[n] # t
        BY <2>0, <3>1, <3>2, <3>4, <4>2 DEF TypeOK
      <4> QED  BY <4>1, <4>2
    <3> QED  BY <3>3, <3>4 DEF SubscriptionsCovered
  <2>10. ASSUME NEW t \in Task, ClearTaskBit(t) PROVE SubscriptionsCovered'
    <3> SUFFICES ASSUME NEW n \in Module, NEW u \in moduleSubscriptions[n]
                 PROVE  \/ u \in taskSubscriptions'[m_task_idx[n]]
                        \/ op'[m_task_idx[n]] = [pc |-> "setTask", ty |-> u]
      BY <2>10 DEF SubscriptionsCovered, ClearTaskBit
    <3>1. m_task_idx[n] \in Task
      BY ModulesAssumption
    <3>2. op' = [op EXCEPT ![t] = None] /\ op[t].pc = "clearTask"
      BY <2>10 DEF ClearTaskBit, Call, At
    <3>3. CASE m_task_idx[n] = t
      <4>1. u \in taskSubscriptions[t]
        <5>1. op[t] # [pc |-> "setTask", ty |-> u]
          BY <3>2
        <5> QED  BY <3>3, <5>1 DEF SubscriptionsCovered
      <4>2. CASE u = op[t].ty
        <5>1. \E m \in ModulesOf(t) : op[t].ty \in moduleSubscriptions[m]
          BY <3>3, <4>2 DEF ModulesOf
        <5> QED  BY <2>10, <3>3, <4>1, <5>1 DEF ClearTaskBit, TypeOK
      <4>3. CASE u # op[t].ty
        BY <2>10, <3>3, <4>1, <4>3 DEF ClearTaskBit, TypeOK
      <4> QED  BY <4>2, <4>3
    <3>4. CASE m_task_idx[n] # t
      <4>1. taskSubscriptions'[m_task_idx[n]] = taskSubscriptions[m_task_idx[n]]
        BY <2>10, <3>1, <3>4 DEF ClearTaskBit, TypeOK
      <4>2. op'[m_task_idx[n]] = op[m_task_idx[n]]
        BY <2>0, <3>1, <3>2, <3>4 DEF TypeOK
      <4> QED  BY <4>1, <4>2 DEF SubscriptionsCovered
    <3> QED  BY <3>3, <3>4
  <2>11. ASSUME ErInit PROVE SubscriptionsCovered'
    BY <2>11 DEF ErInit, SubscriptionsCovered
  <2>12. ASSUME ErDeinit PROVE SubscriptionsCovered'
    BY <2>12, CoveredKept DEF ErDeinit
  <2>13. CASE UNCHANGED vars
    BY <2>13, CoveredKept DEF vars, subscriptions
  <2> QED
    BY <2>1, <2>2, <2>3, <2>4, <2>5, <2>6, <2>7, <2>8, <2>9, <2>10, <2>11, <2>12, <2>13
    DEF Next, SubscribeStep
<1> QED  BY <1>1, <1>2, Typing, PTL DEF Spec
=============================================================================

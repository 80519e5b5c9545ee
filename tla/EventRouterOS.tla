--------------------------- MODULE EventRouterOS ---------------------------
(***************************************************************************)
(* The Event Router for operating systems (eventrouter_os.c): tasks and     *)
(* interrupts that send events, mark and post them to the queues of the     *)
(* subscribed tasks, deliver them to the modules of a task, and return them *)
(* to the module that owns them when the reference count says so.           *)
(*                                                                          *)
(* Atomicity: an action makes at most one access to memory that another     *)
(* context may change (an atomic_* call, a queue operation).  A context is  *)
(* a task, an unregistered thread or an interrupt.  op[c] is the API call   *)
(* it is in; disp[t] is the ErCallHandlers() activation underneath, whose   *)
(* handlers may make API calls.  ErCallHandlers() ends with a call of       *)
(* ErReturnToSender(), and that one with a call of the sender's handler, so *)
(* both are tail calls and no deeper stack is needed: what the sender's     *)
(* handler does is what the task does right after the call.                 *)
(***************************************************************************)
EXTENDS Integers, Sequences, FiniteSets

CONSTANTS
  NumTasks,         \* m_num_tasks: tasks 1..NumTasks, by falling priority
  Module, Type, Event,
  m_task_idx,       \* the task of each module
  m_module_idx,     \* the position of each module in its task's list
  m_type,           \* the type of each event
  m_sending_module, \* the owner of each event
  External,         \* threads that are not registered as tasks
  Isr,              \* interrupt handlers
  MaySend,          \* the idle events a context may send
  MayResend,        \* the events a context may send with m_allow_resending
  MaySubscribe,     \* the pairs <<module, type>> that may be subscribed
  MayKeep,          \* the modules whose handler may return KEPT
  Capacity,         \* of each task's queue
  Blocking,         \* TRUE: a full queue blocks (POSIX); FALSE: it asserts
  MaxReferences     \* bound of the model: no re-send beyond this count

Task == 1..NumTasks
Context == Task \cup External \cup Isr

ASSUME TasksAssumption == NumTasks \in Nat \ {0}
ASSUME ContextsAssumption ==
  /\ Task \cap (External \cup Isr) = {}
  /\ External \cap Isr = {}
ASSUME ModulesAssumption ==
  /\ m_task_idx \in [Module -> Task]
  /\ m_module_idx \in [Module -> Nat]
  /\ \A m, n \in Module :
       m_task_idx[m] = m_task_idx[n] /\ m_module_idx[m] = m_module_idx[n] => m = n
ASSUME EventsAssumption ==
  /\ m_type \in [Event -> Type]
  /\ m_sending_module \in [Event -> Module]
ASSUME ClientsAssumption ==
  /\ MaySend \in [Context -> SUBSET Event]
  /\ MayResend \in [Context -> SUBSET Event]
  /\ MaySubscribe \subseteq Module \X Type
  /\ MayKeep \subseteq Module
ASSUME BoundsAssumption ==
  Capacity \in Nat \ {0} /\ MaxReferences \in Nat /\ Blocking \in BOOLEAN

VARIABLES
  m_initialized,       \* between ErInit() and ErDeinit()
  m_reference_count,   \* of each event
  moduleSubscriptions, \* the types each module's bits are set for
  taskSubscriptions,   \* the types each task's bits are set for
  queue,               \* m_event_queue of each task
  op,                  \* the API call each context is in
  disp,                \* the ErCallHandlers() activation of each task
  kept,                \* how often each module keeps each event
  failed,              \* the assertion that stopped the program, if any
  inFlight,            \* history: events sent and not handed back since
  owed                 \* history: deliveries each module is still due

vars == <<m_initialized, m_reference_count, moduleSubscriptions,
          taskSubscriptions, queue, op, disp, kept, failed, inFlight, owed>>
subscriptions == <<moduleSubscriptions, taskSubscriptions>>
history == <<inFlight, owed>>
-----------------------------------------------------------------------------
None == [pc |-> "none"]

OwnerTask(e) == m_task_idx[m_sending_module[e]]
ModulesOf(t) == {m \in Module : m_task_idx[m] = t}
Subscribed(m, e) == m_type[e] \in moduleSubscriptions[m]
Smallest(S) == CHOOSE i \in S : \A j \in S : i <= j

(* A context runs unless an assertion failed or another interrupt is       *)
(* running: interrupts run to completion.                                  *)
Running(c) ==
  /\ failed = "none"
  /\ \A i \in Isr \ {c} : op[i].pc = "none"

Activation(t) == IF t \in Task THEN disp[t] ELSE None

(* The context runs the client's code (a handler or the task's own loop)   *)
(* and may call: every function asserts that the router is initialized.    *)
InClient(c) ==
  /\ Running(c)
  /\ m_initialized
  /\ op[c].pc = "none"
  /\ Activation(c).pc \in {"none", "handler"}

At(c, pc) == Running(c) /\ op[c].pc = pc

Call(c, call) == op' = [op EXCEPT ![c] = call]
Add(e, n) == m_reference_count' = [m_reference_count EXCEPT ![e] = @ + n]
(* ER_ASSERT(): the program stops when the condition does not hold.        *)
Assert(cond, label) == failed' = IF cond THEN failed ELSE label

(* The call that is left once the reference count is known: post to every  *)
(* task of the mask, or nothing.                                           *)
Posting(e, mask) ==
  IF mask = {} THEN None ELSE [pc |-> "post", e |-> e, mask |-> mask]
-----------------------------------------------------------------------------
(* The program has started: all memory is zero.                            *)
Init ==
  /\ m_initialized = FALSE
  /\ m_reference_count = [e \in Event |-> 0]
  /\ moduleSubscriptions = [m \in Module |-> {}]
  /\ taskSubscriptions = [t \in Task |-> {}]
  /\ queue = [t \in Task |-> <<>>]
  /\ op = [c \in Context |-> None]
  /\ disp = [t \in Task |-> None]
  /\ kept = [m \in Module |-> [e \in Event |-> 0]]
  /\ failed = "none"
  /\ inFlight = {}
  /\ owed = [e \in Event |-> [m \in Module |-> 0]]

(* A definition named Bug... is the one that follows it with a mistake it   *)
(* guards against; no specification uses them, and each breaks a property. *)
(* The bits of the tasks are cleared, those of the modules are not.        *)
BugErInit ==
  /\ failed = "none"
  /\ ~m_initialized
  /\ m_initialized' = TRUE
  /\ taskSubscriptions' = [t \in Task |-> {}]
  /\ UNCHANGED <<m_reference_count, moduleSubscriptions, queue, op, disp, kept,
                 failed, history>>

(* The modules' subscriptions are cleared; the tasks' bits stay as they    *)
(* were when ErDeinit() was called.                                        *)
ErInit ==
  /\ failed = "none"
  /\ ~m_initialized
  /\ m_initialized' = TRUE
  /\ moduleSubscriptions' = [m \in Module |-> {}]
  /\ UNCHANGED <<m_reference_count, taskSubscriptions, queue, op, disp, kept,
                 failed, history>>

(* Clients call it when no call is in progress and nothing is queued (the  *)
(* tests insist on that); modules may still keep events.                   *)
ErDeinit ==
  /\ failed = "none"
  /\ m_initialized
  /\ \A c \in Context : op[c].pc = "none"
  /\ \A t \in Task : disp[t].pc = "none" /\ queue[t] = <<>>
  /\ m_initialized' = FALSE
  /\ UNCHANGED <<m_reference_count, subscriptions, queue, op, disp, kept, failed,
                 history>>

BugReturningLooksIdle(e) == m_reference_count[e] > 1

(* Clients ask ErEventIsInFlight() before a plain send.                    *)
ErEventIsInFlight(e) == m_reference_count[e] # 0

ErSendEx(c, e, resend) ==
  /\ InClient(c)
  /\ IF resend
       THEN e \in MayResend[c] /\ m_reference_count[e] <= MaxReferences
       ELSE e \in MaySend[c] /\ ~ErEventIsInFlight(e)
  /\ Assert(~Subscribed(m_sending_module[e], e), "sender is subscribed")
  /\ Call(c, [pc |-> "mark", e |-> e, i |-> 1, mask |-> {}, resend |-> resend])
  /\ inFlight' = inFlight \cup {e}
  /\ UNCHANGED <<m_initialized, m_reference_count, subscriptions, queue, disp,
                 kept, owed>>

(* The loop runs once too often.                                           *)
BugMarkTask(c) ==
  /\ At(c, "mark")
  /\ Call(c, [op[c] EXCEPT !.i = @ + 1, !.pc = IF op[c].i > NumTasks THEN "add" ELSE @])
  /\ UNCHANGED <<m_initialized, m_reference_count, subscriptions, queue, disp,
                 kept, failed, history>>

(* One iteration of the loop that counts and marks the subscribed tasks.   *)
MarkTask(c) ==
  /\ At(c, "mark")
  /\ LET e == op[c].e
         t == op[c].i
         marked == m_type[e] \in taskSubscriptions[t]
     IN /\ Call(c, [op[c] EXCEPT !.mask = IF marked THEN @ \cup {t} ELSE @,
                                 !.i = t + 1,
                                 !.pc = IF t = NumTasks THEN "add" ELSE @])
        /\ owed' = [owed EXCEPT ![e] = [m \in Module |->
                      IF marked /\ m_task_idx[m] = t /\ Subscribed(m, e)
                        THEN @[m] + 1 ELSE @[m]]]
  /\ UNCHANGED <<m_initialized, m_reference_count, subscriptions, queue, disp,
                 kept, failed, inFlight>>

(* Only interrupts.                                                        *)
BugEventResendingAllowed(c, e, resend) == resend /\ c \in Isr

EventResendingAllowed(c, e, resend) ==
  resend /\ (c \in Isr \/ c = OwnerTask(e))

(* The copy on its way back to the owner's task is not used for the        *)
(* owner's subscribers: they get one of their own.                         *)
BugExtraCopy(e, mask, old) ==
  IF old = 0 \/ (old = 1 /\ mask # {} /\ OwnerTask(e) \notin mask)
    THEN [pc |-> "addReturn", e |-> e, mask |-> mask]
    ELSE Posting(e, mask)

(* What ErSendEx() still has to do after its fetch_add, given the count    *)
(* before it.                                                              *)
AfterCount(e, mask, old) ==
  IF old = 0 \/ (old = 1 /\ mask # {} /\ OwnerTask(e) \notin mask)
    THEN [pc |-> "addReturn", e |-> e, mask |-> mask]
    ELSE Posting(e, IF old = 1 THEN mask \ {OwnerTask(e)} ELSE mask)

AddSubscribers(c) ==
  /\ At(c, "add")
  /\ LET e == op[c].e
         old == m_reference_count[e]
     IN /\ Add(e, Cardinality(op[c].mask))
        /\ Assert(old = 0 \/ (old > 0 /\ EventResendingAllowed(c, e, op[c].resend)),
                  IF old < 0 THEN "negative reference count" ELSE "re-sent")
        /\ Call(c, AfterCount(e, op[c].mask, old))
  /\ UNCHANGED <<m_initialized, subscriptions, queue, disp, kept, history>>

(* Nobody is subscribed and nobody gets the event.                         *)
BugNobodySubscribed(c) ==
  /\ At(c, "addReturn")
  /\ Add(op[c].e, 1)
  /\ Call(c, Posting(op[c].e, op[c].mask))
  /\ UNCHANGED <<m_initialized, subscriptions, queue, disp, kept, failed, history>>

(* The "plus one" for the way back; with no subscribers the event goes     *)
(* straight to its owner's task.                                           *)
AddReturnTrip(c) ==
  /\ At(c, "addReturn")
  /\ Add(op[c].e, 1)
  /\ Call(c, Posting(op[c].e, IF op[c].mask = {} THEN {OwnerTask(op[c].e)}
                                                 ELSE op[c].mask))
  /\ UNCHANGED <<m_initialized, subscriptions, queue, disp, kept, failed, history>>

(* SendEvent() to the task of highest priority that is still marked.       *)
SendEvent(c) ==
  /\ At(c, "post")
  /\ LET e == op[c].e
         t == Smallest(op[c].mask)
         room == Len(queue[t]) < Capacity
     IN /\ Blocking => room
        /\ Assert(room, "queue is full")
        /\ queue' = [queue EXCEPT ![t] = IF room THEN Append(@, e) ELSE @]
        /\ Call(c, Posting(e, op[c].mask \ {t}))
  /\ UNCHANGED <<m_initialized, m_reference_count, subscriptions, disp, kept,
                 history>>
-----------------------------------------------------------------------------
(* A task's loop: ErCallHandlers(ErReceive()).                             *)
ErReceive(t) ==
  /\ InClient(t)
  /\ disp[t].pc = "none"
  /\ queue[t] # <<>>
  /\ disp' = [disp EXCEPT ![t] = [pc |-> "check", e |-> Head(queue[t])]]
  /\ queue' = [queue EXCEPT ![t] = Tail(@)]
  /\ UNCHANGED <<m_initialized, m_reference_count, subscriptions, op, kept, failed,
                 history>>

(* ErReturnToSender() takes over from ErCallHandlers().                    *)
Done(t) ==
  /\ disp' = [disp EXCEPT ![t] = None]
  /\ Call(t, [pc |-> "sub", e |-> disp[t].e])

Dispatching(t, pc) == Running(t) /\ op[t].pc = "none" /\ disp[t].pc = pc

(* The last task to deliver the event takes it for one on its way back.    *)
BugErCallHandlers(t) ==
  /\ Dispatching(t, "check")
  /\ IF m_reference_count[disp[t].e] <= 2
       THEN Done(t)
       ELSE /\ disp' = [disp EXCEPT ![t] = [pc |-> "loop", e |-> disp[t].e, i |-> 0]]
            /\ UNCHANGED op
  /\ UNCHANGED <<m_initialized, m_reference_count, subscriptions, queue, kept,
                 failed, history>>

(* A count of one or less says that the event is on its way back.          *)
ErCallHandlers(t) ==
  /\ Dispatching(t, "check")
  /\ IF m_reference_count[disp[t].e] <= 1
       THEN Done(t)
       ELSE /\ disp' = [disp EXCEPT ![t] = [pc |-> "loop", e |-> disp[t].e, i |-> 0]]
            /\ UNCHANGED op
  /\ UNCHANGED <<m_initialized, m_reference_count, subscriptions, queue, kept,
                 failed, history>>

(* The modules from position i of the task's list that are subscribed now. *)
Receivers(t, e, i) ==
  {m \in ModulesOf(t) : m_module_idx[m] >= i /\ Subscribed(m, e)}

CallNextHandler(t) ==
  /\ Dispatching(t, "loop")
  /\ LET e == disp[t].e
         ms == Receivers(t, e, disp[t].i)
     IN IF ms = {}
          THEN Done(t) /\ UNCHANGED owed
          ELSE \E m \in ms :
                 /\ \A n \in ms : m_module_idx[m] <= m_module_idx[n]
                 /\ disp' = [disp EXCEPT ![t] =
                               [pc |-> "handler", e |-> e, m |-> m]]
                 /\ owed' = [owed EXCEPT ![e][m] = IF @ = 0 THEN 0 ELSE @ - 1]
                 /\ UNCHANGED op
  /\ UNCHANGED <<m_initialized, m_reference_count, subscriptions, queue, kept,
                 failed, inFlight>>

Continue(t) ==
  disp' = [disp EXCEPT ![t] = [pc |-> "loop", e |-> disp[t].e,
                               i |-> m_module_idx[disp[t].m] + 1]]

(* The handler returns ER_EVENT_HANDLER_RET__HANDLED.                      *)
HandlerHandled(t) ==
  /\ Dispatching(t, "handler")
  /\ Continue(t)
  /\ UNCHANGED <<m_initialized, m_reference_count, subscriptions, queue, op, kept,
                 failed, history>>

(* The reference of the module that keeps the event is not counted.        *)
BugHandlerKept(t) ==
  /\ Dispatching(t, "handler")
  /\ disp[t].m \in MayKeep
  /\ kept' = [kept EXCEPT ![disp[t].m][disp[t].e] = @ + 1]
  /\ Continue(t)
  /\ UNCHANGED <<m_initialized, m_reference_count, subscriptions, queue, op,
                 failed, history>>

(* The handler returns ER_EVENT_HANDLER_RET__KEPT.                         *)
HandlerKept(t) ==
  /\ Dispatching(t, "handler")
  /\ disp[t].m \in MayKeep
  /\ Add(disp[t].e, 1)
  /\ kept' = [kept EXCEPT ![disp[t].m][disp[t].e] = @ + 1]
  /\ Continue(t)
  /\ UNCHANGED <<m_initialized, subscriptions, queue, op, failed, history>>
-----------------------------------------------------------------------------
(* A module that kept an event gives it back.                              *)
ErReturnToSender(t, m, e) ==
  /\ InClient(t)
  /\ m_task_idx[m] = t
  /\ kept[m][e] > 0
  /\ kept' = [kept EXCEPT ![m][e] = @ - 1]
  /\ Call(t, [pc |-> "sub", e |-> e])
  /\ UNCHANGED <<m_initialized, m_reference_count, subscriptions, queue, disp,
                 failed, history>>

(* The last subscriber but one returns the event.                          *)
BugReturnTooSoon(t, e, count) ==
  IF count > 2 \/ count < 1 THEN [pc |-> "load", e |-> e]
  ELSE IF t # OwnerTask(e) THEN Posting(e, {OwnerTask(e)})
  ELSE [pc |-> "subOwner", e |-> e]

(* What ErReturnToSender() does next, given the count after its fetch_sub. *)
AfterDrop(t, e, count) ==
  IF count # 1 THEN [pc |-> "load", e |-> e]
  ELSE IF t # OwnerTask(e) THEN Posting(e, {OwnerTask(e)})
  ELSE [pc |-> "subOwner", e |-> e]

DropReference(t) ==
  /\ At(t, "sub")
  /\ Add(op[t].e, -1)
  /\ Call(t, AfterDrop(t, op[t].e, m_reference_count[op[t].e] - 1))
  /\ UNCHANGED <<m_initialized, subscriptions, queue, disp, kept, failed, history>>

(* The owner lives in this task: consume the way back without a queue.     *)
DropOwnerReference(t) ==
  /\ At(t, "subOwner")
  /\ Assert(m_reference_count[op[t].e] = 1, "return trip is not the last reference")
  /\ Add(op[t].e, -1)
  /\ Call(t, [pc |-> "load", e |-> op[t].e])
  /\ UNCHANGED <<m_initialized, subscriptions, queue, disp, kept, history>>

(* The count is not looked at again.                                       *)
BugCheckReturned(t) ==
  /\ At(t, "load")
  /\ Call(t, [pc |-> "deliver", e |-> op[t].e])
  /\ UNCHANGED <<m_initialized, m_reference_count, subscriptions, queue, disp,
                 kept, failed, history>>

CheckReturned(t) ==
  /\ At(t, "load")
  /\ Call(t, IF m_reference_count[op[t].e] = 0
               THEN [pc |-> "deliver", e |-> op[t].e] ELSE None)
  /\ UNCHANGED <<m_initialized, m_reference_count, subscriptions, queue, disp,
                 kept, failed, history>>

(* The sender's handler gets its event back.                               *)
CallSender(t) ==
  /\ At(t, "deliver")
  /\ inFlight' = inFlight \ {op[t].e}
  /\ Call(t, None)
  /\ UNCHANGED <<m_initialized, m_reference_count, subscriptions, queue, disp,
                 kept, failed, owed>>
-----------------------------------------------------------------------------
(* Both are called from the task of the module, as eventrouter.h requires. *)
ErSubscribe(t, m, ty) ==
  /\ InClient(t)
  /\ m_task_idx[m] = t
  /\ <<m, ty>> \in MaySubscribe
  /\ moduleSubscriptions' = [moduleSubscriptions EXCEPT ![m] = @ \cup {ty}]
  /\ Call(t, [pc |-> "setTask", ty |-> ty])
  /\ UNCHANGED <<m_initialized, m_reference_count, taskSubscriptions, queue, disp,
                 kept, failed, history>>

SetTaskBit(t) ==
  /\ At(t, "setTask")
  /\ taskSubscriptions' = [taskSubscriptions EXCEPT ![t] = @ \cup {op[t].ty}]
  /\ Call(t, None)
  /\ UNCHANGED <<m_initialized, m_reference_count, moduleSubscriptions, queue,
                 disp, kept, failed, history>>

(* A module that unsubscribes gives up the deliveries it was due.          *)
ErUnsubscribe(t, m, ty) ==
  /\ InClient(t)
  /\ m_task_idx[m] = t
  /\ <<m, ty>> \in MaySubscribe
  /\ moduleSubscriptions' = [moduleSubscriptions EXCEPT ![m] = @ \ {ty}]
  /\ Call(t, [pc |-> "clearTask", ty |-> ty])
  /\ owed' = [e \in Event |-> [n \in Module |->
                IF n = m /\ m_type[e] = ty THEN 0 ELSE owed[e][n]]]
  /\ UNCHANGED <<m_initialized, m_reference_count, taskSubscriptions, queue, disp,
                 kept, failed, inFlight>>

(* The task's bit goes with any subscription.                              *)
BugClearTaskBit(t) ==
  /\ At(t, "clearTask")
  /\ taskSubscriptions' = [taskSubscriptions EXCEPT ![t] = @ \ {op[t].ty}]
  /\ Call(t, None)
  /\ UNCHANGED <<m_initialized, m_reference_count, moduleSubscriptions, queue,
                 disp, kept, failed, history>>

(* The task's bit goes with the last subscription among its modules.  The  *)
(* look at these bits and the write are one step: only this task changes   *)
(* the bits of its modules and its own, as eventrouter.h asks, and it is   *)
(* in this call until the write.                                           *)
ClearTaskBit(t) ==
  /\ At(t, "clearTask")
  /\ LET any_subscriptions ==
           \E m \in ModulesOf(t) : op[t].ty \in moduleSubscriptions[m]
     IN taskSubscriptions' = [taskSubscriptions EXCEPT ![t] =
                                IF any_subscriptions THEN @ ELSE @ \ {op[t].ty}]
  /\ Call(t, None)
  /\ UNCHANGED <<m_initialized, m_reference_count, moduleSubscriptions, queue,
                 disp, kept, failed, history>>
-----------------------------------------------------------------------------
SendStep(c) ==
  MarkTask(c) \/ AddSubscribers(c) \/ AddReturnTrip(c) \/ SendEvent(c)

ReturnStep(t) ==
  DropReference(t) \/ DropOwnerReference(t) \/ CheckReturned(t) \/ CallSender(t)

DispatchStep(t) == ErCallHandlers(t) \/ CallNextHandler(t)

SubscribeStep(t) == SetTaskBit(t) \/ ClearTaskBit(t)

Next ==
  \/ ErInit
  \/ ErDeinit
  \/ \E c \in Context :
       \/ \E e \in Event, resend \in BOOLEAN : ErSendEx(c, e, resend)
       \/ SendStep(c)
  \/ \E t \in Task :
       \/ ErReceive(t)
       \/ DispatchStep(t)
       \/ HandlerHandled(t)
       \/ HandlerKept(t)
       \/ ReturnStep(t)
       \/ SubscribeStep(t)
       \/ \E m \in Module :
            \/ \E e \in Event : ErReturnToSender(t, m, e)
            \/ \E ty \in Type : ErSubscribe(t, m, ty) \/ ErUnsubscribe(t, m, ty)

Spec == Init /\ [][Next]_vars

(* The router is initialized, and again after each ErDeinit(); a call in   *)
(* progress goes on; a task keeps coming back to ErReceive(), a handler    *)
(* returns, and a module gives back what it keeps, however often they make *)
(* other calls in between.                                                 *)
Fairness ==
  /\ WF_vars(ErInit)
  /\ \A c \in Context : WF_vars(SendStep(c))
  /\ \A t \in Task :
       /\ WF_vars(DispatchStep(t) \/ ReturnStep(t) \/ SubscribeStep(t))
       /\ SF_vars(ErReceive(t))
       /\ SF_vars(HandlerHandled(t) \/ HandlerKept(t))
  /\ \A m \in MayKeep, e \in Event :
       SF_vars(ErReturnToSender(m_task_idx[m], m, e))

FairSpec == Spec /\ Fairness
-----------------------------------------------------------------------------
Calls ==
  {None}
    \cup [pc : {"mark"}, e : Event, i : Task, mask : SUBSET Task, resend : BOOLEAN]
    \cup [pc : {"add"}, e : Event, i : {NumTasks + 1}, mask : SUBSET Task,
          resend : BOOLEAN]
    \cup [pc : {"addReturn"}, e : Event, mask : SUBSET Task]
    \cup [pc : {"post"}, e : Event, mask : (SUBSET Task) \ {{}}]
    \cup [pc : {"sub", "subOwner", "load", "deliver"}, e : Event]
    \cup [pc : {"setTask", "clearTask"}, ty : Type]

Activations ==
  {None}
    \cup [pc : {"check"}, e : Event]
    \cup [pc : {"loop"}, e : Event, i : Nat]
    \cup [pc : {"handler"}, e : Event, m : Module]

(* The type invariant: no field holds what the code's types exclude.       *)
TypeOK ==
  /\ m_initialized \in BOOLEAN
  /\ m_reference_count \in [Event -> Int]
  /\ moduleSubscriptions \in [Module -> SUBSET Type]
  /\ taskSubscriptions \in [Task -> SUBSET Type]
  /\ queue \in [Task -> Seq(Event)]
  /\ op \in [Context -> Calls]
  /\ disp \in [Task -> Activations]
  /\ kept \in [Module -> [Event -> Nat]]
  /\ inFlight \subseteq Event
  /\ owed \in [Event -> [Module -> Nat]]

(* A subscribed module's task is marked as subscribed, except while one of *)
(* the task's own calls is about to say so: no send overlooks a            *)
(* subscription, whatever other modules of the task unsubscribe meanwhile. *)
SubscriptionsCovered ==
  \A m \in Module : \A ty \in moduleSubscriptions[m] :
    \/ ty \in taskSubscriptions[m_task_idx[m]]
    \/ op[m_task_idx[m]] = [pc |-> "setTask", ty |-> ty]

(* Everything that will still call ErReturnToSender() for the event: a     *)
(* copy that is marked, queued or being delivered, a call that did not     *)
(* reach its fetch_sub, a module that keeps the event.                     *)
Marked(e) ==
  {x \in Context \X Task : /\ op[x[1]].pc \in {"addReturn", "post"}
                           /\ op[x[1]].e = e
                           /\ x[2] \in op[x[1]].mask}
Queued(e) ==
  {x \in Task \X (1..Capacity) : /\ x[2] <= Len(queue[x[1]])
                                 /\ queue[x[1]][x[2]] = e}
Delivered(e) == {t \in Task : disp[t].pc # "none" /\ disp[t].e = e}
Returned(e) == {t \in Task : op[t].pc \in {"sub", "subOwner"} /\ op[t].e = e}
Keeping(e) == UNION {{m} \X (1..kept[m][e]) : m \in Module}

References(e) ==
  Cardinality(Marked(e)) + Cardinality(Queued(e)) + Cardinality(Delivered(e))
    + Cardinality(Returned(e)) + Cardinality(Keeping(e))

(* ErSendEx() counted the event's subscribers but not yet its way back.    *)
HalfCounted(e) ==
  \E c \in Context : op[c].pc = "addReturn" /\ op[c].e = e

(* The reference count is the number of references, plus one for the way   *)
(* back until the last of them has become that way back ("the 1 is         *)
(* consumed"): an idle event has no reference, a returning event has one.  *)
RefCountMatches ==
  failed = "none" =>
    \A e \in Event :
      LET rc == m_reference_count[e]
          wayBack == IF rc > 1 /\ ~HalfCounted(e) THEN 1 ELSE 0
      IN rc = References(e) + wayBack

(* "The reference count may NEVER go negative."                            *)
CountNeverNegative == \A e \in Event : m_reference_count[e] >= 0

(* When only the owner's task sends and re-sends an event, in flight or    *)
(* not, no ER_ASSERT() about a count, a re-send or the room in a queue     *)
(* fails (Capacity slots do for events that are re-sent up to the count    *)
(* MaxReferences).  The docs also let interrupts re-send, and that is left *)
(* out here: one that comes between the two decrements of                  *)
(* ErReturnToSender() in the owner's task fails the assertion of the       *)
(* second.                                                                 *)
NoAssertionFails == failed = "none"

(* When an event is handed back nobody else will touch it, and until then  *)
(* it is in flight: its owner may modify it between handler and send.      *)
OwnerHasExclusiveUse ==
  \A e \in Event : e \notin inFlight => References(e) = 0

(* An event is handed back once for every time it is sent, in its owner's  *)
(* task ("exactly one copy of an event").                                  *)
ReturnedExactlyOnce ==
  \A t \in Task : op[t].pc = "deliver" =>
    /\ op[t].e \in inFlight
    /\ t = OwnerTask(op[t].e)
    /\ \A u \in Task \ {t} : ~(op[u].pc = "deliver" /\ op[u].e = op[t].e)

(* An event that is idle again was delivered, for each send and re-send,   *)
(* to every module that was subscribed when its task was marked and stayed *)
(* subscribed.                                                             *)
BeingSent(e) ==
  \E c \in Context : op[c].pc \in {"mark", "add", "addReturn"} /\ op[c].e = e

NoSubscriberMissed ==
  \A e \in Event :
    m_reference_count[e] = 0 /\ ~BeingSent(e) => \A m \in Module : owed[e][m] = 0

(* Queues with a slot for each event never fill up: ErSend() neither       *)
(* blocks (POSIX) nor asserts (FreeRTOS).                                  *)
SendNeverFindsQueueFull ==
  \A c \in Context :
    op[c].pc = "post" => Len(queue[Smallest(op[c].mask)]) < Capacity

(* A plain send only ever takes an event that was handed back: what        *)
(* ErEventIsInFlight() tells its caller is true.                           *)
SentOnlyWhenReturned ==
  [][\A c \in Context, e \in Event : ErSendEx(c, e, FALSE) => e \notin inFlight]_vars

(* Every event that is sent comes back to its owner.                       *)
EveryEventReturns ==
  \A e \in Event : e \in inFlight ~> e \notin inFlight

(* Seen from outside, an event is sent, held by subscribers and handed     *)
(* back: the router implements EventLifecycle.                             *)
holders ==
  [e \in Event |->
    {m \in Module : \/ kept[m][e] > 0
                    \/ \E t \in Task : disp[t] = [pc |-> "handler", e |-> e, m |-> m]}]
Lifecycle == INSTANCE EventLifecycle WITH inFlight <- inFlight, holders <- holders
LifecycleSpec == Lifecycle!Spec
=============================================================================

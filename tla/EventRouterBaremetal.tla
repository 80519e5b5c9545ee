------------------------ MODULE EventRouterBaremetal ------------------------
(***************************************************************************)
(* The Event Router without an operating system (eventrouter_baremetal.c    *)
(* and list.c): one loop that delivers, in this round, the events sent in   *)
(* the last one, and interrupts that may send while it runs.                *)
(*                                                                          *)
(* The lists are singly linked through the events themselves: m_next maps   *)
(* a list or an event to the next event.  An interrupt runs to completion,  *)
(* so all it does is one action; it only sends, and so only writes the last *)
(* pointer of m_deliver_next.  What the loop does is split where such a     *)
(* write or a change of a reference count can make a difference.            *)
(***************************************************************************)
EXTENDS SubscriptionBits, Sequences, FiniteSets

CONSTANTS
  Module, Event,
  m_module_idx,     \* the position of each module in the task's list
  m_type, m_sending_module,
  MaySend,          \* the events the loop sends
  InterruptSends,   \* the events interrupts send
  MaskedWhileSending, \* the loop sends with interrupts disabled
  SendsReturnedOnly,  \* interrupts send only what the owner's handler got back
  MaySubscribe, MayKeep,
  NULL

ASSUME ModulesAssumption ==
  /\ m_module_idx \in [Module -> Nat]
  /\ \A m, n \in Module : m_module_idx[m] = m_module_idx[n] => m = n
ASSUME EventsAssumption ==
  /\ IsFiniteSet(Event)
  /\ m_type \in [Event -> RoutableType]
  /\ m_sending_module \in [Event -> Module]
(* An event is sent by the loop or by interrupts, never by both: no        *)
(* interrupt comes between the loop's test of an event's count and the     *)
(* addition with a send of the same event.                                 *)
ASSUME ClientsAssumption ==
  /\ MaySend \subseteq Event /\ InterruptSends \subseteq Event
  /\ MaySend \cap InterruptSends = {}
  /\ MaySubscribe \subseteq Module \X RoutableType /\ MayKeep \subseteq Module
  /\ MaskedWhileSending \in BOOLEAN /\ SendsReturnedOnly \in BOOLEAN

(* Interrupts that keep two rules which no doc names: where one of them is *)
(* FALSE, interrupts do what the docs of ErSend() and ErEventIsInFlight()  *)
(* allow.                                                                  *)
Disciplined == MaskedWhileSending /\ SendsReturnedOnly

List == {"m_deliver_now", "m_deliver_next", "m_kept"}
Node == List \cup Event

ASSUME NodesAssumption == NULL \notin Node /\ List \cap Event = {}

VARIABLES
  m_initialized, \* between ErInit() and ErDeinit()
  m_reference_count,
  m_next,        \* the pointer of each list and event
  m_subscriptions, \* the bits of each module that are set
  op,            \* the API call the loop is in
  disp,          \* the ErCallHandlers() activation underneath
  kept,          \* how often each module keeps each event
  failed,        \* TRUE when an ER_ASSERT() stopped the program
  inFlight       \* history: the events sent and not handed back since

vars == <<m_initialized, m_reference_count, m_next, m_subscriptions, op, disp, kept,
          failed, inFlight>>

None == [pc |-> "none"]
Subscribed(m, e) == IsSet(m_subscriptions[m], m_type[e])
-----------------------------------------------------------------------------
(* The events of a list, in order.                                         *)
Path(next, list) ==
  LET n == Cardinality(Event)
      at[k \in 0..n] == IF k = 0 THEN list
                        ELSE IF at[k - 1] = NULL THEN NULL ELSE next[at[k - 1]]
      length == Cardinality({k \in 1..n : at[k] # NULL})
  IN [k \in 1..length |-> at[k]]

Members(next, list) == LET p == Path(next, list) IN {p[k] : k \in DOMAIN p}

(* Mistake: the list forgets what it holds.                                *)
BugErListAppend(next, list, node) ==
  [next EXCEPT ![list] = node]

ErListAppend(next, list, node) ==
  IF node \in Members(next, list) THEN next
  ELSE LET p == Path(next, list)
           last == IF p = <<>> THEN list ELSE p[Len(p)]
       IN [next EXCEPT ![last] = node]

(* Mistake: the removed event still points into the list.                  *)
BugErListRemove(next, list, node) ==
  IF node \notin Members(next, list) THEN next
  ELSE LET previous == CHOOSE n \in {list} \cup Members(next, list) : next[n] = node
       IN [next EXCEPT ![previous] = next[node]]

ErListRemove(next, list, node) ==
  IF node \notin Members(next, list) THEN next
  ELSE LET previous == CHOOSE n \in {list} \cup Members(next, list) : next[n] = node
       IN [next EXCEPT ![previous] = next[node], ![node] = NULL]
-----------------------------------------------------------------------------
(* The program has started: all memory is zero.                            *)
Init ==
  /\ m_initialized = FALSE
  /\ m_reference_count = [e \in Event |-> 0]
  /\ m_next = [n \in Node |-> NULL]
  /\ m_subscriptions = [m \in Module |-> {}]
  /\ op = None
  /\ disp = None
  /\ kept = [m \in Module |-> [e \in Event |-> 0]]
  /\ failed = FALSE
  /\ inFlight = {}

(* The loop runs the client's code (a handler or its own) and may call:    *)
(* the functions assert that the router is initialized.                    *)
InClient ==
  ~failed /\ m_initialized /\ op.pc = "none" /\ disp.pc \in {"none", "handler"}
At(pc) == ~failed /\ op.pc = pc
Dispatching(pc) == ~failed /\ op.pc = "none" /\ disp.pc = pc
Add(e, n) == m_reference_count' = [m_reference_count EXCEPT ![e] = @ + n]

(* The subscriptions of the modules are cleared, byte by byte of the array.*)
ErInit ==
  /\ ~failed
  /\ ~m_initialized
  /\ m_initialized' = TRUE
  /\ m_subscriptions' = [m \in Module |-> ClearArray(m_subscriptions[m])]
  /\ UNCHANGED <<m_reference_count, m_next, op, disp, kept, failed, inFlight>>

(* The heads of the lists are cleared; clients wait until every event is   *)
(* back.                                                                   *)
ErDeinit ==
  /\ InClient /\ disp.pc = "none"
  /\ inFlight = {}
  /\ m_initialized' = FALSE
  /\ m_next' = [n \in Node |-> IF n \in List THEN NULL ELSE m_next[n]]
  /\ UNCHANGED <<m_reference_count, m_subscriptions, op, disp, kept, failed,
                 inFlight>>

ErEventIsInFlight(e) == m_reference_count[e] # 0

(* What ErSendEx() asserts; senders ask ErEventIsInFlight() themselves.    *)
Sendable(e) == ~Subscribed(m_sending_module[e], e) /\ m_next[e] = NULL

(* The loop sends: it counts, walks to the end of the list and appends.    *)
ErSendEx(e) ==
  /\ InClient
  /\ e \in MaySend /\ ~ErEventIsInFlight(e)
  /\ failed' = ~Sendable(e)
  /\ Add(e, 1)
  /\ op' = [pc |-> "walk", e |-> e]
  /\ inFlight' = inFlight \cup {e}
  /\ UNCHANGED <<m_initialized, m_next, m_subscriptions, disp, kept>>

(* The walk ends early when it meets the event itself.                     *)
FindEnd ==
  /\ At("walk")
  /\ LET p == Path(m_next, "m_deliver_next")
         last == IF p = <<>> THEN "m_deliver_next" ELSE p[Len(p)]
     IN op' = IF op.e \in Members(m_next, "m_deliver_next") THEN None
              ELSE [pc |-> "append", e |-> op.e, last |-> last]
  /\ UNCHANGED <<m_initialized, m_reference_count, m_next, m_subscriptions, disp,
                 kept, failed, inFlight>>

AppendAtEnd ==
  /\ At("append")
  /\ m_next' = [m_next EXCEPT ![op.last] = op.e]
  /\ op' = None
  /\ UNCHANGED <<m_initialized, m_reference_count, m_subscriptions, disp, kept,
                 failed, inFlight>>

(* An interrupt sends, between any two steps of the loop, what             *)
(* ErEventIsInFlight() calls idle.                                         *)
Interrupt(e) ==
  /\ ~failed /\ m_initialized
  /\ e \in InterruptSends /\ ~ErEventIsInFlight(e)
  /\ MaskedWhileSending => op.pc \notin {"walk", "append"}
  /\ SendsReturnedOnly => e \notin inFlight
  /\ failed' = ~Sendable(e)
  /\ Add(e, 1)
  /\ m_next' = ErListAppend(m_next, "m_deliver_next", e)
  /\ inFlight' = inFlight \cup {e}
  /\ UNCHANGED <<m_initialized, m_subscriptions, op, disp, kept>>
-----------------------------------------------------------------------------
ErNewLoop ==
  /\ InClient /\ disp.pc = "none"
  /\ m_next["m_deliver_next"] # NULL
  /\ m_next' = ErListAppend(m_next, "m_deliver_now", m_next["m_deliver_next"])
  /\ op' = [pc |-> "clear"]
  /\ UNCHANGED <<m_initialized, m_reference_count, m_subscriptions, disp, kept,
                 failed, inFlight>>

ClearDeliverNext ==
  /\ At("clear")
  /\ m_next' = [m_next EXCEPT !["m_deliver_next"] = NULL]
  /\ op' = None
  /\ UNCHANGED <<m_initialized, m_reference_count, m_subscriptions, disp, kept,
                 failed, inFlight>>

(* Mistake: the event taken from the list still points into it.            *)
BugErGetEventToDeliver ==
  /\ InClient /\ disp.pc = "none"
  /\ LET e == m_next["m_deliver_now"]
     IN /\ e # NULL
        /\ m_next' = [m_next EXCEPT !["m_deliver_now"] = m_next[e]]
        /\ disp' = [pc |-> "loop", e |-> e, i |-> 0]
  /\ UNCHANGED <<m_initialized, m_reference_count, m_subscriptions, op, kept,
                 failed, inFlight>>

(* The client passes what it gets to ErCallHandlers().                     *)
ErGetEventToDeliver ==
  /\ InClient /\ disp.pc = "none"
  /\ LET e == m_next["m_deliver_now"]
     IN /\ e # NULL
        /\ m_next' = [m_next EXCEPT !["m_deliver_now"] = m_next[e], ![e] = NULL]
        /\ disp' = [pc |-> "loop", e |-> e, i |-> 0]
  /\ UNCHANGED <<m_initialized, m_reference_count, m_subscriptions, op, kept,
                 failed, inFlight>>
-----------------------------------------------------------------------------
(* The modules from position i of the list that are subscribed now.        *)
Receivers(e, i) == {m \in Module : m_module_idx[m] >= i /\ Subscribed(m, e)}

ErCallHandlers ==
  /\ Dispatching("loop")
  /\ \E m \in Receivers(disp.e, disp.i) :
       /\ \A n \in Receivers(disp.e, disp.i) : m_module_idx[m] <= m_module_idx[n]
       /\ disp' = [pc |-> "handler", e |-> disp.e, m |-> m]
  /\ UNCHANGED <<m_initialized, m_reference_count, m_next, m_subscriptions, op,
                 kept, failed, inFlight>>

(* No module is left: the event leaves the list, and ErReturnToSender()    *)
(* takes over.                                                             *)
AllHandled ==
  /\ Dispatching("loop")
  /\ Receivers(disp.e, disp.i) = {}
  /\ m_next' = ErListRemove(m_next, "m_deliver_now", disp.e)
  /\ disp' = None
  /\ op' = [pc |-> "sub", e |-> disp.e]
  /\ UNCHANGED <<m_initialized, m_reference_count, m_subscriptions, kept, failed,
                 inFlight>>

Continue == disp' = [pc |-> "loop", e |-> disp.e, i |-> m_module_idx[disp.m] + 1]

HandlerHandled ==
  /\ Dispatching("handler")
  /\ Continue
  /\ UNCHANGED <<m_initialized, m_reference_count, m_next, m_subscriptions, op,
                 kept, failed, inFlight>>

(* Mistake: the reference of the module that keeps the event is not counted.*)
BugHandlerKept ==
  /\ Dispatching("handler")
  /\ disp.m \in MayKeep
  /\ kept' = [kept EXCEPT ![disp.m][disp.e] = @ + 1]
  /\ m_next' = ErListAppend(m_next, "m_kept", disp.e)
  /\ Continue
  /\ UNCHANGED <<m_initialized, m_reference_count, m_subscriptions, op, failed,
                 inFlight>>

HandlerKept ==
  /\ Dispatching("handler")
  /\ disp.m \in MayKeep
  /\ Add(disp.e, 1)
  /\ kept' = [kept EXCEPT ![disp.m][disp.e] = @ + 1]
  /\ m_next' = ErListAppend(m_next, "m_kept", disp.e)
  /\ Continue
  /\ UNCHANGED <<m_initialized, m_subscriptions, op, failed, inFlight>>
-----------------------------------------------------------------------------
ErReturnToSender(m, e) ==
  /\ InClient
  /\ kept[m][e] > 0
  /\ kept' = [kept EXCEPT ![m][e] = @ - 1]
  /\ op' = [pc |-> "sub", e |-> e]
  /\ UNCHANGED <<m_initialized, m_reference_count, m_next, m_subscriptions, disp,
                 failed, inFlight>>

DropReference ==
  /\ At("sub")
  /\ Add(op.e, -1)
  /\ op' = [op EXCEPT !.pc = "test"]
  /\ UNCHANGED <<m_initialized, m_next, m_subscriptions, disp, kept, failed,
                 inFlight>>

(* Mistake: the event stays on the list of kept events.                    *)
BugCallSender ==
  /\ At("test")
  /\ IF m_reference_count[op.e] = 0 THEN inFlight' = inFlight \ {op.e}
                                    ELSE UNCHANGED inFlight
  /\ op' = None
  /\ UNCHANGED <<m_initialized, m_reference_count, m_next, m_subscriptions, disp,
                 kept, failed>>

(* The sender's handler gets its event back.                               *)
CallSender ==
  /\ At("test")
  /\ IF m_reference_count[op.e] = 0
       THEN /\ m_next' = ErListRemove(m_next, "m_kept", op.e)
            /\ inFlight' = inFlight \ {op.e}
       ELSE UNCHANGED <<m_next, inFlight>>
  /\ op' = None
  /\ UNCHANGED <<m_initialized, m_reference_count, m_subscriptions, disp, kept,
                 failed>>

ErSubscribe(m, ty) ==
  /\ InClient
  /\ <<m, ty>> \in MaySubscribe
  /\ m_subscriptions' = [m_subscriptions EXCEPT ![m] = SetBit(@, ty)]
  /\ UNCHANGED <<m_initialized, m_reference_count, m_next, op, disp, kept, failed,
                 inFlight>>

ErUnsubscribe(m, ty) ==
  /\ InClient
  /\ <<m, ty>> \in MaySubscribe
  /\ m_subscriptions' = [m_subscriptions EXCEPT ![m] = ClearBit(@, ty)]
  /\ UNCHANGED <<m_initialized, m_reference_count, m_next, op, disp, kept, failed,
                 inFlight>>
-----------------------------------------------------------------------------
RouterStep ==
  \/ FindEnd \/ AppendAtEnd \/ ClearDeliverNext
  \/ ErCallHandlers \/ AllHandled \/ DropReference \/ CallSender

(* The client's loop goes on: it calls ErNewLoop() and delivers what there *)
(* is, and handlers return, however often they make other calls.           *)
LoopStep == ErNewLoop \/ ErGetEventToDeliver \/ HandlerHandled \/ HandlerKept

Next ==
  \/ ErInit
  \/ ErDeinit
  \/ RouterStep
  \/ LoopStep
  \/ \E e \in Event :
       ErSendEx(e) \/ Interrupt(e) \/ \E m \in Module : ErReturnToSender(m, e)
  \/ \E m \in Module, ty \in RoutableType : ErSubscribe(m, ty) \/ ErUnsubscribe(m, ty)

Spec == Init /\ [][Next]_vars

(* The router is initialized, and again after each ErDeinit(), and modules *)
(* give back what they keep.                                               *)
FairSpec ==
  /\ Spec
  /\ WF_vars(ErInit)
  /\ WF_vars(RouterStep) /\ SF_vars(LoopStep)
  /\ \A m \in MayKeep, e \in Event : SF_vars(ErReturnToSender(m, e))
-----------------------------------------------------------------------------
On(list) == Members(m_next, list)
Waiting(e) == e \in On("m_deliver_now") \cup On("m_deliver_next")
BeingSent(e) == op.pc \in {"walk", "append"} /\ op.e = e
BeingDelivered(e) == (disp.pc # "none" /\ disp.e = e) \/ (op.pc = "sub" /\ op.e = e)
Keepers(e) == {m \in Module : kept[m][e] > 0}

(* No in-flight event gets lost: it waits in a list, is in the loop's      *)
(* hands, or is kept; and its count says how many will return it.          *)
CountsAccountForAll ==
  ~failed => \A e \in Event :
    LET ways == {x \in {"waits", "sent", "delivered"} :
                   \/ x = "waits" /\ Waiting(e)
                   \/ x = "sent" /\ BeingSent(e)
                   \/ x = "delivered" /\ disp.pc # "none" /\ disp.e = e}
        returning == IF op.pc = "sub" /\ op.e = e THEN 1 ELSE 0
    IN m_reference_count[e] = Cardinality(ways) + Cardinality(Keepers(e)) + returning

(* The three lists share no event, except while ErNewLoop() moves one list *)
(* to the other, and an event on no list points nowhere.                   *)
ListsAreDisjoint ==
  /\ On("m_kept") \cap (On("m_deliver_now") \cup On("m_deliver_next")) = {}
  /\ op.pc # "clear" => On("m_deliver_now") \cap On("m_deliver_next") = {}
  /\ \A e \in Event : e \notin UNION {On(l) : l \in List} => m_next[e] = NULL

(* The list of kept events, there to find modules that never give an event  *)
(* back, misses no event that is kept and holds none that has been returned.*)
KeptListTells ==
  op.pc = "none" =>
    /\ {e \in Event : Keepers(e) # {}} \subseteq On("m_kept")
    /\ On("m_kept") \subseteq inFlight

(* "Asserts [...] if it is called on an event which has already been sent  *)
(* and has not yet been returned (this can be checked with                 *)
(* ErEventIsInFlight())": a send that the check allows trips no ER_ASSERT()*)
(* of ErSendEx().  Documented rules alone do not give this: an interrupt   *)
(* that finds the count 0 before the event has left the list of kept       *)
(* events fails the assertion about its pointer.  It holds for interrupts  *)
(* that keep to SendsReturnedOnly as well.                                 *)
NoAssertionFails == ~failed

(* Events are delivered in the order they were sent, also those a round    *)
(* left over for the next.                                                 *)
Pending ==
  Path(m_next, "m_deliver_now")
    \o (IF op.pc = "clear" THEN <<>> ELSE Path(m_next, "m_deliver_next"))
DeliveredInOrder ==
  [][\/ Pending' = Pending
     \/ Pending # <<>> /\ Pending' = Tail(Pending)
     \/ \E e \in Event : Pending' = Append(Pending, e)]_vars

(* A subscription is a bit of its module's own array, whatever the number  *)
(* of types: "they do not have to start at 0".                             *)
SubscriptionsStayInArray == \A m \in Module : InArray(m_subscriptions[m])

(* Seen from outside this router has the same lifecycle as the others.     *)
holders ==
  [e \in Event |-> Keepers(e) \cup
     (IF disp.pc = "handler" /\ disp.e = e THEN {disp.m} ELSE {})]
Lifecycle == INSTANCE EventLifecycle WITH inFlight <- inFlight, holders <- holders
LifecycleSpec == Lifecycle!Spec

(* Every event that is sent comes back to its owner.                       *)
EveryEventReturns == \A e \in Event : e \in inFlight ~> e \notin inFlight

(* "This function is safe to call from within a task or an interrupt": an  *)
(* event that was sent is somewhere the router will find it.               *)
SentEventsAreFound ==
  \A e \in Event :
    m_reference_count[e] > 0 =>
      Waiting(e) \/ BeingSent(e) \/ BeingDelivered(e) \/ Keepers(e) # {}
=============================================================================

----------------------- MODULE QueueCapacity_proofs -----------------------
(* Queues with a slot for each event never fill up, when only the owner's   *)
(* task sends an event and nobody re-sends it.                              *)
EXTENDS ReferenceCount_proofs

NobodyResends == \A c \in Context : MayResend[c] = {}

SlotForEach == IsFiniteSet(Event) /\ Cardinality(Event) <= Capacity
-----------------------------------------------------------------------------
(* No task gets, or is about to get, a second copy of e.                   *)
OneCopy(e) ==
  /\ \A x, y \in Marked(e) : x[2] = y[2] => x = y
  /\ \A x, y \in Queued(e) : x[1] = y[1] => x = y
  /\ \A x \in Marked(e), y \in Queued(e) : x[2] # y[1]

PlainSends ==
  \A c \in Context : op[c].pc \in {"mark", "add"} => op[c].resend = FALSE

OnceInv == failed = "none" => PlainSends /\ \A e \in Event : OneCopy(e)
-----------------------------------------------------------------------------
(* A step that moves no copy.                                              *)
LEMMA NothingMoves ==
  ASSUME NEW e \in Event, OneCopy(e), Marked(e)' = Marked(e), UNCHANGED queue
  PROVE  OneCopy(e)'
<1>1. Queued(e)' = Queued(e)
  BY DEF Queued
<1> QED  BY <1>1 DEF OneCopy

(* A step from one call to the next that marks nothing and starts no send. *)
LEMMA NothingMarked ==
  ASSUME TypeOK, OnceInv, failed = "none", NEW c \in Context, NEW x, Call(c, x),
         \A e \in Event : MarkedBy(x, e) = MarkedBy(op[c], e),
         x.pc \in {"mark", "add"} => x.resend = FALSE,
         UNCHANGED queue
  PROVE  OnceInv'
<1>1. \A d \in Context : op'[d] = IF d = c THEN x ELSE op[d]
  BY DEF Call, TypeOK
<1>2. PlainSends'
  BY <1>1 DEF OnceInv, PlainSends
<1>3. ASSUME NEW e \in Event PROVE OneCopy(e)'
  <2>1. Marked(e)' = Marked(e)
    BY MarkedSame
  <2> QED  BY <2>1, NothingMoves DEF OnceInv
<1> QED  BY <1>2, <1>3 DEF OnceInv

(* A context marks tasks for an event that has no other copy.              *)
LEMMA FirstCopies ==
  ASSUME TypeOK, OnceInv, failed = "none", NEW c \in Context, NEW x, Call(c, x),
         NEW e0 \in Event, Marked(e0) = {}, Queued(e0) = {},
         \A e \in Event : e # e0 => MarkedBy(x, e) = MarkedBy(op[c], e),
         x.pc \notin {"mark", "add"},
         UNCHANGED queue
  PROVE  OnceInv'
<1>1. \A d \in Context : op'[d] = IF d = c THEN x ELSE op[d]
  BY DEF Call, TypeOK
<1>2. PlainSends'
  BY <1>1 DEF OnceInv, PlainSends
<1>3. ASSUME NEW e \in Event, e # e0 PROVE OneCopy(e)'
  <2>1. Marked(e)' = Marked(e)
    BY <1>3, MarkedSame
  <2> QED  BY <2>1, NothingMoves DEF OnceInv
<1>4. OneCopy(e0)'
  <2>1. Marked(e0)' \subseteq Context \X Task
    BY DEF Marked, Context, Task
  <2>2. \A p \in Marked(e0)' : p[1] = c /\ p = <<p[1], p[2]>>
    BY <2>1, MarkedAfter
  <2>3. Queued(e0)' = {}
    BY DEF Queued
  <2> QED  BY <2>2, <2>3 DEF OneCopy
<1> QED  BY <1>2, <1>3, <1>4 DEF OnceInv

(* A plain send counts, and marks, the copies of an idle event.            *)
LEMMA CountingOnce ==
  ASSUME TypeOK, CountInv, OnceInv, NEW c \in Context, failed' = "none",
         AddSubscribers(c) \/ AddReturnTrip(c)
  PROVE  OnceInv'
<1>0. /\ failed = "none" /\ ContextsInv /\ op \in [Context -> Calls]
      /\ op[c].pc \in {"add", "addReturn"} /\ UNCHANGED queue
  BY DEF CountInv, TypeOK, AddSubscribers, AddReturnTrip, At, Running
<1>1. PICK e0 \in Event, mask \in SUBSET Task : op[c].e = e0 /\ op[c].mask = mask
  BY <1>0, CallShapes
<1>2. EventInv(e0) /\ FiniteReferences(e0) /\ Counted(e0) /\ StagesInv(e0)
  BY <1>0 DEF CountInv, EventInv
<1>3. ASSUME m_reference_count[e0] <= 0 PROVE Marked(e0) = {} /\ Queued(e0) = {}
  BY <1>2, <1>3, NoReferences
<1>4. CASE AddSubscribers(c)
  <2>1. PICK x : x = AfterCount(e0, mask, m_reference_count[e0]) /\ Call(c, x)
    BY <1>1, <1>4 DEF AddSubscribers
  <2>2. op[c].pc = "add" /\ op[c].resend = FALSE
    BY <1>0, <1>4 DEF AddSubscribers, At, OnceInv, PlainSends
  <2>3. m_reference_count[e0] <= 0
    BY <1>1, <1>2, <2>2 DEF StagesInv
  <2>4. x.pc \in {"none", "addReturn", "post"} /\ (x.pc # "none" => x.e = e0)
    BY <2>1, PostingMarks DEF AfterCount
  <2>5. \A e \in Event : e # e0 => MarkedBy(x, e) = MarkedBy(op[c], e)
    BY <2>2, <2>4 DEF MarkedBy
  <2> QED  BY <1>0, <1>3, <2>1, <2>3, <2>4, <2>5, FirstCopies
<1>5. CASE AddReturnTrip(c)
  <2>0. op[c].pc = "addReturn"
    BY <1>5 DEF AddReturnTrip, At
  <2>1. PICK x : /\ x = Posting(e0, IF mask = {} THEN {OwnerTask(e0)} ELSE mask)
                 /\ Call(c, x)
    BY <1>1, <1>5 DEF AddReturnTrip
  <2>2. /\ x.pc \in {"none", "post"} /\ (x.pc = "post" => x.e = e0)
        /\ MarkedBy(x, e0) = IF mask = {} THEN {OwnerTask(e0)} ELSE mask
    BY <2>1, PostingMarks
  <2>3. \A e \in Event : e # e0 => MarkedBy(x, e) = MarkedBy(op[c], e)
    BY <1>1, <2>2 DEF MarkedBy
  <2>4. CASE mask = {}
    <3>1. HalfCounted(e0) /\ c = OwnerTask(e0)
      BY <1>0, <1>1, <2>0 DEF HalfCounted, ContextsInv
    <3>2. m_reference_count[e0] <= 0
      BY <1>1, <1>2, <2>4, <3>1 DEF EventInv, WaitsForOwner
    <3> QED  BY <1>0, <1>3, <2>1, <2>2, <2>3, <3>2, FirstCopies
  <2>5. CASE mask # {}
    <3>1. MarkedBy(op[c], e0) = mask
      BY <1>1, <2>0 DEF MarkedBy
    <3>2. \A e \in Event : MarkedBy(x, e) = MarkedBy(op[c], e)
      BY <2>2, <2>3, <2>5, <3>1
    <3>3. x.pc \in {"mark", "add"} => x.resend = FALSE
      BY <2>2
    <3>4. UNCHANGED queue /\ failed = "none"
      BY <1>0, <1>5 DEF AddReturnTrip
    <3>5. Call(c, x)
      BY <2>1
    <3> QED  BY <3>2, <3>3, <3>4, <3>5, NothingMarked
  <2> QED  BY <2>4, <2>5
<1> QED  BY <1>4, <1>5

(* Posting moves a copy from the tasks marked for it to one's queue.       *)
LEMMA PostingOnce ==
  ASSUME TypeOK, CountInv, OnceInv, NEW c \in Context, SendEvent(c), failed' = "none"
  PROVE  OnceInv'
<1>0. /\ failed = "none" /\ op \in [Context -> Calls] /\ op[c].pc = "post"
  BY DEF TypeOK, SendEvent, At, Running
<1>1. PICK e0 \in Event, mask \in (SUBSET Task) \ {{}} : op[c].e = e0 /\ op[c].mask = mask
  BY <1>0, CallShapes
<1>2. PICK t \in Task : t = Smallest(mask) /\ t \in mask
  BY <1>1, SmallestInMask
<1>3. PICK x : x = Posting(e0, mask \ {t}) /\ Call(c, x)
  BY <1>1, <1>2 DEF SendEvent
<1>4. Len(queue[t]) < Capacity
  BY <1>0, <1>1, <1>2 DEF SendEvent, Assert
<1>5. queue' = [queue EXCEPT ![t] = Append(@, e0)]
  BY <1>1, <1>2, <1>4 DEF SendEvent
<1>6. /\ x.pc \in {"none", "post"} /\ (x.pc = "post" => x.e = e0)
      /\ MarkedBy(x, e0) = mask \ {t}
  BY <1>3, PostingMarks
<1>7. \A d \in Context : op'[d] = IF d = c THEN x ELSE op[d]
  BY <1>3 DEF Call, TypeOK
<1>8. PlainSends'
  BY <1>0, <1>6, <1>7 DEF OnceInv, PlainSends
<1>9. ASSUME NEW e \in Event, e # e0 PROVE OneCopy(e)'
  <2>1. MarkedBy(x, e) = MarkedBy(op[c], e)
    BY <1>1, <1>6, <1>9 DEF MarkedBy
  <2>2. Marked(e)' = Marked(e)
    BY <1>3, <2>1, MarkedSame
  <2>3. Queued(e)' = Queued(e)
    BY <1>4, <1>5, <1>9, QueuedGrows
  <2> QED  BY <1>0, <2>2, <2>3 DEF OnceInv, OneCopy
<1>10. OneCopy(e0)'
  <2>1. OneCopy(e0)
    BY <1>0 DEF OnceInv
  <2>2. PICK q : q = <<t, Len(queue[t]) + 1>>
    OBVIOUS
  <2>3. Queued(e0)' = Queued(e0) \cup {q} /\ q[1] = t
    BY <1>4, <1>5, <2>2, QueuedGrows
  <2>4. Marked(e0) \subseteq Context \X Task /\ Marked(e0)' \subseteq Context \X Task
    BY DEF Marked, Context, Task
  <2>5. <<c, t>> \in Marked(e0)
    BY <1>0, <1>1, <1>2 DEF Marked
  <2>6. \A p \in Context \X Task : p[1] = c => (p \in Marked(e0) <=> p[2] \in mask)
    BY <1>0, <1>1 DEF Marked
  <2>7. \A p \in Marked(e0)' : p \in Marked(e0) /\ p # <<c, t>>
    BY <1>3, <1>6, <2>4, <2>6, MarkedAfter
  <2>8. \A p \in Marked(e0)' : p[2] # t
    BY <2>1, <2>5, <2>7 DEF OneCopy
  <2>9. \A y \in Queued(e0) : y[1] # t
    BY <2>1, <2>5 DEF OneCopy
  <2> QED  BY <2>1, <2>3, <2>7, <2>8, <2>9 DEF OneCopy
<1> QED  BY <1>8, <1>9, <1>10 DEF OnceInv

(* Receiving takes a copy out of a queue; the others move up.              *)
LEMMA ReceivingOnce ==
  ASSUME TypeOK, CountInv, OnceInv, NEW t \in Task, ErReceive(t)
  PROVE  OnceInv'
<1>0. failed = "none" /\ ContextsInv /\ UNCHANGED op
  BY DEF ErReceive, InClient, Running, CountInv
<1>1. /\ queue[t] # <<>> /\ Len(queue[t]) <= Capacity
      /\ queue' = [queue EXCEPT ![t] = Tail(@)]
  BY <1>0 DEF ErReceive, ContextsInv
<1>2. PlainSends'
  BY <1>0 DEF OnceInv, PlainSends
<1>3. ASSUME NEW e \in Event PROVE OneCopy(e)'
  <2>1. OneCopy(e) /\ IsFiniteSet(Queued(e))
    BY <1>0 DEF OnceInv, CountInv, EventInv, FiniteReferences
  <2>2. Marked(e)' = Marked(e)
    BY <1>0 DEF Marked
  <2>3. \A y \in Queued(e)' : \E z \in Queued(e) : z[1] = y[1]
    BY <1>1, <2>1, QueuedShrinks
  <2>4. \A x, y \in Queued(e)' : x[1] = y[1] => x = y
    <3> SUFFICES ASSUME NEW x \in Queued(e)', NEW y \in Queued(e)', x[1] = y[1]
                 PROVE  x = y
      OBVIOUS
    <3>1. /\ x = <<x[1], x[2]>> /\ x[1] \in Task /\ x[2] \in 1..Capacity
          /\ x[2] <= Len(queue'[x[1]]) /\ queue'[x[1]][x[2]] = e
          /\ y = <<y[1], y[2]>> /\ y[2] \in 1..Capacity
          /\ y[2] <= Len(queue'[x[1]]) /\ queue'[x[1]][y[2]] = e
      BY DEF Queued, Task
    <3>2. Capacity \in Nat
      BY BoundsAssumption
    <3>3. CASE x[1] # t
      <4>1. queue'[x[1]] = queue[x[1]]
        BY <1>1, <3>1, <3>3 DEF TypeOK
      <4>2. x \in Queued(e) /\ y \in Queued(e)
        BY <3>1, <4>1 DEF Queued
      <4> QED  BY <2>1, <4>2 DEF OneCopy
    <3>4. CASE x[1] = t
      <4>1. /\ Len(queue[t]) \in Nat
            /\ Len(queue'[t]) = Len(queue[t]) - 1
            /\ \A i \in 1..Len(queue'[t]) : queue'[t][i] = queue[t][i + 1]
        BY <1>1 DEF TypeOK
      <4>2. /\ x[2] + 1 \in 1..Capacity /\ x[2] + 1 <= Len(queue[t])
            /\ y[2] + 1 \in 1..Capacity /\ y[2] + 1 <= Len(queue[t])
        BY <1>1, <3>1, <3>2, <3>4, <4>1
      <4>3. queue[t][x[2] + 1] = e /\ queue[t][y[2] + 1] = e
        BY <3>1, <3>4, <4>1
      <4>4. <<t, x[2] + 1>> \in Queued(e) /\ <<t, y[2] + 1>> \in Queued(e)
        BY <4>2, <4>3 DEF Queued
      <4>5. <<t, x[2] + 1>> = <<t, y[2] + 1>>
        BY <2>1, <4>4 DEF OneCopy
      <4>6. x[2] = y[2]
        BY <3>1, <4>5
      <4> QED  BY <3>1, <4>6
    <3> QED  BY <3>3, <3>4
  <2> QED  BY <2>1, <2>2, <2>3, <2>4 DEF OneCopy
<1> QED  BY <1>2, <1>3 DEF OnceInv

(* The way back is a copy of its own: it is the only one left.             *)
LEMMA DroppingOnce ==
  ASSUME TypeOK, CountInv, OnceInv, NEW t \in Task, DropReference(t)
  PROVE  OnceInv'
<1>0. /\ failed = "none" /\ t \in Context /\ op[t] \in Calls /\ op[t].pc = "sub"
      /\ UNCHANGED queue
  BY DEF TypeOK, Context, DropReference, At, Running
<1>1. PICK e0 \in Event : op[t].e = e0
  BY <1>0, CallShapes
<1>2. PICK x : x = AfterDrop(t, e0, m_reference_count[e0] - 1) /\ Call(t, x)
  BY <1>1 DEF DropReference
<1>3. \A e \in Event : MarkedBy(op[t], e) = {}
  BY <1>0 DEF MarkedBy
<1>4. CASE m_reference_count[e0] = 2 /\ t # OwnerTask(e0)
  <2>1. x = [pc |-> "post", e |-> e0, mask |-> {OwnerTask(e0)}]
    BY <1>2, <1>4 DEF AfterDrop, Posting
  <2>2. t \in Returned(e0) /\ EventInv(e0)
    BY <1>0, <1>1 DEF Returned, CountInv
  <2>3. Marked(e0) = {} /\ Queued(e0) = {}
    BY <1>4, <2>2, ReturnedIsCounted
  <2>4. \A e \in Event : e # e0 => MarkedBy(x, e) = MarkedBy(op[t], e)
    BY <1>3, <2>1 DEF MarkedBy
  <2>5. x.pc \notin {"mark", "add"}
    BY <2>1
  <2> QED  BY <1>0, <1>2, <2>3, <2>4, <2>5, FirstCopies
<1>5. CASE m_reference_count[e0] # 2 \/ t = OwnerTask(e0)
  <2>1. x.pc \in {"load", "subOwner"}
    BY <1>2, <1>5 DEF AfterDrop, TypeOK
  <2>2. \A e \in Event : MarkedBy(x, e) = MarkedBy(op[t], e)
    BY <1>3, <2>1 DEF MarkedBy
  <2> QED  BY <1>0, <1>2, <2>1, <2>2, NothingMarked
<1> QED  BY <1>4, <1>5
(* Every step keeps at most one copy of each event for each task.          *)
LEMMA OnceInvStep ==
  ASSUME NobodyResends, TypeOK, CountInv, OnceInv, [Next]_vars
  PROVE  OnceInv'
<1> SUFFICES ASSUME failed' = "none" PROVE OnceInv'
  BY DEF OnceInv
<1>1. ASSUME UNCHANGED <<op, queue>>, failed = "none" PROVE OnceInv'
  <2>1. PlainSends'
    BY <1>1 DEF OnceInv, PlainSends
  <2>2. ASSUME NEW e \in Event PROVE OneCopy(e)'
    <3>1. Marked(e)' = Marked(e)
      BY <1>1 DEF Marked
    <3> QED  BY <1>1, <3>1, NothingMoves DEF OnceInv
  <2> QED  BY <2>1, <2>2 DEF OnceInv
<1>2. CASE UNCHANGED vars
  BY <1>1, <1>2 DEF vars
<1>3. ASSUME NEW c \in Context, NEW x, Call(c, x), failed = "none", UNCHANGED queue,
             op[c].pc \notin {"addReturn", "post"}, x.pc \notin {"addReturn", "post"},
             x.pc \in {"mark", "add"} => x.resend = FALSE
      PROVE  OnceInv'
  <2>1. \A e \in Event : MarkedBy(x, e) = MarkedBy(op[c], e)
    BY <1>3 DEF MarkedBy
  <2> QED  BY <1>3, <2>1, NothingMarked
<1>4. ASSUME NEW c \in Context, NEW e \in Event, NEW resend \in BOOLEAN,
             ErSendEx(c, e, resend)
      PROVE  OnceInv'
  <2> DEFINE x == [pc |-> "mark", e |-> e, i |-> 1, mask |-> {}, resend |-> resend]
  <2>1. /\ failed = "none" /\ op[c].pc = "none" /\ UNCHANGED queue
        /\ Call(c, x) /\ resend = FALSE
    BY <1>4 DEF ErSendEx, InClient, Running, NobodyResends
  <2>2. x.pc = "mark" /\ x.resend = FALSE
    BY <2>1
  <2> HIDE DEF x
  <2> QED  BY <1>3, <2>1, <2>2
<1>5. ASSUME NEW c \in Context, MarkTask(c) PROVE OnceInv'
  <2>1. failed = "none" /\ op[c] \in Calls /\ op[c].pc = "mark" /\ UNCHANGED queue
    BY <1>5 DEF MarkTask, At, Running, TypeOK
  <2> DEFINE i == op[c].i
             marked == m_type[op[c].e] \in taskSubscriptions[i]
             x == [op[c] EXCEPT !.mask = IF marked THEN @ \cup {i} ELSE @,
                                !.i = i + 1,
                                !.pc = IF i = NumTasks THEN "add" ELSE @]
  <2>2. Call(c, x)
    BY <1>5 DEF MarkTask
  <2>3. op[c] \in [pc : {"mark"}, e : Event, i : Task, mask : SUBSET Task, resend : BOOLEAN]
    BY <2>1, CallShapes
  <2>4. op[c].resend = FALSE
    BY <2>1 DEF OnceInv, PlainSends
  <2>5. x.pc \in {"mark", "add"} /\ x.resend = FALSE
    BY <2>3, <2>4
  <2> HIDE DEF x
  <2> QED  BY <1>3, <2>1, <2>2, <2>5
<1>6. ASSUME NEW c \in Context, AddSubscribers(c) \/ AddReturnTrip(c) \/ SendEvent(c)
      PROVE  OnceInv'
  BY <1>6, CountingOnce, PostingOnce
<1>7. ASSUME NEW t \in Task, ErReceive(t) \/ DropReference(t) PROVE OnceInv'
  BY <1>7, ReceivingOnce, DroppingOnce
<1>8. ASSUME NEW t \in Task, DispatchStep(t) PROVE OnceInv'
  <2>1. failed = "none" /\ op[t].pc = "none" /\ UNCHANGED queue /\ t \in Context
    BY <1>8 DEF DispatchStep, ErCallHandlers, CallNextHandler, Dispatching, Running, Context
  <2>2. UNCHANGED op \/ Done(t)
    BY <1>8 DEF DispatchStep, ErCallHandlers, CallNextHandler
  <2>3. CASE Done(t)
    <3>1. PICK x : Call(t, x) /\ x.pc = "sub"
      BY <2>3 DEF Done
    <3> QED  BY <1>3, <2>1, <3>1
  <2> QED  BY <1>1, <2>1, <2>2, <2>3
<1>9. ASSUME NEW t \in Task,
             \/ DropOwnerReference(t) \/ CheckReturned(t) \/ CallSender(t)
             \/ SubscribeStep(t)
      PROVE  OnceInv'
  <2>1. /\ failed = "none" /\ UNCHANGED queue /\ t \in Context
        /\ op[t].pc \in {"subOwner", "load", "deliver", "setTask", "clearTask"}
    BY <1>9 DEF DropOwnerReference, CheckReturned, CallSender, SubscribeStep, SetTaskBit,
                ClearTaskBit, At, Running, Context
  <2>2. PICK x : Call(t, x) /\ x.pc \in {"none", "load", "deliver"}
    <3>1. CASE DropOwnerReference(t)
      <4>1. Call(t, [pc |-> "load", e |-> op[t].e])
        BY <3>1 DEF DropOwnerReference
      <4>2. [pc |-> "load", e |-> op[t].e].pc = "load"
        OBVIOUS
      <4> QED  BY <4>1, <4>2
    <3>2. CASE CheckReturned(t)
      <4>1. CASE m_reference_count[op[t].e] = 0
        <5>1. Call(t, [pc |-> "deliver", e |-> op[t].e])
          BY <3>2, <4>1 DEF CheckReturned
        <5> QED  BY <5>1
      <4>2. CASE m_reference_count[op[t].e] # 0
        <5>1. Call(t, None)
          BY <3>2, <4>2 DEF CheckReturned
        <5> QED  BY <5>1 DEF None
      <4> QED  BY <4>1, <4>2
    <3>3. CASE CallSender(t) \/ SubscribeStep(t)
      BY <3>3 DEF CallSender, SubscribeStep, SetTaskBit, ClearTaskBit, None
    <3> QED  BY <1>9, <3>1, <3>2, <3>3
  <2> QED  BY <1>3, <2>1, <2>2
<1>10. ASSUME NEW t \in Task, NEW m \in Module,
              \/ \E e \in Event : ErReturnToSender(t, m, e)
              \/ \E ty \in Type : ErSubscribe(t, m, ty) \/ ErUnsubscribe(t, m, ty)
       PROVE  OnceInv'
  <2>1. failed = "none" /\ UNCHANGED queue /\ t \in Context /\ op[t].pc = "none"
    BY <1>10 DEF ErReturnToSender, ErSubscribe, ErUnsubscribe, InClient, Running, Context
  <2>2. PICK x : Call(t, x) /\ x.pc \in {"sub", "setTask", "clearTask"}
    <3>1. CASE \E e \in Event : ErReturnToSender(t, m, e)
      BY <3>1 DEF ErReturnToSender
    <3>2. CASE \E ty \in Type : ErSubscribe(t, m, ty) \/ ErUnsubscribe(t, m, ty)
      BY <3>2 DEF ErSubscribe, ErUnsubscribe
    <3> QED  BY <1>10, <3>1, <3>2
  <2> QED  BY <1>3, <2>1, <2>2
<1>11. ASSUME \/ ErInit \/ ErDeinit
              \/ \E t \in Task : HandlerHandled(t) \/ HandlerKept(t)
       PROVE  OnceInv'
  BY <1>1, <1>11 DEF ErInit, ErDeinit, HandlerHandled, HandlerKept, Dispatching, Running
<1> QED
  BY <1>2, <1>4, <1>5, <1>6, <1>7, <1>8, <1>9, <1>10, <1>11
  DEF Next, SendStep, ReturnStep
-----------------------------------------------------------------------------
(* A task that e0 is marked for has a slot left for it: its queue holds     *)
(* other events, and each of them once.                                    *)
LEMMA SlotLeft ==
  ASSUME SlotForEach, TypeOK, NEW t \in Task, Len(queue[t]) <= Capacity,
         \A e \in Event : OneCopy(e),
         NEW e0 \in Event, NEW c \in Context, <<c, t>> \in Marked(e0)
  PROVE  Len(queue[t]) < Capacity
<1> DEFINE n == Len(queue[t])
           Others == Event \ {e0}
<1>1. n \in Nat /\ Capacity \in Nat /\ queue[t] \in [1..n -> Event]
  BY BoundsAssumption DEF TypeOK
<1>2. \A i \in 1..n : <<t, i>> \in Queued(queue[t][i])
  BY <1>1 DEF Queued
<1>3. \A i \in 1..n : queue[t][i] \in Others
  <2> SUFFICES ASSUME NEW i \in 1..n, queue[t][i] = e0 PROVE FALSE
    BY <1>1
  <2>1. <<t, i>> \in Queued(e0)
    BY <1>2
  <2> QED  BY <2>1 DEF OneCopy
<1>4. ASSUME NEW i \in 1..n, NEW j \in 1..n, queue[t][i] = queue[t][j] PROVE i = j
  <2>1. queue[t][i] \in Event /\ <<t, i>> \in Queued(queue[t][i])
        /\ <<t, j>> \in Queued(queue[t][i])
    BY <1>1, <1>2, <1>4
  <2>2. <<t, i>> = <<t, j>>
    BY <2>1 DEF OneCopy
  <2> QED  BY <2>2
<1>5. queue[t] \in Injection(1..n, Others)
  <2>1. queue[t] \in [1..n -> Others]
    BY <1>1, <1>3
  <2> QED  BY <1>4, <2>1 DEF Injection, IsInjective
<1>6. IsFiniteSet(Others) /\ Cardinality(Others) = Cardinality(Event) - 1
  BY FS_RemoveElement DEF SlotForEach
<1>7. Cardinality(1..n) <= Cardinality(Others)
  <2> HIDE DEF Others, n
  <2> QED  BY <1>5, <1>6, FS_Injection
<1>8. Cardinality(1..n) = n
  <2>1. n \in Nat /\ 1 \in Int
    BY <1>1
  <2> HIDE DEF n
  <2>2. n \in Int /\ (n < 1 => n = 0)
    BY <2>1
  <2>3. Cardinality(1..n) = IF 1 > n THEN 0 ELSE n-1+1
    BY <2>1, <2>2, FS_Interval
  <2> QED  BY <2>1, <2>3
<1>9. Cardinality(Event) \in Nat
  BY FS_CardinalityType DEF SlotForEach
<1>10. n <= Cardinality(Event) - 1 /\ Cardinality(Event) <= Capacity
  BY <1>6, <1>7, <1>8 DEF SlotForEach
<1> HIDE DEF n
<1>11. n < Capacity
  BY <1>1, <1>9, <1>10
<1> QED  BY <1>11 DEF n

(* The task that SendEvent() is about to post to has a slot left.          *)
LEMMA RoomToPost ==
  ASSUME SlotForEach, TypeOK, CountInv, OnceInv, failed = "none",
         NEW c \in Context, op[c].pc = "post"
  PROVE  Len(queue[Smallest(op[c].mask)]) < Capacity
<1>1. op[c] \in [pc : {"post"}, e : Event, mask : (SUBSET Task) \ {{}}]
  BY CallShapes DEF TypeOK
<1>2. PICK t \in Task : t = Smallest(op[c].mask) /\ t \in op[c].mask
  BY <1>1, SmallestInMask
<1>3. <<c, t>> \in Marked(op[c].e)
  BY <1>2 DEF Marked
<1>4. Len(queue[t]) <= Capacity /\ \A e \in Event : OneCopy(e)
  BY DEF CountInv, ContextsInv, OnceInv
<1> QED  BY <1>1, <1>2, <1>3, <1>4, SlotLeft

(* With a slot for each event in every queue, and owners that send without  *)
(* re-sending and do not subscribe to what they send, ErSend() never finds  *)
(* a queue full: it does not wait on POSIX, and no ER_ASSERT() fails on     *)
(* FreeRTOS.                                                               *)
THEOREM QueuesSuffice ==
  ASSUME OnlyOwnersSend, NobodyResends, NobodySubscribesToOwn, SlotForEach
  PROVE  Spec => [](NoAssertionFails /\ SendNeverFindsQueueFull)
<1> DEFINE CapacityInv == AssertInv /\ OnceInv
<1>1. ASSUME Init PROVE CapacityInv
  <2>1. AssertInv
    BY <1>1, CountInvInit DEF Init, SubscriptionsAllowed, AssertInv
  <2>2. \A e \in Event : Marked(e) = {} /\ Queued(e) = {}
    BY <1>1 DEF Init, Marked, Queued, None
  <2>3. OnceInv
    BY <1>1, <2>2 DEF OnceInv, PlainSends, OneCopy, Init, None
  <2> QED  BY <2>1, <2>3
<1>2. ASSUME TypeOK, CapacityInv, [Next]_vars PROVE CapacityInv'
  <2>1. CountInv /\ failed = "none"
    BY <1>2 DEF AssertInv
  <2>2. ASSUME NEW c \in Context, SendEvent(c) PROVE failed' = "none"
    <3>1. op[c].pc = "post"
      BY <2>2 DEF SendEvent, At
    <3>2. Len(queue[Smallest(op[c].mask)]) < Capacity
      BY <1>2, <2>1, <3>1, RoomToPost
    <3> QED  BY <2>1, <2>2, <3>2 DEF SendEvent, Assert
  <2>3. AssertInv'
    BY <1>2, <2>2, AssertInvStep
  <2>4. OnceInv'
    BY <1>2, <2>1, OnceInvStep
  <2> QED  BY <2>3, <2>4
<1>3. ASSUME TypeOK, CapacityInv PROVE NoAssertionFails /\ SendNeverFindsQueueFull
  BY <1>3, RoomToPost DEF AssertInv, NoAssertionFails, SendNeverFindsQueueFull
<1> QED  BY <1>1, <1>2, <1>3, Typing, PTL DEF Spec
=============================================================================

# Verification of the Event Router

TLA+ modules that model the Event Router, TLC configurations that check them on
small instances, and theorems that hold for every instance, checked by TLAPS.

Everything is run in this directory:

    tlc -config os_example.cfg MCEventRouterOS.tla
    tlapm EventRouterOS_proofs.tla

`PROJECT.json` lists the runs with their modules, the lines of the code each
definition stands for, the mistakes that each property was seen to catch, the
disagreements found, the hazards, and the theorems.

## The system

The Event Router is a C library for publish and subscribe between the *tasks* of
an application. A task contains *modules*; a module is a handler function with a
set of subscriptions. *Events* are allocated statically, belong to one module and
are passed by reference. An event is *idle* until its owner sends it; then it is
*in flight*: it is put into the queues of the tasks that contain subscribers, each
task calls the handlers of its subscribed modules, a handler may *keep* the event
and give it back later, and when nobody uses it any more it is handed back to its
owner's handler. An atomic reference count in the event says who is left.

| Component | State | Operations | Talks to |
|---|---|---|---|
| Router with an OS (`eventrouter_os.c`) | `m_reference_count` of each event, subscription bits of modules and of tasks, a queue per task | `ErInit`, `ErDeinit`, `ErSend`, `ErSendEx`, `ErReceive`, `ErTimedReceive`, `ErCallHandlers`, `ErReturnToSender`, `ErSubscribe`, `ErUnsubscribe` | handlers (callbacks in the task's context), the queues, interrupts |
| Initialization gate (POSIX part of `eventrouter_os.c`) | `s_context`, a mutex, a condition variable | `ErInit`, `ErDeinit`, `WaitUntilInitComplete` | tasks that start before `ErInit()` |
| POSIX queue (`queue_posix.c`) | ring buffer, mutex, condition variable | `ErQueueNew`, `ErQueueFree`, push and pop, timed and untimed | the router, through the default OS functions |
| FreeRTOS queue (`queue_freertos.c`) | in FreeRTOS | the same interface | clients only: the router calls FreeRTOS itself |
| Bare-metal router (`eventrouter_baremetal.c`, `list.c`) | three lists linked through the events, reference counts, subscription bits | `ErInit`, `ErDeinit`, `ErSend`, `ErNewLoop`, `ErGetEventToDeliver`, `ErCallHandlers`, `ErReturnToSender`, `ErSubscribe`, `ErUnsubscribe` | the client's main loop, interrupts that send |
| Event types and bits (`event_type.h`, `bitref.h`) | none | `GetBitRef` | all routers |

What is hard about it:

- **Counting.** An event counts the tasks that still have a copy, plus one for
  its way back, plus one for each module that keeps it; re-sending an event in
  flight has to find out from the old count alone what the copies out there are
  going to do. The decision and the count are separate atomic operations, and
  between any two of them a task of higher priority or an interrupt may run.
- **Who owns the event.** The count is also what `ErEventIsInFlight()` reads.
- **Subscriptions** change while events are on their way, and each task keeps a
  summary of its modules' bits that senders in other tasks read.
- **Queues** assert (FreeRTOS) or block (POSIX) when full; the POSIX queue has one
  condition variable for readers and writers.
- **Start-up.** POSIX tasks may run before the router is initialized, and it may be
  deinitialized and initialized again with bits and events left over.
- **Bare metal.** One pointer per event serves two lists, and interrupts append.

Correct means, for the routers: the reference count accounts for everything that
will still call `ErReturnToSender()`; an event is handed back exactly once for
every time it is sent, in its owner's task, after the last subscriber is done with
it; every subscriber that stays subscribed gets it; no assertion fails and no queue
overflows when clients keep to the rules; and every event comes back in the end.
For the queue: first in, first out, and nobody sleeps who could go on. For the gate:
nobody passes early, nobody waits for ever.

## The modules

| Module | Models |
|---|---|
| `EventLifecycle` | the contract of `eventrouter.h`: idle, in flight, held by subscribers, handed back |
| `EventRouterOS` | the router with an OS; `MCEventRouterOS` has its instances |
| `EventRouterOS_proofs` | theorems about it: typing, task bits |
| `ReferenceCount_proofs` | what the reference count counts, the assertions, and that only idle events are sent |
| `QueueCapacity_proofs` | that queues with a slot for each event never fill up |
| `Delivery_proofs` | that events are handed back once, that no subscriber is missed, and that the router implements `EventLifecycle` |
| `InitGate`, `InitGate_proofs` | the initialization gate, and theorems |
| `BoundedFifo` | the contract of `queue_.h` |
| `PosixQueue`, `PosixQueue_proofs` | the ring buffer with mutex and condition variable, and theorems |
| `FreeRTOSQueue`, `FreeRTOSQueue_proofs` | the wrappers of FreeRTOS queues, and two theorems |
| `SubscriptionBits` | event types and the bits that subscriptions to them are kept in |
| `EventRouterBaremetal` | the router without an OS; `MCEventRouterBaremetal` has its instances |
| `EventRouterBaremetal_proofs` | that its lists, counts and order are right, that it implements `EventLifecycle`, and theorems about `SubscriptionBits` |

`EventRouterOS` and `EventRouterBaremetal` instantiate `EventLifecycle` (the
history variable `inFlight` is its own, `holders` is computed from the handlers that
run and the modules that keep), and `PosixQueue` and `FreeRTOSQueue` instantiate
`BoundedFifo`.
`EventRouterOS` takes a queue to be a sequence whose operations are atomic:
`BoundedFifo` says what that means, and `PosixQueue` is proved to provide it.

Definitions whose name starts with `Bug` are a definition of the model with a
plausible mistake. No specification uses them; replacing the definition by its
`Bug` breaks the property it is listed with in `PROJECT.json`.

### EventRouterOS

A *context* is a task, a thread that is no task of the router, or an interrupt.
`op[c]` is the API call context `c` is in, with its local variables; `disp[t]` is
the `ErCallHandlers()` activation of task `t`, which waits while a handler makes
calls. No deeper stack is needed because `ErCallHandlers()` and
`ErReturnToSender()` end in a call, and nothing follows it.

`ClearTaskBit` looks at the bits of the task's modules and clears the task's in one
step. Both kinds of bits change only in calls made in their own task, which
`eventrouter.h` demands of clients and `eventrouter_os.c:677-680` relies on, and the
task is in this call from the look to the write.

An action makes at most one access to memory that others may change, so TLC
interleaves the contexts wherever the machine can:

| Code | Actions |
|---|---|
| `ErInit()`, `ErDeinit()` | `ErInit`, `ErDeinit`; the mutex and the signal are in `InitGate` |
| `ErSendEx()` | `ErSendEx` (the assertion about the sender's subscription), `MarkTask` for each task of the counting loop, `AddSubscribers` (the first `fetch_add` and the assertions), `AddReturnTrip` (the second), `SendEvent` for each task posted to |
| `ErReceive()`, `ErTimedReceive()` | `ErReceive`; a timeout changes nothing |
| `ErCallHandlers()` | `ErCallHandlers` (the test of the count), `CallNextHandler`, `HandlerHandled` or `HandlerKept` |
| `ErReturnToSender()` | `ErReturnToSender` (a module that kept the event) or `Done` (the end of `ErCallHandlers()`), then `DropReference`, and `SendEvent` or `DropOwnerReference`, `CheckReturned`, `CallSender` |
| `ErSubscribe()` | `ErSubscribe`, `SetTaskBit` |
| `ErUnsubscribe()` | `ErUnsubscribe`, `ClearTaskBit` |

An interrupt runs to completion (`Running`). Tasks interleave freely, which
covers every scheduling and every assignment of priorities. Bits of one type are
independent of each other, so a set of types stands for a bit field; the reference
count is an unbounded integer. Clients behave as `eventrouter.h` asks: they
subscribe in the module's task and not to types the module sends, send after
`ErEventIsInFlight()` says no, re-send from the owner's task or an interrupt,
and return what they kept.

The program starts with zero memory. `ErInit` clears the bits of modules and not
those of tasks; `ErDeinit` may come when no call is in progress and the queues are
empty (the tests see to that), while modules still keep events, and then `ErInit`
again. So the bits that `ErInit` finds are those an earlier use really left.

`inFlight` and `owed` are history variables: the events not handed back, and the
deliveries each module can still expect. An unsubscription, or one before the
task was marked, cancels what is owed, as the comments in `ErSendEx()` and
`ErCallHandlers()` say.

### InitGate, PosixQueue

One action for each step between two points where another thread may act: reading
the flag without the mutex, taking the mutex, waiting (which releases it in the
same step), waking up. The mutex makes what is done between lock and unlock one
step for everyone who takes it, but `InitGate` keeps the steps apart, since
`CheckGate` and `ErDeinit` do not take it. Spurious wakeups are possible at any
time. `CheckGate` races with `ErInit()`: `StoresOrdered` says whether a task sees the
options no later than the flag that was written after them. If not, `m_options`, which
is what the tasks see of it, may come true only with the unlock in `Signal`.

The `memset()` of `ErDeinit()` takes no mutex and is not atomic, so it is two steps
(`ErDeinit`, `ClearRest`): a task may read the flag between them. The flag is the first
member and goes first with `StoresOrdered`; without, either goes first. The client calls
it when no task is inside the router (past the gate); tasks may be on their way
in.

In `PosixQueue` time passes in a step of its own: `Deadline` puts a thread in a timed call
into `expired`, whatever it is doing, and `pthread_cond_timedwait()` returns `ETIMEDOUT`
(`TimeOut`) only from then on. Any other return (`SpuriousWakeup`, or the broadcast
of another thread) makes the loop look at the queue again. So that a call gives up only at
its deadline is a property of that loop, `GivesUpOnlyAtDeadline`.

### EventRouterBaremetal, SubscriptionBits

`m_next` is the pointer of each event and list head, and `Path` follows it. An
interrupt is one action, since it runs to completion. The loop's own append is
split between the walk to the last node and the write (`FindEnd`, `AppendAtEnd`),
`ErNewLoop()` between the append and the clearing of the head, and
`ErReturnToSender()` between the decrement and the rest. `FindEnd` also has the early
return of `ErListAppend()` for an event that is in the list already.

An interrupt sends what `ErEventIsInFlight()` calls idle, as the docs allow. Two
constants say whether it also keeps two rules that the code needs and no doc names;
`Disciplined` is both:

- `MaskedWhileSending`: interrupts are off while the loop sends. Without it one of two
  appends is lost (`baremetal_interrupt`).
- `SendsReturnedOnly`: an interrupt sends only what its owner's handler got back.
  Without it an interrupt may send an event between the decrement and its removal from the
  list of kept events: its pointer still leads into that list and the assertion about it
  fails (`baremetal_resend`), or, for the last event of the list, it is on two lists
  and `ListsAreDisjoint` fails.

Each of the two runs drops one rule and keeps the other; `baremetal_loop` keeps both, so
`NoAssertionFails` and the rest are claims about disciplined interrupts, no more.

A third assumption is in `ClientsAssumption`: an event is sent by the loop or by
interrupts, never by both (`MaySend` and `InterruptSends` are disjoint). So no interrupt
sends an event between the loop's test of its count and the increment, which are one step
in `ErSendEx`, and in these instances the early return of `FindEnd` is never taken.

`m_subscriptions` are the bits of each module's array, as `SubscriptionBits` finds
them: memory is the set of the bits that are 1, and goes on behind the array.
`ER_EVENT_TYPE__OFFSET` and `ER_EVENT_TYPE__COUNT` are constants.

### FreeRTOSQueue

Each operation is a call, the step FreeRTOS makes of it (external: its queues take
and give whole elements, in order, and block), and the answer the wrapper makes of
it. `NDEBUG` says whether `assert()` evaluates its argument, which in
`ErQueuePopFront()` and `ErQueuePushBack()` is the call of FreeRTOS itself.

There is no run of this module. Its one hazard is not about interleavings:
`ErQueueTimedPushBack()` assigns where it should compare (`queue_freertos.c:55`), so every
timed push that gives up answers `true`, although `queue_.h:34` promises "true if
`a_event` was written". Two pushes into a queue of two and a third whose time runs out show
it. `FreeRTOSQueue_proofs` has that as a theorem for every queue,
`TimedOutPushClaimsSuccess`.

## What the runs show

| Run | Instance | Shows |
|---|---|---|
| `os_example` | the POSIX example: one publisher, two subscribers in another task, one keeps; two events, two slots per queue, initialized again and again, fair tasks | typing, `SubscriptionsCovered`, `OwnerHasExclusiveUse`, `ReturnedExactlyOnce`, `NoSubscriberMissed`, `SendNeverFindsQueueFull`, `SentOnlyWhenReturned`, `EveryEventReturns`; implements `EventLifecycle` |
| `os_fan_out` | one event, subscribers in three tasks, one the owner's; one of them keeps, and the owner re-sends while the count is at most 2 | `RefCountMatches`, `NoSubscriberMissed`, `NoAssertionFails` |
| `init_gate` | three tasks, two initializations, fair | `NoTaskPassesEarly`, `NoWakeupLost`, `GateWakesSomebody` |
| `posix_queue` | a timed reader, a timed and an untimed writer, two slots, two events, fair | typing, `NobodySleepsInVain`, `GivesUpOnlyAtDeadline`, `WritersMakeProgress`; implements `BoundedFifo` |
| `baremetal_loop` | three events of two senders, two sent by the loop and one by an interrupt that keeps the two rules above, two modules keep, fair | `CountsAccountForAll`, `ListsAreDisjoint`, `KeptListTells`, `NoAssertionFails`, `SentEventsAreFound`, `SubscriptionsStayInArray`, `DeliveredInOrder`, `EveryEventReturns`; implements `EventLifecycle` |

Seven more runs end in a counterexample to what the code's own documentation says:

| Run | Counterexample |
|---|---|
| `os_double_return` | `ErReturnToSender()` in task A leaves the count at 2 or more and goes on to the final test; the other tasks return the event meanwhile, the owner's task brings the count to 0, and both A and the owner's task call the sender's handler (`eventrouter_os.c:632`). Needs subscribers in two tasks beside each other, which is why `os_example` does not show it. |
| `os_lost_return` | the count is 0 before the owner's handler has run; an unregistered thread or an interrupt sends the event in between, and one of the two returns is lost (`eventrouter_os.c:575`, `623`) |
| `os_interrupt_resend` | nobody is subscribed: a send adds 0 (`eventrouter_os.c:388`), an interrupt that re-sends before 408 also reads 0 and adds a way back, and the interrupted send adds a second. There are two copies and the count is 2; the first copy takes both references and is handed back, the second makes the count -1 |
| `init_gate_sleeper` | `pthread_cond_signal()` wakes one of two tasks that wait (`eventrouter_os.c:286`) |
| `baremetal_interrupt` | the loop's append overwrites an interrupt's (`list.c:21`) |
| `baremetal_offset` | eight types from 1 to 8: the array is one byte, the bit of type 8 is in the second (`bitref.h:28`) |
| `baremetal_resend` | two events are kept; the module that keeps the first gives it back, its count is 0 (`eventrouter_baremetal.c:166`), and an interrupt sends it before the loop takes it off the list (176): its pointer still leads to the second event, and the assertion at 100 fails, although `ErEventIsInFlight()` said that it may be sent |

The properties that hold are stated where they hold: `ReturnedExactlyOnce` with
subscribers in one task; `SentOnlyWhenReturned` when the owner's task
sends; `CountNeverNegative`, `NoSubscriberMissed` and `NoAssertionFails` of
`EventRouterOS` where no interrupt re-sends; `NoTaskPassesEarly` where writes are seen in
their order; `SentEventsAreFound` and `NoAssertionFails` of `EventRouterBaremetal` with
disciplined interrupts; `SubscriptionsStayInArray` with types that start at 0.

An interrupt that re-sends, which `eventrouter.h:171-173` allows, does more harm than
`os_interrupt_resend` shows. No runs of their own are kept for these; each is found by
that run's configuration with the property named:

- When somebody is subscribed and the interrupt comes between the two additions, it reads
  the subscribers that were added and takes them for copies already sent. The count may end
  too high: with one subscriber in the owner's task it stays at 2 with nobody
  left to give a reference back, and the event does not return.
- Between the test of the count and the decrement in the owner's task
  (`eventrouter_os.c:522`, `575`) it takes the copy on its way back for its own, and the
  owner's subscribers miss the event (`NoSubscriberMissed`), while `eventrouter.h:166-167`
  says "All subscribers receive the event one time for each time the event is sent and
  re-sent."
- Between the two decrements in the owner's task (575, 623) it raises the count, and the
  assertion at 623 fails (`NoAssertionFails`).

Nor is a run kept for the data race on `m_initialized` (`eventrouter_os.c:142`), which
`WaitUntilInitComplete()` reads without the mutex. With `StoresOrdered = FALSE` in
`init_gate.cfg` TLC finds `NoTaskPassesEarly` violated after `ErInit`, `LockToOpen`,
`OpenGate` and the `CheckGate` of a task: on a machine that reorders stores it
passes the gate while it still sees no options. Machines that keep the order of stores, and of
loads, such as x86, are the case `StoresOrdered = TRUE`.

### Bounds

- One to three events, two or three tasks, two to four modules. What the router
  does with an event depends on no other event except through queue slots and
  the task that is busy; two events are enough for one to be delivered while
  another is sent, kept or returned. Three tasks are the owner's, and two others
  that race for the last reference; a fourth only repeats one of these.
- `MaxReferences` bounds re-sending: no context re-sends an event whose count is
  above it. A count of 2 lets it re-send from each case that `ErSendEx()`
  distinguishes (0, 1, more), and counts go past 5.
- `Capacity` is one slot per event where events are not re-sent, which is what
  `SendNeverFindsQueueFull` shows to be enough, and four in `os_fan_out`, where
  `NoAssertionFails` says the same of re-sending. With fewer slots than events a
  POSIX task may wait for ever for its own queue: in the instance of `os_example`
  with one slot, a publisher whose two events nobody subscribes to posts both to
  itself, and the second waits for a slot that only the publisher can free. No doc
  promises otherwise, so there is no run of it.
- `NumInits` bounds the calls of `ErInit()` in `InitGate`: two, so that tasks can
  be left over from the first.
- Nine event types, of which 7 and 8 are used: the last bit of a byte and the first of
  the next, in an array of two bytes. `baremetal_offset` has the smallest offset and the
  smallest count that show the problem.
- A ring of two slots: indices wrap, and the ring is at times neither empty nor full.
  `PosixQueue_proofs` covers the safety properties for every capacity.

Symmetry is not used. Deadlock is checked in every run but `os_interrupt_resend`,
where the program may stop at an assertion before the count is negative.

### Fairness

- `ErInit()` is called, at first and after each `ErDeinit()` (weak fairness).
- `EventRouterOS`: a context that is inside a call goes on (weak fairness on its
  steps). A task's loop calls `ErReceive()` again and again, handlers return, and
  modules give back what they keep, however often the task subscribes or sends
  in between (strong fairness, since such calls disable these actions for a while).
  This is what `task_generic.c` does and what `eventrouter.h` demands of keepers.
- `InitGate`, `PosixQueue`: every thread runs, and a thread that keeps asking for
  a mutex that keeps being released gets it (strong fairness on `Lock`). No
  fairness on spurious wakeups and timeouts.
- `EventRouterBaremetal`: a step of the router that is under way goes on (weak
  fairness). The client's loop calls `ErNewLoop()` and `ErGetEventToDeliver()`
  again and again, as the comment in `eventrouter.h` asks, and modules give back what
  they keep, whatever the client calls in between (strong fairness). None on sends,
  subscriptions, interrupts and `ErDeinit()`.

## What is proved

The proofs need the assumptions the modules name: what the constants are, that no
module is at two places, that contexts, threads and markers differ, and that
queues have at least one slot. They hold for every number of tasks, modules, events,
threads, interrupts and slots.

- `EventRouterOS_proofs!Typing`: `Spec => []TypeOK`. `TypeOK` is inductive: it says
  which fields a call has at each of its points (`Calls`, `Activations`), and
  `CallShapes` turns that around. One step per action.
- `EventRouterOS_proofs!Coverage`: `Spec => []SubscriptionsCovered`, with `TypeOK`
  inductive. Only the calls of a task change the bits of its modules and its own, and
  a task makes one call at a time. So between the two writes of `ErSubscribe()`
  nothing of its task can clear the bit, and `ErUnsubscribe()` looks at the modules'
  bits and clears the task's without anyone changing them. Every other step
  keeps the property by the lemma `CoveredKept`.
- `ReferenceCount_proofs!ReferenceCounts`: `Spec => []RefCountMatches`, if only tasks send,
  each the events of its own modules (`OnlyOwnersSend`), however often they re-send
  them and wherever the subscribers are. `RefCountMatches` says nothing of an event
  that is just being counted, so it is not inductive. `CountInv` adds, for each event:
  the references are finite sets that the count adds up to, give or take what the
  calls between two additions still owe (`Counted`, `StagesInv`); when the count is
  1 or less what is left is at home, in the owner's task (`AtHome`), so that the
  send which reads 0 or 1 knows that nobody else is at the event; while one addition
  is made and the other is not, nobody but the owner can reach the final test
  (`WaitsForOwner`); while a handler has the event the count is above 1
  (`InHandlers`). `ContextsInv` says whose call it can be. One lemma per action.
  From it `CountsStayNatural`: `Spec => []CountNeverNegative`. Without
  `OnlyOwnersSend` both are wrong: `os_interrupt_resend` shows it.
- `ReferenceCount_proofs!AssertionsHold`: no assertion fails if, beyond that, the
  queues block and no module subscribes to what it sends
  (`NobodySubscribesToOwn`, which `eventrouter.h` asks).
- `ReferenceCount_proofs!IdleWhenSent`: `Spec => SentOnlyWhenReturned`. While an event
  that is in flight has the count 0 its owner's task is busy returning it (`Busy`),
  and can send nothing. `os_lost_return` shows what a thread that is no task does.
- `QueueCapacity_proofs!QueuesSuffice`: without re-sends (`NobodyResends`) and with a slot
  for each event (`SlotForEach`) no queue is ever found full and no assertion
  fails, blocking or not. No task is due a second copy of an event (`OneCopy`), so
  what a queue holds is an injection into the events other than the one to be posted.
- `Delivery_proofs!HandedBackOnce`: `Spec => [](OwnerHasExclusiveUse /\ ReturnedExactlyOnce)`,
  (and `ExclusiveUse`, its first half) without re-sends, if the subscribers of an event are in one task
  (`OneSubscribingTask`) and queues block or have a slot for each event. Then
  nobody else can be at the final test when the count reaches 0; `EventsInv`
  follows an event from `Away` to `Returning` and `HandedBack`. `os_double_return`
  shows two subscribing tasks.
- `Delivery_proofs!ImplementsLifecycle`: `Spec => LifecycleSpec` under the same assumptions.
  `StepSimulated` has a case per action; that a module is handed an event only when it
  does not hold it already is `FirstTime`, and that only idle events are sent is
  `IdleWhenSent`'s argument.
- `Delivery_proofs!NobodyMissed`: `Spec => []NoSubscriberMissed`, if only owners send and
  nobody re-sends, wherever the subscribers are and whether queues block or not.
  `OwedInv` says where what a module is owed is: it is one delivery; the event is
  marked for the module's task, in its queue, or dispatched there and not yet past
  the module; and the count is above 1 or the event is still being sent, so
  that `ErCallHandlers()` takes it for an event to deliver. Nothing is owed when
  `ErInit()` clears the bits, since the router is then quiet.
- `PosixQueue_proofs!Invariance`, and from it `Typing`, `NoVainSleep` and `GivingUp`: the
  inductive invariant adds that an unfinished call has no answer and that only calls
  whose deadline has passed time out. The argument for the sleepers is that only `Access` changes the
  number of elements and that it wakes everybody.
- `PosixQueue_proofs!Implements`: `Spec => FifoSpec`. `WriteAppends` and
  `ReadTakesFirst` compute the contents of the ring after a step; both rest on
  `WrapOnce`, that a position below twice the capacity wraps at most once.
- `InitGate_proofs!Invariance`, and from it `GateHolds` and `SignalReaches`: the
  invariant says who holds the mutex at each point, and what `ErInit()` has done.
  A task on its way to sleep holds the mutex, and so does the main thread when it
  signals. `GateHolds` assumes `StoresOrdered`.
- `EventRouterBaremetal_proofs!Invariance`: `Spec => []IInv` when interrupts are
  disciplined, for any events and modules. From it follow `CountsTell`,
  `ListsStayDisjoint`, `KeptListIsTrue` and `SentEventsStay` (the invariants that
  `baremetal_loop` checks). None of them is inductive, since none says what a pointer in
  the middle of a list may be. `IInv` adds:
  - `ListsInv`: each list is a chain of different events (`IsChain`), found by following
    the pointers from its head; while `ErNewLoop()` moves one list to the other both end in
    the same event, so that an interrupt that appends to one appends to both; and what the
    loop remembers as the end of the list (`op.last`) still is. This last part needs the
    first rule of `Disciplined`: the append of another interrupt makes it stale.
  - `EventInv`, for each event: the router has it in one way at most (`OneWay`), nobody
    has it before it is delivered (`Untouched`), its count is one for the router and
    one for each module that still returns it (`Counted`), it is on the list of kept
    events if it is kept (`KeptInv`), and in flight if its count is not 0 or its
    sender is about to be called (`FlightInv`). This needs the second rule: an interrupt
    does not send the event that is just being handed back. While it is dispatched its keepers are
    modules the dispatch has passed, so no module keeps it twice.

  `Path`, which a list is read with, is a recursive function, and its value is found by
  induction: `PathOfChain` looks at the first place where it differs from the chain,
  and there is none, since a set of natural numbers has a smallest element (`Smallest`,
  from the library's well-foundedness of `<`). `ChainAppend`, `ChainConcat` and
  `ChainCut` then say what the three ways in which `list.c` writes pointers do to a
  chain, `AppendIs` and `RemoveIs` that `ErListAppend()` and `ErListRemove()` make these
  writes, and `AppendNext`, `AppendKept`, `CutOut`, `MoveNext` and `ClearNext` what
  becomes of all three lists. One lemma per action.
- `EventRouterBaremetal_proofs!SendAssertionsHold`: no assertion of a send fails if, beyond
  that, no module subscribes to what it sends (`NobodySubscribesToOwn`).
- `EventRouterBaremetal_proofs!DeliveryKeepsOrder`: `Spec => DeliveredInOrder`, from the
  sequences the list lemmas speak of.
- `EventRouterBaremetal_proofs!ImplementsLifecycle`: `Spec => LifecycleSpec` under the same
  two assumptions, with a case per action (`StepSimulated`).
- `EventRouterBaremetal_proofs!StaysInArray`: with types that start at 0,
  `Spec => []SubscriptionsStayInArray` for any number of types, from `BitsInArray`.
  `TypesShareNoBit`: no two types share a bit, so a set of types stands for the
  bits, which is how `EventRouterOS` takes them. `OffsetLeavesArray`: from an offset of
  8 on the last type never has a bit in the array.
- `FreeRTOSQueue_proofs!ImplementsFifo`: `Spec => FifoSpec` with `assert()` compiled
  in and no timed pushes; the invariant is that a call in progress has no answer. The
  two conditions are the two ways in which the wrappers fail to be a queue, and
  `TimedOutPushClaimsSuccess` says so of the second: a timed push that gives up is a step
  that `BoundedFifo` does not allow.

Only model-checked:

- the liveness properties: TLAPS does not do fairness and `ENABLED`;
- of re-sent events, whether subscribers get them, whether queues are large enough
  and whether they return. The proofs cover their counts, the assertions and what
  is sent.

## Not modelled

- `ErSetOsFunctions()`, which replaces the default functions for tests; `ErEventInit()`
  and `ErQueueFree()`, which begin and end the life of their object; the
  `pdMS_TO_TICKS` and deadline conversions; `ErListContains()` (not called by the router).
- Assertions about arguments (`NULL`, unroutable types, modules that are not
  registered): they involve no state.
- `ErDeinit()` with events in flight, beyond those that modules of `EventRouterOS` keep:
  no doc says what it promises then.
- The mask of the 32nd task (`1 << 31`), undefined in C: the model has a set of tasks.

## Plan

1. `EventLifecycle`, `EventRouterOS` and its instances: done. The core, first.
2. `EventRouterOS_proofs`: typing and the task bits: done.
3. `InitGate`, `BoundedFifo`, `PosixQueue`, with their proofs: done.
4. `EventRouterBaremetal` and `SubscriptionBits`, with the theorems about bits: done.
5. `ErInit()` and `ErDeinit()` in both routers: done.
6. `FreeRTOSQueue`, with its proof: done.
7. Left: a composition of the router with `PosixQueue` in the place of its sequences. Both
   sides are connected by the contract: `PosixQueue` implements `BoundedFifo`, and the
   router uses its queues as just that.
8. Proofs about `EventRouterOS`, from the counts to the implementation of `EventLifecycle`:
   done.
9. Proofs about `EventRouterBaremetal`, its lists, counts, order and its implementation of
   `EventLifecycle`: done.

----------------------------- MODULE PosixQueue -----------------------------
(***************************************************************************)
(* The queue of the POSIX implementation (queue_posix.c): a ring buffer     *)
(* under one mutex, with one condition variable for blocked readers and     *)
(* blocked writers alike.  The mutex protects the ring, so what a thread    *)
(* does to it between lock and unlock is one step.                          *)
(***************************************************************************)
EXTENDS Integers, Sequences

CONSTANTS Reader,     \* the threads that pop
          Writer,     \* the threads that push
          Timed,      \* those of them that use the timed variants
          ErEvent,
          Capacity,   \* a_capacity of ErQueueNew()
          NoAnswer, Written, Nobody

Thread == Reader \cup Writer
Slot == 0..(Capacity - 1)

ASSUME CapacityAssumption == Capacity \in Nat \ {0}
ASSUME ThreadsAssumption == Reader \cap Writer = {} /\ Nobody \notin Thread
ASSUME AnswersAssumption ==
  /\ NoAnswer \notin ErEvent /\ Written \notin ErEvent /\ NoAnswer # Written

VARIABLES m_mutex,  \* the thread that holds the mutex, or Nobody
          m_idx,    \* the next index to read from
          m_size,   \* the number of elements in the queue
          m_data,   \* the storage
          pc,       \* where each thread is
          arg,      \* the event each writer writes
          expired,  \* the threads in a timed call whose deadline has passed
          answer    \* the event read, or Written, or NoAnswer

ring == <<m_idx, m_size, m_data>>
vars == <<m_mutex, ring, pc, arg, expired, answer>>

(* ErQueueNew(); malloc() leaves the storage as it was.                    *)
Init ==
  /\ m_mutex = Nobody
  /\ m_idx = 0
  /\ m_size = 0
  /\ m_data \in [Slot -> ErEvent]
  /\ pc = [t \in Thread |-> "idle"]
  /\ arg \in [Writer -> ErEvent]
  /\ expired = {}
  /\ answer = [t \in Thread |-> NoAnswer]

Goto(t, where) == pc' = [pc EXCEPT ![t] = where]
-----------------------------------------------------------------------------
read(t) ==
  /\ answer' = [answer EXCEPT ![t] = m_data[m_idx]]
  /\ m_idx' = (m_idx + 1) % Capacity
  /\ m_size' = m_size - 1
  /\ UNCHANGED m_data

(* Mistake: the number of elements is the index to write to.               *)
BugWrite(t) ==
  /\ m_data' = [m_data EXCEPT ![m_size % Capacity] = arg[t]]
  /\ m_size' = m_size + 1
  /\ answer' = [answer EXCEPT ![t] = Written]
  /\ UNCHANGED m_idx

write(t) ==
  /\ m_data' = [m_data EXCEPT ![(m_idx + m_size) % Capacity] = arg[t]]
  /\ m_size' = m_size + 1
  /\ answer' = [answer EXCEPT ![t] = Written]
  /\ UNCHANGED m_idx

(* Mistake: pthread_cond_signal(), which wakes one thread.                 *)
BugBroadcast(t) ==
  \/ pc' = [pc EXCEPT ![t] = "unlock"] /\ \A u \in Thread : pc[u] # "asleep"
  \/ \E u \in Thread : pc[u] = "asleep" /\ pc' = [pc EXCEPT ![t] = "unlock", ![u] = "lock"]

(* Mistake: only the writers wake others.                                  *)
BugReadersWakeNobody(t) ==
  pc' = [u \in Thread |-> IF u = t THEN "unlock"
                          ELSE IF pc[u] = "asleep" /\ t \in Writer THEN "lock" ELSE pc[u]]

(* All threads that sleep on the condition variable compete for the mutex. *)
Broadcast(t) ==
  pc' = [u \in Thread |-> IF u = t THEN "unlock"
                          ELSE IF pc[u] = "asleep" THEN "lock" ELSE pc[u]]
-----------------------------------------------------------------------------
(* A call begins; the timed variants compute their deadline first, with    *)
(* future().                                                               *)
ErQueuePopFront(t) ==
  /\ pc[t] = "idle" /\ t \in Reader
  /\ Goto(t, "lock")
  /\ expired' = expired \ {t}
  /\ answer' = [answer EXCEPT ![t] = NoAnswer]
  /\ UNCHANGED <<m_mutex, ring, arg>>

ErQueuePushBack(t, event) ==
  /\ pc[t] = "idle" /\ t \in Writer
  /\ Goto(t, "lock")
  /\ expired' = expired \ {t}
  /\ arg' = [arg EXCEPT ![t] = event]
  /\ answer' = [answer EXCEPT ![t] = NoAnswer]
  /\ UNCHANGED <<m_mutex, ring>>

(* The deadline of a timed call passes, whatever the thread is doing; a    *)
(* deadline may also be over before the call asks for the mutex.           *)
Deadline(t) ==
  /\ t \in Timed \ expired
  /\ pc[t] \in {"lock", "test", "asleep"}
  /\ expired' = expired \cup {t}
  /\ UNCHANGED <<m_mutex, ring, pc, arg, answer>>

(* The thread gets the mutex: to start, after it was woken, or after its   *)
(* time is up, when it leaves without another look at the queue.           *)
Lock(t) ==
  /\ pc[t] \in {"lock", "timedOut"} /\ m_mutex = Nobody
  /\ m_mutex' = t
  /\ Goto(t, IF pc[t] = "lock" THEN "test" ELSE "unlock")
  /\ UNCHANGED <<ring, arg, expired, answer>>

(* Mistake: one more than fits.                                            *)
BugBlocked(t) == IF t \in Reader THEN m_size = 0 ELSE m_size > Capacity

Blocked(t) == m_size = IF t \in Reader THEN 0 ELSE Capacity

(* pthread_cond_wait() and pthread_cond_timedwait().                       *)
Wait(t) ==
  /\ pc[t] = "test" /\ Blocked(t)
  /\ m_mutex' = Nobody
  /\ Goto(t, "asleep")
  /\ UNCHANGED <<ring, arg, expired, answer>>

Access(t) ==
  /\ pc[t] = "test" /\ ~Blocked(t)
  /\ IF t \in Reader THEN read(t) ELSE write(t)
  /\ Broadcast(t)
  /\ UNCHANGED <<m_mutex, arg, expired>>

(* Mistake: the timed variants take every return of the wait for a timeout.*)
BugSpuriousWakeup(t) ==
  /\ pc[t] = "asleep"
  /\ Goto(t, IF t \in Timed THEN "timedOut" ELSE "lock")
  /\ UNCHANGED <<m_mutex, ring, arg, expired, answer>>

SpuriousWakeup(t) ==
  /\ pc[t] = "asleep"
  /\ Goto(t, "lock")
  /\ UNCHANGED <<m_mutex, ring, arg, expired, answer>>

(* ETIMEDOUT, which pthread_cond_timedwait() returns once the deadline has *)
(* passed: the call is given up.                                           *)
TimeOut(t) ==
  /\ pc[t] = "asleep" /\ t \in expired
  /\ Goto(t, "timedOut")
  /\ UNCHANGED <<m_mutex, ring, arg, expired, answer>>

Unlock(t) ==
  /\ pc[t] = "unlock"
  /\ m_mutex' = Nobody
  /\ Goto(t, "idle")
  /\ UNCHANGED <<ring, arg, expired, answer>>
-----------------------------------------------------------------------------
Next ==
  \E t \in Thread :
    \/ ErQueuePopFront(t)
    \/ \E event \in ErEvent : ErQueuePushBack(t, event)
    \/ Lock(t) \/ Wait(t) \/ Access(t) \/ Unlock(t)
    \/ SpuriousWakeup(t) \/ Deadline(t) \/ TimeOut(t)

Spec == Init /\ [][Next]_vars

(* Readers come back for more, as the tasks' loops do; every thread runs,  *)
(* and gets the mutex in the end.  Nobody counts on spurious wakeups,      *)
(* deadlines or timeouts.                                                  *)
FairSpec ==
  /\ Spec
  /\ \A t \in Thread : WF_vars(Wait(t) \/ Access(t) \/ Unlock(t)) /\ SF_vars(Lock(t))
  /\ \A t \in Reader : WF_vars(ErQueuePopFront(t))
-----------------------------------------------------------------------------
TypeOK ==
  /\ m_mutex \in Thread \cup {Nobody}
  /\ m_idx \in Slot
  /\ m_size \in 0..Capacity
  /\ m_data \in [Slot -> ErEvent]
  /\ pc \in [Thread -> {"idle", "lock", "test", "asleep", "timedOut", "unlock"}]
  /\ arg \in [Writer -> ErEvent]
  /\ expired \subseteq Timed
  /\ answer \in [Thread -> ErEvent \cup {NoAnswer, Written}]

(* No thread sleeps on while it could go on: readers only sleep while the  *)
(* queue is empty, writers only while it is full.                          *)
NobodySleepsInVain == \A t \in Thread : pc[t] = "asleep" => Blocked(t)

(* A call gives up only when its deadline has passed: no early return of   *)
(* pthread_cond_timedwait(), by a broadcast meant for others or for no     *)
(* reason, ends a timed call empty-handed before its time, and an untimed   *)
(* call comes back with its event read or written.                         *)
GivesUpOnlyAtDeadline ==
  \A t \in Thread :
    pc[t] = "timedOut" \/ (pc[t] = "unlock" /\ answer[t] = NoAnswer)
      => t \in expired

(* The ring buffer is a bounded first-in first-out queue: what is written  *)
(* is what its writer was given, what is read comes in that order, each    *)
(* once, and a thread has an answer exactly if that was done for it, so a  *)
(* call that gave up has left the queue alone.                             *)
contents == [i \in 1..m_size |-> m_data[(m_idx + i - 1) % Capacity]]
Fifo == INSTANCE BoundedFifo WITH contents <- contents
FifoSpec == Fifo!Spec

(* While the readers read and a writer waits without a deadline, some      *)
(* write gets done, whoever else gives up: threads that wait on the same   *)
(* condition variable for opposite reasons never end up all asleep.  (One  *)
(* of several writers may starve: the mutex has no order.)                 *)
WritersMakeProgress ==
  (\E t \in Writer \ Timed : pc[t] # "idle")
    ~> (\E t \in Writer : pc[t] = "unlock" /\ answer[t] = Written)
=============================================================================

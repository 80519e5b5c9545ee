-------------------------- MODULE PosixQueue_proofs --------------------------
(***************************************************************************)
(* Proofs about PosixQueue: for every capacity, every number of readers     *)
(* and writers and every mixture of timed and untimed calls, no thread      *)
(* sleeps while it could go on, calls give up only at their deadline, and   *)
(* the ring buffer is a first-in first-out queue.                           *)
(***************************************************************************)
EXTENDS PosixQueue, SequenceTheorems, TLAPS

(* What one step of a thread is; a name for the cases of the proofs.       *)
Step(t) ==
  \/ ErQueuePopFront(t)
  \/ \E event \in ErEvent : ErQueuePushBack(t, event)
  \/ Lock(t) \/ Wait(t) \/ Access(t) \/ Unlock(t)
  \/ SpuriousWakeup(t) \/ Deadline(t) \/ TimeOut(t)

(* A call that has not been answered yet has no answer.                    *)
Unanswered ==
  \A t \in Thread :
    pc[t] \in {"lock", "test", "asleep", "timedOut"} => answer[t] = NoAnswer

Inv ==
  /\ TypeOK
  /\ Unanswered
  /\ NobodySleepsInVain
  /\ GivesUpOnlyAtDeadline

(* A position of the ring stays in the ring.                               *)
LEMMA Wrap ==
  ASSUME NEW n \in Nat
  PROVE  n % Capacity \in Slot
BY CapacityAssumption DEF Slot

(* Every step of a thread keeps the types: the ring never holds more than  *)
(* its capacity or less than nothing.                                      *)
LEMMA StepTyped ==
  ASSUME TypeOK, NEW t \in Thread, Step(t)
  PROVE  TypeOK'
<1> USE DEF TypeOK, ring, Goto
<1>1. CASE ErQueuePopFront(t)
  BY <1>1 DEF ErQueuePopFront
<1>2. ASSUME NEW event \in ErEvent, ErQueuePushBack(t, event)
      PROVE  TypeOK'
  BY <1>2 DEF ErQueuePushBack
<1>3. CASE Lock(t)
  BY <1>3 DEF Lock
<1>4. CASE Wait(t)
  BY <1>4 DEF Wait
<1>5. CASE Access(t)
  <2>1. pc' \in [Thread -> {"idle", "lock", "test", "asleep", "timedOut", "unlock"}]
    BY <1>5 DEF Access, Broadcast
  <2>2. CASE t \in Reader
    <3>1. m_size # 0 /\ read(t)
      BY <1>5, <2>2 DEF Access, Blocked
    <3>2. m_idx + 1 \in Nat
      BY CapacityAssumption DEF Slot
    <3>3. m_idx' \in Slot
      BY <3>1, <3>2, Wrap DEF read
    <3>4. m_size' \in 0..Capacity
      BY <3>1, CapacityAssumption DEF read
    <3>5. answer' \in [Thread -> ErEvent \cup {NoAnswer, Written}]
      BY <3>1 DEF read
    <3> QED
      BY <1>5, <2>1, <3>1, <3>3, <3>4, <3>5 DEF Access, read
  <2>3. CASE t \notin Reader
    <3>1. m_size # Capacity /\ write(t) /\ t \in Writer
      BY <1>5, <2>3 DEF Access, Blocked, Thread
    <3>2. (m_idx + m_size) % Capacity \in Slot
      <4>1. m_idx + m_size \in Nat
        BY CapacityAssumption DEF Slot
      <4> QED
        BY <4>1, Wrap
    <3>3. m_data' \in [Slot -> ErEvent]
      BY <3>1, <3>2 DEF write
    <3>4. m_size' \in 0..Capacity
      BY <3>1, CapacityAssumption DEF write
    <3>5. answer' \in [Thread -> ErEvent \cup {NoAnswer, Written}]
      BY <3>1 DEF write
    <3> QED
      BY <1>5, <2>1, <3>1, <3>3, <3>4, <3>5 DEF Access, write
  <2> QED
    BY <2>2, <2>3
<1>6. CASE Unlock(t)
  BY <1>6 DEF Unlock
<1>7. CASE SpuriousWakeup(t)
  BY <1>7 DEF SpuriousWakeup
<1>8. CASE TimeOut(t)
  BY <1>8 DEF TimeOut
<1>9. CASE Deadline(t)
  BY <1>9 DEF Deadline
<1> QED
  BY <1>1, <1>2, <1>3, <1>4, <1>5, <1>6, <1>7, <1>8, <1>9 DEF Step

(* Every step of a thread keeps the rest of the invariant.  Only Access    *)
(* changes the ring, and it wakes everybody.                               *)
LEMMA StepSafe ==
  ASSUME Inv, NEW t \in Thread, Step(t)
  PROVE  (Unanswered /\ NobodySleepsInVain /\ GivesUpOnlyAtDeadline)'
<1> USE DEF Inv, TypeOK, Unanswered, NobodySleepsInVain,
            GivesUpOnlyAtDeadline, Blocked, ring, Goto
<1>1. CASE ErQueuePopFront(t)
  BY <1>1 DEF ErQueuePopFront
<1>2. ASSUME NEW event \in ErEvent, ErQueuePushBack(t, event)
      PROVE  (Unanswered /\ NobodySleepsInVain /\ GivesUpOnlyAtDeadline)'
  BY <1>2 DEF ErQueuePushBack
<1>3. CASE Lock(t)
  BY <1>3 DEF Lock
<1>4. CASE Wait(t)
  BY <1>4 DEF Wait
<1>5. CASE Access(t)
  <2>1. \A u \in Thread : pc'[u] = IF u = t THEN "unlock"
                                   ELSE IF pc[u] = "asleep" THEN "lock" ELSE pc[u]
    BY <1>5 DEF Access, Broadcast
  <2>2. /\ answer'[t] # NoAnswer
        /\ \A u \in Thread \ {t} : answer'[u] = answer[u]
    BY <1>5, AnswersAssumption DEF Access, read, write
  <2>3. pc[t] = "test" /\ expired' = expired
    BY <1>5 DEF Access
  <2> QED
    BY <2>1, <2>2, <2>3
<1>6. CASE Unlock(t)
  BY <1>6 DEF Unlock
<1>7. CASE SpuriousWakeup(t)
  BY <1>7 DEF SpuriousWakeup
<1>8. CASE TimeOut(t)
  BY <1>8 DEF TimeOut
<1>9. CASE Deadline(t)
  BY <1>9 DEF Deadline
<1> QED
  BY <1>1, <1>2, <1>3, <1>4, <1>5, <1>6, <1>7, <1>8, <1>9 DEF Step

(* The types, and what makes the queue safe, hold in every reachable state.*)
THEOREM Invariance == Spec => []Inv
<1>1. Init => Inv
  BY CapacityAssumption, AnswersAssumption
  DEF Init, Inv, TypeOK, Unanswered, NobodySleepsInVain,
      GivesUpOnlyAtDeadline, Slot
<1>2. Inv /\ [Next]_vars => Inv'
  <2> SUFFICES ASSUME Inv, [Next]_vars
               PROVE  Inv'
    OBVIOUS
  <2>1. CASE Next
    <3>1. PICK t \in Thread : Step(t)
      BY <2>1 DEF Next, Step
    <3> QED
      BY <3>1, StepTyped, StepSafe DEF Inv
  <2>2. CASE UNCHANGED vars
    BY <2>2 DEF vars, ring, Inv, TypeOK, Unanswered, 
                NobodySleepsInVain, GivesUpOnlyAtDeadline, Blocked
  <2> QED
    BY <2>1, <2>2
<1> QED
  BY <1>1, <1>2, PTL DEF Spec

(* The index stays in the ring and the size within the capacity, whatever   *)
(* the threads do (queue_posix.c, the arithmetic on m_idx and m_size).      *)
THEOREM Typing == Spec => []TypeOK
BY Invariance, PTL DEF Inv

(* The shared condition variable never leaves a reader asleep beside an    *)
(* event, or a writer beside a free slot (queue_posix.c, every wait and    *)
(* every broadcast).                                                       *)
THEOREM NoVainSleep == Spec => []NobodySleepsInVain
BY Invariance, PTL DEF Inv

(* A call gives up only when its deadline has passed: no spurious wakeup   *)
(* and no broadcast meant for others ends it (queue_posix.c, the loops      *)
(* around pthread_cond_wait() and pthread_cond_timedwait()).               *)
THEOREM GivingUp == Spec => []GivesUpOnlyAtDeadline
BY Invariance, PTL DEF Inv

(* Up to twice the capacity, a position of the ring is itself or what is   *)
(* left without the capacity.                                              *)
LEMMA WrapOnce ==
  ASSUME NEW a \in Nat, a < Capacity,
         NEW i \in Nat, 1 <= i, i <= Capacity
  PROVE  (a + i - 1) % Capacity =
           IF a + i - 1 < Capacity THEN a + i - 1 ELSE a + i - 1 - Capacity
BY CapacityAssumption

(* A write appends its event to the contents of the ring.                  *)
LEMMA WriteAppends ==
  ASSUME TypeOK, NEW t \in Writer, m_size # Capacity, write(t)
  PROVE  contents' = Append(contents, arg[t])
<1> USE DEF TypeOK, Slot
<1>1. m_size \in Nat /\ m_idx \in Nat /\ m_idx < Capacity /\ m_size < Capacity
  BY CapacityAssumption
<1>2. m_idx' = m_idx /\ m_size' = m_size + 1
  BY DEF write
<1>3. ASSUME NEW i \in 1..(m_size + 1)
      PROVE  m_data'[(m_idx + i - 1) % Capacity] =
               IF i = m_size + 1 THEN arg[t] ELSE m_data[(m_idx + i - 1) % Capacity]
  <2> DEFINE at(j) == (m_idx + j - 1) % Capacity
  <2>1. \A j \in 1..(m_size + 1) :
          at(j) = IF m_idx + j - 1 < Capacity THEN m_idx + j - 1
                                              ELSE m_idx + j - 1 - Capacity
    BY <1>1, WrapOnce, CapacityAssumption
  <2>2. at(i) = at(m_size + 1) <=> i = m_size + 1
    BY <1>1, <2>1, CapacityAssumption
  <2>3. at(i) \in Slot
    BY <1>1, <2>1, CapacityAssumption
  <2>4. m_data' = [m_data EXCEPT ![at(m_size + 1)] = arg[t]]
    <3>1. m_idx + (m_size + 1) - 1 = m_idx + m_size
      BY <1>1
    <3> QED
      BY <3>1 DEF write
  <2> HIDE DEF at
  <2>5. m_data'[at(i)] = IF i = m_size + 1 THEN arg[t] ELSE m_data[at(i)]
    BY <2>2, <2>3, <2>4
  <2> QED
    BY <2>5 DEF at
<1>4. contents' = [i \in 1..(m_size + 1) |-> m_data'[(m_idx + i - 1) % Capacity]]
  BY <1>2 DEF contents
<1>5. contents \in Seq(ErEvent) /\ Len(contents) = m_size
  <2>1. ASSUME NEW i \in 1..m_size
        PROVE  m_data[(m_idx + i - 1) % Capacity] \in ErEvent
    <3>1. m_idx + i - 1 \in Nat
      BY <1>1
    <3> QED
      BY <3>1, Wrap
  <2> QED
    BY <1>1, <2>1 DEF contents
<1>6. Append(contents, arg[t]) =
        [i \in 1..(m_size + 1) |-> IF i = m_size + 1 THEN arg[t] ELSE contents[i]]
  BY <1>1, <1>5
<1>7. \A i \in 1..m_size : contents[i] = m_data[(m_idx + i - 1) % Capacity]
  BY DEF contents
<1>8. \A i \in 1..(m_size + 1) :
        m_data'[(m_idx + i - 1) % Capacity] =
          IF i = m_size + 1 THEN arg[t] ELSE contents[i]
  <2> SUFFICES ASSUME NEW i \in 1..(m_size + 1)
               PROVE  m_data'[(m_idx + i - 1) % Capacity] =
                        IF i = m_size + 1 THEN arg[t] ELSE contents[i]
    OBVIOUS
  <2>1. CASE i = m_size + 1
    BY <1>3, <2>1
  <2>2. CASE i \in 1..m_size
    BY <1>1, <1>3, <1>7, <2>2
  <2> QED
    BY <1>1, <2>1, <2>2
<1> QED
  BY <1>4, <1>6, <1>8

(* What the ring holds is a sequence of as many events as it counts.       *)
LEMMA ContentsTyped ==
  ASSUME TypeOK
  PROVE  contents \in Seq(ErEvent) /\ Len(contents) = m_size
<1> USE DEF TypeOK, Slot
<1>1. m_size \in Nat /\ m_idx \in Nat
  BY CapacityAssumption
<1>2. ASSUME NEW i \in 1..m_size
      PROVE  m_data[(m_idx + i - 1) % Capacity] \in ErEvent
  <2>1. m_idx + i - 1 \in Nat
    BY <1>1
  <2> QED
    BY <2>1, Wrap
<1> QED
  BY <1>1, <1>2 DEF contents

(* A read takes the first event of the contents of the ring.               *)
LEMMA ReadTakesFirst ==
  ASSUME TypeOK, NEW t \in Reader, m_size # 0, read(t)
  PROVE  /\ contents # <<>>
         /\ contents' = Tail(contents)
         /\ m_data[m_idx] = Head(contents)
<1> USE DEF TypeOK, Slot
<1>1. m_size \in Nat /\ m_idx \in Nat /\ m_idx < Capacity /\ 0 < m_size /\ m_size <= Capacity
  BY CapacityAssumption
<1>2. contents \in Seq(ErEvent) /\ Len(contents) = m_size
  BY ContentsTyped
<1>3. m_idx' = (IF m_idx + 1 < Capacity THEN m_idx + 1 ELSE 0)
  BY <1>1, CapacityAssumption DEF read
<1>4. m_size' = m_size - 1 /\ m_data' = m_data
  BY DEF read
<1>5. m_idx' \in Nat /\ m_idx' < Capacity
  BY <1>1, <1>3, CapacityAssumption
<1>6. ASSUME NEW i \in 1..(m_size - 1)
      PROVE  (m_idx' + i - 1) % Capacity = (m_idx + (i + 1) - 1) % Capacity
  <2>1. (m_idx' + i - 1) % Capacity =
          IF m_idx' + i - 1 < Capacity THEN m_idx' + i - 1 ELSE m_idx' + i - 1 - Capacity
    <3>1. i \in Nat /\ 1 <= i /\ i <= Capacity
      BY <1>1, CapacityAssumption
    <3> QED
      BY <1>5, <3>1, WrapOnce
  <2>2. (m_idx + (i + 1) - 1) % Capacity =
          IF m_idx + (i + 1) - 1 < Capacity THEN m_idx + (i + 1) - 1
                                            ELSE m_idx + (i + 1) - 1 - Capacity
    BY <1>1, WrapOnce, CapacityAssumption
  <2> QED
    BY <1>1, <1>3, <2>1, <2>2, CapacityAssumption
<1>7. contents' = [i \in 1..(m_size - 1) |-> m_data[(m_idx' + i - 1) % Capacity]]
  BY <1>4 DEF contents
<1>8. Tail(contents) = [i \in 1..(m_size - 1) |-> contents[i + 1]]
  <2>1. contents # <<>>
    BY <1>1, <1>2
  <2>2. /\ Tail(contents) \in Seq(ErEvent) /\ Len(Tail(contents)) = m_size - 1
        /\ \A i \in 1..Len(Tail(contents)) : Tail(contents)[i] = contents[i + 1]
    BY <1>2, <2>1, HeadTailProperties
  <2>3. Tail(contents) \in [1..(m_size - 1) -> ErEvent]
    BY <2>2, LenProperties
  <2> QED
    BY <2>2, <2>3
<1>9. ASSUME NEW i \in 1..(m_size - 1)
      PROVE  contents[i + 1] = m_data[(m_idx' + i - 1) % Capacity]
  <2>1. i + 1 \in 1..m_size
    BY <1>1
  <2>2. contents[i + 1] = m_data[(m_idx + (i + 1) - 1) % Capacity]
    BY <2>1 DEF contents
  <2> QED
    BY <1>6, <2>2
<1>10. m_data[m_idx] = Head(contents)
  <2>1. contents[1] = m_data[(m_idx + 1 - 1) % Capacity]
    BY <1>1 DEF contents
  <2>2. (m_idx + 1 - 1) % Capacity = m_idx
    BY <1>1, CapacityAssumption
  <2> QED
    BY <1>2, <2>1, <2>2
<1>11. contents # <<>>
  BY <1>1, <1>2
<1> QED
  BY <1>7, <1>8, <1>9, <1>10, <1>11

(* Every step of a thread is a step of the queue BoundedFifo specifies, or *)
(* leaves its contents and its answers alone.                              *)
LEMMA StepSimulated ==
  ASSUME Inv, NEW t \in Thread, Step(t)
  PROVE  [Fifo!Next]_(Fifo!vars)
<1> USE DEF Fifo!vars
<1>1. ASSUME UNCHANGED <<m_idx, m_size, m_data>>
      PROVE  contents' = contents
  BY <1>1 DEF contents
<1>2. CASE ErQueuePopFront(t)
  <2>1. Fifo!CallRead(t) /\ t \in Reader
    BY <1>1, <1>2 DEF ErQueuePopFront, ring, Fifo!CallRead, Fifo!Unanswered
  <2> QED
    BY <2>1 DEF Fifo!Next
<1>3. ASSUME NEW event \in ErEvent, ErQueuePushBack(t, event)
      PROVE  Fifo!Next
  <2>1. Fifo!CallWrite(t, event) /\ t \in Writer
    BY <1>1, <1>3 DEF ErQueuePushBack, ring, Fifo!CallWrite, Fifo!Unanswered
  <2> QED
    BY <2>1 DEF Fifo!Next
<1>4. CASE Lock(t) \/ Wait(t) \/ Unlock(t) \/ SpuriousWakeup(t) \/ Deadline(t)
           \/ TimeOut(t)
  <2>1. UNCHANGED <<ring, arg, answer>>
    BY <1>4 DEF Lock, Wait, Unlock, SpuriousWakeup, Deadline, TimeOut
  <2> QED
    BY <1>1, <2>1 DEF ring
<1>5. CASE Access(t)
  <2>1. answer[t] = NoAnswer
    BY <1>5 DEF Access, Inv, Unanswered
  <2>2. Len(contents) = m_size
    BY ContentsTyped DEF Inv
  <2>3. CASE t \in Reader
    <3>1. m_size # 0 /\ read(t)
      BY <1>5, <2>3 DEF Access, Blocked
    <3>2. contents # <<>> /\ contents' = Tail(contents) /\ m_data[m_idx] = Head(contents)
      BY <2>3, <3>1, ReadTakesFirst DEF Inv
    <3>3. answer' = [answer EXCEPT ![t] = Head(contents)]
      BY <3>1, <3>2 DEF read
    <3>4. Fifo!Read(t)
      BY <1>5, <2>1, <3>2, <3>3 DEF Access, Fifo!Read
    <3> QED
      BY <2>3, <3>4 DEF Fifo!Next
  <2>4. CASE t \notin Reader
    <3>1. m_size # Capacity /\ write(t) /\ t \in Writer
      BY <1>5, <2>4 DEF Access, Blocked, Thread
    <3>2. contents' = Append(contents, arg[t])
      BY <3>1, WriteAppends DEF Inv
    <3>3. m_size < Capacity
      BY <3>1, CapacityAssumption DEF Inv, TypeOK
    <3>4. answer' = [answer EXCEPT ![t] = Written]
      BY <3>1 DEF write
    <3>5. Fifo!Write(t)
      BY <1>5, <2>1, <2>2, <3>2, <3>3, <3>4 DEF Access, Fifo!Write
    <3> QED
      BY <3>1, <3>5 DEF Fifo!Next
  <2> QED
    BY <2>3, <2>4
<1> QED
  BY <1>2, <1>3, <1>4, <1>5 DEF Step

(* The ring buffer implements the first-in first-out queue that queue_.h   *)
(* promises and EventRouterOS relies on (queue_posix.c, read and write).   *)
THEOREM Implements == Spec => FifoSpec
<1>1. Init => Fifo!Init
  <2> SUFFICES ASSUME Init
               PROVE  Fifo!Init
    OBVIOUS
  <2>1. contents = <<>>
    BY DEF Init, contents
  <2> QED
    BY <2>1 DEF Init, Fifo!Init, Thread, Fifo!Thread
<1>2. Inv /\ [Next]_vars => [Fifo!Next]_(Fifo!vars)
  <2> SUFFICES ASSUME Inv, [Next]_vars
               PROVE  [Fifo!Next]_(Fifo!vars)
    OBVIOUS
  <2>1. CASE Next
    <3>1. PICK t \in Thread : Step(t)
      BY <2>1 DEF Next, Step
    <3> QED
      BY <3>1, StepSimulated
  <2>2. CASE UNCHANGED vars
    BY <2>2 DEF vars, ring, contents, Fifo!vars
  <2> QED
    BY <2>1, <2>2
<1> QED
  BY <1>1, <1>2, Invariance, PTL DEF Spec, FifoSpec, Fifo!Spec
=============================================================================

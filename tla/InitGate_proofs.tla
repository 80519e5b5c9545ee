--------------------------- MODULE InitGate_proofs ---------------------------
(***************************************************************************)
(* Proofs about InitGate: for any number of tasks and of initializations,   *)
(* no task passes the gate before the router is initialized, and none can   *)
(* miss the signal.                                                         *)
(***************************************************************************)
EXTENDS InitGate, TLAPS

(* The mutex is held by whoever is between its lock and its unlock.        *)
MutexHeld ==
  /\ mutex = "main" <=> main \in {"open", "signal"}
  /\ \A t \in Task : mutex = t <=> pc[t] \in {"recheck", "wait", "unlock"}

(* What ErInit() has done by each of its steps.                            *)
InitProgress ==
  /\ main \in {"lock", "open"} => ~m_initialized
  /\ main = "signal" => m_initialized

(* What the tasks see of it, and of ErDeinit(), when they see the writes   *)
(* in their order.                                                         *)
OptionsSeen ==
  /\ main = "clear" => ~m_initialized
  /\ main \in {"lock", "open"} => m_options
  /\ m_initialized => m_options
  /\ NoTaskPassesEarly

Inv == TypeOK /\ MutexHeld /\ InitProgress /\ (StoresOrdered => OptionsSeen)

(* The steps of the main thread keep the invariant.                        *)
LEMMA MainKeeps ==
  ASSUME Inv, MainStep \/ ErDeinit
  PROVE  Inv'
<1> USE NamesAssumption DEF Inv, TypeOK, MutexHeld, InitProgress, OptionsSeen, NoTaskPassesEarly
<1>1. CASE ErInit
  <2>1. m_options' \in BOOLEAN /\ (StoresOrdered => m_options')
    BY <1>1, OrderAssumption DEF ErInit
  <2>2. inits' \in Nat
    BY <1>1, BoundAssumption DEF ErInit
  <2> QED
    BY <1>1, <2>1, <2>2 DEF ErInit
<1>2. CASE LockToOpen
  BY <1>2 DEF LockToOpen
<1>3. CASE OpenGate
  BY <1>3 DEF OpenGate
<1>4. CASE Signal
  <2>1. CASE Asleep = {}
    BY <1>4, <2>1 DEF Signal
  <2>2. ASSUME NEW t \in Asleep, Goto(t, "relock")
        PROVE  Inv'
    BY <1>4, <2>2 DEF Signal, Asleep, Goto
  <2> QED
    BY <1>4, <2>1, <2>2 DEF Signal
<1>5. CASE ErDeinit
  <2>1. PICK flag \in BOOLEAN :
          /\ m_initialized' = flag /\ m_options' = ~flag
          /\ StoresOrdered => ~flag
    BY <1>5, OrderAssumption DEF ErDeinit
  <2> QED
    BY <1>5, <2>1 DEF ErDeinit
<1>6. CASE ClearRest
  BY <1>6 DEF ClearRest
<1> QED
  BY <1>1, <1>2, <1>3, <1>4, <1>5, <1>6 DEF MainStep

(* So do the steps of the tasks.                                           *)
LEMMA TaskKeeps ==
  ASSUME Inv, NEW t \in Task, TaskStep(t) \/ Lock(t) \/ SpuriousWakeup(t)
  PROVE  Inv'
<1> USE NamesAssumption
    DEF Inv, TypeOK, MutexHeld, InitProgress, OptionsSeen, NoTaskPassesEarly, Goto
<1>1. CASE CheckGate(t)
  BY <1>1 DEF CheckGate
<1>2. CASE RecheckGate(t)
  BY <1>2 DEF RecheckGate
<1>3. CASE Wait(t)
  BY <1>3 DEF Wait
<1>4. CASE Unlock(t)
  BY <1>4 DEF Unlock
<1>5. CASE Receive(t)
  BY <1>5 DEF Receive
<1>6. CASE Lock(t)
  BY <1>6 DEF Lock
<1>7. CASE SpuriousWakeup(t)
  BY <1>7 DEF SpuriousWakeup
<1> QED
  BY <1>1, <1>2, <1>3, <1>4, <1>5, <1>6, <1>7 DEF TaskStep

(* The types and the discipline of the mutex hold in every reachable state.*)
THEOREM Invariance == Spec => []Inv
<1>1. Init => Inv
  <2> SUFFICES ASSUME Init
               PROVE  Inv
    OBVIOUS
  <2>1. TypeOK
    BY DEF Init, TypeOK
  <2>2. MutexHeld
    BY NamesAssumption DEF Init, MutexHeld
  <2>3. InitProgress /\ OptionsSeen
    BY DEF Init, InitProgress, OptionsSeen, NoTaskPassesEarly
  <2> QED
    BY <2>1, <2>2, <2>3 DEF Inv
<1>2. Inv /\ [Next]_vars => Inv'
  <2> SUFFICES ASSUME Inv, [Next]_vars
               PROVE  Inv'
    OBVIOUS
  <2>1. CASE Next
    BY <2>1, MainKeeps, TaskKeeps DEF Next
  <2>2. CASE UNCHANGED vars
    BY <2>2 DEF vars, Inv, TypeOK, MutexHeld, InitProgress, OptionsSeen, NoTaskPassesEarly
  <2> QED
    BY <2>1, <2>2
<1> QED
  BY <1>1, <1>2, PTL DEF Spec

(* When the tasks see the writes of ErInit() in their order,               *)
(* WaitUntilInitComplete() lets none of them use the options or a queue    *)
(* before ErInit() has filled them in.                                     *)
THEOREM GateHolds ==
  ASSUME StoresOrdered
  PROVE  Spec => []NoTaskPassesEarly
<1>1. Inv => NoTaskPassesEarly
  BY DEF Inv, OptionsSeen
<1> QED
  BY <1>1, Invariance, PTL

(* When pthread_cond_signal() is called, no task is between reading the    *)
(* flag as FALSE and falling asleep.                                       *)
THEOREM SignalReaches == Spec => []NoWakeupLost
<1>1. Inv => NoWakeupLost
  BY NamesAssumption DEF Inv, MutexHeld, NoWakeupLost
<1> QED
  BY <1>1, Invariance, PTL
=============================================================================

------------------------------ MODULE InitGate ------------------------------
(***************************************************************************)
(* The gate of the POSIX implementation (eventrouter_os.c).  POSIX threads  *)
(* run as soon as they are created, so the tasks of the router may ask for  *)
(* an event before the main thread has called ErInit():                     *)
(* WaitUntilInitComplete() holds them back on a mutex and a condition       *)
(* variable.  ErDeinit() may follow, and ErInit() be called again.          *)
(***************************************************************************)
EXTENDS Naturals

CONSTANTS Task,    \* the threads that call ErReceive()
          NumInits, \* bound of the model: how often ErInit() is called
          StoresOrdered \* whether the tasks, which read the flag without the mutex,
                        \* see the writes of ErInit() in their order, and those
                        \* of ErDeinit() in the order of the addresses

ASSUME BoundAssumption == NumInits \in Nat
ASSUME OrderAssumption == StoresOrdered \in BOOLEAN
ASSUME NamesAssumption == "main" \notin Task /\ "nobody" \notin Task

VARIABLES m_initialized,
          m_options,  \* whether the tasks see that s_context.m_options points
                      \* to the options
          mutex,      \* the holder of s_init_gate_mutex, or "nobody"
          main,       \* where the main thread is
          pc,         \* where each task is
          inits       \* the number of calls of ErInit()

vars == <<m_initialized, m_options, mutex, main, pc, inits>>

Init ==
  /\ m_initialized = FALSE
  /\ m_options = FALSE
  /\ mutex = "nobody"
  /\ main = "idle"
  /\ pc = [t \in Task |-> "outside"]
  /\ inits = 0

Goto(t, where) == pc' = [pc EXCEPT ![t] = where]
Asleep == {t \in Task : pc[t] = "asleep"}
-----------------------------------------------------------------------------
(* ErInit() fills in the context and then opens the gate under the mutex.   *)
(* The lock does not hold back what was written before it: the options may *)
(* reach the tasks after the flag, though not after the unlock.             *)
ErInit ==
  /\ main = "idle" /\ ~m_initialized
  /\ inits < NumInits
  /\ inits' = inits + 1
  /\ m_options' \in IF StoresOrdered THEN {TRUE} ELSE BOOLEAN
  /\ main' = "lock"
  /\ UNCHANGED <<m_initialized, mutex, pc>>

(* Mistake: the gate is opened without the mutex.                          *)
BugLockToOpen ==
  /\ main = "lock"
  /\ main' = "open"
  /\ UNCHANGED <<m_initialized, m_options, mutex, pc, inits>>

LockToOpen ==
  /\ main = "lock" /\ mutex = "nobody"
  /\ mutex' = "main"
  /\ main' = "open"
  /\ UNCHANGED <<m_initialized, m_options, pc, inits>>

OpenGate ==
  /\ main = "open"
  /\ m_initialized' = TRUE
  /\ main' = "signal"
  /\ UNCHANGED <<m_options, mutex, pc, inits>>

(* Mistake: nobody is woken.                                               *)
BugSignal ==
  /\ main = "signal"
  /\ mutex' = "nobody"
  /\ m_options' = TRUE
  /\ main' = "idle"
  /\ UNCHANGED <<m_initialized, pc, inits>>

(* pthread_cond_signal() wakes one of the tasks that sleep, if any does.   *)
Signal ==
  /\ main = "signal"
  /\ IF Asleep = {} THEN UNCHANGED pc ELSE \E t \in Asleep : Goto(t, "relock")
  /\ mutex' = "nobody"
  /\ m_options' = TRUE
  /\ main' = "idle"
  /\ UNCHANGED <<m_initialized, inits>>

(* memset() clears the context piece by piece and without the mutex, while *)
(* tasks may read the flag, which is the first member: one of the flag and *)
(* the options goes first.  A client has no task inside when it calls      *)
(* this; tasks may still be on their way in.                               *)
ErDeinit ==
  /\ main = "idle" /\ m_initialized
  /\ \A t \in Task : pc[t] # "inside"
  /\ \E flag \in IF StoresOrdered THEN {FALSE} ELSE BOOLEAN :
       /\ m_initialized' = flag
       /\ m_options' = ~flag
  /\ main' = "clear"
  /\ UNCHANGED <<mutex, pc, inits>>

ClearRest ==
  /\ main = "clear"
  /\ m_initialized' = FALSE
  /\ m_options' = FALSE
  /\ main' = "idle"
  /\ UNCHANGED <<mutex, pc, inits>>
-----------------------------------------------------------------------------
(* WaitUntilInitComplete(): the loop's condition is read without the mutex.*)
CheckGate(t) ==
  /\ pc[t] \in {"outside", "again"}
  /\ Goto(t, IF m_initialized THEN "inside" ELSE "lock")
  /\ UNCHANGED <<m_initialized, m_options, mutex, main, inits>>

Lock(t) ==
  /\ pc[t] \in {"lock", "relock"} /\ mutex = "nobody"
  /\ mutex' = t
  /\ Goto(t, IF pc[t] = "lock" THEN "recheck" ELSE "unlock")
  /\ UNCHANGED <<m_initialized, m_options, main, inits>>

RecheckGate(t) ==
  /\ pc[t] = "recheck"
  /\ Goto(t, IF m_initialized THEN "unlock" ELSE "wait")
  /\ UNCHANGED <<m_initialized, m_options, mutex, main, inits>>

(* pthread_cond_wait() releases the mutex and sleeps in one step.          *)
Wait(t) ==
  /\ pc[t] = "wait"
  /\ mutex' = "nobody"
  /\ Goto(t, "asleep")
  /\ UNCHANGED <<m_initialized, m_options, main, inits>>

(* POSIX lets pthread_cond_wait() return for no reason.                    *)
SpuriousWakeup(t) ==
  /\ pc[t] = "asleep"
  /\ Goto(t, "relock")
  /\ UNCHANGED <<m_initialized, m_options, mutex, main, inits>>

(* Mistake: the flag is not read again after the wait.                     *)
BugUnlock(t) ==
  /\ pc[t] = "unlock"
  /\ mutex' = "nobody"
  /\ Goto(t, "inside")
  /\ UNCHANGED <<m_initialized, m_options, main, inits>>

Unlock(t) ==
  /\ pc[t] = "unlock"
  /\ mutex' = "nobody"
  /\ Goto(t, "again")
  /\ UNCHANGED <<m_initialized, m_options, main, inits>>

(* The task uses the options to find its queue, and calls ErReceive() anew.*)
Receive(t) ==
  /\ pc[t] = "inside"
  /\ Goto(t, "outside")
  /\ UNCHANGED <<m_initialized, m_options, mutex, main, inits>>
-----------------------------------------------------------------------------
MainStep == ErInit \/ LockToOpen \/ OpenGate \/ Signal \/ ClearRest
TaskStep(t) == CheckGate(t) \/ RecheckGate(t) \/ Wait(t) \/ Unlock(t) \/ Receive(t)

Next ==
  \/ MainStep
  \/ ErDeinit
  \/ \E t \in Task : TaskStep(t) \/ Lock(t) \/ SpuriousWakeup(t)

Spec == Init /\ [][Next]_vars

(* Every thread runs and gets the mutex in the end; nobody counts on       *)
(* spurious wakeups.                                                       *)
FairSpec ==
  /\ Spec
  /\ WF_vars(ErInit \/ OpenGate \/ Signal \/ ClearRest) /\ SF_vars(LockToOpen)
  /\ \A t \in Task : WF_vars(TaskStep(t)) /\ SF_vars(Lock(t))
-----------------------------------------------------------------------------
TypeOK ==
  /\ m_initialized \in BOOLEAN /\ m_options \in BOOLEAN
  /\ mutex \in Task \cup {"main", "nobody"}
  /\ main \in {"idle", "lock", "open", "signal", "clear"}
  /\ pc \in [Task -> {"outside", "again", "lock", "relock", "recheck", "wait", "asleep",
                      "unlock", "inside"}]
  /\ inits \in Nat

(* No task goes on before the context it will use is filled in, or while   *)
(* it is being cleared.                                                    *)
NoTaskPassesEarly == \A t \in Task : pc[t] = "inside" => m_options /\ m_initialized

(* No task that found the gate closed is still on its way to sleep when    *)
(* the signal is sent: no wakeup is lost.                                  *)
NoWakeupLost == main = "signal" => \A t \in Task : pc[t] # "wait"

(* Opening the gate gets a task that waits through it, unless the router   *)
(* is shut down again first.                                               *)
GateWakesSomebody ==
  (main = "signal" /\ Asleep # {}) ~>
    ((\E t \in Task : pc[t] = "inside") \/ ~m_initialized)

(* "WaitUntilInitComplete() blocks reads until initialization completes",  *)
(* and no longer: every task that sleeps is woken once it did.             *)
GateWakesEverybody ==
  \A t \in Task : (pc[t] = "asleep" /\ m_initialized) ~> (pc[t] # "asleep")
=============================================================================

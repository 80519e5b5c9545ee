--------------------------- MODULE EventLifecycle ---------------------------
(***************************************************************************)
(* What the Event Router promises about the lifecycle of one event, as      *)
(* eventrouter.h states it: an idle event may be sent; once sent it is      *)
(* delivered to subscribers, some of which may keep it; when no subscriber  *)
(* uses it any more it is handed back, once, to the module that owns it.    *)
(* Until then the owner may neither send nor modify it.                     *)
(*                                                                          *)
(* EventRouterOS and the other routers are shown to implement this module.  *)
(***************************************************************************)
CONSTANTS Module,   \* the modules (ErModule_t)
          Event,    \* the statically allocated events (ErEvent_t)
          m_sending_module  \* the module that owns each event

VARIABLES inFlight, \* the events sent and not yet handed back
          holders   \* for each event the subscribers that may still read it

vars == <<inFlight, holders>>

Init ==
  /\ inFlight = {}
  /\ holders = [e \in Event |-> {}]

(* Only idle events are sent.                                              *)
Send(e) ==
  /\ e \notin inFlight
  /\ inFlight' = inFlight \cup {e}
  /\ UNCHANGED holders

(* A subscriber's handler starts to use the event; an owner never          *)
(* subscribes to what it sends.                                            *)
Deliver(e, m) ==
  /\ e \in inFlight
  /\ m # m_sending_module[e]
  /\ m \notin holders[e]
  /\ holders' = [holders EXCEPT ![e] = @ \cup {m}]
  /\ UNCHANGED inFlight

(* The handler, or the module that kept the event, is done with it.        *)
Release(e, m) ==
  /\ m \in holders[e]
  /\ holders' = [holders EXCEPT ![e] = @ \ {m}]
  /\ UNCHANGED inFlight

(* The owner's handler gets the event back, and with it the exclusive use. *)
Return(e) ==
  /\ e \in inFlight
  /\ holders[e] = {}
  /\ inFlight' = inFlight \ {e}
  /\ UNCHANGED holders

Next ==
  \E e \in Event :
    \/ Send(e)
    \/ Return(e)
    \/ \E m \in Module : Deliver(e, m) \/ Release(e, m)

Spec == Init /\ [][Next]_vars
=============================================================================

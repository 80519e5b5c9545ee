---------------------------- MODULE BoundedFifo ----------------------------
(***************************************************************************)
(* What queue_.h promises of the queue of a task: values come out in the    *)
(* order they went in, each once, at most Capacity of them wait, and a      *)
(* thread gets an answer only for what was done on its behalf.              *)
(*                                                                          *)
(* EventRouterOS takes its queues for such queues; PosixQueue implements    *)
(* one.                                                                     *)
(***************************************************************************)
EXTENDS Naturals, Sequences

CONSTANTS Reader, Writer, ErEvent, Capacity,
          NoAnswer, \* a call has had no effect (yet)
          Written   \* the answer to a call that wrote an event

Thread == Reader \cup Writer

VARIABLES contents, \* the events in the queue, first in front
          arg,      \* the event each writer was last asked to write
          answer    \* what each thread's last call has done

vars == <<contents, arg, answer>>

Init ==
  /\ contents = <<>>
  /\ arg \in [Writer -> ErEvent]
  /\ answer = [t \in Thread |-> NoAnswer]

Unanswered(t) == answer' = [answer EXCEPT ![t] = NoAnswer]

CallRead(t) ==
  /\ Unanswered(t)
  /\ UNCHANGED <<contents, arg>>

CallWrite(t, event) ==
  /\ arg' = [arg EXCEPT ![t] = event]
  /\ Unanswered(t)
  /\ UNCHANGED contents

Write(t) ==
  /\ answer[t] = NoAnswer
  /\ Len(contents) < Capacity
  /\ contents' = Append(contents, arg[t])
  /\ answer' = [answer EXCEPT ![t] = Written]
  /\ UNCHANGED arg

Read(t) ==
  /\ answer[t] = NoAnswer
  /\ contents # <<>>
  /\ contents' = Tail(contents)
  /\ answer' = [answer EXCEPT ![t] = Head(contents)]
  /\ UNCHANGED arg

Next ==
  \/ \E t \in Reader : CallRead(t) \/ Read(t)
  \/ \E t \in Writer : Write(t) \/ \E event \in ErEvent : CallWrite(t, event)

Spec == Init /\ [][Next]_vars
=============================================================================

-------------------------- MODULE MCEventRouterOS --------------------------
(* Instances of EventRouterOS for TLC.  A topology is a set of modules,     *)
(* their tasks and positions in them, the events with their owners, and     *)
(* the subscriptions the modules may ask for.                               *)
EXTENDS EventRouterOS

Nobody == [c \in Context |-> {}]
OwnType == [e \in Event |-> e]
OwnersSend == [c \in Context |-> IF c \in Task THEN {e \in Event : OwnerTask(e) = c}
                                               ELSE {}]
ThreadsSend == [c \in Context |-> IF c \in External THEN Event ELSE {}]
OwnersAndInterruptsSend == [c \in Context |-> IF c \in Isr THEN Event ELSE OwnersSend[c]]

(* The shape of the POSIX example: a publisher in the task of higher       *)
(* priority, and a task whose two modules subscribe to what it sends.      *)
ExampleModule == {"publisher", "logger", "uploader"}
ExampleTask == [m \in ExampleModule |-> IF m = "publisher" THEN 1 ELSE 2]
ExampleIdx == [m \in ExampleModule |-> IF m = "uploader" THEN 1 ELSE 0]
ExampleEvent == {"reading", "status"}
ExampleOwner == [e \in ExampleEvent |-> "publisher"]
ExampleSubscribe == {<<"logger", "reading">>, <<"uploader", "reading">>,
                     <<"logger", "status">>}

(* One event whose owner shares its task with a subscriber, and a          *)
(* subscriber in a task of higher and one in a task of lower priority.     *)
FanModule == {"owner", "local", "higher", "lower"}
FanTask == [m \in FanModule |-> CASE m = "higher" -> 1 [] m = "lower" -> 3 [] OTHER -> 2]
FanIdx == [m \in FanModule |-> IF m = "local" THEN 1 ELSE 0]
FanEvent == {"tick"}
FanOwner == [e \in FanEvent |-> "owner"]
FanSubscribe == {<<m, "tick">> : m \in {"local", "higher", "lower"}}

(* The same with one other task.                                           *)
PairModule == {"owner", "local", "remote"}
PairTask == [m \in PairModule |-> IF m = "remote" THEN 2 ELSE 1]
PairIdx == [m \in PairModule |-> IF m = "local" THEN 1 ELSE 0]
PairSubscribe == {<<m, "tick">> : m \in {"local", "remote"}}
=============================================================================

----------------------- MODULE MCEventRouterBaremetal -----------------------
(* Instances of EventRouterBaremetal for TLC.                               *)
EXTENDS EventRouterBaremetal

(* A sensor and a display that send, and a logger that keeps events.       *)
LoopModule == {"sensor", "logger", "display"}
LoopIdx == [m \in LoopModule |-> CASE m = "sensor" -> 0 [] m = "logger" -> 1 [] OTHER -> 2]
LoopEvent == {"sample", "alarm", "key"}
(* The two types lie on either side of a byte boundary.                    *)
measure == 7
input == 8
LoopType == [e \in LoopEvent |-> IF e = "key" THEN input ELSE measure]
LoopOwner == [e \in LoopEvent |-> IF e = "key" THEN "display" ELSE "sensor"]
LoopSubscribe == {<<"logger", measure>>, <<"display", measure>>, <<"logger", input>>}
=============================================================================

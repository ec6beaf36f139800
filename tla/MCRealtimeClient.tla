-------------------------- MODULE MCRealtimeClient --------------------------
(* RealtimeClient with budgets for what may happen.                        *)
EXTENDS RealtimeClient

AllFaults == {"close", "error", "replaced", "fail", "reload", "lifecycle", "user",
              "requests", "decides", "presence", "expires"}

Once(kinds) == [f \in Faults |-> IF f \in kinds THEN 1 ELSE 0]
Troubles == {"close", "error", "replaced", "fail", "reload", "lifecycle"}

(* The user at work with what others do in the room; and one fault while   *)
(* the request that matters is made and decided, or two.                   *)
OneFault ==
    [owner |-> {[Once({"user", "requests"}) EXCEPT !["presence"] = 2], Once({"requests", "expires"}),
                Once({"user", "expires"}), Once({"replaced", "lifecycle"})}
               \cup {Once({"requests", f}) : f \in Troubles},
     receiver |-> {Once({"user", "decides"}), Once({"decides", "presence"}),
                   Once({"decides", "requests"}), Once({"decides", "expires"}),
                   Once({"decides", "user", "expires"})}
                  \cup {Once({"decides", f}) : f \in Troubles}]

(* A receiver waiting, for the liveness of its wait.                       *)
OneReceiver ==
    [owner |-> {},
     receiver |-> {Once({"decides", f}) : f \in {"close", "fail", "reload", "replaced", "expires"}}]
=============================================================================

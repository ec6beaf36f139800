---------------------------- MODULE MCSignaling ----------------------------
(* Signaling with budgets for what may go wrong.                           *)
EXTENDS Signaling

AllFaults == {"socket", "expire", "reject", "flap", "fail", "reload", "user", "slow"}
Scenario(streamed, kinds) ==
    [streamed |-> streamed, configured |-> kinds \cap {"expire", "slow"} = {},
     faults |-> [f \in Faults |-> IF f \in kinds THEN 1 ELSE 0]]
(* One fault of each kind, and slow pages where a deadline can then go by  *)
(* or a connection can be lost while another is made.                      *)
OneFault ==
    {Scenario(FALSE, {f}) : f \in {"socket", "expire", "reject", "reload"}}
    \cup {Scenario(TRUE, {f}) : f \in {"socket", "fail"}}
    \cup {Scenario(FALSE, {f, "slow"}) : f \in {"flap", "fail"}}
    \cup {Scenario(TRUE, {"user", "slow"})}
=============================================================================

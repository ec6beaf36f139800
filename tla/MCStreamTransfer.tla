-------------------------- MODULE MCStreamTransfer --------------------------
(***************************************************************************)
(* Instances of StreamTransfer: two full segments, an empty file and a      *)
(* short one, so that segments, files and the empty file all meet, and the  *)
(* combinations of faults the run allows.                                   *)
(***************************************************************************)
EXTENDS StreamTransfer

FewSizes == <<3, 0, 1>>

Calm == [k \in FaultKinds |-> 0]

Breaks == [Calm EXCEPT !.breaks = 2]
Reloads == [Calm EXCEPT !.receiver = 2, !.denials = 1]
BreakAndReload == [Calm EXCEPT !.breaks = 1, !.receiver = 1, !.denials = 1]
BothReload == [Calm EXCEPT !.sender = 1, !.receiver = 1, !.denials = 1]
BreakAndSender == [Calm EXCEPT !.breaks = 1, !.sender = 1, !.denials = 1]
Refusal == [Calm EXCEPT !.breaks = 1, !.timeouts = 1, !.storage = 1]
RefusalAndReload == [Calm EXCEPT !.receiver = 1, !.storage = 1]
Cancels == [Calm EXCEPT !.breaks = 1, !.cancels = 2, !.timeouts = 1]

AnyFaults == {Breaks, Reloads, BreakAndReload, BothReload, BreakAndSender, Refusal,
              RefusalAndReload, Cancels}
=============================================================================

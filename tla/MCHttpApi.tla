----------------------------- MODULE MCHttpApi -----------------------------
(* HttpApi with two calls at a time, in the mixes of calls that interact.  *)
EXTENDS HttpApi, TLC

Mix(known, session, create, invite, join, other) ==
    [known |-> known,
     calls |-> [kind \in CallKinds |->
        CASE kind = "session" -> session [] kind = "create" -> create [] kind = "invite" -> invite
          [] kind = "join" -> join [] kind = "other" -> other]]

(* Repeated creations, repeated invites, repeated joins with and without   *)
(* an invite, sessions that begin, and a busy limiter.                     *)
Mixes ==
    {Mix(Sessions, 0, 3, 0, 0, 0), Mix(Sessions, 0, 1, 0, 2, 1), Mix(Sessions, 0, 1, 1, 1, 0),
     Mix({}, 2, 1, 0, 0, 0), Mix(Sessions, 8, 0, 0, 0, 0)}
    \cup {Mix({s}, 0, 1, 3, 0, 0) : s \in Sessions}

Symmetry == Permutations(Sessions) \cup Permutations(Addresses)
=============================================================================

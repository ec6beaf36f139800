------------------------------- MODULE Room -------------------------------
(***************************************************************************)
(* One room as the domain crate promises it: the room does not exist until *)
(* it is created, and from then on changes only by the commands of         *)
(* RoomCommand, each applied as a whole.  This is the abstract             *)
(* specification of a stored room; RoomStore implements it per room code.  *)
(*                                                                         *)
(* A command carries the time its handler read from the clock before it    *)
(* waited for the database, so any earlier time is possible.               *)
(***************************************************************************)
EXTENDS RoomAggregate

CONSTANTS
    MaxTime,   \* bound on the clock
    NoRoom     \* the room has not been created

ASSUME TimeAssumption ==
    /\ MaxTime \in Nat
    /\ NoRoom \notin RoomRecord

VARIABLES
    room,      \* the room, or NoRoom
    now        \* the clock, in abstract ticks

vars == <<room, now>>

Times == 0..MaxTime

Init == room = NoRoom /\ now = 0

----------------------------------------------------------------------------

Tick == now < MaxTime /\ now' = now + 1 /\ UNCHANGED room

Create(owner, t, expires_at) ==
    /\ room = NoRoom
    /\ t <= now
    /\ t < expires_at    \* InvalidExpiry
    /\ room' = CreateRoom(owner, expires_at)
    /\ UNCHANGED now

(* A command that changed the room; all others leave it as it is.          *)
Keep(result) ==
    /\ result.outcome = "changed"
    /\ room' = result.room
    /\ UNCHANGED now

HandleRequestJoin(q, s, t, expires_at) ==
    /\ room # NoRoom
    /\ t <= now
    /\ Keep(RequestJoin(room, q, s, t, expires_at))

HandleDecideJoin(actor, q, decision, t) ==
    /\ room # NoRoom
    /\ t <= now
    /\ Keep(DecideJoin(room, actor, q, decision, t))

HandleExpireJoinRequest(q, t) ==
    /\ room # NoRoom
    /\ t <= now
    /\ Keep(ExpireJoinRequest(room, q, t))

HandleAttach(s, p, t) ==
    /\ room # NoRoom
    /\ t <= now
    /\ Keep(Attach(room, s, p, t))

HandleDetach(s, p) == room # NoRoom /\ Keep(Detach(room, s, p))

HandleLeave(s) == room # NoRoom /\ Keep(Leave(room, s))

HandleExpire(t) ==
    /\ room # NoRoom
    /\ t <= now
    /\ Keep(Expire(room, t))

Next ==
    \/ Tick
    \/ \E s \in Sessions, t \in Times, e \in Times : Create(s, t, e)
    \/ \E q \in RequestIds, s \in Sessions, t \in Times, e \in Times :
         HandleRequestJoin(q, s, t, e)
    \/ \E s \in Sessions, q \in RequestIds, d \in {"approve", "reject"}, t \in Times :
         HandleDecideJoin(s, q, d, t)
    \/ \E q \in RequestIds, t \in Times : HandleExpireJoinRequest(q, t)
    \/ \E s \in Sessions, p \in Peers, t \in Times : HandleAttach(s, p, t)
    \/ \E s \in Sessions, p \in Peers : HandleDetach(s, p)
    \/ \E s \in Sessions : HandleLeave(s)
    \/ \E t \in Times : HandleExpire(t)

Spec == Init /\ [][Next]_vars

----------------------------------------------------------------------------
(* Properties.                                                             *)

(* The room, when it exists, is a well formed aggregate and the clock is   *)
(* within its bound.                                                       *)
TypeOK == room \in RoomRecord \cup {NoRoom} /\ now \in Times

(* Room::restore accepts every room a sequence of commands can produce: no *)
(* request outlives its room, the owner never is Left, every other member  *)
(* is a receiver, and every approved request still has its membership.  A  *)
(* room that broke this could never be loaded again.                       *)
AlwaysRestorable == room # NoRoom => Restorable(room)

(* A session waiting for a decision is not a member and waits on a single  *)
(* request, across joining, leaving and joining again (request_join checks *)
(* only the moment of the request).                                        *)
OneWayIn ==
    room # NoRoom =>
        \A q \in RequestIds : room.join_requests[q].state = "pending" =>
            /\ ~IsMember(room, room.join_requests[q].session)
            /\ PendingOf(room, room.join_requests[q].session) = {q}

(* A session that is not a member becomes one only by the approval of its  *)
(* own pending request in an active room (decide_join), also after it left.*)
AdmittedByApproval ==
    [][room # NoRoom =>
         \A s \in Sessions :
           IsMember(room', s) /\ ~IsMember(room, s) =>
             /\ room.state = "active"
             /\ \E q \in PendingOf(room, s) : room'.join_requests[q].state = "approved"]_room

(* A resolved join request keeps its outcome, its session and its deadline *)
(* for ever (TerminalRequest, IdempotencyConflict).                        *)
DecisionsAreFinal ==
    [][room # NoRoom =>
         \A q \in RequestIds :
           room.join_requests[q].state \notin {"absent", "pending"} =>
             room'.join_requests[q] = room.join_requests[q]]_room

(* After expiry or the owner's leave the room never becomes active again   *)
(* and nobody is admitted to it or comes online in it.                     *)
ExpiredIsFinal ==
    [][room # NoRoom /\ room.state = "expired" =>
         /\ room'.state = "expired"
         /\ \A s \in Sessions :
              room'.memberships[s].state = "online" => room.memberships[s].state = "online"]_room

(* The revision names the state: it moves by exactly one with every change *)
(* of the room, so equal revisions mean an equal room (the basis of        *)
(* expected_revision).                                                     *)
RevisionNamesState ==
    [][room # NoRoom => room'.revision = room.revision + 1]_room
============================================================================

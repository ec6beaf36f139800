--------------------------- MODULE RoomAggregate ---------------------------
(***************************************************************************)
(* The Room aggregate of rust/crates/domain/src/room.rs as pure operators. *)
(* A room is a record; every command of RoomCommand is an operator from a  *)
(* room and the command's arguments to a Result: the room after the call   *)
(* and how the call ended ("changed", "unchanged" or "error").             *)
(*                                                                         *)
(* BTreeMap entries that do not exist are the values NoMembership and      *)
(* NoRequest.  The error kinds of RoomError are not told apart here.       *)
(***************************************************************************)
EXTENDS Naturals

CONSTANTS
    Sessions,     \* SessionId
    Peers,        \* PeerId
    RequestIds,   \* RequestId of join requests
    MaxRevision,  \* the largest value a Revision can hold (its integer width)
    NoSession,    \* no session
    NoPeer        \* no peer

ASSUME RoomAssumption ==
    /\ MaxRevision \in Nat \ {0}
    /\ NoSession \notin Sessions
    /\ NoPeer \notin Peers

----------------------------------------------------------------------------
(* The types of the aggregate.                                             *)

MembershipRole == {"none", "owner", "receiver"}
MembershipState == {"absent", "offline", "online", "left"}
JoinRequestState ==
    {"absent", "pending", "approved", "rejected", "cancelled", "expired"}

Membership == [role  : MembershipRole,
               state : MembershipState,
               peer  : Peers \cup {NoPeer}]

JoinRequest == [session    : Sessions \cup {NoSession},
                expires_at : Nat,
                state      : JoinRequestState]

RoomRecord == [owner         : Sessions,
               expires_at    : Nat,
               state         : {"active", "expired"},
               revision      : 1..MaxRevision,
               memberships   : [Sessions -> Membership],
               join_requests : [RequestIds -> JoinRequest]]

NoMembership == [role |-> "none", state |-> "absent", peer |-> NoPeer]

NoRequest == [session |-> NoSession, expires_at |-> 0, state |-> "absent"]

Offline(role) == [role |-> role, state |-> "offline", peer |-> NoPeer]

(* A member that has not left.                                             *)
IsMember(r, s) == r.memberships[s].state \in {"offline", "online"}

PendingOf(r, s) ==
    {q \in RequestIds : /\ r.join_requests[q].session = s
                        /\ r.join_requests[q].state = "pending"}

----------------------------------------------------------------------------
(* How a command ends.  Storage keeps the room only when it is "changed":  *)
(* a failed command's transaction is rolled back.                          *)

Unchanged(r) == [room |-> r, outcome |-> "unchanged"]

Failed(r) == [room |-> r, outcome |-> "error"]

(* Faulty variants, here and below, stand for slips the properties are     *)
(* tested against; nothing uses them.  Here: the sum is not checked, and   *)
(* the revision is not moved.                                              *)
CommitUnchecked(r) == [room |-> [r EXCEPT !.revision = @ + 1], outcome |-> "changed"]
CommitInPlace(r) == [room |-> r, outcome |-> "changed"]

Commit(r) ==
    IF r.revision < MaxRevision
    THEN [room |-> [r EXCEPT !.revision = @ + 1], outcome |-> "changed"]
    ELSE Failed(r)    \* RevisionOverflow

(* Faulty: only the clock counts, not the state.                           *)
ActiveByClock(r, now) == now < r.expires_at

ActiveAt(r, now) == r.state = "active" /\ now < r.expires_at

----------------------------------------------------------------------------
(* The commands.                                                           *)

CreateRoom(owner, expires_at) ==
    [owner         |-> owner,
     expires_at    |-> expires_at,
     state         |-> "active",
     revision      |-> 1,
     memberships   |-> [s \in Sessions |->
                          IF s = owner THEN Offline("owner") ELSE NoMembership],
     join_requests |-> [q \in RequestIds |-> NoRequest]]

(* Faulty: does not look for another pending request of the session.       *)
RequestJoinAgain(r, q, s, now, expires_at) ==
    IF /\ ActiveAt(r, now) /\ now < expires_at /\ expires_at <= r.expires_at
       /\ r.join_requests[q] = NoRequest
       /\ ~IsMember(r, s)
    THEN Commit([r EXCEPT !.join_requests[q] =
                   [session |-> s, expires_at |-> expires_at, state |-> "pending"]])
    ELSE Failed(r)

(* Faulty: a repeated request moves the deadline.                          *)
RequestJoinExtended(r, q, s, now, expires_at) ==
    LET existing == r.join_requests[q]
        inWindow == ActiveAt(r, now) /\ now < expires_at /\ expires_at <= r.expires_at
    IN  IF inWindow /\ existing.session = s /\ existing.state = "pending"
        THEN Commit([r EXCEPT !.join_requests[q].expires_at = expires_at])
        ELSE IF inWindow /\ existing = NoRequest /\ ~IsMember(r, s) /\ PendingOf(r, s) = {}
        THEN Commit([r EXCEPT !.join_requests[q] =
                       [session |-> s, expires_at |-> expires_at, state |-> "pending"]])
        ELSE Failed(r)

RequestJoin(r, q, s, now, expires_at) ==
    LET existing == r.join_requests[q]
        inWindow == ActiveAt(r, now) /\ now < expires_at /\ expires_at <= r.expires_at
        replay   == existing.session = s /\ existing.expires_at = expires_at
    IN  IF inWindow /\ existing # NoRequest /\ replay
        THEN Unchanged(r)
        ELSE IF inWindow /\ existing = NoRequest /\ ~IsMember(r, s) /\ PendingOf(r, s) = {}
        THEN Commit([r EXCEPT !.join_requests[q] =
                       [session |-> s, expires_at |-> expires_at, state |-> "pending"]])
        ELSE Failed(r)

(* The state a decision leads to. *)
Decided(decision) == IF decision = "approve" THEN "approved" ELSE "rejected"

(* Faulty: decides a request that is no longer pending once more.          *)
DecideJoinAnew(r, actor, q, decision, now) ==
    LET request == r.join_requests[q]
    IN  IF ActiveAt(r, now) /\ actor = r.owner /\ request # NoRequest /\ now < request.expires_at
        THEN Commit(IF decision = "approve"
                    THEN [r EXCEPT !.join_requests[q].state = "approved",
                                   !.memberships[request.session] = Offline("receiver")]
                    ELSE [r EXCEPT !.join_requests[q].state = "rejected"])
        ELSE Failed(r)

DecideJoin(r, actor, q, decision, now) ==
    LET request == r.join_requests[q]
        allowed == /\ ActiveAt(r, now)
                   /\ actor = r.owner
                   /\ request # NoRequest
                   /\ now < request.expires_at
        admit   == [r EXCEPT !.join_requests[q].state = "approved",
                             !.memberships[request.session] = Offline("receiver")]
        reject  == [r EXCEPT !.join_requests[q].state = "rejected"]
    IN  IF allowed /\ request.state = "pending"
        THEN Commit(IF decision = "approve" THEN admit ELSE reject)
        ELSE IF allowed /\ request.state = Decided(decision)
        THEN Unchanged(r)
        ELSE Failed(r)

ExpireJoinRequest(r, q, now) ==
    LET request == r.join_requests[q]
        known   == ActiveAt(r, now) /\ request # NoRequest
    IN  IF known /\ request.state # "pending"
        THEN Unchanged(r)
        ELSE IF known /\ request.expires_at <= now
        THEN Commit([r EXCEPT !.join_requests[q].state = "expired"])
        ELSE Failed(r)

(* Faulty: a session that has left attaches again.                         *)
AttachReturning(r, s, p, now) ==
    IF ActiveAt(r, now) /\ r.memberships[s] # NoMembership
    THEN Commit([r EXCEPT !.memberships[s] =
                   [role |-> r.memberships[s].role, state |-> "online", peer |-> p]])
    ELSE Failed(r)

Attach(r, s, p, now) ==
    LET member == r.memberships[s]
    IN  IF ActiveAt(r, now) /\ member.state = "online" /\ member.peer = p
        THEN Unchanged(r)
        ELSE IF ActiveAt(r, now) /\ IsMember(r, s)
        THEN Commit([r EXCEPT !.memberships[s] =
                       [role |-> member.role, state |-> "online", peer |-> p]])
        ELSE Failed(r)

(* Faulty: refuses to detach from a room that is over.                     *)
DetachWhileActive(r, s, p) ==
    LET member == r.memberships[s]
    IN  IF r.state = "active" /\ member.state = "online" /\ member.peer = p
        THEN Commit([r EXCEPT !.memberships[s] = Offline(member.role)])
        ELSE Failed(r)

Detach(r, s, p) ==
    LET member == r.memberships[s]
    IN  IF member.state = "online" /\ member.peer = p
        THEN Commit([r EXCEPT !.memberships[s] = Offline(member.role)])
        ELSE IF IsMember(r, s)
        THEN Unchanged(r)
        ELSE Failed(r)

(* Faulty: the owner leaves like any member.                               *)
LeaveLikeMember(r, s) ==
    IF r.memberships[s] # NoMembership
    THEN Commit([r EXCEPT !.memberships[s].state = "left", !.memberships[s].peer = NoPeer])
    ELSE Failed(r)

(* The owner's leave closes the room; a receiver's ends its membership; a  *)
(* session that never was a member withdraws its pending request.          *)
Leave(r, s) ==
    LET member == r.memberships[s]
    IN  IF s = r.owner
        THEN IF r.state = "expired"
             THEN Unchanged(r)
             ELSE Commit([r EXCEPT !.state = "expired"])
        ELSE IF member # NoMembership
        THEN IF member.state = "left"
             THEN Unchanged(r)
             ELSE Commit([r EXCEPT !.memberships[s] =
                            [role |-> member.role, state |-> "left", peer |-> NoPeer]])
        ELSE IF PendingOf(r, s) # {}
        THEN Commit([r EXCEPT !.join_requests[CHOOSE q \in PendingOf(r, s) : TRUE].state
                                = "cancelled"])
        ELSE Failed(r)

Expire(r, now) ==
    IF r.state = "expired"
    THEN Unchanged(r)
    ELSE IF now < r.expires_at
    THEN Failed(r)
    ELSE Commit([r EXCEPT
           !.state = "expired",
           !.join_requests = [q \in RequestIds |->
               IF @[q].state = "pending" THEN [@[q] EXCEPT !.state = "expired"] ELSE @[q]]])

----------------------------------------------------------------------------
(* verify_invariants and the checks of Room::restore: a stored room that   *)
(* fails them cannot be loaded any more.                                   *)

VerifyInvariants(r) ==
    /\ r.revision # 0
    /\ r.memberships[r.owner].role = "owner"
    /\ r.memberships[r.owner].state # "left"
    /\ \A s \in Sessions \ {r.owner} :
         r.memberships[s] # NoMembership => r.memberships[s].role = "receiver"
    /\ \A q \in RequestIds :
         r.join_requests[q].state = "approved" =>
             r.memberships[r.join_requests[q].session].role = "receiver"

Restorable(r) ==
    /\ \A q \in RequestIds : r.join_requests[q].expires_at <= r.expires_at
    /\ VerifyInvariants(r)
============================================================================

----------------------------- MODULE RoomStore -----------------------------
(***************************************************************************)
(* Rooms in SQLite: the tables behind rust/apps/server/src/storage, the    *)
(* transaction that applies one room command (apply_room_command), the     *)
(* service layer's commands on top of it and the maintenance pass that     *)
(* expires what is due.  A transaction runs under BEGIN IMMEDIATE and is   *)
(* one step; a maintenance pass is many, with other commands in between.   *)
(*                                                                         *)
(* A handler reads the clock before it waits for the write lock, so the    *)
(* time t it stamps on its rows may be up to MaxLag behind the clock.      *)
(* A command that fails or changes nothing leaves every table as it is and *)
(* is not a step.                                                          *)
(***************************************************************************)
EXTENDS RoomAggregate, FiniteSets

CONSTANTS
    Codes,           \* room codes (a room's id and its code name the same row)
    NoCode,          \* no room code
    NoRoom,          \* no row for this code
    MaxTime,         \* the largest timestamp
    MaxClock,        \* bound on the clock; RoomTtl after it is still a timestamp
    MaxCreate,       \* bound on when rooms are created
    MaxLag,          \* bound on how long a handler waits for the write lock
    RoomTtl,         \* config.room_ttl
    JoinTtl,         \* config.join_request_ttl
    Batch,           \* MAINTENANCE_BATCH
    RevisionBudget,  \* bound on the revisions that clients may use up
    Watched,         \* the room whose refinement is stated
    FreshIds         \* clients never reuse a request id in another room

RoomRow == [owner : Sessions, state : {"active", "expired"}, revision : 1..MaxRevision,
            created_at : 0..MaxTime, expires_at : 0..MaxTime]

ASSUME StoreAssumption ==
    /\ NoCode \notin Codes
    /\ Watched \in Codes
    /\ NoRoom \notin RoomRecord \cup RoomRow
    /\ {MaxTime, MaxClock, MaxCreate, MaxLag} \subseteq Nat
    /\ {RoomTtl, JoinTtl, Batch, RevisionBudget} \subseteq Nat \ {0}
    /\ MaxClock + RoomTtl <= MaxTime
    /\ FreshIds \in BOOLEAN

VARIABLES
    rooms,         \* table rooms, by code
    members,       \* table room_members, by code and session
    requests,      \* table join_requests, by id alone
    now,           \* the clock
    maintenance    \* the pass in progress: its phase, its clock and its batch

tables == <<rooms, members, requests>>
vars == <<rooms, members, requests, now, maintenance>>

MemberRow == [member : Membership, created_at : 0..MaxTime]
RequestRow == [room : Codes \cup {NoCode}, request : JoinRequest, created_at : 0..MaxTime]

NoMember == [member |-> NoMembership, created_at |-> 0]
NoRequestRow == [room |-> NoCode, request |-> NoRequest, created_at |-> 0]
Idle == [phase |-> "idle", t |-> 0, batch |-> {}]

Init ==
    /\ rooms = [c \in Codes |-> NoRoom]
    /\ members = [c \in Codes |-> [s \in Sessions |-> NoMember]]
    /\ requests = [q \in RequestIds |-> NoRequestRow]
    /\ now = 0
    /\ maintenance = Idle

----------------------------------------------------------------------------
(* load_room_on: the aggregate the three tables hold for a code.           *)
LoadRoom(c) ==
    IF rooms[c] = NoRoom
    THEN NoRoom
    ELSE [owner         |-> rooms[c].owner,
          expires_at    |-> rooms[c].expires_at,
          state         |-> rooms[c].state,
          revision      |-> rooms[c].revision,
          memberships   |-> [s \in Sessions |-> members[c][s].member],
          join_requests |-> [q \in RequestIds |->
              IF requests[q].room = c THEN requests[q].request ELSE NoRequest]]

(* Faulty: the row of a member that left is deleted.                       *)
MembersPruned(c, r, t) ==
    [members EXCEPT ![c] = [s \in Sessions |->
        IF r.memberships[s].state = "left" \/ r.memberships[s] = NoMembership
        THEN NoMember
        ELSE [member |-> r.memberships[s], created_at |-> t]]]

(* The rows after persist_room_children.  A member is keyed by room and    *)
(* session.  A request is keyed by its id alone, and a row that exists     *)
(* keeps its room and its session.                                         *)
MembersAfter(c, r, t) ==
    [members EXCEPT ![c] = [s \in Sessions |->
        IF r.memberships[s] = NoMembership
        THEN @[s]
        ELSE [member     |-> r.memberships[s],
              created_at |-> IF @[s] = NoMember THEN t ELSE @[s].created_at]]]

(* Faulty: a request's row is never updated (ON CONFLICT DO NOTHING).      *)
RequestInserted(c, row, request, t) ==
    IF request = NoRequest \/ row # NoRequestRow
    THEN row
    ELSE [room |-> c, request |-> request, created_at |-> t]

RequestAfter(c, row, request, t) ==
    IF request = NoRequest
    THEN row
    ELSE IF row = NoRequestRow
    THEN [room       |-> c,
          request    |-> request,
          created_at |-> IF t < request.expires_at THEN t ELSE request.expires_at - 1]
    ELSE [row EXCEPT !.request.state = request.state,
                     !.request.expires_at = request.expires_at]

RequestsAfter(c, r, t) ==
    [q \in RequestIds |-> RequestAfter(c, requests[q], r.join_requests[q], t)]

(* The constraints of the schema on the rows that a transaction writes at  *)
(* time t: updated_at_ms >= created_at_ms, expires_at_ms > created_at_ms,  *)
(* and one pending request per room and session.                           *)
Storable(c, r, t) ==
    LET after == RequestsAfter(c, r, t)
    IN  /\ rooms[c].created_at <= t
        /\ \A s \in Sessions :
             r.memberships[s] # NoMembership /\ members[c][s] # NoMember =>
                 members[c][s].created_at <= t
        /\ \A q \in RequestIds :
             r.join_requests[q] # NoRequest =>
                 /\ after[q].created_at <= t
                 /\ after[q].created_at < after[q].request.expires_at
        /\ \A p, q \in RequestIds :
             /\ after[p].room = after[q].room
             /\ after[p].request.session = after[q].request.session
             /\ after[p].request.state = "pending"
             /\ after[q].request.state = "pending"
             => p = q

(* A room that Room::restore refuses is a CorruptRoom error.               *)
Loadable(c) == rooms[c] # NoRoom /\ Restorable(LoadRoom(c))

(* apply_room_command for a command with this result that commits.         *)
Commits(c, result, t) ==
    /\ Loadable(c)
    /\ result.outcome = "changed"
    /\ Storable(c, result.room, t)

Apply(c, result, t) ==
    /\ Commits(c, result, t)
    /\ rooms' = [rooms EXCEPT ![c].state = result.room.state,
                              ![c].revision = result.room.revision]
    /\ members' = MembersAfter(c, result.room, t)
    /\ requests' = RequestsAfter(c, result.room, t)
    /\ UNCHANGED now

(* The time a handler may have read: at most MaxLag ago.                   *)
Clock == {t \in 0..now : now <= t + MaxLag}

----------------------------------------------------------------------------
(* What clients do.  Client commands stop at RevisionBudget, so that       *)
(* maintenance never meets the end of the counter.                         *)

Tick == now < MaxClock /\ now' = now + 1 /\ UNCHANGED <<tables, maintenance>>

(* create_room: the row, the owner's membership and no request.            *)
InsertRoom(c, owner, t) ==
    LET r == CreateRoom(owner, t + RoomTtl)
    IN  /\ rooms[c] = NoRoom
        /\ t <= MaxCreate
        /\ rooms' = [rooms EXCEPT ![c] =
             [owner |-> owner, state |-> r.state, revision |-> r.revision,
              created_at |-> t, expires_at |-> r.expires_at]]
        /\ members' = MembersAfter(c, r, t)
        /\ UNCHANGED <<requests, now, maintenance>>

ClientApply(c, result, t) ==
    /\ rooms[c] # NoRoom
    /\ rooms[c].revision < RevisionBudget
    /\ Apply(c, result, t)
    /\ UNCHANGED maintenance

(* services.request_join: the deadline is computed anew by every call.     *)
JoinDeadline(c, t) ==
    IF t + JoinTtl < rooms[c].expires_at THEN t + JoinTtl ELSE rooms[c].expires_at

SubmitJoin(c, q, s, t) ==
    /\ FreshIds => requests[q].room \in {NoCode, c}
    /\ ClientApply(c, RequestJoin(LoadRoom(c), q, s, t, JoinDeadline(c, t)), t)

SubmitDecision(c, s, q, d, t) ==
    ClientApply(c, DecideJoin(LoadRoom(c), s, q, d, t), t)

SubmitAttach(c, s, p, t) == ClientApply(c, Attach(LoadRoom(c), s, p, t), t)

SubmitDetach(c, s, p, t) == ClientApply(c, Detach(LoadRoom(c), s, p), t)

SubmitLeave(c, s, t) == ClientApply(c, Leave(LoadRoom(c), s), t)

----------------------------------------------------------------------------
(* The maintenance pass: select the due rooms, expire them one by one,     *)
(* select the due requests, expire them one by one.  The first error ends  *)
(* the pass.                                                               *)

(* Faulty: strictly after the deadline only, although the domain expires   *)
(* at it.                                                                  *)
OverdueRooms(t) ==
    {c \in Codes : rooms[c] # NoRoom /\ rooms[c].state = "active" /\ rooms[c].expires_at < t}
OverdueRequests(t) ==
    {q \in RequestIds : LET c == requests[q].room
                        IN  /\ c # NoCode
                            /\ requests[q].request.state = "pending"
                            /\ requests[q].request.expires_at < t
                            /\ rooms[c].state = "active"
                            /\ rooms[c].expires_at > t}

DueRooms(t) ==
    {c \in Codes : /\ rooms[c] # NoRoom
                   /\ rooms[c].state = "active"
                   /\ rooms[c].expires_at <= t}

DueRequests(t) ==
    {q \in RequestIds : LET c == requests[q].room
                        IN  /\ c # NoCode
                            /\ requests[q].request.state = "pending"
                            /\ requests[q].request.expires_at <= t
                            /\ rooms[c].state = "active"
                            /\ rooms[c].expires_at > t}

(* ORDER BY expires_at LIMIT Batch, where deadline is the column.          *)
Selects(chosen, due, deadline) ==
    /\ chosen \subseteq due
    /\ Cardinality(chosen) = IF Cardinality(due) < Batch THEN Cardinality(due) ELSE Batch
    /\ \A x \in chosen, y \in due \ chosen : deadline[x] <= deadline[y]

First(chosen, deadline) == {x \in chosen : \A y \in chosen : deadline[x] <= deadline[y]}

RoomDeadline == [c \in Codes |-> IF rooms[c] = NoRoom THEN 0 ELSE rooms[c].expires_at]
RequestDeadline == [q \in RequestIds |-> requests[q].request.expires_at]

BeginPass ==
    /\ maintenance.phase = "idle"
    /\ \E chosen \in SUBSET DueRooms(now) :
         /\ Selects(chosen, DueRooms(now), RoomDeadline)
         /\ maintenance' = [phase |-> "rooms", t |-> now, batch |-> chosen]
    /\ UNCHANGED <<tables, now>>

(* One iteration of either loop: the command commits, changes nothing, or  *)
(* fails and ends the pass.                                                *)
Iterate(x, c, result) ==
    LET t == maintenance.t
    IN  \/ /\ Apply(c, result, t)
           /\ maintenance' = [maintenance EXCEPT !.batch = @ \ {x}]
        \/ /\ Loadable(c) /\ result.outcome = "unchanged"
           /\ maintenance' = [maintenance EXCEPT !.batch = @ \ {x}]
           /\ UNCHANGED <<tables, now>>
        \/ /\ ~Commits(c, result, t)
           /\ ~(Loadable(c) /\ result.outcome = "unchanged")
           /\ maintenance' = Idle
           /\ UNCHANGED <<tables, now>>

ExpireDueRoom ==
    /\ maintenance.phase = "rooms"
    /\ \E c \in First(maintenance.batch, RoomDeadline) :
         Iterate(c, c, Expire(LoadRoom(c), maintenance.t))

SelectRequests ==
    /\ maintenance.phase = "rooms"
    /\ maintenance.batch = {}
    /\ \E chosen \in SUBSET DueRequests(maintenance.t) :
         /\ Selects(chosen, DueRequests(maintenance.t), RequestDeadline)
         /\ maintenance' = [maintenance EXCEPT !.phase = "requests", !.batch = chosen]
    /\ UNCHANGED <<tables, now>>

ExpireDueRequest ==
    /\ maintenance.phase = "requests"
    /\ \E q \in First(maintenance.batch, RequestDeadline) :
         LET c == requests[q].room
         IN  Iterate(q, c, ExpireJoinRequest(LoadRoom(c), q, maintenance.t))

EndPass ==
    /\ maintenance.phase = "requests"
    /\ maintenance.batch = {}
    /\ maintenance' = Idle
    /\ UNCHANGED <<tables, now>>

Maintain ==
    BeginPass \/ ExpireDueRoom \/ SelectRequests \/ ExpireDueRequest \/ EndPass

----------------------------------------------------------------------------

Next ==
    \/ Tick
    \/ Maintain
    \/ \E c \in Codes, s \in Sessions, t \in Clock :
         \/ InsertRoom(c, s, t)
         \/ \E q \in RequestIds : SubmitJoin(c, q, s, t)
         \/ \E q \in RequestIds, d \in {"approve", "reject"} : SubmitDecision(c, s, q, d, t)
         \/ \E p \in Peers : SubmitAttach(c, s, p, t) \/ SubmitDetach(c, s, p, t)
         \/ SubmitLeave(c, s, t)

Spec == Init /\ [][Next]_vars

(* The clock advances and the maintenance task, an endless loop on a timer,*)
(* keeps taking steps; it always has one to take.  Clients promise nothing.*)
FairSpec == Spec /\ WF_vars(Tick) /\ []<><<Maintain>>_vars

----------------------------------------------------------------------------
(* Properties.                                                             *)

(* Rows have the types of their columns.                                   *)
TypeOK ==
    /\ rooms \in [Codes -> RoomRow \cup {NoRoom}]
    /\ members \in [Codes -> [Sessions -> MemberRow]]
    /\ requests \in [RequestIds -> RequestRow]
    /\ now \in 0..MaxClock
    /\ maintenance \in [phase : {"idle", "rooms", "requests"}, t : 0..MaxClock,
                        batch : (SUBSET Codes) \cup (SUBSET RequestIds)]

(* The tables of one code behave as one room of the domain crate, whatever *)
(* happens to the other rooms: no command is lost, half applied or applied *)
(* to another room, by whichever handler or maintenance pass it came.      *)
(* Rooms are interchangeable, so the one called Watched stands for all.    *)
DomainRoom == INSTANCE Room WITH room <- LoadRoom(Watched)
ImplementsRoom == DomainRoom!Spec

(* Every stored room can be loaded again: persist_room_children never      *)
(* writes what Room::restore refuses.                                      *)
StoredRoomsLoad == \A c \in Codes : rooms[c] # NoRoom => Loadable(c)

(* A room does not stay active for ever: the maintenance pass reaches it   *)
(* although passes end at the first error and take Batch rooms at a time.  *)
(* (Of the deadlines within the modelled time.)                            *)
RoomsExpire ==
    \A c \in Codes :
        rooms[c] # NoRoom /\ RoomDeadline[c] <= MaxClock
          ~> rooms[c] # NoRoom /\ rooms[c].state = "expired"

(* A request does not stay pending in an active room: the maintenance pass *)
(* reaches it too, behind the rooms it expires first, although the room    *)
(* itself is not due yet.                                                  *)
RequestsResolve ==
    \A c \in Codes, q \in RequestIds :
        /\ requests[q].room = c
        /\ requests[q].request.state = "pending"
        /\ RequestDeadline[q] <= MaxClock
        ~> \/ requests[q].request.state # "pending"
           \/ rooms[c] # NoRoom /\ rooms[c].state = "expired"
=============================================================================

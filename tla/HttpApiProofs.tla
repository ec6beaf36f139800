--------------------------- MODULE HttpApiProofs ---------------------------
(***************************************************************************)
(* Theorems about the tables of RoomStore, and about the HTTP calls that   *)
(* use them.                                                               *)
(***************************************************************************)
EXTENDS HttpApi, RoomAggregateProofs

(***************************************************************************)
(* The tables of RoomStore implement the domain's rooms, for every number  *)
(* of rooms, sessions and requests, every batch size and every delay.      *)
(*                                                                         *)
(* The argument: what is read back after a transaction is what the command *)
(* made of the room (ApplyStores), although members are written row by row *)
(* without ever deleting one and a request's row is found by its id alone. *)
(* That needs that a command never drops a membership or a request, that   *)
(* it makes no request but its own (Follows), and that the id of a request *)
(* is not used in another room (FreshIds).                                 *)
(***************************************************************************)

----------------------------------------------------------------------------
(* The inductive invariant.                                                *)

(* What is stored of every room is a room as the domain keeps it.          *)
RoomsAreSound == \A c \in Codes : rooms[c] # NoRoom => RoomInv(LoadRoom(c))

(* A room that does not exist has no rows, and a row of a request belongs  *)
(* to a room that does.                                                    *)
RowsHaveRooms ==
    /\ \A c \in Codes : rooms[c] = NoRoom => \A s \in Sessions : members[c][s] = NoMember
    /\ \A q \in RequestIds :
         IF requests[q].room = NoCode
         THEN requests[q] = NoRequestRow
         ELSE rooms[requests[q].room] # NoRoom /\ requests[q].request # NoRequest

(* The maintenance pass looks at what exists, with a clock it has read.    *)
PassIsSound ==
    /\ maintenance.t <= now
    /\ maintenance.phase = "rooms" => maintenance.batch \subseteq Codes
    /\ maintenance.phase = "requests" =>
         maintenance.batch \subseteq {q \in RequestIds : requests[q].room # NoCode}

TableTypes ==
    /\ rooms \in [Codes -> RoomRow \cup {NoRoom}]
    /\ members \in [Codes -> [Sessions -> MemberRow]]
    /\ requests \in [RequestIds -> RequestRow]

TablesInv == TableTypes /\ RoomsAreSound /\ RowsHaveRooms

StoreInv == TypeOK /\ TablesInv /\ PassIsSound

----------------------------------------------------------------------------
(* The rows after a transaction.                                           *)

(* load_room_on: what is read of a row, whatever the row.                  *)
LEMMA Loaded ==
    ASSUME NEW c \in Codes, rooms[c] # NoRoom
    PROVE  /\ LoadRoom(c).owner = rooms[c].owner
           /\ LoadRoom(c).expires_at = rooms[c].expires_at
           /\ LoadRoom(c).state = rooms[c].state
           /\ LoadRoom(c).revision = rooms[c].revision
           /\ \A s \in Sessions : LoadRoom(c).memberships[s] = members[c][s].member
           /\ \A q \in RequestIds :
                LoadRoom(c).join_requests[q] =
                  IF requests[q].room = c THEN requests[q].request ELSE NoRequest
  BY DEF LoadRoom

(* A lawful change of the room in c, the requests it makes being free for  *)
(* c and stamped with a time before their deadline.                        *)
Change(c, r, t, made) ==
    /\ rooms[c] # NoRoom
    /\ Lawful(LoadRoom(c), r, made)
    /\ \A q \in made :
         requests[q].room \in {NoCode, c} /\ t < r.join_requests[q].expires_at

(* persist_room_children on one request: the row it leaves holds the       *)
(* request if the room has it, and is left alone if not.                   *)
LEMMA RequestRowAfter ==
    ASSUME TablesInv, NEW c \in Codes, NEW r, NEW t \in 0..MaxTime,
           NEW made \in SUBSET RequestIds, Change(c, r, t, made), NEW q \in RequestIds
    PROVE  LET row == RequestAfter(c, requests[q], r.join_requests[q], t)
           IN  /\ row \in RequestRow
               /\ r.join_requests[q] = NoRequest => row = requests[q] /\ row.room # c
               /\ r.join_requests[q] # NoRequest =>
                    /\ row.room = c
                    /\ row.request = r.join_requests[q]
                    /\ requests[q].room \in {NoCode, c}
<1> DEFINE old == LoadRoom(c).join_requests[q]
           new == r.join_requests[q]
           row == RequestAfter(c, requests[q], new, t)
<1>1. NoCode \notin Codes /\ MaxTime \in Nat
  BY StoreAssumption
<1>2. requests[q] \in RequestRow /\ new \in JoinRequest
  BY DEF TablesInv, TableTypes, Change, Lawful, RoomInv, RoomRecord
<1>3. old = IF requests[q].room = c THEN requests[q].request ELSE NoRequest
  BY Loaded DEF Change
<1>4. /\ requests[q].room = NoCode => requests[q] = NoRequestRow
      /\ requests[q].room # NoCode => requests[q].request # NoRequest
  BY DEF TablesInv, RowsHaveRooms
<1>5. /\ q \notin made /\ old = NoRequest => new = NoRequest
      /\ old # NoRequest => /\ new.state # "absent"
                            /\ new.session = old.session
                            /\ new.expires_at = old.expires_at
  BY DEF Change, Lawful, Follows
<1>6. q \in made => requests[q].room \in {NoCode, c} /\ t < new.expires_at
  BY DEF Change
<1> HIDE DEF old, new
<1>7. CASE new = NoRequest
  <2>1. row = requests[q]
    BY <1>7 DEF RequestAfter
  <2>2. old = NoRequest
    BY <1>5, <1>7 DEF NoRequest
  <2>3. requests[q].room # c
    BY <1>1, <1>3, <1>4, <2>2
  <2> QED
    BY <1>2, <1>7, <2>1, <2>3 DEF new
<1>8. CASE new # NoRequest /\ requests[q] = NoRequestRow
  <2>1. requests[q].room = NoCode
    BY <1>8 DEF NoRequestRow
  <2>2. q \in made
    BY <1>1, <1>3, <1>5, <1>8, <2>1
  <2>3. row = [room |-> c, request |-> new, created_at |-> t]
    BY <1>6, <1>8, <2>2 DEF RequestAfter
  <2> QED
    BY <1>2, <1>8, <2>1, <2>3 DEF new, RequestRow
<1>9. CASE new # NoRequest /\ requests[q] # NoRequestRow
  <2>1. requests[q].room # NoCode /\ requests[q].request # NoRequest
    BY <1>4, <1>9
  <2>2. requests[q].room = c
    BY <1>3, <1>5, <1>6, <1>9, <2>1
  <2>3. new.session = requests[q].request.session
    BY <1>3, <1>5, <2>1, <2>2
  <2>4. row = [requests[q] EXCEPT !.request.state = new.state,
                                  !.request.expires_at = new.expires_at]
    BY <1>9 DEF RequestAfter
  <2> HIDE DEF row
  <2>5. row \in RequestRow /\ row.room = requests[q].room
    BY <1>2, <2>4 DEF RequestRow, JoinRequest
  <2>6. /\ row.request \in JoinRequest /\ row.request.session = requests[q].request.session
        /\ row.request.state = new.state /\ row.request.expires_at = new.expires_at
    BY <1>2, <2>4 DEF RequestRow, JoinRequest
  <2>7. row.request = new
    BY <1>2, <2>3, <2>6 DEF JoinRequest
  <2> QED
    BY <1>9, <2>2, <2>5, <2>7 DEF new, row
<1> QED
  BY <1>7, <1>8, <1>9
(* The rows of the room itself and of its members: a member's row is       *)
(* written over but never deleted, and a lawful change drops no member.    *)
LEMMA RoomAndMemberRowsAfter ==
    ASSUME TablesInv, NEW c \in Codes, NEW result, NEW t \in 0..MaxTime,
           NEW made \in SUBSET RequestIds, Change(c, result.room, t, made),
           Apply(c, result, t)
    PROVE  /\ rooms' \in [Codes -> RoomRow \cup {NoRoom}]
           /\ rooms'[c] \in RoomRow
           /\ rooms'[c].owner = result.room.owner
           /\ rooms'[c].expires_at = result.room.expires_at
           /\ rooms'[c].state = result.room.state
           /\ rooms'[c].revision = result.room.revision
           /\ \A d \in Codes \ {c} : rooms'[d] = rooms[d]
           /\ members' \in [Codes -> [Sessions -> MemberRow]]
           /\ \A s \in Sessions : members'[c][s].member = result.room.memberships[s]
           /\ \A d \in Codes \ {c} : members'[d] = members[d]
<1> DEFINE r == result.room
<1>1. r \in RoomRecord /\ rooms[c] \in RoomRow
  BY DEF Change, Lawful, RoomInv, TablesInv, TableTypes
<1>2. r.owner = rooms[c].owner /\ r.expires_at = rooms[c].expires_at
  BY Loaded DEF Change, Lawful, Follows
<1>3. rooms' = [rooms EXCEPT ![c] = [rooms[c] EXCEPT !.state = r.state, !.revision = r.revision]]
  BY DEF Apply, TablesInv, TableTypes
<1>4. ASSUME NEW s \in Sessions
      PROVE  r.memberships[s] = NoMembership => members[c][s].member = NoMembership
  BY Loaded DEF Change, Lawful, Follows
<1>5. members' = MembersAfter(c, r, t)
  BY DEF Apply
<1> HIDE DEF r
<1>6. /\ rooms' \in [Codes -> RoomRow \cup {NoRoom}]
      /\ rooms'[c] \in RoomRow
      /\ rooms'[c].owner = r.owner /\ rooms'[c].expires_at = r.expires_at
      /\ rooms'[c].state = r.state /\ rooms'[c].revision = r.revision
      /\ \A d \in Codes \ {c} : rooms'[d] = rooms[d]
  BY <1>1, <1>2, <1>3 DEF TablesInv, TableTypes, RoomRow, RoomRecord
<1>7. ASSUME NEW s \in Sessions
      PROVE  LET row == IF r.memberships[s] = NoMembership
                        THEN members[c][s]
                        ELSE [member     |-> r.memberships[s],
                              created_at |-> IF members[c][s] = NoMember
                                             THEN t ELSE members[c][s].created_at]
             IN  row \in MemberRow /\ row.member = r.memberships[s]
  BY <1>1, <1>4 DEF TablesInv, TableTypes, MemberRow, RoomRecord
<1>8. /\ members' \in [Codes -> [Sessions -> MemberRow]]
      /\ \A s \in Sessions : members'[c][s].member = r.memberships[s]
      /\ \A d \in Codes \ {c} : members'[d] = members[d]
  BY <1>5, <1>7 DEF MembersAfter, TablesInv, TableTypes
<1> QED
  BY <1>6, <1>8 DEF r

(* The rows of the requests.                                               *)
LEMMA RequestRowsAfter ==
    ASSUME TablesInv, NEW c \in Codes, NEW result, NEW t \in 0..MaxTime,
           NEW made \in SUBSET RequestIds, Change(c, result.room, t, made),
           Apply(c, result, t)
    PROVE  /\ requests' \in [RequestIds -> RequestRow]
           /\ \A q \in RequestIds :
                /\ result.room.join_requests[q] = NoRequest =>
                     requests'[q] = requests[q] /\ requests'[q].room # c
                /\ result.room.join_requests[q] # NoRequest =>
                     /\ requests'[q].room = c
                     /\ requests'[q].request = result.room.join_requests[q]
                     /\ requests[q].room \in {NoCode, c}
<1>1. requests' = [q \in RequestIds |->
                     RequestAfter(c, requests[q], result.room.join_requests[q], t)]
  BY DEF Apply, RequestsAfter
<1> QED
  BY <1>1, RequestRowAfter

(* apply_room_command: the room that is read afterwards is the one the     *)
(* command made, and every other room is the one it was.                   *)
LEMMA ApplyStores ==
    ASSUME TablesInv, NEW c \in Codes, NEW result, NEW t \in 0..MaxTime,
           NEW made \in SUBSET RequestIds, Change(c, result.room, t, made),
           Apply(c, result, t)
    PROVE  /\ LoadRoom(c)' = result.room
           /\ \A d \in Codes \ {c} : LoadRoom(d)' = LoadRoom(d)
<1> DEFINE r == result.room
<1>1. r \in RoomRecord /\ NoRoom \notin RoomRow
  BY StoreAssumption DEF Change, Lawful, RoomInv
<1>2. LoadRoom(c)' = r
  <2>1. rooms'[c] # NoRoom
    BY <1>1, RoomAndMemberRowsAfter
  <2>2. \A s \in Sessions : members'[c][s].member = r.memberships[s]
    BY RoomAndMemberRowsAfter
  <2>3. [s \in Sessions |-> members'[c][s].member] = r.memberships
    BY <1>1, <2>2 DEF RoomRecord
  <2>4. ASSUME NEW q \in RequestIds
        PROVE  (IF requests'[q].room = c THEN requests'[q].request ELSE NoRequest)
                  = r.join_requests[q]
    BY RequestRowsAfter
  <2>5. [q \in RequestIds |->
           IF requests'[q].room = c THEN requests'[q].request ELSE NoRequest] = r.join_requests
    BY <1>1, <2>4 DEF RoomRecord
  <2>6. LoadRoom(c)' = [owner |-> r.owner, expires_at |-> r.expires_at, state |-> r.state,
                        revision |-> r.revision, memberships |-> r.memberships,
                        join_requests |-> r.join_requests]
    BY <2>1, <2>3, <2>5, RoomAndMemberRowsAfter DEF LoadRoom
  <2> QED
    BY <1>1, <2>6 DEF RoomRecord
<1>3. ASSUME NEW d \in Codes \ {c}
      PROVE  LoadRoom(d)' = LoadRoom(d)
  <2>1. rooms'[d] = rooms[d] /\ members'[d] = members[d]
    BY RoomAndMemberRowsAfter
  <2>2. ASSUME NEW q \in RequestIds
        PROVE  (IF requests'[q].room = d THEN requests'[q].request ELSE NoRequest)
                  = (IF requests[q].room = d THEN requests[q].request ELSE NoRequest)
    BY RequestRowsAfter, StoreAssumption
  <2> QED
    BY <2>1, <2>2 DEF LoadRoom
<1> QED
  BY <1>2, <1>3
(* apply_room_command leaves the tables in order.  No room appears or      *)
(* vanishes, and a request's row stays with its room.                      *)
LEMMA ApplyKeeps ==
    ASSUME TablesInv, NEW c \in Codes, NEW result, NEW t \in 0..MaxTime,
           NEW made \in SUBSET RequestIds, Change(c, result.room, t, made),
           Apply(c, result, t)
    PROVE  /\ TablesInv'
           /\ \A d \in Codes : (rooms'[d] = NoRoom) <=> (rooms[d] = NoRoom)
           /\ \A q \in RequestIds :
                requests[q].room # NoCode => requests'[q].room = requests[q].room
<1>0. NoRoom \notin RoomRow /\ NoCode \notin Codes /\ rooms[c] # NoRoom
  BY StoreAssumption DEF Change
<1>1. TableTypes'
  BY RoomAndMemberRowsAfter, RequestRowsAfter DEF TableTypes
<1>2. \A d \in Codes : (rooms'[d] = NoRoom) <=> (rooms[d] = NoRoom)
  BY <1>0, RoomAndMemberRowsAfter
<1>3. \A q \in RequestIds : requests[q].room # NoCode => requests'[q].room = requests[q].room
  BY RequestRowsAfter
<1>4. RoomsAreSound'
  <2> SUFFICES ASSUME NEW d \in Codes, rooms'[d] # NoRoom
               PROVE  RoomInv(LoadRoom(d))'
    BY DEF RoomsAreSound
  <2>1. RoomInv(result.room) /\ (rooms[d] # NoRoom => RoomInv(LoadRoom(d)))
    BY DEF Change, Lawful, TablesInv, RoomsAreSound
  <2>2. LoadRoom(d)' = IF d = c THEN result.room ELSE LoadRoom(d)
    BY ApplyStores
  <2> QED
    BY <1>2, <2>1, <2>2
<1>5. RowsHaveRooms'
  <2>1. ASSUME NEW d \in Codes, rooms'[d] = NoRoom, NEW s \in Sessions
        PROVE  members'[d][s] = NoMember
    <3>1. d # c /\ rooms[d] = NoRoom
      BY <1>0, <1>2, <2>1
    <3>2. members'[d] = members[d]
      BY <3>1, RoomAndMemberRowsAfter
    <3> QED
      BY <3>1, <3>2 DEF TablesInv, RowsHaveRooms
  <2>2. ASSUME NEW q \in RequestIds
        PROVE  IF requests'[q].room = NoCode
               THEN requests'[q] = NoRequestRow
               ELSE rooms'[requests'[q].room] # NoRoom /\ requests'[q].request # NoRequest
    <3>1. CASE result.room.join_requests[q] = NoRequest
      <4>1. requests'[q] = requests[q] /\ requests[q] \in RequestRow
        BY <3>1, RequestRowsAfter DEF TablesInv, TableTypes
      <4>2. requests[q].room \in Codes \cup {NoCode}
        BY <4>1 DEF RequestRow
      <4> QED
        BY <1>2, <4>1, <4>2 DEF TablesInv, RowsHaveRooms
    <3>2. CASE result.room.join_requests[q] # NoRequest
      <4>1. requests'[q].room = c /\ requests'[q].request = result.room.join_requests[q]
        BY <3>2, RequestRowsAfter
      <4> QED
        BY <1>0, <1>2, <3>2, <4>1
    <3> QED
      BY <3>1, <3>2
  <2> QED
    BY <2>1, <2>2 DEF RowsHaveRooms
<1> QED
  BY <1>1, <1>2, <1>3, <1>4, <1>5 DEF TablesInv

(* What every transaction leaves of the rows that exist: a room's owner    *)
(* and expiry, a request's room, session and deadline.                     *)
RowsPersist ==
    /\ \A c \in Codes : rooms[c] # NoRoom =>
         /\ rooms'[c] # NoRoom
         /\ rooms'[c].owner = rooms[c].owner
         /\ rooms'[c].expires_at = rooms[c].expires_at
    /\ \A q \in RequestIds : requests[q].room # NoCode =>
         /\ requests'[q].room = requests[q].room
         /\ requests'[q].request.session = requests[q].request.session
         /\ requests'[q].request.expires_at = requests[q].request.expires_at

(* apply_room_command changes none of them, and makes no rows but those of *)
(* the requests the command makes.                                         *)
LEMMA ApplyPersists ==
    ASSUME TablesInv, NEW c \in Codes, NEW result, NEW t \in 0..MaxTime,
           NEW made \in SUBSET RequestIds, Change(c, result.room, t, made),
           Apply(c, result, t)
    PROVE  /\ RowsPersist
           /\ \A q \in RequestIds \ made : requests'[q].room = requests[q].room
<1>0. NoCode \notin Codes /\ rooms[c] # NoRoom
  BY StoreAssumption DEF Change
<1>1. /\ \A d \in Codes : (rooms'[d] = NoRoom) <=> (rooms[d] = NoRoom)
      /\ \A q \in RequestIds : requests[q].room # NoCode => requests'[q].room = requests[q].room
  BY ApplyKeeps
<1>2. rooms'[c].owner = rooms[c].owner /\ rooms'[c].expires_at = rooms[c].expires_at
  <2>1. rooms'[c].owner = result.room.owner /\ rooms'[c].expires_at = result.room.expires_at
    BY RoomAndMemberRowsAfter
  <2>2. result.room.owner = rooms[c].owner /\ result.room.expires_at = rooms[c].expires_at
    BY <1>0, Loaded DEF Change, Lawful, Follows
  <2> QED
    BY <2>1, <2>2
<1>3. \A d \in Codes \ {c} : rooms'[d] = rooms[d]
  BY RoomAndMemberRowsAfter
<1>4. ASSUME NEW q \in RequestIds
      PROVE  /\ requests[q].room # NoCode =>
                  /\ requests'[q].request.session = requests[q].request.session
                  /\ requests'[q].request.expires_at = requests[q].request.expires_at
             /\ q \notin made => requests'[q].room = requests[q].room
  <2> DEFINE old == LoadRoom(c).join_requests[q]
             new == result.room.join_requests[q]
  <2>1. /\ new = NoRequest => requests'[q] = requests[q]
        /\ new # NoRequest => /\ requests'[q].room = c /\ requests'[q].request = new
                              /\ requests[q].room \in {NoCode, c}
    BY RequestRowsAfter
  <2>2. old = IF requests[q].room = c THEN requests[q].request ELSE NoRequest
    BY <1>0, Loaded
  <2>3. requests[q].room # NoCode => requests[q].request # NoRequest
    BY DEF TablesInv, RowsHaveRooms
  <2>4. /\ old # NoRequest => new.session = old.session /\ new.expires_at = old.expires_at
        /\ q \notin made /\ old = NoRequest => new = NoRequest
    BY DEF Change, Lawful, Follows
  <2> QED
    BY <1>0, <2>1, <2>2, <2>3, <2>4
<1> QED
  BY <1>1, <1>2, <1>3, <1>4 DEF RowsPersist

(* create_room: the room that is read afterwards is the new one, which has *)
(* no rows left from anything before it.                                   *)
LEMMA InsertStores ==
    ASSUME TablesInv, NEW c \in Codes, NEW s \in Sessions, NEW t \in 0..MaxClock,
           InsertRoom(c, s, t)
    PROVE  /\ LoadRoom(c)' = CreateRoom(s, t + RoomTtl)
           /\ \A d \in Codes \ {c} : LoadRoom(d)' = LoadRoom(d)
           /\ TablesInv'
           /\ RoomInv(CreateRoom(s, t + RoomTtl))
           /\ rooms' \in [Codes -> RoomRow \cup {NoRoom}]
           /\ rooms'[c] \in RoomRow
           /\ rooms'[c].owner = s
           /\ rooms'[c].expires_at = t + RoomTtl
           /\ \A d \in Codes \ {c} : rooms'[d] = rooms[d]
<1> DEFINE r == CreateRoom(s, t + RoomTtl)
<1>0. /\ NoRoom \notin RoomRow /\ NoCode \notin Codes /\ RoomTtl \in Nat \ {0}
      /\ MaxClock \in Nat /\ MaxTime \in Nat /\ MaxClock + RoomTtl <= MaxTime
  BY StoreAssumption
<1>1. RoomInv(r)
  BY <1>0, CreateRoomInv
<1>2. /\ r.owner = s /\ r.expires_at = t + RoomTtl /\ r.state = "active" /\ r.revision = 1
      /\ r.memberships = [x \in Sessions |-> IF x = s THEN Offline("owner") ELSE NoMembership]
      /\ r.join_requests = [q \in RequestIds |-> NoRequest]
  BY DEF CreateRoom
<1>3. r \in RoomRecord /\ 1 \in 1..MaxRevision
  BY <1>1, RoomAssumption DEF RoomInv
<1> HIDE DEF r
<1>4. /\ rooms' = [rooms EXCEPT ![c] = [owner |-> s, state |-> "active", revision |-> 1,
                                       created_at |-> t, expires_at |-> t + RoomTtl]]
      /\ members' = MembersAfter(c, r, t) /\ requests' = requests /\ rooms[c] = NoRoom
  BY <1>2 DEF InsertRoom, r
<1>5. /\ rooms' \in [Codes -> RoomRow \cup {NoRoom}] /\ rooms'[c] \in RoomRow
      /\ rooms'[c].owner = s /\ rooms'[c].expires_at = t + RoomTtl
      /\ rooms'[c].state = "active" /\ rooms'[c].revision = 1
      /\ \A d \in Codes \ {c} : rooms'[d] = rooms[d]
  BY <1>0, <1>3, <1>4 DEF TablesInv, TableTypes, RoomRow
<1>6. ASSUME NEW x \in Sessions
      PROVE  members[c][x] = NoMember /\ members[c][x].member = NoMembership
  BY <1>4 DEF TablesInv, RowsHaveRooms, NoMember
<1>7. ASSUME NEW x \in Sessions
      PROVE  LET row == IF r.memberships[x] = NoMembership
                        THEN members[c][x]
                        ELSE [member     |-> r.memberships[x],
                              created_at |-> IF members[c][x] = NoMember
                                             THEN t ELSE members[c][x].created_at]
             IN  row \in MemberRow /\ row.member = r.memberships[x]
  BY <1>0, <1>3, <1>6 DEF TablesInv, TableTypes, MemberRow, RoomRecord
<1>8. /\ members' \in [Codes -> [Sessions -> MemberRow]]
      /\ \A x \in Sessions : members'[c][x].member = r.memberships[x]
      /\ \A d \in Codes \ {c} : members'[d] = members[d]
  BY <1>4, <1>7 DEF MembersAfter, TablesInv, TableTypes
<1>9. \A q \in RequestIds : requests[q].room # c
  BY <1>0, <1>4 DEF TablesInv, RowsHaveRooms
<1>10. LoadRoom(c)' = r
  <2>1. rooms'[c] # NoRoom
    BY <1>0, <1>5
  <2>2. [x \in Sessions |-> members'[c][x].member] = r.memberships
    BY <1>3, <1>8 DEF RoomRecord
  <2>3. [q \in RequestIds |->
           IF requests'[q].room = c THEN requests'[q].request ELSE NoRequest] = r.join_requests
    BY <1>2, <1>4, <1>9
  <2>4. LoadRoom(c)' = [owner |-> r.owner, expires_at |-> r.expires_at, state |-> r.state,
                        revision |-> r.revision, memberships |-> r.memberships,
                        join_requests |-> r.join_requests]
    BY <1>2, <1>5, <2>1, <2>2, <2>3 DEF LoadRoom
  <2> QED
    BY <1>3, <2>4 DEF RoomRecord
<1>11. ASSUME NEW d \in Codes \ {c}
       PROVE  LoadRoom(d)' = LoadRoom(d)
  BY <1>4, <1>5, <1>8 DEF LoadRoom
<1>12. TablesInv'
  <2>1. TableTypes'
    BY <1>4, <1>5, <1>8 DEF TablesInv, TableTypes
  <2>2. RoomsAreSound'
    <3> SUFFICES ASSUME NEW d \in Codes, rooms'[d] # NoRoom
                 PROVE  RoomInv(LoadRoom(d))'
      BY DEF RoomsAreSound
    <3>1. LoadRoom(d)' = IF d = c THEN r ELSE LoadRoom(d)
      BY <1>10, <1>11
    <3>2. d # c => RoomInv(LoadRoom(d))
      BY <1>5 DEF TablesInv, RoomsAreSound
    <3> QED
      BY <1>1, <3>1, <3>2
  <2>3. RowsHaveRooms'
    <3>1. \A d \in Codes : rooms'[d] = NoRoom => d # c /\ rooms[d] = NoRoom
      BY <1>0, <1>5
    <3>2. \A d \in Codes : rooms[d] # NoRoom => rooms'[d] # NoRoom
      BY <1>0, <1>4, <1>5
    <3>3. \A q \in RequestIds : requests[q].room \in Codes \cup {NoCode}
      BY DEF TablesInv, TableTypes, RequestRow
    <3> QED
      BY <1>4, <1>8, <3>1, <3>2, <3>3 DEF TablesInv, RowsHaveRooms
  <2> QED
    BY <2>1, <2>2, <2>3 DEF TablesInv
<1> QED
  BY <1>1, <1>5, <1>10, <1>11, <1>12 DEF r
----------------------------------------------------------------------------
(* The commands as transactions.                                           *)

(* request_join on a stored room, under an id that is free or already the  *)
(* room's own.                                                             *)
LEMMA JoinChanges ==
    ASSUME TablesInv, NEW c \in Codes, NEW t \in 0..MaxTime,
           NEW q \in RequestIds, NEW s \in Sessions, NEW e \in Nat,
           requests[q].room \in {NoCode, c},
           Apply(c, RequestJoin(LoadRoom(c), q, s, t, e), t)
    PROVE  Change(c, RequestJoin(LoadRoom(c), q, s, t, e).room, t, {q})
<1> DEFINE r == LoadRoom(c)
<1>1. rooms[c] # NoRoom /\ RequestJoin(r, q, s, t, e).outcome = "changed"
  BY DEF Apply, Commits, Loadable
<1>2. RoomInv(r) /\ t \in Nat
  BY <1>1, StoreAssumption DEF TablesInv, RoomsAreSound
<1> HIDE DEF r
<1>3. Lawful(r, RequestJoin(r, q, s, t, e).room, {q})
  BY <1>1, <1>2, RequestJoinLawful, Zenon
<1>4. RequestJoin(r, q, s, t, e).room.join_requests[q].expires_at = e /\ t < e
  <2> DEFINE j == [session |-> s, expires_at |-> e, state |-> "pending"]
  <2>1. /\ RequestJoin(r, q, s, t, e) = Commit([r EXCEPT !.join_requests[q] = j])
        /\ t < e
    BY <1>1 DEF RequestJoin, Unchanged, Failed
  <2>2. Commit([r EXCEPT !.join_requests[q] = j]).room.join_requests[q] = j
    BY <1>2 DEF Commit, Failed, RoomInv, RoomRecord
  <2> QED
    BY <2>1, <2>2
<1> QED
  BY <1>1, <1>3, <1>4 DEF Change, r

(* Every other command on a stored room.                                   *)
LEMMA CommandChanges ==
    ASSUME TablesInv, NEW c \in Codes, NEW t \in 0..MaxTime, NEW result,
           Apply(c, result, t),
           \/ \E s \in Sessions, q \in RequestIds, d \in {"approve", "reject"} :
                result = DecideJoin(LoadRoom(c), s, q, d, t)
           \/ \E q \in RequestIds : result = ExpireJoinRequest(LoadRoom(c), q, t)
           \/ \E s \in Sessions, p \in Peers : result = Attach(LoadRoom(c), s, p, t)
           \/ \E s \in Sessions, p \in Peers : result = Detach(LoadRoom(c), s, p)
           \/ \E s \in Sessions : result = Leave(LoadRoom(c), s)
           \/ result = Expire(LoadRoom(c), t)
    PROVE  Change(c, result.room, t, {})
<1>1. rooms[c] # NoRoom /\ result.outcome = "changed"
  BY DEF Apply, Commits, Loadable
<1>2. RoomInv(LoadRoom(c)) /\ t \in Nat
  BY <1>1, StoreAssumption DEF TablesInv, RoomsAreSound
<1>3. Lawful(LoadRoom(c), result.room, {})
  BY <1>1, <1>2, DecideJoinLawful, ExpireJoinRequestLawful, AttachLawful, DetachLawful,
     LeaveLawful, ExpireLawful
<1> QED
  BY <1>1, <1>3 DEF Change

(* The commands of the instance are the commands.                          *)
LEMMA SameCommands ==
    /\ \A r, q, s, t, e : DomainRoom!RequestJoin(r, q, s, t, e) = RequestJoin(r, q, s, t, e)
    /\ \A r, s, q, d, t : DomainRoom!DecideJoin(r, s, q, d, t) = DecideJoin(r, s, q, d, t)
    /\ \A r, q, t : DomainRoom!ExpireJoinRequest(r, q, t) = ExpireJoinRequest(r, q, t)
    /\ \A r, s, p, t : DomainRoom!Attach(r, s, p, t) = Attach(r, s, p, t)
    /\ \A r, s, p : DomainRoom!Detach(r, s, p) = Detach(r, s, p)
    /\ \A r, s : DomainRoom!Leave(r, s) = Leave(r, s)
    /\ \A r, t : DomainRoom!Expire(r, t) = Expire(r, t)
    /\ \A s, e : DomainRoom!CreateRoom(s, e) = CreateRoom(s, e)
  BY DEF DomainRoom!RequestJoin, RequestJoin, DomainRoom!DecideJoin, DecideJoin,
         DomainRoom!ExpireJoinRequest, ExpireJoinRequest, DomainRoom!Attach, Attach,
         DomainRoom!Detach, Detach, DomainRoom!Leave, Leave, DomainRoom!Expire, Expire,
         DomainRoom!CreateRoom, CreateRoom, DomainRoom!Commit, Commit,
         DomainRoom!Unchanged, Unchanged, DomainRoom!Failed, Failed,
         DomainRoom!ActiveAt, ActiveAt, DomainRoom!IsMember, IsMember,
         DomainRoom!PendingOf, PendingOf, DomainRoom!NoRequest, NoRequest,
         DomainRoom!NoMembership, NoMembership, DomainRoom!Offline, Offline,
         DomainRoom!Decided, Decided
----------------------------------------------------------------------------
(* The steps.                                                              *)

(* A transaction, by a client or by the maintenance pass, which then goes  *)
(* on with the rest of its batch.                                          *)
LEMMA TransactionKeeps ==
    ASSUME StoreInv, NEW c \in Codes, NEW t \in 0..now, NEW result,
           NEW made \in SUBSET RequestIds, Change(c, result.room, t, made),
           Apply(c, result, t),
           \/ maintenance' = maintenance
           \/ \E x : maintenance' = [maintenance EXCEPT !.batch = @ \ {x}]
    PROVE  /\ StoreInv'
           /\ now' = now
           /\ LoadRoom(Watched)' = IF c = Watched THEN result.room ELSE LoadRoom(Watched)
<1>1. t \in 0..MaxTime /\ Watched \in Codes
  BY StoreAssumption DEF StoreInv, TypeOK
<1>2. TablesInv /\ now' = now
  BY DEF StoreInv, Apply
<1>3. /\ TablesInv'
      /\ \A q \in RequestIds :
           requests[q].room # NoCode => requests'[q].room = requests[q].room
  BY <1>1, <1>2, ApplyKeeps
<1>4. LoadRoom(Watched)' = IF c = Watched THEN result.room ELSE LoadRoom(Watched)
  BY <1>1, <1>2, ApplyStores
<1>5. /\ maintenance'.phase = maintenance.phase /\ maintenance'.t = maintenance.t
      /\ maintenance'.batch \subseteq maintenance.batch
      /\ maintenance' \in [phase : {"idle", "rooms", "requests"}, t : 0..MaxClock,
                          batch : (SUBSET Codes) \cup (SUBSET RequestIds)]
  BY DEF StoreInv, TypeOK
<1>6. TypeOK'
  BY <1>2, <1>3, <1>5 DEF StoreInv, TypeOK, TablesInv, TableTypes
<1>7. PassIsSound'
  BY <1>2, <1>3, <1>5 DEF StoreInv, PassIsSound
<1> QED
  BY <1>2, <1>3, <1>4, <1>6, <1>7 DEF StoreInv

(* The same for every command but request_join, in the terms of the room   *)
(* that changes.                                                           *)
LEMMA CommandKeeps ==
    ASSUME StoreInv, NEW c \in Codes, NEW t \in 0..now, NEW result,
           Apply(c, result, t),
           \/ \E s \in Sessions, q \in RequestIds, d \in {"approve", "reject"} :
                result = DecideJoin(LoadRoom(c), s, q, d, t)
           \/ \E q \in RequestIds : result = ExpireJoinRequest(LoadRoom(c), q, t)
           \/ \E s \in Sessions, p \in Peers : result = Attach(LoadRoom(c), s, p, t)
           \/ \E s \in Sessions, p \in Peers : result = Detach(LoadRoom(c), s, p)
           \/ \E s \in Sessions : result = Leave(LoadRoom(c), s)
           \/ result = Expire(LoadRoom(c), t),
           \/ maintenance' = maintenance
           \/ \E x : maintenance' = [maintenance EXCEPT !.batch = @ \ {x}]
    PROVE  /\ StoreInv'
           /\ t <= now
           /\ t \in DomainRoom!Times
           /\ c # Watched => UNCHANGED (DomainRoom!vars)
           /\ c = Watched => LoadRoom(Watched) # NoRoom /\ DomainRoom!Keep(result)
<1>1. /\ t \in 0..MaxTime /\ now \in Nat /\ TablesInv /\ NoRoom \notin RoomRecord
      /\ rooms[c] # NoRoom /\ result.outcome = "changed"
  BY StoreAssumption DEF StoreInv, TypeOK, Apply, Commits, Loadable
<1>2. Change(c, result.room, t, {})
  BY <1>1, CommandChanges
<1>3. /\ StoreInv' /\ now' = now
      /\ LoadRoom(Watched)' = IF c = Watched THEN result.room ELSE LoadRoom(Watched)
  <2>1. {} \in SUBSET RequestIds
    OBVIOUS
  <2> QED
    BY <1>2, <2>1, TransactionKeeps, Zenon
<1>4. LoadRoom(c) # NoRoom
  BY <1>1 DEF TablesInv, RoomsAreSound, RoomInv
<1> QED
  BY <1>1, <1>3, <1>4 DEF DomainRoom!Times, DomainRoom!vars, DomainRoom!Keep

(* A step that leaves the tables alone.                                    *)
LEMMA TablesStay ==
    ASSUME TablesInv, UNCHANGED tables
    PROVE  TablesInv' /\ RowsPersist /\ LoadRoom(Watched)' = LoadRoom(Watched)
<1>1. rooms' = rooms /\ members' = members /\ requests' = requests
  BY DEF tables
<1>2. \A c : LoadRoom(c)' = LoadRoom(c)
  BY <1>1 DEF LoadRoom
<1>3. TableTypes' /\ RowsHaveRooms'
  BY <1>1 DEF TablesInv, TableTypes, RowsHaveRooms
<1>4. RoomsAreSound'
  BY <1>1 DEF TablesInv, RoomsAreSound, LoadRoom
<1> QED
  BY <1>1, <1>2, <1>3, <1>4 DEF TablesInv, RowsPersist

(* The commands of clients, each a command of the room it names.           *)
LEMMA ClientSteps ==
    ASSUME StoreInv, FreshIds, NEW c \in Codes, NEW s \in Sessions, NEW t \in Clock,
           \/ InsertRoom(c, s, t)
           \/ \E q \in RequestIds : SubmitJoin(c, q, s, t)
           \/ \E q \in RequestIds, d \in {"approve", "reject"} : SubmitDecision(c, s, q, d, t)
           \/ \E p \in Peers : SubmitAttach(c, s, p, t) \/ SubmitDetach(c, s, p, t)
           \/ SubmitLeave(c, s, t)
    PROVE  StoreInv' /\ [DomainRoom!Next]_(DomainRoom!vars)
<1>0. /\ MaxTime \in Nat /\ MaxClock \in Nat /\ RoomTtl \in Nat \ {0} /\ JoinTtl \in Nat
      /\ MaxClock + RoomTtl <= MaxTime /\ Watched \in Codes
      /\ NoRoom \notin RoomRecord
  BY StoreAssumption
<1>1. t \in 0..now /\ now \in 0..MaxClock /\ TablesInv
  BY DEF Clock, StoreInv, TypeOK
<1>2. t \in 0..MaxTime /\ t \in DomainRoom!Times
  BY <1>0, <1>1 DEF DomainRoom!Times
<1>3. CASE InsertRoom(c, s, t)
  <2>1. t \in 0..MaxClock
    BY <1>0, <1>1
  <2>2. /\ now' = now /\ maintenance' = maintenance /\ requests' = requests
        /\ rooms[c] = NoRoom
    BY <1>3 DEF InsertRoom
  <2>3. /\ LoadRoom(c)' = CreateRoom(s, t + RoomTtl) /\ TablesInv'
        /\ \A d \in Codes \ {c} : LoadRoom(d)' = LoadRoom(d)
    BY <1>1, <1>3, <2>1, InsertStores
  <2>4. TypeOK'
    BY <2>2, <2>3 DEF StoreInv, TypeOK, TablesInv, TableTypes
  <2>5. PassIsSound'
    BY <2>2 DEF StoreInv, PassIsSound
  <2>6. CASE c = Watched
    <3>1. DomainRoom!Create(s, t, t + RoomTtl)
      <4>1. LoadRoom(Watched) = NoRoom
        BY <2>2, <2>6 DEF LoadRoom
      <4>2. t <= now /\ t < t + RoomTtl
        BY <1>0, <1>1
      <4> QED
        BY <2>2, <2>3, <2>6, <4>1, <4>2, SameCommands DEF DomainRoom!Create
    <3>2. t + RoomTtl \in DomainRoom!Times
      BY <1>0, <1>1 DEF DomainRoom!Times
    <3> QED
      BY <1>2, <2>3, <2>4, <2>5, <3>1, <3>2 DEF StoreInv, DomainRoom!Next
  <2>7. CASE c # Watched
    BY <1>0, <2>2, <2>3, <2>4, <2>5, <2>7 DEF StoreInv, DomainRoom!vars
  <2> QED
    BY <2>6, <2>7
<1>4. ASSUME NEW q \in RequestIds, SubmitJoin(c, q, s, t)
      PROVE  StoreInv' /\ [DomainRoom!Next]_(DomainRoom!vars)
  <2> DEFINE e == JoinDeadline(c, t)
             result == RequestJoin(LoadRoom(c), q, s, t, e)
  <2>1. /\ Apply(c, result, t) /\ maintenance' = maintenance /\ rooms[c] # NoRoom
        /\ requests[q].room \in {NoCode, c}
    BY <1>4 DEF SubmitJoin, ClientApply
  <2>2. e \in 0..MaxTime
    BY <1>0, <1>1, <1>2, <2>1 DEF JoinDeadline, TablesInv, TableTypes, RoomRow
  <2>3. e \in Nat /\ e \in DomainRoom!Times
    BY <1>0, <2>2 DEF DomainRoom!Times
  <2> HIDE DEF e
  <2>4. Change(c, result.room, t, {q})
    BY <1>1, <1>2, <2>1, <2>3, JoinChanges
  <2> HIDE DEF result
  <2>5. /\ StoreInv' /\ now' = now
        /\ LoadRoom(Watched)' = IF c = Watched THEN result.room ELSE LoadRoom(Watched)
    BY <1>1, <2>1, <2>4, TransactionKeeps
  <2>6. CASE c = Watched
    <3>1. DomainRoom!HandleRequestJoin(q, s, t, e)
      <4>1. LoadRoom(Watched) # NoRoom /\ t <= now
        BY <1>0, <1>1, <2>1, <2>6 DEF TablesInv, RoomsAreSound, RoomInv
      <4>2. result.outcome = "changed"
        BY <2>1 DEF Apply, Commits
      <4> QED
        BY <2>5, <2>6, <4>1, <4>2, SameCommands
        DEF DomainRoom!HandleRequestJoin, DomainRoom!Keep, result
    <3> QED
      BY <1>2, <2>3, <2>5, <3>1 DEF DomainRoom!Next
  <2>7. CASE c # Watched
    BY <2>5, <2>7 DEF DomainRoom!vars
  <2> QED
    BY <2>6, <2>7
<1>5. ASSUME NEW q \in RequestIds, NEW d \in {"approve", "reject"}, SubmitDecision(c, s, q, d, t)
      PROVE  StoreInv' /\ [DomainRoom!Next]_(DomainRoom!vars)
  <2> DEFINE result == DecideJoin(LoadRoom(c), s, q, d, t)
  <2>1. Apply(c, result, t) /\ maintenance' = maintenance
    BY <1>5 DEF SubmitDecision, ClientApply
  <2>2. /\ StoreInv' /\ t <= now
        /\ c # Watched => UNCHANGED (DomainRoom!vars)
        /\ c = Watched => LoadRoom(Watched) # NoRoom /\ DomainRoom!Keep(result)
    BY <1>1, <2>1, CommandKeeps
  <2>3. c = Watched => DomainRoom!HandleDecideJoin(s, q, d, t)
    BY <2>2, SameCommands DEF DomainRoom!HandleDecideJoin
  <2> QED
    BY <1>2, <2>2, <2>3 DEF DomainRoom!Next
<1>6. ASSUME NEW p \in Peers, SubmitAttach(c, s, p, t)
      PROVE  StoreInv' /\ [DomainRoom!Next]_(DomainRoom!vars)
  <2> DEFINE result == Attach(LoadRoom(c), s, p, t)
  <2>1. Apply(c, result, t) /\ maintenance' = maintenance
    BY <1>6 DEF SubmitAttach, ClientApply
  <2>2. /\ StoreInv' /\ t <= now
        /\ c # Watched => UNCHANGED (DomainRoom!vars)
        /\ c = Watched => LoadRoom(Watched) # NoRoom /\ DomainRoom!Keep(result)
    BY <1>1, <2>1, CommandKeeps
  <2>3. c = Watched => DomainRoom!HandleAttach(s, p, t)
    BY <2>2, SameCommands DEF DomainRoom!HandleAttach
  <2> QED
    BY <1>2, <2>2, <2>3 DEF DomainRoom!Next
<1>7. ASSUME NEW p \in Peers, SubmitDetach(c, s, p, t)
      PROVE  StoreInv' /\ [DomainRoom!Next]_(DomainRoom!vars)
  <2> DEFINE result == Detach(LoadRoom(c), s, p)
  <2>1. Apply(c, result, t) /\ maintenance' = maintenance
    BY <1>7 DEF SubmitDetach, ClientApply
  <2>2. /\ StoreInv'
        /\ c # Watched => UNCHANGED (DomainRoom!vars)
        /\ c = Watched => LoadRoom(Watched) # NoRoom /\ DomainRoom!Keep(result)
    BY <1>1, <2>1, CommandKeeps
  <2>3. c = Watched => DomainRoom!HandleDetach(s, p)
    BY <2>2, SameCommands DEF DomainRoom!HandleDetach
  <2> QED
    BY <2>2, <2>3 DEF DomainRoom!Next
<1>8. CASE SubmitLeave(c, s, t)
  <2> DEFINE result == Leave(LoadRoom(c), s)
  <2>1. Apply(c, result, t) /\ maintenance' = maintenance
    BY <1>8 DEF SubmitLeave, ClientApply
  <2>2. /\ StoreInv'
        /\ c # Watched => UNCHANGED (DomainRoom!vars)
        /\ c = Watched => LoadRoom(Watched) # NoRoom /\ DomainRoom!Keep(result)
    BY <1>1, <2>1, CommandKeeps
  <2>3. c = Watched => DomainRoom!HandleLeave(s)
    BY <2>2, SameCommands DEF DomainRoom!HandleLeave
  <2> QED
    BY <2>2, <2>3 DEF DomainRoom!Next
<1> QED
  BY <1>3, <1>4, <1>5, <1>6, <1>7, <1>8

(* The maintenance pass and the clock.                                     *)
LEMMA OtherSteps ==
    ASSUME StoreInv, Tick \/ Maintain
    PROVE  StoreInv' /\ [DomainRoom!Next]_(DomainRoom!vars)
<1>0. /\ MaxTime \in Nat /\ MaxClock \in Nat /\ NoCode \notin Codes
      /\ RoomTtl \in Nat /\ MaxClock + RoomTtl <= MaxTime
  BY StoreAssumption
<1>1. now \in 0..MaxClock /\ maintenance.t \in 0..now
  BY DEF StoreInv, TypeOK, PassIsSound
<1>2. CASE Tick
  <2>1. /\ UNCHANGED tables /\ maintenance' = maintenance
        /\ now' = now + 1 /\ now < MaxClock
    BY <1>2 DEF Tick
  <2>2. TablesInv' /\ LoadRoom(Watched)' = LoadRoom(Watched)
    BY <2>1, TablesStay DEF StoreInv
  <2>3. TypeOK'
    BY <1>0, <1>1, <2>1, <2>2 DEF StoreInv, TypeOK, TablesInv, TableTypes
  <2>4. PassIsSound'
    BY <1>1, <2>1 DEF StoreInv, PassIsSound, tables
  <2>5. DomainRoom!Tick
    BY <1>0, <1>1, <2>1, <2>2 DEF DomainRoom!Tick
  <2> QED
    BY <2>2, <2>3, <2>4, <2>5 DEF StoreInv, DomainRoom!Next
<1>3. ASSUME UNCHANGED <<tables, now>>, PassIsSound',
             maintenance' \in [phase : {"idle", "rooms", "requests"}, t : 0..MaxClock,
                              batch : (SUBSET Codes) \cup (SUBSET RequestIds)]
      PROVE  StoreInv' /\ UNCHANGED (DomainRoom!vars)
  <2>1. TablesInv' /\ LoadRoom(Watched)' = LoadRoom(Watched)
    BY <1>3, TablesStay DEF StoreInv
  <2>2. TypeOK'
    BY <1>3, <2>1 DEF StoreInv, TypeOK, TablesInv, TableTypes
  <2> QED
    BY <1>3, <2>1, <2>2 DEF StoreInv, DomainRoom!vars
<1>4. ASSUME UNCHANGED <<tables, now>>, maintenance' = Idle
      PROVE  StoreInv' /\ UNCHANGED (DomainRoom!vars)
  <2>1. PassIsSound'
    BY <1>1, <1>4 DEF PassIsSound, Idle
  <2> QED
    BY <1>0, <1>3, <1>4, <2>1 DEF Idle
<1>5. ASSUME NEW x, UNCHANGED <<tables, now>>,
             maintenance' = [maintenance EXCEPT !.batch = @ \ {x}]
      PROVE  StoreInv' /\ UNCHANGED (DomainRoom!vars)
  <2>1. /\ maintenance'.phase = maintenance.phase /\ maintenance'.t = maintenance.t
        /\ maintenance'.batch \subseteq maintenance.batch
        /\ maintenance' \in [phase : {"idle", "rooms", "requests"}, t : 0..MaxClock,
                            batch : (SUBSET Codes) \cup (SUBSET RequestIds)]
    BY <1>5 DEF StoreInv, TypeOK
  <2>2. PassIsSound'
    BY <1>5, <2>1 DEF StoreInv, PassIsSound, tables
  <2> QED
    BY <1>3, <1>5, <2>1, <2>2
<1>6. CASE BeginPass
  <2>1. PICK chosen \in SUBSET DueRooms(now) :
          maintenance' = [phase |-> "rooms", t |-> now, batch |-> chosen]
    BY <1>6 DEF BeginPass
  <2>2. chosen \subseteq Codes /\ UNCHANGED <<tables, now>>
    BY <1>6 DEF DueRooms, BeginPass
  <2>3. PassIsSound'
    BY <1>1, <2>1, <2>2 DEF PassIsSound
  <2> QED
    BY <1>1, <1>3, <2>1, <2>2, <2>3
<1>7. CASE SelectRequests
  <2>1. PICK chosen \in SUBSET DueRequests(maintenance.t) :
          maintenance' = [maintenance EXCEPT !.phase = "requests", !.batch = chosen]
    BY <1>7 DEF SelectRequests
  <2>2. chosen \subseteq {q \in RequestIds : requests[q].room # NoCode}
    BY DEF DueRequests
  <2>3. UNCHANGED <<tables, now>>
    BY <1>7 DEF SelectRequests
  <2>4. /\ maintenance'.phase = "requests" /\ maintenance'.t = maintenance.t
        /\ maintenance'.batch = chosen
        /\ maintenance' \in [phase : {"idle", "rooms", "requests"}, t : 0..MaxClock,
                            batch : (SUBSET Codes) \cup (SUBSET RequestIds)]
    BY <2>1, <2>2 DEF StoreInv, TypeOK
  <2>5. PassIsSound'
    BY <1>1, <2>2, <2>3, <2>4 DEF PassIsSound, tables
  <2> QED
    BY <1>3, <2>3, <2>4, <2>5
<1>8. CASE EndPass
  BY <1>4, <1>8 DEF EndPass
<1>9. CASE ExpireDueRoom
  <2>1. PICK c \in First(maintenance.batch, RoomDeadline) :
          Iterate(c, c, Expire(LoadRoom(c), maintenance.t))
    BY <1>9 DEF ExpireDueRoom
  <2>2. c \in Codes
    BY <1>9 DEF ExpireDueRoom, First, StoreInv, PassIsSound
  <2> DEFINE result == Expire(LoadRoom(c), maintenance.t)
  <2>3. CASE /\ Apply(c, result, maintenance.t)
             /\ maintenance' = [maintenance EXCEPT !.batch = @ \ {c}]
    <3>1. /\ StoreInv' /\ maintenance.t <= now /\ maintenance.t \in DomainRoom!Times
          /\ c # Watched => UNCHANGED (DomainRoom!vars)
          /\ c = Watched => LoadRoom(Watched) # NoRoom /\ DomainRoom!Keep(result)
      BY <1>1, <2>2, <2>3, CommandKeeps
    <3>2. c = Watched => DomainRoom!HandleExpire(maintenance.t)
      BY <3>1, SameCommands DEF DomainRoom!HandleExpire
    <3> QED
      BY <3>1, <3>2 DEF DomainRoom!Next
  <2> QED
    BY <1>4, <1>5, <2>1, <2>3 DEF Iterate
<1>10. CASE ExpireDueRequest
  <2>1. PICK q \in First(maintenance.batch, RequestDeadline) :
          Iterate(q, requests[q].room,
                  ExpireJoinRequest(LoadRoom(requests[q].room), q, maintenance.t))
    BY <1>10 DEF ExpireDueRequest
  <2>2. q \in RequestIds /\ requests[q].room \in Codes
    BY <1>10 DEF ExpireDueRequest, First, StoreInv, PassIsSound, TypeOK, RequestRow
  <2>3. PICK c \in Codes : c = requests[q].room
    BY <2>2
  <2> DEFINE result == ExpireJoinRequest(LoadRoom(c), q, maintenance.t)
  <2>4. CASE /\ Apply(c, result, maintenance.t)
             /\ maintenance' = [maintenance EXCEPT !.batch = @ \ {q}]
    <3>1. /\ StoreInv' /\ maintenance.t <= now /\ maintenance.t \in DomainRoom!Times
          /\ c # Watched => UNCHANGED (DomainRoom!vars)
          /\ c = Watched => LoadRoom(Watched) # NoRoom /\ DomainRoom!Keep(result)
      BY <1>1, <2>2, <2>4, CommandKeeps
    <3>2. c = Watched => DomainRoom!HandleExpireJoinRequest(q, maintenance.t)
      BY <3>1, SameCommands DEF DomainRoom!HandleExpireJoinRequest
    <3> QED
      BY <2>2, <3>1, <3>2 DEF DomainRoom!Next
  <2>5. Iterate(q, c, result)
    BY <2>1, <2>3
  <2> QED
    BY <1>4, <1>5, <2>4, <2>5 DEF Iterate
<1> QED
  BY <1>2, <1>6, <1>7, <1>8, <1>9, <1>10 DEF Maintain

----------------------------------------------------------------------------
(* The specification.                                                      *)

(* A store whose clients do not reuse a request id keeps its invariant.    *)
THEOREM StoreInvariance ==
    ASSUME FreshIds
    PROVE  Spec => []StoreInv
<1>1. Init => StoreInv
  <2> SUFFICES ASSUME Init PROVE StoreInv
    OBVIOUS
  <2>1. /\ MaxTime \in Nat /\ MaxClock \in Nat /\ NoRoom \notin RoomRow
    BY StoreAssumption
  <2>2. NoMember \in MemberRow /\ NoRequestRow \in RequestRow
    BY <2>1 DEF NoMember, MemberRow, NoMembership, Membership, MembershipRole, MembershipState,
         NoRequestRow, RequestRow, NoRequest, JoinRequest, JoinRequestState
  <2>3. TypeOK /\ TableTypes
    BY <2>1, <2>2 DEF Init, TypeOK, TableTypes, Idle
  <2>4. RoomsAreSound /\ RowsHaveRooms
    BY DEF Init, RoomsAreSound, RowsHaveRooms, NoRequestRow
  <2>5. PassIsSound
    BY <2>1 DEF Init, PassIsSound, Idle
  <2> QED
    BY <2>3, <2>4, <2>5 DEF StoreInv, TablesInv
<1>2. StoreInv /\ [Next]_vars => StoreInv'
  <2> SUFFICES ASSUME StoreInv, [Next]_vars PROVE StoreInv'
    OBVIOUS
  <2>1. CASE UNCHANGED vars
    <3>1. UNCHANGED <<tables, now, maintenance>>
      BY <2>1 DEF vars, tables
    <3> QED
      BY <3>1, TablesStay DEF StoreInv, TypeOK, PassIsSound, tables
  <2> QED
    BY <2>1, ClientSteps, OtherSteps DEF Next
<1> QED
  BY <1>1, <1>2, PTL DEF Spec

(* Rows have the types of their columns after every transaction.           *)
THEOREM StoreTypes ==
    ASSUME FreshIds
    PROVE  Spec => []TypeOK
<1>1. StoreInv => TypeOK
  BY DEF StoreInv
<1> QED
  BY <1>1, StoreInvariance, PTL

(* Room::restore accepts every stored room: none becomes a CorruptRoom,    *)
(* whatever commands and maintenance passes interleave.                    *)
THEOREM RoomsLoad ==
    ASSUME FreshIds
    PROVE  Spec => []StoredRoomsLoad
<1>1. StoreInv => StoredRoomsLoad
  BY DEF StoreInv, TablesInv, RoomsAreSound, RoomInv, StoredRoomsLoad, Loadable
<1> QED
  BY <1>1, StoreInvariance, PTL

(* The rows of a code are a room of the domain: every step of the store is *)
(* a command of that room, the clock, or nothing to it.                    *)
THEOREM StoreImplementsRoom ==
    ASSUME FreshIds
    PROVE  Spec => ImplementsRoom
<1>1. Init => DomainRoom!Init
  BY StoreAssumption DEF Init, DomainRoom!Init, LoadRoom
<1>2. StoreInv /\ [Next]_vars => [DomainRoom!Next]_(DomainRoom!vars)
  <2> SUFFICES ASSUME StoreInv, [Next]_vars PROVE [DomainRoom!Next]_(DomainRoom!vars)
    OBVIOUS
  <2>1. CASE UNCHANGED vars
    BY <2>1, TablesStay DEF StoreInv, vars, tables, DomainRoom!vars
  <2> QED
    BY <2>1, ClientSteps, OtherSteps DEF Next
<1> QED
  BY <1>1, <1>2, StoreInvariance, PTL DEF Spec, ImplementsRoom, DomainRoom!Spec

----------------------------------------------------------------------------
(***************************************************************************)
(* What the server has answered stays true, for every number of calls      *)
(* under way, clients, rooms and repetitions.                              *)
(*                                                                         *)
(* An answer stays true because the rows it was read from persist          *)
(* (RowsPersist) and because of what a call knows at the step it is at: a  *)
(* handler that has seen the room may go on without looking again, for a   *)
(* room's row is never deleted; an invite is only written by a call that   *)
(* has found its deadline ahead; a join is only applied under an id that   *)
(* is free or the room's own.                                              *)
(***************************************************************************)

----------------------------------------------------------------------------
(* The inductive invariant.                                                *)

(* What a call under way knows at each of its steps, given the tables R of *)
(* rooms and Q of requests.                                                *)
CallOK(call, R, Q) ==
    /\ call \in Call
    /\ call.step = "limit" => call.op \in {"create", "join"}
    /\ call.step \in {"find", "insert", "again"} => call.op = "create"
    /\ call.step \in {"load", "expiry", "store", "reread"} => call.op = "invite"
    /\ call.step \in {"room", "apply"} => call.op = "join"
    /\ call.step = "insert" => call.tries # 0
    /\ call.step # "idle" => call.session \in Sessions /\ call.request \in RequestIds
    /\ call.op \in {"invite", "join"} => call.code \in Codes /\ call.request \in RequestIds
    /\ call.step \in {"expiry", "store", "reread", "apply"} => R[call.code] # NoRoom
    /\ call.step = "store" => call.t < R[call.code].expires_at
    /\ call.op = "join" => Q[call.request].room \in {NoCode, call.code}

CallsSound ==
    /\ calls \in [Calls -> Call]
    /\ \A k \in Calls : CallOK(calls[k], rooms, requests)
    /\ \A j, k \in Calls :
         calls[j].op = "join" /\ calls[k].op = "join" /\ calls[j].request = calls[k].request =>
           calls[j].code = calls[k].code

(* The unique index on owner and request id.                               *)
RoomsUnique ==
    /\ created \in [Codes -> RequestIds \cup {NoId}]
    /\ \A c, d \in Codes :
         /\ rooms[c] # NoRoom /\ rooms[d] # NoRoom
         /\ rooms[c].owner = rooms[d].owner /\ created[c] = created[d]
         => c = d

(* An invite does not outlive its room.                                    *)
InvitesSound ==
    /\ invites \in [Codes -> [RequestIds -> Nat]]
    /\ \A c \in Codes, q \in RequestIds :
         invites[c][q] # 0 => rooms[c] # NoRoom /\ invites[c][q] <= rooms[c].expires_at

(* What an answer says is in the tables, C being the request ids of rooms  *)
(* and I the invites.                                                      *)
AnswerOK(a, R, Q, C, I) ==
    /\ a.op = "create" =>
         /\ a.code \in Codes
         /\ R[a.code] # NoRoom
         /\ R[a.code].owner = a.session
         /\ C[a.code] = a.request
    /\ a.op = "invite" =>
         /\ a.code \in Codes /\ a.request \in RequestIds
         /\ I[a.code][a.request] = a.expires_at
         /\ a.expires_at # 0
    /\ a.op = "join" =>
         /\ a.code \in Codes /\ a.request \in RequestIds
         /\ Q[a.request].room = a.code
         /\ Q[a.request].request.session = a.session
         /\ Q[a.request].request.expires_at = a.expires_at

AnswersSound == \A a \in answers : AnswerOK(a, rooms, requests, created, invites)

ApiInv ==
    /\ TablesInv
    /\ now \in 0..MaxClock
    /\ CallsSound
    /\ RoomsUnique
    /\ InvitesSound
    /\ AnswersSound
----------------------------------------------------------------------------
(* What stays.                                                             *)

(* Answers stay true while the rows persist, a room keeps the request that *)
(* created it and an invite its expiry.                                    *)
LEMMA AnswersPersist ==
    ASSUME ApiInv, RowsPersist,
           \A c \in Codes : rooms[c] # NoRoom => created'[c] = created[c],
           \A c \in Codes, q \in RequestIds :
             invites[c][q] # 0 => invites'[c][q] = invites[c][q]
    PROVE  \A a \in answers : AnswerOK(a, rooms', requests', created', invites')
<1> SUFFICES ASSUME NEW a \in answers
             PROVE  AnswerOK(a, rooms', requests', created', invites')
  OBVIOUS
<1>1. AnswerOK(a, rooms, requests, created, invites) /\ NoCode \notin Codes
  BY StoreAssumption DEF ApiInv, AnswersSound
<1> QED
  BY <1>1 DEF AnswerOK, RowsPersist

(* A free slot.                                                            *)
LEMMA NoCallOK ==
    ASSUME NEW R, NEW Q
    PROVE  CallOK(NoCall, R, Q) /\ NoCall.op = "none"
<1>1. 0 \in 0..MaxClock /\ 0 \in 0..CodeAttempts
  BY StoreAssumption, ApiAssumption
<1> QED
  BY <1>1 DEF CallOK, NoCall, Call, Steps

(* The calls under way when one of them takes a step.                      *)
LEMMA CallsPersist ==
    ASSUME ApiInv, RowsPersist, NEW k \in Calls, NEW x,
           calls' = [calls EXCEPT ![k] = x],
           CallOK(x, rooms', requests'),
           \A j \in Calls : calls[j].op = "join" =>
             requests'[calls[j].request].room \in {NoCode, calls[j].code},
           \A j \in Calls \ {k} :
             x.op = "join" /\ calls[j].op = "join" /\ calls[j].request = x.request =>
               calls[j].code = x.code
    PROVE  CallsSound'
<1>1. /\ calls \in [Calls -> Call]
      /\ \A j \in Calls : CallOK(calls[j], rooms, requests)
      /\ \A i, j \in Calls :
           calls[i].op = "join" /\ calls[j].op = "join" /\ calls[i].request = calls[j].request =>
             calls[i].code = calls[j].code
  BY DEF ApiInv, CallsSound
<1>2. /\ calls'[k] = x
      /\ \A j \in Calls \ {k} : calls'[j] = calls[j]
      /\ calls' \in [Calls -> Call]
  BY <1>1 DEF CallOK
<1>3. ASSUME NEW j \in Calls \ {k}
      PROVE  CallOK(calls'[j], rooms', requests')
  <2>1. CallOK(calls[j], rooms, requests) /\ calls'[j] = calls[j]
    BY <1>1, <1>2
  <2>2. calls[j].op = "join" => requests'[calls[j].request].room \in {NoCode, calls[j].code}
    OBVIOUS
  <2>3. calls[j].step \in {"expiry", "store", "reread", "apply"} => calls[j].code \in Codes
    BY <2>1 DEF CallOK
  <2> QED
    BY <2>1, <2>2, <2>3 DEF CallOK, RowsPersist
<1>4. ASSUME NEW i \in Calls, NEW j \in Calls,
             calls'[i].op = "join", calls'[j].op = "join", calls'[i].request = calls'[j].request
      PROVE  calls'[i].code = calls'[j].code
  BY <1>1, <1>2, <1>4
<1>5. \A j \in Calls : CallOK(calls'[j], rooms', requests')
  BY <1>2, <1>3
<1> QED
  BY <1>2, <1>4, <1>5 DEF CallsSound

(* A step of one call that reads, and may end the call without an answer.  *)
LEMMA ReadKeeps ==
    ASSUME ApiInv, NEW k \in Calls, NEW x,
           calls' = [calls EXCEPT ![k] = x],
           CallOK(x, rooms, requests),
           \A j \in Calls \ {k} :
             x.op = "join" /\ calls[j].op = "join" /\ calls[j].request = x.request =>
               calls[j].code = x.code,
           UNCHANGED <<vars, created, invites>>,
           \A a \in answers' \ answers : AnswerOK(a, rooms, requests, created, invites)
    PROVE  ApiInv'
<1>1. /\ UNCHANGED tables /\ UNCHANGED <<rooms, requests, now, created, invites>>
      /\ TablesInv
  BY DEF vars, tables, ApiInv
<1>2. TablesInv' /\ RowsPersist
  BY <1>1, TablesStay
<1>3. \A j \in Calls : calls[j].op = "join" =>
        requests'[calls[j].request].room \in {NoCode, calls[j].code}
  BY <1>1 DEF ApiInv, CallsSound, CallOK
<1>4. CallsSound'
  BY <1>1, <1>2, <1>3, CallsPersist
<1>5. AnswersSound'
  BY <1>1 DEF ApiInv, AnswersSound
<1> QED
  BY <1>1, <1>2, <1>4, <1>5 DEF ApiInv, RoomsUnique, InvitesSound

(* The same for a step of no call.                                         *)
LEMMA QuietKeeps ==
    ASSUME ApiInv, UNCHANGED <<tables, created, invites, calls, answers>>,
           now' \in 0..MaxClock
    PROVE  ApiInv'
<1>1. UNCHANGED <<rooms, requests, created, invites>> /\ TablesInv
  BY DEF tables, ApiInv
<1>2. TablesInv'
  BY <1>1, TablesStay
<1> QED
  BY <1>1, <1>2 DEF ApiInv, CallsSound, RoomsUnique, InvitesSound, AnswersSound

(* A call that is answered from the tables.                                *)
LEMMA AnswerKeeps ==
    ASSUME ApiInv, NEW k \in Calls, NEW c, NEW e, Answer(k, c, e),
           UNCHANGED <<vars, created, invites>>,
           AnswerOK([op |-> calls[k].op, session |-> calls[k].session,
                     request |-> calls[k].request, code |-> c, expires_at |-> e],
                    rooms, requests, created, invites)
    PROVE  ApiInv'
  BY NoCallOK, ReadKeeps DEF Answer, End

(* A call that ends without an answer.                                     *)
LEMMA EndKeeps ==
    ASSUME ApiInv, NEW k \in Calls, End(k), UNCHANGED <<vars, created, invites, answers>>
    PROVE  ApiInv'
  BY NoCallOK, ReadKeeps DEF End
----------------------------------------------------------------------------
(* The steps of the handlers.                                              *)

(* A call arrives with arguments of the right kind; a join under an id     *)
(* that no other room uses.                                                *)
LEMMA ArriveKeeps ==
    ASSUME ApiInv, NEW k \in Calls, NEW s \in Sessions, NEW q \in RequestIds,
           \/ PostRoom(k, s, q)
           \/ \E c \in Codes : PostInvite(k, s, c, q)
           \/ \E c \in Codes, invite \in RequestIds \cup {NoId} : PostJoin(k, s, c, q, invite)
    PROVE  ApiInv'
<1>0. now \in 0..MaxClock /\ 0 \in 0..CodeAttempts /\ NoCall \in Call
  BY ApiAssumption, NoCallOK DEF ApiInv, CallOK
<1>1. CASE PostRoom(k, s, q)
  <2> DEFINE x == [[NoCall EXCEPT !.op = "create", !.step = "limit", !.session = s,
                                  !.request = q] EXCEPT !.t = now]
  <2>1. calls' = [calls EXCEPT ![k] = x] /\ UNCHANGED <<vars, created, invites, answers>>
    BY <1>1 DEF PostRoom, Arrive
  <2>2. /\ x \in Call /\ x.op = "create" /\ x.step = "limit" /\ x.session = s /\ x.request = q
    BY <1>0 DEF Call, Steps
  <2> HIDE DEF x
  <2>3. CallOK(x, rooms, requests) /\ x.op # "join"
    BY <1>0, <2>2 DEF CallOK, Call, Steps
  <2> QED
    BY <2>1, <2>3, ReadKeeps
<1>2. ASSUME NEW c \in Codes, PostInvite(k, s, c, q)
      PROVE  ApiInv'
  <2> DEFINE x == [[NoCall EXCEPT !.op = "invite", !.step = "load", !.session = s,
                                  !.request = q, !.code = c] EXCEPT !.t = now]
  <2>1. calls' = [calls EXCEPT ![k] = x] /\ UNCHANGED <<vars, created, invites, answers>>
    BY <1>2 DEF PostInvite, Arrive
  <2>2. /\ x \in Call /\ x.op = "invite" /\ x.step = "load" /\ x.session = s /\ x.request = q
        /\ x.code = c
    BY <1>0 DEF Call, Steps
  <2> HIDE DEF x
  <2>3. CallOK(x, rooms, requests) /\ x.op # "join"
    BY <1>0, <2>2 DEF CallOK, Call, Steps
  <2> QED
    BY <2>1, <2>3, ReadKeeps
<1>3. ASSUME NEW c \in Codes, NEW invite \in RequestIds \cup {NoId}, PostJoin(k, s, c, q, invite)
      PROVE  ApiInv'
  <2> DEFINE x == [[NoCall EXCEPT !.op = "join", !.step = "limit", !.session = s,
                                  !.request = q, !.code = c, !.with = invite] EXCEPT !.t = now]
  <2>1. calls' = [calls EXCEPT ![k] = x] /\ UNCHANGED <<vars, created, invites, answers>>
    BY <1>3 DEF PostJoin, Arrive
  <2>2. /\ x \in Call /\ x.op = "join" /\ x.step = "limit" /\ x.session = s /\ x.request = q
        /\ x.code = c
    BY <1>0 DEF Call, Steps
  <2>3. /\ requests[q].room \in {NoCode, c}
        /\ \A j \in Calls : calls[j].op = "join" /\ calls[j].request = q => calls[j].code = c
    BY <1>3 DEF PostJoin
  <2> HIDE DEF x
  <2>4. CallOK(x, rooms, requests) /\ x.request = q /\ x.code = c
    BY <1>0, <2>2, <2>3 DEF CallOK, Call, Steps
  <2> QED
    BY <2>1, <2>3, <2>4, ReadKeeps
<1> QED
  BY <1>1, <1>2, <1>3

(* A call goes on to another step with its arguments as they are.          *)
LEMMA MoveKeeps ==
    ASSUME ApiInv, NEW k \in Calls, NEW x \in Call,
           calls' = [calls EXCEPT ![k] = x],
           x.op = calls[k].op, x.request = calls[k].request, x.code = calls[k].code,
           CallOK(x, rooms, requests),
           UNCHANGED <<vars, created, invites, answers>>
    PROVE  ApiInv'
<1>1. \A j \in Calls \ {k} :
        x.op = "join" /\ calls[j].op = "join" /\ calls[j].request = x.request =>
          calls[j].code = x.code
  BY DEF ApiInv, CallsSound
<1> QED
  BY <1>1, ReadKeeps

(* The limiter passes a call on to its service or ends it.                 *)
LEMMA ServeKeeps ==
    ASSUME ApiInv, NEW k \in Calls, Serve(k)
    PROVE  ApiInv'
<1> DEFINE call == calls[k]
           x == [call EXCEPT !.step = IF call.op = "create" THEN "find" ELSE "room", !.t = now,
                             !.tries = IF call.op = "create" THEN CodeAttempts ELSE 0]
<1>0. now \in 0..MaxClock /\ 0 \in 0..CodeAttempts /\ CodeAttempts \in 0..CodeAttempts
  BY ApiAssumption DEF ApiInv
<1>1. CallOK(call, rooms, requests) /\ call.step = "limit" /\ calls \in [Calls -> Call]
  BY DEF Serve, ApiInv, CallsSound
<1>2. call \in Call
  BY <1>1 DEF CallOK
<1>3. calls' = [calls EXCEPT ![k] = x] \/ calls' = [calls EXCEPT ![k] = NoCall]
  BY <1>1 DEF Serve
<1>4. UNCHANGED <<vars, created, invites, answers>>
  BY DEF Serve
<1> HIDE DEF call
<1>5. /\ x \in Call /\ x.op = call.op /\ x.request = call.request /\ x.code = call.code
      /\ x.session = call.session /\ x.step = IF call.op = "create" THEN "find" ELSE "room"
  BY <1>0, <1>2 DEF Call, Steps
<1> HIDE DEF x
<1>6. CallOK(x, rooms, requests)
  BY <1>1, <1>5 DEF CallOK
<1>7. CASE calls' = [calls EXCEPT ![k] = x]
  BY <1>4, <1>5, <1>6, <1>7, MoveKeeps DEF call
<1>8. CASE calls' = [calls EXCEPT ![k] = NoCall]
  BY <1>4, <1>8, EndKeeps DEF End
<1> QED
  BY <1>3, <1>7, <1>8

(* services.create_room looks the request up: the room it finds is the     *)
(* caller's, made by this request.                                         *)
LEMMA FindRoomKeeps ==
    ASSUME ApiInv, NEW k \in Calls, FindRoom(k)
    PROVE  ApiInv'
<1> DEFINE call == calls[k]
<1>1. /\ CallOK(call, rooms, requests) /\ call.step \in {"find", "again"}
      /\ calls \in [Calls -> Call]
      /\ UNCHANGED <<vars, created, invites>>
  BY DEF FindRoom, ApiInv, CallsSound
<1>2. call \in Call /\ call.op = "create"
  BY <1>1 DEF CallOK
<1>3. ASSUME NEW c \in RoomsOf(call.session, call.request), Answer(k, c, rooms[c].expires_at)
      PROVE  ApiInv'
  <2>1. AnswerOK([op |-> call.op, session |-> call.session, request |-> call.request,
                  code |-> c, expires_at |-> rooms[c].expires_at],
                 rooms, requests, created, invites)
    BY <1>2, <1>3 DEF AnswerOK, RoomsOf
  <2> QED
    BY <1>1, <1>3, <2>1, AnswerKeeps
<1>4. CASE End(k) /\ UNCHANGED answers
  BY <1>1, <1>4, EndKeeps
<1>5. CASE call.tries # 0 /\ Goto(k, "insert") /\ UNCHANGED answers
  <2> DEFINE x == [call EXCEPT !.step = "insert"]
  <2>1. calls' = [calls EXCEPT ![k] = x]
    BY <1>1, <1>5 DEF Goto
  <2>2. /\ x \in Call /\ x.op = call.op /\ x.request = call.request /\ x.code = call.code
        /\ x.session = call.session /\ x.step = "insert" /\ x.tries = call.tries
    BY <1>2 DEF Call, Steps
  <2> HIDE DEF x
  <2>3. CallOK(x, rooms, requests)
    BY <1>1, <1>2, <1>5, <2>2 DEF CallOK
  <2> QED
    BY <1>1, <1>5, <2>1, <2>2, <2>3, MoveKeeps
<1> QED
  BY <1>3, <1>4, <1>5 DEF FindRoom

(* services.create_invite loads the room.                                  *)
LEMMA LoadForInviteKeeps ==
    ASSUME ApiInv, NEW k \in Calls, LoadForInvite(k)
    PROVE  ApiInv'
<1> DEFINE call == calls[k]
<1>1. /\ CallOK(call, rooms, requests) /\ call.step = "load"
      /\ calls \in [Calls -> Call] /\ now \in 0..MaxClock
      /\ UNCHANGED <<vars, created, invites, answers>>
  BY DEF LoadForInvite, ApiInv, CallsSound
<1>2. call \in Call /\ call.op = "invite"
  BY <1>1 DEF CallOK
<1>3. CASE End(k)
  BY <1>1, <1>3, EndKeeps
<1>4. CASE /\ rooms[call.code] # NoRoom
           /\ calls' = [calls EXCEPT ![k].step = "expiry", ![k].t = now]
  <2> DEFINE x == [call EXCEPT !.step = "expiry", !.t = now]
  <2>1. calls' = [calls EXCEPT ![k] = x]
    BY <1>1, <1>4
  <2>2. /\ x \in Call /\ x.op = call.op /\ x.request = call.request /\ x.code = call.code
        /\ x.session = call.session /\ x.step = "expiry"
    BY <1>1, <1>2 DEF Call, Steps
  <2> HIDE DEF x
  <2>3. CallOK(x, rooms, requests)
    BY <1>1, <1>2, <1>4, <2>2 DEF CallOK
  <2> QED
    BY <1>1, <2>1, <2>2, <2>3, MoveKeeps
<1> QED
  BY <1>3, <1>4 DEF LoadForInvite

(* find_invite_expiry: an invite that is stored is answered with its       *)
(* expiry, another is written only if its deadline is ahead.               *)
LEMMA FindInviteKeeps ==
    ASSUME ApiInv, NEW k \in Calls, FindInvite(k)
    PROVE  ApiInv'
<1> DEFINE call == calls[k]
           stored == invites[call.code][call.request]
<1>1. /\ CallOK(call, rooms, requests) /\ call.step \in {"expiry", "reread"}
      /\ calls \in [Calls -> Call]
      /\ UNCHANGED <<vars, created, invites>>
  BY DEF FindInvite, ApiInv, CallsSound
<1>2. /\ call \in Call /\ call.op = "invite" /\ call.code \in Codes
      /\ call.request \in RequestIds /\ rooms[call.code] # NoRoom
  BY <1>1 DEF CallOK
<1>3. CASE stored # 0 /\ Answer(k, call.code, stored)
  <2>1. AnswerOK([op |-> call.op, session |-> call.session, request |-> call.request,
                  code |-> call.code, expires_at |-> stored],
                 rooms, requests, created, invites)
    BY <1>2, <1>3 DEF AnswerOK
  <2> QED
    BY <1>1, <1>3, <2>1, AnswerKeeps
<1>4. CASE End(k) /\ UNCHANGED answers
  BY <1>1, <1>4, EndKeeps
<1>5. CASE call.t < InviteDeadline(call) /\ Goto(k, "store") /\ UNCHANGED answers
  <2> DEFINE x == [call EXCEPT !.step = "store"]
  <2>1. calls' = [calls EXCEPT ![k] = x]
    BY <1>1, <1>5 DEF Goto
  <2>2. /\ x \in Call /\ x.op = call.op /\ x.request = call.request /\ x.code = call.code
        /\ x.session = call.session /\ x.step = "store" /\ x.t = call.t
    BY <1>2 DEF Call, Steps
  <2>3. rooms[call.code] \in RoomRow
    BY <1>2 DEF ApiInv, TablesInv, TableTypes
  <2>4. call.t < rooms[call.code].expires_at
    <3>1. /\ call.t \in Nat /\ InviteTtl \in Nat
          /\ rooms[call.code].expires_at \in Nat
      BY <1>2, <2>3, ApiAssumption, StoreAssumption DEF Call, RoomRow
    <3> QED
      BY <1>5, <3>1 DEF InviteDeadline
  <2> HIDE DEF x
  <2>5. CallOK(x, rooms, requests)
    BY <1>1, <1>2, <2>2, <2>4 DEF CallOK
  <2> QED
    BY <1>1, <1>5, <2>1, <2>2, <2>5, MoveKeeps
<1> QED
  BY <1>3, <1>4, <1>5 DEF FindInvite

(* services.request_join reads the room and the invite.                    *)
LEMMA LoadForJoinKeeps ==
    ASSUME ApiInv, NEW k \in Calls, LoadForJoin(k)
    PROVE  ApiInv'
<1> DEFINE call == calls[k]
<1>1. /\ CallOK(call, rooms, requests) /\ call.step = "room"
      /\ calls \in [Calls -> Call]
      /\ UNCHANGED <<vars, created, invites, answers>>
  BY DEF LoadForJoin, ApiInv, CallsSound
<1>2. call \in Call /\ call.op = "join"
  BY <1>1 DEF CallOK
<1>3. CASE End(k)
  BY <1>1, <1>3, EndKeeps
<1>4. CASE rooms[call.code] # NoRoom /\ Goto(k, "apply")
  <2> DEFINE x == [call EXCEPT !.step = "apply"]
  <2>1. calls' = [calls EXCEPT ![k] = x]
    BY <1>1, <1>4 DEF Goto
  <2>2. /\ x \in Call /\ x.op = call.op /\ x.request = call.request /\ x.code = call.code
        /\ x.session = call.session /\ x.step = "apply"
    BY <1>1, <1>2 DEF Call, Steps
  <2> HIDE DEF x
  <2>3. CallOK(x, rooms, requests)
    BY <1>1, <1>2, <1>4, <2>2 DEF CallOK
  <2> QED
    BY <1>1, <2>1, <2>2, <2>3, MoveKeeps
<1> QED
  BY <1>3, <1>4 DEF LoadForJoin
(* A step that writes rows, seen from the calls and answers.               *)
LEMMA WriteKeeps ==
    ASSUME ApiInv, RowsPersist, TablesInv', now' = now, CallsSound', RoomsUnique', InvitesSound',
           \A c \in Codes : rooms[c] # NoRoom => created'[c] = created[c],
           \A c \in Codes, q \in RequestIds :
             invites[c][q] # 0 => invites'[c][q] = invites[c][q],
           \A a \in answers' \ answers : AnswerOK(a, rooms', requests', created', invites')
    PROVE  ApiInv'
<1>1. \A a \in answers : AnswerOK(a, rooms', requests', created', invites')
  BY AnswersPersist
<1>2. AnswersSound'
  BY <1>1 DEF AnswersSound
<1> QED
  BY <1>2 DEF ApiInv

(* insert_room: the indexes let a request create one room only.            *)
LEMMA InsertKeeps ==
    ASSUME ApiInv, NEW k \in Calls, NEW c \in Codes, Insert(k, c)
    PROVE  ApiInv'
<1>1. PICK call : call = calls[k]
  OBVIOUS
<1>2. /\ CallOK(call, rooms, requests) /\ call.step = "insert" /\ calls \in [Calls -> Call]
      /\ \A j \in Calls : CallOK(calls[j], rooms, requests)
      /\ created \in [Codes -> RequestIds \cup {NoId}]
      /\ UNCHANGED invites /\ TablesInv
  BY <1>1 DEF Insert, ApiInv, CallsSound, RoomsUnique
<1>3. /\ call \in Call /\ call.op = "create" /\ call.tries # 0
      /\ call.session \in Sessions /\ call.request \in RequestIds /\ call.t \in 0..MaxClock
  BY <1>2 DEF CallOK, Call
<1>4. CASE /\ calls' = [calls EXCEPT ![k].step = "again", ![k].tries = @ - 1]
           /\ UNCHANGED <<vars, created, answers>>
  <2> DEFINE x == [call EXCEPT !.step = "again", !.tries = call.tries - 1]
  <2>1. calls' = [calls EXCEPT ![k] = x]
    BY <1>1, <1>2, <1>4
  <2>2. call.tries - 1 \in 0..CodeAttempts
    BY <1>3, ApiAssumption DEF Call
  <2>3. /\ x \in Call /\ x.op = call.op /\ x.request = call.request /\ x.code = call.code
        /\ x.session = call.session /\ x.step = "again"
    BY <1>3, <2>2 DEF Call, Steps
  <2> HIDE DEF x
  <2>4. CallOK(x, rooms, requests)
    BY <1>2, <1>3, <2>3 DEF CallOK
  <2> QED
    BY <1>1, <1>2, <1>4, <2>1, <2>3, <2>4, MoveKeeps
<1>5. CASE /\ rooms[c] = NoRoom /\ RoomsOf(call.session, call.request) = {}
           /\ InsertRoom(c, call.session, call.t)
           /\ created' = [created EXCEPT ![c] = call.request]
           /\ Answer(k, c, call.t + RoomTtl)
  <2>1. /\ TablesInv' /\ rooms'[c] \in RoomRow /\ rooms'[c].owner = call.session
        /\ \A d \in Codes \ {c} : rooms'[d] = rooms[d]
    BY <1>2, <1>3, <1>5, InsertStores
  <2>2. NoRoom \notin RoomRow /\ requests' = requests /\ now' = now
    BY <1>5, StoreAssumption DEF InsertRoom
  <2>3. RowsPersist
    BY <1>5, <2>1, <2>2 DEF RowsPersist
  <2>4. /\ created'[c] = call.request /\ \A d \in Codes \ {c} : created'[d] = created[d]
        /\ created' \in [Codes -> RequestIds \cup {NoId}]
    BY <1>2, <1>3, <1>5
  <2>5. RoomsUnique'
    <3>1. ASSUME NEW d \in Codes \ {c}, rooms'[d] # NoRoom, rooms'[d].owner = call.session,
                 created'[d] = call.request
          PROVE  FALSE
      BY <1>5, <2>1, <2>4, <3>1 DEF RoomsOf
    <3>2. ASSUME NEW d \in Codes \ {c}, NEW e \in Codes \ {c},
                 rooms'[d] # NoRoom, rooms'[e] # NoRoom,
                 rooms'[d].owner = rooms'[e].owner, created'[d] = created'[e]
          PROVE  d = e
      BY <2>1, <2>4, <3>2 DEF ApiInv, RoomsUnique
    <3> QED
      BY <2>1, <2>4, <3>1, <3>2 DEF RoomsUnique
  <2>6. InvitesSound'
    BY <1>2, <1>5, <2>1 DEF ApiInv, InvitesSound
  <2>7. calls' = [calls EXCEPT ![k] = NoCall]
    BY <1>5 DEF Answer, End
  <2>8. \A j \in Calls : calls[j].op = "join" =>
          requests'[calls[j].request].room \in {NoCode, calls[j].code}
    BY <1>2, <2>2 DEF CallOK
  <2>9. CallOK(NoCall, rooms', requests') /\ NoCall.op # "join"
    BY NoCallOK
  <2>10. CallsSound'
    BY <2>3, <2>7, <2>8, <2>9, CallsPersist
  <2>11. \A a \in answers' \ answers : AnswerOK(a, rooms', requests', created', invites')
    BY <1>1, <1>3, <1>5, <2>1, <2>2, <2>4 DEF Answer, AnswerOK
  <2> QED
    BY <1>2, <1>5, <2>1, <2>2, <2>3, <2>4, <2>5, <2>6, <2>10, <2>11, WriteKeeps
<1> QED
  BY <1>1, <1>4, <1>5 DEF Insert

(* insert_invite_capability: an invite is written once, with an expiry     *)
(* that is ahead and no later than the room's.                             *)
LEMMA StoreInviteKeeps ==
    ASSUME ApiInv, NEW k \in Calls, StoreInvite(k)
    PROVE  ApiInv'
<1>1. PICK call : call = calls[k]
  OBVIOUS
<1> DEFINE c == call.code
           q == call.request
           e == InviteDeadline(call)
<1>2. /\ CallOK(call, rooms, requests) /\ call.step = "store" /\ calls \in [Calls -> Call]
      /\ invites \in [Codes -> [RequestIds -> Nat]]
      /\ UNCHANGED <<vars, created>> /\ TablesInv
  BY <1>1 DEF StoreInvite, ApiInv, CallsSound, InvitesSound
<1>3. /\ call \in Call /\ call.op = "invite" /\ c \in Codes /\ q \in RequestIds
      /\ rooms[c] # NoRoom /\ call.t < rooms[c].expires_at
  BY <1>2 DEF CallOK
<1>4. CASE Goto(k, "reread") /\ UNCHANGED <<invites, answers>>
  <2> DEFINE x == [call EXCEPT !.step = "reread"]
  <2>1. calls' = [calls EXCEPT ![k] = x]
    BY <1>1, <1>2, <1>4 DEF Goto
  <2>2. /\ x \in Call /\ x.op = call.op /\ x.request = call.request /\ x.code = call.code
        /\ x.session = call.session /\ x.step = "reread"
    BY <1>3 DEF Call, Steps
  <2> HIDE DEF x
  <2>3. CallOK(x, rooms, requests)
    BY <1>2, <1>3, <2>2 DEF CallOK
  <2> QED
    BY <1>1, <1>2, <1>4, <2>1, <2>2, <2>3, MoveKeeps
<1>5. CASE /\ invites[c][q] = 0
           /\ invites' = [invites EXCEPT ![c][q] = e]
           /\ Answer(k, c, e)
  <2>1. e \in Nat /\ e # 0 /\ e <= rooms[c].expires_at
    <3>1. rooms[c] \in RoomRow
      BY <1>2, <1>3 DEF TablesInv, TableTypes
    <3>2. call.t \in Nat /\ InviteTtl \in Nat \ {0} /\ rooms[c].expires_at \in Nat
      BY <1>3, <3>1, ApiAssumption, StoreAssumption DEF Call, RoomRow
    <3> QED
      BY <1>3, <3>2 DEF InviteDeadline
  <2> HIDE DEF e, c, q
  <2>2. /\ invites' \in [Codes -> [RequestIds -> Nat]]
        /\ invites'[c][q] = e
        /\ \A d \in Codes, p \in RequestIds : d # c \/ p # q => invites'[d][p] = invites[d][p]
    BY <1>2, <1>3, <1>5, <2>1
  <2>3. UNCHANGED tables /\ UNCHANGED <<rooms, requests, now, created>>
    BY <1>2 DEF vars, tables
  <2>4. TablesInv' /\ RowsPersist
    BY <1>2, <2>3, TablesStay
  <2>5. InvitesSound'
    <3> SUFFICES ASSUME NEW d \in Codes, NEW p \in RequestIds, invites'[d][p] # 0
                 PROVE  rooms[d] # NoRoom /\ invites'[d][p] <= rooms[d].expires_at
      BY <2>2, <2>3 DEF InvitesSound
    <3>1. CASE d = c /\ p = q
      BY <1>3, <2>1, <2>2, <3>1
    <3>2. CASE d # c \/ p # q
      BY <2>2, <3>2 DEF ApiInv, InvitesSound
    <3> QED
      BY <3>1, <3>2
  <2>6. RoomsUnique'
    BY <2>3 DEF ApiInv, RoomsUnique
  <2>7. calls' = [calls EXCEPT ![k] = NoCall]
    BY <1>5 DEF Answer, End
  <2>8. \A j \in Calls : calls[j].op = "join" =>
          requests'[calls[j].request].room \in {NoCode, calls[j].code}
    BY <2>3 DEF ApiInv, CallsSound, CallOK
  <2>9. CallOK(NoCall, rooms', requests') /\ NoCall.op # "join"
    BY NoCallOK
  <2>10. CallsSound'
    BY <2>4, <2>7, <2>8, <2>9, CallsPersist
  <2>11. \A a \in answers' \ answers : AnswerOK(a, rooms', requests', created', invites')
    BY <1>1, <1>3, <1>5, <2>1, <2>2 DEF Answer, AnswerOK, c, q
  <2>12. \A d \in Codes, p \in RequestIds :
           invites[d][p] # 0 => invites'[d][p] = invites[d][p]
    BY <1>5, <2>2
  <2> QED
    BY <2>3, <2>4, <2>5, <2>6, <2>10, <2>11, <2>12, WriteKeeps
<1> QED
  BY <1>1, <1>4, <1>5 DEF StoreInvite
(* A transaction on a room, seen from the calls and answers.               *)
LEMMA TransactionApi ==
    ASSUME ApiInv, NEW c \in Codes, NEW t \in 0..MaxTime, NEW result,
           NEW made \in SUBSET RequestIds, Change(c, result.room, t, made), Apply(c, result, t),
           UNCHANGED <<created, invites>>
    PROVE  /\ RowsPersist
           /\ \A q \in RequestIds \ made : requests'[q].room = requests[q].room
           /\ CallsSound' /\ (\A a \in answers' \ answers :
                                AnswerOK(a, rooms', requests', created', invites'))
              => ApiInv'
<1>1. TablesInv
  BY DEF ApiInv
<1>2. /\ TablesInv'
      /\ \A d \in Codes : (rooms'[d] = NoRoom) <=> (rooms[d] = NoRoom)
  BY <1>1, ApplyKeeps
<1>3. /\ RowsPersist
      /\ \A q \in RequestIds \ made : requests'[q].room = requests[q].room
  BY <1>1, ApplyPersists
<1>4. now' = now
  BY DEF Apply
<1>5. RoomsUnique'
  BY <1>2, <1>3 DEF ApiInv, RoomsUnique, RowsPersist
<1>6. InvitesSound'
  BY <1>2, <1>3 DEF ApiInv, InvitesSound, RowsPersist
<1> QED
  BY <1>2, <1>3, <1>4, <1>5, <1>6, WriteKeeps

(* request_join's transaction: the request it leaves is the one it         *)
(* answers with, whether it was made now or before.                        *)
LEMMA ApplyJoinKeeps ==
    ASSUME ApiInv, NEW k \in Calls, ApplyJoin(k)
    PROVE  ApiInv'
<1>1. PICK call : call = calls[k]
  OBVIOUS
<1>2. /\ CallOK(call, rooms, requests) /\ call.step = "apply" /\ calls \in [Calls -> Call]
      /\ UNCHANGED <<created, invites>> /\ TablesInv /\ now \in 0..MaxClock
  BY <1>1 DEF ApplyJoin, ApiInv, CallsSound
<1>3. /\ call \in Call /\ call.op = "join" /\ call.code \in Codes
      /\ call.request \in RequestIds /\ call.session \in Sessions
      /\ rooms[call.code] # NoRoom
      /\ requests[call.request].room \in {NoCode, call.code}
  BY <1>2 DEF CallOK
<1>4. PICK c \in Codes, q \in RequestIds, s \in Sessions, t \in 0..MaxTime, e \in Nat :
        /\ c = call.code /\ q = call.request /\ s = call.session /\ t = call.t
        /\ e = JoinDeadline(call.code, call.t)
  <2>1. call.t \in 0..MaxTime /\ JoinTtl \in Nat /\ MaxTime \in Nat
    BY <1>3, StoreAssumption DEF Call
  <2>2. rooms[call.code].expires_at \in Nat
    BY <1>2, <1>3, <2>1 DEF TablesInv, TableTypes, RoomRow
  <2>3. JoinDeadline(call.code, call.t) \in Nat
    BY <2>1, <2>2 DEF JoinDeadline
  <2> QED
    BY <1>3, <2>1, <2>3
<1> DEFINE result == RequestJoin(LoadRoom(c), q, s, t, e)
           a == [op |-> "join", session |-> s, request |-> q, code |-> c,
                 expires_at |-> result.room.join_requests[q].expires_at]
<1>5. \/ /\ Apply(c, result, t)
         /\ Answer(k, c, result.room.join_requests[q].expires_at)
      \/ /\ result.outcome = "unchanged"
         /\ Answer(k, c, result.room.join_requests[q].expires_at)
         /\ UNCHANGED vars
      \/ End(k) /\ UNCHANGED <<vars, answers>>
  BY <1>1, <1>4 DEF ApplyJoin
<1>6. CASE End(k) /\ UNCHANGED <<vars, answers>>
  BY <1>2, <1>6, EndKeeps
<1>7. CASE /\ result.outcome = "unchanged"
           /\ Answer(k, c, result.room.join_requests[q].expires_at)
           /\ UNCHANGED vars
  <2>1. /\ result.room = LoadRoom(c) /\ LoadRoom(c).join_requests[q] # NoRequest
        /\ LoadRoom(c).join_requests[q].session = s
    <3>1. "unchanged" # "error" /\ "unchanged" # "changed"
      OBVIOUS
    <3> QED
      BY <1>7, <3>1 DEF RequestJoin, Unchanged, Failed, Commit
  <2>2. LoadRoom(c).join_requests[q] =
          IF requests[q].room = c THEN requests[q].request ELSE NoRequest
    BY <1>3, <1>4, Loaded
  <2>3. AnswerOK(a, rooms, requests, created, invites)
    BY <2>1, <2>2 DEF AnswerOK
  <2> QED
    BY <1>1, <1>2, <1>3, <1>4, <1>7, <2>3, AnswerKeeps
<1>8. CASE /\ Apply(c, result, t)
           /\ Answer(k, c, result.room.join_requests[q].expires_at)
  <2>1. Change(c, result.room, t, {q})
    BY <1>2, <1>3, <1>4, <1>8, JoinChanges
  <2>2. result.room.join_requests[q].session = s /\ result.room.join_requests[q] # NoRequest
    <3> DEFINE j == [session |-> s, expires_at |-> e, state |-> "pending"]
    <3>1. result.outcome = "changed" /\ LoadRoom(c) \in RoomRecord
      BY <1>2, <1>3, <1>4, <1>8 DEF Apply, Commits, TablesInv, RoomsAreSound, RoomInv
    <3>2. result = Commit([LoadRoom(c) EXCEPT !.join_requests[q] = j])
      BY <3>1 DEF RequestJoin, Unchanged, Failed
    <3>3. Commit([LoadRoom(c) EXCEPT !.join_requests[q] = j]).room.join_requests[q] = j
      BY <3>1 DEF Commit, Failed, RoomRecord
    <3> QED
      BY <3>2, <3>3 DEF NoRequest
  <2> HIDE DEF result
  <2>3. /\ requests'[q].room = c /\ requests'[q].request = result.room.join_requests[q]
    <3>1. {q} \in SUBSET RequestIds /\ TablesInv /\ Apply(c, result, t)
      BY <1>2, <1>8
    <3>2. \A p \in RequestIds : result.room.join_requests[p] # NoRequest =>
            requests'[p].room = c /\ requests'[p].request = result.room.join_requests[p]
      BY <2>1, <3>1, RequestRowsAfter
    <3> QED
      BY <2>2, <3>2
  <2>4. /\ RowsPersist
        /\ \A p \in RequestIds \ {q} : requests'[p].room = requests[p].room
        /\ CallsSound' /\ (\A b \in answers' \ answers :
                             AnswerOK(b, rooms', requests', created', invites'))
             => ApiInv'
    BY <1>2, <1>8, <2>1, TransactionApi
  <2>5. ASSUME NEW j \in Calls, calls[j].op = "join"
        PROVE  requests'[calls[j].request].room \in {NoCode, calls[j].code}
    <3>1. /\ calls[j].request \in RequestIds
          /\ requests[calls[j].request].room \in {NoCode, calls[j].code}
          /\ calls[j].request = q => calls[j].code = c
      BY <1>1, <1>3, <1>4, <2>5 DEF ApiInv, CallsSound, CallOK
    <3> QED
      BY <2>3, <2>4, <3>1
  <2>6. calls' = [calls EXCEPT ![k] = NoCall] /\ answers' \ answers \subseteq {a}
    BY <1>1, <1>3, <1>4, <1>8 DEF Answer, End
  <2>7. CallOK(NoCall, rooms', requests') /\ NoCall.op # "join"
    BY NoCallOK
  <2>8. CallsSound'
    BY <2>4, <2>5, <2>6, <2>7, CallsPersist
  <2>9. AnswerOK(a, rooms', requests', created', invites')
    BY <2>2, <2>3 DEF AnswerOK
  <2> QED
    BY <2>4, <2>6, <2>8, <2>9
<1> QED
  BY <1>5, <1>6, <1>7, <1>8

(* Decisions, departures and maintenance make no request and touch no      *)
(* call.                                                                   *)
LEMMA MeanwhileKeeps ==
    ASSUME ApiInv, Meanwhile
    PROVE  ApiInv'
<1>1. PICK t \in 0..MaxTime : t = now
  BY StoreAssumption DEF ApiInv
<1>2. UNCHANGED <<created, invites, calls, answers>> /\ TablesInv
  BY DEF Meanwhile, ApiInv
<1>2a. PICK c \in Codes :
        \E result :
          /\ Apply(c, result, t)
          /\ \/ \E s \in Sessions, q \in RequestIds, d \in {"approve", "reject"} :
                  result = DecideJoin(LoadRoom(c), s, q, d, t)
             \/ \E q \in RequestIds : result = ExpireJoinRequest(LoadRoom(c), q, t)
             \/ \E s \in Sessions : result = Leave(LoadRoom(c), s)
             \/ result = Expire(LoadRoom(c), t)
  BY <1>1 DEF Meanwhile
<1>3. PICK result :
        /\ Apply(c, result, t)
        /\ \/ \E s \in Sessions, q \in RequestIds, d \in {"approve", "reject"} :
                result = DecideJoin(LoadRoom(c), s, q, d, t)
           \/ \E q \in RequestIds : result = ExpireJoinRequest(LoadRoom(c), q, t)
           \/ \E s \in Sessions : result = Leave(LoadRoom(c), s)
           \/ result = Expire(LoadRoom(c), t)
  BY <1>2a
<1>4. Change(c, result.room, t, {})
  BY <1>2, <1>3, CommandChanges
<1>5. {} \in SUBSET RequestIds
  OBVIOUS
<1>6. /\ RowsPersist
      /\ \A p \in RequestIds \ {} : requests'[p].room = requests[p].room
      /\ CallsSound' /\ (\A b \in answers' \ answers :
                           AnswerOK(b, rooms', requests', created', invites'))
           => ApiInv'
  BY <1>2, <1>3, <1>4, <1>5, TransactionApi, Zenon
<1>7. CallsSound'
  <2>1. ASSUME NEW j \in Calls
        PROVE  CallOK(calls[j], rooms', requests')
    <3>1. CallOK(calls[j], rooms, requests)
      BY DEF ApiInv, CallsSound
    <3>2. calls[j].step \in {"expiry", "store", "reread", "apply"} => calls[j].code \in Codes
      BY <3>1 DEF CallOK
    <3> QED
      BY <1>6, <3>1, <3>2 DEF CallOK, RowsPersist
  <2> QED
    BY <1>2, <2>1 DEF ApiInv, CallsSound
<1> QED
  BY <1>2, <1>6, <1>7

----------------------------------------------------------------------------
(* The specification.                                                      *)

(* Every step keeps the invariant.                                         *)
LEMMA ApiStepKeeps ==
    ASSUME ApiInv, [ApiNext]_allVars
    PROVE  ApiInv'
<1>1. now \in 0..MaxClock /\ MaxClock \in Nat
  BY StoreAssumption DEF ApiInv
<1>2. CASE UNCHANGED allVars
  BY <1>1, <1>2, QuietKeeps DEF allVars, apiVars, vars, tables
<1>3. CASE ApiTick
  BY <1>1, <1>3, QuietKeeps DEF ApiTick, apiVars, Tick
<1>4. ASSUME NEW a \in Addresses, NEW t \in Clock,
             \/ \E s \in Sessions : CreateSession(s, a, t) \/ RestoreSession(s, a, t)
             \/ RefuseSession(a, t)
      PROVE  ApiInv'
  BY <1>1, <1>4, QuietKeeps DEF CreateSession, RestoreSession, RefuseSession, vars, tables
<1>5. ASSUME NEW s \in Sessions, ExpireSession(s)
      PROVE  ApiInv'
  BY <1>1, <1>5, QuietKeeps DEF ExpireSession, vars, tables
<1>6. ASSUME NEW k \in Calls, Proceed(k)
      PROVE  ApiInv'
  BY <1>6, ServeKeeps, FindRoomKeeps, InsertKeeps, LoadForInviteKeeps, FindInviteKeeps,
     StoreInviteKeeps, LoadForJoinKeeps, ApplyJoinKeeps DEF Proceed
<1> QED
  BY <1>2, <1>3, <1>4, <1>5, <1>6, MeanwhileKeeps, ArriveKeeps DEF ApiNext

(* The inductive invariant holds in every reachable state.                 *)
THEOREM ApiInvariance == ApiSpec => []ApiInv
<1>1. ApiInit => ApiInv
  <2> SUFFICES ASSUME ApiInit PROVE ApiInv
    OBVIOUS
  <2>1. Init /\ calls = [k \in Calls |-> NoCall] /\ answers = {}
    BY DEF ApiInit
  <2>2. NoMember \in MemberRow /\ NoRequestRow \in RequestRow /\ 0 \in 0..MaxClock
    BY StoreAssumption
    DEF NoMember, MemberRow, NoMembership, Membership, MembershipRole, MembershipState,
        NoRequestRow, RequestRow, NoRequest, JoinRequest, JoinRequestState
  <2>3. TablesInv /\ now \in 0..MaxClock
    BY <2>1, <2>2
    DEF Init, TablesInv, TableTypes, RoomsAreSound, RowsHaveRooms, NoRequestRow
  <2>4. CallsSound
    <3>1. CallOK(NoCall, rooms, requests) /\ NoCall.op = "none" /\ NoCall \in Call
      BY NoCallOK DEF CallOK
    <3> QED
      BY <2>1, <3>1 DEF CallsSound
  <2>5. RoomsUnique /\ InvitesSound /\ AnswersSound
    BY DEF ApiInit, Init, RoomsUnique, InvitesSound, AnswersSound
  <2> QED
    BY <2>3, <2>4, <2>5 DEF ApiInv
<1>2. ApiInv /\ [ApiNext]_allVars => ApiInv'
  BY ApiStepKeeps
<1> QED
  BY <1>1, <1>2, PTL DEF ApiSpec

(* create_room answers every repetition of a request with the one room it  *)
(* created for the caller.                                                 *)
THEOREM OneRoom == ApiSpec => []OneRoomPerRequest
<1>1. ApiInv => OneRoomPerRequest
  BY DEF ApiInv, RoomsUnique, AnswersSound, AnswerOK, OneRoomPerRequest
<1> QED
  BY <1>1, ApiInvariance, PTL

(* The expiry create_invite announced is the stored one, and the room      *)
(* outlives it.                                                            *)
THEOREM Invites == ApiSpec => []InvitesHold
<1>1. ApiInv => InvitesHold
  BY DEF ApiInv, InvitesSound, AnswersSound, AnswerOK, InvitesHold
<1> QED
  BY <1>1, ApiInvariance, PTL

(* The deadline request_join answered with stays the request's.            *)
THEOREM JoinAnswers == ApiSpec => []JoinAnswersHold
<1>1. ApiInv => JoinAnswersHold
  BY DEF ApiInv, AnswersSound, AnswerOK, JoinAnswersHold
<1> QED
  BY <1>1, ApiInvariance, PTL

----------------------------------------------------------------------------
(***************************************************************************)
(* The rate limiter.  A window that is forgotten, or replaced, was over;   *)
(* so of the calls granted, all but those of the window that is open lie   *)
(* before it opened, and all but MaxRequests more of them a whole window   *)
(* before.                                                                 *)
(***************************************************************************)

(* What the grants g of a key and its window w tell of each other, when    *)
(* the last check was given the time last.                                 *)
KeyInRate(w, g, last) ==
    /\ \A i \in 1..Len(g) : g[i] <= last
    /\ \A i \in 1..Len(g) :
         i + MaxRequests + MaxRequests <= Len(g) =>
           g[i] + WindowLength <= g[i + MaxRequests + MaxRequests]
    /\ w = L!NoWindow =>
         \A i \in 1..Len(g) : i + MaxRequests <= Len(g) => g[i] + WindowLength <= last
    /\ w # L!NoWindow =>
         /\ WindowLength <= w.resets_at /\ w.resets_at <= last + WindowLength
         /\ w.count <= Len(g)
         /\ \A i \in 1..Len(g) :
              /\ g[i] < w.resets_at
              /\ i + w.count <= Len(g) => g[i] + WindowLength <= w.resets_at
              /\ i + w.count + MaxRequests <= Len(g) =>
                   g[i] + WindowLength + WindowLength <= w.resets_at

RateInv ==
    latest # MaxTime =>
        /\ latest \in 0..MaxClock
        /\ limiter \in [LimiterKeys -> L!Window]
        /\ granted \in [LimiterKeys -> Seq(0..MaxClock)]
        /\ \A key \in LimiterKeys : KeyInRate(limiter[key], granted[key], latest)

(* What becomes c.entries of the windows e when a call of a key is checked *)
(* at time t.  The key's window is the old one, which is still open, or a  *)
(* new one in place of one that is over.  Another key's window stays or,   *)
(* when it is over, is forgotten.                                          *)
Checked(c, e, key, t) ==
    /\ c.entries \in [LimiterKeys -> L!Window]
    /\ \A k \in LimiterKeys :
         \/ c.entries[k] = e[k]
         \/ c.entries[k] = L!NoWindow /\ e[k].resets_at <= t
         \/ k = key /\ c.admitted
    /\ c.admitted =>
         \/ /\ t < e[key].resets_at /\ e[key].count < MaxRequests
            /\ c.entries[key] = [count |-> e[key].count + 1, resets_at |-> e[key].resets_at]
         \/ /\ t >= e[key].resets_at
            /\ c.entries[key] = [count |-> 1, resets_at |-> t + WindowLength]

(* RateLimiter::check does just that.                                      *)
LEMMA CheckedWindows ==
    ASSUME NEW e \in [LimiterKeys -> L!Window], NEW key \in LimiterKeys, NEW t \in Nat
    PROVE  Checked(L!Check(e, key, t), e, key, t)
<1> DEFINE crowded(f) == f[key] = L!NoWindow /\ L!Cardinality(L!Tracked(f)) >= MaxTrackedKeys
           kept == IF crowded(e) THEN L!Retained(e, t) ELSE e
           window == IF t >= kept[key].resets_at THEN L!NewWindow(t) ELSE kept[key]
           admits == ~crowded(kept) /\ window.count < MaxRequests
           entries == IF crowded(kept) THEN kept
                      ELSE [kept EXCEPT ![key] =
                              IF admits THEN [window EXCEPT !.count = @ + 1] ELSE window]
           c == L!Check(e, key, t)
<1>1. c = [admitted |-> admits, entries |-> entries]
  BY DEF L!Check
<1>2. MaxRequests \in Nat \ {0} /\ WindowLength \in Nat \ {0}
  BY ApiAssumption
<1>3. /\ L!NoWindow \in L!Window /\ L!NoWindow.resets_at = 0 /\ L!NoWindow.count = 0
      /\ L!NewWindow(t) = [count |-> 0, resets_at |-> t + WindowLength]
      /\ L!NewWindow(t) \in L!Window
  BY <1>2 DEF L!NoWindow, L!Window, L!NewWindow
<1>4. L!Retained(e, t) = [k \in LimiterKeys |-> IF e[k].resets_at > t THEN e[k] ELSE L!NoWindow]
  BY DEF L!Retained
<1>5. /\ kept \in [LimiterKeys -> L!Window]
      /\ \A k \in LimiterKeys : kept[k] = e[k] \/ (kept[k] = L!NoWindow /\ e[k].resets_at <= t)
  <2>1. \A k \in LimiterKeys : e[k].resets_at \in Nat
    BY DEF L!Window
  <2> QED
    BY <1>3, <1>4, <2>1
<1>6. kept[key] = e[key]
  BY <1>3, <1>4
<1>7. e[key].resets_at \in Nat /\ e[key].count \in 0..MaxRequests
      /\ e[key] = [count |-> e[key].count, resets_at |-> e[key].resets_at]
  BY DEF L!Window
<1> HIDE DEF kept
<1>8. CASE crowded(kept)
  <2> HIDE DEF crowded
  <2>1. entries = kept /\ ~admits
    BY <1>8
  <2> HIDE DEF entries, admits, window
  <2>2. c.entries = kept /\ ~c.admitted
    BY <1>1, <2>1
  <2> QED
    BY <1>5, <2>2 DEF Checked
<1>9. CASE ~crowded(kept)
  <2> HIDE DEF crowded
  <2>1. CASE t >= e[key].resets_at
    <3>1. window = [count |-> 0, resets_at |-> t + WindowLength]
      BY <2>1, <1>3, <1>6
    <3>2. admits
      BY <1>2, <1>9, <3>1
    <3>3. entries = [kept EXCEPT ![key] = [count |-> 1, resets_at |-> t + WindowLength]]
      <4>1. [window EXCEPT !.count = @ + 1] = [count |-> 1, resets_at |-> t + WindowLength]
        BY <3>1
      <4>2. entries = [kept EXCEPT ![key] = [window EXCEPT !.count = @ + 1]]
        BY <1>9, <3>2
      <4> QED
        BY <4>1, <4>2
    <3>4. [count |-> 1, resets_at |-> t + WindowLength] \in L!Window
      BY <1>2 DEF L!Window
    <3> HIDE DEF entries, admits, window
    <3> QED
      BY <1>1, <1>5, <2>1, <3>2, <3>3, <3>4 DEF Checked
  <2>2. CASE t < e[key].resets_at /\ e[key].count < MaxRequests
    <3>1. window = e[key]
      BY <2>2, <1>6, <1>7
    <3>2. admits
      BY <1>9, <2>2, <3>1
    <3>3. entries = [kept EXCEPT ![key] = [count |-> e[key].count + 1,
                                           resets_at |-> e[key].resets_at]]
      <4>1. [window EXCEPT !.count = @ + 1] =
              [count |-> e[key].count + 1, resets_at |-> e[key].resets_at]
        BY <1>7, <3>1
      <4>2. entries = [kept EXCEPT ![key] = [window EXCEPT !.count = @ + 1]]
        BY <1>9, <3>2
      <4> QED
        BY <4>1, <4>2
    <3>4. [count |-> e[key].count + 1, resets_at |-> e[key].resets_at] \in L!Window
      BY <1>2, <1>7, <2>2 DEF L!Window
    <3> HIDE DEF entries, admits, window
    <3> QED
      BY <1>1, <1>5, <2>2, <3>2, <3>3, <3>4 DEF Checked
  <2>3. CASE t < e[key].resets_at /\ ~(e[key].count < MaxRequests)
    <3>1. window = e[key]
      BY <2>3, <1>6, <1>7
    <3>2. ~admits
      BY <2>3, <3>1
    <3>3. entries = kept
      BY <1>5, <1>6, <1>9, <3>1, <3>2
    <3> HIDE DEF entries, admits, window
    <3> QED
      BY <1>1, <1>5, <3>2, <3>3 DEF Checked
  <2> QED
    BY <1>7, <2>1, <2>2, <2>3
<1> QED
  BY <1>8, <1>9

(* A key whose window is kept, or forgotten when it was over, stays within *)
(* its rate while others are granted calls.                                *)
LEMMA RateKept ==
    ASSUME NEW w \in L!Window, NEW v \in L!Window, NEW g \in Seq(0..MaxClock),
           NEW last \in 0..MaxClock, NEW t \in 0..MaxClock, last <= t,
           KeyInRate(w, g, last),
           v = w \/ (v = L!NoWindow /\ w.resets_at <= t)
    PROVE  KeyInRate(v, g, t)
<1>1. MaxRequests \in Nat \ {0} /\ WindowLength \in Nat \ {0} /\ MaxClock \in Nat
  BY ApiAssumption, StoreAssumption
<1>2. Len(g) \in Nat /\ \A i \in 1..Len(g) : g[i] \in 0..MaxClock
  BY <1>1
<1>3. w.resets_at \in Nat /\ w.count \in 0..MaxRequests
  BY DEF L!Window
<1>4. CASE v = w
  BY <1>1, <1>2, <1>3, <1>4 DEF KeyInRate
<1>5. CASE v # w
  <2>1. v = L!NoWindow /\ w # L!NoWindow /\ w.resets_at <= t
    BY <1>5
  <2>2. ASSUME NEW i \in 1..Len(g), i + MaxRequests <= Len(g)
        PROVE  g[i] + WindowLength <= t
    <3>1. i + w.count <= Len(g)
      BY <1>1, <1>2, <1>3, <2>2
    <3>2. g[i] + WindowLength <= w.resets_at
      BY <2>1, <3>1 DEF KeyInRate
    <3> QED
      BY <1>1, <1>2, <1>3, <2>1, <3>2
  <2>3. \A i \in 1..Len(g) : g[i] <= last /\ g[i] <= t
    BY <1>2 DEF KeyInRate
  <2> QED
    BY <2>1, <2>2, <2>3 DEF KeyInRate
<1> QED
  BY <1>4, <1>5

(* What is known of the calls granted before when a key is granted one     *)
(* more: its window then is v.                                             *)
LEMMA WindowsApart ==
    ASSUME NEW w \in L!Window, NEW v, NEW g \in Seq(0..MaxClock),
           NEW last \in 0..MaxClock, NEW t \in 0..MaxClock, last <= t,
           KeyInRate(w, g, last),
           \/ /\ t < w.resets_at /\ w.count < MaxRequests
              /\ v = [count |-> w.count + 1, resets_at |-> w.resets_at]
           \/ t >= w.resets_at /\ v = [count |-> 1, resets_at |-> t + WindowLength]
    PROVE  /\ v # L!NoWindow /\ v.resets_at \in Nat /\ v.count \in 1..MaxRequests
           /\ t < v.resets_at /\ v.resets_at <= t + WindowLength
           /\ WindowLength <= v.resets_at /\ v.count <= Len(g) + 1
           /\ \A i \in 1..Len(g) :
                /\ g[i] < v.resets_at
                /\ i + v.count <= Len(g) + 1 => g[i] + WindowLength <= v.resets_at
                /\ i + v.count + MaxRequests <= Len(g) + 1 =>
                     g[i] + WindowLength + WindowLength <= v.resets_at
<1>1. MaxRequests \in Nat \ {0} /\ WindowLength \in Nat \ {0} /\ MaxClock \in Nat
  BY ApiAssumption, StoreAssumption
<1>2. Len(g) \in Nat /\ \A i \in 1..Len(g) : g[i] \in 0..MaxClock /\ g[i] <= last
  BY <1>1 DEF KeyInRate
<1>3. w.resets_at \in Nat /\ w.count \in 0..MaxRequests
  BY DEF L!Window
<1>4. CASE t < w.resets_at
  <2>1. w # L!NoWindow
    BY <1>4, <1>1 DEF L!NoWindow
  <2>2. v = [count |-> w.count + 1, resets_at |-> w.resets_at] /\ w.count < MaxRequests
    BY <1>1, <1>3, <1>4
  <2>3. v.count = w.count + 1 /\ v.resets_at = w.resets_at /\ w.resets_at \in Nat
    BY <1>3, <2>2
  <2>4. v # L!NoWindow /\ v.count \in 1..MaxRequests
    BY <1>1, <1>3, <1>4, <2>2, <2>3 DEF L!NoWindow
  <2>5. /\ WindowLength <= w.resets_at /\ w.resets_at <= last + WindowLength
        /\ w.count <= Len(g)
    BY <2>1 DEF KeyInRate
  <2>6. ASSUME NEW i \in 1..Len(g)
        PROVE  /\ g[i] < v.resets_at
               /\ i + v.count <= Len(g) + 1 => g[i] + WindowLength <= v.resets_at
               /\ i + v.count + MaxRequests <= Len(g) + 1 =>
                    g[i] + WindowLength + WindowLength <= v.resets_at
    <3>1. /\ g[i] < w.resets_at
          /\ i + w.count <= Len(g) => g[i] + WindowLength <= w.resets_at
          /\ i + w.count + MaxRequests <= Len(g) =>
               g[i] + WindowLength + WindowLength <= w.resets_at
      BY <2>1 DEF KeyInRate
    <3>2. i + v.count <= Len(g) + 1 => i + w.count <= Len(g)
      BY <1>2, <1>3, <2>3
    <3>3. i + v.count + MaxRequests <= Len(g) + 1 => i + w.count + MaxRequests <= Len(g)
      <4>1. i + v.count + MaxRequests = (i + w.count + MaxRequests) + 1
        BY <1>1, <1>3, <2>3
      <4>2. i + w.count + MaxRequests \in Nat
        BY <1>1, <1>3
      <4> QED
        BY <1>2, <4>1, <4>2
    <3> QED
      BY <2>3, <3>1, <3>2, <3>3
  <2>7. v.resets_at <= t + WindowLength /\ v.count <= Len(g) + 1 /\ t < v.resets_at
    BY <1>1, <1>2, <1>3, <1>4, <2>3, <2>5
  <2> QED
    BY <2>3, <2>4, <2>5, <2>6, <2>7
<1>5. CASE t >= w.resets_at
  <2>1. v = [count |-> 1, resets_at |-> t + WindowLength]
    BY <1>1, <1>3, <1>5
  <2>2. v.count = 1 /\ v.resets_at = t + WindowLength /\ v # L!NoWindow
    BY <1>1, <2>1 DEF L!NoWindow
  <2>3. ASSUME NEW i \in 1..Len(g), i + MaxRequests <= Len(g)
        PROVE  g[i] + WindowLength <= t
    <3>1. CASE w = L!NoWindow
      <4>1. g[i] + WindowLength <= last
        BY <2>3, <3>1 DEF KeyInRate
      <4> QED
        BY <1>1, <1>2, <4>1
    <3>2. CASE w # L!NoWindow
      <4>1. i + w.count <= Len(g)
        BY <1>1, <1>2, <1>3, <2>3
      <4>2. g[i] + WindowLength <= w.resets_at
        BY <3>2, <4>1 DEF KeyInRate
      <4> QED
        BY <1>1, <1>2, <1>3, <1>5, <4>2
    <3> QED
      BY <3>1, <3>2
  <2>4. ASSUME NEW i \in 1..Len(g)
        PROVE  /\ g[i] < v.resets_at
               /\ i + v.count <= Len(g) + 1 => g[i] + WindowLength <= v.resets_at
               /\ i + v.count + MaxRequests <= Len(g) + 1 =>
                    g[i] + WindowLength + WindowLength <= v.resets_at
    <3>1. g[i] \in Nat /\ g[i] <= t
      BY <1>1, <1>2
    <3>2. i + v.count + MaxRequests <= Len(g) + 1 => i + MaxRequests <= Len(g)
      BY <1>1, <1>2, <2>2
    <3>3. i + MaxRequests <= Len(g) => g[i] + WindowLength <= t
      BY <2>3
    <3> QED
      BY <1>1, <1>2, <2>2, <3>1, <3>2, <3>3
  <2>5. /\ v.resets_at \in Nat /\ v.count \in 1..MaxRequests
        /\ t < v.resets_at /\ v.resets_at <= t + WindowLength
        /\ WindowLength <= v.resets_at /\ v.count <= Len(g) + 1
    BY <1>1, <1>2, <2>2
  <2> QED
    BY <2>2, <2>4, <2>5
<1> QED
  BY <1>1, <1>3, <1>4, <1>5

(* A key that is granted one more call stays within its rate.              *)
LEMMA RateGranted ==
    ASSUME NEW w \in L!Window, NEW v, NEW g \in Seq(0..MaxClock),
           NEW last \in 0..MaxClock, NEW t \in 0..MaxClock, last <= t,
           KeyInRate(w, g, last),
           \/ /\ t < w.resets_at /\ w.count < MaxRequests
              /\ v = [count |-> w.count + 1, resets_at |-> w.resets_at]
           \/ t >= w.resets_at /\ v = [count |-> 1, resets_at |-> t + WindowLength]
    PROVE  KeyInRate(v, Append(g, t), t)
<1>1. MaxRequests \in Nat \ {0} /\ WindowLength \in Nat \ {0} /\ MaxClock \in Nat
  BY ApiAssumption, StoreAssumption
<1> DEFINE h == Append(g, t)
           n == Len(g)
<1>2. /\ n \in Nat /\ Len(h) = n + 1 /\ h[n + 1] = t
      /\ \A i \in 1..n : g[i] \in 0..MaxClock /\ h[i] = g[i] /\ g[i] <= last
  BY <1>1 DEF KeyInRate
<1>3. /\ v # L!NoWindow /\ v.resets_at \in Nat /\ v.count \in 1..MaxRequests
      /\ t < v.resets_at /\ v.resets_at <= t + WindowLength
      /\ WindowLength <= v.resets_at /\ v.count <= n + 1
      /\ \A i \in 1..n :
           /\ g[i] < v.resets_at
           /\ i + v.count <= n + 1 => g[i] + WindowLength <= v.resets_at
           /\ i + v.count + MaxRequests <= n + 1 =>
                g[i] + WindowLength + WindowLength <= v.resets_at
  BY WindowsApart
<1>4. \A i \in 1..n : i + MaxRequests + MaxRequests <= n =>
        g[i] + WindowLength <= g[i + MaxRequests + MaxRequests]
  BY DEF KeyInRate
<1> HIDE DEF h, n
<1>5. ASSUME NEW i \in 1..(n + 1)
      PROVE  /\ h[i] <= t /\ h[i] < v.resets_at
             /\ i + v.count <= n + 1 => h[i] + WindowLength <= v.resets_at
             /\ i + v.count + MaxRequests <= n + 1 =>
                  h[i] + WindowLength + WindowLength <= v.resets_at
  <2>1. CASE i = n + 1
    BY <1>1, <1>2, <1>3, <2>1
  <2>2. CASE i \in 1..n
    <3>1. h[i] = g[i] /\ g[i] <= t
      BY <1>1, <1>2, <2>2
    <3> QED
      BY <1>3, <2>2, <3>1
  <2> QED
    BY <1>2, <2>1, <2>2
<1>6. ASSUME NEW i \in 1..(n + 1), i + MaxRequests + MaxRequests <= n + 1
      PROVE  h[i] + WindowLength <= h[i + MaxRequests + MaxRequests]
  <2> DEFINE j == i + MaxRequests + MaxRequests
  <2>1. i \in 1..n /\ j \in 1..(n + 1)
    BY <1>1, <1>2, <1>6
  <2>2. CASE j = n + 1
    <3>1. i + v.count + MaxRequests <= n + 1
      BY <1>1, <1>2, <1>3, <2>2
    <3>2. g[i] + WindowLength + WindowLength <= v.resets_at
      BY <1>3, <2>1, <3>1
    <3>3. g[i] \in Nat /\ h[i] = g[i] /\ h[j] = t
      BY <1>1, <1>2, <2>1, <2>2
    <3> QED
      BY <1>1, <1>3, <3>2, <3>3
  <2>3. CASE j # n + 1
    <3>1. j \in 1..n /\ j <= n
      BY <1>2, <2>1, <2>3
    <3>2. h[i] = g[i] /\ h[j] = g[j]
      BY <1>2, <2>1, <3>1
    <3> QED
      BY <1>4, <2>1, <3>1, <3>2
  <2> QED
    BY <2>2, <2>3
<1>7. \A i \in 1..Len(h) : h[i] <= t
  BY <1>2, <1>5
<1>8. \A i \in 1..Len(h) : i + MaxRequests + MaxRequests <= Len(h) =>
        h[i] + WindowLength <= h[i + MaxRequests + MaxRequests]
  BY <1>2, <1>6
<1>9. \A i \in 1..Len(h) :
        /\ h[i] < v.resets_at
        /\ i + v.count <= Len(h) => h[i] + WindowLength <= v.resets_at
        /\ i + v.count + MaxRequests <= Len(h) =>
             h[i] + WindowLength + WindowLength <= v.resets_at
  BY <1>2, <1>5
<1> QED
  BY <1>2, <1>3, <1>7, <1>8, <1>9 DEF KeyInRate, h

(* A check keeps every key within its rate.                                *)
LEMMA LimitKeepsRate ==
    ASSUME RateInv, NEW key \in LimiterKeys, NEW t \in 0..MaxClock, NEW grant,
           Limit(key, t, grant)
    PROVE  RateInv'
<1>1. MaxClock \in Nat /\ MaxTime \in Nat /\ MaxClock < MaxTime
  BY StoreAssumption
<1>2. latest' = IF t < latest THEN MaxTime ELSE t
  BY DEF Limit
<1>3. CASE latest = MaxTime \/ t < latest
  BY <1>1, <1>2, <1>3 DEF RateInv
<1>4. CASE latest # MaxTime /\ ~(t < latest)
  <2> DEFINE c == L!Check(limiter, key, t)
  <2>1. /\ latest \in 0..MaxClock /\ limiter \in [LimiterKeys -> L!Window]
        /\ granted \in [LimiterKeys -> Seq(0..MaxClock)]
        /\ \A k \in LimiterKeys : KeyInRate(limiter[k], granted[k], latest)
    BY <1>4 DEF RateInv
  <2>2. latest <= t /\ latest' = t /\ t \in Nat
    BY <1>1, <1>2, <1>4, <2>1
  <2>3. /\ limiter' = c.entries /\ grant = c.admitted
        /\ granted' = IF grant THEN [granted EXCEPT ![key] = Append(@, t)] ELSE granted
    BY <2>1, <2>2 DEF Limit
  <2>4. Checked(c, limiter, key, t)
    BY <2>1, <2>2, CheckedWindows
  <2> HIDE DEF c
  <2>5. granted' \in [LimiterKeys -> Seq(0..MaxClock)]
    <3>1. Append(granted[key], t) \in Seq(0..MaxClock)
      BY <2>1
    <3> QED
      BY <2>1, <2>3, <3>1
  <2>6. ASSUME NEW k \in LimiterKeys
        PROVE  KeyInRate(limiter'[k], granted'[k], t)
    <3>1. CASE k = key /\ grant
      <4>1. granted'[k] = Append(granted[key], t) /\ limiter'[k] = c.entries[key]
        BY <2>1, <2>3, <3>1
      <4>2. limiter[key] \in L!Window /\ granted[key] \in Seq(0..MaxClock)
        BY <2>1
      <4>3. KeyInRate(c.entries[key], Append(granted[key], t), t)
        BY <2>1, <2>2, <2>3, <2>4, <3>1, <4>2, RateGranted DEF Checked
      <4> QED
        BY <4>1, <4>3
    <3>2. CASE ~(k = key /\ grant)
      <4>1. granted'[k] = granted[k] /\ limiter'[k] = c.entries[k]
        BY <2>1, <2>3, <3>2
      <4>2. /\ limiter[k] \in L!Window /\ granted[k] \in Seq(0..MaxClock)
            /\ c.entries[k] \in L!Window
        BY <2>1, <2>4 DEF Checked
      <4>3. \/ c.entries[k] = limiter[k]
            \/ c.entries[k] = L!NoWindow /\ limiter[k].resets_at <= t
        BY <2>3, <2>4, <3>2 DEF Checked
      <4>4. KeyInRate(limiter[k], granted[k], latest)
        BY <2>1
      <4>5. KeyInRate(c.entries[k], granted[k], t)
        BY <2>1, <2>2, <4>2, <4>3, <4>4, RateKept
      <4> QED
        BY <4>1, <4>5
    <3> QED
      BY <3>1, <3>2
  <2> QED
    BY <2>2, <2>3, <2>4, <2>5, <2>6 DEF RateInv, Checked
<1> QED
  BY <1>3, <1>4

(* No other step touches the limiter.                                      *)
LEMMA RateStep ==
    ASSUME ApiInv, RateInv, [ApiNext]_allVars
    PROVE  RateInv'
<1> DEFINE Quiet == UNCHANGED <<limiter, granted, latest>>
<1>1. Quiet => RateInv'
  BY DEF RateInv
<1>2. now \in 0..MaxClock /\ MaxClock \in Nat
  BY StoreAssumption DEF ApiInv
<1>3. ASSUME NEW a \in Addresses, NEW t \in Clock, NEW grant,
             Limit(<<"session", a>>, t, grant)
      PROVE  RateInv'
  <2>1. <<"session", a>> \in LimiterKeys
    BY DEF LimiterKeys
  <2>2. t \in 0..MaxClock
    BY <1>2 DEF Clock
  <2> QED
    BY <1>3, <2>1, <2>2, LimitKeepsRate
<1>4. ASSUME NEW k \in Calls, Serve(k)
      PROVE  RateInv'
  <2>1. CallOK(calls[k], rooms, requests) /\ calls[k].step = "limit"
    BY <1>4 DEF Serve, ApiInv, CallsSound
  <2>2. /\ calls[k].op \in {"create", "join"} /\ calls[k].session \in Sessions
        /\ calls[k].op = "join" => calls[k].code \in Codes
    BY <2>1 DEF CallOK
  <2>3. calls[k].t \in 0..MaxClock
    BY <2>1 DEF CallOK, Call
  <2>4. LimiterKey(calls[k]) \in LimiterKeys
    BY <2>2 DEF LimiterKey, LimiterKeys
  <2>5. PICK grant : Limit(LimiterKey(calls[k]), calls[k].t, grant)
    BY <1>4 DEF Serve
  <2> QED
    BY <2>3, <2>4, <2>5, LimitKeepsRate
<1>5. CASE UNCHANGED allVars
  BY <1>1, <1>5 DEF allVars, apiVars
<1>6. CASE ApiTick
  BY <1>1, <1>6 DEF ApiTick, apiVars
<1>7. CASE Meanwhile
  BY <1>1, <1>7 DEF Meanwhile
<1>8. ASSUME NEW a \in Addresses, NEW t \in Clock,
             \/ \E s \in Sessions : CreateSession(s, a, t) \/ RestoreSession(s, a, t)
             \/ RefuseSession(a, t)
      PROVE  RateInv'
  BY <1>3, <1>8 DEF CreateSession, RestoreSession, RefuseSession
<1>9. ASSUME NEW s \in Sessions, ExpireSession(s)
      PROVE  RateInv'
  BY <1>1, <1>9 DEF ExpireSession
<1>10. ASSUME NEW k \in Calls, NEW s \in Sessions, NEW q \in RequestIds,
              \/ PostRoom(k, s, q)
              \/ \E c \in Codes : PostInvite(k, s, c, q)
              \/ \E c \in Codes, invite \in RequestIds \cup {NoId} :
                   PostJoin(k, s, c, q, invite)
       PROVE  RateInv'
  BY <1>1, <1>10 DEF PostRoom, PostInvite, PostJoin, Arrive
<1>11. ASSUME NEW k \in Calls, Proceed(k)
       PROVE  RateInv'
  <2>1. CASE Serve(k)
    BY <1>4, <2>1
  <2>2. CASE FindRoom(k)
    BY <1>1, <2>2 DEF FindRoom
  <2>3. CASE \E c \in Codes : Insert(k, c)
    BY <1>1, <2>3 DEF Insert
  <2>4. CASE LoadForInvite(k) \/ FindInvite(k) \/ StoreInvite(k)
    <3>1. ASSUME LoadForInvite(k) PROVE Quiet
      BY <3>1 DEF LoadForInvite
    <3>2. ASSUME FindInvite(k) PROVE Quiet
      BY <3>2 DEF FindInvite
    <3>3. ASSUME StoreInvite(k) PROVE Quiet
      BY <3>3 DEF StoreInvite
    <3> QED
      BY <1>1, <2>4, <3>1, <3>2, <3>3
  <2>5. CASE LoadForJoin(k) \/ ApplyJoin(k)
    BY <1>1, <2>5 DEF LoadForJoin, ApplyJoin
  <2> QED
    BY <1>11, <2>1, <2>2, <2>3, <2>4, <2>5 DEF Proceed
<1> QED
  BY <1>5, <1>6, <1>7, <1>8, <1>9, <1>10, <1>11 DEF ApiNext

(* WithinRate for every policy, every size of the limiter's table and any  *)
(* number of clients: the limiter (RateLimiter::check) hands out at most   *)
(* two allowances within a window's length.                                *)
THEOREM Rate == ApiSpec => []WithinRate
<1>1. ApiInit => RateInv
  <2> SUFFICES ASSUME ApiInit PROVE RateInv
    OBVIOUS
  <2>1. /\ latest = 0 /\ limiter = [key \in LimiterKeys |-> L!NoWindow]
        /\ granted = [key \in LimiterKeys |-> <<>>]
    BY DEF ApiInit
  <2>2. 0 \in 0..MaxClock /\ MaxRequests \in Nat
    BY StoreAssumption, ApiAssumption
  <2>3. L!NoWindow \in L!Window
    BY <2>2 DEF L!NoWindow, L!Window
  <2>4. <<>> \in Seq(0..MaxClock) /\ KeyInRate(L!NoWindow, <<>>, 0)
    BY DEF KeyInRate
  <2> QED
    BY <2>1, <2>2, <2>3, <2>4 DEF RateInv
<1>2. ApiInv /\ RateInv /\ [ApiNext]_allVars => RateInv'
  BY RateStep
<1>3. RateInv => WithinRate
  <2> SUFFICES ASSUME RateInv, latest # MaxTime, NEW key \in LimiterKeys,
                      NEW i \in DOMAIN granted[key], NEW j \in DOMAIN granted[key],
                      j = i + 2 * MaxRequests
               PROVE  granted[key][i] + WindowLength <= granted[key][j]
    BY DEF WithinRate
  <2>1. granted[key] \in Seq(0..MaxClock) /\ KeyInRate(limiter[key], granted[key], latest)
    BY DEF RateInv
  <2>2. i \in 1..Len(granted[key]) /\ j \in 1..Len(granted[key])
    BY <2>1
  <2>3. j = i + MaxRequests + MaxRequests /\ j <= Len(granted[key])
    BY <2>1, <2>2, ApiAssumption
  <2> QED
    BY <2>1, <2>2, <2>3 DEF KeyInRate
<1> QED
  BY <1>1, <1>2, <1>3, ApiInvariance, PTL DEF ApiSpec
=============================================================================

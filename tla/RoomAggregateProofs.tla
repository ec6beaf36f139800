------------------------ MODULE RoomAggregateProofs ------------------------
(***************************************************************************)
(* What every command of the aggregate keeps, for every set of sessions,   *)
(* peers and request ids and every bound on the revision.                  *)
(*                                                                         *)
(* That Room::restore accepts a room is not kept by itself: that an        *)
(* approved request has its membership needs that the pending request      *)
(* names a session other than the owner, which needs that nobody has two   *)
(* ways in and the owner's membership; and those need that an absent entry *)
(* carries no session and no role.  RoomInv gathers them as a predicate on *)
(* a room.  Lawful relates a room to what one command may make of it.  One *)
(* lemma per command shows that it keeps the first and is the second.      *)
(***************************************************************************)
EXTENDS RoomAggregate, TLAPS

----------------------------------------------------------------------------
(* The inductive invariant, as a predicate on a room.                      *)

(* Absent map entries are the NoMembership and NoRequest values.           *)
AbsentIsNone(r) ==
    /\ \A s \in Sessions :
         /\ r.memberships[s].state = "absent" => r.memberships[s] = NoMembership
         /\ r.memberships[s].role = "none" => r.memberships[s] = NoMembership
    /\ \A q \in RequestIds :
         /\ r.join_requests[q].state = "absent" => r.join_requests[q] = NoRequest
         /\ r.join_requests[q].session = NoSession => r.join_requests[q] = NoRequest

OneWayInOf(r) ==
    \A q \in RequestIds : r.join_requests[q].state = "pending" =>
        /\ ~IsMember(r, r.join_requests[q].session)
        /\ PendingOf(r, r.join_requests[q].session) = {q}

PeerIffOnlineOf(r) ==
    \A s \in Sessions : (r.memberships[s].peer # NoPeer)
                          <=> (r.memberships[s].state = "online")

RoomInv(r) ==
    /\ r \in RoomRecord
    /\ AbsentIsNone(r)
    /\ Restorable(r)
    /\ OneWayInOf(r)
    /\ PeerIffOnlineOf(r)

(* What one command may make of a room r, its revision aside: no request   *)
(* is new but those of made, requests and memberships do not vanish,       *)
(* resolved requests stay as they are, a member comes in only by approval, *)
(* and an expired room stays expired.                                      *)
Follows(r, c, made) ==
    /\ c.owner = r.owner
    /\ c.expires_at = r.expires_at
    /\ \A q \in RequestIds \ made :
         r.join_requests[q] = NoRequest => c.join_requests[q] = NoRequest
    /\ \A q \in RequestIds : r.join_requests[q] # NoRequest =>
         /\ c.join_requests[q].state # "absent"
         /\ c.join_requests[q].session = r.join_requests[q].session
         /\ c.join_requests[q].expires_at = r.join_requests[q].expires_at
    /\ \A q \in RequestIds : r.join_requests[q].state \notin {"absent", "pending"} =>
         c.join_requests[q] = r.join_requests[q]
    /\ \A s \in Sessions : r.memberships[s] # NoMembership => c.memberships[s] # NoMembership
    /\ \A s \in Sessions : IsMember(c, s) /\ ~IsMember(r, s) =>
         /\ r.state = "active"
         /\ \E q \in PendingOf(r, s) : c.join_requests[q].state = "approved"
    /\ r.state = "expired" =>
         /\ c.state = "expired"
         /\ \A s \in Sessions :
              c.memberships[s].state = "online" => r.memberships[s].state = "online"

(* A command that is stored: the invariant holds on, and the revision has  *)
(* moved by one.                                                           *)
Lawful(r, c, made) ==
    RoomInv(c) /\ Follows(r, c, made) /\ c.revision = r.revision + 1

----------------------------------------------------------------------------
(* The operators.                                                          *)

(* Room::commit: a room that satisfies the invariant still does when only  *)
(* its revision moves, and a commit that fails is not a change.            *)
LEMMA CommitKeepsInv ==
    ASSUME NEW r, RoomInv(r), Commit(r).outcome = "changed"
    PROVE  /\ RoomInv(Commit(r).room)
           /\ Commit(r).room.revision = r.revision + 1
<1> DEFINE c == [r EXCEPT !.revision = @ + 1]
<1>1. r.revision < MaxRevision /\ Commit(r).room = c
  BY DEF Commit, Failed
<1>2. r \in RoomRecord /\ r.revision \in 1..MaxRevision /\ MaxRevision \in Nat
  BY RoomAssumption DEF RoomInv, RoomRecord
<1>3. /\ c.revision = r.revision + 1 
      /\ c.owner = r.owner /\ c.expires_at = r.expires_at /\ c.state = r.state
      /\ c.memberships = r.memberships /\ c.join_requests = r.join_requests
  BY <1>2 DEF RoomRecord
<1>4. c \in RoomRecord
  BY <1>1, <1>2, <1>3 DEF RoomRecord
<1> HIDE DEF c
<1>5. AbsentIsNone(c)
  BY <1>3 DEF RoomInv, AbsentIsNone
<1>6. Restorable(c)
  BY <1>2, <1>3 DEF RoomInv, Restorable, VerifyInvariants
<1>7. OneWayInOf(c)
  BY <1>3 DEF RoomInv, OneWayInOf, IsMember, PendingOf
<1>8. PeerIffOnlineOf(c)
  BY <1>3 DEF RoomInv, PeerIffOnlineOf
<1> QED
  BY <1>1, <1>3, <1>4, <1>5, <1>6, <1>7, <1>8 DEF RoomInv

(* Room::create builds a room that satisfies the invariant.                *)
LEMMA CreateRoomInv ==
    ASSUME NEW o \in Sessions, NEW e \in Nat
    PROVE  RoomInv(CreateRoom(o, e))
<1> DEFINE c == CreateRoom(o, e)
<1>1. /\ c.owner = o /\ c.expires_at = e /\ c.state = "active" /\ c.revision = 1
      /\ c.memberships \in [Sessions -> Membership]
      /\ \A s \in Sessions : c.memberships[s] = IF s = o THEN Offline("owner") ELSE NoMembership
      /\ c.join_requests \in [RequestIds -> JoinRequest]
      /\ \A q \in RequestIds : c.join_requests[q] = NoRequest
  BY DEF CreateRoom, Membership, MembershipRole, MembershipState, JoinRequest,
         JoinRequestState, Offline, NoMembership, NoRequest
<1>2. c \in RoomRecord
  BY <1>1, RoomAssumption DEF RoomRecord, CreateRoom
<1> HIDE DEF c
<1>3. AbsentIsNone(c)
  BY <1>1 DEF AbsentIsNone, NoRequest, NoMembership, Offline
<1>4. Restorable(c)
  BY <1>1 DEF Restorable, VerifyInvariants, NoRequest, NoMembership, Offline
<1>5. OneWayInOf(c)
  BY <1>1 DEF OneWayInOf, NoRequest
<1>6. PeerIffOnlineOf(c)
  <2> SUFFICES ASSUME NEW s \in Sessions
               PROVE  c.memberships[s].peer = NoPeer /\ c.memberships[s].state # "online"
    BY DEF PeerIffOnlineOf
  <2>1. CASE s = o
    BY <1>1, <2>1 DEF Offline
  <2>2. CASE s # o
    BY <1>1, <2>2 DEF NoMembership
  <2> QED
    BY <2>1, <2>2
<1> QED
  BY <1>2, <1>3, <1>4, <1>5, <1>6 DEF RoomInv, c

(* One membership that keeps its role may change between offline, online   *)
(* and left: attach, detach and leave.                                     *)
LEMMA SetMembership ==
    ASSUME NEW r, RoomInv(r), NEW s \in Sessions, NEW m \in Membership,
           IsMember(r, s),
           m.role = r.memberships[s].role,
           m.state # "absent",
           (m.peer # NoPeer) <=> (m.state = "online"),
           s = r.owner => m.state # "left"
    PROVE  RoomInv([r EXCEPT !.memberships[s] = m])
<1> DEFINE c == [r EXCEPT !.memberships[s] = m]
<1>1. /\ r \in RoomRecord /\ AbsentIsNone(r) /\ Restorable(r)
      /\ OneWayInOf(r) /\ PeerIffOnlineOf(r)
  BY DEF RoomInv
<1>2. /\ c.owner = r.owner /\ c.expires_at = r.expires_at /\ c.revision = r.revision
      /\ c.state = r.state /\ c.join_requests = r.join_requests
      /\ c.memberships = [r.memberships EXCEPT ![s] = m]
      /\ c.memberships \in [Sessions -> Membership]
      /\ c.memberships[s] = m
      /\ \A t \in Sessions \ {s} : c.memberships[t] = r.memberships[t]
  BY <1>1 DEF RoomRecord
<1>3. c \in RoomRecord
  BY <1>1, <1>2 DEF RoomRecord
<1>4. r.memberships[s].role # "none"
  BY <1>1 DEF AbsentIsNone, IsMember, NoMembership
<1> HIDE DEF c
<1>5. AbsentIsNone(c)
  BY <1>1, <1>2, <1>4 DEF AbsentIsNone
<1>6. \A t \in Sessions : c.memberships[t].role = r.memberships[t].role
  BY <1>2
<1>7. Restorable(c)
  <2>1. \A q \in RequestIds : c.join_requests[q].expires_at <= c.expires_at
    BY <1>1, <1>2 DEF Restorable
  <2>2. c.revision # 0 /\ c.memberships[c.owner].role = "owner"
    BY <1>1, <1>2, <1>6 DEF Restorable, VerifyInvariants, RoomRecord
  <2>3. c.memberships[c.owner].state # "left"
    BY <1>1, <1>2 DEF Restorable, VerifyInvariants, RoomRecord
  <2>4. ASSUME NEW t \in Sessions \ {c.owner}, c.memberships[t] # NoMembership
        PROVE  c.memberships[t].role = "receiver"
    <3>1. r.memberships[t] # NoMembership
      BY <1>2, <1>4, <2>4 DEF NoMembership
    <3> QED
      BY <1>1, <1>2, <1>6, <3>1 DEF Restorable, VerifyInvariants
  <2>5. ASSUME NEW q \in RequestIds, c.join_requests[q].state = "approved"
        PROVE  c.memberships[c.join_requests[q].session].role = "receiver"
    <3>1. r.join_requests[q].session \in Sessions
      BY <1>1, <1>2, <2>5 DEF AbsentIsNone, NoRequest, RoomRecord, JoinRequest
    <3> QED
      BY <1>1, <1>2, <1>6, <2>5, <3>1 DEF Restorable, VerifyInvariants
  <2> QED
    BY <2>1, <2>2, <2>3, <2>4, <2>5 DEF Restorable, VerifyInvariants
<1>8. OneWayInOf(c)
  <2> SUFFICES ASSUME NEW q \in RequestIds, c.join_requests[q].state = "pending"
               PROVE  /\ ~IsMember(c, c.join_requests[q].session)
                      /\ PendingOf(c, c.join_requests[q].session) = {q}
    BY DEF OneWayInOf
  <2> DEFINE u == r.join_requests[q].session
  <2>1. /\ ~IsMember(r, u) /\ PendingOf(r, u) = {q} /\ u = c.join_requests[q].session
    BY <1>1, <1>2 DEF OneWayInOf
  <2>2. u \in Sessions
    BY <1>1, <1>2 DEF AbsentIsNone, NoRequest, RoomRecord, JoinRequest
  <2>3. PendingOf(c, u) = {q}
    BY <1>2, <2>1 DEF PendingOf
  <2>4. u # s
    BY <2>1
  <2>5. ~IsMember(c, u)
    BY <1>2, <2>1, <2>2, <2>4 DEF IsMember
  <2> QED
    BY <2>1, <2>3, <2>5
<1>9. PeerIffOnlineOf(c)
  BY <1>1, <1>2 DEF PeerIffOnlineOf
<1> QED
  BY <1>3, <1>5, <1>7, <1>8, <1>9 DEF RoomInv, c

(* One request may be added or resolved other than by an approval:         *)
(* request_join, a rejection, expire_join_request and a withdrawal.        *)
LEMMA SetRequest ==
    ASSUME NEW r, RoomInv(r), NEW q \in RequestIds, NEW j \in JoinRequest,
           j.session \in Sessions,
           j.state \in {"pending", "rejected", "cancelled", "expired"},
           j.expires_at <= r.expires_at,
           j.state = "pending" => /\ ~IsMember(r, j.session)
                                  /\ PendingOf(r, j.session) = {}
    PROVE  RoomInv([r EXCEPT !.join_requests[q] = j])
<1> DEFINE c == [r EXCEPT !.join_requests[q] = j]
<1>1. /\ r \in RoomRecord /\ AbsentIsNone(r) /\ Restorable(r)
      /\ OneWayInOf(r) /\ PeerIffOnlineOf(r)
  BY DEF RoomInv
<1>2. /\ c.owner = r.owner /\ c.expires_at = r.expires_at /\ c.revision = r.revision
      /\ c.state = r.state /\ c.memberships = r.memberships
      /\ c.join_requests = [r.join_requests EXCEPT ![q] = j]
      /\ c.join_requests \in [RequestIds -> JoinRequest]
      /\ c.join_requests[q] = j
      /\ \A x \in RequestIds \ {q} : c.join_requests[x] = r.join_requests[x]
  BY <1>1 DEF RoomRecord
<1>3. c \in RoomRecord
  BY <1>1, <1>2 DEF RoomRecord
<1> HIDE DEF c
<1>4. AbsentIsNone(c)
  BY <1>1, <1>2, RoomAssumption DEF AbsentIsNone
<1>5. Restorable(c)
  BY <1>1, <1>2 DEF Restorable, VerifyInvariants
<1>6. OneWayInOf(c)
  <2> SUFFICES ASSUME NEW x \in RequestIds, c.join_requests[x].state = "pending"
               PROVE  /\ ~IsMember(c, c.join_requests[x].session)
                      /\ PendingOf(c, c.join_requests[x].session) = {x}
    BY DEF OneWayInOf
  <2>1. CASE x = q
    <3>1. ~IsMember(c, j.session)
      BY <1>2, <2>1 DEF IsMember
    <3>2. PendingOf(c, j.session) = {q}
      BY <1>2, <2>1 DEF PendingOf
    <3> QED
      BY <1>2, <2>1, <3>1, <3>2
  <2>2. CASE x # q
    <3> DEFINE u == r.join_requests[x].session
    <3>1. /\ r.join_requests[x].state = "pending" /\ c.join_requests[x].session = u
      BY <1>2, <2>2
    <3>2. ~IsMember(r, u) /\ PendingOf(r, u) = {x}
      BY <1>1, <3>1 DEF OneWayInOf
    <3>3. ~IsMember(c, u)
      BY <1>2, <3>2 DEF IsMember
    <3>4. ~(j.session = u /\ j.state = "pending")
      BY <3>2
    <3>5. PendingOf(c, u) = {x}
      BY <1>2, <2>2, <3>1, <3>2, <3>4 DEF PendingOf
    <3> QED
      BY <3>1, <3>3, <3>5
  <2> QED
    BY <2>1, <2>2
<1>7. PeerIffOnlineOf(c)
  BY <1>1, <1>2 DEF PeerIffOnlineOf
<1> QED
  BY <1>3, <1>4, <1>5, <1>6, <1>7 DEF RoomInv, c

(* decide_join's approval: the request and the membership change together. *)
LEMMA AdmitKeepsInv ==
    ASSUME NEW r, RoomInv(r), NEW q \in RequestIds,
           r.join_requests[q].state = "pending"
    PROVE  RoomInv([r EXCEPT !.join_requests[q].state = "approved",
                             !.memberships[r.join_requests[q].session] = Offline("receiver")])
<1> DEFINE s == r.join_requests[q].session
           c == [r EXCEPT !.join_requests[q].state = "approved",
                          !.memberships[s] = Offline("receiver")]
<1>1. /\ r \in RoomRecord /\ AbsentIsNone(r) /\ Restorable(r)
      /\ OneWayInOf(r) /\ PeerIffOnlineOf(r)
  BY DEF RoomInv
<1>2. s \in Sessions /\ ~IsMember(r, s) /\ PendingOf(r, s) = {q}
  BY <1>1 DEF AbsentIsNone, NoRequest, RoomRecord, JoinRequest, OneWayInOf
<1>3. s # r.owner
  BY <1>1, <1>2 DEF IsMember, Restorable, VerifyInvariants, RoomRecord, Membership,
                    MembershipState, AbsentIsNone, NoMembership
<1>4. /\ c.owner = r.owner /\ c.expires_at = r.expires_at /\ c.revision = r.revision
      /\ c.state = r.state
      /\ c.join_requests = [r.join_requests EXCEPT ![q].state = "approved"]
      /\ c.memberships = [r.memberships EXCEPT ![s] = Offline("receiver")]
  BY <1>1 DEF RoomRecord
<1>5. Offline("receiver") \in Membership
  BY DEF Offline, Membership, MembershipRole, MembershipState
<1>6. /\ c.memberships \in [Sessions -> Membership]
      /\ c.memberships[s] = Offline("receiver")
      /\ \A t \in Sessions \ {s} : c.memberships[t] = r.memberships[t]
  BY <1>1, <1>2, <1>4, <1>5 DEF RoomRecord
<1>7. /\ c.join_requests \in [RequestIds -> JoinRequest]
      /\ c.join_requests[q].state = "approved" /\ c.join_requests[q].session = s
      /\ c.join_requests[q].expires_at = r.join_requests[q].expires_at
      /\ \A x \in RequestIds \ {q} : c.join_requests[x] = r.join_requests[x]
  <2>1. r.join_requests[q] \in JoinRequest /\ r.join_requests \in [RequestIds -> JoinRequest]
    BY <1>1 DEF RoomRecord
  <2>2. [r.join_requests[q] EXCEPT !.state = "approved"] \in JoinRequest
    BY <2>1 DEF JoinRequest, JoinRequestState
  <2> QED
    BY <1>4, <2>1, <2>2 DEF JoinRequest
<1>8. c \in RoomRecord
  BY <1>1, <1>4, <1>6, <1>7 DEF RoomRecord
<1> HIDE DEF c, s
<1>9. AbsentIsNone(c)
  <2>1. ASSUME NEW t \in Sessions
        PROVE  /\ c.memberships[t].state = "absent" => c.memberships[t] = NoMembership
               /\ c.memberships[t].role = "none" => c.memberships[t] = NoMembership
    BY <1>1, <1>6 DEF AbsentIsNone, Offline
  <2>2. ASSUME NEW x \in RequestIds
        PROVE  /\ c.join_requests[x].state = "absent" => c.join_requests[x] = NoRequest
               /\ c.join_requests[x].session = NoSession => c.join_requests[x] = NoRequest
    BY <1>1, <1>2, <1>7, RoomAssumption DEF AbsentIsNone
  <2> QED
    BY <2>1, <2>2 DEF AbsentIsNone
<1>10. Restorable(c)
  <2>1. \A x \in RequestIds : c.join_requests[x].expires_at <= c.expires_at
    BY <1>1, <1>4, <1>7 DEF Restorable
  <2>2. /\ c.revision # 0 /\ c.memberships[c.owner].role = "owner"
        /\ c.memberships[c.owner].state # "left"
    BY <1>1, <1>3, <1>4, <1>6 DEF Restorable, VerifyInvariants, RoomRecord
  <2>3. \A t \in Sessions \ {c.owner} :
           c.memberships[t] # NoMembership => c.memberships[t].role = "receiver"
    BY <1>1, <1>4, <1>6 DEF Restorable, VerifyInvariants, Offline
  <2>4. ASSUME NEW x \in RequestIds, c.join_requests[x].state = "approved"
        PROVE  c.memberships[c.join_requests[x].session].role = "receiver"
    <3>1. CASE x = q
      BY <1>6, <1>7, <3>1 DEF Offline
    <3>2. CASE x # q
      <4>1. /\ r.join_requests[x].session \in Sessions
            /\ c.join_requests[x] = r.join_requests[x]
            /\ r.memberships[r.join_requests[x].session].role = "receiver"
        BY <1>1, <1>7, <2>4, <3>2 DEF AbsentIsNone, NoRequest, RoomRecord, JoinRequest,
                                      Restorable, VerifyInvariants
      <4> QED
        BY <1>6, <4>1 DEF Offline
    <3> QED
      BY <3>1, <3>2
  <2> QED
    BY <2>1, <2>2, <2>3, <2>4 DEF Restorable, VerifyInvariants
<1>11. OneWayInOf(c)
  <2> SUFFICES ASSUME NEW x \in RequestIds, c.join_requests[x].state = "pending"
               PROVE  /\ ~IsMember(c, c.join_requests[x].session)
                      /\ PendingOf(c, c.join_requests[x].session) = {x}
    BY DEF OneWayInOf
  <2> DEFINE u == r.join_requests[x].session
  <2>1. x # q /\ r.join_requests[x].state = "pending" /\ c.join_requests[x].session = u
    BY <1>7
  <2>2. u \in Sessions /\ ~IsMember(r, u) /\ PendingOf(r, u) = {x}
    <3>1. u \in Sessions
      BY <1>1, <2>1 DEF AbsentIsNone, NoRequest, RoomRecord, JoinRequest
    <3>2. ~IsMember(r, u) /\ PendingOf(r, u) = {x}
      BY <1>1, <2>1 DEF OneWayInOf
    <3> QED
      BY <3>1, <3>2
  <2>3. u # s
    BY <1>2, <2>1, <2>2
  <2>4. ~IsMember(c, u)
    BY <1>6, <2>2, <2>3 DEF IsMember
  <2>5. PendingOf(c, u) = {x}
    BY <1>7, <2>1, <2>2, <2>3 DEF PendingOf
  <2> QED
    BY <2>1, <2>4, <2>5
<1>12. PeerIffOnlineOf(c)
  <2>1. Offline("receiver").peer = NoPeer /\ Offline("receiver").state # "online"
    BY DEF Offline
  <2> QED
    BY <1>1, <1>6, <2>1 DEF PeerIffOnlineOf
<1> QED
  BY <1>8, <1>9, <1>10, <1>11, <1>12 DEF RoomInv, c, s

(* The owner's leave closes the room and touches nothing else.             *)
LEMMA CloseKeepsInv ==
    ASSUME NEW r, RoomInv(r)
    PROVE  RoomInv([r EXCEPT !.state = "expired"])
<1> DEFINE c == [r EXCEPT !.state = "expired"]
<1>1. /\ r \in RoomRecord /\ AbsentIsNone(r) /\ Restorable(r)
      /\ OneWayInOf(r) /\ PeerIffOnlineOf(r)
  BY DEF RoomInv
<1>2. /\ c.owner = r.owner /\ c.expires_at = r.expires_at /\ c.revision = r.revision
      /\ c.memberships = r.memberships /\ c.join_requests = r.join_requests
      /\ c \in RoomRecord
  BY <1>1 DEF RoomRecord
<1> HIDE DEF c
<1> QED
  BY <1>1, <1>2 DEF RoomInv, AbsentIsNone, Restorable, VerifyInvariants, OneWayInOf,
                    PeerIffOnlineOf, IsMember, PendingOf, c

(* Room::expire resolves every pending request together with the room.     *)
LEMMA ExpireRequestsKeepsInv ==
    ASSUME NEW r, RoomInv(r)
    PROVE  RoomInv([r EXCEPT
             !.state = "expired",
             !.join_requests = [q \in RequestIds |->
               IF @[q].state = "pending" THEN [@[q] EXCEPT !.state = "expired"] ELSE @[q]]])
<1> DEFINE J == [q \in RequestIds |->
                   IF r.join_requests[q].state = "pending"
                   THEN [r.join_requests[q] EXCEPT !.state = "expired"]
                   ELSE r.join_requests[q]]
           c == [r EXCEPT !.state = "expired", !.join_requests = J]
<1>1. /\ r \in RoomRecord /\ AbsentIsNone(r) /\ Restorable(r)
      /\ OneWayInOf(r) /\ PeerIffOnlineOf(r)
  BY DEF RoomInv
<1>2. ASSUME NEW q \in RequestIds
      PROVE  /\ J[q] \in JoinRequest
             /\ J[q].session = r.join_requests[q].session
             /\ J[q].expires_at = r.join_requests[q].expires_at
             /\ J[q].state # "pending"
             /\ r.join_requests[q].state # "pending" => J[q] = r.join_requests[q]
             /\ r.join_requests[q].state = "pending" => J[q].state = "expired"
  BY <1>1 DEF RoomRecord, JoinRequest, JoinRequestState
<1>3. J \in [RequestIds -> JoinRequest]
  BY <1>2
<1>4. /\ c.owner = r.owner /\ c.expires_at = r.expires_at /\ c.revision = r.revision
      /\ c.memberships = r.memberships /\ c.join_requests = J
      /\ c \in RoomRecord
  BY <1>1, <1>3 DEF RoomRecord
<1> HIDE DEF c, J
<1>5. AbsentIsNone(c)
  BY <1>1, <1>2, <1>4 DEF AbsentIsNone, NoRequest
<1>6. Restorable(c)
  BY <1>1, <1>2, <1>4 DEF Restorable, VerifyInvariants
<1>7. OneWayInOf(c)
  BY <1>2, <1>4 DEF OneWayInOf
<1>8. PeerIffOnlineOf(c)
  BY <1>1, <1>4 DEF PeerIffOnlineOf
<1> QED
  BY <1>4, <1>5, <1>6, <1>7, <1>8 DEF RoomInv, c, J

----------------------------------------------------------------------------
(* What the building blocks of the commands make of a room.                *)

(* attach, detach and a receiver's leave: one membership of a member.      *)
LEMMA SetMembershipFollows ==
    ASSUME NEW r, RoomInv(r), NEW s \in Sessions, NEW m \in Membership,
           IsMember(r, s),
           m.state # "absent",
           m.state = "online" => r.state = "active"
    PROVE  Follows(r, [r EXCEPT !.memberships[s] = m], {})
<1> DEFINE c == [r EXCEPT !.memberships[s] = m]
<1>1. r \in RoomRecord
  BY DEF RoomInv
<1>2. /\ c.owner = r.owner /\ c.expires_at = r.expires_at
      /\ c.state = r.state /\ c.join_requests = r.join_requests
      /\ c.memberships[s] = m
      /\ \A t \in Sessions \ {s} : c.memberships[t] = r.memberships[t]
  BY <1>1 DEF RoomRecord
<1>3. m # NoMembership
  BY DEF NoMembership
<1>4. \A q \in RequestIds : r.join_requests[q] # NoRequest => r.join_requests[q].state # "absent"
  BY DEF RoomInv, AbsentIsNone
<1>5. r.state = "expired" => r.state # "active"
  OBVIOUS
<1> HIDE DEF c
<1>6. \A t \in Sessions : IsMember(c, t) => IsMember(r, t)
  BY <1>2 DEF IsMember
<1> QED
  BY <1>2, <1>3, <1>4, <1>5, <1>6 DEF Follows, c

(* A request is made, rejected, expired or withdrawn.                      *)
LEMMA SetRequestFollows ==
    ASSUME NEW r, RoomInv(r), NEW q \in RequestIds, NEW j \in JoinRequest,
           j.state # "absent",
           \/ r.join_requests[q] = NoRequest
           \/ /\ r.join_requests[q].state = "pending"
              /\ j.session = r.join_requests[q].session
              /\ j.expires_at = r.join_requests[q].expires_at,
           NEW made, r.join_requests[q] = NoRequest => q \in made
    PROVE  Follows(r, [r EXCEPT !.join_requests[q] = j], made)
<1> DEFINE c == [r EXCEPT !.join_requests[q] = j]
<1>1. r \in RoomRecord
  BY DEF RoomInv
<1>2. /\ c.owner = r.owner /\ c.expires_at = r.expires_at
      /\ c.state = r.state /\ c.memberships = r.memberships
      /\ c.join_requests[q] = j
      /\ \A x \in RequestIds \ {q} : c.join_requests[x] = r.join_requests[x]
  BY <1>1 DEF RoomRecord
<1>3. \A x \in RequestIds : r.join_requests[x] # NoRequest => r.join_requests[x].state # "absent"
  BY DEF RoomInv, AbsentIsNone
<1>4. r.join_requests[q].state \in {"absent", "pending"}
  BY DEF NoRequest
<1> HIDE DEF c
<1>5. \A t \in Sessions : IsMember(c, t) => IsMember(r, t)
  BY <1>2 DEF IsMember
<1> QED
  BY <1>2, <1>3, <1>4, <1>5 DEF Follows, c

(* decide_join's approval admits the one session it is about.              *)
LEMMA AdmitFollows ==
    ASSUME NEW r, RoomInv(r), NEW q \in RequestIds,
           r.join_requests[q].state = "pending", r.state = "active"
    PROVE  Follows(r, [r EXCEPT !.join_requests[q].state = "approved",
                                !.memberships[r.join_requests[q].session] = Offline("receiver")],
                   {})
<1> DEFINE s == r.join_requests[q].session
           c == [r EXCEPT !.join_requests[q].state = "approved",
                          !.memberships[s] = Offline("receiver")]
<1>1. r \in RoomRecord /\ r.join_requests[q] \in JoinRequest
  BY DEF RoomInv, RoomRecord
<1>2. s \in Sessions /\ q \in PendingOf(r, s)
  BY <1>1 DEF RoomInv, AbsentIsNone, NoRequest, JoinRequest, PendingOf
<1>3. /\ c.owner = r.owner /\ c.expires_at = r.expires_at /\ c.state = r.state
      /\ c.memberships[s] = Offline("receiver")
      /\ \A t \in Sessions \ {s} : c.memberships[t] = r.memberships[t]
      /\ \A x \in RequestIds \ {q} : c.join_requests[x] = r.join_requests[x]
  BY <1>1, <1>2 DEF RoomRecord
<1>4. c.join_requests[q] = [r.join_requests[q] EXCEPT !.state = "approved"]
  BY <1>1 DEF RoomRecord
<1>5. /\ c.join_requests[q].state = "approved" /\ c.join_requests[q].session = s
      /\ c.join_requests[q].expires_at = r.join_requests[q].expires_at
  BY <1>1, <1>4 DEF JoinRequest
<1>6. Offline("receiver") # NoMembership
  BY DEF Offline, NoMembership
<1>7. \A x \in RequestIds : r.join_requests[x] # NoRequest => r.join_requests[x].state # "absent"
  BY DEF RoomInv, AbsentIsNone
<1>8. r.join_requests[q] # NoRequest
  BY DEF NoRequest
<1> HIDE DEF c, s
<1>9. \A t \in Sessions \ {s} : IsMember(c, t) => IsMember(r, t)
  BY <1>3 DEF IsMember
<1> QED
  BY <1>2, <1>3, <1>5, <1>6, <1>7, <1>8, <1>9 DEF Follows, c, s

(* The owner's leave.                                                      *)
LEMMA CloseFollows ==
    ASSUME NEW r, RoomInv(r)
    PROVE  Follows(r, [r EXCEPT !.state = "expired"], {})
<1> DEFINE c == [r EXCEPT !.state = "expired"]
<1>1. /\ c.owner = r.owner /\ c.expires_at = r.expires_at /\ c.state = "expired"
      /\ c.memberships = r.memberships /\ c.join_requests = r.join_requests
  BY DEF RoomInv, RoomRecord
<1>2. \A x \in RequestIds : r.join_requests[x] # NoRequest => r.join_requests[x].state # "absent"
  BY DEF RoomInv, AbsentIsNone
<1> HIDE DEF c
<1> QED
  BY <1>1, <1>2 DEF Follows, IsMember, c

(* Room::expire.                                                           *)
LEMMA ExpireRequestsFollows ==
    ASSUME NEW r, RoomInv(r)
    PROVE  Follows(r, [r EXCEPT
             !.state = "expired",
             !.join_requests = [q \in RequestIds |->
               IF @[q].state = "pending" THEN [@[q] EXCEPT !.state = "expired"] ELSE @[q]]], {})
<1> DEFINE J == [q \in RequestIds |->
                   IF r.join_requests[q].state = "pending"
                   THEN [r.join_requests[q] EXCEPT !.state = "expired"]
                   ELSE r.join_requests[q]]
           c == [r EXCEPT !.state = "expired", !.join_requests = J]
<1>1. r \in RoomRecord
  BY DEF RoomInv
<1>2. ASSUME NEW q \in RequestIds
      PROVE  /\ J[q].session = r.join_requests[q].session
             /\ J[q].expires_at = r.join_requests[q].expires_at
             /\ r.join_requests[q].state # "pending" => J[q] = r.join_requests[q]
             /\ r.join_requests[q].state = "pending" => J[q].state = "expired"
  BY <1>1 DEF RoomRecord, JoinRequest
<1>3. /\ c.owner = r.owner /\ c.expires_at = r.expires_at /\ c.state = "expired"
      /\ c.memberships = r.memberships /\ c.join_requests = J
  BY <1>1 DEF RoomRecord
<1>4. \A x \in RequestIds : r.join_requests[x] # NoRequest => r.join_requests[x].state # "absent"
  BY DEF RoomInv, AbsentIsNone
<1> HIDE DEF c, J
<1>5. ASSUME NEW q \in RequestIds
      PROVE  /\ r.join_requests[q] = NoRequest => c.join_requests[q] = NoRequest
             /\ r.join_requests[q] # NoRequest =>
                   /\ c.join_requests[q].state # "absent"
                   /\ c.join_requests[q].session = r.join_requests[q].session
                   /\ c.join_requests[q].expires_at = r.join_requests[q].expires_at
             /\ r.join_requests[q].state \notin {"absent", "pending"} =>
                   c.join_requests[q] = r.join_requests[q]
  BY <1>2, <1>3, <1>4 DEF NoRequest
<1> QED
  BY <1>3, <1>5 DEF Follows, IsMember, c, J

(* Room::commit: it only moves the revision.                               *)
LEMMA CommitLawful ==
    ASSUME NEW r, NEW c, NEW made, RoomInv(c), Follows(r, c, made), c.revision = r.revision,
           Commit(c).outcome = "changed"
    PROVE  Lawful(r, Commit(c).room, made)
<1> DEFINE k == Commit(c).room
<1>1. RoomInv(k) /\ k.revision = r.revision + 1
  BY CommitKeepsInv
<1>2. /\ k.owner = c.owner /\ k.expires_at = c.expires_at /\ k.state = c.state
      /\ k.memberships = c.memberships /\ k.join_requests = c.join_requests
  BY DEF Commit, Failed, RoomInv, RoomRecord
<1> HIDE DEF k
<1>3. Follows(r, k, made)
  BY <1>2 DEF Follows, IsMember
<1> QED
  BY <1>1, <1>3 DEF Lawful, k

----------------------------------------------------------------------------
(* The commands.  Each result that is a change is a commit of a room that  *)
(* satisfies the invariant.                                                *)

(* request_join, when it takes a request, is lawful and makes no other     *)
(* request.                                                                *)
LEMMA RequestJoinLawful ==
    ASSUME NEW r, RoomInv(r), NEW q \in RequestIds, NEW s \in Sessions,
           NEW t \in Nat, NEW e \in Nat,
           RequestJoin(r, q, s, t, e).outcome = "changed"
    PROVE  Lawful(r, RequestJoin(r, q, s, t, e).room, {q})
<1> DEFINE j == [session |-> s, expires_at |-> e, state |-> "pending"]
           c == [r EXCEPT !.join_requests[q] = j]
<1>1. /\ RequestJoin(r, q, s, t, e) = Commit(c)
      /\ e <= r.expires_at /\ ~IsMember(r, s) /\ PendingOf(r, s) = {}
      /\ r.join_requests[q] = NoRequest
  BY DEF RequestJoin, Unchanged, Failed
<1>2. j \in JoinRequest
  BY DEF JoinRequest, JoinRequestState
<1>3. RoomInv(c) /\ Follows(r, c, {q})
  BY <1>1, <1>2, SetRequest, SetRequestFollows
<1>4. c.revision = r.revision
  BY DEF RoomInv, RoomRecord
<1> QED
  BY <1>1, <1>3, <1>4, CommitLawful

(* decide_join, either way, is lawful.                                     *)
LEMMA DecideJoinLawful ==
    ASSUME NEW r, RoomInv(r), NEW a \in Sessions, NEW q \in RequestIds,
           NEW d \in {"approve", "reject"}, NEW t \in Nat,
           DecideJoin(r, a, q, d, t).outcome = "changed"
    PROVE  Lawful(r, DecideJoin(r, a, q, d, t).room, {})
<1> DEFINE x == [r EXCEPT !.join_requests[q].state = "approved",
                          !.memberships[r.join_requests[q].session] = Offline("receiver")]
           y == [r EXCEPT !.join_requests[q].state = "rejected"]
<1>1. /\ DecideJoin(r, a, q, d, t) = Commit(IF d = "approve" THEN x ELSE y)
      /\ r.join_requests[q].state = "pending"
      /\ r.state = "active"
  BY DEF DecideJoin, ActiveAt, Unchanged, Failed
<1>2. RoomInv(x) /\ Follows(r, x, {}) /\ x.revision = r.revision
  BY <1>1, AdmitKeepsInv, AdmitFollows DEF RoomInv, RoomRecord
<1>3. RoomInv(y) /\ Follows(r, y, {}) /\ y.revision = r.revision
  <2> DEFINE j == [r.join_requests[q] EXCEPT !.state = "rejected"]
  <2>1. r \in RoomRecord /\ r.join_requests[q] \in JoinRequest
    BY DEF RoomInv, RoomRecord
  <2>2. j \in JoinRequest /\ j.session \in Sessions /\ j.expires_at <= r.expires_at
    BY <1>1, <2>1 DEF RoomInv, JoinRequest, JoinRequestState, AbsentIsNone, NoRequest, Restorable
  <2>3. /\ j.state = "rejected" /\ j.session = r.join_requests[q].session
        /\ j.expires_at = r.join_requests[q].expires_at
    BY <2>1 DEF JoinRequest
  <2>4. y = [r EXCEPT !.join_requests[q] = j]
    BY <2>1 DEF RoomRecord
  <2> HIDE DEF j
  <2>5. /\ RoomInv([r EXCEPT !.join_requests[q] = j])
        /\ Follows(r, [r EXCEPT !.join_requests[q] = j], {})
    BY <1>1, <2>2, <2>3, SetRequest, SetRequestFollows DEF NoRequest
  <2> QED
    BY <2>1, <2>4, <2>5 DEF RoomRecord
<1> HIDE DEF x, y
<1> QED
  BY <1>1, <1>2, <1>3, CommitLawful

(* expire_join_request is lawful.                                          *)
LEMMA ExpireJoinRequestLawful ==
    ASSUME NEW r, RoomInv(r), NEW q \in RequestIds, NEW t \in Nat,
           ExpireJoinRequest(r, q, t).outcome = "changed"
    PROVE  Lawful(r, ExpireJoinRequest(r, q, t).room, {})
<1> DEFINE j == [r.join_requests[q] EXCEPT !.state = "expired"]
           y == [r EXCEPT !.join_requests[q].state = "expired"]
<1>1. /\ ExpireJoinRequest(r, q, t) = Commit(y)
      /\ r.join_requests[q].state = "pending"
  BY DEF ExpireJoinRequest, Unchanged, Failed
<1>2. r \in RoomRecord /\ r.join_requests[q] \in JoinRequest
  BY DEF RoomInv, RoomRecord
<1>3. j \in JoinRequest /\ j.session \in Sessions /\ j.expires_at <= r.expires_at
  BY <1>1, <1>2 DEF RoomInv, JoinRequest, JoinRequestState, AbsentIsNone, NoRequest, Restorable
<1>4. /\ j.state = "expired" /\ j.session = r.join_requests[q].session
      /\ j.expires_at = r.join_requests[q].expires_at
  BY <1>2 DEF JoinRequest
<1>5. y = [r EXCEPT !.join_requests[q] = j] /\ y.revision = r.revision
  BY <1>2 DEF RoomRecord
<1> HIDE DEF j, y
<1>6. RoomInv(y) /\ Follows(r, y, {})
  BY <1>1, <1>3, <1>4, <1>5, SetRequest, SetRequestFollows DEF NoRequest
<1> QED
  BY <1>1, <1>5, <1>6, CommitLawful

(* attach is lawful.                                                       *)
LEMMA AttachLawful ==
    ASSUME NEW r, RoomInv(r), NEW s \in Sessions, NEW p \in Peers, NEW t \in Nat,
           Attach(r, s, p, t).outcome = "changed"
    PROVE  Lawful(r, Attach(r, s, p, t).room, {})
<1> DEFINE m == [role |-> r.memberships[s].role, state |-> "online", peer |-> p]
           c == [r EXCEPT !.memberships[s] = m]
<1>1. Attach(r, s, p, t) = Commit(c) /\ IsMember(r, s) /\ r.state = "active"
  BY DEF Attach, ActiveAt, Unchanged, Failed
<1>2. m \in Membership /\ m.peer # NoPeer
  BY RoomAssumption DEF RoomInv, RoomRecord, Membership, MembershipState
<1>3. RoomInv(c) /\ Follows(r, c, {})
  BY <1>1, <1>2, SetMembership, SetMembershipFollows
<1>4. c.revision = r.revision
  BY DEF RoomInv, RoomRecord
<1> QED
  BY <1>1, <1>3, <1>4, CommitLawful

(* detach is lawful.                                                       *)
LEMMA DetachLawful ==
    ASSUME NEW r, RoomInv(r), NEW s \in Sessions, NEW p \in Peers,
           Detach(r, s, p).outcome = "changed"
    PROVE  Lawful(r, Detach(r, s, p).room, {})
<1> DEFINE m == Offline(r.memberships[s].role)
           c == [r EXCEPT !.memberships[s] = m]
<1>1. Detach(r, s, p) = Commit(c) /\ IsMember(r, s)
  BY DEF Detach, Unchanged, Failed, IsMember
<1>2. /\ m \in Membership /\ m.peer = NoPeer /\ m.state = "offline"
      /\ m.role = r.memberships[s].role
  BY DEF RoomInv, RoomRecord, Membership, MembershipState, Offline
<1> HIDE DEF m
<1>3. RoomInv(c) /\ Follows(r, c, {})
  BY <1>1, <1>2, SetMembership, SetMembershipFollows
<1>4. c.revision = r.revision
  BY DEF RoomInv, RoomRecord
<1> QED
  BY <1>1, <1>3, <1>4, CommitLawful

(* leave, in each of its three cases, is lawful.                           *)
LEMMA LeaveLawful ==
    ASSUME NEW r, RoomInv(r), NEW s \in Sessions,
           Leave(r, s).outcome = "changed"
    PROVE  Lawful(r, Leave(r, s).room, {})
<1> DEFINE m == [role |-> r.memberships[s].role, state |-> "left", peer |-> NoPeer]
           q == CHOOSE x \in PendingOf(r, s) : TRUE
           a == [r EXCEPT !.state = "expired"]
           b == [r EXCEPT !.memberships[s] = m]
           c == [r EXCEPT !.join_requests[q].state = "cancelled"]
<1>1. r \in RoomRecord
  BY DEF RoomInv
<1>2. CASE s = r.owner
  <2>1. Leave(r, s) = Commit(a)
    BY <1>2 DEF Leave, Unchanged
  <2>2. RoomInv(a) /\ Follows(r, a, {}) /\ a.revision = r.revision
    BY <1>1, CloseKeepsInv, CloseFollows DEF RoomRecord
  <2> QED
    BY <2>1, <2>2, CommitLawful
<1>3. CASE s # r.owner /\ r.memberships[s] # NoMembership
  <2>1. Leave(r, s) = Commit(b) /\ r.memberships[s].state # "left"
    BY <1>3 DEF Leave, Unchanged
  <2>2. IsMember(r, s)
    BY <1>1, <1>3, <2>1 DEF RoomInv, RoomRecord, Membership, MembershipState, AbsentIsNone, IsMember
  <2>3. m \in Membership
    BY <1>1 DEF RoomRecord, Membership, MembershipState
  <2>4. RoomInv(b) /\ Follows(r, b, {})
    BY <1>3, <2>2, <2>3, SetMembership, SetMembershipFollows
  <2>5. b.revision = r.revision
    BY <1>1 DEF RoomRecord
  <2> QED
    BY <2>1, <2>4, <2>5, CommitLawful
<1>4. CASE s # r.owner /\ r.memberships[s] = NoMembership
  <2>1. Leave(r, s) = Commit(c) /\ PendingOf(r, s) # {}
    BY <1>4 DEF Leave, Failed
  <2>2. q \in RequestIds /\ r.join_requests[q].state = "pending"
    BY <2>1 DEF PendingOf
  <2> HIDE DEF q
  <2> DEFINE j == [r.join_requests[q] EXCEPT !.state = "cancelled"]
  <2>3. r.join_requests[q] \in JoinRequest
    BY <1>1, <2>2 DEF RoomRecord
  <2>4. j \in JoinRequest /\ j.session \in Sessions /\ j.expires_at <= r.expires_at
    BY <2>2, <2>3 DEF RoomInv, JoinRequest, JoinRequestState, AbsentIsNone, NoRequest, Restorable
  <2>5. /\ j.state = "cancelled" /\ j.session = r.join_requests[q].session
        /\ j.expires_at = r.join_requests[q].expires_at
    BY <2>3 DEF JoinRequest
  <2>6. c = [r EXCEPT !.join_requests[q] = j] /\ c.revision = r.revision
    BY <1>1, <2>2 DEF RoomRecord
  <2> HIDE DEF j, c
  <2>7. RoomInv(c) /\ Follows(r, c, {})
    BY <2>2, <2>4, <2>5, <2>6, SetRequest, SetRequestFollows DEF NoRequest
  <2> QED
    BY <2>1, <2>6, <2>7, CommitLawful
<1> QED
  BY <1>2, <1>3, <1>4

(* expire is lawful.                                                       *)
LEMMA ExpireLawful ==
    ASSUME NEW r, RoomInv(r), NEW t \in Nat, Expire(r, t).outcome = "changed"
    PROVE  Lawful(r, Expire(r, t).room, {})
<1> DEFINE c == [r EXCEPT
                   !.state = "expired",
                   !.join_requests = [q \in RequestIds |->
                     IF @[q].state = "pending" THEN [@[q] EXCEPT !.state = "expired"] ELSE @[q]]]
<1>1. Expire(r, t) = Commit(c)
  BY DEF Expire, Unchanged, Failed
<1>2. RoomInv(c) /\ Follows(r, c, {})
  BY ExpireRequestsKeepsInv, ExpireRequestsFollows
<1>3. c.revision = r.revision
  BY DEF RoomInv, RoomRecord
<1> QED
  BY <1>1, <1>2, <1>3, CommitLawful
============================================================================

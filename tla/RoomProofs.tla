---------------------------- MODULE RoomProofs ----------------------------
(***************************************************************************)
(* What a room promises under every sequence of commands, for every set of *)
(* sessions, peers and request ids and every bound on revision and time:   *)
(* the lemmas of RoomAggregateProofs on single commands, lifted to Spec.   *)
(***************************************************************************)
EXTENDS Room, RoomAggregateProofs

(* The inductive invariant: a room that exists satisfies RoomInv.          *)
IInv == (room # NoRoom => RoomInv(room)) /\ now \in Times

----------------------------------------------------------------------------
(* The specification.                                                      *)

(* Every step of an existing room is a clock tick or stutter, or a lawful  *)
(* change by one of the commands.                                          *)
LEMMA StepKeepsInv ==
    ASSUME IInv, [Next]_vars
    PROVE  /\ IInv'
           /\ room # NoRoom /\ room' # room =>
                \E made \in SUBSET RequestIds : Lawful(room, room', made)
<1> USE DEF Times
<1>0. MaxTime \in Nat /\ NoRoom \notin RoomRecord
  BY TimeAssumption
<1>1. \A r : RoomInv(r) => r # NoRoom
  BY <1>0 DEF RoomInv
<1>2. CASE UNCHANGED vars
  BY <1>2 DEF vars, IInv
<1>3. CASE Tick
  BY <1>0, <1>3 DEF Tick, IInv
<1>4. ASSUME NEW s \in Sessions, NEW t \in Times, NEW e \in Times, Create(s, t, e)
      PROVE  room = NoRoom /\ RoomInv(room') /\ now' = now
  BY <1>0, <1>4, CreateRoomInv DEF Create
<1>5. ASSUME NEW q \in RequestIds, NEW s \in Sessions, NEW t \in Times, NEW e \in Times,
             HandleRequestJoin(q, s, t, e)
      PROVE  Lawful(room, room', {q}) /\ now' = now
  <2>1. RequestJoin(room, q, s, t, e).outcome = "changed" /\ RoomInv(room)
    BY <1>5 DEF HandleRequestJoin, Keep, IInv
  <2>2. t \in Nat /\ e \in Nat
    BY <1>0
  <2>3. Lawful(room, RequestJoin(room, q, s, t, e).room, {q})
    BY <2>1, <2>2, RequestJoinLawful, Zenon
  <2> QED
    BY <1>5, <2>3 DEF HandleRequestJoin, Keep
<1>6. ASSUME NEW s \in Sessions, NEW q \in RequestIds, NEW d \in {"approve", "reject"},
             NEW t \in Times, HandleDecideJoin(s, q, d, t)
      PROVE  Lawful(room, room', {}) /\ now' = now
  BY <1>0, <1>6, DecideJoinLawful DEF HandleDecideJoin, Keep, IInv
<1>7. ASSUME NEW q \in RequestIds, NEW t \in Times, HandleExpireJoinRequest(q, t)
      PROVE  Lawful(room, room', {}) /\ now' = now
  BY <1>0, <1>7, ExpireJoinRequestLawful DEF HandleExpireJoinRequest, Keep, IInv
<1>8. ASSUME NEW s \in Sessions, NEW p \in Peers, NEW t \in Times, HandleAttach(s, p, t)
      PROVE  Lawful(room, room', {}) /\ now' = now
  BY <1>0, <1>8, AttachLawful DEF HandleAttach, Keep, IInv
<1>9. ASSUME NEW s \in Sessions, NEW p \in Peers, HandleDetach(s, p)
      PROVE  Lawful(room, room', {}) /\ now' = now
  BY <1>9, DetachLawful DEF HandleDetach, Keep, IInv
<1>10. ASSUME NEW s \in Sessions, HandleLeave(s)
       PROVE  Lawful(room, room', {}) /\ now' = now
  BY <1>10, LeaveLawful DEF HandleLeave, Keep, IInv
<1>11. ASSUME NEW t \in Times, HandleExpire(t)
       PROVE  Lawful(room, room', {}) /\ now' = now
  BY <1>0, <1>11, ExpireLawful DEF HandleExpire, Keep, IInv
<1>12. ASSUME RoomInv(room'), now' = now
       PROVE  IInv'
  BY <1>12 DEF IInv
<1>13. ASSUME NEW made, Lawful(room, room', made)
       PROVE  RoomInv(room')
  BY <1>13 DEF Lawful
<1> QED
  BY <1>2, <1>3, <1>4, <1>5, <1>6, <1>7, <1>8, <1>9, <1>10, <1>11, <1>12, <1>13 DEF Next

(* The inductive invariant holds in every reachable state.                 *)
THEOREM Invariance == Spec => []IInv
<1>1. Init => IInv
  BY TimeAssumption DEF Init, IInv, Times
<1>2. IInv /\ [Next]_vars => IInv'
  BY StepKeepsInv
<1> QED
  BY <1>1, <1>2, PTL DEF Spec

(* Type correctness of the room and the clock (RoomCommand handlers build  *)
(* only well formed rooms).                                                *)
THEOREM TypeCorrect == Spec => []TypeOK
<1>1. IInv => TypeOK
  BY DEF IInv, TypeOK, RoomInv
<1> QED
  BY <1>1, Invariance, PTL

(* Whatever commands a room has taken, Room::restore accepts what storage  *)
(* kept of it.                                                             *)
THEOREM Restores == Spec => []AlwaysRestorable
<1>1. IInv => AlwaysRestorable
  BY DEF IInv, AlwaysRestorable, RoomInv
<1> QED
  BY <1>1, Invariance, PTL

(* Nobody who waits for a decision is a member or waits twice              *)
(* (request_join and decide_join).                                         *)
THEOREM SingleWayIn == Spec => []OneWayIn
<1>1. IInv => OneWayIn
  BY DEF IInv, OneWayIn, RoomInv, OneWayInOf
<1> QED
  BY <1>1, Invariance, PTL

(* What holds of every lawful change of the room holds of every step that  *)
(* changes it.                                                             *)
LEMMA ChangesFollow ==
    ASSUME IInv, [Next]_vars, room # NoRoom, room' # room
    PROVE  /\ room'.revision = room.revision + 1
           /\ \E made \in SUBSET RequestIds : Follows(room, room', made)
  BY StepKeepsInv DEF Lawful

(* Room::commit is the only way to change a room and it moves the revision *)
(* by one, so a revision names one state of the room.                      *)
THEOREM RevisionMoves == Spec => RevisionNamesState
<1>1. IInv /\ [Next]_vars => [room # NoRoom => room'.revision = room.revision + 1]_room
  BY ChangesFollow
<1> QED
  BY <1>1, Invariance, PTL DEF Spec, RevisionNamesState

(* Nobody becomes a member but by decide_join's approval of its pending    *)
(* request in an active room, whatever happened before.                    *)
THEOREM Admission == Spec => AdmittedByApproval
<1>1. IInv /\ [Next]_vars =>
        [room # NoRoom =>
           \A s \in Sessions :
             IsMember(room', s) /\ ~IsMember(room, s) =>
               /\ room.state = "active"
               /\ \E q \in PendingOf(room, s) : room'.join_requests[q].state = "approved"]_room
  BY ChangesFollow DEF Follows
<1> QED
  BY <1>1, Invariance, PTL DEF Spec, AdmittedByApproval

(* No command touches a join request that has been resolved                *)
(* (TerminalRequest).                                                      *)
THEOREM Decisions == Spec => DecisionsAreFinal
<1>1. IInv /\ [Next]_vars =>
        [room # NoRoom =>
           \A q \in RequestIds :
             room.join_requests[q].state \notin {"absent", "pending"} =>
               room'.join_requests[q] = room.join_requests[q]]_room
  BY ChangesFollow DEF Follows
<1> QED
  BY <1>1, Invariance, PTL DEF Spec, DecisionsAreFinal

(* A room that expired or that its owner closed stays so, and nobody comes *)
(* online in it (ActiveAt guards what brings members in).                  *)
THEOREM Expiry == Spec => ExpiredIsFinal
<1>1. IInv /\ [Next]_vars =>
        [room # NoRoom /\ room.state = "expired" =>
           /\ room'.state = "expired"
           /\ \A s \in Sessions :
                room'.memberships[s].state = "online" =>
                  room.memberships[s].state = "online"]_room
  BY ChangesFollow DEF Follows
<1> QED
  BY <1>1, Invariance, PTL DEF Spec, ExpiredIsFinal
============================================================================

------------------------- MODULE RealtimeHubProofs -------------------------
(***************************************************************************)
(* The hub's indexes agree with its connections, no queue exceeds its      *)
(* capacity and no attachment is lost, whatever sequence of operations the *)
(* tasks of the server perform.                                            *)
(***************************************************************************)
EXTENDS RealtimeHub, HubStateProofs

(* Only a connection id that has been generated is registered or evicted.  *)
KnownOnly ==
    \A c \in Connections : Registered(hub, c) => c \in used

IInv ==
    /\ HubOK(hub)
    /\ used \subseteq Connections
    /\ returned \subseteq Attachment
    /\ KnownOnly
    /\ EvictedAreGone

----------------------------------------------------------------------------
(* The invariant of the hub under every sequence of operations.            *)

(* An operation that keeps the hub, by whichever task, keeps the invariant.*)
LEMMA DoesKeepsInv ==
    ASSUME IInv, NEW result, Keeps(hub, result), Does(result)
    PROVE  IInv'
<1>1. hub' = result.hub /\ returned' = result.attachments /\ used' = used
  BY DEF Does
<1>2. HubOK(hub') /\ Tame(hub, hub') /\ returned' \subseteq Attachment
  BY <1>1 DEF Keeps
<1>3. KnownOnly'
  BY <1>1, <1>2 DEF IInv, KnownOnly, Tame
<1>4. EvictedAreGone'
  BY <1>1, <1>2 DEF IInv, KnownOnly, EvictedAreGone, Tame
<1> QED
  BY <1>1, <1>2, <1>3, <1>4 DEF IInv

(* Every step keeps the invariant.                                         *)
LEMMA StepKeepsInv ==
    ASSUME IInv, [Next]_vars
    PROVE  IInv'
<1>0. HubOK(hub)
  BY DEF IInv
<1>1. ASSUME NEW c \in Connections, NEW s \in Sessions, Open(c, s)
      PROVE  IInv'
  <2>1. ~Registered(hub, c) /\ hub' = Register(hub, c, s) /\ used' = used \cup {c}
        /\ returned' = {} /\ c \notin used
    BY <1>1 DEF Open, IInv, KnownOnly
  <2>2. /\ HubOK(hub') /\ hub'.evicted_attachments = hub.evicted_attachments
        /\ \A d \in Connections \ {c} : Registered(hub', d) <=> Registered(hub, d)
    BY <1>0, <2>1, RegisterKeeps
  <2>3. KnownOnly'
    BY <2>1, <2>2 DEF IInv, KnownOnly
  <2>4. EvictedAreGone'
    BY <2>1, <2>2 DEF IInv, EvictedAreGone
  <2> QED
    BY <2>1, <2>2, <2>3, <2>4 DEF IInv
<1>2. ASSUME NEW c \in Connections, NEW r \in Rooms, NEW p \in Peers, AttachRoom(c, r, p)
      PROVE  IInv'
  BY <1>0, <1>2, AttachKeeps, DoesKeepsInv DEF AttachRoom
<1>3. ASSUME NEW c \in Connections, NEW r \in Rooms, WatchJoinRequest(c, r)
      PROVE  IInv'
  BY <1>0, <1>3, WatchJoinKeeps, DoesKeepsInv DEF WatchJoinRequest
<1>4. ASSUME NEW c \in Connections, DetachRoom(c)
      PROVE  IInv'
  BY <1>0, <1>4, DetachKeeps, DoesKeepsInv DEF DetachRoom
<1>5. ASSUME NEW c \in Connections, Close(c)
      PROVE  IInv'
  BY <1>0, <1>5, UnregisterKeeps, DoesKeepsInv DEF Close
<1>6. ASSUME NEW c \in Connections, Reply(c)
      PROVE  IInv'
  <2>1. "message" \in Outbound
    BY DEF Outbound
  <2> QED
    BY <1>0, <1>6, <2>1, SendKeeps, DoesKeepsInv DEF Reply
<1>7. ASSUME NEW c \in Connections, NEW p \in Peers, RelaySignal(c, p)
      PROVE  IInv'
  BY <1>0, <1>7, SendToPeerKeeps, DoesKeepsInv DEF RelaySignal
<1>8. ASSUME NEW r \in Rooms, Announce(r)
      PROVE  IInv'
  BY <1>0, <1>8, BroadcastKeeps, DoesKeepsInv DEF Announce
<1>9. ASSUME NEW r \in Rooms, NEW s \in Sessions, RemoveMember(r, s)
      PROVE  IInv'
  BY <1>0, <1>9, DisconnectSessionKeeps, DoesKeepsInv DEF RemoveMember
<1>10. ASSUME NEW r \in Rooms, CloseRoom(r)
       PROVE  IInv'
  <2>1. Keeps(hub, DisconnectRoom(hub, r))
    BY <1>0, DisconnectRoomKeeps
  <2> QED
    BY <1>10, <2>1, DoesKeepsInv DEF CloseRoom
<1>11. ASSUME NEW c \in Connections, WriterStep(c)
       PROVE  IInv'
  <2>1. HubOK(hub') /\ Tame(hub, hub') /\ returned' = {} /\ used' = used
    BY <1>0, <1>11, WriteKeeps DEF WriterStep
  <2>2. KnownOnly'
    BY <2>1 DEF IInv, KnownOnly, Tame
  <2>3. EvictedAreGone'
    BY <2>1 DEF IInv, KnownOnly, EvictedAreGone, Tame
  <2> QED
    BY <2>1, <2>2, <2>3 DEF IInv
<1>12. CASE UNCHANGED vars
  BY <1>12 DEF vars, IInv, KnownOnly, EvictedAreGone
<1> QED
  BY <1>1, <1>2, <1>3, <1>4, <1>5, <1>6, <1>7, <1>8, <1>9, <1>10, <1>11, <1>12 DEF Next

(* The empty hub is consistent.                                            *)
LEMMA InitInv ==
    ASSUME Init
    PROVE  IInv
<1>1. hub = EmptyHub /\ used = {} /\ returned = {}
  BY DEF Init
<1>2. HubOK(hub) /\ \A c \in Connections : /\ hub.connections[c] = Unregistered
                                           /\ hub.evicted_attachments[c] = NoAttachment
  BY <1>1, EmptyHubOK
<1>3. KnownOnly /\ EvictedAreGone
  BY <1>2 DEF KnownOnly, EvictedAreGone, Registered, Unregistered, Entry
<1> QED
  BY <1>1, <1>2, <1>3 DEF IInv

(* The invariant holds in every state of the hub.                          *)
THEOREM HubInvariance == Spec => []IInv
<1>1. Init => IInv
  BY InitInv
<1>2. IInv /\ [Next]_vars => IInv'
  BY StepKeepsInv
<1> QED
  BY <1>1, <1>2, PTL DEF Spec

(* The maps keep their types and no queue exceeds its capacity, for every  *)
(* queue_capacity.                                                         *)
THEOREM HubTypeCorrect == Spec => []TypeOK
<1>1. IInv => TypeOK
  BY DEF IInv, HubOK, TypeOK
<1> QED
  BY <1>1, HubInvariance, PTL

(* session_routes, peer_routes and room_connections always hold exactly    *)
(* the bindings of the connections: the clean-up of a replaced connection  *)
(* never takes a route of its successor and no route outlives its          *)
(* connection.                                                             *)
THEOREM RoutesAlwaysMatch == Spec => []RoutesMatch
<1>1. IInv => RoutesMatch
  BY DEF IInv, HubOK, RoutesMatch
<1> QED
  BY <1>1, HubInvariance, PTL

(* Every binding names its own connection's session, so a message relayed  *)
(* for an attachment comes from the session that was authorised.           *)
THEOREM BindingsAlwaysOwned == Spec => []BindingsOwned
<1>1. IInv => BindingsOwned
  BY DEF IInv, HubOK, BindingsOwned
<1> QED
  BY <1>1, HubInvariance, PTL

(* evict_connection_locked keeps an attachment only for a connection that  *)
(* is gone.                                                                *)
THEOREM EvictedAlwaysGone == Spec => []EvictedAreGone
<1>1. IInv => EvictedAreGone
  BY DEF IInv
<1> QED
  BY <1>1, HubInvariance, PTL

----------------------------------------------------------------------------
(* Every attachment of h is still held in g, is among those given back     *)
(* (A), is kept for unregister, or its connection is bound anew.           *)
NothingLost(h, g, A) ==
    \A c \in Connections :
        LET old == h.connections[c].attachment
        IN  \/ old = NoAttachment
            \/ g.connections[c].attachment = old
            \/ old \in A
            \/ g.evicted_attachments[c] = old
            \/ g.connections[c].attachment # NoAttachment
            \/ g.connections[c].join_watch # NoWatch

(* A method that leaves alone, evicts or binds loses nothing.              *)
LEMMA MovesLoseNothing ==
    ASSUME NEW h, NEW g, NEW A
    PROVE  /\ \A T : OnlyEvicts(h, g, T) => NothingLost(h, g, A)
           /\ \A c, s, a, w :
                BoundAnew(h, g, c, s, a, w) /\ (a # NoAttachment \/ w # NoWatch)
                  => NothingLost(h, g, A)
           /\ \A c :
                /\ \A d \in Connections \ {c} : Stays(h, g, d)
                /\ h.connections[c].attachment \in A \cup {NoAttachment}
                => NothingLost(h, g, A)
BY DEF NothingLost, OnlyEvicts, BoundAnew, Stays, Evicted

(* No operation of any task loses an attachment, so the leave of every     *)
(* connection that attached is announced by someone: by the task that      *)
(* detaches or replaces it, or by the unregister of its own socket task.   *)
THEOREM NeverLost == Spec => NoAttachmentLost
<1> DEFINE Kept == NothingLost(hub, hub', returned')
<1>1. ASSUME IInv, [Next]_vars
      PROVE  [Kept]_vars
  <2>0. HubOK(hub)
    BY <1>1 DEF IInv
  <2> SUFFICES ASSUME Next
               PROVE  Kept
    BY <1>1
  <2>1. ASSUME NEW c \in Connections, NEW s \in Sessions, Open(c, s)
        PROVE  Kept
    <3>1. ~Registered(hub, c) /\ hub' = Register(hub, c, s)
      BY <1>1, <2>1 DEF Open, IInv, KnownOnly
    <3>2. \A d \in Connections \ {c} : Stays(hub, hub', d)
      BY <2>0, <3>1, QuietMoves
    <3>3. hub.connections[c].attachment = NoAttachment
      BY <2>0, <3>1, AttachedIsRegistered
    <3> QED
      BY <3>2, <3>3, MovesLoseNothing
  <2>2. ASSUME NEW c \in Connections, NEW r \in Rooms, NEW p \in Peers, AttachRoom(c, r, p)
        PROVE  Kept
    <3>1. hub' = Attach(hub, c, r, p).hub
      BY <2>2 DEF AttachRoom, Does
    <3>2. CASE hub' = hub
      BY <3>2 DEF NothingLost
    <3>3. CASE \E s \in Sessions :
                 BoundAnew(hub, hub', c, s, [room |-> r, session |-> s, peer |-> p], NoWatch)
      <4>1. PICK s \in Sessions :
                 BoundAnew(hub, hub', c, s, [room |-> r, session |-> s, peer |-> p], NoWatch)
        BY <3>3
      <4>2. [room |-> r, session |-> s, peer |-> p] # NoAttachment
        BY HubAssumption
      <4> QED
        BY <4>1, <4>2, MovesLoseNothing
    <3>4. \/ Attach(hub, c, r, p) = Err(hub, "ConnectionNotFound")
          \/ \E s \in Sessions :
               BoundAnew(hub, hub', c, s, [room |-> r, session |-> s, peer |-> p], NoWatch)
      BY <2>0, <3>1, AttachMoves
    <3> QED
      BY <3>1, <3>2, <3>3, <3>4 DEF Err
  <2>3. ASSUME NEW c \in Connections, NEW r \in Rooms, WatchJoinRequest(c, r)
        PROVE  Kept
    <3>1. hub' = WatchJoin(hub, c, r).hub
      BY <2>3 DEF WatchJoinRequest, Does
    <3>2. CASE hub' = hub
      BY <3>2 DEF NothingLost
    <3>3. CASE \E s \in Sessions :
                 BoundAnew(hub, hub', c, s, NoAttachment, [room |-> r, session |-> s])
      <4>1. PICK s \in Sessions :
                 BoundAnew(hub, hub', c, s, NoAttachment, [room |-> r, session |-> s])
        BY <3>3
      <4>2. [room |-> r, session |-> s] # NoWatch
        BY HubAssumption
      <4> QED
        BY <4>1, <4>2, MovesLoseNothing
    <3>4. \/ WatchJoin(hub, c, r) = Err(hub, "ConnectionNotFound")
          \/ \E s \in Sessions :
               BoundAnew(hub, hub', c, s, NoAttachment, [room |-> r, session |-> s])
      BY <2>0, <3>1, WatchMoves
    <3> QED
      BY <3>1, <3>2, <3>3, <3>4 DEF Err
  <2>4. ASSUME NEW c \in Connections, DetachRoom(c) \/ Close(c)
        PROVE  Kept
    <3>1. CASE DetachRoom(c)
      <4>1. hub' = Detach(hub, c).hub /\ returned' = Detach(hub, c).attachments
        BY <3>1 DEF DetachRoom, Does
      <4>2. CASE Detach(hub, c) = Err(hub, "ConnectionNotFound")
        BY <4>1, <4>2 DEF Err, NothingLost
      <4>3. CASE /\ returned' = AttachmentsOf(hub, {c})
                 /\ \A d \in Connections \ {c} : Stays(hub, hub', d)
        BY <4>3, MovesLoseNothing DEF AttachmentsOf
      <4> QED
        BY <2>0, <4>1, <4>2, <4>3, DetachMoves
    <3>2. CASE Close(c)
      <4>1. hub' = Unregister(hub, c).hub /\ returned' = Unregister(hub, c).attachments
        BY <3>2 DEF Close, Does
      <4>2. /\ \A d \in Connections \ {c} : Stays(hub, hub', d)
            /\ hub.connections[c].attachment # NoAttachment =>
                 returned' = AttachmentsOf(hub, {c})
        BY <2>0, <4>1, UnregisterMoves
      <4> QED
        BY <4>2, MovesLoseNothing DEF AttachmentsOf
    <3> QED
      BY <2>4, <3>1, <3>2
  <2>5. ASSUME NEW T, OnlyEvicts(hub, hub', T)
        PROVE  Kept
    BY <2>5, MovesLoseNothing
  <2>6. ASSUME NEW c \in Connections, Reply(c)
        PROVE  Kept
    BY <2>0, <2>5, <2>6, SendingMoves DEF Reply, Does
  <2>7. ASSUME NEW c \in Connections, NEW p \in Peers, RelaySignal(c, p)
        PROVE  Kept
    BY <2>0, <2>5, <2>7, SendingMoves DEF RelaySignal, Does
  <2>8. ASSUME NEW r \in Rooms, Announce(r) \/ CloseRoom(r)
        PROVE  Kept
    BY <2>0, <2>5, <2>8, SendingMoves DEF Announce, CloseRoom, Does
  <2>9. ASSUME NEW r \in Rooms, NEW s \in Sessions, RemoveMember(r, s)
        PROVE  Kept
    BY <2>0, <2>5, <2>9, SendingMoves DEF RemoveMember, Does
  <2>10. ASSUME NEW c \in Connections, WriterStep(c)
         PROVE  Kept
    BY <2>0, <2>10, QuietMoves DEF WriterStep, NothingLost, Stays
  <2> QED
    BY <2>1, <2>2, <2>3, <2>4, <2>6, <2>7, <2>8, <2>9, <2>10 DEF Next
<1> QED
  BY <1>1, HubInvariance, PTL DEF Spec, NoAttachmentLost, NothingLost
============================================================================

----------------------------- MODULE HubState -----------------------------
(***************************************************************************)
(* The realtime hub of rust/apps/server/src/realtime/hub.rs as pure        *)
(* operators on its state.  Every method of RealtimeHub runs under one     *)
(* mutex and is one operator here.  An operator that hands attachments     *)
(* back to its caller, or can fail, returns [hub, outcome, attachments].   *)
(*                                                                         *)
(* The maps of HubState are total functions whose missing entries are      *)
(* Unregistered, NoAttachment, NoWatch, NoConnection and {}.  An outbound  *)
(* queue is the sequence of what try_send has put into it and the writer   *)
(* task has not taken out, told apart only into messages and closes; it    *)
(* refuses when it is full or when the writer is gone.                     *)
(***************************************************************************)
EXTENDS Naturals, Sequences

CONSTANTS
    Connections,    \* ConnectionId
    Rooms,          \* RoomId, with its RoomCode
    Sessions,       \* SessionId
    Peers,          \* PeerId
    Capacity,       \* queue_capacity
    NoConnection, NoSession, NoAttachment, NoWatch

ASSUME HubAssumption ==
    /\ Capacity \in Nat \ {0}
    /\ NoConnection \notin Connections
    /\ NoSession \notin Sessions
    /\ NoAttachment \notin [room : Rooms, session : Sessions, peer : Peers]
    /\ NoWatch \notin [room : Rooms, session : Sessions]

Attachment == [room : Rooms, session : Sessions, peer : Peers]
JoinWatch == [room : Rooms, session : Sessions]
Outbound == {"message", "close"}

ConnectionEntry == [session    : Sessions \cup {NoSession},
                    attachment : Attachment \cup {NoAttachment},
                    join_watch : JoinWatch \cup {NoWatch}]

Hub == [connections         : [Connections -> ConnectionEntry],
        evicted_attachments : [Connections -> Attachment \cup {NoAttachment}],
        room_connections    : [Rooms -> SUBSET Connections],
        session_routes      : [Rooms \X Sessions -> Connections \cup {NoConnection}],
        peer_routes         : [Rooms \X Peers -> Connections \cup {NoConnection}],
        queue               : [Connections -> Seq(Outbound)],
        writers             : SUBSET Connections]

Entry(s) == [session |-> s, attachment |-> NoAttachment, join_watch |-> NoWatch]
Unregistered == Entry(NoSession)

EmptyHub ==
    [connections         |-> [c \in Connections |-> Unregistered],
     evicted_attachments |-> [c \in Connections |-> NoAttachment],
     room_connections    |-> [r \in Rooms |-> {}],
     session_routes      |-> [k \in Rooms \X Sessions |-> NoConnection],
     peer_routes         |-> [k \in Rooms \X Peers |-> NoConnection],
     queue               |-> [c \in Connections |-> <<>>],
     writers             |-> {}]

----------------------------------------------------------------------------
(* What a connection is bound to.                                          *)

Registered(h, c) == h.connections[c].session # NoSession

AttachedAs(h, c, r, p) ==
    /\ h.connections[c].attachment # NoAttachment
    /\ h.connections[c].attachment.room = r
    /\ h.connections[c].attachment.peer = p

(* The (room, session) pairs of a connection's attachment and its watch.   *)
BoundTo(h, c, r, s) ==
    \/ /\ h.connections[c].attachment # NoAttachment
       /\ h.connections[c].attachment.room = r
       /\ h.connections[c].attachment.session = s
    \/ /\ h.connections[c].join_watch # NoWatch
       /\ h.connections[c].join_watch.room = r
       /\ h.connections[c].join_watch.session = s

InRoom(h, c, r) == \E s \in Sessions : BoundTo(h, c, r, s)

(* detach_mappings and detach_watch_mappings for every connection of S: an *)
(* index entry goes away only if it still points at the connection.        *)
Unmap(h, S) ==
    [h EXCEPT
       !.session_routes = [k \in Rooms \X Sessions |->
           IF @[k] \in S /\ BoundTo(h, @[k], k[1], k[2]) THEN NoConnection ELSE @[k]],
       !.peer_routes = [k \in Rooms \X Peers |->
           IF @[k] \in S /\ AttachedAs(h, @[k], k[1], k[2]) THEN NoConnection ELSE @[k]],
       !.room_connections = [r \in Rooms |-> {c \in @[r] : ~(c \in S /\ InRoom(h, c, r))}]]

(* remove_connection_locked.                                               *)
Remove(h, S) ==
    [Unmap(h, S) EXCEPT !.connections = [c \in Connections |->
        IF c \in S THEN Unregistered ELSE @[c]]]

AttachmentsOf(h, S) ==
    {h.connections[c].attachment : c \in {x \in S : h.connections[x].attachment # NoAttachment}}

(* Faulty variants stand for slips the properties are tested against;      *)
(* nothing uses them.  Here: the attachment is forgotten, and the          *)
(* connection is not removed.                                              *)
EvictForgetting(h, S) == Remove(h, S)
EvictInPlace(h, S) ==
    [Unmap(h, S) EXCEPT !.evicted_attachments = [c \in Connections |->
        IF c \in S THEN h.connections[c].attachment ELSE @[c]]]

(* evict_connection_locked: the attachment stays available to unregister.  *)
Evict(h, S) ==
    [Remove(h, S) EXCEPT !.evicted_attachments = [c \in Connections |->
        IF c \in S /\ h.connections[c].attachment # NoAttachment
        THEN h.connections[c].attachment
        ELSE @[c]]]

(* mpsc try_send to every connection of S.                                 *)
CanSend(h, c) == Registered(h, c) /\ c \in h.writers /\ Len(h.queue[c]) < Capacity

Push(h, S, outbound) ==
    [h EXCEPT !.queue = [c \in Connections |->
        IF c \in S /\ CanSend(h, c) THEN Append(@[c], outbound) ELSE @[c]]]

Ok(h, attachments) == [hub |-> h, outcome |-> "ok", attachments |-> attachments]
Err(h, error) == [hub |-> h, outcome |-> error, attachments |-> {}]

----------------------------------------------------------------------------
(* The methods.                                                            *)

Register(h, c, s) ==
    [h EXCEPT !.connections[c] = Entry(s),
              !.queue[c] = <<>>,
              !.writers = @ \cup {c}]

(* Faulty: another session's connection with the same peer id stays.       *)
ReplacedOfSession(h, c, r, s, peers) == {h.session_routes[<<r, s>>]} \ {c, NoConnection}

(* The connections a newer one of this session, or with this peer id,      *)
(* replaces in the room.                                                   *)
Replaced(h, c, r, s, peers) ==
    ({h.session_routes[<<r, s>>]} \cup {h.peer_routes[<<r, p>>] : p \in peers})
      \ {c, NoConnection}

(* Faulty: a watch outlives the attach.                                    *)
BindBeside(h, c, r, s, attachment, watch) ==
    [Unmap(h, {c}) EXCEPT
       !.connections[c].attachment = attachment,
       !.connections[c].join_watch = IF watch = NoWatch THEN @ ELSE watch,
       !.room_connections[r] = @ \cup {c},
       !.session_routes[<<r, s>>] = c,
       !.peer_routes = [k \in Rooms \X Peers |->
           IF attachment = [room |-> k[1], session |-> s, peer |-> k[2]] THEN c ELSE @[k]]]

(* Binds a connection to a room: to the routes of its session and, if it   *)
(* attaches, of its peer.                                                  *)
Bind(h, c, r, s, attachment, watch) ==
    [Unmap(h, {c}) EXCEPT
       !.connections[c] = [session |-> s, attachment |-> attachment, join_watch |-> watch],
       !.room_connections[r] = @ \cup {c},
       !.session_routes[<<r, s>>] = c,
       !.peer_routes = [k \in Rooms \X Peers |->
           IF attachment = [room |-> k[1], session |-> s, peer |-> k[2]] THEN c ELSE @[k]]]

Attach(h, c, r, p) ==
    LET s      == h.connections[c].session
        old    == Replaced(h, c, r, s, {p})
        told   == Push(Push(h, old, "message"), old, "close")
        new    == [room |-> r, session |-> s, peer |-> p]
    IN  IF Registered(h, c)
        THEN Ok(Bind(Evict(told, old), c, r, s, new, NoWatch), AttachmentsOf(h, old))
        ELSE Err(h, "ConnectionNotFound")

WatchJoin(h, c, r) ==
    LET s     == h.connections[c].session
        old   == Replaced(h, c, r, s, {})
        watch == [room |-> r, session |-> s]
    IN  IF Registered(h, c)
        THEN Ok(Bind(Evict(h, old), c, r, s, NoAttachment, watch), AttachmentsOf(h, old))
        ELSE Err(h, "ConnectionNotFound")

Detach(h, c) ==
    IF Registered(h, c)
    THEN Ok([Unmap(h, {c}) EXCEPT !.connections[c] = Entry(h.connections[c].session)],
            AttachmentsOf(h, {c}))
    ELSE Err(h, "ConnectionNotFound")

(* Faulty: takes no account of an eviction.                                *)
UnregisterLive(h, c) == Ok(Remove(h, {c}), AttachmentsOf(h, {c}))

Unregister(h, c) ==
    IF h.connections[c].attachment # NoAttachment
    THEN Ok(Remove(h, {c}), AttachmentsOf(h, {c}))
    ELSE Ok([Remove(h, {c}) EXCEPT !.evicted_attachments[c] = NoAttachment],
            {h.evicted_attachments[c]} \ {NoAttachment})

Send(h, c, outbound) ==
    IF ~Registered(h, c)
    THEN Err(h, "ConnectionNotFound")
    ELSE IF CanSend(h, c)
    THEN Ok(Push(h, {c}, outbound), {})
    ELSE Err(Evict(h, {c}), IF c \in h.writers THEN "SlowConsumer" ELSE "ConnectionNotFound")

SendToPeer(h, c, p) ==
    LET from   == h.connections[c].attachment
        target == h.peer_routes[<<from.room, p>>]
    IN  IF from = NoAttachment
        THEN Err(h, "NotAttached")
        ELSE IF from.peer = p
        THEN Err(h, "CannotSignalSelf")
        ELSE IF target = NoConnection \/ ~Registered(h, target)
        THEN Err(h, "TargetNotFound")
        ELSE IF CanSend(h, target)
        THEN Ok(Push(h, {target}, "message"), {})
        ELSE Err(Evict(h, {target}),
                 IF target \in h.writers THEN "SlowConsumer" ELSE "TargetNotFound")

Broadcast(h, r) ==
    LET all  == {c \in h.room_connections[r] : Registered(h, c)}
        slow == {c \in all : ~CanSend(h, c)}
    IN  Ok(Evict(Push(h, all, "message"), slow), AttachmentsOf(h, slow))

DisconnectSession(h, r, s) ==
    LET old == {h.session_routes[<<r, s>>]} \ {NoConnection}
    IN  Ok(Evict(Push(h, old, "close"), old), AttachmentsOf(h, old))

DisconnectRoom(h, r) ==
    LET all == h.room_connections[r]
    IN  Ok(Evict(Push(h, all, "close"), all), AttachmentsOf(h, all))

----------------------------------------------------------------------------
(* The writer task of serve_socket takes one outbound at a time; it ends   *)
(* after a close frame, when a send fails, or when the queue is empty and  *)
(* the hub has dropped the sender.                                         *)
Write(h, c) ==
    [h EXCEPT !.queue[c] = Tail(@),
              !.writers = IF Head(h.queue[c]) = "close" THEN @ \ {c} ELSE @]

EndWriter(h, c) == [h EXCEPT !.queue[c] = <<>>, !.writers = @ \ {c}]

----------------------------------------------------------------------------
(* What makes the maps one consistent whole: each index holds exactly the  *)
(* bindings of the connections, and a binding names its connection's own   *)
(* session and is an attachment or a watch, never both.                    *)
SessionRoutesAgree(h) ==
    \A r \in Rooms, s \in Sessions, c \in Connections :
        h.session_routes[<<r, s>>] = c <=> BoundTo(h, c, r, s)

PeerRoutesAgree(h) ==
    \A r \in Rooms, p \in Peers, c \in Connections :
        h.peer_routes[<<r, p>>] = c <=> AttachedAs(h, c, r, p)

RoomConnectionsAgree(h) ==
    \A r \in Rooms, c \in Connections :
        c \in h.room_connections[r] <=> InRoom(h, c, r)

RoutesAgree(h) == SessionRoutesAgree(h) /\ PeerRoutesAgree(h) /\ RoomConnectionsAgree(h)

Owned(h) ==
    \A c \in Connections :
        LET e == h.connections[c]
        IN  /\ e.attachment # NoAttachment => e.attachment.session = e.session
            /\ e.join_watch # NoWatch => e.join_watch.session = e.session
            /\ e.attachment = NoAttachment \/ e.join_watch = NoWatch
============================================================================

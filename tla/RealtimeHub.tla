---------------------------- MODULE RealtimeHub ----------------------------
(***************************************************************************)
(* The hub under every sequence of its operations.  Socket tasks register, *)
(* attach, watch, detach, send and unregister; HTTP handlers and the       *)
(* maintenance task broadcast and disconnect; writer tasks drain queues    *)
(* and stop.  Each holds the hub's mutex for the whole operation.          *)
(***************************************************************************)
EXTENDS HubState

VARIABLES
    hub,        \* HubState and the outbound queues
    used,       \* the connection ids generated so far (they never repeat)
    returned    \* the attachments the last operation gave its caller to clean up

vars == <<hub, used, returned>>

Init == hub = EmptyHub /\ used = {} /\ returned = {}

----------------------------------------------------------------------------

Open(c, s) ==
    /\ c \notin used
    /\ hub' = Register(hub, c, s)
    /\ used' = used \cup {c}
    /\ returned' = {}

(* An operation of the hub: its state and what it gives back.              *)
Does(result) ==
    /\ hub' = result.hub
    /\ returned' = result.attachments
    /\ UNCHANGED used

AttachRoom(c, r, p) == c \in used /\ Does(Attach(hub, c, r, p))
WatchJoinRequest(c, r) == c \in used /\ Does(WatchJoin(hub, c, r))
DetachRoom(c) == c \in used /\ Does(Detach(hub, c))
Close(c) == c \in used /\ Does(Unregister(hub, c))
Reply(c) == c \in used /\ Does(Send(hub, c, "message"))
RelaySignal(c, p) == c \in used /\ Does(SendToPeer(hub, c, p))
Announce(r) == Does(Broadcast(hub, r))
RemoveMember(r, s) == Does(DisconnectSession(hub, r, s))
CloseRoom(r) == Does(DisconnectRoom(hub, r))

WriterStep(c) ==
    /\ c \in hub.writers
    /\ \/ hub.queue[c] # <<>> /\ hub' = Write(hub, c)
       \/ hub' = EndWriter(hub, c)
    /\ returned' = {}
    /\ UNCHANGED used

Next ==
    \/ \E c \in Connections, s \in Sessions : Open(c, s)
    \/ \E c \in Connections, r \in Rooms, p \in Peers : AttachRoom(c, r, p)
    \/ \E c \in Connections, r \in Rooms : WatchJoinRequest(c, r)
    \/ \E c \in Connections : DetachRoom(c)
    \/ \E c \in Connections : Close(c)
    \/ \E c \in Connections : Reply(c)
    \/ \E c \in Connections, p \in Peers : RelaySignal(c, p)
    \/ \E r \in Rooms : Announce(r)
    \/ \E r \in Rooms, s \in Sessions : RemoveMember(r, s)
    \/ \E r \in Rooms : CloseRoom(r)
    \/ \E c \in Connections : WriterStep(c)

Spec == Init /\ [][Next]_vars

----------------------------------------------------------------------------
(* Properties.                                                             *)

(* The maps of the hub have their types and no queue exceeds its capacity. *)
TypeOK ==
    /\ hub \in Hub
    /\ \A c \in Connections : Len(hub.queue[c]) <= Capacity
    /\ used \subseteq Connections
    /\ returned \subseteq Attachment

(* The three indexes say exactly what the connections are bound to: a      *)
(* route leads to the connection bound to it, every bound connection is    *)
(* reachable by its routes and by its room, so no two connections serve    *)
(* one session, or one peer, of a room.  Cleaning up after a replaced      *)
(* connection (detach_mappings) never takes the routes of its successor.   *)
RoutesMatch == RoutesAgree(hub)

(* A binding belongs to a registered connection, names that connection's   *)
(* session, and is either an attachment or a watch.                        *)
BindingsOwned == Owned(hub)

(* An attachment kept for a late unregister belongs to a connection that   *)
(* is gone, so it is handed out for cleanup once and never beside a live   *)
(* attachment of the same connection.                                      *)
EvictedAreGone ==
    \A c \in Connections :
        hub.evicted_attachments[c] # NoAttachment => c \in used /\ ~Registered(hub, c)

(* No operation loses an attachment: what a connection stops being         *)
(* attached as is given to the caller for cleanup or kept for unregister,  *)
(* unless the same connection attached or watched anew.                    *)
NoAttachmentLost ==
    [][\A c \in Connections :
         LET old == hub.connections[c].attachment
         IN  \/ old = NoAttachment
             \/ hub'.connections[c].attachment = old
             \/ old \in returned'
             \/ hub'.evicted_attachments[c] = old
             \/ hub'.connections[c].attachment # NoAttachment
             \/ hub'.connections[c].join_watch # NoWatch]_vars
============================================================================

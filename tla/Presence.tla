------------------------------ MODULE Presence ------------------------------
(***************************************************************************)
(* Who is online in a room.  The database says so in the memberships, the  *)
(* hub in its attachments, and no transaction spans both: this module      *)
(* composes RoomAggregate (the stored room) and HubState (the hub) with    *)
(* the tasks of rust/apps/server/src that move between them, each split at *)
(* every database call and every use of the hub.                           *)
(*                                                                         *)
(* Tasks are the reader tasks of serve_socket (named by their connection), *)
(* the leave_room handlers (named by the session that leaves) and the      *)
(* maintenance task.  One room with all sessions admitted is modelled;     *)
(* joining is RoomStore's part.  Revisions and the contents of messages    *)
(* are left out: a stored room always has revision 1 here.                 *)
(***************************************************************************)
EXTENDS HubState

CONSTANTS
    NoPeer,
    TheRoom,         \* the room's id
    Owner,           \* the session that created it
    Leavers,         \* the sessions that call leave_room (a bound)
    Maintenance,     \* the maintenance task
    AnyClient,       \* clients send what they like; if FALSE, they do as apps/web
                     \* does: attach once, with their first message, never detach
    DatabaseFails    \* a database call of a socket's task may fail

ASSUME PresenceAssumption ==
    /\ Rooms = {TheRoom} /\ Owner \in Sessions /\ Leavers \subseteq Sessions
    /\ NoPeer \notin Peers
    /\ Connections \cap Leavers = {} /\ Maintenance \notin Connections \cup Leavers
    /\ {AnyClient, DatabaseFails} \subseteq BOOLEAN

VARIABLES
    room,      \* the stored room
    hub,       \* the hub
    due,       \* the room's expiry time has passed
    task,      \* what every task is about to do
    abandoned  \* history: the attachments whose clean-up has been given up

vars == <<room, hub, due, task, abandoned>>

R == INSTANCE RoomAggregate WITH RequestIds <- {}, MaxRevision <- 2

Tasks == Connections \cup Leavers \cup {Maintenance}

(* The expiry is at time 1; the clock reads 0 before it and 1 after it.    *)
Clock == IF due THEN {0, 1} ELSE {0}    \* 0: read before a wait

(* The hub after a step.  Nothing reads the queue of a connection that has *)
(* been removed: the hub has dropped its sender, the writer drains it.     *)
HubBecomes(h) ==
    hub' = [h EXCEPT !.queue = [c \in Connections |->
                                  IF Registered(h, c) THEN @[c] ELSE <<>>],
                     !.writers = {c \in @ : Registered(h, c)}]

(* apply_room_command: what is stored when a command has this result.      *)
Stored(result) == IF result.outcome = "changed"
                  THEN [result.room EXCEPT !.revision = 1]
                  ELSE room

----------------------------------------------------------------------------
(* A task: its next step pc; a socket's session, the peer id it attaches   *)
(* with, whether that attach changed the room, and the loop's flag         *)
(* attached; the variables pending and seen of cleanup_attachments, and    *)
(* the step that follows.                                                  *)

Steps == {"unborn", "fresh", "reading", "attach", "greet", "snapshot", "announce",
          "detach", "signal", "relay", "refuse", "fail", "unregister", "cleanup", "tell",
          "disconnect", "close", "idle", "ended"}

Task == [pc : Steps, session : Sessions \cup {NoSession}, peer : Peers \cup {NoPeer},
         changed : BOOLEAN, attached : BOOLEAN,
         pending : SUBSET Attachment, seen : SUBSET Attachment, then : Steps]

NewTask(pc, s) == [pc |-> pc, session |-> s, peer |-> NoPeer, changed |-> FALSE,
                   attached |-> FALSE, pending |-> {}, seen |-> {}, then |-> "idle"]

Init ==
    /\ room = [R!CreateRoom(Owner, 1) EXCEPT !.memberships =
                 [s \in Sessions |-> R!Offline(IF s = Owner THEN "owner" ELSE "receiver")]]
    /\ hub = EmptyHub
    /\ due = FALSE
    /\ abandoned = {}
    /\ task = [t \in Tasks |->
                 NewTask(IF t \in Connections THEN "unborn" ELSE "idle", NoSession)]

At(t, pc) == task[t].pc = pc

Becomes(t, k) == task' = [task EXCEPT ![t] = k]
Goto(t, pc) == task' = [task EXCEPT ![t].pc = pc]

(* The loop of cleanup_attachments continues, or ends when nothing is      *)
(* pending.                                                                *)
Cleaning(k) ==
    IF k.pending # {}
    THEN [k EXCEPT !.pc = "cleanup"]
    ELSE IF k.then = "ended"
    THEN NewTask("ended", NoSession)
    ELSE [k EXCEPT !.pc = k.then, !.seen = {}, !.then = "idle"]

(* Task k calls cleanup_attachments and then goes on with pc.              *)
CleanUp(k, attachments, pc) == Cleaning([k EXCEPT !.pending = attachments, !.then = pc])

----------------------------------------------------------------------------
(* cleanup_attachments, in whichever task: every attachment once, first    *)
(* the stored membership, then the broadcast, whose evictions are cleaned  *)
(* up too.  (The code takes the last of its list; here any.)               *)

DetachStored(t) ==
    /\ At(t, "cleanup")
    /\ \E a \in task[t].pending :
         LET rest   == [task[t] EXCEPT !.pending = @ \ {a}, !.seen = @ \cup {a}]
             result == R!Detach(room, a.session, a.peer)
         IN  \/ /\ a \notin task[t].seen
                /\ room' = Stored(result)
                /\ Becomes(t, IF result.outcome = "changed"
                              THEN [rest EXCEPT !.pc = "tell"]
                              ELSE Cleaning(rest))
                /\ abandoned' = abandoned \ {a}
             \/ /\ a \in task[t].seen
                /\ Becomes(t, Cleaning(rest))
                /\ UNCHANGED <<room, abandoned>>
             \/ /\ a \notin task[t].seen /\ DatabaseFails    \* the error is ignored
                /\ Becomes(t, Cleaning(rest))
                /\ abandoned' = abandoned \cup {a}
                /\ UNCHANGED room
    /\ UNCHANGED <<hub, due>>

TellOffline(t) ==
    LET told == Broadcast(hub, TheRoom)
    IN  /\ At(t, "tell")
        /\ HubBecomes(told.hub)
        /\ Becomes(t, Cleaning([task[t] EXCEPT !.pending = @ \cup told.attachments]))
        /\ UNCHANGED <<room, due, abandoned>>

----------------------------------------------------------------------------
(* A socket: the client's messages and the steps of its reader task.       *)

Open(c, s) ==
    /\ At(c, "unborn")
    /\ HubBecomes(Register(hub, c, s))
    /\ Becomes(c, NewTask("fresh", s))
    /\ UNCHANGED <<room, due, abandoned>>

(* attach_room, up to the database.  An inactive room is a fatal error.    *)
ReceiveAttach(c, p, t) ==
    LET result == R!Attach(room, task[c].session, p, t)
    IN  /\ At(c, "fresh") \/ (AnyClient /\ At(c, "reading"))
        /\ \/ /\ result.outcome # "error"
              /\ room' = Stored(result)
              /\ Becomes(c, [task[c] EXCEPT !.pc = "attach", !.peer = p,
                                            !.changed = result.outcome = "changed"])
           \/ /\ result.outcome = "error"
              /\ Goto(c, IF R!ActiveAt(room, t) THEN "refuse" ELSE "fail")
              /\ UNCHANGED room
           \/ DatabaseFails /\ Goto(c, "refuse") /\ UNCHANGED room
        /\ UNCHANGED <<hub, due, abandoned>>

(* attach_room: the hub, and the clean-up after those it replaced.         *)
AttachHub(c) ==
    LET result == Attach(hub, c, TheRoom, task[c].peer)
        k      == [task[c] EXCEPT !.peer = NoPeer]
        a      == [room |-> TheRoom, session |-> task[c].session, peer |-> task[c].peer]
    IN  /\ At(c, "attach")
        /\ HubBecomes(result.hub)
        /\ IF result.outcome = "ok"
           THEN /\ Becomes(c, CleanUp(k, result.attachments, "greet"))
                /\ abandoned' = abandoned \ {a}
           ELSE /\ Becomes(c, [k EXCEPT !.pc = "fail"])
                /\ abandoned' = abandoned \cup {a}
        /\ UNCHANGED <<room, due>>

(* A reply to the socket itself; a full queue or a dead writer is fatal.   *)
Reply(c, pc) ==
    LET result == Send(hub, c, "message")
    IN  /\ HubBecomes(result.hub)
        /\ Goto(c, IF result.outcome = "ok" THEN pc ELSE "fail")
        /\ UNCHANGED <<room, due, abandoned>>

SendAttached(c) == At(c, "greet") /\ Reply(c, "snapshot")

(* The snapshot is sent, is not needed, or bootstrap_room fails.           *)
SendSnapshot(c) ==
    /\ At(c, "snapshot")
    /\ \/ Reply(c, "announce")
       \/ \E pc \in {"announce", "refuse"} : Goto(c, pc) /\ UNCHANGED <<room, hub, due, abandoned>>

AnnounceOnline(c) ==
    LET told == IF task[c].changed THEN Broadcast(hub, TheRoom) ELSE Ok(hub, {})
        k    == [task[c] EXCEPT !.attached = TRUE, !.changed = FALSE]
    IN  /\ At(c, "announce")
        /\ HubBecomes(told.hub)
        /\ Becomes(c, CleanUp(k, told.attachments, "reading"))
        /\ UNCHANGED <<room, due, abandoned>>

(* Any other message: a signal, a detach, or one that cannot be parsed.    *)
(* The first two are fatal before an attach.                               *)
ReceiveOther(c, pc) ==
    /\ pc \in {"signal", "detach", "refuse"}
    /\ At(c, "reading") \/ At(c, "fresh")
    /\ AnyClient \/ (At(c, "reading") /\ pc = "signal")
    /\ Goto(c, IF task[c].attached \/ pc = "refuse" THEN pc ELSE "fail")
    /\ UNCHANGED <<room, hub, due, abandoned>>

(* detach_room finds its attachment and gives it up.                       *)
DetachHub(c) ==
    LET result == Detach(hub, c)
    IN  /\ At(c, "detach")
        /\ IF hub.connections[c].attachment # NoAttachment
           THEN /\ HubBecomes(result.hub)
                /\ Becomes(c, CleanUp([task[c] EXCEPT !.attached = FALSE],
                                      result.attachments, "reading"))
           ELSE Goto(c, "refuse") /\ UNCHANGED hub
        /\ UNCHANGED <<room, due, abandoned>>

Online(s, p) == room.memberships[s].state = "online" /\ room.memberships[s].peer = p

(* authorize_signal: sender and target are online with their peer ids.     *)
AuthorizeSignal(c, p) ==
    LET a == hub.connections[c].attachment
    IN  /\ At(c, "signal")
        /\ Becomes(c, IF /\ a # NoAttachment
                         /\ a.peer # p
                         /\ Online(a.session, a.peer)
                         /\ \E s \in Sessions : Online(s, p)
                      THEN [task[c] EXCEPT !.pc = "relay", !.peer = p]
                      ELSE [task[c] EXCEPT !.pc = "refuse"])
        /\ UNCHANGED <<room, hub, due, abandoned>>

(* relay_signal: a slow target is an error that closes the sender.         *)
RelaySignal(c) ==
    LET result == SendToPeer(hub, c, task[c].peer)
        next   == IF result.outcome = "ok" THEN "reading"
                  ELSE IF result.outcome = "SlowConsumer" THEN "fail" ELSE "refuse"
    IN  /\ At(c, "relay")
        /\ HubBecomes(result.hub)
        /\ Becomes(c, [task[c] EXCEPT !.pc = next, !.peer = NoPeer])
        /\ UNCHANGED <<room, due, abandoned>>

(* send_socket_error, whose own failure is ignored, after an error that    *)
(* leaves the socket open ("refuse") or closes it ("fail").                *)
SendError(c) ==
    /\ At(c, "refuse") \/ At(c, "fail")
    /\ HubBecomes(Send(hub, c, "message").hub)
    /\ Becomes(c, [task[c] EXCEPT !.changed = FALSE,
                                  !.pc = IF @ = "refuse" THEN "reading" ELSE "unregister"])
    /\ UNCHANGED <<room, due, abandoned>>

(* The read side ends: a close frame, a read error, the idle timeout.      *)
Disconnect(c) ==
    /\ At(c, "fresh") \/ At(c, "reading")
    /\ Goto(c, "unregister")
    /\ UNCHANGED <<room, hub, due, abandoned>>

UnregisterHub(c) ==
    LET result == Unregister(hub, c)
    IN  /\ At(c, "unregister")
        /\ HubBecomes(result.hub)
        /\ Becomes(c, CleanUp(task[c], result.attachments, "ended"))
        /\ UNCHANGED <<room, due, abandoned>>

(* The socket's writer task.                                               *)
WriterStep(c) ==
    /\ c \in hub.writers
    /\ \/ hub.queue[c] # <<>> /\ HubBecomes(Write(hub, c))
       \/ HubBecomes(EndWriter(hub, c))
    /\ UNCHANGED <<room, due, task, abandoned>>

----------------------------------------------------------------------------
(* leave_room, and the expiry by the maintenance task: the stored room,    *)
(* then the broadcast, then whoever must go is disconnected.               *)

LeaveStored(s) ==
    LET result == R!Leave(room, s)
    IN  /\ At(s, "idle")
        /\ room' = Stored(result)
        /\ Becomes(s, [task[s] EXCEPT
             !.pc = "announce",
             !.then = IF result.room.state = "expired" THEN "close" ELSE "disconnect"])
        /\ UNCHANGED <<hub, due, abandoned>>

ExpireStored ==
    LET result == R!Expire(room, 1)
    IN  /\ At(Maintenance, "idle")
        /\ due
        /\ result.outcome = "changed"
        /\ room' = Stored(result)
        /\ Becomes(Maintenance, [task[Maintenance] EXCEPT !.pc = "announce", !.then = "close"])
        /\ UNCHANGED <<hub, due, abandoned>>

AnnounceEnd(t) ==
    LET told == Broadcast(hub, TheRoom)
    IN  /\ At(t, "announce")
        /\ HubBecomes(told.hub)
        /\ Becomes(t, [task[t] EXCEPT !.pc = task[t].then, !.pending = told.attachments])
        /\ UNCHANGED <<room, due, abandoned>>

DisconnectEnded(t) ==
    LET result == IF At(t, "close")
                  THEN DisconnectRoom(hub, TheRoom)
                  ELSE DisconnectSession(hub, TheRoom, t)
    IN  /\ At(t, "close") \/ At(t, "disconnect")
        /\ HubBecomes(result.hub)
        /\ Becomes(t, CleanUp(task[t], task[t].pending \cup result.attachments, "idle"))
        /\ UNCHANGED <<room, due, abandoned>>

BecomeDue == ~due /\ due' = TRUE /\ UNCHANGED <<room, hub, task, abandoned>>

----------------------------------------------------------------------------

(* What a task does by itself once it has started something.               *)
Proceed(t) ==
    \/ DetachStored(t)
    \/ TellOffline(t)
    \/ t \in Connections /\ \/ AttachHub(t)
                            \/ SendAttached(t)
                            \/ SendSnapshot(t)
                            \/ AnnounceOnline(t)
                            \/ DetachHub(t)
                            \/ \E p \in Peers : AuthorizeSignal(t, p)
                            \/ RelaySignal(t)
                            \/ SendError(t)
                            \/ UnregisterHub(t)
    \/ t \notin Connections /\ (AnnounceEnd(t) \/ DisconnectEnded(t))

(* What clients, the clock and the network do.                             *)
Client(c) ==
    \/ \E s \in Sessions : Open(c, s)
    \/ \E p \in Peers, t \in Clock : ReceiveAttach(c, p, t)
    \/ \E pc \in {"signal", "detach", "refuse"} : ReceiveOther(c, pc)
    \/ Disconnect(c)
    \/ WriterStep(c)

Next ==
    \/ \E t \in Tasks : Proceed(t)
    \/ \E c \in Connections : Client(c)
    \/ \E s \in Leavers : LeaveStored(s)
    \/ ExpireStored
    \/ BecomeDue

Spec == Init /\ [][Next]_vars

(* A task that waits for somebody else to start something.                 *)
Resting(t) == task[t].pc \in {"unborn", "fresh", "reading", "idle", "ended"}

(* Every task that has started something keeps running; clients, the       *)
(* network and the clock promise nothing.  Proceed(t) is enabled exactly   *)
(* while the task does not rest, so this is WF_vars(Proceed(t)) written    *)
(* without ENABLED, which TLC evaluates slowly here.                       *)
FairSpec == Spec /\ \A t \in Tasks : []<>Resting(t) \/ []<><<Proceed(t)>>_vars

----------------------------------------------------------------------------
(* Properties.                                                             *)

(* The stored room, the hub and the tasks' local variables have their      *)
(* types.                                                                  *)
TypeOK ==
    /\ room \in R!RoomRecord
    /\ hub \in Hub
    /\ due \in BOOLEAN
    /\ task \in [Tasks -> Task]
    /\ abandoned \subseteq Attachment

(* Somebody will take the session offline again: a connection attached or  *)
(* evicted as it whose reader still has to unregister, a clean-up under    *)
(* way, or an attach between the database and the hub.                     *)
Holder(a) ==
    \/ \E c \in Connections :
         /\ ~At(c, "ended")
         /\ a \in {hub.connections[c].attachment, hub.evicted_attachments[c]}
    \/ \E t \in Tasks : a \in task[t].pending \ task[t].seen
    \/ \E c \in Connections :
         At(c, "attach") /\ task[c].session = a.session /\ task[c].peer = a.peer

(* No ghosts: a membership stored as online always has a holder, through   *)
(* replacements, slow consumers, departures and expiry in any order        *)
(* (attach_room, cleanup_attachments, unregister).                         *)
NoGhost == \A a \in Attachment : Online(a.session, a.peer) => Holder(a)

(* Whatever clients send and whichever database calls fail, a ghost only   *)
(* comes about in two ways: attach_room stored the session as online and   *)
(* the hub then refused the connection because it had been evicted, or the *)
(* detach itself failed.  Nothing ever takes these back.                   *)
GhostsWereAbandoned ==
    \A a \in Attachment : Online(a.session, a.peer) => Holder(a) \/ a \in abandoned

(* Nothing is on its way between the database and the hub.                 *)
Quiet == \A t \in Tasks : Resting(t)

(* Once all is quiet, a member that is attached to the hub is stored as    *)
(* online with the peer id it attached with, so a replacement attached by  *)
(* attach_room survives the clean-up after the connection it replaced.     *)
ConnectedIsOnline ==
    Quiet => \A c \in Connections :
               LET a == hub.connections[c].attachment
               IN  a # NoAttachment /\ R!IsMember(room, a.session) => Online(a.session, a.peer)

(* Once the reader of every socket of a session has left its loop, the     *)
(* session is taken offline, unless it connects again or has become one of *)
(* the ghosts above.                                                       *)
Gone(s) == \A c \in Connections :
               task[c].session # s \/ At(c, "unregister") \/ task[c].then = "ended"

OfflineOnceGone ==
    \A s \in Sessions :
        Gone(s) ~> \/ ~Gone(s)
                   \/ room.memberships[s].state # "online"
                   \/ \E a \in abandoned : Online(s, a.peer) /\ a.session = s
=============================================================================

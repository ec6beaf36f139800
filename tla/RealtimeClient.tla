--------------------------- MODULE RealtimeClient ---------------------------
(***************************************************************************)
(* One browser and its room: the page (ClientApp) with its WebSocket, its  *)
(* HTTP calls, its timers and page reloads, against the server that        *)
(* commits changes of the room first and announces them afterwards, in     *)
(* whichever order its tasks get to it (http_api.rs, commands.rs,          *)
(* maintenance.rs).  The room is what the page can see of it: Room,        *)
(* Presence and RealtimeHub have the rest.                                 *)
(***************************************************************************)
EXTENDS ClientApp, Sequences

CONSTANTS
    MaxRevision,     \* a bound on the changes of the room
    MaxEntries,      \* a bound on the targets made by one page
    Faults,          \* the kinds of Budgets' functions
    Budgets          \* per role, how often what may happen: see Spend

ASSUME ClientAssumption ==
    /\ Mine \in Requests
    /\ MaxRevision \in Nat \ {0} /\ MaxEntries \in Nat
    /\ Faults = {"close", "error", "replaced", "fail", "reload", "lifecycle", "user",
                 "requests", "decides", "presence", "expires"}
    /\ \A role \in {"owner", "receiver"} : Budgets[role] \subseteq [Faults -> Nat]

VARIABLES
    room,        \* the stored room
    announcing,  \* changes committed and not yet broadcast
    conn,        \* the server's task for the page's socket
    inbox,       \* what it has sent and the page has not yet handled
    app,         \* the page
    stored,      \* the room session in the browser's storage
    left,        \* what is left of the budgets
    missed       \* history: a broadcast fell between a read and the hub, or a
                 \* call of the page for the state of the room failed

vars == <<room, announcing, conn, inbox, app, stored, left, missed>>

RequestStates == {"none", "pending", "approved", "rejected", "cancelled", "expired", "left"}

(* The server's view of the room, as bootstrap_room gives it to this page. *)
Pending(r) == {q \in Requests : r.requests[q] = "pending"}
ViewOf(r, pending) == [revision |-> r.revision, pending |-> pending,
                       members |-> r.members, online |-> r.online]
Bootstrap == ViewOf(room, IF app.role = "owner" THEN Pending(room) ELSE Pending(room) \cap {Mine})

IsMember == IF app.role = "owner" THEN room.revision > 0 ELSE room.requests[Mine] = "approved"

Message(kind, revision, about, decision) ==
    [kind |-> kind, revision |-> revision, about |-> about, decision |-> decision,
     view |-> NoView]
SnapshotOf(view) == [Message("snapshot", view.revision, Self, "none") EXCEPT !.view = view]

(* The server's task: where it is, whether it watches a join request, the  *)
(* revision the page says it has, what it has read.                        *)
NoConn == [pc |-> "none", watch |-> FALSE, last |-> 0, revision |-> 0, view |-> NoView,
           changed |-> FALSE]

(* In the hub's room_connections: broadcasts reach the socket.             *)
InHub == conn.pc \in {"attached", "snapshot", "idle"}

Init ==
    \E role \in {"owner", "receiver"} :
        /\ room = [revision |-> IF role = "owner" THEN 0 ELSE 1,
                   requests |-> [q \in Requests |-> "none"],
                   members |-> IF role = "owner" THEN {} ELSE {Host},
                   online |-> {}, here |-> FALSE, expired |-> FALSE]
        /\ announcing = {}
        /\ conn = NoConn
        /\ inbox = <<>>
        /\ app = Spawn(NewApp(role), "boot")
        /\ stored = FALSE
        /\ left \in Budgets[role]
        /\ missed = FALSE

Spend(fault) == left[fault] > 0 /\ left' = [left EXCEPT ![fault] = @ - 1]

(* persist_room_session with every new target, clear_room_session with     *)
(* every return to the lobby.                                              *)
StoredAfter(a) == IF a.target = app.target THEN stored ELSE a.target # 0

(* The page becomes a; when it has let go of its socket, the server's task *)
(* ends (what that does to the room is GoOffline).                         *)
PageBecomes(a) ==
    /\ app' = a
    /\ IF a.socket \in {"none", "closed"} THEN conn' = NoConn /\ inbox' = <<>>
                                         ELSE UNCHANGED <<conn, inbox>>
    /\ stored' = StoredAfter(a)

----------------------------------------------------------------------------
(* Changes of the room: commit, and announce later.                        *)

Active == ~room.expired    \* ensure_active

Commit(r, kind, about, decision) ==
    /\ room.revision < MaxRevision
    /\ room' = [r EXCEPT !.revision = @ + 1]
    /\ announcing' = announcing \cup {Message(kind, room.revision + 1, about, decision)}

OtherRequests(q) ==
    /\ Active /\ room.revision > 0 /\ q # Mine /\ room.requests[q] = "none"
    /\ Commit([room EXCEPT !.requests[q] = "pending"], "requested", q, "none")
    /\ Spend("requests") /\ UNCHANGED <<conn, inbox, app, stored, missed>>

Decided(r, q, d) ==
    [r EXCEPT !.requests[q] = d,
              !.members = IF d = "approved" /\ q # Mine THEN @ \cup {q} ELSE @]

HostDecides(q, d) ==
    /\ Active /\ app.role = "receiver" /\ room.requests[q] = "pending"
    /\ Commit(Decided(room, q, d), "decided", q, d)
    /\ Spend("decides") /\ UNCHANGED <<conn, inbox, app, stored, missed>>

(* attach needs an active room, detach does not.                           *)
OtherPresence(s) ==
    /\ s \in room.members
    /\ IF s \in room.online
       THEN Commit([room EXCEPT !.online = @ \ {s}], "offline", s, "none")
       ELSE Active /\ Commit([room EXCEPT !.online = @ \cup {s}], "online", s, "none")
    /\ Spend("presence") /\ UNCHANGED <<conn, inbox, app, stored, missed>>

(* Maintenance: a request expires, announced as a snapshot read later, as  *)
(* the owner sees it; the room expires with the requests that wait.        *)
RequestExpires(q) ==
    /\ Active /\ room.requests[q] = "pending"
    /\ Commit([room EXCEPT !.requests[q] = "expired"], "pruned", q, "none")
    /\ Spend("expires") /\ UNCHANGED <<conn, inbox, app, stored, missed>>

ExpireRequest(state) == IF state = "pending" THEN "expired" ELSE state

RoomExpires ==
    /\ Active /\ room.revision > 0
    /\ Commit([room EXCEPT !.expired = TRUE,
                           !.requests = [q \in Requests |-> ExpireRequest(room.requests[q])]],
              "expired", Self, "none")
    /\ Spend("expires") /\ UNCHANGED <<conn, inbox, app, stored, missed>>

(* The host of the receiver's room leaves: requests stay as they are.      *)
HostLeaves ==
    /\ Active /\ app.role = "receiver"
    /\ Commit([room EXCEPT !.expired = TRUE], "expired", Self, "none")
    /\ Spend("expires") /\ UNCHANGED <<conn, inbox, app, stored, missed>>

ReadPruned(e) ==
    /\ e \in announcing /\ e.kind = "pruned"
    /\ announcing' = (announcing \ {e}) \cup {SnapshotOf(ViewOf(room, Pending(room)))}
    /\ UNCHANGED <<room, conn, inbox, app, stored, left, missed>>

(* The page's socket is gone: cleanup_attachments takes it offline.        *)
GoOffline ==
    /\ room.here /\ conn.pc = "none"
    /\ Commit([room EXCEPT !.here = FALSE], "offline", Self, "none")
    /\ UNCHANGED <<conn, inbox, app, stored, left, missed>>

(* The socket is not in the hub yet and nothing the task has read or will  *)
(* read has the change (a snapshot does not say that the room expired).    *)
Misses(e) ==
    IF e.kind = "expired" THEN ~InHub
    ELSE /\ conn.pc = "hub"
         /\ IF conn.watch
            THEN e.revision > conn.view.revision
            ELSE e.revision > conn.revision /\ conn.last = conn.revision

(* hub.broadcast; disconnect_room after an expiry, disconnect_session      *)
(* after the page's own leave.                                             *)
Disconnects(e) == e.kind = "expired" \/ e.decision = "left"

Broadcast(e) ==
    /\ e \in announcing /\ e.kind # "pruned"
    /\ announcing' = announcing \ {e}
    /\ inbox' = IF InHub THEN Append(inbox, e) ELSE inbox
    /\ conn' = IF InHub /\ Disconnects(e) THEN [NoConn EXCEPT !.pc = "closing"] ELSE conn
    /\ missed' = (missed \/ Misses(e))
    /\ UNCHANGED <<room, app, stored, left>>

----------------------------------------------------------------------------
(* The server's task of the socket: attach_room and watch_join_request.    *)

(* AttachRoom's command; an error closes the socket.                       *)
AttachCommit ==
    LET changed == ~room.here
    IN  /\ conn.pc = "commit"
        /\ IF ~IsMember \/ room.expired
           THEN conn' = [conn EXCEPT !.pc = "closing"] /\ UNCHANGED room
           ELSE /\ changed => room.revision < MaxRevision
                /\ room' = [room EXCEPT !.here = TRUE, !.revision = IF changed THEN @ + 1 ELSE @]
                /\ conn' = [conn EXCEPT !.pc = "hub", !.changed = changed,
                                        !.revision = room'.revision]
        /\ UNCHANGED <<announcing, inbox, app, stored, left, missed>>

(* WatchJoinRequest: the status, and the snapshot.                         *)
WatchStatus ==
    /\ conn.pc = "status"
    /\ IF room.requests[Mine] = "pending"
       THEN conn' = [conn EXCEPT !.pc = "watch", !.revision = room.revision] /\ UNCHANGED inbox
       ELSE /\ conn' = [conn EXCEPT !.pc = "closing"]
            /\ inbox' = Append(inbox, Message("resolved", room.revision, Self, "none"))
    /\ UNCHANGED <<room, announcing, app, stored, left, missed>>

WatchRead ==
    /\ conn.pc = "watch"
    /\ conn' = [conn EXCEPT !.pc = "hub", !.view = Bootstrap]
    /\ UNCHANGED <<room, announcing, inbox, app, stored, left, missed>>

EnterHub ==
    /\ conn.pc = "hub"
    /\ conn' = [conn EXCEPT !.pc = "attached"]
    /\ UNCHANGED <<room, announcing, inbox, app, stored, left, missed>>

(* PeerOnline, once the page has been told.                                *)
ToAnnounce ==
    announcing \cup
      (IF conn.changed THEN {Message("online", conn.revision, Self, "none")} ELSE {})

(* Attached or JoinWatching, and bootstrap_room if the page needs it (what *)
(* it reads can be read at once: the message does not depend on the room). *)
SendAttached ==
    LET view == IF conn.watch THEN conn.view ELSE Bootstrap
        done == conn.last = (IF conn.watch THEN conn.view.revision ELSE conn.revision)
    IN  /\ conn.pc = "attached"
        /\ inbox' = Append(inbox, Message("attached", conn.revision, Self, "none"))
        /\ conn' = IF done THEN [NoConn EXCEPT !.pc = "idle"]
                   ELSE [conn EXCEPT !.pc = "snapshot", !.view = view]
        /\ announcing' = IF done THEN ToAnnounce ELSE announcing
        /\ UNCHANGED <<room, app, stored, left, missed>>

SendSnapshot ==
    /\ conn.pc = "snapshot"
    /\ inbox' = Append(inbox, SnapshotOf(conn.view))
    /\ conn' = [NoConn EXCEPT !.pc = "idle"]
    /\ announcing' = ToAnnounce
    /\ UNCHANGED <<room, app, stored, left, missed>>

ServerStep ==
    \/ AttachCommit \/ WatchStatus \/ WatchRead \/ EnterHub
    \/ SendAttached \/ SendSnapshot

----------------------------------------------------------------------------
(* The page: its effect, its socket and what arrives on it.                *)

RunsEffect ==
    /\ app.due
    /\ \/ app' = RunEffect(app, TRUE) /\ UNCHANGED left
       \/ app' = RunEffect(app, FALSE) /\ app.target # 0 /\ Spend("error")
    /\ conn' = IF app'.socket = "connecting"
               THEN [NoConn EXCEPT !.pc = "opening", !.watch = app.kind = "waiting",
                                   !.last = app.cursor.applied]
               ELSE NoConn
    /\ inbox' = <<>>
    /\ UNCHANGED <<room, announcing, stored, missed>>

SocketOpens ==
    /\ app.socket = "connecting"
    /\ app' = [app EXCEPT !.socket = "open",
                          !.phase = IF SocketLeaseIsCurrent(app) THEN "connecting" ELSE @]
    /\ conn' = [conn EXCEPT !.pc = IF conn.watch THEN "status" ELSE "commit"]
    /\ UNCHANGED <<room, announcing, inbox, stored, left, missed>>

Handle(a, m) ==
    CASE m.kind = "attached" -> HandleAttachment(a, m.revision)
      [] m.kind = "snapshot" -> HandleSnapshot(a, m.view)
      [] m.kind = "expired"  -> HandleExpired(a, m.revision)
      [] m.kind = "resolved" -> ResolveWaiting(a)
      [] OTHER               -> HandleEvent(a, m)

Deliver ==
    /\ app.socket = "open" /\ inbox # <<>>
    /\ inbox' = Tail(inbox)
    /\ app' = IF SocketLeaseIsCurrent(app) THEN Handle(app, Head(inbox)) ELSE app
    /\ stored' = StoredAfter(app')
    /\ UNCHANGED <<room, announcing, conn, left, missed>>

(* The server has refused the socket, or the connection breaks.            *)
SocketCloses ==
    LET a == [app EXCEPT !.socket = "closed"]
    IN  /\ app.socket \in {"connecting", "open"}
        /\ \/ conn.pc = "closing" /\ inbox = <<>> /\ UNCHANGED left
           \/ Spend("close")
        /\ PageBecomes(IF SocketLeaseIsCurrent(app) THEN ReconnectSocket(a) ELSE a)
        /\ UNCHANGED <<room, announcing, missed>>

(* Another page of the session attaches: connection_replaced, close 4001.  *)
SocketReplaced ==
    LET a == [app EXCEPT !.socket = "closed"]
    IN  /\ InHub /\ Spend("replaced")
        /\ PageBecomes(IF SocketLeaseIsCurrent(app) THEN Suppress(a) ELSE a)
        /\ UNCHANGED <<room, announcing, missed>>

(* A frame that cannot be decoded, or an error event.                      *)
SocketError ==
    /\ app.socket \in {"connecting", "open"} /\ SocketLeaseIsCurrent(app) /\ Spend("error")
    /\ app' = [app EXCEPT !.phase = "reconnecting"]
    /\ UNCHANGED <<room, announcing, conn, inbox, stored, missed>>

Lifecycle(e) ==
    /\ Spend("lifecycle")
    /\ PageBecomes(HandleLifecycle(app, e))
    /\ UNCHANGED <<room, announcing, missed>>

(* The page's timers.                                                      *)
Fire(j) ==
    LET a == [app EXCEPT !.jobs = @ \ {j}]
    IN  /\ j \in app.jobs /\ j.kind \notin Calls
        /\ PageBecomes(
             CASE j.kind = "timer" -> FireTimer(a, j)
               [] j.kind = "clear" /\ LeaseIsCurrent(a, j) -> [a EXCEPT !.socket = "none"]
               [] j.kind = "drop" /\ a.suppressed = j.target ->
                    [a EXCEPT !.socket = "none"]
               [] OTHER -> a)
        /\ UNCHANGED <<room, announcing, left, missed>>

----------------------------------------------------------------------------
(* The page's HTTP calls: asked, answered by the server, taken up.         *)

Asks(kind, request, status) ==
    [NewJob(kind, app) EXCEPT !.request = request, !.status = status, !.view = At(app.view.revision)]

SubmitCreateRoom ==
    /\ app.role = "owner" /\ app.kind = "lobby" /\ ~app.busy /\ room.revision = 0
    /\ app' = Spawn([app EXCEPT !.busy = TRUE], "create")
    /\ UNCHANGED <<room, announcing, conn, inbox, stored, left, missed>>

SubmitJoin ==
    /\ app.role = "receiver" /\ app.kind = "lobby" /\ ~app.busy /\ room.requests[Mine] = "none"
    /\ app' = Spawn([app EXCEPT !.busy = TRUE], "join")
    /\ UNCHANGED <<room, announcing, conn, inbox, stored, left, missed>>

SubmitDecision(q, d) ==
    /\ app.role = "owner" /\ app.kind = "room" /\ app.decision = NoRequest /\ q \in app.view.pending
    /\ Spend("user")
    /\ app' = [app EXCEPT !.decision = q, !.jobs = @ \cup {Asks("decide", q, d)}]
    /\ UNCHANGED <<room, announcing, conn, inbox, stored, missed>>

AsksToLeave(kind) ==
    /\ app.kind = kind /\ ~app.busy
    /\ Spend("user")
    /\ app' = [app EXCEPT !.busy = TRUE, !.jobs = @ \cup {Asks("leave", NoRequest, "none")}]
    /\ UNCHANGED <<room, announcing, conn, inbox, stored, missed>>

SubmitLeave == AsksToLeave("room")
SubmitCancelWaiting == AsksToLeave("waiting")

Replies(j, answer) == app' = [app EXCEPT !.jobs = (@ \ {j}) \cup {answer}]
Done(j) == [j EXCEPT !.at = "answered"]
Failed(j) == [j EXCEPT !.at = "failed", !.view = NoView]

Reads(j) ==
    CASE j.kind \in {"status", "restore_status"} ->
           [Done(j) EXCEPT !.status = room.requests[Mine],
                           !.view = IF room.requests[Mine] = "pending" THEN At(room.revision) ELSE @]
      [] j.kind = "restore" ->
           [Done(j) EXCEPT !.status = IF IsMember THEN "approved" ELSE "none", !.view = Bootstrap]
      [] j.kind = "boot" -> Done(j)
      [] OTHER -> [Done(j) EXCEPT !.view = Bootstrap]

AnswerRead(j) ==
    /\ j \in app.jobs /\ j.at = "asked"
    /\ j.kind \in Calls \ {"decide", "leave", "create", "join"}
    /\ Replies(j, Reads(j))
    /\ UNCHANGED <<room, announcing, conn, inbox, stored, left, missed>>

(* decide_join, leave_room (with the revision the page showed), request_   *)
(* join and create_room.  The answer to a change may be lost.              *)
Effective(j) ==
    CASE j.kind = "decide" ->
           Active /\ room.revision = j.view.revision /\ room.requests[j.request] = "pending"
      [] j.kind = "leave" ->
           /\ room.revision = j.view.revision
           /\ app.role = "owner" \/ room.requests[Mine] \in {"pending", "approved", "left"}
      [] OTHER -> Active

(* leave: the owner ends the room; done already, it changes nothing.  It   *)
(* is announced either way, as the end of a room that has ended.           *)
LeaveRoom(r) ==
    IF app.role = "owner" THEN [r EXCEPT !.expired = TRUE]
    ELSE [r EXCEPT !.requests[Mine] = IF @ = "pending" THEN "cancelled" ELSE "left", !.here = FALSE]

Leaves ==
    LET r        == LeaveRoom(room)
        kind     == IF r.expired THEN "expired" ELSE "offline"
        decision == IF r.expired THEN "none" ELSE "left"
    IN  \/ r # room /\ Commit(r, kind, Self, decision)
        \/ /\ r = room /\ UNCHANGED room
           /\ announcing' = announcing \cup {Message(kind, room.revision, Self, decision)}

Change(j) ==
    CASE j.kind = "decide" -> Commit(Decided(room, j.request, j.status), "decided", j.request, j.status)
      [] j.kind = "leave" -> Leaves
      [] j.kind = "join" -> Commit([room EXCEPT !.requests[Mine] = "pending"], "requested", Mine, "none")
      [] j.kind = "create" -> room' = [room EXCEPT !.revision = 1] /\ UNCHANGED announcing

AnswerChange(j) ==
    LET answer == [Done(j) EXCEPT !.view = At(room'.revision)]
    IN  /\ j \in app.jobs /\ j.at = "asked" /\ j.kind \in {"decide", "leave", "create", "join"}
        /\ \/ /\ Effective(j)
              /\ Change(j)
              /\ \/ Replies(j, answer) /\ UNCHANGED left
                 \/ Replies(j, Failed(j)) /\ Spend("fail")
           \/ /\ ~Effective(j)
              /\ Replies(j, Failed(j))
              /\ UNCHANGED <<room, announcing, left>>
        /\ UNCHANGED <<conn, inbox, stored, missed>>

CallFails(j) ==
    /\ j \in app.jobs /\ j.at = "asked" /\ j.kind \in Calls /\ Spend("fail")
    /\ Replies(j, Failed(j))
    /\ missed' = (missed \/ j.kind \in Leased)
    /\ UNCHANGED <<room, announcing, conn, inbox, stored>>

(* What the page does with an answer: the lease, the decision or the scope *)
(* of a call may have gone while it was under way.                         *)
LeasedCall(a, j) ==
    CASE j.kind = "refresh" -> HandleSnapshot(a, j.view)
      [] j.kind = "recover" ->
           IF SnapshotAllowed(a, j.view) THEN ApplyAuthoritativeSnapshot(a, j.view) ELSE a
      [] j.kind = "status" /\ j.status \in {"approved", "left"} -> Spawn(a, "enter")
      [] j.kind = "status" /\ j.status \in {"rejected", "cancelled", "expired"} -> ReturnToLobby(a)
      [] j.kind = "enter" -> Enter(a, "room", j.view)
      [] OTHER -> a

DecisionIsCurrent(a, j) == a.target = j.target /\ a.decision = j.request

DecisionCall(a, j) ==
    CASE j.kind = "decide" /\ j.at = "answered" ->
           [a EXCEPT !.jobs = @ \cup {[NewJob("decided", a) EXCEPT !.request = j.request]}]
      [] j.kind = "decided" /\ j.at = "answered" /\ SnapshotFits(a, j.view) ->
           [ShowSnapshot(a, j.view) EXCEPT !.decision = NoRequest]
      [] OTHER -> [a EXCEPT !.decision = NoRequest]

EntryCall(a, j) ==
    LET b == [a EXCEPT !.busy = FALSE]
    IN  IF j.at = "failed" THEN b
        ELSE Enter(b, IF j.kind = "create" THEN "room" ELSE "waiting", j.view)

(* The scope of a leave or a cancel: still the same screen and target.     *)
LeaveCall(a, j) ==
    CASE a.target # j.target -> a
      [] a.target = j.target /\ j.at = "answered" -> ReturnToLobby(a)
      [] OTHER -> [a EXCEPT !.busy = FALSE]

(* initialize: with a session the stored room is restored.                 *)
BootCall(a, j) ==
    IF j.at = "answered" /\ stored THEN Spawn(a, "restore") ELSE [a EXCEPT !.kind = "lobby"]

(* restore_room: a member enters the room, and a requester waits again.    *)
RestoreCall(a, j) ==
    CASE j.at = "answered" /\ j.status = "approved" -> Enter(a, "room", j.view)
      [] j.at = "answered" /\ j.kind = "restore" /\ a.role = "receiver" /\ j.status # "approved" ->
           [a EXCEPT !.jobs = @ \cup {[NewJob("restore_status", a) EXCEPT !.view = j.view]}]
      [] j.at = "answered" /\ j.kind = "restore_status" /\ j.status = "pending" ->
           Enter(a, "waiting", j.view)
      [] OTHER -> [a EXCEPT !.kind = "lobby"]

Resume(j) ==
    LET a == [app EXCEPT !.jobs = @ \ {j}]
        b == CASE j.kind \in Leased ->
                    IF LeaseIsCurrent(a, j) /\ j.at = "answered" THEN LeasedCall(a, j) ELSE a
               [] j.kind \in {"decide", "decided"} ->
                    IF DecisionIsCurrent(a, j) THEN DecisionCall(a, j) ELSE a
               [] j.kind = "leave" -> LeaveCall(a, j)
               [] j.kind \in {"create", "join"} -> EntryCall(a, j)
               [] j.kind = "boot" -> BootCall(a, j)
               [] OTHER -> RestoreCall(a, j)
    IN  /\ j \in app.jobs /\ j.kind \in Calls /\ j.at # "asked"
        /\ b.entries <= MaxEntries
        /\ app' = b
        /\ stored' = IF b.kind = "lobby" /\ a.kind # "lobby" /\ j.kind # "boot"
                     THEN FALSE ELSE StoredAfter(b)
        /\ UNCHANGED <<room, announcing, conn, inbox, left, missed>>

(* The page is reloaded: only the stored session is left.                  *)
Reload ==
    /\ Spend("reload")
    /\ app' = Spawn(NewApp(app.role), "boot")
    /\ conn' = NoConn /\ inbox' = <<>>
    /\ UNCHANGED <<room, announcing, stored, missed>>

----------------------------------------------------------------------------

RoomChanges ==
    \/ \E q \in Requests : OtherRequests(q) \/ RequestExpires(q)
    \/ \E q \in Requests, d \in {"approved", "rejected"} : HostDecides(q, d)
    \/ \E s \in Others : OtherPresence(s)
    \/ RoomExpires \/ HostLeaves

UserActs ==
    \/ SubmitCreateRoom \/ SubmitJoin \/ SubmitLeave \/ SubmitCancelWaiting
    \/ \E q \in Requests, d \in {"approved", "rejected"} : SubmitDecision(q, d)

Trouble ==
    \/ SocketReplaced \/ SocketError \/ Reload
    \/ \E e \in LifecycleEvents : Lifecycle(e)
    \/ \E j \in app.jobs : CallFails(j)

(* What happens by itself, sooner or later: the server's tasks, the        *)
(* network and the page's own work.                                        *)
Announces == \E e \in announcing : ReadPruned(e) \/ Broadcast(e)
Answers == \E j \in app.jobs : AnswerRead(j) \/ AnswerChange(j)
Resumes == \E j \in app.jobs : Resume(j)
Fires == \E j \in app.jobs : Fire(j)

Next ==
    \/ RoomChanges \/ UserActs \/ Trouble \/ GoOffline
    \/ ServerStep \/ Announces \/ Answers \/ Resumes \/ Fires
    \/ RunsEffect \/ SocketOpens \/ Deliver \/ SocketCloses

Spec == Init /\ [][Next]_vars

(* The delay of a retry grows to 8 s (delay_ms), so a call of the waiting  *)
(* page, which every retry makes again, is once answered before the next.  *)
FairSpec ==
    /\ Spec
    /\ WF_vars(ServerStep) /\ WF_vars(Announces) /\ WF_vars(Fires)
    /\ WF_vars(Answers) /\ WF_vars(Resumes)
    /\ \A kind \in {"status", "enter"} :
          /\ SF_vars(\E j \in app.jobs : j.kind = kind /\ AnswerRead(j))
          /\ SF_vars(\E j \in app.jobs : j.kind = kind /\ Resume(j))
    /\ WF_vars(RunsEffect) /\ WF_vars(SocketOpens) /\ WF_vars(Deliver) /\ WF_vars(SocketCloses)

----------------------------------------------------------------------------
(* Properties.                                                             *)

Views == [revision : 0..MaxRevision, pending : SUBSET Requests, members : SUBSET Others,
          online : SUBSET Others]

TypeOK ==
    /\ room.revision \in 0..MaxRevision /\ room.requests \in [Requests -> RequestStates]
    /\ room.online \subseteq room.members /\ room.members \subseteq Others
    /\ \A e \in announcing : e.revision \in 1..MaxRevision /\ e.view \in Views
    /\ conn.last \in 0..MaxRevision /\ conn.view \in Views
    /\ app.kind \in {"booting", "lobby", "waiting", "room"} /\ app.view \in Views
    /\ app.view.online \subseteq app.view.members
    /\ app.phase \in {"disconnected", "connecting", "connected", "reconnecting", "superseded"}
    /\ {app.target, app.active, app.suppressed, app.entries} \subseteq 0..MaxEntries
    /\ app.socket \in {"none", "connecting", "open", "closed"}
    /\ \A j \in app.jobs : j.at \in {"asked", "answered", "failed"} /\ j.view \in Views
    /\ left \in [Faults -> Nat]
    /\ {stored, missed, app.due, app.busy} \subseteq BOOLEAN

(* A page that says it is reconnecting will connect again: the effect is   *)
(* due, a retry ticket can still be claimed when its time comes, or there  *)
(* is a socket that has not been closed (schedule_reconnect,               *)
(* claim_reconnect_timer, handle_browser_lifecycle_event).                 *)
RetryUnderWay ==
    app.phase = "reconnecting" =>
        \/ app.due
        \/ app.socket \in {"connecting", "open"}
        \/ \E j \in app.jobs : j.kind = "timer" /\ Claims(app, j)

(* A page that shows itself connected has a connection: README.md:55, the  *)
(* browser reconnects whenever its WebSocket is gone.                      *)
ConnectedHasSocket == app.phase = "connected" => app.socket = "open" \/ app.due

(* Once everything under way has arrived, a connected page shows who is    *)
(* online, the owner's shows the requests that wait for it, and nobody is  *)
(* left waiting for a request already decided, however the announcements   *)
(* overtook each other (the revision checks of begin_revisioned_event and  *)
(* apply_authoritative_snapshot).  Excused: a broadcast that fell between  *)
(* the server's read and its hub, and a failed call, which is not retried. *)
(* Beyond the run's budgets it fails when a reconnect drops a refresh of   *)
(* the participants, or hides from a waiting page that its host has left.  *)
Settled ==
    /\ app.phase = "connected" /\ app.socket = "open" /\ conn.pc = "idle"
    /\ inbox = <<>> /\ announcing = {} /\ app.jobs = {} /\ ~app.due

ShowsTheRoom ==
    Settled /\ ~missed =>
        /\ ~room.expired
        /\ app.kind = "room" => app.view.online = room.online
        /\ app.role = "owner" => app.view.pending = Pending(room)
        /\ app.kind = "waiting" => room.requests[Mine] = "pending"

(* Within one stay in a room the page never goes back to an older state of *)
(* it (snapshot_revision_allowed, revision_step).                          *)
NeverGoesBack ==
    [][app'.target = app.target /\ OnScreen(app) /\ OnScreen(app') =>
           app'.view.revision >= app.view.revision]_vars

(* A page replaced by another one of its session never connects again by   *)
(* itself: it would take the session back (suppress_realtime_connection).  *)
SupersededIsFinal ==
    [][app.phase = "superseded" /\ app'.target = app.target /\ app'.entries = app.entries
           => app'.phase = "superseded" /\ app'.socket \notin {"connecting", "open"}]_vars

(* A receiver whose request has been decided does not wait for ever.       *)
(* Excused as above, and a page that believes itself connected without a   *)
(* socket (ConnectedHasSocket).                                            *)
WaitingEnds ==
    app.kind = "waiting" /\ room.requests[Mine] \in {"approved", "rejected", "expired"} ~>
        \/ app.kind # "waiting" \/ missed
        \/ app.phase = "superseded" \/ ~ConnectedHasSocket
=============================================================================

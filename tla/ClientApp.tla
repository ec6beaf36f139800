----------------------------- MODULE ClientApp ------------------------------
(***************************************************************************)
(* The page of rust/apps/web as far as its control connection goes: which  *)
(* screen it shows, the realtime target it wants to be attached to and how *)
(* far it has followed the room, the connection state with its leases and  *)
(* retry tickets, and the browser's lifecycle.  The page is one record and *)
(* every handler is an operator from page to page.                         *)
(*                                                                         *)
(* A lease, a retry ticket or a suppression holds an Rc and is only ever   *)
(* compared with the current one.  Once a fresh Rc is made, what was       *)
(* spawned with an older one finds that out when it resumes, and does      *)
(* nothing: such jobs leave the model when the fresh Rc is made.           *)
(***************************************************************************)
EXTENDS Naturals

CONSTANTS
    Requests,    \* join request ids
    Mine,        \* the one this browser sends, when it is a receiver
    Host,        \* the owner's session, when this browser is a receiver
    Self,        \* this browser's own session
    NoRequest

(* Another requester's session is named by its request.                    *)
Others == {Host} \cup (Requests \ {Mine})

(* RoomBootstrapResponse: the other participants, who of them is online,   *)
(* and the pending requests.                                               *)
NoView == [revision |-> 0, pending |-> {}, members |-> {}, online |-> {}]
At(revision) == [NoView EXCEPT !.revision = revision]

(* RevisionCursor *)
Later(m, n) == IF m < n THEN n ELSE m

NewCursor(r) == [last |-> r, applied |-> r, awaiting |-> FALSE]
Observe(c, r) == [c EXCEPT !.last = Later(@, r)]
ReconcileApplied(c, r) == [Observe(c, r) EXCEPT !.applied = Later(@, r)]
MarkApplied(c, r) == [ReconcileApplied(c, r) EXCEPT !.awaiting = FALSE]
MarkSnapshotPending(c, r) == [Observe(c, r) EXCEPT !.awaiting = TRUE]

----------------------------------------------------------------------------
(* The page.  socket is the WebSocket it holds; an event of the socket     *)
(* carries the lease of the connection made last, whose target is active.  *)
(* due: the effect of use_realtime_connection has to run again.  role: the  *)
(* part this browser plays, "owner" or "receiver".                          *)

NewApp(role) ==
    [kind |-> "booting", role |-> role, view |-> NoView, phase |-> "disconnected",
     target |-> 0, entries |-> 0, cursor |-> NewCursor(0),
     active |-> 0, suppressed |-> 0, backoff |-> 0, due |-> FALSE,
     socket |-> "none", jobs |-> {}, busy |-> FALSE, decision |-> NoRequest,
     life |-> [hidden |-> FALSE, network_recovery_pending |-> FALSE,
               recovery |-> 0, rebuild |-> FALSE]]

(* What the page has spawned and still waits for: timers (timer, and the   *)
(* deferred disposals clear and drop) and HTTP calls.                      *)
Leased == {"timer", "clear", "drop", "refresh", "recover", "status", "enter"}
Calls == {"refresh", "recover", "status", "enter", "decide", "decided", "leave",
          "create", "join", "boot", "restore", "restore_status"}

NewJob(kind, a) ==
    [kind |-> kind, target |-> a.target, at |-> "asked", view |-> NoView,
     request |-> NoRequest, status |-> "none"]

Spawn(a, kind) == [a EXCEPT !.jobs = @ \cup {NewJob(kind, a)}]

(* Rc::new for the generation, and for the retry token.                    *)
Invalidate(a) == [a EXCEPT !.jobs = {j \in @ : j.kind \notin Leased}]
NewToken(a) == [a EXCEPT !.jobs = {j \in @ : j.kind # "timer"}]

LeaseIsCurrent(a, j) ==
    a.target = j.target /\ a.active = j.target /\ a.suppressed # j.target

(* The same for the lease of the socket's events.                          *)
SocketLeaseIsCurrent(a) == a.active # 0 /\ a.target = a.active /\ a.suppressed # a.active

(* current_lease and retry_ticket, then the spawned timer.                 *)
ScheduleReconnect(a) ==
    IF a.active = a.target /\ a.suppressed # a.target THEN Spawn(a, "timer") ELSE a

(* claim_reconnect_timer (backoff_attempt only changes with the token).    *)
Claims(a, j) ==
    /\ a.phase = "reconnecting"
    /\ LeaseIsCurrent(a, j)

FireTimer(a, j) ==
    IF Claims(a, j)
    THEN [NewToken(a) EXCEPT !.backoff = 1, !.due = TRUE]
    ELSE a

(* return_to_lobby, and a screen with a fresh target.                      *)
ReturnToLobby(a) ==
    [a EXCEPT !.kind = "lobby", !.view = NoView, !.phase = "disconnected", !.target = 0,
              !.cursor = NewCursor(0), !.due = TRUE, !.busy = FALSE, !.decision = NoRequest]

Enter(a, kind, view) ==
    [a EXCEPT !.kind = kind, !.view = view, !.target = a.entries + 1, !.entries = @ + 1,
              !.cursor = NewCursor(view.revision), !.due = TRUE]

(* use_realtime_connection: the effect.  connects: connect_realtime makes  *)
(* a WebSocket.                                                            *)
RunEffect(a, connects) ==
    LET changed == a.active # a.target
        begun   == IF changed
                   THEN [NewToken(Invalidate(a)) EXCEPT !.backoff = 0, !.suppressed = 0]
                   ELSE Invalidate(a)
        b       == [begun EXCEPT !.active = a.target, !.due = FALSE, !.socket = "none",
                                 !.life.recovery = IF @ = a.target THEN @ ELSE 0,
                                 !.life.rebuild = @ /\ a.life.recovery = a.target]
    IN  CASE a.target = 0 -> [b EXCEPT !.phase = "disconnected"]
          [] a.target # 0 /\ b.suppressed = a.target -> [b EXCEPT !.phase = "superseded"]
          [] OTHER ->
               IF connects
               THEN [b EXCEPT !.socket = "connecting",
                              !.phase = IF b.backoff = 0 THEN "connecting" ELSE "reconnecting"]
               ELSE ScheduleReconnect([b EXCEPT !.phase = "reconnecting"])

----------------------------------------------------------------------------
(* What the messages of the room do to the page.                           *)

OnScreen(a) == a.kind \in {"waiting", "room"}    \* screen_revision is Some

(* mark_realtime_connected, then complete_attachment; the peers it syncs   *)
(* and rebuilds are left to Signaling.                                     *)
CompleteAttachment(a) ==
    [NewToken(a) EXCEPT !.backoff = 0, !.phase = "connected",
                        !.life.recovery = 0, !.life.rebuild = FALSE]

HandleAttachment(a, r) ==
    LET known == ReconcileApplied(a.cursor, a.view.revision)
    IN  CASE ~OnScreen(a) -> a
          [] OnScreen(a) /\ r = a.view.revision ->
               CompleteAttachment([a EXCEPT !.cursor = MarkApplied(known, r)])
          [] OTHER -> [a EXCEPT !.cursor = MarkSnapshotPending(known, r)]

(* reduce_authoritative_snapshot: Some, and the page after it.             *)
SnapshotFits(a, view) == OnScreen(a) => view.revision >= a.view.revision
ShowSnapshot(a, view) ==
    CASE a.kind = "room"    -> [a EXCEPT !.view = view]
      [] a.kind = "waiting" -> [a EXCEPT !.view.revision = view.revision]
      [] OTHER              -> a

(* apply_authoritative_snapshot: its guards, and what it does.  Faulty:    *)
(* no revision is looked at.                                               *)
SnapshotAllowedAny(a, view) == OnScreen(a)
SnapshotAllowed(a, view) ==
    /\ view.revision >= a.view.revision
    /\ view.revision >= a.cursor.last

ApplyAuthoritativeSnapshot(a, view) ==
    LET b == [ShowSnapshot(a, view) EXCEPT !.cursor = MarkApplied(@, view.revision)]
    IN  IF a.cursor.awaiting THEN CompleteAttachment(b) ELSE b

ResolveWaiting(a) == IF a.kind = "waiting" THEN Spawn(a, "status") ELSE a

(* handle_room_snapshot, and the end of refresh_room_snapshot.  Faulty: a  *)
(* snapshot without the page's request is only shown.                      *)
HandleSnapshotKeepsWaiting(a, view) ==
    IF SnapshotAllowed(a, view) THEN ApplyAuthoritativeSnapshot(a, view) ELSE a
HandleSnapshot(a, view) ==
    LET missing == a.kind = "waiting" /\ Mine \notin view.pending
        b       == ApplyAuthoritativeSnapshot(a, view)
    IN  IF ~SnapshotAllowed(a, view) THEN a
        ELSE IF missing THEN ResolveWaiting(b) ELSE b

(* A participant found by its session.                                     *)
MarkOnline(v, s) == [v EXCEPT !.online = @ \cup ({s} \cap v.members)]

(* reduce_revisioned_model_event, with the effects it returns.             *)
Advance(a, r) == [a EXCEPT !.view.revision = r, !.cursor = ReconcileApplied(@, r)]

ReduceEvent(a, e) ==
    LET b == IF e.kind = "decided" /\ a.decision = e.about
             THEN [a EXCEPT !.decision = NoRequest] ELSE a
        c == Advance(b, e.revision)
    IN  CASE a.kind = "room" /\ e.kind = "requested" /\ a.role = "owner" ->
               [c EXCEPT !.view.pending = @ \cup {e.about}]
          [] a.kind = "room" /\ e.kind = "decided" ->
               [c EXCEPT !.view.pending = @ \ {e.about}]
          [] a.kind = "room" /\ e.kind = "online" ->
               Spawn([c EXCEPT !.view = MarkOnline(@, e.about)], "refresh")
          [] a.kind = "room" /\ e.kind = "offline" ->
               Spawn([c EXCEPT !.view.online = @ \ {e.about}], "refresh")
          [] a.kind = "waiting" /\ e.kind = "decided" /\ e.about = Mine ->
               IF e.decision = "approved" THEN ResolveWaiting(c) ELSE ReturnToLobby(c)
          [] OTHER -> b

(* handle_revisioned_model_event: ignored, applied, or a gap.  Faulty: an  *)
(* event past a gap is applied like the next one.                          *)
HandleEventOverGap(a, e) ==
    LET seen == [a EXCEPT !.cursor = Observe(ReconcileApplied(@, a.view.revision), e.revision)]
    IN  CASE ~OnScreen(a) -> a
          [] OnScreen(a) /\ e.revision <= a.view.revision -> seen
          [] OTHER -> ReduceEvent(seen, e)
HandleEvent(a, e) ==
    LET current == a.view.revision
        known   == ReconcileApplied(a.cursor, current)
        seen    == [a EXCEPT !.cursor = Observe(known, e.revision)]
    IN  CASE ~OnScreen(a) -> a
          [] OnScreen(a) /\ e.revision <= current -> seen
          [] OnScreen(a) /\ e.revision = current + 1 -> ReduceEvent(seen, e)
          [] OTHER -> Spawn([a EXCEPT !.cursor = MarkSnapshotPending(known, e.revision)],
                            "refresh")

HandleExpired(a, r) ==
    IF OnScreen(a) /\ r >= a.view.revision THEN ReturnToLobby(a) ELSE a

(* suppress_realtime_connection, and reduce_socket_closed's reconnect.     *)
Suppress(a) == Spawn([a EXCEPT !.suppressed = a.active, !.phase = "superseded"], "drop")

ReconnectSocket(a) ==
    ScheduleReconnect(Spawn([a EXCEPT !.phase = "reconnecting"], "clear"))

----------------------------------------------------------------------------
(* The browser's lifecycle.  "returns": visible again after at least       *)
(* BACKGROUND_CONTROL_RECOVERY_MS.                                         *)

LifecycleEvents == {"hidden", "visible", "returns", "offline", "online", "resumed"}

RecoveryAction(a, e) ==
    CASE e = "online" -> "rebuild"
      [] e \in {"visible", "returns"} /\ a.life.network_recovery_pending -> "rebuild"
      [] e = "returns" -> "control"
      [] e = "resumed" /\ ~a.life.hidden -> "rebuild"
      [] OTHER -> "none"

(* The flags, and sync_target.                                             *)
NoteLifecycle(a, e) ==
    LET acts == RecoveryAction(a, e) # "none"
    IN  [a EXCEPT
           !.life.hidden = IF e \in {"visible", "returns"} THEN FALSE ELSE @ \/ e = "hidden",
           !.life.network_recovery_pending =
               CASE e = "offline" -> TRUE
                 [] e \in {"visible", "returns", "online"} /\ acts -> FALSE
                 [] OTHER -> @,
           !.life.recovery = IF @ = a.target THEN @ ELSE 0,
           !.life.rebuild = @ /\ a.life.recovery = a.target]

(* begin_recovery, invalidate_realtime_lease, the socket dropped, and      *)
(* another connection scheduled.  Faulty: scheduled with the old lease.    *)
RecoverOldLease(a, rebuild) ==
    Invalidate(ScheduleReconnect(
        [a EXCEPT !.phase = "reconnecting", !.socket = "none",
                  !.life.recovery = a.target, !.life.rebuild = @ \/ rebuild]))
Recover(a, rebuild) ==
    ScheduleReconnect(Invalidate(
        [a EXCEPT !.phase = "reconnecting", !.socket = "none",
                  !.life.recovery = a.target, !.life.rebuild = @ \/ rebuild]))

(* Faulty: a superseded page is recovered as well.                         *)
HandleLifecycleAny(a, e) ==
    LET b      == NoteLifecycle(a, e)
        action == RecoveryAction(a, e)
    IN  IF a.target = 0 \/ (e # "offline" /\ action = "none") THEN b
        ELSE Recover(b, e = "offline" \/ action = "rebuild")

HandleLifecycle(a, e) ==
    LET b      == NoteLifecycle(a, e)
        action == RecoveryAction(a, e)
        c      == Recover(b, e = "offline" \/ action = "rebuild")
    IN  CASE a.target = 0 \/ a.suppressed = a.target -> b
          [] a.target # 0 /\ a.suppressed # a.target /\ e # "offline" /\ action = "none" -> b
          [] OTHER -> IF e # "offline" /\ a.kind = "room" /\ a.active = a.target
                      THEN Spawn(c, "recover") ELSE c
=============================================================================

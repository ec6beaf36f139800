------------------------------ MODULE RtcPage ------------------------------
(***************************************************************************)
(* What one page knows of its connection to one other member of the room,  *)
(* as operators on a record: the peer's entry in the application           *)
(* (rtc_session.rs, rtc_transition.rs, rtc_orchestration.rs), the RtcPeer  *)
(* behind it (rtc/browser/signaling.rs) and the RTCPeerConnection the      *)
(* browser keeps for it.                                                   *)
(*                                                                         *)
(* A negotiation is a number.  Every RTCPeerConnection of a page belongs   *)
(* to a negotiation of its own, so that the number also stands for the     *)
(* connection_epoch: neg is 0 when peer_connection is None, and a task or  *)
(* a closure is of the current epoch when its conn is neg.                 *)
(***************************************************************************)
EXTENDS Naturals, Sequences, FiniteSets

CONSTANTS
    RetryDelays,    \* the length of RTC_RETRY_DELAYS_MS
    SignalLimit,    \* NEGOTIATION_SIGNAL_LIMIT, and the limit of pending_signals
    Gathered        \* how many ICE candidates a connection gathers

ASSUME RtcAssumption == RetryDelays \in Nat /\ SignalLimit \in Nat /\ Gathered \in Nat

NoWork == <<"none", 0>>
Works == {NoWork, <<"passive", 0>>, <<"grace", 0>>, <<"restart", 0>>}
         \cup ({"offer", "retry"} \X (0..RetryDelays))

Signal(kind, neg, k) == [kind |-> kind, neg |-> neg, k |-> k]
Candidate(neg, k) == Signal("candidate", neg, k)

(* The page of a member that has just opened the room.                     *)
NewPage(role, streamed) ==
    [role |-> role, streamed |-> streamed,
     \* the application: the registry's entry, PeerRtcState, the RTC config
     peer |-> FALSE, phase |-> "waiting", work |-> NoWork, timers |-> {},
     paused |-> FALSE, config |-> FALSE, queue |-> <<>>, sees |-> FALSE,
     \* the RtcPeer
     neg |-> 0, negotiating |-> FALSE, announced |-> FALSE, pending |-> FALSE,
     set |-> FALSE, local |-> {}, remote |-> {}, tasks |-> {},
     \* the browser: descriptions, candidates, state, data channel
     described |-> FALSE, answered |-> 0, found |-> 0, applied |-> {},
     state |-> "new", chan |-> "none",
     \* what the step sends; history: the negotiations with a signal given up
     out |-> <<>>, dropped |-> {}]

Drop(p, neg) == [p EXCEPT !.dropped = @ \cup {neg}]

-----------------------------------------------------------------------------
(* PeerRtcState: at most one piece of work is pending.  Timers with a      *)
(* token of an older work_generation are Overtaken: whatever they were     *)
(* armed for, they can do no more than find the channel open.              *)
Timer(work) == [work |-> work, live |-> TRUE]
Overtaken == [work |-> NoWork, live |-> FALSE]
Stale(timers) == {IF t.work[1] = "restart" THEN t ELSE Overtaken : t \in timers}
InvalidateWork(p) == [p EXCEPT !.work = NoWork, !.timers = Stale(@)]
ArmWork(p, work) ==
    [p EXCEPT !.work = work, !.timers = Stale(@) \cup {Timer(work)}]
WorkIsCurrent(p, t) == t.live /\ p.work = t.work

(* A streamed transfer of the peer waits for the link or is paused.        *)
Pause(p) == [p EXCEPT !.paused = p.streamed]
Resume(p) == [p EXCEPT !.paused = FALSE]

MarkFailed(p) == Pause([InvalidateWork(p) EXCEPT !.phase = "failed"])
(* Faulty: a peer that was given up does not come back by itself.          *)
MarkReadyUnlessFailed(p) ==
    IF p.phase = "failed" THEN p ELSE [InvalidateWork(p) EXCEPT !.phase = "ready"]
MarkReady(p) == [InvalidateWork(p) EXCEPT !.phase = "ready"]
BeginOwnerOffer(p, attempt) ==
    Resume([ArmWork(p, <<"offer", attempt>>) EXCEPT !.phase = "connecting"])
BeginPassiveDeadline(p) == [ArmWork(p, <<"passive", 0>>) EXCEPT !.phase = "connecting"]
ResetPeerWaiting(p) == [InvalidateWork(p) EXCEPT !.phase = "waiting"]

-----------------------------------------------------------------------------
(* The RtcPeer's connection: closed with everything known of it, or new.   *)
(* A task that waits for a promise of the closed connection does nothing   *)
(* but end when it goes on (current_promise_result): it ends here.         *)
ClearPeerResources(p) ==
    [p EXCEPT !.neg = 0, !.negotiating = FALSE, !.announced = FALSE, !.pending = FALSE,
              !.set = FALSE, !.local = {}, !.remote = {}, !.tasks = {}, !.described = FALSE,
              !.answered = 0, !.found = 0, !.applied = {}, !.state = "new", !.chan = "none"]
PrepareReconnect(p) == ClearPeerResources(p)

EnsurePeerConnection(p, n) ==
    [ClearPeerResources(p) EXCEPT !.neg = n, !.remote = {c \in p.remote : c.neg = n}]

Task(kind, conn, neg, step, cands) ==
    [kind |-> kind, conn |-> conn, neg |-> neg, step |-> step, cands |-> cands]
Spawn(p, t) == [p EXCEPT !.tasks = @ \cup {t}]

(* connection_epoch_is_current and negotiation_is_current.                 *)
IsCurrent(p, t) == p.neg = t.conn

(* start_offer, once start_owner_offer_attempt has seen that it does not   *)
(* answer AlreadyActive or RtcConfigExpired.                               *)
StartOffer(p, n) ==
    Spawn([EnsurePeerConnection(p, n) EXCEPT !.negotiating = TRUE, !.chan = "connecting"],
          Task("offer", n, n, "local", {}))

StartOwnerOfferAttempt(p, n, attempt, activeIsFailure) ==
    CASE p.neg # 0 -> IF activeIsFailure THEN MarkFailed(p) ELSE p
      [] p.neg = 0 /\ ~p.config -> MarkFailed(p)
      [] OTHER -> BeginOwnerOffer(StartOffer(p, n), attempt)
StartRtcOffer(p, n) == StartOwnerOfferAttempt(p, n, 0, FALSE)

-----------------------------------------------------------------------------
(* The registry follows the members shown online.                          *)
Kept(p) == p.chan = "open" \/ p.streamed
RemoveRtcPeer(p) ==
    [ClearPeerResources(p) EXCEPT !.peer = FALSE, !.phase = "waiting", !.work = NoWork,
                                  !.timers = {}, !.paused = FALSE]
EnsureRtcPeer(p) == [p EXCEPT !.peer = TRUE]

SyncRtcPeers(p, n) ==
    LET q == EnsureRtcPeer(p)
    IN CASE ~p.config -> p
         [] p.config /\ ~p.sees -> IF p.peer /\ ~Kept(p) THEN RemoveRtcPeer(p) ELSE p
         [] p.config /\ p.sees /\ p.role = "owner" ->
              IF q.phase = "waiting" \/ (q.phase # "ready" /\ ~q.paused)
              THEN StartRtcOffer(q, n) ELSE q
         [] OTHER -> IF q.phase = "waiting" THEN BeginPassiveDeadline(q) ELSE q

-----------------------------------------------------------------------------
(* prepare_signal_task.                                                    *)
TakesAnswer(p, s) ==
    /\ p.neg = s.neg
    /\ p.announced /\ ~p.pending /\ ~p.set
(* Faulty: a candidate of any negotiation will do.                         *)
TakesAnyCandidate(p, s) == TRUE
TakesCandidate(p, s) == p.neg \in {0, s.neg}

(* Faulty: the new offer is accepted without telling the application.      *)
AcceptOfferQuietly(p, s) ==
    IF p.neg = s.neg THEN p
    ELSE Spawn(EnsurePeerConnection(IF p.neg # 0 THEN PrepareReconnect(p) ELSE p, s.neg),
               Task("accept", s.neg, s.neg, "remote", {}))
AcceptOffer(p, s) ==
    IF p.neg = s.neg THEN p
    ELSE LET q == Spawn(EnsurePeerConnection(IF p.neg # 0 THEN PrepareReconnect(p) ELSE p, s.neg),
                        Task("accept", s.neg, s.neg, "remote", {}))
         IN IF p.role = "receiver" THEN BeginPassiveDeadline(q) ELSE q
AcceptAnswer(p, s) ==
    IF ~TakesAnswer(p, s) THEN p
    ELSE Spawn([p EXCEPT !.pending = TRUE], Task("answer", p.neg, s.neg, "remote", {}))
(* Faulty: a candidate is ignored until the description is set.            *)
AcceptCandidateLate(p, s) ==
    IF TakesCandidate(p, s) /\ p.set
    THEN Spawn(p, Task("candidate", p.neg, s.neg, "apply", {s})) ELSE p
AcceptCandidate(p, s) ==
    CASE ~TakesCandidate(p, s) -> p
      [] TakesCandidate(p, s) /\ p.set -> Spawn(p, Task("candidate", p.neg, s.neg, "apply", {s}))
      [] TakesCandidate(p, s) /\ ~p.set /\ Cardinality(p.remote) >= SignalLimit ->
           Drop(MarkFailed(p), s.neg)
      [] OTHER -> [p EXCEPT !.remote = @ \cup {s}]

AcceptRtcSignal(p, s) ==
    CASE ~p.config -> IF Len(p.queue) < SignalLimit THEN [p EXCEPT !.queue = Append(@, s)]
                   ELSE Drop(p, s.neg)
      [] p.config /\ ~p.sees -> Drop(p, s.neg)
      [] p.config /\ p.sees /\ s.kind = "offer" -> AcceptOffer(EnsureRtcPeer(p), s)
      [] p.config /\ p.sees /\ s.kind = "answer" -> AcceptAnswer(EnsureRtcPeer(p), s)
      [] OTHER -> AcceptCandidate(EnsureRtcPeer(p), s)

(* apply_rtc_config, then replay_pending_signals.                          *)
ApplyRtcConfig(p, n) ==
    LET q == SyncRtcPeers([p EXCEPT !.config = TRUE], n)
        replayed[i \in 0..Len(p.queue)] ==
            IF i = 0 THEN [q EXCEPT !.queue = <<>>]
            ELSE AcceptRtcSignal(replayed[i - 1], p.queue[i])
    IN replayed[Len(p.queue)]

-----------------------------------------------------------------------------
(* The RtcPeer's tasks, from one await to the next: create_offer, and      *)
(* accept_signal_task for an offer, an answer or a candidate.  Each looks  *)
(* whether its connection is still the current one before it goes on.      *)
Goes(p, t, step) == Spawn(p, [t EXCEPT !.step = step, !.cands = {}])

SetLocalDescription(p, t) == Goes([p EXCEPT !.described = TRUE], t, "announce")

AnnounceLocalDescription(p, t) ==
    [p EXCEPT !.negotiating = FALSE, !.announced = TRUE, !.local = {},
              !.out = @ \o <<Signal(IF t.kind = "offer" THEN "offer" ELSE "answer", t.conn, 0)>>
                        \o [i \in 1..Cardinality(p.local) |-> Candidate(t.conn, i)]]

ApplyCandidates(p, t) ==
    LET q == [p EXCEPT !.applied = @ \cup t.cands]
    IN IF t.kind = "accept" THEN Goes(q, t, "local") ELSE q

(* mark_remote_description_set, and the candidates that waited for it.     *)
SetRemoteDescription(p, t) ==
    LET taken == {c \in p.remote : c.neg = t.neg}
        q == [p EXCEPT !.answered = t.neg, !.pending = FALSE, !.set = TRUE, !.remote = {}]
    IN IF taken = {} THEN ApplyCandidates(q, t)
       ELSE Spawn(q, [t EXCEPT !.step = "apply", !.cands = taken])

StepTask(p, t) ==
    LET q == [p EXCEPT !.tasks = @ \ {t}]
    IN CASE ~IsCurrent(p, t) -> q
         [] IsCurrent(p, t) /\ t.step = "local" -> SetLocalDescription(q, t)
         [] IsCurrent(p, t) /\ t.step = "announce" -> AnnounceLocalDescription(q, t)
         [] IsCurrent(p, t) /\ t.step = "remote" -> SetRemoteDescription(q, t)
         [] OTHER -> ApplyCandidates(q, t)

(* The promise a task waits for is rejected: the error is shown, and only  *)
(* a deadline of the application brings the peer any further.              *)
FailTask(p, t) ==
    LET q == [p EXCEPT !.tasks = @ \ {t}]
    IN CASE ~IsCurrent(p, t) -> q
         [] IsCurrent(p, t) /\ t.kind = "offer" -> [q EXCEPT !.negotiating = FALSE]
         [] OTHER -> Drop([q EXCEPT !.pending = FALSE], t.neg)

(* The browser has found another way to reach this page.                   *)
QueueOrEmitLocalCandidate(p) ==
    LET k == p.found + 1
        q == [p EXCEPT !.found = k]
    IN CASE p.announced -> [q EXCEPT !.out = Append(@, Candidate(p.neg, k))]
         [] ~p.announced /\ Cardinality(p.local) < SignalLimit -> [q EXCEPT !.local = @ \cup {k}]
         [] OTHER -> Drop(q, p.neg)

-----------------------------------------------------------------------------
(* The connection's state changes, as reduce_connection_state and          *)
(* handle_rtc_event take them.                                             *)
(* Faulty: the receiver just waits for the owner's offer.                  *)
ConnectionEndedPassive(p) ==
    LET q == Resume([InvalidateWork(p) EXCEPT !.phase = "disconnected"])
    IN IF p.role = "owner"
       THEN [q EXCEPT !.timers = @ \cup {Timer(<<"restart", 0>>)}] ELSE q
ConnectionEnded(p) ==
    LET q == Resume([InvalidateWork(p) EXCEPT !.phase = "disconnected"])
    IN IF p.role = "owner"
       THEN [q EXCEPT !.timers = @ \cup {Timer(<<"restart", 0>>)}]
       ELSE BeginPassiveDeadline(q)

ReduceConnectionState(p, state) ==
    CASE p.role = "receiver" /\ p.phase = "failed" -> p
      [] ~(p.role = "receiver" /\ p.phase = "failed") /\ state \in {"failed", "closed"} ->
           ConnectionEnded(p)
      [] ~(p.role = "receiver" /\ p.phase = "failed") /\ state = "disconnected" ->
           IF p.work = NoWork THEN [ArmWork(p, <<"grace", 0>>) EXCEPT !.phase = "disconnected"]
           ELSE [p EXCEPT !.phase = "disconnected"]
      [] OTHER -> IF p.phase = "ready" THEN p ELSE [p EXCEPT !.phase = "connecting"]

HandleConnectionState(p, state) ==
    LET q == ReduceConnectionState(p, state)
    IN IF state = "connected" /\ p.chan = "open" THEN MarkReady(q) ELSE q

-----------------------------------------------------------------------------
(* A timer goes off.  The channel may have opened without the application  *)
(* having heard of it.                                                     *)
WorkDue(p, t, n) ==
    CASE t.work[1] = "offer" -> IF t.work[2] < RetryDelays
                                THEN ArmWork(p, <<"retry", t.work[2] + 1>>) ELSE MarkFailed(p)
      [] t.work[1] = "retry" ->
           StartOwnerOfferAttempt(PrepareReconnect([p EXCEPT !.work = NoWork]), n, t.work[2], TRUE)
      [] t.work[1] = "grace" ->
           IF p.role = "owner" THEN StartRtcOffer(PrepareReconnect(InvalidateWork(p)), n)
           ELSE BeginPassiveDeadline(InvalidateWork(p))
      [] OTHER -> MarkFailed(p)

(* Faulty: the old connection is still there when the offer starts again.  *)
RestartOfferAsIs(p, n) ==
    IF p.phase \in {"connecting", "ready"} THEN p ELSE StartRtcOffer(p, n)

RestartOffer(p, n) ==
    IF p.phase \in {"connecting", "ready"} THEN p ELSE StartRtcOffer(PrepareReconnect(p), n)

FireTimer(p, t, n) ==
    LET q == [p EXCEPT !.timers = @ \ {t}]
    IN CASE t.work[1] = "restart" -> RestartOffer(q, n)
         [] t.work[1] # "restart" /\ p.chan = "open" -> MarkReady(q)
         [] t.work[1] # "restart" /\ p.chan # "open" /\ WorkIsCurrent(p, t) -> WorkDue(q, t, n)
         [] OTHER -> q

-----------------------------------------------------------------------------
(* complete_lifecycle_recovery for the peer, and the user's retry of a     *)
(* transfer that is paused.                                                *)
RebuildPeer(p) ==
    IF p.peer /\ (p.streamed \/ p.chan # "open") THEN PrepareReconnect(ResetPeerWaiting(p)) ELSE p
ReconnectPausedTransfer(p, n) == StartRtcOffer(Resume(PrepareReconnect(p)), n)
=============================================================================

--------------------------- MODULE StreamTransfer ---------------------------
(***************************************************************************)
(* One streamed transfer between two RtcPeers: the sender cuts its files    *)
(* into segments and waits for each to be acknowledged, the receiver writes *)
(* a segment, commits it to disk, saves a recovery record and only then     *)
(* acknowledges it.  The data channel may break at any time, either page    *)
(* may be reloaded, and every await of the code is a point where the other  *)
(* handlers run.                                                            *)
(***************************************************************************)
EXTENDS StreamPlan

CONSTANTS OfferKinds,   \* {TRUE}: sources kept across a reload, {FALSE}: not
          Budgets       \* how often each fault may happen: one of these bounds them

\* What disturbs a transfer: the channel breaks, a page is reloaded, a user
\* cancels or rejects, the 30 s acknowledgement timeout fires, the browser's
\* storage refuses a write, or denies access to a file.
FaultKinds == {"breaks", "sender", "receiver", "cancels", "timeouts", "storage",
               "denials"}

ASSUME TransferAssumption ==
    /\ OfferKinds \subseteq BOOLEAN
    /\ Budgets \subseteq [FaultKinds -> Nat]

VARIABLES link,       \* the data channel: its epoch and the frames in flight
          snd,        \* the sender's Inner
          rcv,        \* the receiver's Inner
          recS, recR, \* the recovery records in the two IndexedDBs
          disk,       \* what each destination the receiver chose holds after a crash
          delivered,  \* history: the destination when its writers were closed
          reported,   \* history: the outcomes shown to a user
          faults      \* how often each bounded fault has happened

vars == <<link, snd, rcv, recS, recR, disk, delivered, reported, faults>>

\* An option is a sequence of at most one element.
None == <<>>

NoWaiter == -1

Cursors == [Files -> Nat]

Report(what) == reported' = reported \cup {what}

\* A fault happens once more, within one of the budgets.
Fault(kind) ==
    /\ faults' = [faults EXCEPT ![kind] = @ + 1]
    /\ \E budget \in Budgets : \A k \in FaultKinds : faults'[k] <= budget[k]

\* Whether a call to the browser's storage succeeds; refusals are counted.
Storage(ok) == IF ok THEN UNCHANGED faults ELSE Fault("storage")

\* The answer to a query for a permission, without a prompt; denials are counted.
Permissions == {"granted", "prompt", "denied"}
Answer(permission) == IF permission = "denied" THEN Fault("denials") ELSE UNCHANGED faults

\* A user cancels or rejects, once more.
UserEnds == Fault("cancels")

(***************************************************************************)
(* The data channel.  It is reliable and ordered while it lives; frames in  *)
(* flight are lost when it breaks.                                          *)
(***************************************************************************)
Manifest == [type |-> "manifest"]
Decision(accepted) == [type |-> "decision", accepted |-> accepted]
StreamReady(resume) == [type |-> "ready", resume |-> resume]
Start == [type |-> "start"]
Chunk(f, offset) == [type |-> "chunk", f |-> f, offset |-> offset]
SegmentCommit(f, offset, end) ==
    [type |-> "commit", f |-> f, offset |-> offset, end |-> end]
SegmentAck(f, end) == [type |-> "ack", f |-> f, end |-> end]
StreamPaused == [type |-> "paused"]
StreamComplete == [type |-> "complete"]
Error == [type |-> "error"]
Cancel == [type |-> "cancel"]

Down == [link EXCEPT !.up = FALSE, !.toS = <<>>, !.toR = <<>>]

\* Frames written to a channel that is not open are refused.
SendToR(frames) == link' = IF link.up THEN [link EXCEPT !.toR = @ \o frames] ELSE link

SendToS(frames) == link' = IF link.up THEN [link EXCEPT !.toS = @ \o frames] ELSE link

\* The sender (receiver) handles a frame of the given type and answers.
AtSender(type) == link.up /\ link.toS # <<>> /\ Head(link.toS).type = type
AtReceiver(type) == link.up /\ link.toR # <<>> /\ Head(link.toR).type = type
SenderAnswers(frames) ==
    link' = [link EXCEPT !.toS = Tail(@), !.toR = @ \o frames]
ReceiverAnswers(frames) ==
    link' = [link EXCEPT !.toR = Tail(@), !.toS = @ \o frames]

(***************************************************************************)
(* The sender: OutgoingState and the tasks that send it.                    *)
(***************************************************************************)
Outgoing(committed, persists, restored) ==
    [committed |-> committed, sent |-> Total(committed), digests |-> FALSE,
     accepted |-> FALSE, ready |-> FALSE, pending |-> None, gen |-> 0,
     sending |-> FALSE, persists |-> persists, restored |-> restored,
     reconciling |-> FALSE]

Out == snd.out[1]

Task(gen, epoch) ==
    [gen |-> gen, epoch |-> epoch, at |-> "timer", f |-> 0, offset |-> 0,
     result |-> "none"]

\* outgoing_generation_matches
Current(t) == snd.out # None /\ Out.gen = t.gen

\* The channel a task took when it started is still the open one.
Alive(epoch) == link.up /\ link.epoch = epoch

\* The oneshot sender of a pending acknowledgement is dropped.
DropWaiter(tasks, pending) ==
    {IF pending # None /\ t.at = "wait" /\ pending[1].waiter = t.gen
     THEN [t EXCEPT !.result = "dropped"] ELSE t : t \in tasks}

Unwaited(pending) ==
    IF pending = None THEN None ELSE <<[pending[1] EXCEPT !.waiter = NoWaiter]>>

Suspended(o) ==
    [o EXCEPT !.gen = @ + 1, !.accepted = FALSE, !.ready = FALSE,
              !.sending = FALSE, !.sent = Total(o.committed),
              !.pending = Unwaited(@)]

\* suspend_stream_for_reconnect, and what prepare_reconnect does to outgoing
SuspendSender(s) ==
    IF s.out = None THEN s
    ELSE [s EXCEPT !.out = <<Suspended(s.out[1])>>,
                   !.tasks = DropWaiter(@, s.out[1].pending)]

\* clear_transfer: the task waiting for an acknowledgement finds it dropped.
\* The deletion of the record is queued behind the saves already issued.
ClearSender(s) ==
    [s EXCEPT !.out = None,
              !.tasks = IF s.out = None THEN @ ELSE DropWaiter(@, s.out[1].pending),
              !.saves = [i \in DOMAIN @ |-> [@[i] EXCEPT !.rec = None]],
              !.restore = IF @.at = "prompt" THEN [at |-> "no", rec |-> None] ELSE @]

\* The record that clear_transfer deletes, if the transfer has one.
RecordCleared(s) ==
    IF (s.out # None /\ s.out[1].persists) \/ s.restore.at = "prompt" THEN None ELSE recS

\* Start is sent when acceptance and readiness have both arrived.
Starting(o) == o.accepted /\ o.ready /\ ~o.sending
Launch(s, o) ==
    [s EXCEPT !.out = <<[o EXCEPT !.sending = o.sending \/ Starting(o)]>>,
              !.tasks = IF Starting(o) THEN @ \cup {Task(o.gen, link.epoch)} ELSE @]
StartFrames(o) == IF Starting(o) THEN <<Start>> ELSE <<>>

-----------------------------------------------------------------------------
(***************************************************************************)
(* Offering: offer_files sends the manifest at once, offer_persistent_files *)
(* first saves a record of the sources.                                     *)
(***************************************************************************)
Fresh == snd.out = None /\ ~snd.offering /\ snd.restore.at = "no" /\ reported = {}

OfferFiles ==
    /\ FALSE \in OfferKinds /\ Fresh /\ link.up
    /\ snd' = [snd EXCEPT !.out = <<Outgoing(Zeros, FALSE, FALSE)>>]
    /\ SendToR(<<Manifest>>)
    /\ Report("offered")
    /\ UNCHANGED <<rcv, recS, recR, disk, delivered, faults>>

OfferPersistentFiles ==
    /\ TRUE \in OfferKinds /\ Fresh /\ link.up
    /\ recS' = <<Zeros>>
    /\ snd' = [snd EXCEPT !.offering = TRUE]
    /\ Report("offered")
    /\ UNCHANGED <<link, rcv, recR, disk, delivered, faults>>

InstallAndOffer ==
    /\ snd.offering
    /\ IF link.up /\ snd.out = None
       THEN /\ snd' = [snd EXCEPT !.offering = FALSE,
                                  !.out = <<Outgoing(Zeros, TRUE, FALSE)>>]
            /\ SendToR(<<Manifest>>)
            /\ UNCHANGED recS
       ELSE /\ snd' = [snd EXCEPT !.offering = FALSE]
            /\ recS' = None
            /\ UNCHANGED link
    /\ UNCHANGED <<rcv, recR, disk, delivered, reported, faults>>

-----------------------------------------------------------------------------
(***************************************************************************)
(* What the sender does with the receiver's frames.                         *)
(***************************************************************************)
RecvDecision ==
    /\ AtSender("decision")
    /\ IF snd.out = None
       THEN Report("stray") /\ SenderAnswers(<<>>) /\ UNCHANGED <<snd, recS>>
       ELSE IF ~Head(link.toS).accepted
       THEN /\ snd' = ClearSender(snd)
            /\ recS' = IF Out.persists THEN None ELSE recS
            /\ Report("rejected")
            /\ SenderAnswers(<<>>)
       ELSE LET o == [Out EXCEPT !.accepted = TRUE]
            IN  /\ snd' = Launch(snd, o)
                /\ SenderAnswers(StartFrames(o))
                /\ UNCHANGED <<recS, reported>>
    /\ UNCHANGED <<rcv, recR, disk, delivered, faults>>

\* Faulty: the pending segment counts as stored whatever the receiver says.
PromotedAlways(o, resume) ==
    [f \in Files |-> IF o.pending # None /\ o.pending[1].f = f
                     THEN o.pending[1].end ELSE o.committed[f]]

\* The committed counts after a resume that confirms the pending segment.
Promoted(o, resume) ==
    [f \in Files |-> IF MatchesPending(o.pending, Resolve(resume), f)
                     THEN o.pending[1].end ELSE o.committed[f]]

\* The part of handle_stream_ready after reconciliation, for cursors that
\* match: the pending segment is promoted or forgotten.
Readied(o, resume) ==
    LET committed == Promoted(o, resume)
    IN  [o EXCEPT !.committed = committed, !.pending = None,
                  !.sent = Total(committed), !.ready = TRUE]

ResumeMatches(o, resume) == MatchLiveResume(o.committed, o.pending, resume)

RecvReady ==
    /\ AtSender("ready")
    /\ LET resume == Head(link.toS).resume
       IN  \/ /\ snd.out = None
              /\ Report("stray") /\ SenderAnswers(<<>>) /\ UNCHANGED snd
           \/ /\ snd.out # None /\ Out.restored /\ Out.reconciling
              /\ SenderAnswers(<<>>) /\ UNCHANGED <<snd, reported>>
           \/ /\ snd.out # None /\ Out.restored /\ ~Out.reconciling
              /\ ~ResumeMatches(Out, resume)
              /\ snd' = [snd EXCEPT !.out[1].reconciling = TRUE, !.recon = <<resume>>]
              /\ SenderAnswers(<<>>) /\ UNCHANGED reported
           \/ /\ snd.out # None /\ ~(Out.restored /\ Out.reconciling)
              /\ ResumeMatches(Out, resume)
              /\ LET o == Readied([Out EXCEPT !.restored = FALSE], resume)
                 IN  /\ snd' = [Launch(snd, o) EXCEPT !.tasks = DropWaiter(@, Out.pending)]
                     /\ SenderAnswers(StartFrames(o))
              /\ UNCHANGED reported
           \/ /\ snd.out # None /\ ~Out.restored /\ ~ResumeMatches(Out, resume)
              /\ SenderAnswers(<<Error>>)
              /\ Report("mismatch")
              /\ UNCHANGED snd
    /\ UNCHANGED <<rcv, recS, recR, disk, delivered, faults>>

\* reconcile_outgoing_resume: the sources are read again up to the receiver's
\* checkpoint, which then becomes the sender's own.
Reconcile ==
    /\ snd.recon # None
    /\ LET resume == Resolve(snd.recon[1])
       IN  IF snd.out # None /\ Out.restored /\ Out.reconciling /\ ValidPrefix(resume)
           THEN LET o == Readied([Out EXCEPT !.committed = resume, !.restored = FALSE,
                                             !.reconciling = FALSE], resume)
                    s == [snd EXCEPT !.recon = None]
                IN  /\ recS' = IF Out.persists THEN <<resume>> ELSE recS
                    /\ snd' = IF link.up THEN Launch(s, o)
                              ELSE IF Starting(o) THEN SuspendSender([s EXCEPT !.out = <<o>>])
                              ELSE [s EXCEPT !.out = <<o>>]
                    /\ SendToR(StartFrames(o))
                    /\ UNCHANGED reported
           ELSE /\ snd' = [ClearSender(snd) EXCEPT !.recon = None]
                /\ recS' = RecordCleared(snd)
                /\ SendToR(<<Error>>)
                /\ Report("mismatch")
    /\ UNCHANGED <<rcv, recR, disk, delivered, faults>>

\* handle_segment_ack: the checkpoint is saved before the task is woken.
RecvAck ==
    /\ AtSender("ack")
    /\ LET m == Head(link.toS)
           matches == Out.pending[1].f = m.f /\ Out.pending[1].end = m.end
           waiter == Out.pending[1].waiter
           committed == [Out.committed EXCEPT ![m.f] = m.end]
           woken(result) == {IF t.at = "wait" /\ t.gen = waiter
                             THEN [t EXCEPT !.result = result] ELSE t : t \in snd.tasks}
       IN  IF snd.out = None \/ (snd.out # None /\ Out.pending = None)
           THEN Report("stray") /\ UNCHANGED snd
           ELSE /\ snd' = IF ~matches
                          THEN [snd EXCEPT !.out[1].pending = None, !.tasks = woken("bad")]
                          ELSE IF Out.persists
                          THEN [snd EXCEPT !.out[1].pending = None,
                                           !.out[1].committed = committed,
                                           !.saves = Append(@, [rec |-> <<committed>>,
                                                                waiter |-> waiter])]
                          ELSE [snd EXCEPT !.out[1].pending = None,
                                           !.out[1].committed = committed,
                                           !.tasks = woken("ok")]
                /\ UNCHANGED reported
    /\ SenderAnswers(<<>>)
    /\ UNCHANGED <<rcv, recS, recR, disk, delivered, faults>>

\* save_outgoing_recovery ends and the waiting task is woken.
SaveOutgoing ==
    /\ snd.saves # <<>>
    /\ \E saved \in BOOLEAN :
       LET save == Head(snd.saves)
       IN  /\ Storage(saved)
           /\ recS' = IF saved /\ save.rec # None THEN save.rec ELSE recS
           /\ snd' = [snd EXCEPT !.saves = Tail(@),
                  !.tasks = {IF t.at = "wait" /\ t.gen = save.waiter /\ t.result = "none"
                             THEN [t EXCEPT !.result = IF saved THEN "ok" ELSE "bad"]
                             ELSE t : t \in @}]
    /\ UNCHANGED <<link, rcv, recR, disk, delivered, reported>>

RecvPaused ==
    /\ AtSender("paused")
    /\ IF snd.out = None
       THEN Report("stray") /\ UNCHANGED snd
       ELSE /\ snd' = [SuspendSender(snd) EXCEPT !.out[1].accepted = TRUE]
            /\ UNCHANGED reported
    /\ SenderAnswers(<<>>)
    /\ UNCHANGED <<rcv, recS, recR, disk, delivered, faults>>

RecvCompletion ==
    /\ AtSender("complete")
    /\ IF snd.out # None /\ Out.sent = Total(Sizes) /\ Out.digests
       THEN /\ snd' = ClearSender(snd)
            /\ recS' = IF Out.persists THEN None ELSE recS
            /\ Report("sent")
       ELSE Report("stray") /\ UNCHANGED <<snd, recS>>
    /\ SenderAnswers(<<>>)
    /\ UNCHANGED <<rcv, recR, disk, delivered, faults>>

SenderRecvEnd ==
    /\ AtSender("error") \/ AtSender("cancel")
    /\ snd' = ClearSender(snd)
    /\ recS' = RecordCleared(snd)
    /\ Report(IF AtSender("error") THEN "failed" ELSE "cancelled")
    /\ SenderAnswers(<<>>)
    /\ UNCHANGED <<rcv, recR, disk, delivered, faults>>

-----------------------------------------------------------------------------
(***************************************************************************)
(* The sending task.  It awaits a timer, the bytes of a chunk, or an        *)
(* acknowledgement; a step runs from one await to the next.                 *)
(***************************************************************************)
EndTask(t) == snd.tasks \ {t}
Becomes(t, u) == EndTask(t) \cup {u}

\* An error of a task counts only if its generation is still current: a dead
\* channel suspends the transfer, anything else ends it.
ChannelLost(t) ==
    /\ snd' = LET s == [snd EXCEPT !.tasks = EndTask(t)]
              IN  IF Current(t) THEN SuspendSender(s) ELSE s
    /\ UNCHANGED <<link, recS, reported>>

\* The task stands before the chunk of file f at offset.
ReadFrom(t, f, offset) ==
    [t EXCEPT !.at = "read", !.f = f, !.offset = offset, !.result = "none"]

\* The loop over files and segments continues behind file f, offset.
Continue(t, f, offset) ==
    LET inside == f # 0 /\ offset < Sizes[IF f = 0 THEN 1 ELSE f]
        next == NextFile(Out.committed, f)
    IN  IF ~Current(t)
        THEN snd' = [snd EXCEPT !.tasks = EndTask(t)] /\ UNCHANGED <<link, recS, reported>>
        ELSE IF inside \/ next # NoFile
        THEN /\ snd' = [snd EXCEPT !.tasks = Becomes(t,
                    IF inside THEN ReadFrom(t, f, offset)
                    ELSE ReadFrom(t, next, Out.committed[next]))]
             /\ UNCHANGED <<link, recS, reported>>
        ELSE IF Alive(t.epoch)
        THEN /\ snd' = [snd EXCEPT !.tasks = EndTask(t), !.out[1].digests = TRUE,
                                   !.out[1].sent = Total(Sizes)]
             /\ SendToR(<<StreamComplete>>)
             /\ UNCHANGED <<recS, reported>>
        ELSE /\ snd' = [SuspendSender([snd EXCEPT !.tasks = EndTask(t)])
                          EXCEPT !.out[1].digests = TRUE]
             /\ UNCHANGED <<link, recS, reported>>

TaskStarts(t) ==
    /\ t.at = "timer"
    /\ Continue(t, 0, 0)
    /\ UNCHANGED <<rcv, recR, disk, delivered, faults>>

\* array_buffer() has resolved: the chunk goes out whatever the generation.
TaskSendsChunk(t) ==
    /\ t.at = "read"
    /\ LET last == t.offset + 1 = SegmentEnd(t.f, (t.offset \div SegmentChunks) * SegmentChunks)
           begin == (t.offset \div SegmentChunks) * SegmentChunks
           chunk == Chunk(t.f, t.offset)
           sent == Total([f \in Files |-> IF f < t.f THEN Sizes[f]
                                          ELSE IF f = t.f THEN t.offset + 1 ELSE 0])
       IN  IF ~Alive(t.epoch) THEN ChannelLost(t)
           ELSE IF snd.out = None
           THEN /\ SendToR(<<chunk>>)
                /\ snd' = [snd EXCEPT !.tasks = EndTask(t)]
                /\ UNCHANGED <<recS, reported>>
           ELSE IF last
           THEN /\ SendToR(<<chunk, SegmentCommit(t.f, begin, t.offset + 1)>>)
                /\ snd' = [snd EXCEPT !.out[1].sent = sent,
                      !.out[1].pending = <<[f |-> t.f, end |-> t.offset + 1, waiter |-> t.gen]>>,
                      !.tasks = DropWaiter(EndTask(t), Out.pending)
                                    \cup {[t EXCEPT !.at = "wait", !.offset = @ + 1]}]
                /\ UNCHANGED <<recS, reported>>
           ELSE /\ SendToR(<<chunk>>)
                /\ snd' = [snd EXCEPT !.out[1].sent = sent,
                      !.tasks = IF Current(t) THEN Becomes(t, [t EXCEPT !.offset = @ + 1])
                                ELSE EndTask(t)]
                /\ UNCHANGED <<recS, reported>>
    /\ UNCHANGED <<rcv, recR, disk, delivered, faults>>

TaskContinues(t) ==
    /\ t.at = "wait" /\ t.result = "ok"
    /\ Continue(t, t.f, t.offset)
    /\ UNCHANGED <<rcv, recR, disk, delivered, faults>>

\* A refused, dropped or late acknowledgement.
TaskFails(t) ==
    /\ t.at = "wait"
    /\ \/ t.result \in {"bad", "dropped"} /\ UNCHANGED faults
       \/ t.result = "none" /\ Fault("timeouts")
    /\ IF Current(t)
       THEN /\ snd' = ClearSender([snd EXCEPT !.tasks = EndTask(t)])
            /\ recS' = RecordCleared(snd)
            /\ Report(IF t.result = "none" THEN "timeout" ELSE "failed")
       ELSE snd' = [snd EXCEPT !.tasks = EndTask(t)] /\ UNCHANGED <<recS, reported>>
    /\ UNCHANGED <<link, rcv, recR, disk, delivered>>

-----------------------------------------------------------------------------
(***************************************************************************)
(* Reload of the sender's page: restore_outgoing_transfer reads the record  *)
(* and, with permission, the sources, and installs the transfer again.      *)
(***************************************************************************)
NoRestore == [at |-> "no", rec |-> None]

ReloadSender ==
    /\ Fault("sender")
    /\ snd' = [out |-> None, tasks |-> {}, saves |-> <<>>, recon |-> None,
               offering |-> FALSE, prepared |-> TRUE,
               restore |-> [at |-> "load", rec |-> None]]
    /\ rcv' = [rcv EXCEPT !.prepared = @ /\ ~link.up]
    /\ link' = Down
    /\ UNCHANGED <<recS, recR, disk, delivered, reported>>

LoadOutgoing ==
    /\ snd.restore.at = "load"
    /\ IF recS = None
       THEN snd' = [snd EXCEPT !.restore = NoRestore] /\ UNCHANGED <<recS, faults>>
       ELSE \E permission \in Permissions :
            /\ Answer(permission)
            /\ snd' = [snd EXCEPT !.restore =
                  CASE permission = "granted" -> [at |-> "recover", rec |-> recS]
                    [] permission = "prompt"  -> [at |-> "prompt", rec |-> recS]
                    [] permission = "denied"  -> NoRestore]
            /\ recS' = IF permission = "denied" THEN None ELSE recS
    /\ UNCHANGED <<link, rcv, recR, disk, delivered, reported>>

\* resume_outgoing_transfer: the user grants the permission.
ResumeOutgoing ==
    /\ snd.restore.at = "prompt"
    /\ snd' = [snd EXCEPT !.restore.at = "recover"]
    /\ UNCHANGED <<link, rcv, recS, recR, disk, delivered, reported, faults>>

\* Faulty: a new channel says nothing of a transfer under way.
OpenSilently(s) == <<>>

\* The manifest that data_channel_opened repeats.
OpenFrames(s) ==
    IF s.out # None /\ ~s.out[1].accepted /\ ~s.out[1].sending THEN <<Manifest>> ELSE <<>>

RecoverOutgoing ==
    /\ snd.restore.at = "recover"
    /\ snd' = [snd EXCEPT !.restore = NoRestore,
                          !.out = <<Outgoing(snd.restore.rec[1], TRUE, TRUE)>>]
    /\ SendToR(OpenFrames(snd'))
    /\ UNCHANGED <<rcv, recS, recR, disk, delivered, reported, faults>>

-----------------------------------------------------------------------------
(***************************************************************************)
(* The receiver: ReceiveState, the tasks that write its segments, and the   *)
(* jobs that accept an offer or restore one.                                *)
(***************************************************************************)
\* A recovery record names the destination of every file and what of it is
\* committed there.
Record(r) == [dest |-> r.dest, committed |-> r.committed]

Receiving(rec, persisted) ==
    [started |-> FALSE, dest |-> rec.dest, committed |-> rec.committed, got |-> 0,
     cur |-> NextFile(rec.committed, 0), writing |-> FALSE, resume |-> FALSE,
     persisted |-> persisted]

Rec == rcv.receive[1]

\* Faulty: the chunks of an unfinished segment are kept.
ReceiveKept(r) == [r EXCEPT !.started = FALSE]

\* prepare_receive_reconnect: an unfinished segment is forgotten, unless it
\* is being written.
ReceiveSuspended(r) ==
    [r EXCEPT !.started = FALSE,
              !.got = IF r.writing THEN @ ELSE 0,
              !.cur = IF r.writing THEN @ ELSE NextFile(r.committed, 0)]

SuspendReceiver(r) ==
    IF r.receive = None THEN r ELSE [r EXCEPT !.receive = <<ReceiveSuspended(r.receive[1])>>]

\* clear_transfer.  The deletion of the record is queued behind a save that
\* was issued before.
HasTransfer == rcv.receive # None \/ rcv.incoming \/ rcv.recovery # None \/ rcv.restoring
Cleared(r) ==
    [r EXCEPT !.receive = None, !.incoming = FALSE, !.recovery = None, !.restoring = FALSE,
              !.paused = @ /\ r.recovery = None,
              !.writes = {[w EXCEPT !.save = None] : w \in @}]
ClearReceiver ==
    /\ rcv' = Cleared(rcv)
    /\ recR' = IF HasTransfer THEN None ELSE recR

ResumeFrames(r) == <<Decision(TRUE), StreamReady(r.committed)>>

Job(at, rec) == [at |-> at, rec |-> rec, epoch |-> link.epoch]

\* handle_manifest
RecvManifest ==
    /\ AtReceiver("manifest")
    /\ \/ /\ rcv.receive # None /\ Rec.writing
          /\ rcv' = [rcv EXCEPT !.receive[1].started = FALSE, !.receive[1].resume = TRUE]
          /\ ReceiverAnswers(<<>>)
          /\ UNCHANGED reported
       \/ /\ rcv.receive # None /\ ~Rec.writing
          /\ rcv' = [rcv EXCEPT !.receive[1].started = FALSE]
          /\ ReceiverAnswers(ResumeFrames(Rec))
          /\ UNCHANGED reported
       \/ /\ rcv.receive = None /\ rcv.incoming /\ rcv.recovery # None /\ rcv.paused
          /\ ReceiverAnswers(<<StreamPaused>>)
          /\ UNCHANGED <<rcv, reported>>
       \/ /\ rcv.receive = None /\ ~(rcv.incoming /\ rcv.recovery # None /\ rcv.paused)
          /\ rcv.incoming \/ rcv.restoring
          /\ ReceiverAnswers(<<Error>>)
          /\ Report("busy")
          /\ UNCHANGED rcv
       \/ /\ rcv.receive = None /\ ~rcv.incoming /\ ~rcv.restoring
          /\ rcv' = [rcv EXCEPT !.restoring = TRUE, !.jobs = @ \cup {Job("load", None)}]
          /\ ReceiverAnswers(<<>>)
          /\ UNCHANGED reported
    /\ UNCHANGED <<snd, recS, recR, disk, delivered, faults>>

\* publish_incoming_offer
Publish(r, recovery) ==
    IF r.restoring /\ ~r.incoming /\ r.receive = None
    THEN [r EXCEPT !.restoring = FALSE, !.recovery = recovery, !.paused = FALSE,
                   !.incoming = TRUE]
    ELSE r

\* recover_or_offer_stream, up to the permission of the destination
LoadRecovery(j) ==
    /\ j.at = "load"
    /\ LET done == [rcv EXCEPT !.jobs = @ \ {j}]
       IN  IF recR = None
           THEN rcv' = Publish(done, None) /\ UNCHANGED <<recR, faults>>
           ELSE \E permission \in Permissions :
                /\ Answer(permission)
                /\ rcv' =
                      CASE permission = "granted" ->
                              [done EXCEPT !.jobs = @ \cup {[j EXCEPT !.at = "reopen", !.rec = recR]}]
                        [] permission = "prompt" -> Publish(done, recR)
                        [] permission = "denied" -> Publish(done, None)
                /\ recR' = IF permission = "denied" THEN None ELSE recR
    /\ UNCHANGED <<link, snd, recS, disk, delivered, reported>>

\* The destination still holds everything the record counts as committed.
Reopens(rec) == \A f \in Files : disk[rec.dest[f]][f] >= rec.committed[f]

\* restore_stream_recovery: the verified files are installed and the sender
\* is told where to go on; what a failure leaves depends on who asked.
ReopenDestination(j) ==
    /\ j.at \in {"reopen", "request"}
    /\ LET rec == j.rec[1]
           done == [rcv EXCEPT !.jobs = @ \ {j}]
           installed == Reopens(rec) /\ rcv.restoring /\ rcv.receive = None
           r == Receiving(rec, TRUE)
       IN  IF installed /\ link.up
           THEN /\ rcv' = [done EXCEPT !.restoring = FALSE, !.incoming = FALSE,
                              !.recovery = None, !.paused = FALSE, !.receive = <<r>>]
                /\ SendToS(ResumeFrames(r))
                /\ UNCHANGED recR
           ELSE /\ rcv' = IF j.at = "reopen" THEN Publish(done, None)
                          ELSE [done EXCEPT !.restoring = FALSE, !.incoming = TRUE,
                                            !.recovery = j.rec,
                                            !.paused = @ /\ ~installed]
                /\ recR' = IF j.at = "reopen" THEN None ELSE recR
                /\ UNCHANGED link
    /\ UNCHANGED <<snd, recS, disk, delivered, reported, faults>>

\* resume_stream_transfer: the user continues an offer that has a record.
ResumeStream ==
    /\ rcv.incoming /\ rcv.recovery # None /\ ~rcv.restoring
    /\ rcv' = [rcv EXCEPT !.incoming = FALSE, !.recovery = None, !.restoring = TRUE,
                          !.jobs = @ \cup {Job("request", rcv.recovery)}]
    /\ UNCHANGED <<link, snd, recS, recR, disk, delivered, reported, faults>>

\* accept_stream_transfer takes the offer, then saves a first record.  The
\* manifest that opens a channel is handled before the user can react.
AcceptStream ==
    /\ link.up /\ rcv.incoming /\ rcv.recovery = None /\ ~AtReceiver("manifest")
    /\ rcv' = [rcv EXCEPT !.incoming = FALSE, !.recovery = None, !.paused = FALSE,
             !.jobs = @ \cup {Job("accept", <<[dest |-> [f \in Files |-> Len(disk) + 1],
                                               committed |-> Zeros]>>)}]
    /\ disk' = Append(disk, Zeros)
    /\ UNCHANGED <<link, snd, recS, recR, delivered, reported, faults>>

AcceptSaved(j) ==
    /\ j.at = "accept"
    /\ \E saved \in BOOLEAN :
       /\ Storage(saved)
       /\ recR' = IF saved THEN j.rec ELSE None
       /\ LET done == [rcv EXCEPT !.jobs = @ \ {j}]
          IN  IF Alive(j.epoch)
              THEN /\ rcv' = [done EXCEPT !.receive = <<Receiving(j.rec[1], saved)>>]
                   /\ SendToS(<<Decision(TRUE), StreamReady(<<>>)>>)
              ELSE rcv' = done /\ UNCHANGED link
    /\ UNCHANGED <<snd, recS, disk, delivered, reported>>

RejectStream ==
    /\ UserEnds /\ link.up /\ rcv.incoming
    /\ rcv' = [rcv EXCEPT !.incoming = FALSE, !.recovery = None, !.paused = FALSE]
    /\ recR' = None
    /\ SendToS(<<Decision(FALSE)>>)
    /\ Report("rejected")
    /\ UNCHANGED <<snd, recS, disk, delivered>>

RecvStart ==
    /\ AtReceiver("start")
    /\ IF rcv.receive = None
       THEN Report("stray") /\ UNCHANGED rcv
       ELSE rcv' = [rcv EXCEPT !.receive[1].started = TRUE] /\ UNCHANGED reported
    /\ ReceiverAnswers(<<>>)
    /\ UNCHANGED <<snd, recS, recR, disk, delivered, faults>>

\* The chunk is the next one of the open segment.
ChunkFits(m) ==
    /\ Rec.started /\ ~Rec.writing /\ Rec.cur = m.f
    /\ m.offset = Rec.committed[m.f] + Rec.got
    /\ m.offset < SegmentEnd(m.f, Rec.committed[m.f])

\* handle_binary
RecvChunk ==
    /\ AtReceiver("chunk")
    /\ \/ /\ rcv.receive = None /\ rcv.incoming /\ rcv.recovery # None
          /\ ReceiverAnswers(<<>>) /\ UNCHANGED <<rcv, recR, reported>>
       \/ /\ rcv.receive = None /\ ~(rcv.incoming /\ rcv.recovery # None)
          /\ Report("stray") /\ ReceiverAnswers(<<>>) /\ UNCHANGED <<rcv, recR>>
       \/ /\ rcv.receive # None /\ ChunkFits(Head(link.toR))
          /\ rcv' = [rcv EXCEPT !.receive[1].got = @ + 1]
          /\ ReceiverAnswers(<<>>) /\ UNCHANGED <<recR, reported>>
       \/ /\ rcv.receive # None /\ ~ChunkFits(Head(link.toR))
          /\ ClearReceiver
          /\ ReceiverAnswers(<<Error>>)
          /\ Report("badChunk")
    /\ UNCHANGED <<snd, recS, disk, delivered, faults>>

\* The commit closes the open segment, which has arrived completely.
CommitFits(m) ==
    /\ rcv.receive # None /\ ~Rec.writing /\ Rec.cur = m.f
    /\ m.offset = Rec.committed[m.f]
    /\ m.end = SegmentEnd(m.f, m.offset)
    /\ m.end = Rec.committed[m.f] + Rec.got

\* handle_segment_commit, until it spawns the task that writes the segment
RecvCommit ==
    /\ AtReceiver("commit")
    /\ LET m == Head(link.toR)
       IN  IF CommitFits(m)
           THEN /\ rcv' = [rcv EXCEPT !.receive[1].writing = TRUE,
                      !.writes = @ \cup {[at |-> "write", f |-> m.f, offset |-> m.offset,
                                          end |-> m.end, dest |-> Rec.dest[m.f],
                                          persisted |-> Rec.persisted, save |-> None,
                                          resume |-> FALSE]}]
                /\ ReceiverAnswers(<<>>)
                /\ UNCHANGED <<recR, reported>>
           ELSE /\ ClearReceiver
                /\ ReceiverAnswers(<<Error>>)
                /\ Report("badSegment")
    /\ UNCHANGED <<snd, recS, disk, delivered, faults>>

-----------------------------------------------------------------------------
(***************************************************************************)
(* The task that writes one segment: write_at, commit_checkpoint,           *)
(* reopen_after_checkpoint, save_stream_recovery, then the acknowledgement. *)
(***************************************************************************)
EndWrite(w) == rcv.writes \ {w}
WriteGoes(w, v) == EndWrite(w) \cup {v}

\* Faulty: the writable is not closed, nothing of it is on disk yet.
CommittedLater(w) == disk

\* Closing the writable makes the segment durable.  Content behind it is
\* kept only if the writable was opened on committed data.
Committed(w) ==
    [disk EXCEPT ![w.dest][w.f] = IF w.offset > 0 /\ @ > w.end THEN @ ELSE w.end]

\* receive_generation_matches: only a cancelled receiver has another one.
\* A task of a receiver that is gone ends at its next check.
WriteAbandoned(w) ==
    /\ w.at \in {"write", "commit", "reopen", "pause"} /\ rcv.receive = None
    /\ rcv' = [rcv EXCEPT !.writes = EndWrite(w)]
    /\ disk' = IF w.at = "commit" THEN Committed(w) ELSE disk
    /\ UNCHANGED <<link, snd, recS, recR, delivered, reported, faults>>

\* The segment is on disk: the receiver moves on to the next one.
Advanced(r, w) ==
    LET committed == [r.committed EXCEPT ![w.f] = w.end]
    IN  [r EXCEPT !.committed = committed, !.dest[w.f] = w.dest, !.got = 0, !.writing = FALSE, !.resume = FALSE,
                  !.cur = IF w.end = Sizes[w.f] THEN NextFile(committed, w.f) ELSE @]

\* One await of the writing task ends.  The record is that of the advanced
\* receiver, and there is none while the remote peer is unknown.
WriteStep(w) ==
    /\ w.at \in {"write", "commit", "reopen"} /\ rcv.receive # None
    /\ IF w.persisted /\ w.at # "reopen"
       THEN /\ rcv' = [rcv EXCEPT !.writes = WriteGoes(w, [w EXCEPT
                          !.at = IF w.at = "write" THEN "commit" ELSE "reopen"])]
            /\ UNCHANGED <<recR, reported>>
       ELSE IF Rec.writing /\ Rec.committed[w.f] = w.offset
       THEN /\ rcv' = [rcv EXCEPT !.receive = <<Advanced(Rec, w)>>,
                  !.writes = WriteGoes(w, [w EXCEPT !.at = "save", !.resume = Rec.resume,
                     !.save = IF Rec.persisted /\ rcv.peer
                              THEN <<Record(Advanced(Rec, w))>> ELSE None])]
            /\ UNCHANGED <<recR, reported>>
       ELSE /\ rcv' = Cleared([rcv EXCEPT !.writes = EndWrite(w)])
            /\ recR' = None
            /\ Report("stateChanged")
    /\ disk' = IF w.at = "commit" THEN Committed(w) ELSE disk
    /\ UNCHANGED <<link, snd, recS, delivered, faults>>

\* Faulty: the record is left as it was.
RecordUnsaved(w) == recR

\* save_stream_recovery
RecordSaved(w) == IF w.save = None THEN recR ELSE w.save

\* The record is saved; the sender hears of it, or the receiver is suspended
\* because there is no channel to tell it on.
SaveAndAnswer(w) ==
    /\ w.at = "save"
    /\ LET done == [rcv EXCEPT !.writes = EndWrite(w)]
           frames == IF w.resume THEN ResumeFrames(Rec) ELSE <<SegmentAck(w.f, w.end)>>
       IN  /\ recR' = RecordSaved(w)
           /\ IF rcv.receive = None
              THEN rcv' = done /\ UNCHANGED <<link, reported>>
              ELSE IF link.up
              THEN rcv' = done /\ SendToS(frames) /\ UNCHANGED reported
              ELSE IF w.resume
              THEN rcv' = done /\ Report("resumeFailed") /\ UNCHANGED link
              ELSE rcv' = SuspendReceiver(done) /\ UNCHANGED <<link, reported>>
    /\ UNCHANGED <<snd, recS, disk, delivered, faults>>

\* The destination is out of space or permission, or broken for good; the
\* record may also fail to be saved.
WriteFails(w) ==
    /\ rcv.receive # None /\ w.at \in {"write", "commit", "reopen", "save"}
    /\ Storage(FALSE)
    /\ \/ /\ w.at # "save"
          /\ rcv' = [rcv EXCEPT !.writes = WriteGoes(w, [w EXCEPT !.at = "pause"])]
          /\ UNCHANGED <<link, recR, reported>>
       \/ /\ w.at = "save" => w.save # None
          /\ rcv' = Cleared([rcv EXCEPT !.writes = EndWrite(w)])
          /\ recR' = None
          /\ SendToS(<<Error>>)
          /\ Report("storage")
    /\ UNCHANGED <<snd, recS, disk, delivered>>

\* pause_stream_receive: the transfer falls back to its saved record and
\* waits for the user.  Without a known peer nothing matches the record and
\* the receiver is left as it is.
PauseReceive(w) ==
    /\ w.at = "pause" /\ rcv.receive # None
    /\ IF recR = None
       THEN /\ rcv' = Cleared([rcv EXCEPT !.writes = EndWrite(w)])
            /\ SendToS(<<Error>>)
            /\ Report("storage")
       ELSE IF rcv.peer
       THEN /\ rcv' = [rcv EXCEPT !.receive = None, !.incoming = TRUE, !.recovery = recR,
                  !.paused = TRUE, !.writes = WriteGoes(w, [w EXCEPT !.at = "tell"])]
            /\ UNCHANGED <<link, reported>>
       ELSE rcv' = [rcv EXCEPT !.writes = EndWrite(w)] /\ UNCHANGED <<link, reported>>
    /\ UNCHANGED <<snd, recS, recR, disk, delivered, faults>>

TellPaused(w) ==
    /\ w.at = "tell"
    /\ rcv' = [rcv EXCEPT !.writes = EndWrite(w)]
    /\ SendToS(IF rcv.incoming /\ rcv.recovery # None THEN <<StreamPaused>> ELSE <<>>)
    /\ UNCHANGED <<snd, recS, recR, disk, delivered, reported, faults>>

-----------------------------------------------------------------------------
(***************************************************************************)
(* Completion: every file must be committed, the writers are closed, and    *)
(* the record is deleted only after the sender could be told.               *)
(***************************************************************************)
\* Faulty: trusts the sender's word that everything was sent.
VerifiedEarly(r) == r.got = 0 /\ ~r.writing

Verified(r) == r.committed = Sizes /\ r.got = 0 /\ ~r.writing

RecvComplete ==
    /\ AtReceiver("complete")
    /\ \/ /\ rcv.receive = None
          /\ Report("stray") /\ ReceiverAnswers(<<>>) /\ UNCHANGED rcv
       \/ /\ rcv.receive # None /\ ~Verified(Rec)
          /\ rcv' = [rcv EXCEPT !.receive = None]
          /\ ReceiverAnswers(<<Error>>)
          /\ Report("integrity")
       \/ /\ rcv.receive # None /\ Verified(Rec)
          /\ rcv' = [rcv EXCEPT !.receive = None,
                !.jobs = @ \cup {Job(IF Rec.persisted THEN "close" ELSE "flush", <<Record(Rec)>>)}]
          /\ ReceiverAnswers(<<>>) /\ UNCHANGED reported
    /\ UNCHANGED <<snd, recS, recR, disk, delivered, faults>>

CloseWriters(j) ==
    /\ j.at \in {"close", "flush"}
    /\ LET done == [rcv EXCEPT !.jobs = @ \ {j}]
       IN  \/ /\ disk' = IF j.at = "flush"
                         THEN [d \in DOMAIN disk |-> [f \in Files |->
                                 IF j.rec[1].dest[f] = d THEN Sizes[f] ELSE disk[d][f]]]
                         ELSE disk
              /\ delivered' = <<[f \in Files |-> disk'[j.rec[1].dest[f]][f]]>>
              /\ SendToS(<<StreamComplete>>)
              /\ rcv' = IF link.up
                        THEN [done EXCEPT !.jobs = @ \cup {[j EXCEPT !.at = "cleanup"]}]
                        ELSE SuspendReceiver(done)
              /\ Storage(TRUE)
              /\ UNCHANGED reported
           \/ /\ Storage(FALSE)
              /\ rcv' = done
              /\ SendToS(<<Error>>)
              /\ Report("storage")
              /\ UNCHANGED <<disk, delivered>>
    /\ UNCHANGED <<snd, recS, recR>>

CleanUpRecovery(j) ==
    /\ j.at = "cleanup"
    /\ rcv' = [rcv EXCEPT !.jobs = @ \ {j}]
    /\ recR' = None
    /\ Report("received")
    /\ UNCHANGED <<link, snd, recS, disk, delivered, faults>>

ReceiverRecvEnd ==
    /\ AtReceiver("error") \/ AtReceiver("cancel")
    /\ ClearReceiver
    /\ Report(IF AtReceiver("error") THEN "failed" ELSE "cancelled")
    /\ ReceiverAnswers(<<>>)
    /\ UNCHANGED <<snd, recS, disk, delivered, faults>>

-----------------------------------------------------------------------------
(***************************************************************************)
(* Cancellation by either user, broken channels, reloads of the receiver.   *)
(***************************************************************************)
CancelSender ==
    /\ UserEnds /\ (snd.out # None \/ snd.restore.at = "prompt")
    /\ snd' = ClearSender(snd)
    /\ recS' = RecordCleared(snd)
    /\ SendToR(<<Cancel>>)
    /\ Report("cancelled")
    /\ UNCHANGED <<rcv, recR, disk, delivered>>

\* cancel_transfer aborts the open writable of the receiver, unlike
\* clear_transfer: a write ends, a close may still succeed.
OpenWrites ==
    {w \in rcv.writes : /\ rcv.receive # None /\ w.dest = Rec.dest[w.f]
                        /\ w.at \in {"write", "commit"}}

CancelReceiver ==
    /\ UserEnds /\ HasTransfer
    /\ rcv' = Cleared([rcv EXCEPT !.writes = @ \ OpenWrites])
    /\ recR' = None
    /\ \/ UNCHANGED disk
       \/ \E w \in OpenWrites : w.at = "commit" /\ disk' = Committed(w)
    /\ SendToS(<<Cancel>>)
    /\ Report("cancelled")
    /\ UNCHANGED <<snd, recS, delivered>>

Break ==
    /\ link.up /\ Fault("breaks")
    /\ link' = Down
    /\ snd' = [snd EXCEPT !.prepared = FALSE]
    /\ rcv' = [rcv EXCEPT !.prepared = FALSE]
    /\ UNCHANGED <<recS, recR, disk, delivered, reported>>

\* IndexedDB answers before the page gives the broken connection up; reading
\* a large file again, or writing a segment, may take longer than that.
DatabaseSettled == \A j \in rcv.jobs : j.at \notin {"load", "accept"}

\* prepare_reconnect on either side
PrepareSender ==
    /\ ~link.up /\ ~snd.prepared
    /\ snd' = [SuspendSender(snd) EXCEPT !.prepared = TRUE]
    /\ UNCHANGED <<link, rcv, recS, recR, disk, delivered, reported, faults>>

PrepareReceiver ==
    /\ ~link.up /\ ~rcv.prepared /\ DatabaseSettled
    /\ rcv' = [SuspendReceiver(rcv) EXCEPT !.prepared = TRUE, !.incoming = FALSE,
                                           !.peer = FALSE]
    /\ UNCHANGED <<link, snd, recS, recR, disk, delivered, reported, faults>>

\* Signaling names the remote peer before there is a channel to it.
Negotiate ==
    /\ ~link.up /\ snd.prepared /\ rcv.prepared /\ ~rcv.peer
    /\ rcv' = [rcv EXCEPT !.peer = TRUE]
    /\ UNCHANGED <<link, snd, recS, recR, disk, delivered, reported, faults>>

\* The new channel opens; data_channel_opened repeats the manifest.
Reconnect ==
    /\ ~link.up /\ snd.prepared /\ rcv.prepared /\ rcv.peer
    /\ link' = [up |-> TRUE, epoch |-> link.epoch + 1, toS |-> <<>>, toR |-> OpenFrames(snd)]
    /\ UNCHANGED <<snd, rcv, recS, recR, disk, delivered, reported, faults>>

Idle(peer, prepared) ==
    [receive |-> None, writes |-> {}, jobs |-> {}, incoming |-> FALSE, recovery |-> None,
     paused |-> FALSE, restoring |-> FALSE, prepared |-> prepared, peer |-> peer]

ReloadReceiver ==
    /\ Fault("receiver")
    /\ rcv' = Idle(FALSE, TRUE)
    /\ snd' = [snd EXCEPT !.prepared = @ /\ ~link.up]
    /\ link' = Down
    /\ UNCHANGED <<recS, recR, disk, delivered, reported>>

-----------------------------------------------------------------------------
Init ==
    /\ link = [up |-> TRUE, epoch |-> 1, toS |-> <<>>, toR |-> <<>>]
    /\ snd = [out |-> None, tasks |-> {}, saves |-> <<>>, recon |-> None,
              offering |-> FALSE, prepared |-> TRUE, restore |-> NoRestore]
    /\ rcv = Idle(TRUE, TRUE)
    /\ recS = None /\ recR = None
    /\ disk = <<>>
    /\ delivered = None
    /\ reported = {}
    /\ faults = [k \in FaultKinds |-> 0]

Offers == OfferFiles \/ OfferPersistentFiles

SenderSteps ==
    \/ InstallAndOffer \/ RecvDecision \/ RecvReady \/ Reconcile \/ RecvAck
    \/ SaveOutgoing \/ RecvPaused \/ RecvCompletion \/ SenderRecvEnd
    \/ LoadOutgoing \/ ResumeOutgoing \/ RecoverOutgoing
    \/ \E t \in snd.tasks :
          TaskStarts(t) \/ TaskSendsChunk(t) \/ TaskContinues(t) \/ TaskFails(t)

ReceiverSteps ==
    \/ RecvManifest \/ RecvStart \/ RecvChunk \/ RecvCommit \/ RecvComplete
    \/ ReceiverRecvEnd \/ ResumeStream \/ AcceptStream
    \/ \E j \in rcv.jobs : LoadRecovery(j) \/ ReopenDestination(j) \/ AcceptSaved(j)
                            \/ CloseWriters(j) \/ CleanUpRecovery(j)
    \/ \E w \in rcv.writes : WriteStep(w) \/ WriteAbandoned(w) \/ SaveAndAnswer(w)
                              \/ PauseReceive(w) \/ TellPaused(w) \/ WriteFails(w)

Connects == PrepareSender \/ PrepareReceiver \/ Negotiate \/ Reconnect

Disturbs ==
    \/ Break \/ ReloadSender \/ ReloadReceiver
    \/ CancelSender \/ CancelReceiver \/ RejectStream

Next == Offers \/ SenderSteps \/ ReceiverSteps \/ Connects \/ Disturbs

Spec == Init /\ [][Next]_vars

\* Browser tasks and events are not starved, the users answer what they are
\* asked, and the page keeps trying to reconnect.
FairSpec ==
    Spec /\ WF_vars(Offers) /\ WF_vars(SenderSteps) /\ WF_vars(ReceiverSteps)
         /\ WF_vars(Connects)

-----------------------------------------------------------------------------
Outcomes == {"offered", "sent", "received", "failed", "stray", "mismatch", "busy",
             "badChunk", "badSegment", "integrity", "timeout", "storage",
             "stateChanged", "resumeFailed", "cancelled", "rejected"}

OutgoingStates ==
    [committed : Cursors, sent : Nat, digests : BOOLEAN, accepted : BOOLEAN,
     ready : BOOLEAN, gen : Nat, sending : BOOLEAN, persists : BOOLEAN,
     restored : BOOLEAN, reconciling : BOOLEAN,
     pending : Seq([f : Files, end : Nat, waiter : Nat \cup {NoWaiter}])]

Tasks == [gen : Nat, epoch : Nat, at : {"timer", "read", "wait"},
          f : Files \cup {0}, offset : Nat, result : {"none", "ok", "bad", "dropped"}]

Records == [dest : [Files -> Nat], committed : Cursors]

Writes == [at : {"write", "commit", "reopen", "save", "pause", "tell"}, f : Files,
           offset : Nat, end : Nat, dest : Nat, persisted : BOOLEAN,
           save : Seq(Records), resume : BOOLEAN]

Jobs == [at : {"load", "reopen", "request", "accept", "close", "flush", "cleanup"},
         rec : Seq(Records), epoch : Nat]

\* The two Inner states, the records and the destination keep their types.
TypeOK ==
    /\ link.up \in BOOLEAN /\ link.epoch \in Nat
    /\ ~link.up => link.toS = <<>> /\ link.toR = <<>>
    /\ snd.out \in Seq(OutgoingStates) /\ snd.tasks \subseteq Tasks
    /\ rcv.receive \in Seq([started : BOOLEAN, dest : [Files -> Nat],
                                committed : Cursors, got : Nat,
                                cur : Files \cup {NoFile}, writing : BOOLEAN,
                                resume : BOOLEAN, persisted : BOOLEAN])
    /\ rcv.writes \subseteq Writes /\ rcv.jobs \subseteq Jobs
    /\ recS \in Seq(Cursors) /\ recR \in Seq(Records)
    /\ disk \in Seq(Cursors)
    /\ delivered \in Seq(Cursors)
    /\ reported \subseteq Outcomes

\* finish_stream_receive and handle_stream_complete: neither user is told that
\* a transfer is complete unless the destination was closed with every chunk
\* of every file in it.
CompletedIsWhole ==
    /\ delivered \in {None, <<Sizes>>}
    /\ reported \cap {"sent", "received"} # {} => delivered # None

\* handle_segment_commit saves a record only after commit_checkpoint: a record
\* never promises more than the destinations hold durably, so a reloaded page
\* can always reopen them.
RecordIsDurable == recR # None => Reopens(recR[1])

\* The sender counts a segment as committed, by an acknowledgement or by the
\* cursors of a resume, only when some destination holds it.
AckedIsDurable ==
    snd.out # None /\ faults.storage = 0 =>
        \A f \in Files : \/ Out.committed[f] = 0
                         \/ \E d \in DOMAIN disk : disk[d][f] >= Out.committed[f]

\* However the channel breaks and the receiver's page is reloaded,
\* handle_binary, handle_segment_commit and finish_stream_receive never meet a
\* chunk, a commit or a completion that does not continue what the receiver
\* has, unless a user, a timeout or the storage ended the transfer.
NothingOutOfPlace ==
    /\ faults.sender = 0
    /\ reported \cap {"cancelled", "rejected", "timeout", "storage"} = {}
    => reported \cap {"badChunk", "badSegment", "integrity", "stateChanged"} = {}

\* Nothing has gone wrong but that the receiver's page was reloaded.
OnlyReceiverReloaded == \A k \in FaultKinds \ {"receiver"} : faults[k] = 0

\* handle_segment_commit saves a record before it answers: as long as only the
\* receiver's page is reloaded, what the sender counts as committed is in the
\* record from which the receiver goes on.
AckedIsRecorded ==
    /\ OnlyReceiverReloaded
    /\ snd.out # None /\ Out.persists /\ recR # None /\ delivered = None
    => \A f \in Files : Out.committed[f] <= recR[1].committed[f]

\* Then too, the cursors of a receiver that continues an unfinished transfer
\* match what handle_stream_ready expects: what is committed, and the pending
\* segment.
ResumeAgrees ==
    OnlyReceiverReloaded /\ delivered = None => "mismatch" \notin reported

\* An outcome has been shown to one of the users.
Shown == reported \ {"offered", "stray"} # {}

\* A transfer under way does not hang: with the channel reopened by
\* data_channel_opened's repeated manifest, some outcome is eventually shown,
\* unless the sender's page has been closed on it.  Excused: the storage has
\* failed (pause_stream_receive tells nobody when the connection is down).
NoSilentHang == (snd.out # None) ~> Shown \/ snd.out = None \/ faults.storage # 0
=============================================================================

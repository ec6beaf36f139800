------------------------ MODULE RealtimeClientProofs ------------------------
(***************************************************************************)
(* Proofs about RealtimeClient, for every set of join requests, every      *)
(* bound and every budget of faults: the page never goes back to an older  *)
(* state of its room and never shows one the server has not committed, a   *)
(* page that says it is reconnecting has something that will connect it,   *)
(* and a superseded page stays so.                                         *)
(*                                                                         *)
(* The page is one record and its handlers are operators from page to      *)
(* page, so the argument is about pages: each handler leads from a page in *)
(* shape to one that follows it (Follows).  n is the room's revision:      *)
(* whatever the page, its socket and its calls hold is at most n.          *)
(***************************************************************************)
EXTENDS RealtimeClient, TLAPS

----------------------------------------------------------------------------
(* Types, bounded by a revision.                                           *)

SomeRequest == Requests \cup {NoRequest}

ViewRecord(n) == [revision : 0..n, pending : SUBSET Requests, members : SUBSET Others,
                  online : SUBSET Others]
View(n) == {v \in ViewRecord(n) : v.online \subseteq v.members}

JobKinds == Leased \cup Calls
Job(n) == [kind : JobKinds, target : Nat, at : {"asked", "answered", "failed"},
           view : View(n), request : SomeRequest, status : RequestStates]

Cursor(n) == [last : 0..n, applied : 0..n, awaiting : BOOLEAN]
Life == [hidden : BOOLEAN, network_recovery_pending : BOOLEAN, recovery : Nat,
         rebuild : BOOLEAN]

Kinds == {"booting", "lobby", "waiting", "room"}
Phases == {"disconnected", "connecting", "connected", "reconnecting", "superseded"}
Sockets == {"none", "connecting", "open", "closed"}

Page(n) ==
    [kind : Kinds, role : {"owner", "receiver"}, view : View(n), phase : Phases,
     target : Nat, entries : Nat, cursor : Cursor(n), active : Nat, suppressed : Nat,
     backoff : Nat, due : BOOLEAN, socket : Sockets, jobs : SUBSET Job(n),
     busy : BOOLEAN, decision : SomeRequest, life : Life]

MessageKinds == {"requested", "decided", "online", "offline", "pruned", "expired",
                 "snapshot", "attached", "resolved"}
MessageRecord(n) ==
    [kind : MessageKinds, revision : 0..n, about : Requests \cup Others \cup {Self},
     decision : RequestStates, view : View(n)]
Messages(n) ==
    {m \in MessageRecord(n) : m.kind \in {"requested", "decided"} => m.about \in Requests}

RoomRecord == [revision : Nat, requests : [Requests -> RequestStates],
               members : SUBSET Others, online : SUBSET Others, here : BOOLEAN,
               expired : BOOLEAN]

ConnPlaces == {"none", "opening", "commit", "status", "watch", "hub", "attached",
               "snapshot", "idle", "closing"}
Conn(n) == [pc : ConnPlaces, watch : BOOLEAN, last : 0..n, revision : 0..n,
            view : View(n), changed : BOOLEAN]

----------------------------------------------------------------------------
(* A page in shape.                                                        *)

Entering == {"boot", "restore", "restore_status", "create", "join"}
Disposals == {"clear", "drop"}

(* A page on its way in makes one call at a time and has no target; all    *)
(* other jobs belong to a target.                                          *)
JobsOK(a) ==
    /\ \A j \in a.jobs : j.kind \in Entering <=> j.target = 0
    /\ \A i, j \in a.jobs : i.kind \in Entering /\ j.kind \in Entering => i = j
    /\ \A j \in a.jobs : j.kind \in {"boot", "restore", "restore_status"} => a.kind = "booting"
    /\ \A j \in a.jobs : j.kind \in {"create", "join"} => a.kind = "lobby" /\ a.busy

(* Targets are made one after the other; a screen has one.                 *)
TargetOK(a) ==
    /\ OnScreen(a) <=> a.target # 0
    /\ a.target <= a.entries /\ a.active <= a.entries /\ a.suppressed <= a.entries
    /\ a.due \/ a.active = a.target

(* A live socket belongs to a connection not suppressed, and what was      *)
(* spawned to dispose of one finds it closed.                              *)
Live(a) == a.socket \in {"connecting", "open"}
SocketOK(a) ==
    /\ Live(a) => a.active # 0 /\ a.suppressed # a.active
    /\ Live(a) => \A j \in a.jobs : j.kind \notin Disposals

SupersededOK(a) ==
    a.phase = "superseded" =>
        a.target # 0 /\ a.suppressed = a.target /\ a.active = a.target /\ ~Live(a)

(* RetryUnderWay, of any page.                                             *)
Retries(a) ==
    a.phase = "reconnecting" =>
        \/ a.due
        \/ Live(a)
        \/ \E j \in a.jobs : j.kind = "timer" /\ Claims(a, j)

Shape(a) ==
    JobsOK(a) /\ TargetOK(a) /\ SocketOK(a) /\ SupersededOK(a) /\ Retries(a)

(* What a step of the page may never do: NeverGoesBack, SupersededIsFinal. *)
GoesOn(a, b) ==
    b.target = a.target /\ OnScreen(a) /\ OnScreen(b) => b.view.revision >= a.view.revision

StaysSuperseded(a, b) ==
    a.phase = "superseded" /\ b.target = a.target /\ b.entries = a.entries
        => b.phase = "superseded" /\ ~Live(b)

Continues(a, b, n) ==
    /\ b \in Page(n) /\ Shape(b) /\ b.role = a.role
    /\ GoesOn(a, b) /\ StaysSuperseded(a, b)

(* The user alone asks for a room and for a decision.                      *)
AsksForNone(a, b) == \A j \in b.jobs : j.kind \in {"create", "join", "decide"} => j \in a.jobs

Follows(a, b, n) == Continues(a, b, n) /\ AsksForNone(a, b)

----------------------------------------------------------------------------
(* The inductive invariant.                                                *)

TypesOK ==
    /\ room \in RoomRecord /\ room.revision <= MaxRevision
    /\ room.online \subseteq room.members
    /\ announcing \subseteq Messages(room.revision)
    /\ conn \in Conn(room.revision)
    /\ inbox \in Seq(Messages(room.revision))
    /\ left \in [Faults -> Nat]
    /\ stored \in BOOLEAN /\ missed \in BOOLEAN

(* Nothing has happened in a room that is not created, and its owner's     *)
(* page is still on its way in.                                            *)
UnbornRoom(r) == ~r.here /\ r.members = {} /\ \A q \in Requests : r.requests[q] = "none"
UnbornPage(a) ==
    /\ a.role = "owner" /\ a.target = 0 /\ a.active = 0
    /\ \A j \in a.jobs : /\ j.target = 0 /\ j.status = "none"
                         /\ j.kind \in {"create", "join"} => j.at # "answered"
Unborn == room.revision = 0 => UnbornRoom(room) /\ UnbornPage(app)

(* What has been asked of the server: one room, once, and decisions about  *)
(* requests.                                                               *)
CreatesOnce ==
    \A j \in app.jobs : j.kind = "create" /\ j.at = "asked" => room.revision = 0
DecidesRequests == \A j \in app.jobs : j.kind = "decide" => j.request \in Requests

AppOK == app \in Page(room.revision) /\ Shape(app)

ClientInv == TypesOK /\ AppOK /\ Unborn /\ CreatesOnce /\ DecidesRequests

(* What the page shows has been committed.                                 *)
NeverAhead == app.view.revision <= room.revision /\ app.cursor.last <= room.revision

----------------------------------------------------------------------------
(* Types.                                                                  *)

(* What is bounded by a revision is bounded by any later one.              *)
LEMMA LaterBound ==
    ASSUME NEW m \in Nat, NEW n \in Nat, m <= n
    PROVE  /\ View(m) \subseteq View(n)
           /\ Job(m) \subseteq Job(n)
           /\ Page(m) \subseteq Page(n)
           /\ Messages(m) \subseteq Messages(n)
           /\ Conn(m) \subseteq Conn(n)
<1>1. 0..m \subseteq 0..n
    OBVIOUS
<1>2. View(m) \subseteq View(n)
    BY <1>1 DEF View, ViewRecord
<1>3. Job(m) \subseteq Job(n)
    BY <1>2 DEF Job
<1>4. Cursor(m) \subseteq Cursor(n)
    BY <1>1 DEF Cursor
<1>5. SUBSET Job(m) \subseteq SUBSET Job(n)
    BY <1>3
<1>6. Page(m) \subseteq Page(n)
    BY <1>2, <1>4, <1>5 DEF Page
<1>7. MessageRecord(m) \subseteq MessageRecord(n)
    BY <1>1, <1>2 DEF MessageRecord
<1>8. Messages(m) \subseteq Messages(n)
    BY <1>7 DEF Messages
<1>9. Conn(m) \subseteq Conn(n)
    BY <1>1, <1>2 DEF Conn
<1>. QED  BY <1>2, <1>3, <1>6, <1>8, <1>9

(* No view, and a view that is only a revision.                            *)
LEMMA SmallViews ==
    ASSUME NEW n \in Nat
    PROVE  /\ NoView \in View(n)
           /\ \A r \in 0..n : At(r) \in View(n) /\ At(r).revision = r
    BY DEF NoView, At, View, ViewRecord

(* The cursor follows the revisions it is told (RevisionCursor).           *)
LEMMA CursorType ==
    ASSUME NEW n \in Nat, NEW c \in Cursor(n), NEW r \in 0..n
    PROVE  /\ NewCursor(r) \in Cursor(n)
           /\ Observe(c, r) \in Cursor(n)
           /\ ReconcileApplied(c, r) \in Cursor(n)
           /\ MarkApplied(c, r) \in Cursor(n)
           /\ MarkSnapshotPending(c, r) \in Cursor(n)
    BY DEF NewCursor, Observe, ReconcileApplied, MarkApplied, MarkSnapshotPending, Later, Cursor

(* A spawned job is one more job of the page's target.                     *)
LEMMA SpawnType ==
    ASSUME NEW n \in Nat, NEW a \in Page(n), NEW kind \in JobKinds
    PROVE  /\ NewJob(kind, a) \in Job(n)
           /\ NewJob(kind, a).kind = kind /\ NewJob(kind, a).target = a.target
           /\ NewJob(kind, a).at = "asked" /\ NewJob(kind, a).status = "none"
           /\ Spawn(a, kind) \in Page(n)
           /\ Spawn(a, kind) = [a EXCEPT !.jobs = a.jobs \cup {NewJob(kind, a)}]
<1>1. a.target \in Nat
    BY DEF Page
<1>2. NewJob(kind, a) \in Job(n)
    BY <1>1, SmallViews DEF NewJob, Job, SomeRequest, RequestStates
<1>3. a.jobs \cup {NewJob(kind, a)} \subseteq Job(n)
    BY <1>2 DEF Page
<1>4. Spawn(a, kind) \in Page(n)
    BY <1>3 DEF Spawn, Page
<1>. QED  BY <1>2, <1>4 DEF NewJob, Spawn

----------------------------------------------------------------------------
(* Shapes.                                                                 *)

(* The screen and its target stay.                                         *)
SameTarget(a, b) ==
    /\ b.kind = a.kind /\ b.role = a.role /\ b.target = a.target /\ b.entries = a.entries
    /\ b.active = a.active /\ b.suppressed = a.suppressed /\ b.busy = a.busy

(* What b has spawned since a belongs to a target.                         *)
JobsGrow(a, b) ==
    \A j \in b.jobs :
        \/ j \in a.jobs
        \/ /\ j.kind \notin Entering /\ j.kind # "decide" /\ j.target # 0
           /\ j.kind \in Disposals => ~Live(b)

(* A page that keeps its target keeps its shape.                           *)
LEMMA ShapeBy ==
    ASSUME NEW n \in Nat, NEW a \in Page(n), NEW b \in Page(n), Shape(a),
           SameTarget(a, b), a.due => b.due, Live(b) => Live(a), JobsGrow(a, b),
           SupersededOK(b), Retries(b)
    PROVE  Shape(b)
<1>1. JobsOK(b)
    BY DEF JobsOK, Shape, SameTarget, JobsGrow, Entering
<1>2. TargetOK(b)
    BY DEF TargetOK, Shape, SameTarget, OnScreen
<1>3. SocketOK(b)
    BY DEF SocketOK, Shape, SameTarget, JobsGrow
<1>. QED  BY <1>1, <1>2, <1>3 DEF Shape

(* In the same phase, a page that loses no timer keeps its shape.          *)
LEMMA QuietStep ==
    ASSUME NEW n \in Nat, NEW a \in Page(n), NEW b \in Page(n), Shape(a),
           SameTarget(a, b), b.due = a.due, b.socket = a.socket, b.phase = a.phase,
           JobsGrow(a, b), \A j \in a.jobs : j.kind = "timer" => j \in b.jobs,
           OnScreen(a) => b.view.revision >= a.view.revision
    PROVE  Follows(a, b, n)
<1>1. SupersededOK(b)
    BY DEF SupersededOK, Shape, SameTarget, Live
<1>2. Retries(b)
    BY DEF Retries, Shape, SameTarget, Live, Claims, LeaseIsCurrent
<1>3. Shape(b)
    BY <1>1, <1>2, ShapeBy DEF Live
<1>4. StaysSuperseded(a, b)
    BY DEF StaysSuperseded, SupersededOK, Shape, Live
<1>5. GoesOn(a, b) /\ AsksForNone(a, b)
    BY DEF GoesOn, AsksForNone, JobsGrow, Entering
<1>. QED  BY <1>3, <1>4, <1>5 DEF Follows, Continues, SameTarget

(* A page that is current and gets connected.                              *)
LEMMA ConnectedStep ==
    ASSUME NEW n \in Nat, NEW a \in Page(n), NEW b \in Page(n), Shape(a),
           a.suppressed # a.target, SameTarget(a, b), b.due = a.due, b.socket = a.socket,
           b.phase = "connected", JobsGrow(a, b),
           OnScreen(a) => b.view.revision >= a.view.revision
    PROVE  Follows(a, b, n)
<1>1. SupersededOK(b) /\ Retries(b)
    BY DEF SupersededOK, Retries
<1>2. Shape(b)
    BY <1>1, ShapeBy DEF Live
<1>3. StaysSuperseded(a, b)
    BY DEF StaysSuperseded, SupersededOK, Shape
<1>4. GoesOn(a, b) /\ AsksForNone(a, b)
    BY DEF GoesOn, AsksForNone, JobsGrow, Entering
<1>. QED  BY <1>2, <1>3, <1>4 DEF Follows, Continues, SameTarget

(* A page in shape follows itself.                                         *)
LEMMA FollowsSelf ==
    ASSUME NEW n \in Nat, NEW a \in Page(n), Shape(a)
    PROVE  Follows(a, a, n)
<1>1. a.view.revision >= a.view.revision
    BY DEF Page, View, ViewRecord
<1>2. SameTarget(a, a) /\ JobsGrow(a, a)
    BY DEF SameTarget, JobsGrow
<1>. QED  BY <1>1, <1>2, QuietStep

(* A job spawned for the page's target.                                    *)
LEMMA SpawnAfter ==
    ASSUME NEW n \in Nat, NEW a \in Page(n), NEW b, Follows(a, b, n), b.target # 0,
           NEW kind \in JobKinds \ (Entering \cup Disposals \cup {"decide"})
    PROVE  Follows(a, Spawn(b, kind), n)
<1>. DEFINE c == Spawn(b, kind)
<1>1. b \in Page(n) /\ Shape(b)
    BY DEF Follows, Continues
<1>2. c \in Page(n) /\ c = [b EXCEPT !.jobs = b.jobs \cup {NewJob(kind, b)}]
      /\ NewJob(kind, b).kind = kind /\ NewJob(kind, b).target = b.target
    BY <1>1, SpawnType
<1>3. SameTarget(b, c) /\ c.due = b.due /\ c.socket = b.socket /\ c.phase = b.phase
      /\ c.view = b.view /\ c.jobs = b.jobs \cup {NewJob(kind, b)}
    BY <1>1, <1>2 DEF SameTarget, Page
<1>. HIDE DEF c
<1>4. JobsGrow(b, c)
    BY <1>2, <1>3 DEF JobsGrow
<1>5. b.view.revision >= b.view.revision
    BY <1>1 DEF Page, View, ViewRecord
<1>6. Follows(b, c, n)
    BY <1>1, <1>2, <1>3, <1>4, <1>5, QuietStep
<1>7. Follows(a, c, n)
    BY <1>3, <1>6 DEF Follows, Continues, GoesOn, StaysSuperseded, AsksForNone, SameTarget, OnScreen, Live
<1>. QED  BY <1>7 DEF c

(* A page that differs from a in nothing a step is judged by.              *)
LEMMA FollowsVia ==
    ASSUME NEW n \in Nat, NEW a, NEW b, NEW c, Follows(b, c, n),
           b.kind = a.kind, b.role = a.role, b.view.revision = a.view.revision,
           b.target = a.target, b.entries = a.entries, b.phase = a.phase,
           b.jobs \subseteq a.jobs
    PROVE  Follows(a, c, n)
    BY DEF Follows, Continues, GoesOn, StaysSuperseded, AsksForNone, OnScreen

(* return_to_lobby: the target is gone, and no call of the way in is under *)
(* way.                                                                    *)
LEMMA LobbyStep ==
    ASSUME NEW n \in Nat, NEW a \in Page(n), Shape(a), a.target # 0
    PROVE  Follows(a, ReturnToLobby(a), n)
<1>. DEFINE b == ReturnToLobby(a)
<1>1. b \in Page(n)
  <2>1. NewCursor(0) \in Cursor(n) /\ NoView \in View(n) /\ NoRequest \in SomeRequest
    BY CursorType, SmallViews DEF NewCursor, Cursor, SomeRequest
  <2>. QED  BY <2>1 DEF ReturnToLobby, Page, Kinds, Phases
<1>2. /\ b.kind = "lobby" /\ b.phase = "disconnected" /\ b.target = 0 /\ b.due
      /\ b.entries = a.entries /\ b.active = a.active /\ b.suppressed = a.suppressed
      /\ b.socket = a.socket /\ b.jobs = a.jobs /\ b.role = a.role
    BY DEF ReturnToLobby, Page
<1>. HIDE DEF b
<1>3. \A j \in a.jobs : j.kind \notin Entering
    BY DEF Shape, JobsOK, TargetOK, OnScreen, Entering
<1>4. JobsOK(b)
    BY <1>2, <1>3 DEF Shape, JobsOK, Entering
<1>5. TargetOK(b)
    BY <1>1, <1>2 DEF Shape, TargetOK, OnScreen, Page
<1>6. SocketOK(b)
    BY <1>2 DEF Shape, SocketOK, Live
<1>7. SupersededOK(b) /\ Retries(b)
    BY <1>2 DEF SupersededOK, Retries
<1>8. GoesOn(a, b) /\ StaysSuperseded(a, b) /\ AsksForNone(a, b)
    BY <1>2 DEF GoesOn, StaysSuperseded, AsksForNone
<1>9. Follows(a, b, n)
    BY <1>1, <1>2, <1>4, <1>5, <1>6, <1>7, <1>8 DEF Follows, Continues, Shape
<1>. QED  BY <1>9 DEF b

(* A screen with a fresh target, once the call that led to it is done.     *)
LEMMA EnterStep ==
    ASSUME NEW n \in Nat, NEW a \in Page(n), Shape(a), a.phase # "superseded",
           \A j \in a.jobs : j.kind \notin Entering,
           NEW kind \in {"waiting", "room"}, NEW view \in View(n)
    PROVE  Follows(a, Enter(a, kind, view), n) /\ Enter(a, kind, view).entries = a.entries + 1
<1>. DEFINE b == Enter(a, kind, view)
<1>0. a.entries \in Nat /\ a.target \in Nat /\ a.active \in Nat /\ a.suppressed \in Nat
    BY DEF Page
<1>1. b \in Page(n)
  <2>1. view.revision \in 0..n
    BY DEF View, ViewRecord
  <2>2. NewCursor(view.revision) \in Cursor(n)
    BY <2>1, CursorType DEF NewCursor, Cursor
  <2>3. a.entries + 1 \in Nat /\ kind \in Kinds
    BY <1>0 DEF Kinds
  <2>4. b = [a EXCEPT !.kind = kind, !.view = view, !.target = a.entries + 1,
                      !.entries = a.entries + 1, !.cursor = NewCursor(view.revision),
                      !.due = TRUE]
    BY DEF Enter, Page
  <2>. QED  BY <2>2, <2>3, <2>4 DEF Page
<1>2. /\ b.kind = kind /\ b.phase = a.phase /\ b.target = a.entries + 1 /\ b.due
      /\ b.entries = a.entries + 1 /\ b.active = a.active /\ b.suppressed = a.suppressed
      /\ b.socket = a.socket /\ b.jobs = a.jobs /\ b.role = a.role
    BY DEF Enter, Page
<1>. HIDE DEF b
<1>4. JobsOK(b)
    BY <1>2 DEF Shape, JobsOK, Entering
<1>5. TargetOK(b)
    BY <1>0, <1>2 DEF Shape, TargetOK, OnScreen
<1>6. SocketOK(b)
    BY <1>2 DEF Shape, SocketOK, Live
<1>7. SupersededOK(b) /\ Retries(b)
    BY <1>2 DEF SupersededOK, Retries
<1>8. GoesOn(a, b) /\ StaysSuperseded(a, b) /\ AsksForNone(a, b)
    BY <1>0, <1>2 DEF GoesOn, StaysSuperseded, AsksForNone, Shape, TargetOK
<1>9. Follows(a, b, n)
    BY <1>1, <1>2, <1>4, <1>5, <1>6, <1>7, <1>8 DEF Follows, Continues, Shape
<1>. QED  BY <1>2, <1>9 DEF b

----------------------------------------------------------------------------
(* What the messages of the room do to a current page.                     *)

(* What the page knows of the room becomes v, with cursor c; d is the      *)
(* decision it waits for.                                                  *)
Knows(a, v, c, d) == [a EXCEPT !.view = v, !.cursor = c, !.decision = d]

(* What it knows may only grow.                                            *)
LEMMA KnowsStep ==
    ASSUME NEW n \in Nat, NEW a \in Page(n), Shape(a), NEW v \in View(n), NEW c \in Cursor(n),
           NEW d \in SomeRequest, OnScreen(a) => v.revision >= a.view.revision
    PROVE  /\ Follows(a, Knows(a, v, c, d), n)
           /\ SameTarget(a, Knows(a, v, c, d))
           /\ Knows(a, v, c, d).view = v
<1>. DEFINE b == Knows(a, v, c, d)
<1>1. b \in Page(n)
    BY DEF Knows, Page
<1>2. /\ SameTarget(a, b) /\ b.due = a.due /\ b.socket = a.socket /\ b.phase = a.phase
      /\ b.jobs = a.jobs /\ b.view = v
    BY DEF Knows, Page, SameTarget
<1>. HIDE DEF b
<1>3. JobsGrow(a, b)
    BY <1>2 DEF JobsGrow
<1>4. Follows(a, b, n)
    BY <1>1, <1>2, <1>3, QuietStep
<1>. QED  BY <1>2, <1>4 DEF b

(* The fields of a page the handlers read.                                 *)
LEMMA PageFields ==
    ASSUME NEW n \in Nat, NEW a \in Page(n)
    PROVE  /\ a.view \in View(n) /\ a.view.revision \in 0..n /\ a.cursor \in Cursor(n)
           /\ a.cursor.last \in 0..n /\ a.decision \in SomeRequest /\ a.jobs \subseteq Job(n)
           /\ a.target \in Nat /\ a.active \in Nat /\ a.suppressed \in Nat /\ a.entries \in Nat
           /\ a.cursor.applied \in 0..n
    BY DEF Page, View, ViewRecord, Cursor

(* The connection of a page becomes what is given; its screen, its target  *)
(* and what it knows of the room stay.                                     *)
Controls(a, phase, active, suppressed, backoff, due, socket, jobs, life) ==
    [a EXCEPT !.phase = phase, !.active = active, !.suppressed = suppressed,
              !.backoff = backoff, !.due = due, !.socket = socket, !.jobs = jobs,
              !.life = life]

(* Such a page is typed, and its screen and target are the same.           *)
LEMMA ControlsType ==
    ASSUME NEW n \in Nat, NEW a \in Page(n), NEW phase \in Phases, NEW active \in Nat,
           NEW suppressed \in Nat, NEW backoff \in Nat, NEW due \in BOOLEAN,
           NEW socket \in Sockets, NEW jobs \in SUBSET Job(n), NEW life \in Life, NEW b,
           b = Controls(a, phase, active, suppressed, backoff, due, socket, jobs, life)
    PROVE  /\ b \in Page(n)
           /\ b.kind = a.kind /\ b.role = a.role /\ b.view = a.view /\ b.phase = phase
           /\ b.target = a.target /\ b.entries = a.entries /\ b.cursor = a.cursor
           /\ b.active = active /\ b.suppressed = suppressed /\ b.backoff = backoff
           /\ b.due = due /\ b.socket = socket /\ b.jobs = jobs /\ b.busy = a.busy
           /\ b.decision = a.decision /\ b.life = life
    BY DEF Controls, Page

(* complete_attachment, for a page whose connection is not suppressed.     *)
LEMMA AttachedAfter ==
    ASSUME NEW n \in Nat, NEW a \in Page(n), Shape(a), a.suppressed # a.target,
           NEW b, Follows(a, b, n), SameTarget(a, b)
    PROVE  /\ Follows(a, CompleteAttachment(b), n)
           /\ SameTarget(a, CompleteAttachment(b))
<1>. DEFINE c == CompleteAttachment(b)
<1>1. b \in Page(n) /\ Shape(b) /\ b.suppressed # b.target
    BY DEF Follows, Continues, SameTarget
<1>2. c \in Page(n)
  <2>1. {j \in b.jobs : j.kind # "timer"} \subseteq Job(n)
    BY <1>1 DEF Page
  <2>. DEFINE life == [b.life EXCEPT !.recovery = 0, !.rebuild = FALSE]
  <2>2. c = Controls(b, "connected", b.active, b.suppressed, 0, b.due, b.socket,
                     {j \in b.jobs : j.kind # "timer"}, life)
    BY <1>1 DEF CompleteAttachment, NewToken, Page, Life, Controls
  <2>3. life \in Life
    BY <1>1 DEF Page, Life
  <2>4. "connected" \in Phases /\ b.active \in Nat /\ b.suppressed \in Nat
        /\ b.due \in BOOLEAN /\ b.socket \in Sockets
    BY <1>1 DEF Phases, Page
  <2>. HIDE DEF life, c
  <2>. QED  BY <1>1, <2>1, <2>2, <2>3, <2>4, ControlsType
<1>3. /\ SameTarget(b, c) /\ c.due = b.due /\ c.socket = b.socket /\ c.phase = "connected"
      /\ c.view = b.view /\ c.jobs = {j \in b.jobs : j.kind # "timer"}
    BY <1>1 DEF CompleteAttachment, NewToken, Page, SameTarget
<1>. HIDE DEF c
<1>4. JobsGrow(b, c)
    BY <1>3 DEF JobsGrow
<1>5. b.view.revision >= b.view.revision
    BY <1>1 DEF Page, View, ViewRecord
<1>6. Follows(b, c, n)
    BY <1>1, <1>2, <1>3, <1>4, <1>5, ConnectedStep
<1>7. a.phase # "superseded"
    BY DEF Shape, SupersededOK
<1>8. Follows(a, c, n)
    BY <1>3, <1>6, <1>7 DEF Follows, Continues, GoesOn, StaysSuperseded, AsksForNone, SameTarget, OnScreen
<1>9. SameTarget(a, c)
    BY <1>3 DEF SameTarget
<1>. QED  BY <1>8, <1>9 DEF c

(* handle_attachment.                                                      *)
LEMMA AttachmentStep ==
    ASSUME NEW n \in Nat, NEW a \in Page(n), Shape(a), a.suppressed # a.target, NEW r \in 0..n
    PROVE  Follows(a, HandleAttachment(a, r), n)
<1>. DEFINE known == ReconcileApplied(a.cursor, a.view.revision)
<1>1. known \in Cursor(n)
    BY PageFields, CursorType
<1>. HIDE DEF known
<1>2. MarkApplied(known, r) \in Cursor(n) /\ MarkSnapshotPending(known, r) \in Cursor(n)
    BY <1>1, CursorType
<1>3. \A c \in Cursor(n) : /\ [a EXCEPT !.cursor = c] = Knows(a, a.view, c, a.decision)
                           /\ Follows(a, [a EXCEPT !.cursor = c], n)
                           /\ SameTarget(a, [a EXCEPT !.cursor = c])
  <2>. SUFFICES ASSUME NEW c \in Cursor(n)
                PROVE  /\ [a EXCEPT !.cursor = c] = Knows(a, a.view, c, a.decision)
                       /\ Follows(a, [a EXCEPT !.cursor = c], n)
                       /\ SameTarget(a, [a EXCEPT !.cursor = c])
    OBVIOUS
  <2>1. [a EXCEPT !.cursor = c] = Knows(a, a.view, c, a.decision)
    BY DEF Knows, Page
  <2>2. a.view.revision >= a.view.revision
    BY PageFields
  <2>. QED  BY <2>1, <2>2, PageFields, KnowsStep
<1>4. CASE ~OnScreen(a)
    BY <1>4, FollowsSelf DEF HandleAttachment
<1>5. CASE OnScreen(a) /\ r = a.view.revision
  <2>1. HandleAttachment(a, r) = CompleteAttachment([a EXCEPT !.cursor = MarkApplied(known, r)])
    BY <1>5 DEF HandleAttachment, known
  <2>. QED  BY <1>2, <1>3, <2>1, AttachedAfter
<1>6. CASE OnScreen(a) /\ r # a.view.revision
  <2>1. HandleAttachment(a, r) = [a EXCEPT !.cursor = MarkSnapshotPending(known, r)]
    BY <1>6 DEF HandleAttachment, known
  <2>. QED  BY <1>2, <1>3, <2>1
<1>. QED  BY <1>4, <1>5, <1>6

(* apply_authoritative_snapshot, when its guards let the view through.     *)
LEMMA ApplyStep ==
    ASSUME NEW n \in Nat, NEW a \in Page(n), Shape(a), a.suppressed # a.target, OnScreen(a),
           NEW view \in View(n), SnapshotAllowed(a, view)
    PROVE  /\ Follows(a, ApplyAuthoritativeSnapshot(a, view), n)
           /\ SameTarget(a, ApplyAuthoritativeSnapshot(a, view))
<1>. DEFINE shown == IF a.kind = "room" THEN view ELSE [a.view EXCEPT !.revision = view.revision]
            cursor == MarkApplied(a.cursor, view.revision)
            b == Knows(a, shown, cursor, a.decision)
<1>0. view.revision \in 0..n
    BY DEF View, ViewRecord
<1>1. shown \in View(n) /\ shown.revision = view.revision
    BY <1>0, PageFields DEF View, ViewRecord
<1>2. cursor \in Cursor(n)
    BY <1>0, PageFields, CursorType
<1>3. shown.revision >= a.view.revision
    BY <1>1 DEF SnapshotAllowed
<1>4. [ShowSnapshot(a, view) EXCEPT !.cursor = MarkApplied(@, view.revision)] = b
    BY DEF ShowSnapshot, Knows, Page, OnScreen
<1>5. ApplyAuthoritativeSnapshot(a, view) = IF a.cursor.awaiting THEN CompleteAttachment(b) ELSE b
    BY <1>4 DEF ApplyAuthoritativeSnapshot
<1>6. Follows(a, b, n) /\ SameTarget(a, b)
    BY <1>1, <1>2, <1>3, PageFields, KnowsStep
<1>. HIDE DEF b
<1>7. Follows(a, CompleteAttachment(b), n) /\ SameTarget(a, CompleteAttachment(b))
    BY <1>6, AttachedAfter
<1>. QED  BY <1>5, <1>6, <1>7

(* handle_room_snapshot.                                                   *)
LEMMA SnapshotStep ==
    ASSUME NEW n \in Nat, NEW a \in Page(n), Shape(a), a.suppressed # a.target, OnScreen(a),
           NEW view \in View(n)
    PROVE  Follows(a, HandleSnapshot(a, view), n)
<1>1. CASE ~SnapshotAllowed(a, view)
    BY <1>1, FollowsSelf DEF HandleSnapshot
<1>2. CASE SnapshotAllowed(a, view)
  <2>. DEFINE b == ApplyAuthoritativeSnapshot(a, view)
  <2>1. Follows(a, b, n) /\ SameTarget(a, b)
    BY <1>2, ApplyStep
  <2>2. HandleSnapshot(a, view) \in {b, Spawn(b, "status")}
    BY <1>2 DEF HandleSnapshot, ResolveWaiting
  <2>. HIDE DEF b
  <2>3. b.target # 0
    BY <2>1 DEF SameTarget, Shape, TargetOK
  <2>4. "status" \in JobKinds \ (Entering \cup Disposals \cup {"decide"})
    BY DEF JobKinds, Leased, Calls, Entering, Disposals
  <2>5. Follows(a, Spawn(b, "status"), n)
    BY <2>1, <2>3, <2>4, SpawnAfter
  <2>. QED  BY <2>1, <2>2, <2>5
<1>. QED  BY <1>1, <1>2

(* A job of the page that the messages spawn.                              *)
LEMMA SpawnStep ==
    ASSUME NEW n \in Nat, NEW a \in Page(n), Shape(a), a.target # 0,
           NEW kind \in {"status", "refresh", "enter", "recover", "timer"}
    PROVE  Follows(a, Spawn(a, kind), n)
<1>1. kind \in JobKinds \ (Entering \cup Disposals \cup {"decide"})
    BY DEF JobKinds, Leased, Calls, Entering, Disposals
<1>. QED  BY <1>1, FollowsSelf, SpawnAfter

(* The views an event about q leads to, from view v.                       *)
Revised(v, r) == [v EXCEPT !.revision = r]
Abouts == Requests \cup Others \cup {Self}

EventViews(v, r, q) ==
    {Revised(v, r), [Revised(v, r) EXCEPT !.pending = @ \ {q}], MarkOnline(Revised(v, r), q),
     [Revised(v, r) EXCEPT !.online = @ \ {q}]}
      \cup (IF q \in Requests THEN {[Revised(v, r) EXCEPT !.pending = @ \cup {q}]} ELSE {})

(* Such a view is typed.                                                   *)
LEMMA EventViewsType ==
    ASSUME NEW n \in Nat, NEW v \in View(n), NEW r \in 0..n, NEW q \in Abouts
    PROVE  \A u \in EventViews(v, r, q) : u \in View(n) /\ u.revision = r
<1>. DEFINE w == Revised(v, r)
<1>1. w \in View(n) /\ w.revision = r
    BY DEF View, ViewRecord, Revised
<1>. HIDE DEF w
<1>2. q \in Requests => /\ [w EXCEPT !.pending = @ \cup {q}] \in View(n)
                        /\ [w EXCEPT !.pending = @ \cup {q}].revision = r
    BY <1>1 DEF View, ViewRecord
<1>3. [w EXCEPT !.pending = @ \ {q}] \in View(n) /\ [w EXCEPT !.pending = @ \ {q}].revision = r
    BY <1>1 DEF View, ViewRecord
<1>4. MarkOnline(w, q) \in View(n) /\ MarkOnline(w, q).revision = r
  <2>. DEFINE on == w.online \cup ({q} \cap w.members)
  <2>1. on \subseteq w.members /\ on \in SUBSET Others
    BY <1>1 DEF View, ViewRecord
  <2>2. MarkOnline(w, q) = [w EXCEPT !.online = on]
    BY <1>1 DEF MarkOnline, View, ViewRecord
  <2>. HIDE DEF on
  <2>. QED  BY <1>1, <2>1, <2>2 DEF View, ViewRecord
<1>5. [w EXCEPT !.online = @ \ {q}] \in View(n) /\ [w EXCEPT !.online = @ \ {q}].revision = r
    BY <1>1 DEF View, ViewRecord
<1>. QED  BY <1>1, <1>2, <1>3, <1>4, <1>5 DEF EventViews, w

(* reduce_revisioned_model_event, for an event that is not old.            *)
LEMMA ReduceStep ==
    ASSUME NEW n \in Nat, NEW a \in Page(n), Shape(a), OnScreen(a),
           NEW e \in Messages(n), e.revision >= a.view.revision
    PROVE  Follows(a, ReduceEvent(a, e), n)
<1>. DEFINE d == IF e.kind = "decided" /\ a.decision = e.about THEN NoRequest ELSE a.decision
            b == Knows(a, a.view, a.cursor, d)
            w == Revised(a.view, e.revision)
            cursor == ReconcileApplied(a.cursor, e.revision)
            c == Knows(a, w, cursor, d)
<1>1. e.revision \in 0..n /\ (e.kind \in {"requested", "decided"} => e.about \in Requests)
      /\ e.about \in Abouts
    BY DEF Messages, MessageRecord, Abouts
<1>2. d \in SomeRequest /\ cursor \in Cursor(n)
    BY <1>1, PageFields, CursorType DEF SomeRequest
<1>3. (IF e.kind = "decided" /\ a.decision = e.about
       THEN [a EXCEPT !.decision = NoRequest] ELSE a) = b
    BY DEF Knows, Page
<1>4. Advance(b, e.revision) = c
    BY DEF Advance, Knows, Page, Revised
<1>5. a.target # 0
    BY DEF Shape, TargetOK
<1>6. a.view.revision >= a.view.revision
    BY PageFields
<1>7. Follows(a, b, n)
    BY <1>2, <1>6, PageFields, KnowsStep
<1>8. \A v \in View(n) : v.revision = e.revision =>
          Follows(a, Knows(a, v, cursor, d), n) /\ SameTarget(a, Knows(a, v, cursor, d))
    BY <1>2, KnowsStep
<1>9. \A v \in View(n) : [c EXCEPT !.view = v] = Knows(a, v, cursor, d)
    BY DEF Knows, Page
<1>10. c.view = w
    BY DEF Knows, Page
<1>11. \A u \in EventViews(a.view, e.revision, e.about) : u \in View(n) /\ u.revision = e.revision
    BY <1>1, PageFields, EventViewsType
<1>12. Follows(a, c, n) /\ SameTarget(a, c)
    BY <1>8, <1>11 DEF EventViews
<1>. HIDE DEF b, c, d, cursor, w
<1>13. \A v \in View(n) : v.revision = e.revision => Follows(a, [c EXCEPT !.view = v], n)
                                                  /\ [c EXCEPT !.view = v].target # 0
    BY <1>5, <1>8, <1>9 DEF SameTarget
<1>14. CASE a.kind = "room" /\ e.kind = "requested" /\ a.role = "owner"
  <2>1. ReduceEvent(a, e) = [c EXCEPT !.view.pending = @ \cup {e.about}]
    BY <1>3, <1>4, <1>14 DEF ReduceEvent
  <2>2. ReduceEvent(a, e) = [c EXCEPT !.view = [w EXCEPT !.pending = @ \cup {e.about}]]
    BY <2>1, <1>10
  <2>3. /\ [w EXCEPT !.pending = @ \cup {e.about}] \in View(n)
        /\ [w EXCEPT !.pending = @ \cup {e.about}].revision = e.revision
    BY <1>1, <1>11, <1>14 DEF EventViews, w
  <2>. QED  BY <1>13, <2>2, <2>3
<1>15. CASE a.kind = "room" /\ e.kind = "decided"
  <2>1. ReduceEvent(a, e) = [c EXCEPT !.view.pending = @ \ {e.about}]
    BY <1>3, <1>4, <1>15 DEF ReduceEvent
  <2>2. ReduceEvent(a, e) = [c EXCEPT !.view = [w EXCEPT !.pending = @ \ {e.about}]]
    BY <2>1, <1>10
  <2>3. /\ [w EXCEPT !.pending = @ \ {e.about}] \in View(n)
        /\ [w EXCEPT !.pending = @ \ {e.about}].revision = e.revision
    BY <1>11 DEF EventViews, w
  <2>. QED  BY <1>13, <2>2, <2>3
<1>16. "refresh" \in JobKinds \ (Entering \cup Disposals \cup {"decide"})
    BY DEF JobKinds, Leased, Calls, Entering, Disposals
<1>17. CASE a.kind = "room" /\ e.kind = "online"
  <2>. DEFINE x == [c EXCEPT !.view = MarkOnline(w, e.about)]
  <2>1. ReduceEvent(a, e) = Spawn([c EXCEPT !.view = MarkOnline(@, e.about)], "refresh")
    BY <1>3, <1>4, <1>17 DEF ReduceEvent
  <2>2. ReduceEvent(a, e) = Spawn(x, "refresh")
    BY <2>1, <1>10
  <2>3. MarkOnline(w, e.about) \in View(n) /\ MarkOnline(w, e.about).revision = e.revision
    BY <1>11 DEF EventViews, w
  <2>4. Follows(a, x, n) /\ x.target # 0
    BY <1>13, <2>3
  <2>. HIDE DEF x
  <2>. QED  BY <1>16, <2>2, <2>4, SpawnAfter
<1>18. CASE a.kind = "room" /\ e.kind = "offline"
  <2>. DEFINE x == [c EXCEPT !.view = [w EXCEPT !.online = @ \ {e.about}]]
  <2>1. ReduceEvent(a, e) = Spawn([c EXCEPT !.view.online = @ \ {e.about}], "refresh")
    BY <1>3, <1>4, <1>18 DEF ReduceEvent
  <2>2. ReduceEvent(a, e) = Spawn(x, "refresh")
    BY <2>1, <1>10
  <2>3. /\ [w EXCEPT !.online = @ \ {e.about}] \in View(n)
        /\ [w EXCEPT !.online = @ \ {e.about}].revision = e.revision
    BY <1>11 DEF EventViews, w
  <2>4. Follows(a, x, n) /\ x.target # 0
    BY <1>13, <2>3
  <2>. HIDE DEF x
  <2>. QED  BY <1>16, <2>2, <2>4, SpawnAfter
<1>19. CASE a.kind = "waiting" /\ e.kind = "decided" /\ e.about = Mine
  <2>1. ReduceEvent(a, e) = IF e.decision = "approved" THEN ResolveWaiting(c) ELSE ReturnToLobby(c)
    BY <1>3, <1>4, <1>19 DEF ReduceEvent
  <2>2. c \in Page(n) /\ Shape(c) /\ c.target # 0 /\ c.target = a.target
    BY <1>5, <1>12 DEF Follows, Continues, SameTarget
  <2>3. ResolveWaiting(c) \in {c, Spawn(c, "status")}
    BY DEF ResolveWaiting
  <2>4. "status" \in JobKinds \ (Entering \cup Disposals \cup {"decide"})
    BY DEF JobKinds, Leased, Calls, Entering, Disposals
  <2>5. Follows(a, Spawn(c, "status"), n)
    BY <1>12, <2>2, <2>4, SpawnAfter
  <2>6. Follows(c, ReturnToLobby(c), n)
    BY <2>2, LobbyStep
  <2>7. ReturnToLobby(c).target = 0
    BY <2>2 DEF ReturnToLobby, Page
  <2>8. Follows(a, ReturnToLobby(c), n)
    BY <1>5, <1>12, <2>6, <2>7 DEF Follows, Continues, GoesOn, StaysSuperseded, AsksForNone, SameTarget
  <2>. QED  BY <1>12, <2>1, <2>3, <2>5, <2>8
<1>20. CASE /\ ~(a.kind = "room" /\ e.kind = "requested" /\ a.role = "owner")
            /\ ~(a.kind = "room" /\ e.kind \in {"decided", "online", "offline"})
            /\ ~(a.kind = "waiting" /\ e.kind = "decided" /\ e.about = Mine)
  <2>1. ReduceEvent(a, e) = b
    BY <1>3, <1>20 DEF ReduceEvent
  <2>. QED  BY <1>7, <2>1
<1>. QED  BY <1>14, <1>15, <1>17, <1>18, <1>19, <1>20

(* handle_revisioned_model_event.                                          *)
LEMMA EventStep ==
    ASSUME NEW n \in Nat, NEW a \in Page(n), Shape(a), NEW e \in Messages(n)
    PROVE  Follows(a, HandleEvent(a, e), n)
<1>. DEFINE known == ReconcileApplied(a.cursor, a.view.revision)
            seen == Knows(a, a.view, Observe(known, e.revision), a.decision)
            behind == Knows(a, a.view, MarkSnapshotPending(known, e.revision), a.decision)
<1>1. e.revision \in 0..n
    BY DEF Messages, MessageRecord
<1>2. known \in Cursor(n)
    BY PageFields, CursorType
<1>. HIDE DEF known
<1>3. Observe(known, e.revision) \in Cursor(n) /\ MarkSnapshotPending(known, e.revision) \in Cursor(n)
    BY <1>1, <1>2, CursorType
<1>4. a.view.revision >= a.view.revision
    BY PageFields
<1>5. /\ Follows(a, seen, n) /\ SameTarget(a, seen) /\ seen.view = a.view
      /\ Follows(a, behind, n) /\ SameTarget(a, behind)
    BY <1>3, <1>4, PageFields, KnowsStep
<1>6. /\ [a EXCEPT !.cursor = Observe(known, e.revision)] = seen
      /\ [a EXCEPT !.cursor = MarkSnapshotPending(known, e.revision)] = behind
    BY DEF Knows, Page
<1>7. seen.phase = a.phase /\ seen.jobs = a.jobs
    BY DEF Knows, Page
<1>. HIDE DEF seen, behind
<1>8. CASE ~OnScreen(a)
    BY <1>8, FollowsSelf DEF HandleEvent
<1>9. CASE OnScreen(a) /\ e.revision <= a.view.revision
  <2>1. e.revision # a.view.revision + 1
    BY <1>1, <1>9, PageFields
  <2>2. HandleEvent(a, e) = seen
    BY <1>6, <1>9, <2>1 DEF HandleEvent, known
  <2>. QED  BY <1>5, <2>2
<1>10. CASE OnScreen(a) /\ e.revision = a.view.revision + 1
  <2>1. ~(e.revision <= a.view.revision) /\ e.revision >= seen.view.revision
    BY <1>1, <1>5, <1>10, PageFields
  <2>2. HandleEvent(a, e) = ReduceEvent(seen, e)
    BY <1>6, <1>10, <2>1 DEF HandleEvent, known
  <2>3. seen \in Page(n) /\ Shape(seen) /\ OnScreen(seen)
    BY <1>5, <1>10 DEF Follows, Continues, SameTarget, OnScreen
  <2>4. Follows(seen, ReduceEvent(seen, e), n)
    BY <2>1, <2>3, ReduceStep
  <2>. QED  BY <1>5, <1>7, <2>2, <2>4, FollowsVia DEF SameTarget
<1>11. CASE OnScreen(a) /\ ~(e.revision <= a.view.revision) /\ e.revision # a.view.revision + 1
  <2>1. HandleEvent(a, e) = Spawn(behind, "refresh")
    BY <1>6, <1>11 DEF HandleEvent, known
  <2>2. behind.target # 0
    BY <1>5, <1>11 DEF SameTarget, Shape, TargetOK
  <2>3. "refresh" \in JobKinds \ (Entering \cup Disposals \cup {"decide"})
    BY DEF JobKinds, Leased, Calls, Entering, Disposals
  <2>. QED  BY <1>5, <2>1, <2>2, <2>3, SpawnAfter
<1>. QED  BY <1>8, <1>9, <1>10, <1>11

(* Everything that arrives on the socket of a current connection.          *)
LEMMA HandleStep ==
    ASSUME NEW n \in Nat, NEW a \in Page(n), Shape(a), SocketLeaseIsCurrent(a),
           NEW m \in Messages(n)
    PROVE  Follows(a, Handle(a, m), n)
<1>1. a.suppressed # a.target /\ a.target # 0 /\ OnScreen(a)
    BY DEF SocketLeaseIsCurrent, Shape, TargetOK
<1>2. m.revision \in 0..n /\ m.view \in View(n)
    BY DEF Messages, MessageRecord
<1>3. Follows(a, HandleAttachment(a, m.revision), n)
    BY <1>1, <1>2, AttachmentStep
<1>4. Follows(a, HandleSnapshot(a, m.view), n)
    BY <1>1, <1>2, SnapshotStep
<1>5. Follows(a, HandleExpired(a, m.revision), n)
    BY <1>1, LobbyStep, FollowsSelf DEF HandleExpired
<1>6. Follows(a, ResolveWaiting(a), n)
    BY <1>1, SpawnStep, FollowsSelf DEF ResolveWaiting
<1>7. Follows(a, HandleEvent(a, m), n)
    BY EventStep
<1>. QED  BY <1>3, <1>4, <1>5, <1>6, <1>7 DEF Handle

----------------------------------------------------------------------------
(* The connection.                                                         *)

(* A timer spawned for the page's target can be claimed.                   *)
LEMMA ScheduleStep ==
    ASSUME NEW n \in Nat, NEW a \in Page(n), NEW b, b = ScheduleReconnect(a)
    PROVE  /\ b \in Page(n) /\ SameTarget(a, b)
           /\ b.due = a.due /\ b.socket = a.socket /\ b.phase = a.phase /\ b.view = a.view
           /\ b.jobs \subseteq a.jobs \cup {NewJob("timer", a)} /\ a.jobs \subseteq b.jobs
           /\ NewJob("timer", a).kind = "timer" /\ NewJob("timer", a).target = a.target
           /\ a.phase = "reconnecting" /\ a.active = a.target /\ a.suppressed # a.target
                => \E j \in b.jobs : j.kind = "timer" /\ Claims(b, j)
<1>1. "timer" \in JobKinds
    BY DEF JobKinds, Leased
<1>2. /\ Spawn(a, "timer") \in Page(n)
      /\ Spawn(a, "timer") = [a EXCEPT !.jobs = a.jobs \cup {NewJob("timer", a)}]
      /\ NewJob("timer", a).kind = "timer" /\ NewJob("timer", a).target = a.target
    BY <1>1, SpawnType
<1>3. CASE a.active = a.target /\ a.suppressed # a.target
  <2>1. b = Spawn(a, "timer")
    BY <1>3 DEF ScheduleReconnect
  <2>2. /\ b \in Page(n) /\ SameTarget(a, b) /\ b.due = a.due /\ b.socket = a.socket
        /\ b.phase = a.phase /\ b.view = a.view /\ b.jobs = a.jobs \cup {NewJob("timer", a)}
    BY <1>2, <2>1 DEF Page, SameTarget
  <2>3. NewJob("timer", a) \in b.jobs
    BY <2>2
  <2>4. a.phase = "reconnecting" => Claims(b, NewJob("timer", a))
    BY <1>2, <1>3, <2>2 DEF Claims, LeaseIsCurrent, SameTarget
  <2>. QED  BY <1>2, <2>2, <2>3, <2>4
<1>4. CASE ~(a.active = a.target /\ a.suppressed # a.target)
    BY <1>2, <1>4 DEF ScheduleReconnect, SameTarget
<1>. QED  BY <1>3, <1>4

(* x is a with the connection given.                                       *)
IsWith(x, a, n, phase, active, suppressed, due, socket, jobs) ==
    /\ x \in Page(n)
    /\ x.kind = a.kind /\ x.role = a.role /\ x.target = a.target /\ x.entries = a.entries
    /\ x.busy = a.busy /\ x.view = a.view
    /\ x.phase = phase /\ x.active = active /\ x.suppressed = suppressed /\ x.due = due
    /\ x.socket = socket /\ x.jobs = jobs

(* The phase and the socket of a page are set.                             *)
LEMMA SetConnection ==
    ASSUME NEW n \in Nat, NEW a \in Page(n), NEW phase \in Phases, NEW socket \in Sockets
    PROVE  /\ IsWith([a EXCEPT !.phase = phase], a, n,
                     phase, a.active, a.suppressed, a.due, a.socket, a.jobs)
           /\ IsWith([a EXCEPT !.socket = socket], a, n,
                     a.phase, a.active, a.suppressed, a.due, socket, a.jobs)
           /\ IsWith([a EXCEPT !.socket = socket, !.phase = phase], a, n,
                     phase, a.active, a.suppressed, a.due, socket, a.jobs)
    BY DEF IsWith, Page

(* The effect: the connection is made for the target of now, and what was  *)
(* spawned with the old lease is gone.                                     *)
LEMMA EffectStep ==
    ASSUME NEW n \in Nat, NEW a \in Page(n), Shape(a), a.due, NEW connects \in BOOLEAN
    PROVE  Follows(a, RunEffect(a, connects), n)
<1>. DEFINE jobs == {j \in a.jobs : j.kind \notin Leased}
            suppressed == IF a.active # a.target THEN 0 ELSE a.suppressed
            life == [a.life EXCEPT !.recovery = IF @ = a.target THEN @ ELSE 0,
                                   !.rebuild = @ /\ a.life.recovery = a.target]
            begun == IF a.active # a.target
                     THEN [NewToken(Invalidate(a)) EXCEPT !.backoff = 0, !.suppressed = 0]
                     ELSE Invalidate(a)
            b == [begun EXCEPT !.active = a.target, !.due = FALSE, !.socket = "none",
                               !.life.recovery = IF @ = a.target THEN @ ELSE 0,
                               !.life.rebuild = @ /\ a.life.recovery = a.target]
            r == RunEffect(a, connects)
<1>1. /\ jobs \in SUBSET Job(n) /\ suppressed \in Nat /\ a.target \in Nat
      /\ a.life \in Life /\ life \in Life
  <2>1. a.life \in Life
    BY DEF Page
  <2>2. life \in Life
    BY <2>1 DEF Life
  <2>. QED  BY <2>1, <2>2 DEF Page
<1>2. /\ IsWith(begun, a, n, a.phase, a.active, suppressed, TRUE, a.socket, jobs)
      /\ begun.life = a.life
  <2>1. {j \in jobs : j.kind # "timer"} = jobs
    BY DEF Leased
  <2>2. NewToken(Invalidate(a)) = [a EXCEPT !.jobs = jobs]
    BY <2>1 DEF NewToken, Invalidate, Page
  <2>3. Invalidate(a) = [a EXCEPT !.jobs = jobs]
    BY DEF Invalidate, Page
  <2>4. CASE a.active # a.target
    <3>1. begun = [a EXCEPT !.jobs = jobs, !.backoff = 0, !.suppressed = 0]
      BY <2>2, <2>4
    <3>. HIDE DEF jobs, begun
    <3>. QED  BY <1>1, <2>4, <3>1 DEF IsWith, Page
  <2>5. CASE a.active = a.target
    <3>1. begun = [a EXCEPT !.jobs = jobs]
      BY <2>3, <2>5
    <3>. HIDE DEF jobs, begun
    <3>. QED  BY <1>1, <2>5, <3>1 DEF IsWith, Page
  <2>. QED  BY <2>4, <2>5
<1>. HIDE DEF begun, jobs, suppressed
<1>3. IsWith(b, a, n, a.phase, a.target, suppressed, FALSE, "none", jobs)
  <2>1. b = [begun EXCEPT !.active = a.target, !.due = FALSE, !.socket = "none", !.life = life]
    BY <1>1, <1>2 DEF Life, IsWith, Page
  <2>. HIDE DEF life, b
  <2>. QED  BY <1>1, <1>2, <2>1 DEF IsWith, Page, Sockets
<1>4. r = CASE a.target = 0 -> [b EXCEPT !.phase = "disconnected"]
            [] a.target # 0 /\ b.suppressed = a.target -> [b EXCEPT !.phase = "superseded"]
            [] OTHER ->
                 IF connects
                 THEN [b EXCEPT !.socket = "connecting",
                                !.phase = IF b.backoff = 0 THEN "connecting" ELSE "reconnecting"]
                 ELSE ScheduleReconnect([b EXCEPT !.phase = "reconnecting"])
    BY DEF RunEffect, begun
<1>. SUFFICES Follows(a, r, n)
    OBVIOUS
<1>. HIDE DEF b, r
<1>5. \A p \in Phases, k \in Sockets :
        /\ IsWith([b EXCEPT !.phase = p], a, n, p, a.target, suppressed, FALSE, "none", jobs)
        /\ IsWith([b EXCEPT !.socket = k, !.phase = p], a, n,
                  p, a.target, suppressed, FALSE, k, jobs)
  <2>. TAKE p \in Phases, k \in Sockets
  <2>1. b \in Page(n)
    BY <1>3 DEF IsWith
  <2>2. /\ IsWith([b EXCEPT !.phase = p], b, n,
                  p, b.active, b.suppressed, b.due, b.socket, b.jobs)
        /\ IsWith([b EXCEPT !.socket = k, !.phase = p], b, n,
                  p, b.active, b.suppressed, b.due, k, b.jobs)
    BY <2>1, SetConnection
  <2>. QED  BY <1>3, <2>2 DEF IsWith
<1>6. \A x : \A p \in Phases, k \in Sockets :
        /\ IsWith(x, a, n, p, a.target, suppressed, FALSE, k, jobs)
        /\ Live(x) => a.target # 0 /\ suppressed # a.target
        /\ SupersededOK(x)
        => JobsOK(x) /\ TargetOK(x) /\ SocketOK(x) /\ GoesOn(a, x) /\ AsksForNone(a, x)
  <2>. SUFFICES ASSUME NEW x, NEW p \in Phases, NEW k \in Sockets,
                       IsWith(x, a, n, p, a.target, suppressed, FALSE, k, jobs),
                       Live(x) => a.target # 0 /\ suppressed # a.target
                PROVE  JobsOK(x) /\ TargetOK(x) /\ SocketOK(x) /\ GoesOn(a, x) /\ AsksForNone(a, x)
    OBVIOUS
  <2>1. JobsOK(x)
    BY DEF IsWith, JobsOK, Shape, jobs
  <2>2. TargetOK(x)
    BY PageFields DEF IsWith, TargetOK, Shape, suppressed, OnScreen
  <2>3. SocketOK(x)
    BY DEF IsWith, SocketOK, Disposals, Leased, jobs
  <2>4. GoesOn(a, x) /\ AsksForNone(a, x)
    BY PageFields DEF IsWith, GoesOn, AsksForNone, jobs
  <2>. QED  BY <2>1, <2>2, <2>3, <2>4
<1>7. CASE a.target = 0
  <2>1. IsWith(r, a, n, "disconnected", a.target, suppressed, FALSE, "none", jobs)
    BY <1>4, <1>5, <1>7 DEF Phases, Sockets
  <2>2. ~Live(r) /\ SupersededOK(r) /\ Retries(r)
    BY <2>1 DEF IsWith, Live, SupersededOK, Retries
  <2>3. JobsOK(r) /\ TargetOK(r) /\ SocketOK(r) /\ GoesOn(a, r) /\ AsksForNone(a, r)
    BY <1>6, <2>1, <2>2 DEF Phases, Sockets
  <2>4. StaysSuperseded(a, r)
    BY <1>7 DEF StaysSuperseded, Shape, SupersededOK
  <2>. QED  BY <2>1, <2>2, <2>3, <2>4 DEF Follows, Continues, Shape, IsWith
<1>8. CASE a.target # 0 /\ suppressed = a.target
  <2>0. r = [b EXCEPT !.phase = "superseded"]
    BY <1>3, <1>4, <1>8 DEF IsWith
  <2>1. IsWith(r, a, n, "superseded", a.target, suppressed, FALSE, "none", jobs)
    BY <1>5, <2>0 DEF Phases, Sockets
  <2>2. ~Live(r) /\ SupersededOK(r) /\ Retries(r)
    BY <1>8, <2>1 DEF IsWith, Live, SupersededOK, Retries
  <2>3. JobsOK(r) /\ TargetOK(r) /\ SocketOK(r) /\ GoesOn(a, r) /\ AsksForNone(a, r)
    BY <1>6, <2>1, <2>2 DEF Phases, Sockets
  <2>4. StaysSuperseded(a, r)
    BY <2>1, <2>2 DEF StaysSuperseded, IsWith
  <2>. QED  BY <2>1, <2>2, <2>3, <2>4 DEF Follows, Continues, Shape, IsWith
<1>9. CASE a.target # 0 /\ suppressed # a.target /\ connects
  <2>. DEFINE p == IF b.backoff = 0 THEN "connecting" ELSE "reconnecting"
  <2>1. p \in Phases /\ p # "superseded"
    BY DEF Phases
  <2>2. r = [b EXCEPT !.socket = "connecting", !.phase = p]
    BY <1>3, <1>4, <1>9 DEF IsWith
  <2>. HIDE DEF p
  <2>3. IsWith(r, a, n, p, a.target, suppressed, FALSE, "connecting", jobs)
    BY <1>5, <2>1, <2>2 DEF Sockets
  <2>4. Live(r) /\ SupersededOK(r) /\ Retries(r)
    BY <2>1, <2>3 DEF IsWith, Live, SupersededOK, Retries
  <2>5. JobsOK(r) /\ TargetOK(r) /\ SocketOK(r) /\ GoesOn(a, r) /\ AsksForNone(a, r)
    BY <1>6, <1>9, <2>1, <2>3, <2>4 DEF Sockets
  <2>6. StaysSuperseded(a, r)
    BY <1>9 DEF StaysSuperseded, Shape, SupersededOK, suppressed
  <2>. QED  BY <2>3, <2>4, <2>5, <2>6 DEF Follows, Continues, Shape, IsWith
<1>10. CASE a.target # 0 /\ suppressed # a.target /\ ~connects
  <2>. DEFINE x == [b EXCEPT !.phase = "reconnecting"]
  <2>1. r = ScheduleReconnect(x)
    BY <1>3, <1>4, <1>10 DEF IsWith
  <2>2. IsWith(x, a, n, "reconnecting", a.target, suppressed, FALSE, "none", jobs)
    BY <1>5 DEF Phases, Sockets
  <2>. HIDE DEF x
  <2>3. ~Live(x) /\ SupersededOK(x)
    BY <2>2 DEF IsWith, Live, SupersededOK
  <2>4. JobsOK(x) /\ TargetOK(x) /\ SocketOK(x) /\ GoesOn(a, x) /\ AsksForNone(a, x)
    BY <1>6, <2>2, <2>3 DEF Phases, Sockets
  <2>5. /\ r \in Page(n) /\ SameTarget(x, r)
        /\ r.due = x.due /\ r.socket = x.socket /\ r.phase = x.phase /\ r.view = x.view
        /\ r.jobs \subseteq x.jobs \cup {NewJob("timer", x)}
        /\ NewJob("timer", x).kind = "timer" /\ NewJob("timer", x).target = x.target
        /\ x.phase = "reconnecting" /\ x.active = x.target /\ x.suppressed # x.target
             => \E j \in r.jobs : j.kind = "timer" /\ Claims(r, j)
    BY <2>1, <2>2, ScheduleStep DEF IsWith
  <2>6. Retries(r) /\ SupersededOK(r) /\ ~Live(r)
    BY <1>10, <2>2, <2>5 DEF IsWith, Retries, SupersededOK, Live
  <2>7. JobsOK(r)
    BY <1>10, <2>2, <2>4, <2>5 DEF JobsOK, Entering, SameTarget, IsWith
  <2>8. TargetOK(r) /\ SocketOK(r) /\ GoesOn(a, r) /\ AsksForNone(a, r)
    BY <2>4, <2>5, <2>6 DEF TargetOK, SocketOK, GoesOn, AsksForNone, SameTarget, OnScreen
  <2>9. StaysSuperseded(a, r)
    BY <1>10 DEF StaysSuperseded, Shape, SupersededOK, suppressed
  <2>. QED  BY <2>2, <2>5, <2>6, <2>7, <2>8, <2>9 DEF Follows, Continues, Shape, IsWith, SameTarget
<1>. QED  BY <1>7, <1>8, <1>9, <1>10

(* A page that keeps all of a but its connection.                          *)
LEMMA ConnectionStep ==
    ASSUME NEW n \in Nat, NEW a \in Page(n), NEW b \in Page(n), Shape(a),
           SameTarget(a, b), a.due => b.due, Live(b) => Live(a), JobsGrow(a, b),
           SupersededOK(b), Retries(b), b.view = a.view,
           a.phase = "superseded" => b.phase = "superseded"
    PROVE  Follows(a, b, n)
<1>1. Shape(b)
    BY ShapeBy
<1>2. GoesOn(a, b) /\ AsksForNone(a, b)
    BY PageFields DEF GoesOn, AsksForNone, JobsGrow, Entering
<1>3. StaysSuperseded(a, b)
    BY DEF StaysSuperseded, SupersededOK
<1>. QED  BY <1>1, <1>2, <1>3 DEF Follows, Continues, SameTarget

(* The socket opens, or reports an error.                                  *)
LEMMA OpensStep ==
    ASSUME NEW n \in Nat, NEW a \in Page(n), Shape(a), Live(a), NEW phase \in Phases \ {"superseded"}
    PROVE  /\ Follows(a, [a EXCEPT !.socket = "open", !.phase = phase], n)
           /\ Follows(a, [a EXCEPT !.phase = phase], n)
<1>1. \A b : /\ b \in Page(n) /\ SameTarget(a, b) /\ b.due = a.due /\ b.jobs = a.jobs
             /\ b.view = a.view /\ b.phase = phase /\ Live(b)
             => Follows(a, b, n)
  <2>. SUFFICES ASSUME NEW b, b \in Page(n) /\ SameTarget(a, b) /\ b.due = a.due /\ b.jobs = a.jobs,
                       b.view = a.view /\ b.phase = phase /\ Live(b)
                PROVE  Follows(a, b, n)
    OBVIOUS
  <2>1. JobsGrow(a, b) /\ SupersededOK(b) /\ Retries(b) /\ a.phase # "superseded"
    BY DEF JobsGrow, SupersededOK, Retries, Shape
  <2>. QED  BY <2>1, ConnectionStep
<1>2. "open" \in Sockets
    BY DEF Sockets
<1>3. LET b == [a EXCEPT !.socket = "open", !.phase = phase]
      IN  /\ b \in Page(n) /\ SameTarget(a, b) /\ b.due = a.due /\ b.jobs = a.jobs
          /\ b.view = a.view /\ b.phase = phase /\ Live(b)
    BY <1>2 DEF Page, SameTarget, Live
<1>4. LET b == [a EXCEPT !.phase = phase]
      IN  /\ b \in Page(n) /\ SameTarget(a, b) /\ b.due = a.due /\ b.jobs = a.jobs
          /\ b.view = a.view /\ b.phase = phase /\ Live(b)
    BY DEF Page, SameTarget, Live
<1>5. Follows(a, [a EXCEPT !.socket = "open", !.phase = phase], n)
    BY <1>1, <1>3
<1>6. Follows(a, [a EXCEPT !.phase = phase], n)
    BY <1>1, <1>4
<1>. QED  BY <1>5, <1>6

(* The socket closes: a current page plans to connect again, or is         *)
(* superseded; the page of an older target has its effect due.             *)
LEMMA ClosesStep ==
    ASSUME NEW n \in Nat, NEW a \in Page(n), Shape(a), NEW c, c = [a EXCEPT !.socket = "closed"]
    PROVE  /\ ~SocketLeaseIsCurrent(a) => Follows(a, c, n)
           /\ SocketLeaseIsCurrent(a) /\ Live(a) => Follows(a, ReconnectSocket(c), n)
           /\ SocketLeaseIsCurrent(a) => Follows(a, Suppress(c), n)
<1>1. IsWith(c, a, n, a.phase, a.active, a.suppressed, a.due, "closed", a.jobs)
    BY DEF IsWith, Page, Sockets
<1>2. c \in Page(n) /\ SameTarget(a, c) /\ ~Live(c) /\ c.jobs = a.jobs
    BY <1>1 DEF IsWith, SameTarget, Live
<1>3. ASSUME ~SocketLeaseIsCurrent(a)
      PROVE  Follows(a, c, n)
  <2>1. Live(a) => a.due
    BY <1>3 DEF SocketLeaseIsCurrent, Shape, SocketOK, TargetOK
  <2>2. Retries(c)
    BY <1>1, <2>1 DEF IsWith, Retries, Shape, Claims, LeaseIsCurrent, Live
  <2>3. SupersededOK(c) /\ JobsGrow(a, c)
    BY <1>1, <1>2 DEF IsWith, SupersededOK, Shape, JobsGrow
  <2>. QED  BY <1>1, <1>2, <2>2, <2>3, ConnectionStep DEF IsWith
<1>4. ASSUME SocketLeaseIsCurrent(a), Live(a)
      PROVE  Follows(a, ReconnectSocket(c), n)
  <2>. DEFINE x == [c EXCEPT !.phase = "reconnecting"]
              y == Spawn(x, "clear")
              b == ScheduleReconnect(y)
  <2>1. IsWith(x, c, n, "reconnecting", c.active, c.suppressed, c.due, c.socket, c.jobs)
    BY <1>2, SetConnection DEF Phases, Sockets
  <2>2. "clear" \in JobKinds
    BY DEF JobKinds, Leased
  <2>. HIDE DEF x
  <2>3. /\ y \in Page(n) /\ y = [x EXCEPT !.jobs = x.jobs \cup {NewJob("clear", x)}]
        /\ NewJob("clear", x).kind = "clear" /\ NewJob("clear", x).target = x.target
    BY <2>1, <2>2, SpawnType DEF IsWith
  <2>4. /\ y \in Page(n) /\ SameTarget(a, y) /\ y.due = a.due /\ y.socket = "closed"
        /\ y.phase = "reconnecting" /\ y.view = a.view
        /\ y.jobs = a.jobs \cup {NewJob("clear", x)} /\ NewJob("clear", x).target = a.target
    BY <1>1, <2>1, <2>3 DEF IsWith, Page, SameTarget
  <2>. HIDE DEF y
  <2>5. /\ b \in Page(n) /\ SameTarget(y, b)
        /\ b.due = y.due /\ b.socket = y.socket /\ b.phase = y.phase /\ b.view = y.view
        /\ b.jobs \subseteq y.jobs \cup {NewJob("timer", y)}
        /\ NewJob("timer", y).kind = "timer" /\ NewJob("timer", y).target = y.target
        /\ y.phase = "reconnecting" /\ y.active = y.target /\ y.suppressed # y.target
             => \E j \in b.jobs : j.kind = "timer" /\ Claims(b, j)
    BY <2>4, ScheduleStep
  <2>. HIDE DEF b
  <2>6. SameTarget(a, b) /\ b.due = a.due /\ ~Live(b) /\ b.view = a.view /\ b.phase = "reconnecting"
    BY <2>4, <2>5 DEF SameTarget, Live
  <2>7. a.target # 0 /\ y.active = y.target /\ y.suppressed # y.target /\ a.phase # "superseded"
    BY <1>4, <2>4 DEF SocketLeaseIsCurrent, SameTarget, Shape, SupersededOK
  <2>8. Retries(b) /\ SupersededOK(b)
    BY <2>4, <2>5, <2>6, <2>7 DEF Retries, SupersededOK
  <2>9. JobsGrow(a, b)
    BY <2>3, <2>4, <2>5, <2>6, <2>7 DEF JobsGrow, SameTarget, Entering, Disposals
  <2>10. Follows(a, b, n)
    BY <2>5, <2>6, <2>7, <2>8, <2>9, ConnectionStep
  <2>11. ReconnectSocket(c) = b
    BY DEF ReconnectSocket, b, y, x
  <2>. QED  BY <2>10, <2>11
<1>5. ASSUME SocketLeaseIsCurrent(a)
      PROVE  Follows(a, Suppress(c), n)
  <2>. DEFINE x == [c EXCEPT !.suppressed = c.active, !.phase = "superseded"]
              b == Spawn(x, "drop")
  <2>1. IsWith(x, c, n, "superseded", c.active, c.active, c.due, c.socket, c.jobs)
    BY <1>2 DEF IsWith, Page, Phases
  <2>2. "drop" \in JobKinds
    BY DEF JobKinds, Leased
  <2>. HIDE DEF x
  <2>3. /\ b \in Page(n) /\ b = [x EXCEPT !.jobs = x.jobs \cup {NewJob("drop", x)}]
        /\ NewJob("drop", x).kind = "drop" /\ NewJob("drop", x).target = x.target
    BY <2>1, <2>2, SpawnType DEF IsWith
  <2>4. /\ b.kind = a.kind /\ b.role = a.role /\ b.target = a.target /\ b.entries = a.entries
        /\ b.active = a.active /\ b.suppressed = a.active /\ b.busy = a.busy
        /\ b.due = a.due /\ b.socket = "closed" /\ b.phase = "superseded" /\ b.view = a.view
        /\ b.jobs = a.jobs \cup {NewJob("drop", x)} /\ NewJob("drop", x).target = a.target
    BY <1>1, <2>1, <2>3 DEF IsWith, Page
  <2>. HIDE DEF b
  <2>5. a.target # 0 /\ a.active = a.target
    BY <1>5 DEF SocketLeaseIsCurrent
  <2>6. ~Live(b) /\ SupersededOK(b) /\ Retries(b) /\ SocketOK(b)
    BY <2>4, <2>5 DEF Live, SupersededOK, Retries, SocketOK
  <2>7. TargetOK(b)
    BY <2>4 DEF TargetOK, Shape, OnScreen
  <2>8. JobsOK(b)
    BY <2>3, <2>4, <2>5 DEF JobsOK, Shape, Entering
  <2>9. GoesOn(a, b) /\ StaysSuperseded(a, b) /\ AsksForNone(a, b)
    BY <2>3, <2>4, <2>6, PageFields DEF GoesOn, StaysSuperseded, AsksForNone
  <2>10. Follows(a, b, n)
    BY <2>3, <2>4, <2>6, <2>7, <2>8, <2>9 DEF Follows, Continues, Shape
  <2>11. Suppress(c) = b
    BY <1>1, <1>2 DEF Suppress, b, x, IsWith
  <2>. QED  BY <2>10, <2>11
<1>. QED  BY <1>3, <1>4, <1>5

(* The page's timers: the retry, claimed or stale, and the disposals.      *)
LEMMA FireStep ==
    ASSUME NEW n \in Nat, NEW a \in Page(n), Shape(a), NEW j \in a.jobs, j.kind \notin Calls,
           NEW c, c = [a EXCEPT !.jobs = @ \ {j}]
    PROVE  /\ j.kind = "timer" => Follows(a, FireTimer(c, j), n)
           /\ j.kind \in Disposals => /\ Follows(a, c, n)
                                      /\ Follows(a, [c EXCEPT !.socket = "none"], n)
           /\ j.kind \in Disposals \cup {"timer"}
<1>1. j.kind \in Disposals \cup {"timer"}
    BY DEF Page, Job, JobKinds, Leased, Calls, Disposals
<1>2. a.jobs \ {j} \in SUBSET Job(n)
    BY PageFields
<1>3. IsWith(c, a, n, a.phase, a.active, a.suppressed, a.due, a.socket, a.jobs \ {j})
    BY <1>2 DEF IsWith, Page
<1>4. c \in Page(n) /\ SameTarget(a, c) /\ JobsGrow(a, c) /\ (Live(c) => Live(a)) /\ SupersededOK(c)
    BY <1>3 DEF IsWith, SameTarget, JobsGrow, Live, SupersededOK, Shape
<1>5. ASSUME j.kind \in Disposals \/ ~Claims(c, j)
      PROVE  Retries(c) /\ Follows(a, c, n)
  <2>1. Claims(c, j) = Claims(a, j)
    BY <1>3 DEF Claims, LeaseIsCurrent, IsWith
  <2>2. \A i \in a.jobs : i.kind = "timer" /\ Claims(a, i) => i \in c.jobs /\ Claims(c, i)
    BY <1>3, <1>5, <2>1 DEF Claims, LeaseIsCurrent, IsWith, Disposals
  <2>3. Retries(c)
    BY <1>3, <2>2 DEF Retries, Shape, IsWith, Live
  <2>. QED  BY <1>3, <1>4, <2>3, ConnectionStep DEF IsWith
<1>6. ASSUME j.kind = "timer"
      PROVE  Follows(a, FireTimer(c, j), n)
  <2>1. CASE ~Claims(c, j)
    BY <1>5, <2>1 DEF FireTimer
  <2>2. CASE Claims(c, j)
    <3>. DEFINE jobs == {i \in c.jobs : i.kind # "timer"}
                b == [c EXCEPT !.jobs = jobs, !.backoff = 1, !.due = TRUE]
    <3>1. FireTimer(c, j) = b
      BY <1>4, <2>2 DEF FireTimer, NewToken, Page
    <3>2. jobs \in SUBSET Job(n)
      BY <1>4, PageFields
    <3>3. IsWith(b, c, n, c.phase, c.active, c.suppressed, TRUE, c.socket, jobs)
      <4>. HIDE DEF jobs
      <4>. QED  BY <1>4, <3>2 DEF IsWith, Page
    <3>. HIDE DEF b
    <3>4. SameTarget(a, b) /\ b.due /\ (Live(b) => Live(a)) /\ b.view = a.view /\ b.phase = a.phase
      BY <1>3, <3>3 DEF IsWith, SameTarget, Live
    <3>5. JobsGrow(a, b)
      BY <1>3, <3>3 DEF JobsGrow, IsWith
    <3>6. Retries(b) /\ SupersededOK(b)
      BY <1>4, <3>3, <3>4 DEF Retries, SupersededOK, IsWith, Live
    <3>7. Follows(a, b, n)
      BY <3>3, <3>4, <3>5, <3>6, ConnectionStep DEF IsWith
    <3>. QED  BY <3>1, <3>7
  <2>. QED  BY <2>1, <2>2
<1>7. ASSUME j.kind \in Disposals
      PROVE  Follows(a, [c EXCEPT !.socket = "none"], n)
  <2>. DEFINE b == [c EXCEPT !.socket = "none"]
  <2>1. IsWith(b, c, n, c.phase, c.active, c.suppressed, c.due, "none", c.jobs)
    BY <1>4 DEF IsWith, Page, Sockets
  <2>. HIDE DEF b
  <2>2. ~Live(a) /\ ~Live(c)
    BY <1>4, <1>7 DEF Shape, SocketOK
  <2>3. /\ SameTarget(a, b) /\ b.due = a.due /\ ~Live(b) /\ b.view = a.view /\ b.phase = a.phase
        /\ JobsGrow(a, b) /\ b \in Page(n)
    BY <1>3, <2>1 DEF IsWith, SameTarget, Live, JobsGrow
  <2>4. Retries(c)
    BY <1>5, <1>7
  <2>5. Retries(b) /\ SupersededOK(b)
    BY <1>4, <2>1, <2>2, <2>3, <2>4 DEF Retries, SupersededOK, IsWith, Claims, LeaseIsCurrent
  <2>6. Follows(a, b, n)
    BY <2>3, <2>5, ConnectionStep
  <2>. QED  BY <2>6 DEF b
<1>. QED  BY <1>1, <1>5, <1>6, <1>7

(* begin_recovery: the socket is dropped and another connection scheduled. *)
LEMMA RecoverStep ==
    ASSUME NEW n \in Nat, NEW a \in Page(n), Shape(a), a.target # 0, a.suppressed # a.target,
           NEW rebuild \in BOOLEAN
    PROVE  Follows(a, Recover(a, rebuild), n) /\ Recover(a, rebuild).target = a.target
<1>. DEFINE jobs == {j \in a.jobs : j.kind \notin Leased}
            life == [a.life EXCEPT !.recovery = a.target, !.rebuild = @ \/ rebuild]
            x == [a EXCEPT !.phase = "reconnecting", !.socket = "none",
                           !.life.recovery = a.target, !.life.rebuild = @ \/ rebuild]
            y == Invalidate(x)
            b == ScheduleReconnect(y)
<1>1. a.life \in Life /\ a.target \in Nat
    BY DEF Page
<1>2. life \in Life
    BY <1>1 DEF Life
<1>3. x = [a EXCEPT !.phase = "reconnecting", !.socket = "none", !.life = life]
    BY <1>1 DEF Life, Page
<1>4. IsWith(x, a, n, "reconnecting", a.active, a.suppressed, a.due, "none", a.jobs)
  <2>. HIDE DEF x, life
  <2>. QED  BY <1>2, <1>3 DEF IsWith, Page, Phases, Sockets
<1>. HIDE DEF x, life
<1>5. jobs \in SUBSET Job(n)
    BY PageFields
<1>6. y = [x EXCEPT !.jobs = jobs]
    BY <1>4 DEF Invalidate, IsWith
<1>7. IsWith(y, a, n, "reconnecting", a.active, a.suppressed, a.due, "none", jobs)
  <2>. HIDE DEF y, jobs
  <2>. QED  BY <1>4, <1>5, <1>6 DEF IsWith, Page
<1>. HIDE DEF y
<1>8. /\ b \in Page(n) /\ SameTarget(y, b)
      /\ b.due = y.due /\ b.socket = y.socket /\ b.phase = y.phase /\ b.view = y.view
      /\ b.jobs \subseteq y.jobs \cup {NewJob("timer", y)}
      /\ NewJob("timer", y).kind = "timer" /\ NewJob("timer", y).target = y.target
      /\ y.phase = "reconnecting" /\ y.active = y.target /\ y.suppressed # y.target
           => \E j \in b.jobs : j.kind = "timer" /\ Claims(b, j)
    BY <1>7, ScheduleStep DEF IsWith
<1>. HIDE DEF b
<1>9. SameTarget(a, b) /\ b.due = a.due /\ ~Live(b) /\ b.view = a.view /\ b.phase = "reconnecting"
    BY <1>7, <1>8 DEF SameTarget, Live, IsWith
<1>10. a.phase # "superseded"
    BY DEF Shape, SupersededOK
<1>11. Retries(b) /\ SupersededOK(b)
    BY <1>7, <1>8, <1>9 DEF Retries, SupersededOK, IsWith, Shape, TargetOK
<1>12. JobsGrow(a, b)
    BY <1>7, <1>8 DEF JobsGrow, IsWith, Entering, Disposals
<1>13. Follows(a, b, n)
    BY <1>8, <1>9, <1>10, <1>11, <1>12, ConnectionStep
<1>14. Recover(a, rebuild) = b
    BY DEF Recover, b, y, x
<1>. QED  BY <1>9, <1>13, <1>14 DEF SameTarget

(* A lifecycle event is noted.                                             *)
LEMMA NoteStep ==
    ASSUME NEW n \in Nat, NEW a \in Page(n), NEW e \in LifecycleEvents
    PROVE  IsWith(NoteLifecycle(a, e), a, n,
                  a.phase, a.active, a.suppressed, a.due, a.socket, a.jobs)
<1>. DEFINE acts == RecoveryAction(a, e) # "none"
            hidden == IF e \in {"visible", "returns"} THEN FALSE ELSE a.life.hidden \/ e = "hidden"
            pending == CASE e = "offline" -> TRUE
                         [] e \in {"visible", "returns", "online"} /\ acts -> FALSE
                         [] OTHER -> a.life.network_recovery_pending
            recovery == IF a.life.recovery = a.target THEN a.life.recovery ELSE 0
            rebuild == a.life.rebuild /\ a.life.recovery = a.target
            life == [hidden |-> hidden, network_recovery_pending |-> pending,
                     recovery |-> recovery, rebuild |-> rebuild]
<1>1. a.life \in Life
    BY DEF Page
<1>2. hidden \in BOOLEAN /\ pending \in BOOLEAN /\ recovery \in Nat /\ rebuild \in BOOLEAN
    BY <1>1 DEF Life
<1>3. life \in Life
  <2>. HIDE DEF hidden, pending, recovery, rebuild
  <2>. QED  BY <1>2 DEF Life
<1>4. NoteLifecycle(a, e) = [a EXCEPT !.life.hidden = hidden,
                                      !.life.network_recovery_pending = pending,
                                      !.life.recovery = recovery, !.life.rebuild = rebuild]
    BY <1>1 DEF NoteLifecycle, Life, Page
<1>. HIDE DEF hidden, pending, recovery, rebuild
<1>5. NoteLifecycle(a, e) = [a EXCEPT !.life = life]
    BY <1>1, <1>4 DEF Life, Page
<1>. HIDE DEF life
<1>. QED  BY <1>3, <1>5 DEF IsWith, Page

(* handle_browser_lifecycle_event.                                         *)
LEMMA LifecycleStep ==
    ASSUME NEW n \in Nat, NEW a \in Page(n), Shape(a), NEW e \in LifecycleEvents
    PROVE  Follows(a, HandleLifecycle(a, e), n)
<1>. DEFINE b == NoteLifecycle(a, e)
            rebuild == e = "offline" \/ RecoveryAction(a, e) = "rebuild"
            c == Recover(b, rebuild)
<1>1. IsWith(b, a, n, a.phase, a.active, a.suppressed, a.due, a.socket, a.jobs)
    BY NoteStep
<1>2. HandleLifecycle(a, e) \in {b, c, Spawn(c, "recover")}
    BY DEF HandleLifecycle
<1>3. HandleLifecycle(a, e) # b => a.target # 0 /\ a.suppressed # a.target
    BY DEF HandleLifecycle
<1>. HIDE DEF b
<1>4. b \in Page(n) /\ Shape(b)
  <2>1. SameTarget(a, b) /\ JobsGrow(a, b) /\ b.due = a.due /\ b.socket = a.socket
        /\ b.phase = a.phase /\ b.view = a.view /\ b.jobs = a.jobs /\ b \in Page(n)
    BY <1>1 DEF IsWith, SameTarget, JobsGrow
  <2>2. a.view.revision >= a.view.revision
    BY PageFields
  <2>3. Follows(a, b, n)
    BY <2>1, <2>2, QuietStep
  <2>. QED  BY <2>1, <2>3 DEF Follows, Continues
<1>5. CASE HandleLifecycle(a, e) = b
  <2>1. Follows(b, b, n)
    BY <1>4, FollowsSelf
  <2>. QED  BY <1>1, <1>5, <2>1, FollowsVia DEF IsWith
<1>6. CASE HandleLifecycle(a, e) # b
  <2>1. b.target # 0 /\ b.suppressed # b.target
    BY <1>1, <1>3, <1>6 DEF IsWith
  <2>2. rebuild \in BOOLEAN
    OBVIOUS
  <2>. HIDE DEF rebuild
  <2>3. Follows(b, c, n) /\ c.target = b.target
    BY <1>4, <2>1, <2>2, RecoverStep
  <2>. HIDE DEF c
  <2>4. "recover" \in JobKinds \ (Entering \cup Disposals \cup {"decide"})
    BY DEF JobKinds, Leased, Calls, Entering, Disposals
  <2>5. Follows(b, Spawn(c, "recover"), n)
    BY <1>4, <2>1, <2>3, <2>4, SpawnAfter
  <2>6. Follows(b, HandleLifecycle(a, e), n)
    BY <1>2, <1>6, <2>3, <2>5
  <2>. QED  BY <1>1, <2>6, FollowsVia DEF IsWith
<1>. QED  BY <1>5, <1>6

----------------------------------------------------------------------------
(* The page's calls.                                                       *)

(* A call that has come back is taken from the jobs.                       *)
LEMMA DropStep ==
    ASSUME NEW n \in Nat, NEW a \in Page(n), Shape(a), NEW j \in a.jobs, j.kind \in Calls,
           NEW c, c = [a EXCEPT !.jobs = @ \ {j}]
    PROVE  /\ Follows(a, c, n)
           /\ IsWith(c, a, n, a.phase, a.active, a.suppressed, a.due, a.socket, a.jobs \ {j})
<1>1. a.jobs \ {j} \in SUBSET Job(n)
    BY PageFields
<1>2. IsWith(c, a, n, a.phase, a.active, a.suppressed, a.due, a.socket, a.jobs \ {j})
    BY <1>1 DEF IsWith, Page
<1>3. SameTarget(a, c) /\ JobsGrow(a, c) /\ \A i \in a.jobs : i.kind = "timer" => i \in c.jobs
    BY <1>2 DEF IsWith, SameTarget, JobsGrow, Calls
<1>4. c.view.revision >= a.view.revision
    BY <1>2, PageFields DEF IsWith
<1>5. Follows(a, c, n)
    BY <1>2, <1>3, <1>4, QuietStep DEF IsWith
<1>. QED  BY <1>2, <1>5

(* What is done with a call's answer while its lease is current.           *)
LEMMA LeasedStep ==
    ASSUME NEW n \in Nat, NEW a \in Page(n), Shape(a), NEW j \in Job(n), j.target # 0,
           LeaseIsCurrent(a, j)
    PROVE  Follows(a, LeasedCall(a, j), n)
<1>1. a.target # 0 /\ a.suppressed # a.target /\ OnScreen(a) /\ j.view \in View(n)
    BY DEF LeaseIsCurrent, Shape, TargetOK, Job
<1>2. Follows(a, a, n)
    BY FollowsSelf
<1>3. Follows(a, HandleSnapshot(a, j.view), n)
    BY <1>1, SnapshotStep
<1>4. SnapshotAllowed(a, j.view) => Follows(a, ApplyAuthoritativeSnapshot(a, j.view), n)
    BY <1>1, ApplyStep
<1>5. Follows(a, Spawn(a, "enter"), n)
    BY <1>1, SpawnStep
<1>6. Follows(a, ReturnToLobby(a), n)
    BY <1>1, LobbyStep
<1>7. Follows(a, Enter(a, "room", j.view), n)
  <2>1. \A i \in a.jobs : i.kind \notin Entering
    BY <1>1 DEF Shape, JobsOK, Entering, OnScreen
  <2>2. a.phase # "superseded"
    BY <1>1 DEF Shape, SupersededOK
  <2>. QED  BY <1>1, <2>1, <2>2, EnterStep
<1>. QED  BY <1>2, <1>3, <1>4, <1>5, <1>6, <1>7 DEF LeasedCall

(* The answer to a decision, while the page still waits for it.            *)
LEMMA DecisionStep ==
    ASSUME NEW n \in Nat, NEW a \in Page(n), Shape(a), NEW j \in Job(n), j.target # 0,
           DecisionIsCurrent(a, j)
    PROVE  Follows(a, DecisionCall(a, j), n)
<1>1. a.target # 0 /\ OnScreen(a) /\ j.view \in View(n) /\ NoRequest \in SomeRequest
    BY DEF DecisionIsCurrent, Shape, TargetOK, Job, SomeRequest
<1>2. a.view.revision >= a.view.revision
    BY PageFields
<1>3. CASE j.kind = "decide" /\ j.at = "answered"
  <2>. DEFINE k == [NewJob("decided", a) EXCEPT !.request = j.request]
              b == [a EXCEPT !.jobs = a.jobs \cup {k}]
  <2>1. k \in Job(n) /\ k.kind = "decided" /\ k.target = a.target
    <3>1. "decided" \in JobKinds
      BY DEF JobKinds, Calls
    <3>2. NewJob("decided", a) \in Job(n) /\ NewJob("decided", a).kind = "decided"
          /\ NewJob("decided", a).target = a.target
      BY <3>1, SpawnType
    <3>. QED  BY <3>2 DEF Job
  <2>. HIDE DEF k
  <2>2. a.jobs \cup {k} \in SUBSET Job(n)
    BY <2>1, PageFields
  <2>3. IsWith(b, a, n, a.phase, a.active, a.suppressed, a.due, a.socket, a.jobs \cup {k})
    BY <2>2 DEF IsWith, Page
  <2>4. DecisionCall(a, j) = b
    BY <1>3 DEF DecisionCall, k
  <2>. HIDE DEF b
  <2>5. SameTarget(a, b) /\ JobsGrow(a, b) /\ b.view = a.view
    BY <1>1, <2>1, <2>3 DEF IsWith, SameTarget, JobsGrow, Entering, Disposals
  <2>6. Follows(a, b, n)
    BY <1>2, <2>3, <2>5, QuietStep DEF IsWith
  <2>. QED  BY <2>4, <2>6
<1>4. CASE j.kind = "decided" /\ j.at = "answered" /\ SnapshotFits(a, j.view)
  <2>. DEFINE shown == IF a.kind = "room" THEN j.view ELSE [a.view EXCEPT !.revision = j.view.revision]
  <2>1. j.view.revision \in 0..n
    BY <1>1 DEF View, ViewRecord
  <2>2. shown \in View(n) /\ shown.revision = j.view.revision
    BY <1>1, <2>1, PageFields DEF View, ViewRecord
  <2>3. shown.revision >= a.view.revision
    BY <1>1, <1>4, <2>2 DEF SnapshotFits
  <2>4. DecisionCall(a, j) = Knows(a, shown, a.cursor, NoRequest)
    <3>1. DecisionCall(a, j) = [ShowSnapshot(a, j.view) EXCEPT !.decision = NoRequest]
      BY <1>4 DEF DecisionCall
    <3>. QED  BY <1>1, <3>1 DEF ShowSnapshot, Knows, Page, OnScreen
  <2>. HIDE DEF shown
  <2>. QED  BY <1>1, <2>2, <2>3, <2>4, PageFields, KnowsStep
<1>5. CASE /\ ~(j.kind = "decide" /\ j.at = "answered")
           /\ ~(j.kind = "decided" /\ j.at = "answered" /\ SnapshotFits(a, j.view))
  <2>1. DecisionCall(a, j) = [a EXCEPT !.decision = NoRequest]
    BY <1>5 DEF DecisionCall
  <2>2. DecisionCall(a, j) = Knows(a, a.view, a.cursor, NoRequest)
    BY <2>1 DEF Knows, Page
  <2>. QED  BY <1>1, <1>2, <2>2, PageFields, KnowsStep
<1>. QED  BY <1>3, <1>4, <1>5

(* No longer busy, with no call of the way in under way.                   *)
LEMMA IdleStep ==
    ASSUME NEW n \in Nat, NEW a \in Page(n), Shape(a), \A j \in a.jobs : j.kind \notin Entering,
           NEW b, b = [a EXCEPT !.busy = FALSE]
    PROVE  /\ Follows(a, b, n)
           /\ b.kind = a.kind /\ b.role = a.role /\ b.view = a.view /\ b.target = a.target
           /\ b.entries = a.entries /\ b.phase = a.phase /\ b.active = a.active
           /\ b.jobs = a.jobs
<1>1. /\ b \in Page(n)
      /\ b.kind = a.kind /\ b.role = a.role /\ b.view = a.view /\ b.target = a.target
      /\ b.entries = a.entries /\ b.phase = a.phase /\ b.active = a.active
      /\ b.jobs = a.jobs /\ b.suppressed = a.suppressed /\ b.due = a.due /\ b.socket = a.socket
    BY DEF Page
<1>2. JobsOK(b)
    BY <1>1 DEF JobsOK, Shape, Entering
<1>3. TargetOK(b) /\ SocketOK(b) /\ SupersededOK(b)
    BY <1>1 DEF Shape, TargetOK, SocketOK, SupersededOK, OnScreen, Live
<1>4. Retries(b)
    BY <1>1 DEF Shape, Retries, Live, Claims, LeaseIsCurrent
<1>5. GoesOn(a, b) /\ StaysSuperseded(a, b) /\ AsksForNone(a, b)
    BY <1>1, PageFields DEF GoesOn, StaysSuperseded, AsksForNone, Shape, SupersededOK, Live
<1>. QED  BY <1>1, <1>2, <1>3, <1>4, <1>5 DEF Follows, Continues, Shape

(* The answer to a leave or a cancel.                                      *)
LEMMA LeaveStep ==
    ASSUME NEW n \in Nat, NEW a \in Page(n), Shape(a), NEW j, j.target # 0
    PROVE  Follows(a, LeaveCall(a, j), n)
<1>1. CASE a.target # j.target
    BY <1>1, FollowsSelf DEF LeaveCall
<1>2. CASE a.target = j.target
  <2>1. Follows(a, ReturnToLobby(a), n)
    BY <1>2, LobbyStep
  <2>2. \A i \in a.jobs : i.kind \notin Entering
    BY <1>2 DEF Shape, JobsOK, TargetOK, Entering, OnScreen
  <2>3. Follows(a, [a EXCEPT !.busy = FALSE], n)
    BY <2>2, IdleStep
  <2>. QED  BY <1>2, <2>1, <2>3 DEF LeaveCall
<1>. QED  BY <1>1, <1>2

(* On the way in: no target yet, and at most one call under way.           *)
Stands(a, kind, jobs) == [a EXCEPT !.kind = kind, !.jobs = jobs]

(* It stays in shape, with at most one more call.                          *)
LEMMA OnTheWayIn ==
    ASSUME NEW n \in Nat, NEW a \in Page(n), Shape(a), a.target = 0,
           \A j \in a.jobs : j.kind \notin Entering,
           NEW kind \in {"booting", "lobby"}, NEW jobs \in SUBSET Job(n),
           \/ jobs = a.jobs
           \/ \E k \in Job(n) : /\ jobs = a.jobs \cup {k}
                                /\ k.kind \in {"boot", "restore", "restore_status"}
                                /\ k.target = 0 /\ kind = "booting"
    PROVE  /\ Follows(a, Stands(a, kind, jobs), n)
           /\ Stands(a, kind, jobs).target = 0
           /\ Stands(a, kind, jobs).active = a.active
           /\ Stands(a, kind, jobs).jobs = jobs
<1>. DEFINE b == Stands(a, kind, jobs)
<1>1. /\ b \in Page(n)
      /\ b.kind = kind /\ b.role = a.role /\ b.view = a.view /\ b.target = a.target
      /\ b.entries = a.entries /\ b.phase = a.phase /\ b.active = a.active
      /\ b.jobs = jobs /\ b.suppressed = a.suppressed /\ b.due = a.due /\ b.socket = a.socket
    BY DEF Page, Kinds, Stands
<1>. HIDE DEF b
<1>2. JobsOK(b)
    BY <1>1 DEF JobsOK, Shape, Entering
<1>3. TargetOK(b) /\ SupersededOK(b)
    BY <1>1 DEF Shape, TargetOK, SupersededOK, OnScreen, Live
<1>4. SocketOK(b)
    BY <1>1 DEF Shape, SocketOK, Live, Disposals
<1>5. Retries(b)
    BY <1>1 DEF Shape, Retries, Live, Claims, LeaseIsCurrent
<1>6. GoesOn(a, b) /\ StaysSuperseded(a, b) /\ AsksForNone(a, b)
    BY <1>1 DEF GoesOn, StaysSuperseded, AsksForNone, Shape, SupersededOK, Live, OnScreen
<1>7. Follows(a, b, n)
    BY <1>1, <1>2, <1>3, <1>4, <1>5, <1>6 DEF Follows, Continues, Shape
<1>. QED  BY <1>1, <1>7 DEF b

(* What a call of the way in needs to have answered to lead to a screen.   *)
LetsIn(j) ==
    j.at = "answered" /\ (j.kind \in {"create", "join"} \/ j.status \in {"approved", "pending"})

(* A job no screen needs: the next call of the way in.                     *)
Harmless(j) == j.target = 0 /\ j.status = "none" /\ j.kind \notin {"create", "join"}

(* An answer on the way in.                                                *)
LEMMA WayInStep ==
    ASSUME NEW n \in Nat, app \in Page(n), Shape(app), NEW j \in app.jobs,
           j.kind \in Entering, Resume(j)
    PROVE  /\ Follows(app, app', n)
           /\ \/ LetsIn(j)
              \/ /\ app'.target = 0 /\ app'.active = app.active
                 /\ \A k \in app'.jobs : k \in app.jobs \/ Harmless(k)
<1>. DEFINE a == [app EXCEPT !.jobs = @ \ {j}]
            Out(b) == /\ Follows(app, b, n)
                      /\ \/ LetsIn(j)
                         \/ /\ b.target = 0 /\ b.active = app.active
                            /\ \A k \in b.jobs : k \in app.jobs \/ Harmless(k)
<1>1. j \in Job(n) /\ j.view \in View(n) /\ j.target = 0
    BY DEF Page, Job, Shape, JobsOK
<1>2. /\ Follows(app, a, n)
      /\ IsWith(a, app, n, app.phase, app.active, app.suppressed, app.due, app.socket, app.jobs \ {j})
  <2>1. j.kind \in Calls
    BY DEF Entering, Calls
  <2>. QED  BY <2>1, DropStep
<1>3. app' = CASE j.kind = "boot" -> BootCall(a, j)
               [] j.kind \in {"create", "join"} -> EntryCall(a, j)
               [] j.kind \in {"restore", "restore_status"} -> RestoreCall(a, j)
    BY DEF Resume, Entering, Leased
<1>. HIDE DEF a
<1>4. /\ a \in Page(n) /\ Shape(a) /\ a.target = 0 /\ a.phase # "superseded"
      /\ \A k \in a.jobs : k.kind \notin Entering
      /\ j.kind \in {"boot", "restore", "restore_status"} => a.kind = "booting"
      /\ j.kind \in {"create", "join"} => a.kind = "lobby"
  <2>1. app.target = 0
    BY DEF Shape, JobsOK, TargetOK, OnScreen, Entering
  <2>2. app.phase # "superseded"
    BY <2>1 DEF Shape, SupersededOK
  <2>3. \A k \in a.jobs : k.kind \notin Entering
    BY <1>2 DEF IsWith, Shape, JobsOK
  <2>4. /\ j.kind \in {"boot", "restore", "restore_status"} => app.kind = "booting"
        /\ j.kind \in {"create", "join"} => app.kind = "lobby"
    BY DEF Shape, JobsOK
  <2>. QED  BY <1>2, <2>1, <2>2, <2>3, <2>4 DEF IsWith, Follows, Continues
<1>5. \A b : Follows(a, b, n) => Follows(app, b, n)
    BY <1>2, FollowsVia DEF IsWith
<1>6. \A kind \in {"waiting", "room"} : LetsIn(j) => Out(Enter(a, kind, j.view))
    BY <1>1, <1>4, <1>5, EnterStep
<1>7. Out([a EXCEPT !.kind = "lobby"])
  <2>1. [a EXCEPT !.kind = "lobby"] = Stands(a, "lobby", a.jobs)
    BY <1>4 DEF Page, Stands
  <2>2. a.jobs \in SUBSET Job(n)
    BY <1>4, PageFields
  <2>3. LET b == Stands(a, "lobby", a.jobs)
        IN  Follows(a, b, n) /\ b.target = 0 /\ b.active = a.active /\ b.jobs = a.jobs
    BY <1>4, <2>2, OnTheWayIn
  <2>. QED  BY <1>2, <1>5, <2>1, <2>3 DEF IsWith
<1>8. ASSUME NEW k \in Job(n), k.kind \in {"restore", "restore_status"}, Harmless(k),
             a.kind = "booting"
      PROVE  Out([a EXCEPT !.jobs = a.jobs \cup {k}])
  <2>. DEFINE jobs == a.jobs \cup {k}
  <2>1. [a EXCEPT !.jobs = jobs] = Stands(a, "booting", jobs)
    BY <1>4, <1>8 DEF Page, Stands
  <2>2. jobs \in SUBSET Job(n)
    BY <1>4, <1>8, PageFields
  <2>3. LET b == Stands(a, "booting", jobs)
        IN  Follows(a, b, n) /\ b.target = 0 /\ b.active = a.active /\ b.jobs = jobs
    <3>1. k.target = 0
      BY <1>8 DEF Harmless
    <3>2. \E i \in Job(n) : /\ jobs = a.jobs \cup {i}
                            /\ i.kind \in {"boot", "restore", "restore_status"}
                            /\ i.target = 0 /\ "booting" = "booting"
      BY <1>8, <3>1
    <3>. HIDE DEF jobs
    <3>. QED  BY <1>4, <2>2, <3>2, OnTheWayIn
  <2>. QED  BY <1>2, <1>5, <1>8, <2>1, <2>3 DEF IsWith
<1>9. CASE j.kind = "boot"
  <2>. DEFINE k == NewJob("restore", a)
  <2>1. "restore" \in JobKinds
    BY DEF JobKinds, Calls
  <2>2. /\ k \in Job(n) /\ k.kind = "restore" /\ k.target = 0 /\ k.status = "none"
        /\ Spawn(a, "restore") = [a EXCEPT !.jobs = a.jobs \cup {k}]
    BY <1>4, <2>1, SpawnType
  <2>. HIDE DEF k
  <2>3. Harmless(k)
    BY <2>2 DEF Harmless
  <2>4. Out(Spawn(a, "restore"))
    BY <1>4, <1>8, <1>9, <2>2, <2>3
  <2>5. app' \in {Spawn(a, "restore"), [a EXCEPT !.kind = "lobby"]}
    BY <1>3, <1>9 DEF BootCall
  <2>. QED  BY <1>7, <2>4, <2>5
<1>10. CASE j.kind \in {"create", "join"}
  <2>. DEFINE b == [a EXCEPT !.busy = FALSE]
  <2>1. /\ Follows(a, b, n)
        /\ b.kind = a.kind /\ b.role = a.role /\ b.view = a.view /\ b.target = a.target
        /\ b.entries = a.entries /\ b.phase = a.phase /\ b.active = a.active /\ b.jobs = a.jobs
    BY <1>4, IdleStep
  <2>2. app' = EntryCall(a, j)
    BY <1>3, <1>10
  <2>3. CASE j.at = "failed"
    <3>1. app' = b
      BY <2>2, <2>3 DEF EntryCall
    <3>2. Follows(app, b, n)
      BY <1>5, <2>1
    <3>. HIDE DEF b
    <3>. QED  BY <1>2, <1>4, <2>1, <3>1, <3>2 DEF IsWith
  <2>4. CASE j.at # "failed"
    <3>1. LetsIn(j)
      BY <1>1, <1>10, <2>4 DEF LetsIn, Resume, Job
    <3>2. app' = Enter(b, "room", j.view) \/ app' = Enter(b, "waiting", j.view)
      BY <2>2, <2>4 DEF EntryCall
    <3>3. b \in Page(n) /\ Shape(b)
      BY <2>1 DEF Follows, Continues
    <3>. HIDE DEF b
    <3>4. Follows(b, app', n)
      BY <1>1, <1>4, <2>1, <3>2, <3>3, EnterStep
    <3>5. Follows(a, app', n)
      BY <2>1, <3>4, FollowsVia
    <3>. QED  BY <1>5, <3>1, <3>5
  <2>. QED  BY <2>3, <2>4
<1>11. CASE j.kind \in {"restore", "restore_status"}
  <2>. DEFINE k == [NewJob("restore_status", a) EXCEPT !.view = j.view]
  <2>1. "restore_status" \in JobKinds
    BY DEF JobKinds, Calls
  <2>2. k \in Job(n) /\ k.kind = "restore_status" /\ k.target = 0 /\ k.status = "none"
    <3>1. /\ NewJob("restore_status", a) \in Job(n) /\ NewJob("restore_status", a).target = 0
          /\ NewJob("restore_status", a).kind = "restore_status"
          /\ NewJob("restore_status", a).status = "none"
      BY <1>4, <2>1, SpawnType
    <3>. QED  BY <1>1, <3>1 DEF Job
  <2>3. app' = RestoreCall(a, j)
    BY <1>3, <1>11
  <2>4. \/ app' = Enter(a, "room", j.view) /\ LetsIn(j)
        \/ app' = Enter(a, "waiting", j.view) /\ LetsIn(j)
        \/ app' = [a EXCEPT !.jobs = a.jobs \cup {k}]
        \/ app' = [a EXCEPT !.kind = "lobby"]
    BY <2>3 DEF RestoreCall, LetsIn
  <2>. HIDE DEF k
  <2>5. Harmless(k)
    BY <2>2 DEF Harmless
  <2>6. Out([a EXCEPT !.jobs = a.jobs \cup {k}])
    BY <1>4, <1>8, <1>11, <2>2, <2>5
  <2>. QED  BY <1>6, <1>7, <2>4, <2>6
<1>. QED  BY <1>9, <1>10, <1>11 DEF Entering

(* Any answer.                                                             *)
LEMMA ResumeStep ==
    ASSUME NEW n \in Nat, app \in Page(n), Shape(app), NEW j \in app.jobs, Resume(j)
    PROVE  Follows(app, app', n)
<1>. DEFINE a == [app EXCEPT !.jobs = @ \ {j}]
<1>1. j \in Job(n) /\ j.kind \in Calls /\ (j.kind \in Entering <=> j.target = 0)
    BY DEF Resume, Page, Shape, JobsOK
<1>2. /\ Follows(app, a, n)
      /\ IsWith(a, app, n, app.phase, app.active, app.suppressed, app.due, app.socket, app.jobs \ {j})
    BY <1>1, DropStep
<1>3. j.kind \notin Entering =>
        app' = CASE j.kind \in Leased ->
                      IF LeaseIsCurrent(a, j) /\ j.at = "answered" THEN LeasedCall(a, j) ELSE a
                 [] j.kind \in {"decide", "decided"} ->
                      IF DecisionIsCurrent(a, j) THEN DecisionCall(a, j) ELSE a
                 [] j.kind = "leave" -> LeaveCall(a, j)
    BY <1>1 DEF Resume, Entering, Leased, Calls
<1>. HIDE DEF a
<1>4. a \in Page(n) /\ Shape(a)
    BY <1>2 DEF Follows, Continues
<1>5. \A b : Follows(a, b, n) => Follows(app, b, n)
    BY <1>2, FollowsVia DEF IsWith
<1>6. CASE j.kind \in Entering
    BY <1>6, WayInStep
<1>7. CASE j.kind \in Leased /\ j.kind \notin Entering
  <2>1. app' = IF LeaseIsCurrent(a, j) /\ j.at = "answered" THEN LeasedCall(a, j) ELSE a
    BY <1>3, <1>7 DEF Leased
  <2>2. LeaseIsCurrent(a, j) => Follows(app, LeasedCall(a, j), n)
    BY <1>1, <1>4, <1>5, <1>7, LeasedStep
  <2>. QED  BY <1>2, <2>1, <2>2
<1>8. CASE j.kind \in {"decide", "decided"}
    BY <1>1, <1>2, <1>3, <1>4, <1>5, <1>8, DecisionStep DEF Leased, Entering
<1>9. CASE j.kind = "leave"
    BY <1>1, <1>2, <1>3, <1>4, <1>5, <1>9, LeaveStep DEF Leased, Entering
<1>. QED  BY <1>1, <1>6, <1>7, <1>8, <1>9 DEF Calls, Leased, Entering

----------------------------------------------------------------------------
(* The room, its announcements and the server's task.                      *)

(* What the room's view and the server's messages are.                     *)
LEMMA ServerTypes ==
    ASSUME NEW n \in Nat, NEW r \in RoomRecord, r.online \subseteq r.members, r.revision \in 0..n
    PROVE  /\ \A pending \in SUBSET Requests :
                 ViewOf(r, pending) \in View(n) /\ ViewOf(r, pending).revision = r.revision
           /\ \A view \in View(n) : SnapshotOf(view) \in Messages(n)
           /\ NoConn \in Conn(n) /\ NoConn.pc = "none"
<1>1. \A pending \in SUBSET Requests :
          ViewOf(r, pending) \in View(n) /\ ViewOf(r, pending).revision = r.revision
    BY DEF ViewOf, View, ViewRecord, RoomRecord
<1>2. \A view \in View(n) : SnapshotOf(view) \in Messages(n)
    BY SmallViews DEF SnapshotOf, Message, Messages, MessageRecord, MessageKinds, RequestStates,
                      View, ViewRecord
<1>3. NoConn \in Conn(n) /\ NoConn.pc = "none"
    BY SmallViews DEF NoConn, Conn, ConnPlaces
<1>. QED  BY <1>1, <1>2, <1>3

(* What is announced.                                                      *)
LEMMA MessageType ==
    ASSUME NEW n \in Nat, NEW kind \in MessageKinds, NEW r \in 0..n, NEW about \in Abouts,
           NEW decision \in RequestStates, kind \in {"requested", "decided"} => about \in Requests
    PROVE  Message(kind, r, about, decision) \in Messages(n)
    BY SmallViews DEF Message, Messages, MessageRecord, Abouts

(* Whatever is typed by a revision stays so when the room goes on.         *)
LEMMA StillTyped ==
    ASSUME ClientInv, NEW n \in Nat, room.revision <= n
    PROVE  /\ announcing \subseteq Messages(n) /\ conn \in Conn(n) /\ inbox \in Seq(Messages(n))
           /\ app \in Page(n) /\ Shape(app)
<1>1. room.revision \in Nat
    BY DEF ClientInv, TypesOK, RoomRecord
<1>2. /\ Messages(room.revision) \subseteq Messages(n) /\ Conn(room.revision) \subseteq Conn(n)
      /\ Page(room.revision) \subseteq Page(n)
    BY <1>1, LaterBound
<1>3. inbox \in Seq(Messages(n))
  <2>1. inbox \in Seq(Messages(room.revision))
    BY DEF ClientInv, TypesOK
  <2>. QED  BY <1>2, <2>1
<1>. QED  BY <1>2, <1>3 DEF ClientInv, TypesOK, AppOK

(* A change of the room that does not come from the page.                  *)
LEMMA RoomStep ==
    ASSUME ClientInv, room.revision # 0,
           NEW r \in RoomRecord, r.revision = room.revision, r.online \subseteq r.members,
           NEW kind \in MessageKinds, NEW about \in Abouts, NEW decision \in RequestStates,
           kind \in {"requested", "decided"} => about \in Requests,
           Commit(r, kind, about, decision),
           UNCHANGED <<conn, inbox, app, stored, missed>>, left' \in [Faults -> Nat]
    PROVE  ClientInv'
<1>. DEFINE n == room.revision + 1
<1>1. room.revision \in Nat /\ n \in Nat /\ room.revision <= n /\ n <= MaxRevision
  <2>1. room.revision \in Nat /\ room.revision <= MaxRevision /\ MaxRevision \in Nat
    BY ClientAssumption DEF ClientInv, TypesOK, RoomRecord
  <2>2. room.revision < MaxRevision
    BY DEF Commit
  <2>. QED  BY <2>1, <2>2
<1>2. room' \in RoomRecord /\ room'.revision = n /\ room'.online \subseteq room'.members
    BY <1>1 DEF Commit, RoomRecord
<1>3. announcing' \subseteq Messages(n)
  <2>1. Message(kind, n, about, decision) \in Messages(n)
    BY <1>1, MessageType
  <2>2. announcing \subseteq Messages(n)
    BY <1>1, StillTyped
  <2>. QED  BY <2>1, <2>2 DEF Commit
<1>4. conn \in Conn(n) /\ inbox \in Seq(Messages(n)) /\ app \in Page(n) /\ Shape(app)
    BY <1>1, StillTyped
<1>. HIDE DEF n
<1>5. TypesOK'
    BY <1>1, <1>2, <1>3, <1>4 DEF TypesOK, ClientInv
<1>6. AppOK'
    BY <1>2, <1>4 DEF AppOK
<1>7. Unborn' /\ CreatesOnce' /\ DecidesRequests'
    BY <1>1, <1>2 DEF ClientInv, Unborn, CreatesOnce, DecidesRequests, n
<1>. QED  BY <1>5, <1>6, <1>7 DEF ClientInv

(* What others do in the room, and what maintenance does to it.            *)
LEMMA RoomChangesStep ==
    ASSUME ClientInv, RoomChanges \/ GoOffline
    PROVE  ClientInv' /\ app' = app
<1>. USE ClientAssumption
<1>1. /\ room \in RoomRecord /\ room.online \subseteq room.members /\ left \in [Faults -> Nat]
      /\ room.revision = 0 => UnbornRoom(room)
      /\ room.members \subseteq Others
    BY DEF ClientInv, TypesOK, Unborn, RoomRecord
<1>2. \A fault \in Faults : Spend(fault) => left' \in [Faults -> Nat]
    BY <1>1 DEF Spend
<1>3. {"requested", "decided", "online", "offline", "pruned", "expired"} \subseteq MessageKinds
      /\ "none" \in RequestStates /\ Self \in Abouts
      /\ Requests \subseteq Abouts /\ Others \subseteq Abouts
      /\ {"approved", "rejected", "pending", "expired"} \subseteq RequestStates
    BY DEF MessageKinds, RequestStates, Abouts
<1>4. ASSUME NEW q \in Requests, OtherRequests(q)
      PROVE  ClientInv' /\ app' = app
  <2>. DEFINE r == [room EXCEPT !.requests[q] = "pending"]
  <2>1. r \in RoomRecord /\ r.revision = room.revision /\ r.online \subseteq r.members
    BY <1>1, <1>3 DEF RoomRecord
  <2>2. Commit(r, "requested", q, "none") /\ room.revision # 0
        /\ UNCHANGED <<conn, inbox, app, stored, missed>> /\ left' \in [Faults -> Nat]
    BY <1>1, <1>2, <1>4 DEF OtherRequests, RoomRecord
  <2>. HIDE DEF r
  <2>. QED  BY <1>3, <2>1, <2>2, RoomStep
<1>5. ASSUME NEW q \in Requests, NEW d \in {"approved", "rejected"}, HostDecides(q, d)
      PROVE  ClientInv' /\ app' = app
  <2>. DEFINE r == Decided(room, q, d)
  <2>1. r \in RoomRecord /\ r.revision = room.revision /\ r.online \subseteq r.members
    BY <1>1, <1>3 DEF RoomRecord, Decided, Others
  <2>2. Commit(r, "decided", q, d) /\ room.revision # 0
        /\ UNCHANGED <<conn, inbox, app, stored, missed>> /\ left' \in [Faults -> Nat]
    BY <1>1, <1>2, <1>5 DEF HostDecides, UnbornRoom
  <2>. HIDE DEF r
  <2>. QED  BY <1>3, <2>1, <2>2, RoomStep
<1>6. ASSUME NEW s \in Others, OtherPresence(s)
      PROVE  ClientInv' /\ app' = app
  <2>. DEFINE gone == [room EXCEPT !.online = @ \ {s}]
              here == [room EXCEPT !.online = @ \cup {s}]
  <2>1. s \in room.members
    BY <1>6 DEF OtherPresence
  <2>2. /\ gone \in RoomRecord /\ gone.revision = room.revision /\ gone.online \subseteq gone.members
        /\ here \in RoomRecord /\ here.revision = room.revision /\ here.online \subseteq here.members
    BY <1>1, <2>1 DEF RoomRecord
  <2>3. /\ Commit(gone, "offline", s, "none") \/ Commit(here, "online", s, "none")
        /\ room.revision # 0
        /\ UNCHANGED <<conn, inbox, app, stored, missed>> /\ left' \in [Faults -> Nat]
    BY <1>1, <1>2, <1>6, <2>1 DEF OtherPresence, UnbornRoom
  <2>. HIDE DEF gone, here
  <2>. QED  BY <1>3, <2>2, <2>3, RoomStep
<1>7. ASSUME NEW q \in Requests, RequestExpires(q)
      PROVE  ClientInv' /\ app' = app
  <2>. DEFINE r == [room EXCEPT !.requests[q] = "expired"]
  <2>1. r \in RoomRecord /\ r.revision = room.revision /\ r.online \subseteq r.members
    BY <1>1, <1>3 DEF RoomRecord
  <2>2. Commit(r, "pruned", q, "none") /\ room.revision # 0
        /\ UNCHANGED <<conn, inbox, app, stored, missed>> /\ left' \in [Faults -> Nat]
    BY <1>1, <1>2, <1>7 DEF RequestExpires, UnbornRoom
  <2>. HIDE DEF r
  <2>. QED  BY <1>3, <2>1, <2>2, RoomStep
<1>8. ASSUME RoomExpires
      PROVE  ClientInv' /\ app' = app
  <2>. DEFINE requests == [q \in Requests |-> ExpireRequest(room.requests[q])]
              r == [room EXCEPT !.expired = TRUE, !.requests = requests]
  <2>1. requests \in [Requests -> RequestStates]
    BY <1>1, <1>3 DEF RoomRecord, ExpireRequest
  <2>2. r \in RoomRecord /\ r.revision = room.revision /\ r.online \subseteq r.members
    <3>. HIDE DEF requests
    <3>. QED  BY <1>1, <2>1 DEF RoomRecord
  <2>3. Commit(r, "expired", Self, "none") /\ room.revision # 0
        /\ UNCHANGED <<conn, inbox, app, stored, missed>> /\ left' \in [Faults -> Nat]
    BY <1>1, <1>2, <1>8 DEF RoomExpires, RoomRecord
  <2>. HIDE DEF r
  <2>. QED  BY <1>3, <2>2, <2>3, RoomStep
<1>9. ASSUME GoOffline
      PROVE  ClientInv' /\ app' = app
  <2>. DEFINE r == [room EXCEPT !.here = FALSE]
  <2>1. r \in RoomRecord /\ r.revision = room.revision /\ r.online \subseteq r.members
    BY <1>1 DEF RoomRecord
  <2>2. Commit(r, "offline", Self, "none") /\ room.revision # 0
        /\ UNCHANGED <<conn, inbox, app, stored, missed>> /\ left' \in [Faults -> Nat]
    BY <1>1, <1>9 DEF GoOffline, UnbornRoom
  <2>. HIDE DEF r
  <2>. QED  BY <1>3, <2>1, <2>2, RoomStep
<1>10. ASSUME HostLeaves
       PROVE  ClientInv' /\ app' = app
  <2>. DEFINE r == [room EXCEPT !.expired = TRUE]
  <2>1. r \in RoomRecord /\ r.revision = room.revision /\ r.online \subseteq r.members
    BY <1>1 DEF RoomRecord
  <2>2. room.revision # 0
    BY <1>10 DEF HostLeaves, ClientInv, Unborn, UnbornPage
  <2>3. Commit(r, "expired", Self, "none")
        /\ UNCHANGED <<conn, inbox, app, stored, missed>> /\ left' \in [Faults -> Nat]
    BY <1>1, <1>2, <1>10 DEF HostLeaves
  <2>. HIDE DEF r
  <2>. QED  BY <1>3, <2>1, <2>2, <2>3, RoomStep
<1>. QED  BY <1>4, <1>5, <1>6, <1>7, <1>8, <1>9, <1>10 DEF RoomChanges

(* A step that leaves the page alone.                                      *)
LEMMA PageStays ==
    ASSUME ClientInv, app' = app, TypesOK', room' = room \/ room.revision # 0,
           room.revision <= room'.revision
    PROVE  ClientInv'
<1>1. room'.revision \in Nat /\ room.revision \in Nat
    BY DEF ClientInv, TypesOK, RoomRecord
<1>2. app \in Page(room'.revision) /\ Shape(app)
    BY <1>1, StillTyped
<1>3. AppOK'
    BY <1>2 DEF AppOK
<1>4. Unborn' /\ CreatesOnce' /\ DecidesRequests'
    BY <1>1 DEF ClientInv, Unborn, CreatesOnce, DecidesRequests
<1>. QED  BY <1>3, <1>4 DEF ClientInv

(* The announcements, broadcast in any order.                              *)
LEMMA AnnouncesStep ==
    ASSUME ClientInv, Announces
    PROVE  ClientInv' /\ app' = app
<1>. DEFINE n == room.revision
<1>1. /\ room \in RoomRecord /\ room.online \subseteq room.members /\ n \in Nat /\ n \in 0..n
      /\ announcing \subseteq Messages(n) /\ inbox \in Seq(Messages(n)) /\ conn \in Conn(n)
      /\ missed \in BOOLEAN
    BY DEF ClientInv, TypesOK, RoomRecord
<1>2. PICK e \in announcing : ReadPruned(e) \/ Broadcast(e)
    BY DEF Announces
<1>3. room' = room /\ app' = app /\ stored' = stored /\ left' = left
    BY <1>2 DEF ReadPruned, Broadcast
<1>4. announcing' \subseteq Messages(n)
  <2>1. SnapshotOf(ViewOf(room, Pending(room))) \in Messages(n)
    BY <1>1, ServerTypes DEF Pending
  <2>. QED  BY <1>1, <1>2, <2>1 DEF ReadPruned, Broadcast
<1>5. conn' \in Conn(n) /\ inbox' \in Seq(Messages(n)) /\ missed' \in BOOLEAN
  <2>1. CASE ReadPruned(e)
    BY <1>1, <2>1 DEF ReadPruned
  <2>2. CASE Broadcast(e)
    <3>1. [NoConn EXCEPT !.pc = "closing"] \in Conn(n)
      BY <1>1, ServerTypes DEF Conn, ConnPlaces
    <3>2. Append(inbox, e) \in Seq(Messages(n))
      BY <1>1
    <3>3. Misses(e) \in BOOLEAN
      BY DEF Misses
    <3>. QED  BY <1>1, <2>2, <3>1, <3>2, <3>3 DEF Broadcast
  <2>. QED  BY <1>2, <2>1, <2>2
<1>6. TypesOK'
    BY <1>3, <1>4, <1>5 DEF ClientInv, TypesOK
<1>7. room.revision <= room'.revision
    BY <1>1, <1>3
<1>. QED  BY <1>3, <1>6, <1>7, PageStays

(* The server's task for the socket.                                       *)
LEMMA ServerStepOK ==
    ASSUME ClientInv, ServerStep
    PROVE  ClientInv' /\ app' = app
<1>. DEFINE n == room.revision
<1>1. /\ room \in RoomRecord /\ room.online \subseteq room.members /\ n \in Nat /\ n \in 0..n
      /\ n <= MaxRevision /\ MaxRevision \in Nat
      /\ announcing \subseteq Messages(n) /\ inbox \in Seq(Messages(n)) /\ conn \in Conn(n)
      /\ missed \in BOOLEAN
    BY ClientAssumption DEF ClientInv, TypesOK, RoomRecord
<1>2. Bootstrap \in View(n)
  <2>1. Pending(room) \in SUBSET Requests
    BY DEF Pending
  <2>. QED  BY <1>1, <2>1, ServerTypes DEF Bootstrap
<1>3. NoConn \in Conn(n) /\ [NoConn EXCEPT !.pc = "idle"] \in Conn(n)
    BY <1>1, ServerTypes DEF Conn, ConnPlaces
<1>4. conn.view \in View(n) /\ conn.revision \in 0..n
    BY <1>1 DEF Conn
<1>5. \A kind \in {"attached", "resolved", "online"}, r \in 0..n :
          Message(kind, r, Self, "none") \in Messages(n)
    BY <1>1, MessageType DEF MessageKinds, Abouts, RequestStates
<1>6. ToAnnounce \subseteq Messages(n)
    BY <1>1, <1>4, <1>5 DEF ToAnnounce
<1>7. \A m \in Messages(n) : Append(inbox, m) \in Seq(Messages(n))
    BY <1>1
<1>8. ASSUME /\ room' = room /\ app' = app /\ stored' = stored /\ left' = left
             /\ missed' = missed
             /\ announcing' \subseteq Messages(n) /\ conn' \in Conn(n)
             /\ inbox' \in Seq(Messages(n))
      PROVE  ClientInv'
  <2>1. TypesOK'
    BY <1>8 DEF ClientInv, TypesOK
  <2>2. room.revision <= room'.revision
    BY <1>1, <1>8
  <2>. QED  BY <1>8, <2>1, <2>2, PageStays
<1>9. ASSUME WatchStatus
      PROVE  ClientInv' /\ app' = app
  <2>1. conn' \in Conn(n)
    BY <1>1, <1>9 DEF WatchStatus, Conn, ConnPlaces
  <2>2. inbox' \in Seq(Messages(n))
    BY <1>1, <1>5, <1>7, <1>9 DEF WatchStatus
  <2>. QED  BY <1>1, <1>8, <1>9, <2>1, <2>2 DEF WatchStatus
<1>10. ASSUME WatchRead
       PROVE  ClientInv' /\ app' = app
  <2>1. conn' \in Conn(n)
    BY <1>1, <1>2, <1>10 DEF WatchRead, Conn, ConnPlaces
  <2>. QED  BY <1>1, <1>8, <1>10, <2>1 DEF WatchRead
<1>11. ASSUME EnterHub
       PROVE  ClientInv' /\ app' = app
  <2>1. conn' \in Conn(n)
    BY <1>1, <1>11 DEF EnterHub, Conn, ConnPlaces
  <2>. QED  BY <1>1, <1>8, <1>11, <2>1 DEF EnterHub
<1>12. ASSUME SendAttached
       PROVE  ClientInv' /\ app' = app
  <2>1. [conn EXCEPT !.pc = "snapshot", !.view = IF conn.watch THEN conn.view ELSE Bootstrap] \in Conn(n)
    BY <1>1, <1>2, <1>4 DEF Conn, ConnPlaces
  <2>2. conn' \in Conn(n)
    BY <1>3, <1>12, <2>1 DEF SendAttached
  <2>3. inbox' \in Seq(Messages(n))
    BY <1>4, <1>5, <1>7, <1>12 DEF SendAttached
  <2>4. announcing' \subseteq Messages(n)
    BY <1>1, <1>6, <1>12 DEF SendAttached
  <2>. QED  BY <1>8, <1>12, <2>2, <2>3, <2>4 DEF SendAttached
<1>13. ASSUME SendSnapshot
       PROVE  ClientInv' /\ app' = app
  <2>1. SnapshotOf(conn.view) \in Messages(n)
    BY <1>1, <1>4, ServerTypes
  <2>2. inbox' \in Seq(Messages(n)) /\ conn' \in Conn(n) /\ announcing' \subseteq Messages(n)
    BY <1>3, <1>6, <1>7, <1>13, <2>1 DEF SendSnapshot
  <2>. QED  BY <1>8, <1>13, <2>2 DEF SendSnapshot
<1>14. ASSUME AttachCommit
       PROVE  ClientInv' /\ app' = app
  <2>1. CASE room' = room /\ conn' = [conn EXCEPT !.pc = "closing"]
    <3>1. conn' \in Conn(n)
      BY <1>1, <2>1 DEF Conn, ConnPlaces
    <3>. QED  BY <1>1, <1>8, <1>14, <2>1, <3>1 DEF AttachCommit
  <2>2. CASE ~(~IsMember \/ room.expired)
    <3>. DEFINE changed == ~room.here
                m == IF changed THEN n + 1 ELSE n
    <3>1. IsMember
      BY <2>2
    <3>2. room.revision # 0
      BY <1>1, <3>1 DEF IsMember, ClientInv, Unborn, UnbornRoom, UnbornPage
    <3>3. /\ changed => room.revision < MaxRevision
          /\ room' = [room EXCEPT !.here = TRUE, !.revision = IF changed THEN @ + 1 ELSE @]
          /\ conn' = [conn EXCEPT !.pc = "hub", !.changed = changed, !.revision = room'.revision]
      BY <1>14, <2>2 DEF AttachCommit
    <3>4. m \in Nat /\ n <= m /\ m <= MaxRevision /\ m \in 0..m /\ changed \in BOOLEAN
      BY <1>1, <3>3
    <3>5. room' \in RoomRecord /\ room'.revision = m /\ room'.online \subseteq room'.members
      <4>1. room' = [room EXCEPT !.here = TRUE, !.revision = m]
        BY <1>1, <3>3 DEF RoomRecord
      <4>. HIDE DEF m, changed
      <4>. QED  BY <1>1, <3>4, <4>1 DEF RoomRecord
    <3>6. announcing \subseteq Messages(m) /\ conn \in Conn(m) /\ inbox \in Seq(Messages(m))
      BY <3>4, StillTyped
    <3>. HIDE DEF m, changed
    <3>7. conn' \in Conn(m)
      BY <3>3, <3>4, <3>5, <3>6 DEF Conn, ConnPlaces
    <3>8. TypesOK'
      BY <1>14, <3>4, <3>5, <3>6, <3>7 DEF AttachCommit, ClientInv, TypesOK
    <3>9. app' = app
      BY <1>14 DEF AttachCommit
    <3>. QED  BY <3>2, <3>4, <3>5, <3>8, <3>9, PageStays
  <2>3. (~IsMember \/ room.expired) => room' = room /\ conn' = [conn EXCEPT !.pc = "closing"]
    BY <1>14 DEF AttachCommit
  <2>. QED  BY <2>1, <2>2, <2>3
<1>. QED  BY <1>9, <1>10, <1>11, <1>12, <1>13, <1>14 DEF ServerStep

----------------------------------------------------------------------------
(* The steps of the page.                                                  *)

(* A step of the page alone.                                               *)
LEMMA PageMoves ==
    ASSUME ClientInv, room' = room, announcing' = announcing,
           Continues(app, app', room.revision),
           conn' \in Conn(room.revision), inbox' \in Seq(Messages(room.revision)),
           left' \in [Faults -> Nat], stored' \in BOOLEAN, missed' \in BOOLEAN,
           room.revision = 0 => UnbornPage(app'),
           CreatesOnce', DecidesRequests'
    PROVE  ClientInv'
<1>1. TypesOK'
    BY DEF ClientInv, TypesOK
<1>2. AppOK'
    BY DEF AppOK, Continues
<1>3. Unborn'
    BY DEF Unborn, ClientInv
<1>. QED  BY <1>1, <1>2, <1>3 DEF ClientInv

(* The same, of a step that asks the server for nothing new.               *)
LEMMA FollowsMoves ==
    ASSUME ClientInv, room' = room, announcing' = announcing,
           Follows(app, app', room.revision),
           conn' \in Conn(room.revision), inbox' \in Seq(Messages(room.revision)),
           left' \in [Faults -> Nat], stored' \in BOOLEAN, missed' \in BOOLEAN,
           room.revision = 0 => UnbornPage(app')
    PROVE  ClientInv'
<1>1. CreatesOnce' /\ DecidesRequests'
    BY DEF ClientInv, CreatesOnce, DecidesRequests, Follows, AsksForNone
<1>. QED  BY <1>1, PageMoves DEF Follows

(* What every step of the page starts from.                                *)
LEMMA PageFacts ==
    ASSUME ClientInv
    PROVE  /\ room.revision \in Nat /\ room.revision \in 0..room.revision
           /\ room \in RoomRecord /\ room.online \subseteq room.members
           /\ app \in Page(room.revision) /\ Shape(app)
           /\ conn \in Conn(room.revision) /\ inbox \in Seq(Messages(room.revision))
           /\ <<>> \in Seq(Messages(room.revision)) /\ NoConn \in Conn(room.revision)
           /\ left \in [Faults -> Nat] /\ stored \in BOOLEAN /\ missed \in BOOLEAN
           /\ \A fault \in Faults : Spend(fault) => left' \in [Faults -> Nat]
           /\ Faults = {"close", "error", "replaced", "fail", "reload", "lifecycle", "user",
                        "requests", "decides", "presence", "expires"}
           /\ room.revision = 0 => UnbornRoom(room) /\ UnbornPage(app)
           /\ \A a : StoredAfter(a) \in BOOLEAN
<1>1. /\ room.revision \in Nat /\ room.revision \in 0..room.revision
      /\ room \in RoomRecord /\ room.online \subseteq room.members
    BY DEF ClientInv, TypesOK, RoomRecord
<1>2. NoConn \in Conn(room.revision)
    BY <1>1, ServerTypes
<1>3. left \in [Faults -> Nat] /\ stored \in BOOLEAN /\ missed \in BOOLEAN
    BY DEF ClientInv, TypesOK
<1>4. \A fault \in Faults : Spend(fault) => left' \in [Faults -> Nat]
    BY <1>3 DEF Spend
<1>5. \A a : StoredAfter(a) \in BOOLEAN
    BY <1>3 DEF StoredAfter
<1>6. /\ app \in Page(room.revision) /\ Shape(app)
      /\ conn \in Conn(room.revision) /\ inbox \in Seq(Messages(room.revision))
      /\ room.revision = 0 => UnbornRoom(room) /\ UnbornPage(app)
    BY DEF ClientInv, TypesOK, AppOK, Unborn
<1>. QED  BY <1>1, <1>2, <1>3, <1>4, <1>5, <1>6, ClientAssumption

(* What a step of the page means for the action properties.                *)
Proper == GoesOn(app, app') /\ StaysSuperseded(app, app')

(* The page that has let go of its socket.                                 *)
LEMMA BecomesStep ==
    ASSUME ClientInv, NEW a, PageBecomes(a), Follows(app, a, room.revision),
           room' = room, announcing' = announcing, missed' = missed,
           left' \in [Faults -> Nat], room.revision = 0 => UnbornPage(a)
    PROVE  ClientInv' /\ Proper
<1>1. app' = a
    BY DEF PageBecomes
<1>2. conn' \in Conn(room.revision) /\ inbox' \in Seq(Messages(room.revision))
    BY PageFacts DEF PageBecomes
<1>3. stored' \in BOOLEAN /\ missed' \in BOOLEAN
    BY PageFacts DEF PageBecomes
<1>4. ClientInv'
    BY <1>1, <1>2, <1>3, FollowsMoves
<1>. QED  BY <1>1, <1>4 DEF Proper, Follows, Continues

(* An unborn room's page has no connection.                                *)
LEMMA UnbornLease ==
    ASSUME NEW n \in Nat, NEW a \in Page(n), Shape(a), UnbornPage(a)
    PROVE  ~SocketLeaseIsCurrent(a) /\ ~Live(a) /\ ~OnScreen(a)
           /\ \A j \in a.jobs : j.kind \in Entering /\ j.kind \in Calls
    BY DEF UnbornPage, SocketLeaseIsCurrent, Shape, SocketOK, TargetOK, JobsOK, Entering, Calls

(* The effect of use_realtime_connection.                                  *)
LEMMA RunsEffectStep ==
    ASSUME ClientInv, RunsEffect
    PROVE  ClientInv' /\ Proper
<1>. DEFINE n == room.revision
<1>1. PICK connects \in BOOLEAN : app' = RunEffect(app, connects)
    BY DEF RunsEffect
<1>2. Follows(app, app', n)
    BY <1>1, PageFacts, EffectStep DEF RunsEffect
<1>3. conn' \in Conn(n) /\ inbox' \in Seq(Messages(n))
  <2>1. app.cursor.applied \in 0..n
    BY PageFacts, PageFields
  <2>2. [NoConn EXCEPT !.pc = "opening", !.watch = app.kind = "waiting",
                       !.last = app.cursor.applied] \in Conn(n)
    BY <2>1, PageFacts DEF Conn, ConnPlaces
  <2>. QED  BY <2>2, PageFacts DEF RunsEffect
<1>4. left' \in [Faults -> Nat] /\ stored' \in BOOLEAN /\ missed' \in BOOLEAN
      /\ room' = room /\ announcing' = announcing
    BY PageFacts DEF RunsEffect
<1>5. n = 0 => UnbornPage(app')
  <2>. HAVE n = 0
  <2>1. app.target = 0 /\ app.active = 0 /\ app.role = "owner"
    BY PageFacts DEF UnbornPage
  <2>2. app'.target = 0 /\ app'.active = 0 /\ app'.jobs \subseteq app.jobs
    <3>1. app' = [Invalidate(app) EXCEPT !.active = 0, !.due = FALSE, !.socket = "none",
                     !.life.recovery = IF @ = app.target THEN @ ELSE 0,
                     !.life.rebuild = @ /\ app.life.recovery = app.target,
                     !.phase = "disconnected"]
      BY <1>1, <2>1 DEF RunEffect
    <3>2. app'.target = app.target /\ app'.active = 0 /\ app'.jobs = Invalidate(app).jobs
      BY <3>1, PageFacts DEF Page, Invalidate
    <3>3. Invalidate(app).jobs \subseteq app.jobs
      BY PageFacts DEF Page, Invalidate
    <3>. QED  BY <2>1, <3>2, <3>3
  <2>3. app'.role = app.role
    BY <1>2 DEF Follows, Continues
  <2>. QED  BY <2>1, <2>2, <2>3, PageFacts DEF UnbornPage
<1>6. ClientInv'
    BY <1>2, <1>3, <1>4, <1>5, FollowsMoves
<1>. QED  BY <1>2, <1>6 DEF Proper, Follows, Continues

(* The socket opens, fails, or delivers a message.                         *)
LEMMA SocketStep ==
    ASSUME ClientInv, SocketOpens \/ SocketError \/ Deliver
    PROVE  ClientInv' /\ Proper
<1>. DEFINE n == room.revision
<1>1. /\ room' = room /\ announcing' = announcing /\ missed' = missed
      /\ left' \in [Faults -> Nat] /\ Live(app)
    BY PageFacts DEF SocketOpens, SocketError, Deliver, Live
<1>2. n # 0
    BY <1>1, PageFacts, UnbornLease
<1>3. app \in Page(n) /\ Shape(app) /\ n \in Nat
    BY PageFacts
<1>4. app.phase \in Phases /\ app.phase # "superseded" /\ {"connecting", "reconnecting"} \subseteq Phases
    BY <1>1, <1>3 DEF Page, Shape, SupersededOK, Phases
<1>5. CASE SocketOpens
  <2>1. Follows(app, app', n)
    BY <1>1, <1>3, <1>4, <1>5, OpensStep DEF SocketOpens
  <2>2. conn' \in Conn(n)
    BY <1>5, PageFacts DEF SocketOpens, Conn, ConnPlaces
  <2>3. ClientInv'
    BY <1>1, <1>2, <1>5, <2>1, <2>2, PageFacts, FollowsMoves DEF SocketOpens
  <2>. QED  BY <2>1, <2>3 DEF Proper, Follows, Continues
<1>6. CASE SocketError
  <2>1. Follows(app, app', n)
    BY <1>1, <1>3, <1>4, <1>6, OpensStep DEF SocketError
  <2>2. ClientInv'
    BY <1>1, <1>2, <1>6, <2>1, PageFacts, FollowsMoves DEF SocketError
  <2>. QED  BY <2>1, <2>2 DEF Proper, Follows, Continues
<1>7. CASE Deliver
  <2>1. Head(inbox) \in Messages(n) /\ Tail(inbox) \in Seq(Messages(n))
    BY <1>7, PageFacts DEF Deliver
  <2>2. SocketLeaseIsCurrent(app) => Follows(app, Handle(app, Head(inbox)), n)
    BY <1>3, <2>1, HandleStep
  <2>3. Follows(app, app, n)
    BY <1>3, FollowsSelf
  <2>4. Follows(app, app', n)
    BY <1>7, <2>2, <2>3 DEF Deliver
  <2>5. conn' \in Conn(n) /\ inbox' \in Seq(Messages(n)) /\ stored' \in BOOLEAN
    BY <1>7, <2>1, PageFacts DEF Deliver
  <2>6. ClientInv'
    BY <1>1, <1>2, <2>4, <2>5, PageFacts, FollowsMoves
  <2>. QED  BY <2>4, <2>6 DEF Proper, Follows, Continues
<1>. QED  BY <1>5, <1>6, <1>7

(* The socket is closed, or replaced by that of another page.              *)
LEMMA ClosingStep ==
    ASSUME ClientInv, SocketCloses \/ SocketReplaced
    PROVE  ClientInv' /\ Proper
<1>. DEFINE n == room.revision
            c == [app EXCEPT !.socket = "closed"]
            cut == IF SocketLeaseIsCurrent(app) THEN ReconnectSocket(c) ELSE c
            replaced == IF SocketLeaseIsCurrent(app) THEN Suppress(c) ELSE c
<1>1. /\ room' = room /\ announcing' = announcing /\ missed' = missed
      /\ left' \in [Faults -> Nat]
    BY PageFacts DEF SocketCloses, SocketReplaced
<1>2. app \in Page(n) /\ Shape(app) /\ n \in Nat
    BY PageFacts
<1>3. /\ ~SocketLeaseIsCurrent(app) => Follows(app, c, n)
      /\ SocketLeaseIsCurrent(app) /\ Live(app) => Follows(app, ReconnectSocket(c), n)
      /\ SocketLeaseIsCurrent(app) => Follows(app, Suppress(c), n)
    BY <1>2, ClosesStep
<1>4. n = 0 => ~SocketLeaseIsCurrent(app) /\ UnbornPage(c)
    BY <1>2, PageFacts, UnbornLease DEF UnbornPage, Page
<1>. HIDE DEF c
<1>5. CASE SocketCloses
  <2>1. Live(app) /\ PageBecomes(cut)
    BY <1>5 DEF SocketCloses, Live, c
  <2>2. Follows(app, cut, n) /\ (n = 0 => UnbornPage(cut))
    BY <1>3, <1>4, <2>1
  <2>. HIDE DEF cut
  <2>. QED  BY <1>1, <2>1, <2>2, BecomesStep
<1>6. CASE SocketReplaced
  <2>1. PageBecomes(replaced)
    BY <1>6 DEF SocketReplaced, c
  <2>2. Follows(app, replaced, n) /\ (n = 0 => UnbornPage(replaced))
    BY <1>3, <1>4
  <2>. HIDE DEF replaced
  <2>. QED  BY <1>1, <2>1, <2>2, BecomesStep
<1>. QED  BY <1>5, <1>6

(* What the browser tells the page.                                        *)
LEMMA LifecycleOK ==
    ASSUME ClientInv, NEW e \in LifecycleEvents, Lifecycle(e)
    PROVE  ClientInv' /\ Proper
<1>. DEFINE n == room.revision
<1>1. /\ room' = room /\ announcing' = announcing /\ missed' = missed
      /\ left' \in [Faults -> Nat] /\ PageBecomes(HandleLifecycle(app, e))
    BY PageFacts DEF Lifecycle
<1>2. Follows(app, HandleLifecycle(app, e), n)
    BY PageFacts, LifecycleStep
<1>3. n = 0 => UnbornPage(HandleLifecycle(app, e))
  <2>. HAVE n = 0
  <2>1. HandleLifecycle(app, e) = NoteLifecycle(app, e)
    BY PageFacts DEF HandleLifecycle, UnbornPage
  <2>2. IsWith(NoteLifecycle(app, e), app, n, app.phase, app.active, app.suppressed, app.due,
               app.socket, app.jobs)
    BY PageFacts, NoteStep
  <2>. QED  BY <2>1, <2>2, PageFacts DEF IsWith, UnbornPage
<1>. QED  BY <1>1, <1>2, <1>3, BecomesStep

(* The timers of the page.                                                 *)
LEMMA FiresStep ==
    ASSUME ClientInv, Fires
    PROVE  ClientInv' /\ Proper
<1>. DEFINE n == room.revision
<1>1. PICK j \in app.jobs : Fire(j)
    BY DEF Fires
<1>. DEFINE a == [app EXCEPT !.jobs = @ \ {j}]
            b == CASE j.kind = "timer" -> FireTimer(a, j)
                   [] j.kind = "clear" /\ LeaseIsCurrent(a, j) -> [a EXCEPT !.socket = "none"]
                   [] j.kind = "drop" /\ a.suppressed = j.target -> [a EXCEPT !.socket = "none"]
                   [] OTHER -> a
<1>2. /\ room' = room /\ announcing' = announcing /\ missed' = missed
      /\ left' \in [Faults -> Nat] /\ j.kind \notin Calls /\ PageBecomes(b)
    BY <1>1, PageFacts DEF Fire
<1>3. /\ j.kind = "timer" => Follows(app, FireTimer(a, j), n)
      /\ j.kind \in Disposals => /\ Follows(app, a, n)
                                 /\ Follows(app, [a EXCEPT !.socket = "none"], n)
      /\ j.kind \in Disposals \cup {"timer"}
    BY <1>2, PageFacts, FireStep
<1>4. Follows(app, b, n)
  <2>1. CASE j.kind = "timer"
    BY <1>3, <2>1
  <2>2. CASE j.kind \in Disposals
    <3>1. b \in {a, [a EXCEPT !.socket = "none"]}
      BY <2>2 DEF Disposals
    <3>. HIDE DEF a, b
    <3>. QED  BY <1>3, <2>2, <3>1
  <2>. QED  BY <1>3, <2>1, <2>2
<1>5. n # 0
    BY <1>2, PageFacts, UnbornLease
<1>. HIDE DEF a, b
<1>. QED  BY <1>2, <1>4, <1>5, BecomesStep

(* A page that boots, at the start and after a reload.                     *)
LEMMA BootStep ==
    ASSUME NEW n \in Nat, NEW role \in {"owner", "receiver"}
    PROVE  LET b == Spawn(NewApp(role), "boot")
           IN  /\ b \in Page(n) /\ Shape(b) /\ b.role = role
               /\ b.kind = "booting" /\ b.target = 0 /\ b.active = 0
               /\ b.view = NoView /\ b.cursor = NewCursor(0)
               /\ \A j \in b.jobs : j.kind = "boot" /\ j.target = 0 /\ j.status = "none"
<1>. DEFINE a == NewApp(role)
            b == Spawn(a, "boot")
<1>1. a \in Page(n)
  <2>1. NoView \in View(n) /\ NewCursor(0) \in Cursor(n)
    BY SmallViews DEF NewCursor, Cursor
  <2>. QED  BY <2>1 DEF NewApp, Page, Kinds, Phases, Sockets, SomeRequest, Life
<1>2. "boot" \in JobKinds
    BY DEF JobKinds, Calls
<1>3. /\ a.role = role /\ a.kind = "booting" /\ a.target = 0 /\ a.active = 0 /\ a.entries = 0
      /\ a.suppressed = 0 /\ a.phase = "disconnected" /\ a.socket = "none" /\ a.jobs = {}
      /\ a.view = NoView /\ a.cursor = NewCursor(0)
    BY DEF NewApp
<1>. HIDE DEF a
<1>4. /\ b \in Page(n) /\ b = [a EXCEPT !.jobs = a.jobs \cup {NewJob("boot", a)}]
      /\ NewJob("boot", a).kind = "boot" /\ NewJob("boot", a).target = a.target
      /\ NewJob("boot", a).status = "none"
    BY <1>1, <1>2, SpawnType
<1>5. /\ b.role = role /\ b.kind = "booting" /\ b.target = 0 /\ b.active = 0 /\ b.entries = 0
      /\ b.suppressed = 0 /\ b.phase = "disconnected" /\ b.socket = "none"
      /\ b.view = NoView /\ b.cursor = NewCursor(0)
      /\ \A j \in b.jobs : j = NewJob("boot", a) /\ j.kind = "boot" /\ j.target = 0 /\ j.status = "none"
    BY <1>1, <1>3, <1>4 DEF Page
<1>. HIDE DEF b
<1>6. JobsOK(b)
    BY <1>5 DEF JobsOK, Entering
<1>7. TargetOK(b) /\ SocketOK(b) /\ SupersededOK(b) /\ Retries(b)
    BY <1>5 DEF TargetOK, OnScreen, SocketOK, Live, SupersededOK, Retries
<1>. QED  BY <1>4, <1>5, <1>6, <1>7 DEF Shape, b, a

(* A reload, which leaves the stored session alone.                        *)
LEMMA ReloadStep ==
    ASSUME ClientInv, Reload
    PROVE  ClientInv' /\ Proper
<1>. DEFINE n == room.revision
            b == Spawn(NewApp(app.role), "boot")
<1>1. app.role \in {"owner", "receiver"} /\ n \in Nat
    BY PageFacts DEF Page
<1>2. /\ b \in Page(n) /\ Shape(b) /\ b.role = app.role
      /\ b.kind = "booting" /\ b.target = 0 /\ b.active = 0
      /\ \A j \in b.jobs : j.kind = "boot" /\ j.target = 0 /\ j.status = "none"
    BY <1>1, BootStep
<1>3. app' = b /\ conn' = NoConn /\ inbox' = <<>> /\ room' = room /\ announcing' = announcing
      /\ stored' = stored /\ missed' = missed /\ left' \in [Faults -> Nat]
    BY PageFacts DEF Reload
<1>. HIDE DEF b
<1>4. Continues(app, b, n)
  <2>1. GoesOn(app, b)
    BY <1>2 DEF GoesOn, OnScreen
  <2>2. StaysSuperseded(app, b)
    BY <1>2, PageFacts DEF StaysSuperseded, Shape, SupersededOK
  <2>. QED  BY <1>2, <2>1, <2>2 DEF Continues
<1>5. n = 0 => UnbornPage(b)
    BY <1>2, PageFacts DEF UnbornPage
<1>6. CreatesOnce' /\ DecidesRequests'
    BY <1>2, <1>3 DEF CreatesOnce, DecidesRequests
<1>7. ClientInv'
    BY <1>3, <1>4, <1>5, <1>6, PageFacts, PageMoves
<1>. QED  BY <1>3, <1>4, <1>7 DEF Proper, Continues

(* The page takes up the answer to a call.                                 *)
LEMMA ResumesStep ==
    ASSUME ClientInv, Resumes
    PROVE  ClientInv' /\ Proper
<1>. DEFINE n == room.revision
<1>1. PICK j \in app.jobs : Resume(j)
    BY DEF Resumes
<1>2. Follows(app, app', n)
    BY <1>1, PageFacts, ResumeStep
<1>3. /\ room' = room /\ announcing' = announcing /\ missed' = missed /\ left' = left
      /\ conn' = conn /\ inbox' = inbox /\ stored' \in BOOLEAN
    BY <1>1, PageFacts DEF Resume
<1>4. n = 0 => UnbornPage(app')
  <2>. HAVE n = 0
  <2>1. UnbornPage(app) /\ j.kind \in Entering /\ ~LetsIn(j)
    BY PageFacts, UnbornLease DEF LetsIn, UnbornPage
  <2>2. /\ app'.target = 0 /\ app'.active = app.active
        /\ \A k \in app'.jobs : k \in app.jobs \/ Harmless(k)
    BY <1>1, <2>1, PageFacts, WayInStep
  <2>. QED  BY <1>2, <2>1, <2>2 DEF UnbornPage, Harmless, Follows, Continues
<1>5. ClientInv'
    BY <1>2, <1>3, <1>4, PageFacts, FollowsMoves
<1>. QED  BY <1>2, <1>5 DEF Proper, Follows, Continues

(* The user asks for a room, or to join one.                               *)
Asked(a, kind) == Spawn([a EXCEPT !.busy = TRUE], kind)

(* Such a page makes one call of the way in.                               *)
LEMMA AskStep ==
    ASSUME NEW n \in Nat, NEW a \in Page(n), Shape(a), a.kind = "lobby", ~a.busy,
           NEW kind \in {"create", "join"}
    PROVE  LET b == Asked(a, kind)
           IN  /\ Continues(a, b, n) /\ b.target = a.target /\ b.active = a.active
               /\ \A j \in b.jobs : \/ j \in a.jobs
                                    \/ /\ j.kind = kind /\ j.target = a.target
                                       /\ j.status = "none" /\ j.at = "asked"
<1>. DEFINE b == Asked(a, kind)
            c == [a EXCEPT !.busy = TRUE]
            k == NewJob(kind, c)
<1>0. b = Spawn(c, kind)
    BY DEF Asked
<1>1. /\ c \in Page(n) /\ c.kind = a.kind /\ c.role = a.role /\ c.target = a.target
      /\ c.entries = a.entries /\ c.active = a.active /\ c.suppressed = a.suppressed
      /\ c.due = a.due /\ c.socket = a.socket /\ c.phase = a.phase /\ c.jobs = a.jobs
      /\ c.busy = TRUE
    BY DEF Page
<1>2. kind \in JobKinds
    BY DEF JobKinds, Calls
<1>. HIDE DEF b, c
<1>3. /\ b \in Page(n) /\ b = [c EXCEPT !.jobs = c.jobs \cup {k}]
      /\ k.kind = kind /\ k.target = c.target /\ k.at = "asked" /\ k.status = "none"
    BY <1>0, <1>1, <1>2, SpawnType
<1>4. /\ b.kind = a.kind /\ b.role = a.role /\ b.target = a.target
      /\ b.entries = a.entries /\ b.active = a.active /\ b.suppressed = a.suppressed
      /\ b.due = a.due /\ b.socket = a.socket /\ b.phase = a.phase
      /\ b.jobs = a.jobs \cup {k} /\ b.busy = TRUE
    BY <1>1, <1>3 DEF Page
<1>. HIDE DEF k
<1>5. a.target = 0
    BY DEF Shape, TargetOK, OnScreen
<1>6. \A j \in a.jobs : j.kind \notin Entering
    BY DEF Shape, JobsOK, Entering
<1>7. JobsOK(b)
    BY <1>1, <1>3, <1>4, <1>5, <1>6 DEF JobsOK, Shape, Entering
<1>8. TargetOK(b) /\ SupersededOK(b)
    BY <1>4 DEF TargetOK, SupersededOK, Shape, OnScreen, Live
<1>9. SocketOK(b)
    BY <1>3, <1>4 DEF SocketOK, Shape, Live, Disposals
<1>10. Retries(b)
    BY <1>4 DEF Retries, Shape, Live, Claims, LeaseIsCurrent
<1>11. GoesOn(a, b) /\ StaysSuperseded(a, b)
    BY <1>4 DEF GoesOn, StaysSuperseded, OnScreen, Shape, SupersededOK, Live
<1>. QED  BY <1>1, <1>3, <1>4, <1>7, <1>8, <1>9, <1>10, <1>11 DEF Continues, Shape, b

(* The user decides a request, or leaves: a call of the screen.            *)
Calling(a, busy, decision, k) ==
    [a EXCEPT !.busy = busy, !.decision = decision, !.jobs = a.jobs \cup {k}]

(* A call of the screen belongs to its target.                             *)
LEMMA ScreenCallStep ==
    ASSUME NEW n \in Nat, NEW a \in Page(n), Shape(a), OnScreen(a),
           NEW k \in Job(n), k.kind \in {"decide", "leave"}, k.target = a.target,
           NEW busy \in BOOLEAN, NEW decision \in SomeRequest
    PROVE  LET b == Calling(a, busy, decision, k)
           IN  Continues(a, b, n) /\ b.jobs = a.jobs \cup {k} /\ b.target = a.target
<1>. DEFINE b == Calling(a, busy, decision, k)
<1>1. a.jobs \cup {k} \in SUBSET Job(n)
    BY PageFields
<1>2. /\ b \in Page(n)
      /\ b.kind = a.kind /\ b.role = a.role /\ b.target = a.target /\ b.view = a.view
      /\ b.entries = a.entries /\ b.active = a.active /\ b.suppressed = a.suppressed
      /\ b.due = a.due /\ b.socket = a.socket /\ b.phase = a.phase
      /\ b.jobs = a.jobs \cup {k}
    BY <1>1 DEF Page, Calling
<1>. HIDE DEF b
<1>3. a.target # 0
    BY DEF Shape, TargetOK
<1>4. JobsOK(b)
    BY <1>2, <1>3 DEF JobsOK, Shape, Entering, OnScreen
<1>5. TargetOK(b) /\ SupersededOK(b)
    BY <1>2 DEF TargetOK, SupersededOK, Shape, OnScreen, Live
<1>6. SocketOK(b)
    BY <1>2 DEF SocketOK, Shape, Live, Disposals
<1>7. Retries(b)
    BY <1>2 DEF Retries, Shape, Live, Claims, LeaseIsCurrent
<1>8. GoesOn(a, b) /\ StaysSuperseded(a, b)
    BY <1>2, PageFields DEF GoesOn, StaysSuperseded, Shape, SupersededOK, Live
<1>. QED  BY <1>2, <1>4, <1>5, <1>6, <1>7, <1>8 DEF Continues, Shape, b

(* What the user does.                                                     *)
LEMMA UserActsStep ==
    ASSUME ClientInv, UserActs
    PROVE  ClientInv' /\ Proper
<1>. DEFINE n == room.revision
<1>1. /\ room' = room /\ announcing' = announcing /\ missed' = missed
      /\ conn' = conn /\ inbox' = inbox /\ stored' = stored /\ left' \in [Faults -> Nat]
  <2>1. "user" \in Faults
    BY PageFacts
  <2>. DEFINE Rest == /\ UNCHANGED <<room, announcing, conn, inbox, stored, missed>>
                      /\ left' = left \/ Spend("user")
  <2>2. (SubmitCreateRoom => Rest) /\ (SubmitJoin => Rest)
    BY DEF SubmitCreateRoom, SubmitJoin
  <2>3. (SubmitLeave => Rest) /\ (SubmitCancelWaiting => Rest)
    BY DEF SubmitLeave, SubmitCancelWaiting, AsksToLeave
  <2>4. \A q \in Requests, d \in {"approved", "rejected"} : SubmitDecision(q, d) => Rest
    BY DEF SubmitDecision
  <2>5. Rest
    BY <2>2, <2>3, <2>4 DEF UserActs
  <2>. QED  BY <2>1, <2>5, PageFacts
<1>2. ASSUME Continues(app, app', n), n = 0 => UnbornPage(app'), CreatesOnce', DecidesRequests'
      PROVE  ClientInv' /\ Proper
  <2>1. ClientInv'
    BY <1>1, <1>2, PageFacts, PageMoves
  <2>. QED  BY <1>2, <2>1 DEF Proper, Continues
<1>3. CASE SubmitCreateRoom \/ SubmitJoin
  <2>1. PICK kind \in {"create", "join"} :
            /\ app' = Asked(app, kind)
            /\ app.kind = "lobby" /\ ~app.busy
            /\ kind = "create" => room.revision = 0
            /\ kind = "join" => app.role = "receiver"
    BY <1>3 DEF SubmitCreateRoom, SubmitJoin, Asked
  <2>2. /\ Continues(app, app', n) /\ app'.target = app.target /\ app'.active = app.active
        /\ \A j \in app'.jobs : \/ j \in app.jobs
                                \/ /\ j.kind = kind /\ j.target = app.target
                                   /\ j.status = "none" /\ j.at = "asked"
    BY <2>1, PageFacts, AskStep
  <2>3. n = 0 => UnbornPage(app')
    BY <2>2, PageFacts DEF UnbornPage, Continues
  <2>4. CreatesOnce' /\ DecidesRequests'
    BY <1>1, <2>1, <2>2 DEF ClientInv, CreatesOnce, DecidesRequests
  <2>. QED  BY <1>2, <2>2, <2>3, <2>4
<1>4. ASSUME OnScreen(app), NEW k \in Job(n), k.kind \in {"decide", "leave"},
             k.target = app.target, k.kind = "decide" => k.request \in Requests,
             NEW busy \in BOOLEAN, NEW decision \in SomeRequest,
             app' = Calling(app, busy, decision, k)
      PROVE  ClientInv' /\ Proper
  <2>1. Continues(app, app', n) /\ app'.jobs = app.jobs \cup {k} /\ app'.target = app.target
    BY <1>4, PageFacts, ScreenCallStep
  <2>2. n # 0
    BY <1>4, PageFacts, UnbornLease
  <2>3. CreatesOnce' /\ DecidesRequests'
    BY <1>1, <1>4, <2>1 DEF ClientInv, CreatesOnce, DecidesRequests
  <2>. QED  BY <1>2, <2>1, <2>2, <2>3
<1>5. \A kind \in {"decide", "leave"}, q \in SomeRequest, d \in RequestStates :
          /\ Asks(kind, q, d) \in Job(n) /\ Asks(kind, q, d).kind = kind
          /\ Asks(kind, q, d).target = app.target /\ Asks(kind, q, d).request = q
  <2>. TAKE kind \in {"decide", "leave"}, q \in SomeRequest, d \in RequestStates
  <2>1. kind \in JobKinds
    BY DEF JobKinds, Calls
  <2>2. /\ NewJob(kind, app) \in Job(n) /\ NewJob(kind, app).kind = kind
        /\ NewJob(kind, app).target = app.target
    BY <2>1, PageFacts, SpawnType
  <2>3. At(app.view.revision) \in View(n)
    BY PageFacts, PageFields, SmallViews
  <2>. QED  BY <2>2, <2>3 DEF Asks, Job
<1>6. CASE SubmitLeave \/ SubmitCancelWaiting
  <2>1. /\ OnScreen(app)
        /\ app' = [app EXCEPT !.busy = TRUE, !.jobs = @ \cup {Asks("leave", NoRequest, "none")}]
    BY <1>6 DEF SubmitLeave, SubmitCancelWaiting, AsksToLeave, OnScreen
  <2>. DEFINE k == Asks("leave", NoRequest, "none")
  <2>2. k \in Job(n) /\ k.kind = "leave" /\ k.target = app.target
    BY <1>5 DEF SomeRequest, RequestStates
  <2>. HIDE DEF k
  <2>3. app' = Calling(app, TRUE, app.decision, k)
    BY <2>1, PageFacts DEF Page, Calling, k
  <2>4. app.decision \in SomeRequest
    BY PageFacts, PageFields
  <2>. QED  BY <1>4, <2>1, <2>2, <2>3, <2>4
<1>7. ASSUME NEW q \in Requests, NEW d \in {"approved", "rejected"}, SubmitDecision(q, d)
      PROVE  ClientInv' /\ Proper
  <2>. DEFINE k == Asks("decide", q, d)
  <2>1. OnScreen(app) /\ app' = [app EXCEPT !.decision = q, !.jobs = @ \cup {k}]
    BY <1>7 DEF SubmitDecision, OnScreen
  <2>2. k \in Job(n) /\ k.kind = "decide" /\ k.target = app.target /\ k.request = q
    BY <1>5, <1>7 DEF SomeRequest, RequestStates
  <2>. HIDE DEF k
  <2>3. app' = Calling(app, app.busy, q, k)
    BY <2>1, PageFacts DEF Page, Calling
  <2>4. app.busy \in BOOLEAN /\ q \in SomeRequest
    BY <1>7, PageFacts DEF Page, SomeRequest
  <2>. QED  BY <1>4, <1>7, <2>1, <2>2, <2>3, <2>4
<1>. QED  BY <1>3, <1>6, <1>7 DEF UserActs

(* A call that gets its answer.                                            *)
Replied(a, j, k) == [a EXCEPT !.jobs = (a.jobs \ {j}) \cup {k}]

(* It is as before, but for the one call.                                  *)
LEMMA ReplyStep ==
    ASSUME NEW n \in Nat, NEW a \in Page(n), Shape(a), NEW j \in a.jobs, j.kind \in Calls,
           NEW k \in Job(n), k.kind = j.kind, k.target = j.target
    PROVE  LET b == Replied(a, j, k)
           IN  /\ Continues(a, b, n) /\ b.target = a.target /\ b.active = a.active
               /\ b.jobs = (a.jobs \ {j}) \cup {k}
<1>. DEFINE b == Replied(a, j, k)
<1>1. (a.jobs \ {j}) \cup {k} \in SUBSET Job(n)
    BY PageFields
<1>2. /\ b \in Page(n)
      /\ b.kind = a.kind /\ b.role = a.role /\ b.target = a.target /\ b.view = a.view
      /\ b.entries = a.entries /\ b.active = a.active /\ b.suppressed = a.suppressed
      /\ b.due = a.due /\ b.socket = a.socket /\ b.phase = a.phase /\ b.busy = a.busy
      /\ b.jobs = (a.jobs \ {j}) \cup {k}
    BY <1>1 DEF Page, Replied
<1>. HIDE DEF b
<1>3. JobsOK(b)
    BY <1>2 DEF JobsOK, Shape
<1>4. TargetOK(b) /\ SupersededOK(b)
    BY <1>2 DEF TargetOK, SupersededOK, Shape, OnScreen, Live
<1>5. SocketOK(b)
    BY <1>2 DEF SocketOK, Shape, Live, Disposals, Calls
<1>6. Retries(b)
    BY <1>2 DEF Retries, Shape, Live, Claims, LeaseIsCurrent, Calls
<1>7. GoesOn(a, b) /\ StaysSuperseded(a, b)
    BY <1>2, PageFields DEF GoesOn, StaysSuperseded, Shape, SupersededOK, Live
<1>. QED  BY <1>2, <1>3, <1>4, <1>5, <1>6, <1>7 DEF Continues, Shape, b

(* The answer, and what the call has done to the room.                     *)
Unanswered(k) == k.kind \in {"create", "join"} => k.at # "answered"

(* Only a room asked for or joined may begin with it.                      *)
LEMMA RepliesStep ==
    ASSUME ClientInv, NEW j \in app.jobs, j.kind \in Calls, NEW k, Replies(j, k),
           k.kind = j.kind, k.target = j.target, k.request = j.request, k.at # "asked",
           room' \in RoomRecord, room'.online \subseteq room'.members,
           room.revision <= room'.revision, room'.revision <= MaxRevision,
           k \in Job(room'.revision), announcing' \subseteq Messages(room'.revision),
           UNCHANGED <<conn, inbox, stored>>, left' \in [Faults -> Nat], missed' \in BOOLEAN,
           room'.revision = 0 => UnbornRoom(room') /\ k.status = "none" /\ Unanswered(k),
           room'.revision = room.revision \/ room.revision # 0 \/ j.kind \in {"create", "join"}
    PROVE  ClientInv' /\ Proper
<1>. DEFINE n == room'.revision
<1>1. n \in Nat /\ room.revision \in Nat
    BY PageFacts DEF RoomRecord
<1>2. conn \in Conn(n) /\ inbox \in Seq(Messages(n)) /\ app \in Page(n) /\ Shape(app)
    BY <1>1, StillTyped
<1>3. app' = Replied(app, j, k)
    BY DEF Replies, Replied
<1>4. /\ Continues(app, app', n) /\ app'.target = app.target /\ app'.active = app.active
      /\ app'.jobs = (app.jobs \ {j}) \cup {k}
    BY <1>1, <1>2, <1>3, ReplyStep
<1>. HIDE DEF n
<1>5. TypesOK'
    BY <1>2, PageFacts DEF TypesOK, n
<1>6. AppOK'
    BY <1>4 DEF AppOK, Continues, n
<1>7. Unborn'
    BY <1>1, <1>4, PageFacts DEF Unborn, UnbornPage, Unanswered, Continues, n
<1>8. CreatesOnce'
  <2>. SUFFICES ASSUME NEW i \in app.jobs \ {j}, i.kind = "create", i.at = "asked"
                PROVE  room'.revision = 0
    BY <1>4 DEF CreatesOnce
  <2>1. room.revision = 0
    BY DEF ClientInv, CreatesOnce
  <2>2. j.kind \notin Entering
    BY <1>2 DEF Shape, JobsOK, Entering
  <2>. QED  BY <2>1, <2>2 DEF Entering
<1>9. DecidesRequests'
    BY <1>4 DEF ClientInv, DecidesRequests
<1>. QED  BY <1>4, <1>5, <1>6, <1>7, <1>8, <1>9 DEF ClientInv, Proper, Continues

(* A question about the room is answered with what the server reads.       *)
LEMMA AnswerReadStep ==
    ASSUME ClientInv, NEW j \in app.jobs, AnswerRead(j)
    PROVE  ClientInv' /\ Proper
<1>. DEFINE n == room.revision
            k == Reads(j)
<1>1. j \in Job(n) /\ j.at = "asked" /\ j.kind \in Calls /\ j.kind \notin {"create", "join"}
    BY PageFacts DEF Page, AnswerRead
<1>2. Bootstrap \in View(n) /\ At(n) \in View(n) /\ room.requests[Mine] \in RequestStates
  <2>1. Pending(room) \in SUBSET Requests
    BY DEF Pending
  <2>2. /\ room \in RoomRecord /\ room.online \subseteq room.members
        /\ n \in Nat /\ n \in 0..n
    BY PageFacts
  <2>3. Bootstrap \in View(n)
    BY <2>1, <2>2, ServerTypes DEF Bootstrap
  <2>4. room.requests[Mine] \in RequestStates
    BY <2>2, ClientAssumption DEF RoomRecord
  <2>. QED  BY <2>2, <2>3, <2>4, SmallViews
<1>3. k \in Job(n) /\ k.kind = j.kind /\ k.target = j.target /\ k.request = j.request
      /\ k.at # "asked"
  <2>. DEFINE status == CASE j.kind \in {"status", "restore_status"} -> room.requests[Mine]
                          [] j.kind = "restore" -> IF IsMember THEN "approved" ELSE "none"
                          [] OTHER -> j.status
              view == CASE j.kind \in {"status", "restore_status"} ->
                             IF room.requests[Mine] = "pending" THEN At(n) ELSE j.view
                        [] j.kind = "boot" -> j.view
                        [] OTHER -> Bootstrap
  <2>1. k = [j EXCEPT !.at = "answered", !.status = status, !.view = view]
    BY <1>1 DEF Reads, Done, Job
  <2>2. status \in RequestStates /\ view \in View(n)
    BY <1>1, <1>2 DEF Job, RequestStates
  <2>. HIDE DEF status, view, k
  <2>. QED  BY <1>1, <2>1, <2>2 DEF Job
<1>4. n = 0 => k.status = "none"
  <2>. HAVE n = 0
  <2>1. j.status = "none" /\ j.kind \in Entering /\ app.role = "owner" /\ room.requests[Mine] = "none"
    BY PageFacts, UnbornLease, ClientAssumption DEF UnbornPage, UnbornRoom
  <2>2. ~IsMember
    BY <2>1 DEF IsMember
  <2>. QED  BY <1>1, <2>1, <2>2 DEF Reads, Done, Entering, Job
<1>5. /\ Replies(j, k) /\ room' = room /\ announcing' = announcing /\ left' = left
      /\ missed' = missed /\ UNCHANGED <<conn, inbox, stored>>
    BY DEF AnswerRead
<1>. HIDE DEF k
<1>6. /\ room.revision <= room'.revision /\ room'.revision <= MaxRevision
      /\ announcing' \subseteq Messages(n)
    BY <1>5, PageFacts DEF ClientInv, TypesOK
<1>. QED  BY <1>1, <1>3, <1>4, <1>5, <1>6, PageFacts, RepliesStep DEF Unanswered

(* A change of the room that the page has asked for.                       *)
LEMMA ChangeTypes ==
    ASSUME ClientInv, NEW j \in app.jobs, j.at = "asked", Change(j),
           j.kind \in {"decide", "leave", "create", "join"}
    PROVE  /\ room' \in RoomRecord /\ room'.online \subseteq room'.members
           /\ room'.revision \in Nat \ {0} /\ room.revision <= room'.revision
           /\ room'.revision <= MaxRevision /\ announcing' \subseteq Messages(room'.revision)
           /\ room.revision # 0 \/ j.kind \in {"create", "join"}
<1>. DEFINE m == room.revision + 1
<1>. USE ClientAssumption
<1>1. room \in RoomRecord /\ room.online \subseteq room.members
      /\ room.revision \in Nat /\ m \in Nat /\ room.revision <= m /\ m \in 0..m
    BY PageFacts
<1>2. j.status \in RequestStates /\ j \in Job(room.revision)
    BY PageFacts DEF Page, Job
<1>3. {"expired", "cancelled", "left", "pending", "none"} \subseteq RequestStates
      /\ Self \in Abouts /\ Requests \subseteq Abouts
      /\ {"decided", "expired", "offline", "requested"} \subseteq MessageKinds
    BY DEF RequestStates, Abouts, MessageKinds
<1>4. announcing \subseteq Messages(m)
    BY <1>1, StillTyped
<1>5. room.revision # 0 \/ j.kind \in {"create", "join"}
    BY PageFacts, UnbornLease DEF Entering
<1>6. ASSUME NEW r \in RoomRecord, r.revision = room.revision, r.online \subseteq r.members,
             NEW kind \in MessageKinds, NEW about \in Abouts, NEW decision \in RequestStates,
             kind \in {"requested", "decided"} => about \in Requests,
             Commit(r, kind, about, decision)
      PROVE  /\ room' \in RoomRecord /\ room'.online \subseteq room'.members
             /\ room'.revision = m /\ m <= MaxRevision /\ announcing' \subseteq Messages(m)
  <2>1. room' \in RoomRecord /\ room'.revision = m /\ room'.online \subseteq room'.members
    BY <1>1, <1>6 DEF Commit, RoomRecord
  <2>2. m <= MaxRevision
    BY <1>1, <1>6 DEF Commit
  <2>3. Message(kind, m, about, decision) \in Messages(m)
    BY <1>1, <1>6, MessageType
  <2>4. announcing' \subseteq Messages(m)
    BY <1>4, <1>6, <2>3 DEF Commit
  <2>. QED  BY <2>1, <2>2, <2>4
<1>7. CASE j.kind = "decide"
  <2>. DEFINE r == Decided(room, j.request, j.status)
  <2>1. j.request \in Requests
    BY <1>7 DEF ClientInv, DecidesRequests
  <2>2. r \in RoomRecord /\ r.revision = room.revision /\ r.online \subseteq r.members
    BY <1>1, <1>2, <2>1 DEF RoomRecord, Decided, Others
  <2>3. Commit(r, "decided", j.request, j.status)
    BY <1>7 DEF Change
  <2>. HIDE DEF r
  <2>. QED  BY <1>1, <1>2, <1>3, <1>5, <1>6, <2>1, <2>2, <2>3
<1>8. CASE j.kind = "leave"
  <2>. DEFINE r        == LeaveRoom(room)
              kind     == IF r.expired THEN "expired" ELSE "offline"
              decision == IF r.expired THEN "none" ELSE "left"
  <2>1. r \in RoomRecord /\ r.revision = room.revision /\ r.online \subseteq r.members
    BY <1>1, <1>3 DEF RoomRecord, LeaveRoom
  <2>2. kind \in {"expired", "offline"} /\ decision \in RequestStates
    BY <1>3
  <2>3. \/ Commit(r, kind, Self, decision)
        \/ room' = room /\ announcing' = announcing \cup {Message(kind, room.revision, Self, decision)}
    BY <1>8 DEF Change, Leaves
  <2>4. room.revision # 0 /\ room.revision <= MaxRevision /\ announcing \subseteq Messages(room.revision)
    BY <1>5, <1>8 DEF ClientInv, TypesOK
  <2>. HIDE DEF r, kind, decision
  <2>5. CASE Commit(r, kind, Self, decision)
    BY <1>1, <1>3, <1>6, <2>1, <2>2, <2>4, <2>5
  <2>6. CASE room' = room
             /\ announcing' = announcing \cup {Message(kind, room.revision, Self, decision)}
    <3>1. Message(kind, room.revision, Self, decision) \in Messages(room.revision)
      BY <1>1, <1>3, <2>2, MessageType
    <3>. QED  BY <1>1, <2>4, <2>6, <3>1
  <2>. QED  BY <2>3, <2>5, <2>6
<1>9. CASE j.kind = "join"
  <2>. DEFINE r == [room EXCEPT !.requests[Mine] = "pending"]
  <2>1. r \in RoomRecord /\ r.revision = room.revision /\ r.online \subseteq r.members
    BY <1>1, <1>3 DEF RoomRecord
  <2>2. Commit(r, "requested", Mine, "none")
    BY <1>9 DEF Change
  <2>. HIDE DEF r
  <2>. QED  BY <1>1, <1>3, <1>5, <1>6, <2>1, <2>2
<1>10. CASE j.kind = "create"
  <2>1. room' = [room EXCEPT !.revision = 1] /\ announcing' = announcing
    BY <1>10 DEF Change
  <2>2. room.revision = 0
    BY <1>10 DEF ClientInv, CreatesOnce
  <2>. QED  BY <1>1, <1>4, <1>10, <2>1, <2>2 DEF RoomRecord
<1>. QED  BY <1>7, <1>8, <1>9, <1>10

(* A change asked of the server: refused, made, or made and its answer     *)
(* lost.                                                                   *)
LEMMA AnswerChangeStep ==
    ASSUME ClientInv, NEW j \in app.jobs, AnswerChange(j)
    PROVE  ClientInv' /\ Proper
<1>. DEFINE answer == [Done(j) EXCEPT !.view = At(room'.revision)]
<1>1. j \in Job(room.revision) /\ j.at = "asked" /\ j.kind \in Calls
      /\ j.kind \in {"decide", "leave", "create", "join"}
      /\ UNCHANGED <<conn, inbox, stored, missed>>
    BY PageFacts DEF Page, AnswerChange, Calls
<1>2. room.revision = 0 => j.status = "none"
    BY PageFacts DEF UnbornPage
<1>3. ASSUME NEW m \in Nat, room.revision <= m
      PROVE  /\ Failed(j) \in Job(m) /\ Failed(j).kind = j.kind /\ Failed(j).target = j.target
             /\ Failed(j).request = j.request /\ Failed(j).at = "failed"
             /\ Failed(j).status = j.status
  <2>1. j \in Job(m) /\ NoView \in View(m)
    BY <1>1, <1>3, PageFacts, LaterBound, SmallViews
  <2>. QED  BY <2>1 DEF Failed, Job
<1>4. ASSUME NEW m \in Nat, room.revision <= m, room'.revision = m
      PROVE  /\ answer \in Job(m) /\ answer.kind = j.kind /\ answer.target = j.target
             /\ answer.request = j.request /\ answer.at = "answered"
  <2>1. j \in Job(m) /\ At(m) \in View(m)
    BY <1>1, <1>4, PageFacts, LaterBound, SmallViews
  <2>. QED  BY <1>4, <2>1 DEF Done, Job
<1>. HIDE DEF answer
<1>5. CASE Change(j) /\ (\/ Replies(j, answer) /\ UNCHANGED left
                         \/ Replies(j, Failed(j)) /\ Spend("fail"))
  <2>1. /\ room' \in RoomRecord /\ room'.online \subseteq room'.members
        /\ room'.revision <= MaxRevision /\ announcing' \subseteq Messages(room'.revision)
        /\ room.revision # 0 \/ j.kind \in {"create", "join"}
    BY <1>1, <1>5, ChangeTypes
  <2>2. room'.revision \in Nat /\ room.revision <= room'.revision /\ room'.revision # 0
    BY <1>1, <1>5, ChangeTypes
  <2>3. left' \in [Faults -> Nat] /\ missed' \in BOOLEAN
    BY <1>1, <1>5, PageFacts
  <2>4. PICK k : /\ Replies(j, k) /\ k \in Job(room'.revision) /\ k.kind = j.kind
                 /\ k.target = j.target /\ k.request = j.request /\ k.at # "asked"
    BY <1>3, <1>4, <1>5, <2>2
  <2>. QED  BY <1>1, <2>1, <2>2, <2>3, <2>4, RepliesStep
<1>6. CASE Replies(j, Failed(j)) /\ UNCHANGED <<room, announcing, left>>
  <2>1. /\ room.revision <= room'.revision /\ room'.revision <= MaxRevision
        /\ announcing' \subseteq Messages(room'.revision) /\ room'.revision = room.revision
    BY <1>6, PageFacts DEF ClientInv, TypesOK
  <2>2. /\ left' \in [Faults -> Nat] /\ missed' \in BOOLEAN
        /\ room' \in RoomRecord /\ room'.online \subseteq room'.members
        /\ room.revision = 0 => UnbornRoom(room')
    BY <1>1, <1>6, PageFacts
  <2>. DEFINE k == Failed(j)
  <2>3. /\ Replies(j, k) /\ k \in Job(room'.revision) /\ k.kind = j.kind
        /\ k.target = j.target /\ k.request = j.request /\ k.at = "failed"
        /\ k.status = j.status
    BY <1>3, <1>6, <2>1, PageFacts
  <2>. HIDE DEF k
  <2>4. room'.revision = 0 => UnbornRoom(room') /\ k.status = "none" /\ Unanswered(k)
    BY <1>2, <2>1, <2>2, <2>3 DEF Unanswered
  <2>5. k.at # "asked" /\ UNCHANGED <<conn, inbox, stored>>
    BY <1>1, <2>3
  <2>. QED  BY <1>1, <2>1, <2>2, <2>3, <2>4, <2>5, RepliesStep
<1>. QED  BY <1>5, <1>6 DEF AnswerChange, answer

(* A call that fails.                                                      *)
LEMMA CallFailsStep ==
    ASSUME ClientInv, NEW j \in app.jobs, CallFails(j)
    PROVE  ClientInv' /\ Proper
<1>. DEFINE k == Failed(j)
            n == room.revision
<1>1. j \in Job(n) /\ j.kind \in Calls /\ j.at = "asked" /\ (n = 0 => j.status = "none")
    BY PageFacts DEF Page, CallFails, UnbornPage
<1>2. /\ k \in Job(n) /\ k.kind = j.kind /\ k.target = j.target
      /\ k.request = j.request /\ k.at = "failed" /\ k.status = j.status
  <2>1. NoView \in View(n)
    BY PageFacts, SmallViews
  <2>. QED  BY <1>1, <2>1 DEF Failed, Job
<1>3. Replies(j, k) /\ UNCHANGED <<room, announcing, conn, inbox, stored>>
      /\ left' \in [Faults -> Nat] /\ missed' \in BOOLEAN
    BY PageFacts DEF CallFails
<1>. HIDE DEF k
<1>4. /\ room.revision <= room'.revision /\ room'.revision <= MaxRevision
      /\ announcing' \subseteq Messages(n) /\ room'.revision = room.revision
    BY <1>3, PageFacts DEF ClientInv, TypesOK
<1>. QED  BY <1>1, <1>2, <1>3, <1>4, PageFacts, RepliesStep DEF Unanswered

----------------------------------------------------------------------------
(* The invariant.                                                          *)

(* The page boots; an owner has no room yet, a receiver's room is there.   *)
LEMMA ClientInit ==
    ASSUME Init
    PROVE  ClientInv
<1>. USE ClientAssumption
<1>1. PICK role \in {"owner", "receiver"} :
          /\ room = [revision |-> IF role = "owner" THEN 0 ELSE 1,
                     requests |-> [q \in Requests |-> "none"],
                     members |-> IF role = "owner" THEN {} ELSE {Host},
                     online |-> {}, here |-> FALSE, expired |-> FALSE]
          /\ announcing = {} /\ conn = NoConn /\ inbox = <<>>
          /\ app = Spawn(NewApp(role), "boot")
          /\ stored = FALSE /\ left \in Budgets[role] /\ missed = FALSE
    BY DEF Init
<1>2. /\ room \in RoomRecord /\ room.online \subseteq room.members
      /\ room.revision \in Nat /\ room.revision \in 0..room.revision
      /\ room.revision <= MaxRevision /\ (room.revision = 0 => role = "owner")
      /\ room.revision = 0 => UnbornRoom(room)
    BY <1>1 DEF RoomRecord, RequestStates, UnbornRoom, Others
<1>3. TypesOK
  <2>1. NoConn \in Conn(room.revision) /\ <<>> \in Seq(Messages(room.revision))
    BY <1>2, ServerTypes
  <2>. QED  BY <1>1, <1>2, <2>1 DEF TypesOK
<1>4. /\ app \in Page(room.revision) /\ Shape(app) /\ app.role = role
      /\ app.target = 0 /\ app.active = 0
      /\ \A j \in app.jobs : j.kind = "boot" /\ j.target = 0 /\ j.status = "none"
    BY <1>1, <1>2, BootStep
<1>5. AppOK /\ CreatesOnce /\ DecidesRequests
    BY <1>4 DEF AppOK, CreatesOnce, DecidesRequests
<1>6. Unborn
    BY <1>2, <1>4 DEF Unborn, UnbornPage
<1>. QED  BY <1>3, <1>5, <1>6 DEF ClientInv

(* Every step.                                                             *)
LEMMA ClientStep ==
    ASSUME ClientInv, [Next]_vars
    PROVE  ClientInv' /\ Proper
<1>1. app' = app => Proper
  <2>1. app.view.revision >= app.view.revision
    BY PageFacts, PageFields
  <2>. QED  BY <2>1, PageFacts DEF Proper, GoesOn, StaysSuperseded, Shape, SupersededOK
<1>2. CASE RoomChanges \/ GoOffline
    BY <1>1, <1>2, RoomChangesStep
<1>3. CASE UserActs
    BY <1>3, UserActsStep
<1>4. CASE Trouble
  <2>1. CASE SocketReplaced
    BY <2>1, ClosingStep
  <2>2. CASE SocketError
    BY <2>2, SocketStep
  <2>3. CASE Reload
    BY <2>3, ReloadStep
  <2>4. CASE \E e \in LifecycleEvents : Lifecycle(e)
    BY <2>4, LifecycleOK
  <2>5. CASE \E j \in app.jobs : CallFails(j)
    BY <2>5, CallFailsStep
  <2>. QED  BY <1>4, <2>1, <2>2, <2>3, <2>4, <2>5 DEF Trouble
<1>5. CASE ServerStep
    BY <1>1, <1>5, ServerStepOK
<1>6. CASE Announces
    BY <1>1, <1>6, AnnouncesStep
<1>7. CASE Answers
    BY <1>7, AnswerReadStep, AnswerChangeStep DEF Answers
<1>8. CASE Resumes
    BY <1>8, ResumesStep
<1>9. CASE Fires
    BY <1>9, FiresStep
<1>10. CASE RunsEffect
    BY <1>10, RunsEffectStep
<1>11. CASE SocketOpens \/ Deliver
    BY <1>11, SocketStep
<1>12. CASE SocketCloses
    BY <1>12, ClosingStep
<1>13. CASE UNCHANGED vars
  <2>1. ClientInv'
    BY <1>13 DEF vars, ClientInv, TypesOK, AppOK, Unborn, CreatesOnce, DecidesRequests
  <2>. QED  BY <1>1, <1>13, <2>1 DEF vars
<1>. QED  BY <1>2, <1>3, <1>4, <1>5, <1>6, <1>7, <1>8, <1>9, <1>10, <1>11, <1>12, <1>13 DEF Next

(* The types and the shape of the page hold in every state, whatever the   *)
(* server, the network and the user do (use_realtime_connection.rs,        *)
(* realtime_session.rs, room_snapshot.rs).                                 *)
THEOREM ClientInvariance == Spec => []ClientInv
<1>1. Init => ClientInv
    BY ClientInit
<1>2. ClientInv /\ [Next]_vars => ClientInv'
    BY ClientStep
<1>. QED  BY <1>1, <1>2, PTL DEF Spec

(* A page that says it is reconnecting has something that will connect it  *)
(* again: the effect, a live socket or a ticket that can still be claimed  *)
(* (schedule_reconnect, claim_reconnect_timer).                            *)
THEOREM RetriesGoOn == Spec => []RetryUnderWay
<1>1. ClientInv => RetryUnderWay
    BY DEF ClientInv, AppOK, Shape, Retries, Live, RetryUnderWay
<1>. QED  BY <1>1, ClientInvariance, PTL

(* What the page shows, and what it has followed of the room, the server   *)
(* has committed: no announcement, snapshot or answer runs ahead of the    *)
(* database.                                                               *)
THEOREM Committed == Spec => []NeverAhead
<1>1. ClientInv => NeverAhead
    BY PageFacts, PageFields DEF NeverAhead
<1>. QED  BY <1>1, ClientInvariance, PTL

(* Within one stay in a room the page never goes back to an older state of *)
(* it, however messages and answers overtake each other                    *)
(* (snapshot_revision_allowed, revision_step).                             *)
THEOREM OnlyForward == Spec => NeverGoesBack
<1>1. ClientInv /\ [Next]_vars =>
          [app'.target = app.target /\ OnScreen(app) /\ OnScreen(app') =>
               app'.view.revision >= app.view.revision]_vars
    BY ClientStep DEF Proper, GoesOn
<1>. QED  BY <1>1, ClientInvariance, PTL DEF Spec, NeverGoesBack

(* A page replaced by another one of its session never connects again by   *)
(* itself (suppress_realtime_connection): only a fresh target ends it.     *)
THEOREM StaysReplaced == Spec => SupersededIsFinal
<1>1. ClientInv /\ [Next]_vars =>
          [app.phase = "superseded" /\ app'.target = app.target /\ app'.entries = app.entries
               => app'.phase = "superseded" /\ app'.socket \notin {"connecting", "open"}]_vars
    BY ClientStep DEF Proper, StaysSuperseded, Live
<1>. QED  BY <1>1, ClientInvariance, PTL DEF Spec, SupersededIsFinal
=============================================================================

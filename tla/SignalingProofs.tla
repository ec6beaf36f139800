-------------------------- MODULE SignalingProofs --------------------------
(***************************************************************************)
(* Theorems about Signaling, for every number of negotiations, retries,    *)
(* queued signals and candidates, and however often anything goes wrong.   *)
(***************************************************************************)
EXTENDS Signaling, WellFoundedInduction, FiniteSetTheorems, TLAPS

----------------------------------------------------------------------------
(* The inductive invariant, page by page.                                  *)

Phases == {"waiting", "connecting", "ready", "disconnected", "failed"}
Timers == [work : Works, live : BOOLEAN]
AnySignals == [kind : {"offer", "answer", "candidate"}, neg : Nat \ {0}, k : Nat]
AnyTasks == [kind : {"offer", "accept", "answer", "candidate"}, conn : Nat, neg : Nat,
             step : {"local", "announce", "remote", "apply"}, cands : SUBSET AnySignals]
Pages ==
    [role : Ends, streamed : BOOLEAN,
     peer : BOOLEAN, phase : Phases, work : Works, timers : SUBSET Timers,
     paused : BOOLEAN, config : BOOLEAN, queue : Seq(AnySignals), sees : BOOLEAN,
     neg : Nat, negotiating : BOOLEAN, announced : BOOLEAN, pending : BOOLEAN,
     set : BOOLEAN, local : SUBSET Nat, remote : SUBSET AnySignals, tasks : SUBSET AnyTasks,
     described : BOOLEAN, answered : Nat, found : Nat, applied : SUBSET AnySignals,
     state : {"new", "connecting", "connected", "disconnected", "failed"},
     chan : {"none", "connecting", "open", "closed"},
     out : Seq(AnySignals), dropped : SUBSET Nat]

(* Whatever a page is about is about the connection it has.                *)
OwnOnly(p) ==
    /\ \A t \in p.tasks : t.conn = p.neg /\ t.neg = p.neg /\ \A c \in t.cands : c.neg = p.neg
    /\ p.neg = 0 => p.tasks = {} /\ ~p.set /\ ~p.announced /\ ~p.described
    /\ p.answered \in {0, p.neg}
    /\ \A c \in p.applied : c.neg = p.neg
    /\ IsFiniteSet(p.local)

(* What a phase rests on.                                                  *)
Armed(p) == \E t \in p.timers : WorkIsCurrent(p, t)
Restarting(p) == \E t \in p.timers : t.work[1] = "restart"
Lively(p) == p.state \in {"connecting", "connected", "disconnected"}
PhaseRests(p) ==
    /\ p.phase = "ready" => p.chan = "open"
    /\ p.phase = "waiting" => p.neg = 0
    /\ p.phase = "connecting" => Armed(p) \/ Lively(p)
    /\ p.phase = "disconnected" => Armed(p) \/ Restarting(p) \/ Lively(p)

(* Only the owner makes offers, and what restarts one is not its work.     *)
OwnersOffer(p) ==
    /\ p.work[1] # "restart"
    /\ p.role = "owner" => \A i \in 1..Len(p.queue) : p.queue[i].kind # "offer"
    /\ p.role = "receiver" =>
         /\ \A i \in 1..Len(p.out) : p.out[i].kind # "offer"
         /\ \A t \in p.tasks : t.kind # "offer"
         /\ \A t \in p.timers : t.work[1] # "restart"
         /\ p.work[1] \notin {"offer", "retry"}

PageInv(p) == p \in Pages /\ OwnOnly(p) /\ PhaseRests(p) /\ OwnersOffer(p)

(* A page that sees the other member has something under way with it.      *)
Active(p) == p.config /\ p.sees => p.phase # "waiting"

----------------------------------------------------------------------------
(* The operations on a page keep it.                                       *)

(* The connection is closed.                                               *)
LEMMA Clearing ==
    ASSUME NEW p \in Pages
    PROVE  LET q == ClearPeerResources(p)
           IN  /\ q \in Pages /\ OwnOnly(q)
               /\ q.neg = 0 /\ q.tasks = {} /\ q.state = "new" /\ q.chan = "none"
               /\ q.role = p.role /\ q.queue = p.queue /\ q.out = p.out
               /\ q.timers = p.timers /\ q.work = p.work /\ q.phase = p.phase
               /\ q.config = p.config /\ q.sees = p.sees /\ q.peer = p.peer
<1> DEFINE q == ClearPeerResources(p)
<1>1. /\ q \in Pages
      /\ q.neg = 0 /\ q.tasks = {} /\ q.state = "new" /\ q.chan = "none"
      /\ q.role = p.role /\ q.queue = p.queue /\ q.out = p.out
      /\ q.timers = p.timers /\ q.work = p.work /\ q.phase = p.phase
      /\ q.config = p.config /\ q.sees = p.sees /\ q.peer = p.peer
  BY DEF ClearPeerResources, Pages
<1>2. /\ ~q.set /\ ~q.announced /\ ~q.described /\ q.answered = 0
      /\ q.applied = {} /\ q.local = {}
  BY DEF ClearPeerResources, Pages
<1> HIDE DEF q
<1>3. OwnOnly(q)
  BY <1>1, <1>2, FS_EmptySet DEF OwnOnly
<1> QED
  BY <1>1, <1>3 DEF q

(* All but the phase and the work rests.                                   *)
Linked(p) == p \in Pages /\ OwnOnly(p) /\ OwnersOffer(p)

(* The page sees what it saw.                                              *)
SeesAs(p, q) == q.config = p.config /\ q.sees = p.sees /\ q.role = p.role /\ q.queue = p.queue

(* All but what the application keeps of the peer is the same.             *)
SameLink(p, q) ==
    /\ SeesAs(p, q) /\ q.streamed = p.streamed
    /\ q.neg = p.neg /\ q.negotiating = p.negotiating /\ q.announced = p.announced
    /\ q.pending = p.pending /\ q.set = p.set /\ q.local = p.local /\ q.remote = p.remote
    /\ q.tasks = p.tasks /\ q.described = p.described /\ q.answered = p.answered
    /\ q.found = p.found /\ q.applied = p.applied /\ q.state = p.state /\ q.chan = p.chan
    /\ q.out = p.out /\ q.dropped = p.dropped

(* Then whatever it is about is its own still.                             *)
LEMMA SameOwn ==
    ASSUME NEW p, NEW q, SameLink(p, q), OwnOnly(p)
    PROVE  OwnOnly(q)
  BY DEF SameLink, OwnOnly

(* Timers that are overtaken.                                              *)
LEMMA StaleTimers ==
    ASSUME NEW timers \in SUBSET Timers
    PROVE  /\ Stale(timers) \in SUBSET Timers
           /\ (\E t \in timers : t.work[1] = "restart") =>
                \E t \in Stale(timers) : t.work[1] = "restart"
           /\ (\A t \in timers : t.work[1] # "restart") =>
                \A t \in Stale(timers) : t.work[1] # "restart"
<1>1. Overtaken \in Timers /\ Overtaken.work[1] # "restart"
  BY DEF Overtaken, Timers, Works, NoWork
<1> HIDE DEF Overtaken
<1> QED
  BY <1>1 DEF Stale

(* The pending work is given up.                                           *)
LEMMA Invalidating ==
    ASSUME NEW p, Linked(p)
    PROVE  /\ Linked(InvalidateWork(p)) /\ SameLink(p, InvalidateWork(p))
           /\ InvalidateWork(p).work = NoWork
           /\ InvalidateWork(p).timers = Stale(p.timers)
           /\ InvalidateWork(p).phase = p.phase
<1> DEFINE q == InvalidateWork(p)
<1>1. p \in Pages /\ p.timers \in SUBSET Timers
  BY DEF Linked, Pages
<1>2. NoWork \in Works /\ NoWork[1] = "none"
  BY DEF NoWork, Works
<1>3. Stale(p.timers) \in SUBSET Timers
  BY <1>1, StaleTimers
<1>4. q \in Pages /\ q = [p EXCEPT !.work = NoWork, !.timers = Stale(p.timers)]
  BY <1>1, <1>2, <1>3 DEF InvalidateWork, Pages
<1>5. q.work = NoWork /\ q.timers = Stale(p.timers) /\ q.phase = p.phase
  BY <1>1, <1>4 DEF Pages
<1>6. SameLink(p, q)
  BY <1>1, <1>4 DEF SameLink, SeesAs, Pages
<1> HIDE DEF q
<1>7. OwnersOffer(q)
  BY <1>1, <1>2, <1>5, <1>6, StaleTimers DEF Linked, OwnersOffer, SameLink, SeesAs
<1> QED
  BY <1>4, <1>5, <1>6, <1>7, SameOwn DEF Linked, q

(* Work is armed with a deadline.                                          *)
LEMMA Arming ==
    ASSUME NEW p, Linked(p), NEW work \in Works, work[1] # "restart",
           p.role = "receiver" => work[1] \notin {"offer", "retry"}
    PROVE  /\ Linked(ArmWork(p, work)) /\ SameLink(p, ArmWork(p, work)) /\ Armed(ArmWork(p, work))
           /\ ArmWork(p, work).phase = p.phase
<1> DEFINE q == ArmWork(p, work)
<1>1. p \in Pages /\ p.timers \in SUBSET Timers /\ p.role \in {"owner", "receiver"}
  BY DEF Linked, Pages, Ends
<1>2. Timer(work) \in Timers /\ Timer(work).work = work /\ Timer(work).live
  BY DEF Timer, Timers
<1>3. Stale(p.timers) \cup {Timer(work)} \in SUBSET Timers
  BY <1>1, <1>2, StaleTimers
<1>4. q \in Pages /\ q = [p EXCEPT !.work = work, !.timers = Stale(p.timers) \cup {Timer(work)}]
  BY <1>1, <1>3 DEF ArmWork, Pages
<1>5. q.work = work /\ q.timers = Stale(p.timers) \cup {Timer(work)} /\ q.phase = p.phase
  BY <1>1, <1>4 DEF Pages
<1>6. SameLink(p, q)
  BY <1>1, <1>4 DEF SameLink, SeesAs, Pages
<1> HIDE DEF q
<1>7. OwnersOffer(q)
  BY <1>1, <1>2, <1>5, <1>6, StaleTimers DEF Linked, OwnersOffer, SameLink, SeesAs
<1>8. Armed(q)
  BY <1>2, <1>5 DEF Armed, WorkIsCurrent
<1> QED
  BY <1>4, <1>5, <1>6, <1>7, <1>8, SameOwn DEF Linked, q

(* Another phase, and perhaps another answer whether a transfer is paused. *)
Phased(p, q, phase) ==
    /\ Linked(q) /\ SameLink(p, q) /\ q.phase = phase
    /\ q.timers = p.timers /\ q.work = p.work

(* The phase changes, with or without what it says of the transfer.        *)
LEMMA Phasing ==
    ASSUME NEW p, Linked(p), NEW phase \in Phases, NEW paused \in BOOLEAN
    PROVE  /\ Phased(p, [p EXCEPT !.phase = phase, !.paused = paused], phase)
           /\ Phased(p, [p EXCEPT !.phase = phase], phase)
<1>1. p \in Pages
  BY DEF Linked
<1>2. ASSUME NEW q, \/ q = [p EXCEPT !.phase = phase, !.paused = paused]
                    \/ q = [p EXCEPT !.phase = phase]
      PROVE  Phased(p, q, phase)
  <2>1. q \in Pages
    <3>1. CASE q = [p EXCEPT !.phase = phase, !.paused = paused]
      BY <1>1, <3>1 DEF Pages
    <3>2. CASE q = [p EXCEPT !.phase = phase]
      BY <1>1, <3>2 DEF Pages
    <3> QED
      BY <1>2, <3>1, <3>2
  <2>2. q.phase = phase /\ q.timers = p.timers /\ q.work = p.work
    <3>1. CASE q = [p EXCEPT !.phase = phase, !.paused = paused]
      BY <1>1, <3>1 DEF Pages
    <3>2. CASE q = [p EXCEPT !.phase = phase]
      BY <1>1, <3>2 DEF Pages
    <3> QED
      BY <1>2, <3>1, <3>2
  <2>3. SameLink(p, q)
    <3>1. CASE q = [p EXCEPT !.phase = phase, !.paused = paused]
      BY <1>1, <3>1 DEF SameLink, SeesAs, Pages
    <3>2. CASE q = [p EXCEPT !.phase = phase]
      BY <1>1, <3>2 DEF SameLink, SeesAs, Pages
    <3> QED
      BY <1>2, <3>1, <3>2
  <2>4. OwnersOffer(q)
    BY <2>2, <2>3 DEF Linked, OwnersOffer, SameLink, SeesAs
  <2> QED
    BY <2>1, <2>2, <2>3, <2>4, SameOwn DEF Phased, Linked
<1> QED
  BY <1>2

(* The peer is given up, shown as connected, or awaited.                   *)
LEMMA Marking ==
    ASSUME NEW p, Linked(p)
    PROVE  /\ PageInv(MarkFailed(p)) /\ SeesAs(p, MarkFailed(p)) /\ MarkFailed(p).phase = "failed"
           /\ p.chan = "open" =>
                PageInv(MarkReady(p)) /\ SeesAs(p, MarkReady(p)) /\ MarkReady(p).phase = "ready"
           /\ PageInv(BeginPassiveDeadline(p)) /\ SeesAs(p, BeginPassiveDeadline(p))
           /\ BeginPassiveDeadline(p).phase = "connecting"
           /\ \A attempt \in 0..RetryDelays : p.role = "owner" =>
                /\ PageInv(BeginOwnerOffer(p, attempt)) /\ SeesAs(p, BeginOwnerOffer(p, attempt))
                /\ BeginOwnerOffer(p, attempt).phase = "connecting"
<1> DEFINE i == InvalidateWork(p)
<1>1. Linked(i) /\ SameLink(p, i)
  BY Invalidating
<1>2. i \in Pages /\ i.streamed \in BOOLEAN
  BY <1>1 DEF Linked, Pages
<1> HIDE DEF i
<1>3. PageInv(MarkFailed(p)) /\ SeesAs(p, MarkFailed(p)) /\ MarkFailed(p).phase = "failed"
  <2> DEFINE f == [i EXCEPT !.phase = "failed"]
             q == MarkFailed(p)
  <2>1. q = [f EXCEPT !.paused = f.streamed] /\ f.streamed = i.streamed
    BY <1>2 DEF MarkFailed, Pause, i, Pages
  <2>2. q = [i EXCEPT !.phase = "failed", !.paused = i.streamed]
    BY <1>2, <2>1 DEF Pages
  <2> HIDE DEF q
  <2>3. Phased(i, q, "failed")
    BY <1>1, <1>2, <2>2, Phasing DEF Phases
  <2>4. PageInv(q) /\ SeesAs(p, q) /\ q.phase = "failed"
    BY <1>1, <2>3 DEF Phased, PageInv, Linked, PhaseRests, SameLink, SeesAs
  <2> QED
    BY <2>4 DEF q
<1>4. ASSUME p.chan = "open"
      PROVE  PageInv(MarkReady(p)) /\ SeesAs(p, MarkReady(p)) /\ MarkReady(p).phase = "ready"
  <2> DEFINE q == MarkReady(p)
  <2>1. q = [i EXCEPT !.phase = "ready"]
    BY DEF MarkReady, i
  <2> HIDE DEF q
  <2>2. Phased(i, q, "ready")
    BY <1>1, <2>1, Phasing DEF Phases
  <2>3. PageInv(q) /\ SeesAs(p, q) /\ q.phase = "ready"
    BY <1>1, <1>4, <2>2 DEF Phased, PageInv, Linked, PhaseRests, SameLink, SeesAs
  <2> QED
    BY <2>3 DEF q
<1>5. ASSUME NEW a, NEW q, Linked(a), SameLink(p, a), Armed(a), Phased(a, q, "connecting")
      PROVE  PageInv(q) /\ SeesAs(p, q) /\ q.phase = "connecting"
  <2>1. Armed(q)
    BY <1>5 DEF Phased, Armed, WorkIsCurrent
  <2> QED
    BY <1>5, <2>1 DEF Phased, PageInv, Linked, PhaseRests, SameLink, SeesAs
<1>6. /\ PageInv(BeginPassiveDeadline(p)) /\ SeesAs(p, BeginPassiveDeadline(p))
      /\ BeginPassiveDeadline(p).phase = "connecting"
  <2> DEFINE a == ArmWork(p, <<"passive", 0>>)
  <2>1. <<"passive", 0>> \in Works
    BY DEF Works
  <2>2. Linked(a) /\ SameLink(p, a) /\ Armed(a)
    BY <2>1, Arming
  <2>3. BeginPassiveDeadline(p) = [a EXCEPT !.phase = "connecting"]
    BY DEF BeginPassiveDeadline
  <2> HIDE DEF a
  <2>4. Phased(a, [a EXCEPT !.phase = "connecting"], "connecting")
    BY <2>2, Phasing DEF Phases
  <2> QED
    BY <1>5, <2>2, <2>3, <2>4
<1>7. ASSUME NEW attempt \in 0..RetryDelays, p.role = "owner"
      PROVE  /\ PageInv(BeginOwnerOffer(p, attempt)) /\ SeesAs(p, BeginOwnerOffer(p, attempt))
             /\ BeginOwnerOffer(p, attempt).phase = "connecting"
  <2> DEFINE a == ArmWork(p, <<"offer", attempt>>)
  <2>1. <<"offer", attempt>> \in Works
    BY DEF Works
  <2>2. Linked(a) /\ SameLink(p, a) /\ Armed(a)
    BY <1>7, <2>1, Arming
  <2>3. BeginOwnerOffer(p, attempt) = [a EXCEPT !.phase = "connecting", !.paused = FALSE]
    BY <2>2 DEF BeginOwnerOffer, Resume, Linked, Pages
  <2> HIDE DEF a
  <2>4. Phased(a, [a EXCEPT !.phase = "connecting", !.paused = FALSE], "connecting")
    BY <2>2, Phasing DEF Phases
  <2> QED
    BY <1>5, <2>2, <2>3, <2>4
<1> QED
  BY <1>3, <1>4, <1>6, <1>7

(* The application's part of the page is the same.                         *)
SameApp(p, q) ==
    /\ SeesAs(p, q) /\ q.streamed = p.streamed /\ q.peer = p.peer /\ q.phase = p.phase
    /\ q.work = p.work /\ q.timers = p.timers /\ q.paused = p.paused
    /\ q.neg = p.neg /\ q.state = p.state /\ q.chan = p.chan

(* Then its phase still rests on what it rested on.                        *)
LEMMA SameAppRests ==
    ASSUME NEW p, NEW q, SameApp(p, q), PhaseRests(p)
    PROVE  PhaseRests(q)
<1>1. Armed(q) <=> Armed(p)
  BY DEF SameApp, Armed, WorkIsCurrent
<1>2. (Restarting(q) <=> Restarting(p)) /\ (Lively(q) <=> Lively(p))
  BY DEF SameApp, Restarting, Lively
<1> QED
  BY <1>1, <1>2 DEF SameApp, PhaseRests

(* A task starts.                                                          *)
LEMMA Spawning ==
    ASSUME NEW p, Linked(p), p.neg # 0, NEW t \in AnyTasks,
           t.conn = p.neg, t.neg = p.neg, \A c \in t.cands : c.neg = p.neg,
           p.role = "receiver" => t.kind # "offer"
    PROVE  Linked(Spawn(p, t)) /\ SameApp(p, Spawn(p, t))
<1> DEFINE q == Spawn(p, t)
<1>1. p \in Pages /\ p.tasks \in SUBSET AnyTasks
  BY DEF Linked, Pages
<1>2. q = [p EXCEPT !.tasks = p.tasks \cup {t}]
  BY DEF Spawn
<1>3. q \in Pages
  BY <1>1, <1>2 DEF Pages
<1>4. SameApp(p, q) /\ q.tasks = p.tasks \cup {t} /\ q.out = p.out
  BY <1>1, <1>2 DEF SameApp, SeesAs, Pages
<1>5. /\ q.set = p.set /\ q.announced = p.announced /\ q.described = p.described
      /\ q.answered = p.answered /\ q.applied = p.applied /\ q.local = p.local
  BY <1>1, <1>2 DEF Pages
<1> HIDE DEF q
<1>6. OwnOnly(q)
  BY <1>4, <1>5 DEF OwnOnly, Linked, SameApp
<1>7. OwnersOffer(q)
  BY <1>4 DEF OwnersOffer, Linked, SameApp, SeesAs
<1> QED
  BY <1>3, <1>4, <1>6, <1>7 DEF Linked, q

(* The page has closed its connection, or it has a new one.                *)
Renewed(p, q, n) ==
    /\ Linked(q) /\ SeesAs(p, q) /\ q.neg = n
    /\ q.phase = p.phase /\ q.work = p.work /\ q.timers = p.timers

(* The connection is closed for a new attempt.                             *)
LEMMA Reconnecting ==
    ASSUME NEW p, Linked(p)
    PROVE  Renewed(p, PrepareReconnect(p), 0)
<1> DEFINE q == ClearPeerResources(p)
<1>1. p \in Pages
  BY DEF Linked
<1>2. /\ q \in Pages /\ OwnOnly(q)
      /\ q.neg = 0 /\ q.tasks = {}
      /\ q.role = p.role /\ q.queue = p.queue /\ q.out = p.out
      /\ q.timers = p.timers /\ q.work = p.work /\ q.phase = p.phase
      /\ q.config = p.config /\ q.sees = p.sees
  BY <1>1, Clearing
<1> HIDE DEF q
<1>3. OwnersOffer(q)
  BY <1>2 DEF OwnersOffer, Linked
<1>4. Renewed(p, q, 0)
  BY <1>2, <1>3 DEF Renewed, Linked, SeesAs
<1> QED
  BY <1>4 DEF q, PrepareReconnect

(* A connection is made.                                                   *)
LEMMA Opening ==
    ASSUME NEW p, Linked(p), NEW n \in Nat \ {0}
    PROVE  Renewed(p, EnsurePeerConnection(p, n), n)
<1> DEFINE c == ClearPeerResources(p)
           q == EnsurePeerConnection(p, n)
<1>1. p \in Pages /\ p.remote \in SUBSET AnySignals
  BY DEF Linked, Pages
<1>2. Renewed(p, c, 0)
  BY Reconnecting DEF PrepareReconnect
<1>3. c \in Pages /\ c.neg = 0 /\ c.tasks = {} /\ c.answered = 0 /\ c.applied = {}
  <2>1. c \in Pages /\ c.neg = 0 /\ c.tasks = {}
    BY <1>1, Clearing
  <2>2. c.answered = 0 /\ c.applied = {}
    BY <1>1 DEF ClearPeerResources, Pages
  <2> QED
    BY <2>1, <2>2
<1> DEFINE own == {r \in p.remote : r.neg = n}
<1>4. q = [c EXCEPT !.neg = n, !.remote = own] /\ own \in SUBSET AnySignals
  BY <1>1 DEF EnsurePeerConnection
<1> HIDE DEF c, own, q
<1>5. q \in Pages
  BY <1>3, <1>4 DEF Pages
<1>6. /\ q.neg = n /\ q.tasks = {} /\ q.answered = 0 /\ q.applied = {}
      /\ q.local = c.local /\ q.out = c.out /\ SeesAs(c, q)
      /\ q.phase = c.phase /\ q.work = c.work /\ q.timers = c.timers
  BY <1>3, <1>4 DEF Pages, SeesAs
<1>7. OwnOnly(q)
  BY <1>2, <1>6 DEF OwnOnly, Renewed, Linked
<1>8. OwnersOffer(q)
  BY <1>2, <1>6 DEF OwnersOffer, Renewed, Linked, SeesAs
<1>9. Renewed(p, q, n)
  BY <1>2, <1>5, <1>6, <1>7, <1>8 DEF Renewed, Linked, SeesAs
<1> QED
  BY <1>9 DEF q

(* A task of a new connection.                                             *)
LEMMA NewTask ==
    ASSUME NEW n \in Nat, NEW kind \in {"offer", "accept"}, NEW step \in {"local", "remote"}
    PROVE  /\ Task(kind, n, n, step, {}) \in AnyTasks
           /\ Task(kind, n, n, step, {}).conn = n /\ Task(kind, n, n, step, {}).neg = n
           /\ Task(kind, n, n, step, {}).cands = {} /\ Task(kind, n, n, step, {}).kind = kind
  BY DEF Task, AnyTasks

(* The owner starts an offer.                                              *)
LEMMA Offering ==
    ASSUME NEW p, Linked(p), p.role = "owner", NEW n \in Nat \ {0}
    PROVE  Renewed(p, StartOffer(p, n), n)
<1> DEFINE e == EnsurePeerConnection(p, n)
           f == [e EXCEPT !.negotiating = TRUE, !.chan = "connecting"]
           t == Task("offer", n, n, "local", {})
           q == StartOffer(p, n)
<1>1. Renewed(p, e, n) /\ e \in Pages
  BY Opening DEF Renewed, Linked
<1>2. q = Spawn(f, t)
  BY DEF StartOffer
<1> HIDE DEF e
<1>3. f \in Pages
  BY <1>1 DEF Pages
<1>4. /\ SeesAs(e, f) /\ f.neg = e.neg /\ f.phase = e.phase /\ f.work = e.work
      /\ f.timers = e.timers /\ f.tasks = e.tasks /\ f.out = e.out
  BY <1>1 DEF Pages, SeesAs
<1>5. /\ f.set = e.set /\ f.announced = e.announced /\ f.described = e.described
      /\ f.answered = e.answered /\ f.applied = e.applied /\ f.local = e.local
  BY <1>1 DEF Pages
<1> HIDE DEF f
<1>6. OwnOnly(f)
  BY <1>1, <1>4, <1>5 DEF OwnOnly, Renewed, Linked
<1>7. OwnersOffer(f)
  BY <1>1, <1>4 DEF OwnersOffer, Renewed, Linked, SeesAs
<1>8. Renewed(p, f, n)
  BY <1>1, <1>3, <1>4, <1>6, <1>7 DEF Renewed, Linked, SeesAs
<1>9. /\ t \in AnyTasks /\ t.conn = n /\ t.neg = n /\ t.cands = {}
  BY NewTask
<1> HIDE DEF t, q
<1>10. Linked(f) /\ f.neg = n /\ f.role = "owner"
  BY <1>8 DEF Renewed, SeesAs
<1>11. Linked(q) /\ SameApp(f, q)
  BY <1>2, <1>9, <1>10, Spawning
<1>12. Renewed(p, q, n)
  BY <1>8, <1>11 DEF Renewed, SameApp, SeesAs
<1> QED
  BY <1>12 DEF q

(* What an operation promises: the invariant, of a page that has not       *)
(* forgotten whose it is and has something under way with who it sees.     *)
Sound(p, role) == PageInv(p) /\ Active(p) /\ p.role = role

(* The owner tries to offer: there is an offer now, the peer is given up,  *)
(* or a connection is there already.                                       *)
LEMMA Attempting ==
    ASSUME NEW p, Linked(p), p.role = "owner", NEW n \in Nat \ {0},
           NEW attempt \in 0..RetryDelays, NEW failure \in BOOLEAN
    PROVE  LET q == StartOwnerOfferAttempt(p, n, attempt, failure)
           IN  \/ p.neg # 0 /\ q = p
               \/ PageInv(q) /\ q.role = "owner" /\ q.phase # "waiting"
<1> DEFINE q == StartOwnerOfferAttempt(p, n, attempt, failure)
<1>1. PageInv(MarkFailed(p)) /\ MarkFailed(p).role = "owner" /\ MarkFailed(p).phase = "failed"
  BY Marking DEF SeesAs
<1>2. CASE p.neg # 0
  BY <1>1, <1>2 DEF StartOwnerOfferAttempt
<1>3. CASE p.neg = 0 /\ ~p.config
  BY <1>1, <1>3 DEF StartOwnerOfferAttempt
<1>4. CASE p.neg = 0 /\ p.config
  <2> DEFINE o == StartOffer(p, n)
  <2>1. Linked(o) /\ o.role = "owner"
    BY Offering DEF Renewed, SeesAs
  <2>2. q = BeginOwnerOffer(o, attempt)
    BY <1>4 DEF StartOwnerOfferAttempt
  <2> HIDE DEF o
  <2>3. /\ PageInv(BeginOwnerOffer(o, attempt)) /\ SeesAs(o, BeginOwnerOffer(o, attempt))
        /\ BeginOwnerOffer(o, attempt).phase = "connecting"
    BY <2>1, Marking
  <2> QED
    BY <2>1, <2>2, <2>3 DEF SeesAs
<1> QED
  BY <1>2, <1>3, <1>4

(* All the invariant is about is the same, but for what is queued or sent. *)
SameCore(p, q) ==
    /\ q.role = p.role /\ q.phase = p.phase /\ q.work = p.work /\ q.timers = p.timers
    /\ q.neg = p.neg /\ q.tasks = p.tasks /\ q.state = p.state /\ q.chan = p.chan
    /\ q.set = p.set /\ q.announced = p.announced /\ q.described = p.described
    /\ q.answered = p.answered /\ q.applied = p.applied /\ q.local = p.local

(* Then it holds as before, as far as those are in order.                  *)
LEMMA CoreKept ==
    ASSUME NEW p, PageInv(p), NEW q \in Pages, SameCore(p, q),
           q.role = "owner" => \A i \in 1..Len(q.queue) : q.queue[i].kind # "offer",
           q.role = "receiver" => \A i \in 1..Len(q.out) : q.out[i].kind # "offer"
    PROVE  PageInv(q)
<1>1. OwnOnly(q)
  BY DEF PageInv, OwnOnly, SameCore
<1>2. OwnersOffer(q)
  BY DEF PageInv, OwnersOffer, SameCore
<1>3. Armed(q) <=> Armed(p)
  BY DEF SameCore, Armed, WorkIsCurrent
<1>4. (Restarting(q) <=> Restarting(p)) /\ (Lively(q) <=> Lively(p))
  BY DEF SameCore, Restarting, Lively
<1>5. PhaseRests(q)
  BY <1>3, <1>4 DEF SameCore, PageInv, PhaseRests
<1> QED
  BY <1>1, <1>2, <1>5 DEF PageInv

(* The peer is entered in the registry.                                    *)
LEMMA Enlisting ==
    ASSUME NEW p, PageInv(p)
    PROVE  /\ PageInv(EnsureRtcPeer(p)) /\ SeesAs(p, EnsureRtcPeer(p))
           /\ EnsureRtcPeer(p).phase = p.phase /\ EnsureRtcPeer(p).neg = p.neg
<1> DEFINE q == EnsureRtcPeer(p)
<1>1. p \in Pages
  BY DEF PageInv
<1>2. q = [p EXCEPT !.peer = TRUE]
  BY DEF EnsureRtcPeer
<1> HIDE DEF q
<1>3. q \in Pages /\ SameCore(p, q) /\ q.out = p.out /\ SeesAs(p, q)
  BY <1>1, <1>2 DEF Pages, SameCore, SeesAs
<1>4. PageInv(q) /\ q.phase = p.phase /\ q.neg = p.neg
  BY <1>3, CoreKept DEF SeesAs, SameCore, PageInv, OwnersOffer
<1> QED
  BY <1>3, <1>4 DEF q

(* The page learns of the config, or whether the other member is there.    *)
LEMMA Learning ==
    ASSUME NEW p, PageInv(p), NEW b \in BOOLEAN
    PROVE  /\ PageInv([p EXCEPT !.config = b]) /\ [p EXCEPT !.config = b].role = p.role
           /\ [p EXCEPT !.config = b].config = b /\ [p EXCEPT !.config = b].queue = p.queue
           /\ PageInv([p EXCEPT !.sees = b]) /\ [p EXCEPT !.sees = b].role = p.role
           /\ [p EXCEPT !.sees = b].sees = b
<1> DEFINE q == [p EXCEPT !.config = b]
           r == [p EXCEPT !.sees = b]
<1>1. p \in Pages
  BY DEF PageInv
<1>2. q \in Pages /\ SameCore(p, q) /\ q.out = p.out /\ q.queue = p.queue /\ q.config = b
  BY <1>1 DEF Pages, SameCore
<1>3. r \in Pages /\ SameCore(p, r) /\ r.out = p.out /\ r.queue = p.queue /\ r.sees = b
  BY <1>1 DEF Pages, SameCore
<1> HIDE DEF q, r
<1>4. PageInv(q) /\ q.role = p.role
  BY <1>2, CoreKept DEF SameCore, PageInv, OwnersOffer
<1>5. PageInv(r) /\ r.role = p.role
  BY <1>3, CoreKept DEF SameCore, PageInv, OwnersOffer
<1> QED
  BY <1>2, <1>3, <1>4, <1>5 DEF q, r

(* What is queued has been taken, what is to be sent has been handed over, *)
(* and negotiations with a signal given up are remembered.                 *)
LEMMA Emptying ==
    ASSUME NEW p, PageInv(p), NEW negotiations \in SUBSET Nat
    PROVE  /\ PageInv([p EXCEPT !.queue = <<>>]) /\ [p EXCEPT !.queue = <<>>].role = p.role
           /\ PageInv([p EXCEPT !.out = <<>>, !.dropped = @ \cup negotiations])
           /\ PageInv([p EXCEPT !.out = <<>>])
           /\ PageInv([p EXCEPT !.dropped = @ \cup negotiations])
<1> DEFINE q == [p EXCEPT !.queue = <<>>]
           r == [p EXCEPT !.out = <<>>, !.dropped = p.dropped \cup negotiations]
           s == [p EXCEPT !.out = <<>>]
           u == [p EXCEPT !.dropped = p.dropped \cup negotiations]
<1>0. <<>> \in Seq(AnySignals)
  OBVIOUS
<1>1. p \in Pages /\ p.dropped \cup negotiations \in SUBSET Nat
  BY DEF PageInv, Pages
<1>2. q \in Pages /\ SameCore(p, q) /\ q.out = p.out /\ q.queue = <<>>
  BY <1>0, <1>1 DEF Pages, SameCore
<1>3. r \in Pages /\ SameCore(p, r) /\ r.out = <<>> /\ r.queue = p.queue
  BY <1>0, <1>1 DEF Pages, SameCore
<1>4. s \in Pages /\ SameCore(p, s) /\ s.out = <<>> /\ s.queue = p.queue
  BY <1>0, <1>1 DEF Pages, SameCore
<1>5. u \in Pages /\ SameCore(p, u) /\ u.out = p.out /\ u.queue = p.queue
  BY <1>1 DEF Pages, SameCore
<1> HIDE DEF q, r, s, u
<1>6. PageInv(q) /\ q.role = p.role
  BY <1>2, CoreKept DEF SameCore, PageInv, OwnersOffer
<1>7. PageInv(r)
  BY <1>3, CoreKept DEF SameCore, PageInv, OwnersOffer
<1>8. PageInv(s)
  BY <1>4, CoreKept DEF SameCore, PageInv, OwnersOffer
<1>9. PageInv(u)
  BY <1>5, CoreKept DEF SameCore, PageInv, OwnersOffer
<1> QED
  BY <1>6, <1>7, <1>8, <1>9 DEF q, r, s, u

(* The peer leaves the registry.                                           *)
LEMMA Removing ==
    ASSUME NEW p, PageInv(p)
    PROVE  PageInv(RemoveRtcPeer(p)) /\ SeesAs(p, RemoveRtcPeer(p))
<1> DEFINE c == ClearPeerResources(p)
           q == RemoveRtcPeer(p)
<1>1. p \in Pages
  BY DEF PageInv
<1>2. c \in Pages /\ OwnOnly(c) /\ c.neg = 0 /\ c.tasks = {} /\ c.role = p.role
      /\ c.queue = p.queue /\ c.out = p.out /\ c.config = p.config /\ c.sees = p.sees
  BY <1>1, Clearing
<1>3. q = [c EXCEPT !.peer = FALSE, !.phase = "waiting", !.work = NoWork,
                    !.timers = {}, !.paused = FALSE]
  BY DEF RemoveRtcPeer
<1>4. NoWork \in Works /\ NoWork[1] = "none"
  BY DEF NoWork, Works
<1> HIDE DEF c, q
<1>5. q \in Pages
  BY <1>2, <1>3, <1>4 DEF Pages, Phases
<1>6. /\ SeesAs(c, q) /\ q.neg = c.neg /\ q.phase = "waiting" /\ q.work = NoWork
      /\ q.timers = {} /\ q.tasks = c.tasks /\ q.out = c.out
  BY <1>2, <1>3 DEF Pages, SeesAs
<1>7. /\ q.set = c.set /\ q.announced = c.announced /\ q.described = c.described
      /\ q.answered = c.answered /\ q.applied = c.applied /\ q.local = c.local
  BY <1>2, <1>3 DEF Pages
<1>8. OwnOnly(q)
  BY <1>2, <1>6, <1>7 DEF OwnOnly
<1>9. OwnersOffer(q)
  BY <1>2, <1>4, <1>6 DEF OwnersOffer, SeesAs, PageInv
<1>10. PhaseRests(q)
  BY <1>2, <1>6 DEF PhaseRests
<1> QED
  BY <1>2, <1>5, <1>6, <1>8, <1>9, <1>10 DEF PageInv, SeesAs, q

(* The registry is brought in step with the members shown online.          *)
LEMMA Syncing ==
    ASSUME NEW p, PageInv(p), NEW n \in Nat \ {0}
    PROVE  Sound(SyncRtcPeers(p, n), p.role)
<1> DEFINE e == EnsureRtcPeer(p)
           q == SyncRtcPeers(p, n)
<1>1. PageInv(e) /\ SeesAs(p, e) /\ e.phase = p.phase /\ e.neg = p.neg
  BY Enlisting
<1>2. p.role \in {"owner", "receiver"}
  BY DEF PageInv, Pages, Ends
<1>3. CASE ~p.config
  BY <1>3 DEF SyncRtcPeers, Sound, Active
<1>4. CASE p.config /\ ~p.sees
  BY <1>4, Removing DEF SyncRtcPeers, Sound, Active, SeesAs
<1>5. CASE p.config /\ p.sees /\ p.role = "owner"
  <2> DEFINE o == StartRtcOffer(e, n)
  <2>1. \/ e.neg # 0 /\ o = e
        \/ PageInv(o) /\ o.role = "owner" /\ o.phase # "waiting"
    <3>1. Linked(e) /\ e.role = "owner" /\ 0 \in 0..RetryDelays
      BY <1>1, <1>5, RtcAssumption DEF PageInv, Linked, SeesAs
    <3> QED
      BY <3>1, Attempting DEF StartRtcOffer
  <2>2. e.phase = "waiting" => e.neg = 0
    BY <1>1 DEF PageInv, PhaseRests
  <2>3. q = IF e.phase = "waiting" \/ (e.phase # "ready" /\ ~e.paused) THEN o ELSE e
    BY <1>5 DEF SyncRtcPeers
  <2> HIDE DEF o, e, q
  <2>4. PageInv(q) /\ q.role = "owner" /\ q.phase # "waiting"
    BY <1>1, <1>5, <2>1, <2>2, <2>3 DEF SeesAs
  <2> QED
    BY <1>5, <2>4 DEF Sound, Active, q
<1>6. CASE p.config /\ p.sees /\ p.role = "receiver"
  <2> DEFINE b == BeginPassiveDeadline(e)
  <2>1. PageInv(b) /\ SeesAs(e, b) /\ b.phase = "connecting"
    BY <1>1, Marking DEF PageInv, Linked
  <2>2. q = IF e.phase = "waiting" THEN b ELSE e
    BY <1>6 DEF SyncRtcPeers
  <2> HIDE DEF b, e, q
  <2>3. PageInv(q) /\ q.role = p.role /\ q.phase # "waiting"
    BY <1>1, <1>6, <2>1, <2>2 DEF SeesAs
  <2> QED
    BY <2>3 DEF Sound, Active, q
<1> QED
  BY <1>2, <1>3, <1>4, <1>5, <1>6

(* A step that leaves the config, the members and the queue alone, and     *)
(* does not put a peer back to waiting.                                    *)
Follows(p, q) == PageInv(q) /\ SeesAs(p, q) /\ (q.phase = "waiting" => p.phase = "waiting")

(* Such a step keeps what there was to keep.                               *)
LEMMA FollowingSound ==
    ASSUME NEW p, NEW q, Active(p), Follows(p, q)
    PROVE  Sound(q, p.role)
  BY DEF Follows, Sound, Active, SeesAs

(* An offer arrives at the receiver.                                       *)
LEMMA AcceptingOffer ==
    ASSUME NEW p, PageInv(p), p.role = "receiver", NEW s \in AnySignals
    PROVE  Follows(p, AcceptOffer(p, s))
<1> DEFINE c == IF p.neg # 0 THEN PrepareReconnect(p) ELSE p
           e == EnsurePeerConnection(c, s.neg)
           t == Task("accept", s.neg, s.neg, "remote", {})
           q == Spawn(e, t)
           b == BeginPassiveDeadline(q)
<1>1. CASE p.neg = s.neg
  BY <1>1 DEF AcceptOffer, Follows, SeesAs
<1>2. CASE p.neg # s.neg
  <2>1. s.neg \in Nat \ {0} /\ Linked(p)
    BY DEF AnySignals, PageInv, Linked
  <2>2. Linked(c) /\ SeesAs(p, c)
    BY <2>1, Reconnecting DEF Renewed, SeesAs
  <2>3. AcceptOffer(p, s) = b
    BY <1>2 DEF AcceptOffer
  <2> HIDE DEF c
  <2>4. Linked(e) /\ SeesAs(c, e) /\ e.neg = s.neg
    BY <2>1, <2>2, Opening DEF Renewed
  <2> HIDE DEF e
  <2>5. t \in AnyTasks /\ t.conn = s.neg /\ t.neg = s.neg /\ t.cands = {} /\ t.kind = "accept"
    BY <2>1, NewTask
  <2> HIDE DEF t
  <2>6. Linked(q) /\ SameApp(e, q)
    BY <2>1, <2>4, <2>5, Spawning
  <2> HIDE DEF q
  <2>7. PageInv(b) /\ SeesAs(q, b) /\ b.phase = "connecting"
    BY <2>6, Marking
  <2> HIDE DEF b
  <2>8. Follows(p, b)
    BY <2>2, <2>4, <2>6, <2>7 DEF Follows, SeesAs, SameApp
  <2> QED
    BY <2>3, <2>8
<1> QED
  BY <1>1, <1>2

(* Of a page on which the invariant holds, a task is started.              *)
LEMMA SpawnFollows ==
    ASSUME NEW p, PageInv(p), p.neg # 0, NEW t \in AnyTasks,
           t.conn = p.neg, t.neg = p.neg, \A c \in t.cands : c.neg = p.neg,
           p.role = "receiver" => t.kind # "offer"
    PROVE  Follows(p, Spawn(p, t))
<1>1. Linked(p) /\ PhaseRests(p)
  BY DEF PageInv, Linked
<1>2. Linked(Spawn(p, t)) /\ SameApp(p, Spawn(p, t))
  BY <1>1, Spawning
<1>3. PhaseRests(Spawn(p, t))
  BY <1>1, <1>2, SameAppRests
<1> QED
  BY <1>2, <1>3 DEF Follows, PageInv, Linked, SameApp

(* An answer arrives.                                                      *)
LEMMA AcceptingAnswer ==
    ASSUME NEW p, PageInv(p), NEW s \in AnySignals
    PROVE  Follows(p, AcceptAnswer(p, s))
<1> DEFINE a == [p EXCEPT !.pending = TRUE]
           t == Task("answer", p.neg, s.neg, "remote", {})
<1>1. CASE ~TakesAnswer(p, s)
  BY <1>1 DEF AcceptAnswer, Follows, SeesAs
<1>2. CASE TakesAnswer(p, s)
  <2>1. p \in Pages /\ p.neg = s.neg /\ p.neg \in Nat /\ p.neg # 0
    BY <1>2 DEF TakesAnswer, AnySignals, PageInv, Pages
  <2>2. a \in Pages /\ SameCore(p, a) /\ SeesAs(p, a) /\ a.out = p.out
    BY <2>1 DEF Pages, SameCore, SeesAs
  <2>3. AcceptAnswer(p, s) = Spawn(a, t)
    BY <1>2 DEF AcceptAnswer
  <2>4. t \in AnyTasks /\ t.conn = p.neg /\ t.neg = p.neg /\ t.cands = {} /\ t.kind = "answer"
    BY <2>1 DEF Task, AnyTasks
  <2> HIDE DEF a, t
  <2>5. PageInv(a)
    BY <2>2, CoreKept DEF SeesAs, PageInv, OwnersOffer
  <2>6. a.neg = p.neg
    BY <2>2 DEF SameCore
  <2>7. Follows(a, Spawn(a, t))
    BY <2>1, <2>4, <2>5, <2>6, SpawnFollows
  <2> QED
    BY <2>2, <2>3, <2>7 DEF Follows, SeesAs, SameCore
<1> QED
  BY <1>1, <1>2

(* A signal is given up.                                                   *)
LEMMA Dropping ==
    ASSUME NEW p, PageInv(p), NEW n \in Nat
    PROVE  Follows(p, Drop(p, n))
<1>1. Drop(p, n) = [p EXCEPT !.dropped = @ \cup {n}]
  BY DEF Drop
<1>2. SeesAs(p, Drop(p, n)) /\ Drop(p, n).phase = p.phase
  BY <1>1 DEF PageInv, Pages, SeesAs
<1>3. {n} \in SUBSET Nat
  OBVIOUS
<1>4. PageInv([p EXCEPT !.dropped = @ \cup {n}])
  BY <1>3, Emptying
<1> QED
  BY <1>1, <1>2, <1>4 DEF Follows

(* A candidate arrives.                                                    *)
LEMMA AcceptingCandidate ==
    ASSUME NEW p, PageInv(p), NEW s \in AnySignals
    PROVE  Follows(p, AcceptCandidate(p, s))
<1> DEFINE t == Task("candidate", p.neg, s.neg, "apply", {s})
           m == MarkFailed(p)
           r == [p EXCEPT !.remote = p.remote \cup {s}]
<1>1. p \in Pages /\ s.neg \in Nat \ {0}
  BY DEF PageInv, AnySignals
<1>2. CASE ~TakesCandidate(p, s)
  BY <1>2 DEF AcceptCandidate, Follows, SeesAs
<1>3. CASE TakesCandidate(p, s) /\ p.set
  <2>1. p.neg = s.neg
    BY <1>3 DEF TakesCandidate, PageInv, OwnOnly
  <2>2. /\ t \in AnyTasks /\ t.conn = p.neg /\ t.neg = p.neg /\ t.cands = {s}
        /\ t.kind = "candidate"
    BY <1>1, <2>1 DEF Task, AnyTasks
  <2>3. AcceptCandidate(p, s) = Spawn(p, t)
    BY <1>3 DEF AcceptCandidate
  <2> HIDE DEF t
  <2> QED
    BY <1>1, <2>1, <2>2, <2>3, SpawnFollows
<1>4. CASE TakesCandidate(p, s) /\ ~p.set /\ Cardinality(p.remote) >= SignalLimit
  <2>1. AcceptCandidate(p, s) = Drop(m, s.neg)
    BY <1>4 DEF AcceptCandidate
  <2>2. PageInv(m) /\ SeesAs(p, m) /\ m.phase = "failed"
    BY Marking DEF PageInv, Linked
  <2> HIDE DEF m
  <2>3. Follows(m, Drop(m, s.neg))
    BY <1>1, <2>2, Dropping
  <2> QED
    BY <2>1, <2>2, <2>3 DEF Follows, SeesAs
<1>5. CASE TakesCandidate(p, s) /\ ~p.set /\ ~(Cardinality(p.remote) >= SignalLimit)
  <2>1. AcceptCandidate(p, s) = r
    BY <1>5 DEF AcceptCandidate
  <2>2. p.remote \cup {s} \in SUBSET AnySignals
    BY <1>1 DEF Pages
  <2>3. r \in Pages /\ SameCore(p, r) /\ SeesAs(p, r) /\ r.out = p.out
    BY <1>1, <2>2 DEF Pages, SameCore, SeesAs
  <2> HIDE DEF r
  <2>4. PageInv(r)
    BY <2>3, CoreKept DEF SeesAs, PageInv, OwnersOffer
  <2> QED
    BY <2>1, <2>3, <2>4 DEF Follows, SameCore
<1> QED
  BY <1>2, <1>3, <1>4, <1>5

(* A signal arrives, whether or not the page can do anything with it.      *)
LEMMA Receiving ==
    ASSUME NEW p, PageInv(p), Active(p), NEW s \in AnySignals,
           p.role = "owner" => s.kind # "offer"
    PROVE  Sound(AcceptRtcSignal(p, s), p.role)
<1> DEFINE e == EnsureRtcPeer(p)
           r == [p EXCEPT !.queue = Append(p.queue, s)]
<1>1. p \in Pages /\ s.neg \in Nat /\ s.kind \in {"offer", "answer", "candidate"}
      /\ p.role \in {"owner", "receiver"}
  BY DEF PageInv, AnySignals, Pages, Ends
<1>2. PageInv(e) /\ SeesAs(p, e) /\ e.phase = p.phase
  BY Enlisting
<1>3. Sound(Drop(p, s.neg), p.role)
  BY <1>1, Dropping, FollowingSound
<1>4. CASE ~p.config /\ Len(p.queue) < SignalLimit
  <2>1. p.queue \in Seq(AnySignals) /\ Append(p.queue, s) \in Seq(AnySignals)
    BY <1>1 DEF Pages
  <2>2. r \in Pages /\ SameCore(p, r) /\ r.out = p.out /\ r.queue = Append(p.queue, s)
        /\ r.config = p.config
    BY <1>1, <2>1 DEF Pages, SameCore
  <2>3. AcceptRtcSignal(p, s) = r
    BY <1>4 DEF AcceptRtcSignal
  <2> HIDE DEF r
  <2>4. r.role = "owner" => \A i \in 1..Len(r.queue) : r.queue[i].kind # "offer"
    BY <2>1, <2>2 DEF SameCore, PageInv, OwnersOffer
  <2>5. PageInv(r)
    BY <2>2, <2>4, CoreKept DEF PageInv, OwnersOffer, SameCore
  <2> QED
    BY <1>4, <2>2, <2>3, <2>5 DEF Sound, Active, SameCore
<1>5. CASE ~p.config /\ ~(Len(p.queue) < SignalLimit)
  BY <1>3, <1>5 DEF AcceptRtcSignal
<1>6. CASE p.config /\ ~p.sees
  BY <1>3, <1>6 DEF AcceptRtcSignal
<1>7. CASE p.config /\ p.sees
  <2>1. /\ s.kind = "offer" => AcceptRtcSignal(p, s) = AcceptOffer(e, s)
        /\ s.kind = "answer" => AcceptRtcSignal(p, s) = AcceptAnswer(e, s)
        /\ s.kind = "candidate" => AcceptRtcSignal(p, s) = AcceptCandidate(e, s)
    BY <1>7 DEF AcceptRtcSignal
  <2> HIDE DEF e
  <2>2. s.kind = "offer" => e.role = "receiver"
    BY <1>1, <1>2 DEF SeesAs
  <2>3. Follows(e, AcceptRtcSignal(p, s))
    BY <1>1, <1>2, <2>1, <2>2, AcceptingOffer, AcceptingAnswer, AcceptingCandidate
  <2>4. Active(e) /\ e.role = p.role
    BY <1>2 DEF Active, SeesAs
  <2> QED
    BY <2>3, <2>4, FollowingSound
<1> QED
  BY <1>4, <1>5, <1>6, <1>7

(* A function that takes signals one after the other from a page on.       *)
Replays(f, p, queue, last) ==
    f = [i \in 0..last |-> IF i = 0 THEN p ELSE AcceptRtcSignal(f[i - 1], queue[i])]

(* A set of numbers that is not empty has a least one.                     *)
LEMMA Least ==
    ASSUME NEW T \in SUBSET Nat, T # {}
    PROVE  \E n \in T : \A m \in T : n <= m
<1> DEFINE R == OpToRel(<, Nat)
<1>1. \A m, n \in Nat : <<m, n>> \in R <=> m < n
  BY DEF OpToRel
<1>2. IsWellFoundedOn(R, Nat)
  BY NatLessThanWellFounded
<1> HIDE DEF R
<1>3. \E n \in T : \A m \in T : ~(<<m, n>> \in R)
  <2>1. T \subseteq Nat
    OBVIOUS
  <2> QED
    BY <1>2, <2>1, WFMin, Zenon
<1>4. PICK n \in T : \A m \in T : ~(<<m, n>> \in R)
  BY <1>3
<1>5. ASSUME NEW m \in T
      PROVE  n <= m
  <2>1. m \in Nat /\ n \in Nat /\ ~(<<m, n>> \in R)
    BY <1>4
  <2>2. ~(m < n)
    BY <1>1, <2>1
  <2> QED
    BY <2>1, <2>2
<1> QED
  BY <1>5

(* There is one for as many signals as there are.                          *)
LEMMA ReplayExists ==
    ASSUME NEW p, NEW queue, NEW last \in Nat
    PROVE  \E f : Replays(f, p, queue, last)
<1> SUFFICES ASSUME ~\E f : Replays(f, p, queue, last)
             PROVE  FALSE
  OBVIOUS
<1> DEFINE bad == {n \in Nat : ~\E f : Replays(f, p, queue, n)}
<1>1. bad \in SUBSET Nat /\ bad # {}
  OBVIOUS
<1>2. PICK n \in bad : \A m \in bad : n <= m
  BY <1>1, Least
<1>3. n \in Nat /\ ~\E f : Replays(f, p, queue, n)
  OBVIOUS
<1>4. CASE n = 0
  <2> DEFINE f == [i \in 0..0 |-> p]
  <2>1. f = [i \in 0..0 |-> IF i = 0 THEN p ELSE AcceptRtcSignal(f[i - 1], queue[i])]
    OBVIOUS
  <2> QED
    BY <1>3, <1>4, <2>1 DEF Replays
<1>5. CASE n # 0
  <2>1. n - 1 \in Nat /\ n - 1 \notin bad
    BY <1>2, <1>3, <1>5
  <2>2. PICK f : Replays(f, p, queue, n - 1)
    BY <2>1
  <2>3. f = [i \in 0..(n - 1) |-> IF i = 0 THEN p ELSE AcceptRtcSignal(f[i - 1], queue[i])]
    BY <2>2 DEF Replays
  <2> DEFINE g == [i \in 0..n |-> IF i = n THEN AcceptRtcSignal(f[n - 1], queue[n]) ELSE f[i]]
  <2>4. ASSUME NEW i \in 0..n
        PROVE  g[i] = IF i = 0 THEN p ELSE AcceptRtcSignal(g[i - 1], queue[i])
    <3>1. CASE i = n
      <4>1. g[i] = AcceptRtcSignal(f[n - 1], queue[n])
        BY <3>1
      <4>2. g[n - 1] = f[n - 1]
        BY <1>3, <1>5
      <4> QED
        BY <1>5, <3>1, <4>1, <4>2
    <3>2. CASE i # n
      <4>1. i \in 0..(n - 1) /\ g[i] = f[i]
        BY <1>3, <3>2
      <4>2. i # 0 => g[i - 1] = f[i - 1]
        BY <1>3, <3>2
      <4>3. f[i] = IF i = 0 THEN p ELSE AcceptRtcSignal(f[i - 1], queue[i])
        BY <2>3, <4>1
      <4> QED
        BY <4>1, <4>2, <4>3
    <3> QED
      BY <3>1, <3>2
  <2>5. g = [i \in 0..n |-> g[i]]
    OBVIOUS
  <2> HIDE DEF g
  <2>6. g = [i \in 0..n |-> IF i = 0 THEN p ELSE AcceptRtcSignal(g[i - 1], queue[i])]
    BY <2>4, <2>5
  <2> QED
    BY <1>3, <2>6 DEF Replays
<1> QED
  BY <1>4, <1>5

(* Each page along the way is sound, when the first is and no owner is     *)
(* brought an offer.                                                       *)
LEMMA ReplaySound ==
    ASSUME NEW role, NEW p, Sound(p, role), NEW queue \in Seq(AnySignals),
           role = "owner" => \A i \in 1..Len(queue) : queue[i].kind # "offer",
           NEW f, Replays(f, p, queue, Len(queue))
    PROVE  Sound(f[Len(queue)], role)
<1> DEFINE last == Len(queue)
           bad == {n \in 0..last : ~Sound(f[n], role)}
<1>1. last \in Nat
  OBVIOUS
<1>2. f = [i \in 0..last |-> IF i = 0 THEN p ELSE AcceptRtcSignal(f[i - 1], queue[i])]
  BY DEF Replays
<1>3. ASSUME bad # {}
      PROVE  FALSE
  <2>1. bad \in SUBSET Nat
    OBVIOUS
  <2>2. PICK n \in bad : \A m \in bad : n <= m
    BY <1>3, <2>1, Least
  <2>3. n \in 0..last /\ ~Sound(f[n], role)
    OBVIOUS
  <2>4. n # 0
    <3>1. f[0] = p
      BY <1>1, <1>2
    <3> QED
      BY <2>3, <3>1
  <2>5. n - 1 \in 0..last /\ n - 1 \notin bad /\ n \in 1..last
    BY <1>1, <2>2, <2>3, <2>4
  <2>6. Sound(f[n - 1], role)
    BY <2>5
  <2>7. f[n] = AcceptRtcSignal(f[n - 1], queue[n])
    BY <1>2, <2>3, <2>4
  <2>8. queue[n] \in AnySignals /\ (role = "owner" => queue[n].kind # "offer")
    BY <2>5
  <2>9. Sound(AcceptRtcSignal(f[n - 1], queue[n]), role)
    BY <2>6, <2>8, Receiving DEF Sound
  <2> QED
    BY <2>3, <2>7, <2>9
<1> QED
  BY <1>1, <1>3

(* The RTC config arrives, and the signals that waited for it are taken.   *)
LEMMA Configuring ==
    ASSUME NEW p, PageInv(p), NEW n \in Nat \ {0}
    PROVE  Sound(ApplyRtcConfig(p, n), p.role)
<1> DEFINE c == [p EXCEPT !.config = TRUE]
           q == SyncRtcPeers(c, n)
           e == [q EXCEPT !.queue = <<>>]
           last == Len(p.queue)
           f == CHOOSE g : g = [i \in 0..last |-> IF i = 0 THEN e
                                                  ELSE AcceptRtcSignal(g[i - 1], p.queue[i])]
<1>1. PageInv(c) /\ c.role = p.role
  BY Learning
<1>2. Sound(q, p.role)
  BY <1>1, Syncing
<1>3. p.queue \in Seq(AnySignals) /\ last \in Nat
  BY DEF PageInv, Pages
<1>4. p.role = "owner" => \A i \in 1..Len(p.queue) : p.queue[i].kind # "offer"
  BY DEF PageInv, OwnersOffer
<1>5. ApplyRtcConfig(p, n) = f[last]
  BY DEF ApplyRtcConfig
<1> HIDE DEF q
<1>6. Sound(e, p.role)
  <2>1. q \in Pages
    BY <1>2 DEF Sound, PageInv
  <2>2. e.config = q.config /\ e.sees = q.sees /\ e.phase = q.phase
    BY <2>1 DEF Pages
  <2>3. PageInv(e) /\ e.role = q.role
    BY <1>2, Emptying DEF Sound
  <2> HIDE DEF e
  <2> QED
    BY <1>2, <2>2, <2>3 DEF Sound, Active
<1> HIDE DEF e
<1>7. \E g : g = [i \in 0..last |-> IF i = 0 THEN e ELSE AcceptRtcSignal(g[i - 1], p.queue[i])]
  <2>1. \E g : Replays(g, e, p.queue, last)
    BY <1>3, ReplayExists
  <2> QED
    BY <2>1 DEF Replays
<1>8. f = [i \in 0..last |-> IF i = 0 THEN e ELSE AcceptRtcSignal(f[i - 1], p.queue[i])]
  BY <1>7
<1> HIDE DEF f
<1>9. Replays(f, e, p.queue, Len(p.queue))
  BY <1>8 DEF Replays
<1>10. Sound(f[last], p.role)
  BY <1>3, <1>4, <1>6, <1>9, ReplaySound
<1> QED
  BY <1>5, <1>10

(* What the connection has been given or has found is more than before,    *)
(* and still all its own.                                                  *)
LEMMA LinkKept ==
    ASSUME NEW p, Linked(p), p.neg # 0, NEW q \in Pages, SameApp(p, q),
           q.answered \in {0, p.neg}, \A c \in q.applied : c.neg = p.neg,
           IsFiniteSet(q.local), q.tasks \subseteq p.tasks,
           q.role = "receiver" => \A i \in 1..Len(q.out) : q.out[i].kind # "offer"
    PROVE  Linked(q)
<1>1. OwnOnly(q)
  BY DEF Linked, OwnOnly, SameApp
<1>2. OwnersOffer(q)
  BY DEF Linked, OwnersOffer, SameApp, SeesAs
<1> QED
  BY <1>1, <1>2 DEF Linked

(* The page after a step of its RtcPeer that the application does not see. *)
Beneath(p, q) == Linked(q) /\ SameApp(p, q)

(* Such a step keeps the invariant.                                        *)
LEMMA BeneathFollows ==
    ASSUME NEW p, NEW q, PageInv(p), Beneath(p, q)
    PROVE  Follows(p, q)
<1>1. PhaseRests(q)
  BY SameAppRests DEF Beneath, PageInv
<1> QED
  BY <1>1 DEF Beneath, Follows, PageInv, Linked, SameApp

(* A task of the page has its connection, and is of its negotiation.       *)
Own(p, t) ==
    /\ t \in AnyTasks /\ t.conn = p.neg /\ t.neg = p.neg /\ p.neg # 0
    /\ \A c \in t.cands : c.neg = p.neg
    /\ p.role = "receiver" => t.kind # "offer"

(* A task ends.                                                            *)
LEMMA EndingTask ==
    ASSUME NEW p, Linked(p), NEW t \in p.tasks
    PROVE  Beneath(p, [p EXCEPT !.tasks = @ \ {t}]) /\ Own(p, t)
<1> DEFINE q == [p EXCEPT !.tasks = p.tasks \ {t}]
<1>1. p \in Pages /\ p.tasks \in SUBSET AnyTasks /\ p.tasks \ {t} \in SUBSET AnyTasks
      /\ p.tasks \ {t} \subseteq p.tasks
  BY DEF Linked, Pages
<1>2. Own(p, t)
  BY <1>1 DEF Own, Linked, OwnOnly, OwnersOffer
<1>3. q \in Pages
  BY <1>1 DEF Pages
<1>4. SameApp(p, q)
  BY <1>1 DEF Pages, SameApp, SeesAs
<1>5. q.answered = p.answered /\ q.applied = p.applied /\ q.local = p.local /\ q.out = p.out
      /\ q.tasks = p.tasks \ {t}
  BY <1>1 DEF Pages
<1> HIDE DEF q
<1>6. q.role = p.role /\ p.neg # 0
  BY <1>2, <1>4 DEF SameApp, SeesAs, Own
<1>7. Linked(q)
  BY <1>1, <1>3, <1>4, <1>5, <1>6, LinkKept DEF Linked, OwnOnly, OwnersOffer
<1> QED
  BY <1>2, <1>4, <1>7 DEF Beneath, q

(* A task goes on to its next step.                                        *)
LEMMA Going ==
    ASSUME NEW p, Linked(p), NEW t, Own(p, t), NEW step \in {"local", "announce", "remote", "apply"}
    PROVE  Beneath(p, Goes(p, t, step))
<1> DEFINE u == [t EXCEPT !.step = step, !.cands = {}]
<1>1. Own(p, u)
  BY DEF Own, AnyTasks
<1> HIDE DEF u
<1> QED
  BY <1>1, Spawning DEF Own, Beneath, Goes, u

(* The application's part stays the same over two steps.                   *)
LEMMA SameAppTwice ==
    ASSUME NEW p, NEW q, NEW r, SameApp(p, q), SameApp(q, r)
    PROVE  SameApp(p, r)
  BY DEF SameApp, SeesAs

(* With it a task stays the page's own.                                    *)
LEMMA StaysOwn ==
    ASSUME NEW p, NEW q, NEW t, SameApp(p, q), Own(p, t)
    PROVE  Own(q, t)
  BY DEF SameApp, SeesAs, Own

(* The local description is set.                                           *)
LEMMA Describing ==
    ASSUME NEW p, Linked(p), NEW t, Own(p, t)
    PROVE  Beneath(p, SetLocalDescription(p, t))
<1> DEFINE q == [p EXCEPT !.described = TRUE]
<1>1. p \in Pages
  BY DEF Linked
<1>2. q \in Pages
  BY <1>1 DEF Pages
<1>3. SameApp(p, q)
  BY <1>1 DEF Pages, SameApp, SeesAs
<1>4. q.answered = p.answered /\ q.applied = p.applied /\ q.local = p.local /\ q.out = p.out
      /\ q.tasks = p.tasks /\ q.role = p.role
  BY <1>1 DEF Pages
<1>5. SetLocalDescription(p, t) = Goes(q, t, "announce")
  BY DEF SetLocalDescription
<1> HIDE DEF q
<1>6. Linked(q)
  BY <1>2, <1>3, <1>4, LinkKept DEF Linked, OwnOnly, OwnersOffer, Own
<1>7. Own(q, t)
  BY <1>3, StaysOwn
<1>8. Beneath(q, Goes(q, t, "announce"))
  BY <1>6, <1>7, Going
<1> QED
  BY <1>3, <1>5, <1>8, SameAppTwice DEF Beneath

(* The description is announced, with the candidates found meanwhile.      *)
LEMMA Announcing ==
    ASSUME NEW p, Linked(p), NEW t, Own(p, t)
    PROVE  Beneath(p, AnnounceLocalDescription(p, t))
<1> DEFINE kind == IF t.kind = "offer" THEN "offer" ELSE "answer"
           found == [i \in 1..Cardinality(p.local) |-> Candidate(t.conn, i)]
           sent == p.out \o <<Signal(kind, t.conn, 0)>> \o found
           q == AnnounceLocalDescription(p, t)
<1>1. p \in Pages /\ p.out \in Seq(AnySignals) /\ p.neg \in Nat \ {0} /\ t.conn = p.neg
      /\ p.role \in {"owner", "receiver"}
  BY DEF Linked, Pages, Own, Ends
<1>2. Cardinality(p.local) \in Nat
  BY FS_CardinalityType DEF Linked, OwnOnly
<1>3. found \in Seq(AnySignals) /\ \A i \in 1..Len(found) : found[i].kind = "candidate"
  <2>1. \A i \in Nat : Candidate(t.conn, i) \in AnySignals /\ Candidate(t.conn, i).kind = "candidate"
    BY <1>1 DEF Candidate, Signal, AnySignals
  <2> QED
    BY <1>2, <2>1
<1>4. <<Signal(kind, t.conn, 0)>> \in Seq(AnySignals)
      /\ (p.role = "receiver" => Signal(kind, t.conn, 0).kind # "offer")
  <2>1. Signal(kind, t.conn, 0) \in AnySignals /\ Signal(kind, t.conn, 0).kind = kind
    BY <1>1 DEF Signal, AnySignals
  <2>2. p.role = "receiver" => kind = "answer"
    BY DEF Own
  <2> QED
    BY <2>1, <2>2
<1>5. q = [p EXCEPT !.negotiating = FALSE, !.announced = TRUE, !.local = {}, !.out = sent]
  BY DEF AnnounceLocalDescription
<1> HIDE DEF found, kind
<1>6. sent \in Seq(AnySignals)
  BY <1>1, <1>3, <1>4
<1>7. p.role = "receiver" => \A i \in 1..Len(sent) : sent[i].kind # "offer"
  <2>1. ASSUME p.role = "receiver", NEW i \in 1..Len(sent)
        PROVE  sent[i].kind # "offer"
    <3>1. \A j \in 1..Len(p.out) : p.out[j].kind # "offer"
      BY <2>1 DEF Linked, OwnersOffer
    <3> QED
      BY <1>1, <1>3, <1>4, <2>1, <3>1
  <2> QED
    BY <2>1
<1> HIDE DEF sent, q
<1>8. q \in Pages
  BY <1>1, <1>5, <1>6 DEF Pages
<1>9. SameApp(p, q)
  BY <1>1, <1>5 DEF Pages, SameApp, SeesAs
<1>10. q.answered = p.answered /\ q.applied = p.applied /\ q.local = {} /\ q.out = sent
       /\ q.tasks = p.tasks /\ q.role = p.role
  BY <1>1, <1>5 DEF Pages
<1>11. Linked(q)
  BY <1>1, <1>7, <1>8, <1>9, <1>10, FS_EmptySet, LinkKept DEF Linked, OwnOnly
<1> QED
  BY <1>9, <1>11 DEF Beneath, q

(* Candidates are given to the connection.                                 *)
LEMMA Applying ==
    ASSUME NEW p, Linked(p), NEW t, Own(p, t)
    PROVE  Beneath(p, ApplyCandidates(p, t))
<1> DEFINE q == [p EXCEPT !.applied = p.applied \cup t.cands]
<1>1. p \in Pages /\ p.applied \cup t.cands \in SUBSET AnySignals
  BY DEF Linked, Pages, Own, AnyTasks
<1>2. q \in Pages
  BY <1>1 DEF Pages
<1>3. SameApp(p, q)
  BY <1>1 DEF Pages, SameApp, SeesAs
<1>4. q.answered = p.answered /\ q.applied = p.applied \cup t.cands /\ q.local = p.local
      /\ q.out = p.out /\ q.tasks = p.tasks /\ q.role = p.role
  BY <1>1 DEF Pages
<1>5. ApplyCandidates(p, t) = IF t.kind = "accept" THEN Goes(q, t, "local") ELSE q
  BY DEF ApplyCandidates
<1> HIDE DEF q
<1>6. Linked(q)
  <2>1. \A c \in q.applied : c.neg = p.neg
    BY <1>4 DEF Linked, OwnOnly, Own
  <2> QED
    BY <1>2, <1>3, <1>4, <2>1, LinkKept DEF Linked, OwnOnly, OwnersOffer, Own
<1>7. Own(q, t)
  BY <1>3, StaysOwn
<1>8. Beneath(q, Goes(q, t, "local"))
  BY <1>6, <1>7, Going
<1> QED
  BY <1>3, <1>5, <1>6, <1>8, SameAppTwice DEF Beneath

(* The remote description is set, and what has waited for it is given to   *)
(* the connection if it is of its negotiation.                             *)
LEMMA Remoting ==
    ASSUME NEW p, Linked(p), NEW t, Own(p, t)
    PROVE  Beneath(p, SetRemoteDescription(p, t))
<1> DEFINE taken == {c \in p.remote : c.neg = t.neg}
           q == [p EXCEPT !.answered = t.neg, !.pending = FALSE, !.set = TRUE, !.remote = {}]
           u == [t EXCEPT !.step = "apply", !.cands = taken]
<1>1. p \in Pages /\ t.neg = p.neg /\ p.neg \in Nat /\ p.neg # 0
  BY DEF Linked, Pages, Own
<1>2. q \in Pages
  BY <1>1 DEF Pages
<1>3. SameApp(p, q)
  BY <1>1 DEF Pages, SameApp, SeesAs
<1>4. q.answered = p.neg /\ q.applied = p.applied /\ q.local = p.local /\ q.out = p.out
      /\ q.tasks = p.tasks /\ q.role = p.role
  BY <1>1 DEF Pages
<1>5. SetRemoteDescription(p, t) = IF taken = {} THEN ApplyCandidates(q, t) ELSE Spawn(q, u)
  BY DEF SetRemoteDescription
<1>6. taken \in SUBSET AnySignals /\ \A c \in taken : c.neg = p.neg
  BY <1>1 DEF Pages
<1> HIDE DEF q, taken
<1>7. Linked(q)
  BY <1>1, <1>2, <1>3, <1>4, LinkKept DEF Linked, OwnOnly, OwnersOffer
<1>8. Own(q, t)
  BY <1>3, StaysOwn
<1>9. Own(q, u)
  BY <1>1, <1>3, <1>6, <1>8 DEF Own, AnyTasks, SameApp
<1> HIDE DEF u
<1>10. Beneath(q, Spawn(q, u))
  BY <1>7, <1>9, Spawning DEF Own, Beneath
<1>11. Beneath(q, ApplyCandidates(q, t))
  BY <1>7, <1>8, Applying
<1> QED
  BY <1>3, <1>5, <1>10, <1>11, SameAppTwice DEF Beneath

(* A promise settles.                                                      *)
LEMMA Stepping ==
    ASSUME NEW p, PageInv(p), NEW t \in p.tasks
    PROVE  Follows(p, StepTask(p, t))
<1> DEFINE q == [p EXCEPT !.tasks = @ \ {t}]
<1>1. Beneath(p, q) /\ Own(p, t)
  BY EndingTask DEF PageInv, Linked
<1>2. \/ StepTask(p, t) = q \/ StepTask(p, t) = SetLocalDescription(q, t)
      \/ StepTask(p, t) = AnnounceLocalDescription(q, t)
      \/ StepTask(p, t) = SetRemoteDescription(q, t) \/ StepTask(p, t) = ApplyCandidates(q, t)
  BY DEF StepTask
<1> HIDE DEF q
<1>3. Linked(q) /\ Own(q, t)
  BY <1>1, StaysOwn DEF Beneath
<1>4. \/ StepTask(p, t) = q \/ Beneath(q, StepTask(p, t))
  BY <1>2, <1>3, Describing, Announcing, Remoting, Applying
<1>5. Beneath(p, StepTask(p, t))
  BY <1>1, <1>4, SameAppTwice DEF Beneath
<1> QED
  BY <1>5, BeneathFollows

(* A promise is rejected.                                                  *)
LEMMA Failing ==
    ASSUME NEW p, PageInv(p), NEW t \in p.tasks
    PROVE  Follows(p, FailTask(p, t))
<1> DEFINE q == [p EXCEPT !.tasks = @ \ {t}]
           o == [q EXCEPT !.negotiating = FALSE]
           a == [q EXCEPT !.pending = FALSE]
<1>1. Beneath(p, q) /\ Own(p, t)
  BY EndingTask DEF PageInv, Linked
<1>2. Follows(p, q) /\ t.neg \in Nat /\ q \in Pages
  BY <1>1, BeneathFollows DEF Own, AnyTasks, Follows, PageInv
<1>3. \/ FailTask(p, t) = q \/ FailTask(p, t) = o \/ FailTask(p, t) = Drop(a, t.neg)
  BY DEF FailTask
<1> HIDE DEF q
<1>4. o \in Pages /\ SameCore(q, o) /\ SeesAs(q, o) /\ o.out = q.out
  BY <1>2 DEF Pages, SameCore, SeesAs
<1>5. a \in Pages /\ SameCore(q, a) /\ SeesAs(q, a) /\ a.out = q.out
  BY <1>2 DEF Pages, SameCore, SeesAs
<1> HIDE DEF o, a
<1>6. PageInv(o) /\ PageInv(a)
  BY <1>2, <1>4, <1>5, CoreKept DEF Follows, SeesAs, PageInv, OwnersOffer
<1>7. Follows(a, Drop(a, t.neg))
  BY <1>2, <1>6, Dropping
<1>8. Follows(p, o) /\ Follows(p, Drop(a, t.neg))
  BY <1>2, <1>4, <1>5, <1>6, <1>7 DEF Follows, SeesAs, SameCore
<1> QED
  BY <1>2, <1>3, <1>8

(* The browser has found a candidate.                                      *)
LEMMA Gathering ==
    ASSUME NEW p, PageInv(p), p.described
    PROVE  Follows(p, QueueOrEmitLocalCandidate(p))
<1> DEFINE k == p.found + 1
           q == [p EXCEPT !.found = k]
           sent == Append(p.out, Candidate(p.neg, k))
           e == [p EXCEPT !.found = k, !.out = sent]
           w == [p EXCEPT !.found = k, !.local = p.local \cup {k}]
<1>1. p \in Pages /\ Linked(p) /\ p.neg \in Nat /\ p.neg # 0 /\ k \in Nat
      /\ p.out \in Seq(AnySignals) /\ p.local \in SUBSET Nat /\ IsFiniteSet(p.local)
  BY DEF PageInv, Linked, Pages, OwnOnly
<1>2. Candidate(p.neg, k) \in AnySignals /\ Candidate(p.neg, k).kind = "candidate"
  BY <1>1 DEF Candidate, Signal, AnySignals
<1>3. sent \in Seq(AnySignals)
      /\ (p.role = "receiver" => \A i \in 1..Len(sent) : sent[i].kind # "offer")
  BY <1>1, <1>2 DEF PageInv, OwnersOffer
<1>4. IsFiniteSet(p.local \cup {k}) /\ p.local \cup {k} \in SUBSET Nat
  BY <1>1, FS_AddElement
<1> HIDE DEF sent
<1>5. \/ QueueOrEmitLocalCandidate(p) = e \/ QueueOrEmitLocalCandidate(p) = w
      \/ QueueOrEmitLocalCandidate(p) = Drop(q, p.neg)
  <2>1. [q EXCEPT !.out = Append(@, Candidate(p.neg, k))] = e
    BY <1>1 DEF Pages, sent
  <2>2. [q EXCEPT !.local = @ \cup {k}] = w
    BY <1>1 DEF Pages
  <2> HIDE DEF e, w
  <2> QED
    BY <2>1, <2>2 DEF QueueOrEmitLocalCandidate
<1>6. Follows(p, q)
  <2>1. q \in Pages /\ SameCore(p, q) /\ SeesAs(p, q) /\ q.out = p.out
    BY <1>1 DEF Pages, SameCore, SeesAs
  <2> HIDE DEF q
  <2>2. PageInv(q)
    BY <2>1, CoreKept DEF SeesAs, PageInv, OwnersOffer
  <2> QED
    BY <2>1, <2>2 DEF Follows, SameCore
<1>7. Follows(p, e)
  <2>1. e \in Pages /\ SameCore(p, e) /\ SeesAs(p, e) /\ e.out = sent
    BY <1>1, <1>3 DEF Pages, SameCore, SeesAs
  <2> HIDE DEF e
  <2>2. PageInv(e)
    BY <1>3, <2>1, CoreKept DEF SeesAs, PageInv, OwnersOffer
  <2> QED
    BY <2>1, <2>2 DEF Follows, SameCore
<1>8. Follows(p, w)
  <2>1. w \in Pages
    BY <1>1, <1>4 DEF Pages
  <2>2. SameApp(p, w)
    BY <1>1 DEF Pages, SameApp, SeesAs
  <2>3. w.answered = p.answered /\ w.applied = p.applied /\ w.local = p.local \cup {k}
        /\ w.out = p.out /\ w.tasks = p.tasks /\ w.role = p.role
    BY <1>1 DEF Pages
  <2> HIDE DEF w
  <2>4. Linked(w)
    BY <1>1, <1>4, <2>1, <2>2, <2>3, LinkKept DEF Linked, OwnOnly, OwnersOffer
  <2> QED
    BY <2>2, <2>4, BeneathFollows DEF Beneath
<1> HIDE DEF q, e, w
<1>9. Follows(q, Drop(q, p.neg))
  BY <1>1, <1>6, Dropping DEF Follows
<1>10. Follows(p, Drop(q, p.neg))
  BY <1>6, <1>9 DEF Follows, SeesAs
<1> QED
  BY <1>5, <1>7, <1>8, <1>10

----------------------------------------------------------------------------
(* The connection's state changes.                                         *)

(* A step to a phase other than waiting.                                   *)
Onward(p, q) == PageInv(q) /\ SeesAs(p, q) /\ q.phase # "waiting"

(* The connection has come to its end.                                     *)
LEMMA ConnectionEnds ==
    ASSUME NEW p, Linked(p)
    PROVE  Onward(p, ConnectionEnded(p))
<1> DEFINE i == InvalidateWork(p)
           q == Resume([i EXCEPT !.phase = "disconnected"])
           restart == Timer(<<"restart", 0>>)
           o == [q EXCEPT !.timers = q.timers \cup {restart}]
           b == BeginPassiveDeadline(q)
<1>1. Linked(i) /\ SameLink(p, i) /\ i \in Pages
  BY Invalidating DEF Linked
<1>2. ConnectionEnded(p) = IF p.role = "owner" THEN o ELSE b
  BY DEF ConnectionEnded
<1> HIDE DEF i
<1>3. q = [i EXCEPT !.phase = "disconnected", !.paused = FALSE]
  BY <1>1 DEF Resume, Pages
<1>4. Phased(i, q, "disconnected")
  BY <1>1, <1>3, Phasing DEF Phases
<1> HIDE DEF q
<1>5. Linked(q) /\ SameLink(p, q) /\ q.phase = "disconnected" /\ q \in Pages
  BY <1>1, <1>4 DEF Phased, SameLink, SeesAs, Linked
<1>6. CASE p.role = "owner"
  <2>1. restart \in Timers /\ restart.work[1] = "restart"
    BY DEF Timer, Timers, Works
  <2> HIDE DEF restart
  <2>2. q.timers \cup {restart} \in SUBSET Timers
    BY <1>5, <2>1 DEF Pages
  <2>3. o \in Pages
    BY <1>5, <2>2 DEF Pages
  <2>4. SameLink(q, o) /\ o.timers = q.timers \cup {restart} /\ o.phase = q.phase /\ o.work = q.work
    BY <1>5 DEF Pages, SameLink, SeesAs
  <2> HIDE DEF o
  <2>5. OwnOnly(o)
    BY <1>5, <2>4, SameOwn DEF Linked
  <2>6. o.role = "owner" /\ SeesAs(p, o)
    BY <1>5, <1>6, <2>4 DEF SameLink, SeesAs
  <2>7. OwnersOffer(o)
    BY <1>5, <2>4, <2>6 DEF Linked, OwnersOffer, SameLink, SeesAs
  <2>8. PhaseRests(o)
    BY <1>5, <2>1, <2>4 DEF PhaseRests, Restarting
  <2> QED
    BY <1>2, <1>5, <1>6, <2>3, <2>4, <2>5, <2>6, <2>7, <2>8 DEF Onward, PageInv
<1>7. CASE p.role # "owner"
  <2>1. PageInv(b) /\ SeesAs(q, b) /\ b.phase = "connecting"
    BY <1>5, Marking
  <2> HIDE DEF b
  <2> QED
    BY <1>2, <1>5, <1>7, <2>1 DEF Onward, SameLink, SeesAs
<1> QED
  BY <1>6, <1>7

(* A phase that rests on a connection under way.                           *)
LEMMA PhasedLively ==
    ASSUME NEW p, NEW q, NEW phase \in {"connecting", "disconnected"},
           Lively(p), Phased(p, q, phase)
    PROVE  Onward(p, q)
<1>1. Lively(q) /\ q.phase = phase
  BY DEF Lively, Phased, SameLink
<1>2. PhaseRests(q)
  BY <1>1 DEF PhaseRests
<1> QED
  BY <1>1, <1>2 DEF Onward, PageInv, Phased, Linked, SameLink

(* The application takes the new state.                                    *)
LEMMA Reducing ==
    ASSUME NEW p, Linked(p), NEW state \in {"connecting", "connected", "disconnected", "failed", "closed"},
           state \in {"connecting", "connected", "disconnected"} => p.state = state,
           state # "closed" /\ p.phase = "ready" => p.chan = "open"
    PROVE  /\ Onward(p, ReduceConnectionState(p, state))
           /\ state = "connected" => ReduceConnectionState(p, state).chan = p.chan
<1> DEFINE r == ReduceConnectionState(p, state)
<1>1. CASE p.role = "receiver" /\ p.phase = "failed"
  BY <1>1 DEF ReduceConnectionState, Onward, SeesAs, PageInv, Linked, PhaseRests
<1>2. CASE ~(p.role = "receiver" /\ p.phase = "failed") /\ state \in {"failed", "closed"}
  BY <1>2, ConnectionEnds DEF ReduceConnectionState
<1>3. CASE ~(p.role = "receiver" /\ p.phase = "failed") /\ state = "disconnected"
  <2> DEFINE g == <<"grace", 0>>
             a == ArmWork(p, g)
             d == [a EXCEPT !.phase = "disconnected"]
             e == [p EXCEPT !.phase = "disconnected"]
  <2>1. g \in Works /\ g[1] = "grace"
    BY DEF Works
  <2>2. Linked(a) /\ SameLink(p, a)
    BY <2>1, Arming
  <2>3. r = IF p.work = NoWork THEN d ELSE e
    BY <1>3 DEF ReduceConnectionState
  <2>4. Lively(p)
    BY <1>3 DEF Lively
  <2> HIDE DEF a
  <2>5. Lively(a)
    BY <2>2, <2>4 DEF Lively, SameLink
  <2>6. Onward(a, d)
    BY <2>2, <2>5, Phasing, PhasedLively DEF Phases
  <2>7. Onward(p, e)
    BY <2>4, Phasing, PhasedLively DEF Phases
  <2> HIDE DEF d, e, r
  <2>8. Onward(p, d)
    BY <2>2, <2>6 DEF Onward, SameLink, SeesAs
  <2>9. Onward(p, r)
    BY <2>3, <2>7, <2>8
  <2> QED
    BY <1>3, <2>9 DEF r
<1>4. CASE ~(p.role = "receiver" /\ p.phase = "failed") /\ state \in {"connecting", "connected"}
  <2> DEFINE e == [p EXCEPT !.phase = "connecting"]
  <2>1. r = IF p.phase = "ready" THEN p ELSE e
    BY <1>4 DEF ReduceConnectionState
  <2>2. Lively(p)
    BY <1>4 DEF Lively
  <2>3. Phased(p, e, "connecting")
    BY Phasing DEF Phases
  <2> HIDE DEF e
  <2>4. Onward(p, e) /\ e.chan = p.chan
    BY <2>2, <2>3, PhasedLively DEF Phased, SameLink
  <2>5. p.phase = "ready" => Onward(p, p)
    BY <1>4 DEF Onward, PageInv, Linked, PhaseRests, SeesAs
  <2> HIDE DEF r
  <2>6. Onward(p, r) /\ r.chan = p.chan
    BY <2>1, <2>4, <2>5
  <2> QED
    BY <2>6 DEF r
<1> QED
  BY <1>1, <1>2, <1>3, <1>4

(* And knows when the channel is open.                                     *)
LEMMA Handling ==
    ASSUME NEW p, Linked(p), NEW state \in {"connecting", "connected", "disconnected", "failed", "closed"},
           state \in {"connecting", "connected", "disconnected"} => p.state = state,
           state # "closed" /\ p.phase = "ready" => p.chan = "open"
    PROVE  Onward(p, HandleConnectionState(p, state))
<1> DEFINE q == ReduceConnectionState(p, state)
<1>1. Onward(p, q) /\ (state = "connected" => q.chan = p.chan)
  BY Reducing
<1>2. HandleConnectionState(p, state)
        = IF state = "connected" /\ p.chan = "open" THEN MarkReady(q) ELSE q
  BY DEF HandleConnectionState
<1> HIDE DEF q
<1>3. Linked(q)
  BY <1>1 DEF Onward, PageInv, Linked
<1>4. q.chan = "open" =>
        PageInv(MarkReady(q)) /\ SeesAs(q, MarkReady(q)) /\ MarkReady(q).phase = "ready"
  BY <1>3, Marking
<1>5. q.chan = "open" => Onward(p, MarkReady(q))
  BY <1>1, <1>4 DEF Onward, SeesAs
<1> QED
  BY <1>1, <1>2, <1>5

(* A page whose connection or channel has changed as the browser says.     *)
LEMMA Changing ==
    ASSUME NEW p, PageInv(p)
    PROVE  /\ \A state \in {"connecting", "connected", "disconnected", "failed"} :
                Onward(p, HandleConnectionState([p EXCEPT !.state = state], state))
           /\ Onward(p, HandleConnectionState([p EXCEPT !.chan = "closed"], "closed"))
           /\ Onward(p, MarkReady([p EXCEPT !.chan = "open"]))
<1>1. p \in Pages /\ Linked(p)
  BY DEF PageInv, Linked
<1>2. ASSUME NEW q \in Pages, SeesAs(p, q), q.phase = p.phase, q.work = p.work,
             q.timers = p.timers, q.neg = p.neg, q.tasks = p.tasks, q.out = p.out,
             q.set = p.set, q.announced = p.announced, q.described = p.described,
             q.answered = p.answered, q.applied = p.applied, q.local = p.local
      PROVE  Linked(q)
  <2>1. OwnOnly(q)
    BY <1>1, <1>2 DEF Linked, OwnOnly
  <2>2. OwnersOffer(q)
    BY <1>1, <1>2 DEF Linked, OwnersOffer, SeesAs
  <2> QED
    BY <1>2, <2>1, <2>2 DEF Linked
<1>3. ASSUME NEW state \in {"connecting", "connected", "disconnected", "failed"}
      PROVE  Onward(p, HandleConnectionState([p EXCEPT !.state = state], state))
  <2> DEFINE q == [p EXCEPT !.state = state]
  <2>1. /\ q \in Pages /\ SeesAs(p, q) /\ q.phase = p.phase /\ q.work = p.work
        /\ q.timers = p.timers /\ q.neg = p.neg /\ q.tasks = p.tasks /\ q.out = p.out
    BY <1>1 DEF Pages, SeesAs
  <2>2. /\ q.set = p.set /\ q.announced = p.announced /\ q.described = p.described
        /\ q.answered = p.answered /\ q.applied = p.applied /\ q.local = p.local
        /\ q.state = state /\ q.chan = p.chan
    BY <1>1 DEF Pages
  <2> HIDE DEF q
  <2>3. Linked(q)
    BY <1>2, <2>1, <2>2
  <2>4. q.phase = "ready" => q.chan = "open"
    BY <2>1, <2>2 DEF PageInv, PhaseRests
  <2>5. Onward(q, HandleConnectionState(q, state))
    BY <2>2, <2>3, <2>4, Handling
  <2> QED
    BY <2>1, <2>5 DEF Onward, SeesAs, q
<1>4. Onward(p, HandleConnectionState([p EXCEPT !.chan = "closed"], "closed"))
  <2> DEFINE q == [p EXCEPT !.chan = "closed"]
  <2>1. /\ q \in Pages /\ SeesAs(p, q) /\ q.phase = p.phase /\ q.work = p.work
        /\ q.timers = p.timers /\ q.neg = p.neg /\ q.tasks = p.tasks /\ q.out = p.out
    BY <1>1 DEF Pages, SeesAs
  <2>2. /\ q.set = p.set /\ q.announced = p.announced /\ q.described = p.described
        /\ q.answered = p.answered /\ q.applied = p.applied /\ q.local = p.local
    BY <1>1 DEF Pages
  <2> HIDE DEF q
  <2>3. Linked(q)
    BY <1>2, <2>1, <2>2
  <2>4. Onward(q, HandleConnectionState(q, "closed"))
    BY <2>3, Handling
  <2> QED
    BY <2>1, <2>4 DEF Onward, SeesAs, q
<1>5. Onward(p, MarkReady([p EXCEPT !.chan = "open"]))
  <2> DEFINE q == [p EXCEPT !.chan = "open"]
  <2>1. /\ q \in Pages /\ SeesAs(p, q) /\ q.phase = p.phase /\ q.work = p.work
        /\ q.timers = p.timers /\ q.neg = p.neg /\ q.tasks = p.tasks /\ q.out = p.out
    BY <1>1 DEF Pages, SeesAs
  <2>2. /\ q.set = p.set /\ q.announced = p.announced /\ q.described = p.described
        /\ q.answered = p.answered /\ q.applied = p.applied /\ q.local = p.local
        /\ q.chan = "open"
    BY <1>1 DEF Pages
  <2> HIDE DEF q
  <2>3. Linked(q)
    BY <1>2, <2>1, <2>2
  <2>4. PageInv(MarkReady(q)) /\ SeesAs(q, MarkReady(q)) /\ MarkReady(q).phase = "ready"
    BY <2>2, <2>3, Marking
  <2> QED
    BY <2>1, <2>4 DEF Onward, SeesAs, q
<1> QED
  BY <1>3, <1>4, <1>5

(* A step to a phase other than waiting keeps what there was to keep.      *)
LEMMA OnwardSound ==
    ASSUME NEW p, NEW q, Onward(p, q)
    PROVE  Sound(q, p.role)
  BY DEF Onward, Sound, Active, SeesAs

----------------------------------------------------------------------------
(* Timers, and what they start.                                            *)

(* The owner closes its connection and offers anew.                        *)
LEMMA OfferingAnew ==
    ASSUME NEW p, Linked(p), p.role = "owner", NEW n \in Nat \ {0},
           NEW attempt \in 0..RetryDelays, NEW failure \in BOOLEAN
    PROVE  Sound(StartOwnerOfferAttempt(PrepareReconnect(p), n, attempt, failure), "owner")
<1> DEFINE c == PrepareReconnect(p)
           q == StartOwnerOfferAttempt(c, n, attempt, failure)
<1>1. Linked(c) /\ c.role = "owner" /\ c.neg = 0
  BY Reconnecting DEF Renewed, SeesAs
<1> HIDE DEF c
<1>2. \/ c.neg # 0 /\ q = c
      \/ PageInv(q) /\ q.role = "owner" /\ q.phase # "waiting"
  BY <1>1, Attempting
<1> HIDE DEF q
<1>3. Sound(q, "owner")
  BY <1>1, <1>2 DEF Sound, Active
<1> QED
  BY <1>3 DEF q, c

(* A timer has gone off: it is not waited for any more.                    *)
LEMMA TimerGone ==
    ASSUME NEW p, PageInv(p), NEW t \in p.timers
    PROVE  LET q == [p EXCEPT !.timers = @ \ {t}]
           IN  /\ Linked(q) /\ SameLink(p, q) /\ q.phase = p.phase /\ q.work = p.work
               /\ q.timers = p.timers \ {t}
<1> DEFINE q == [p EXCEPT !.timers = p.timers \ {t}]
<1>1. p \in Pages /\ Linked(p) /\ p.timers \ {t} \in SUBSET Timers
  BY DEF PageInv, Linked, Pages
<1>2. q \in Pages
  BY <1>1 DEF Pages
<1>3. SameLink(p, q) /\ q.timers = p.timers \ {t} /\ q.phase = p.phase /\ q.work = p.work
  BY <1>1 DEF Pages, SameLink, SeesAs
<1> HIDE DEF q
<1>4. OwnOnly(q)
  BY <1>1, <1>3, SameOwn DEF Linked
<1>5. OwnersOffer(q)
  BY <1>1, <1>3 DEF Linked, OwnersOffer, SameLink, SeesAs
<1> QED
  BY <1>2, <1>3, <1>4, <1>5 DEF Linked, q

(* The work whose deadline has passed goes on or gives up.                 *)
LEMMA WorkIsDue ==
    ASSUME NEW p, PageInv(p), Active(p), NEW t \in p.timers, WorkIsCurrent(p, t),
           p.chan # "open", t.work[1] # "restart", NEW n \in Nat \ {0}
    PROVE  Sound(WorkDue([p EXCEPT !.timers = @ \ {t}], t, n), p.role)
<1> DEFINE q == [p EXCEPT !.timers = @ \ {t}]
<1>1. Linked(q) /\ SameLink(p, q) /\ q.phase = p.phase /\ q.work = p.work
  BY TimerGone
<1>2. t.work \in Works /\ p.work = t.work /\ p.role \in {"owner", "receiver"}
  BY DEF WorkIsCurrent, PageInv, Pages, Timers, Ends
<1>3. t.work[1] \in {"offer", "retry"} =>
        t.work[2] \in 0..RetryDelays /\ p.role = "owner"
  BY <1>2 DEF Works, NoWork, PageInv, OwnersOffer
<1> SUFFICES Sound(WorkDue(q, t, n), p.role)
  OBVIOUS
<1> HIDE DEF q
<1>4. q.role = p.role /\ q.chan = p.chan /\ q \in Pages
  BY <1>1 DEF SameLink, SeesAs, Linked
<1>5. Sound(MarkFailed(q), p.role)
  BY <1>1, <1>4, Marking DEF Sound, Active, SeesAs
<1>6. CASE t.work[1] = "offer"
  <2> DEFINE a == ArmWork(q, <<"retry", t.work[2] + 1>>)
  <2>1. WorkDue(q, t, n) = IF t.work[2] < RetryDelays THEN a ELSE MarkFailed(q)
    BY <1>6 DEF WorkDue
  <2>2. ASSUME t.work[2] < RetryDelays
        PROVE  Sound(a, p.role)
    <3>1. <<"retry", t.work[2] + 1>> \in Works /\ <<"retry", t.work[2] + 1>>[1] = "retry"
      BY <1>3, <1>6, <2>2, RtcAssumption DEF Works
    <3>2. Linked(a) /\ SameLink(q, a) /\ Armed(a) /\ a.phase = q.phase
      BY <1>1, <1>3, <1>4, <1>6, <3>1, Arming
    <3> HIDE DEF a
    <3>3. a.phase # "ready" /\ (a.phase = "waiting" => a.neg = 0)
      BY <1>1, <3>2 DEF PageInv, PhaseRests, SameLink
    <3>4. PageInv(a)
      BY <3>2, <3>3 DEF PageInv, Linked, PhaseRests
    <3> QED
      BY <1>1, <3>2, <3>4 DEF Sound, Active, SameLink, SeesAs
  <2> QED
    BY <1>5, <2>1, <2>2
<1>7. CASE t.work[1] = "retry"
  <2> DEFINE w == [q EXCEPT !.work = NoWork]
  <2>1. NoWork \in Works /\ NoWork[1] = "none"
    BY DEF NoWork, Works
  <2>2. w \in Pages /\ SameLink(q, w) /\ w.timers = q.timers /\ w.work = NoWork
    BY <1>4, <2>1 DEF Pages, SameLink, SeesAs
  <2>3. WorkDue(q, t, n) = StartOwnerOfferAttempt(PrepareReconnect(w), n, t.work[2], TRUE)
    BY <1>7 DEF WorkDue
  <2> HIDE DEF w
  <2>4. OwnOnly(w)
    BY <1>1, <2>2, SameOwn DEF Linked
  <2>5. OwnersOffer(w)
    BY <1>1, <2>1, <2>2 DEF Linked, OwnersOffer, SameLink, SeesAs
  <2>6. Linked(w) /\ w.role = "owner"
    BY <1>3, <1>4, <1>7, <2>2, <2>4, <2>5 DEF Linked, SameLink, SeesAs
  <2> QED
    BY <1>3, <1>7, <2>3, <2>6, OfferingAnew
<1>8. CASE t.work[1] = "grace"
  <2> DEFINE i == InvalidateWork(q)
  <2>1. Linked(i) /\ i.role = p.role
    BY <1>1, <1>4, Invalidating DEF SameLink, SeesAs
  <2>2. WorkDue(q, t, n) = IF q.role = "owner"
            THEN StartOwnerOfferAttempt(PrepareReconnect(i), n, 0, FALSE) ELSE BeginPassiveDeadline(i)
    BY <1>8 DEF WorkDue, StartRtcOffer
  <2> HIDE DEF i
  <2>3. Sound(BeginPassiveDeadline(i), p.role)
    BY <2>1, Marking DEF Sound, Active, SeesAs
  <2>4. 0 \in 0..RetryDelays
    BY RtcAssumption
  <2>5. p.role = "owner" => Sound(StartOwnerOfferAttempt(PrepareReconnect(i), n, 0, FALSE), p.role)
    BY <2>1, <2>4, OfferingAnew
  <2> QED
    BY <1>4, <2>2, <2>3, <2>5
<1>9. CASE t.work[1] \notin {"offer", "retry", "grace"}
  BY <1>5, <1>9 DEF WorkDue
<1> QED
  BY <1>6, <1>7, <1>8, <1>9

(* A timer that was not waited for leaves the others.                      *)
LEMMA Unheeded ==
    ASSUME NEW p, PageInv(p), Active(p), NEW t \in p.timers, ~WorkIsCurrent(p, t),
           t.work[1] # "restart" \/ p.phase # "disconnected"
    PROVE  Sound([p EXCEPT !.timers = @ \ {t}], p.role)
<1> DEFINE q == [p EXCEPT !.timers = @ \ {t}]
<1>1. /\ Linked(q) /\ SameLink(p, q) /\ q.phase = p.phase /\ q.work = p.work
      /\ q.timers = p.timers \ {t}
  BY TimerGone
<1> HIDE DEF q
<1>2. Armed(p) => Armed(q)
  BY <1>1 DEF Armed, WorkIsCurrent
<1>3. Restarting(p) => Restarting(q) \/ p.phase # "disconnected"
  BY <1>1 DEF Restarting
<1>4. Lively(p) => Lively(q)
  BY <1>1 DEF Lively, SameLink
<1>5. PhaseRests(q)
  BY <1>1, <1>2, <1>3, <1>4 DEF PhaseRests, PageInv, SameLink
<1> QED
  BY <1>1, <1>5 DEF Sound, PageInv, Linked, Active, SameLink, SeesAs, q

(* A timer goes off.                                                       *)
LEMMA Firing ==
    ASSUME NEW p, PageInv(p), Active(p), NEW t \in p.timers, NEW n \in Nat \ {0}
    PROVE  Sound(FireTimer(p, t, n), p.role)
<1> DEFINE q == [p EXCEPT !.timers = @ \ {t}]
<1>1. Linked(q) /\ SameLink(p, q) /\ q.phase = p.phase
  BY TimerGone
<1>2. q.role = p.role /\ q.chan = p.chan
  BY <1>1 DEF SameLink, SeesAs
<1>3. CASE t.work[1] = "restart"
  <2>1. p.role = "owner" /\ ~WorkIsCurrent(p, t)
    BY <1>3 DEF PageInv, OwnersOffer, WorkIsCurrent, Pages, Ends
  <2>2. FireTimer(p, t, n) = IF q.phase \in {"connecting", "ready"} THEN q
            ELSE StartOwnerOfferAttempt(PrepareReconnect(q), n, 0, FALSE)
    BY <1>3 DEF FireTimer, RestartOffer, StartRtcOffer
  <2>3. CASE q.phase \in {"connecting", "ready"}
    BY <1>1, <2>1, <2>2, <2>3, Unheeded
  <2>4. CASE q.phase \notin {"connecting", "ready"}
    <3> HIDE DEF q
    <3>1. 0 \in 0..RetryDelays
      BY RtcAssumption
    <3> QED
      BY <1>1, <1>2, <2>1, <2>2, <2>4, <3>1, OfferingAnew
  <2> QED
    BY <2>3, <2>4
<1>4. CASE t.work[1] # "restart" /\ p.chan = "open"
  <2>1. FireTimer(p, t, n) = MarkReady(q)
    BY <1>4 DEF FireTimer
  <2> HIDE DEF q
  <2>2. PageInv(MarkReady(q)) /\ SeesAs(q, MarkReady(q)) /\ MarkReady(q).phase = "ready"
    BY <1>1, <1>2, <1>4, Marking
  <2> QED
    BY <1>2, <2>1, <2>2 DEF Sound, Active, SeesAs
<1>5. CASE t.work[1] # "restart" /\ p.chan # "open" /\ WorkIsCurrent(p, t)
  <2>1. FireTimer(p, t, n) = WorkDue(q, t, n)
    BY <1>5 DEF FireTimer
  <2> QED
    BY <1>5, <2>1, WorkIsDue
<1>6. CASE t.work[1] # "restart" /\ p.chan # "open" /\ ~WorkIsCurrent(p, t)
  <2>1. FireTimer(p, t, n) = q
    BY <1>6 DEF FireTimer
  <2> QED
    BY <1>6, <2>1, Unheeded
<1> QED
  BY <1>3, <1>4, <1>5, <1>6

----------------------------------------------------------------------------
(* The two pages and what is between them.                                 *)

NetMessages == AnySignals \cup {Presence("online"), Presence("offline")}
NoOffer(messages) == \A i \in 1..Len(messages) : messages[i].kind # "offer"
Nets == {nets \in [Ends -> Seq(NetMessages)] : NoOffer(nets["owner"])}

SignalingInv ==
    /\ page = [e \in Ends |-> page[e]] /\ \A e \in Ends : Sound(page[e], e)
    /\ net \in Nets
    /\ negs \in Nat
    /\ up \in [Ends -> BOOLEAN]

(* The negotiations signals are about are numbers.                         *)
LEMMA NegsAreNumbers ==
    ASSUME NEW messages \in Seq(NetMessages)
    PROVE  NegsOf(messages) \in SUBSET Nat
<1>1. \A i \in DOMAIN messages : messages[i].neg \in Nat
  <2>1. \A s \in NetMessages : s.neg \in Nat
    BY DEF NetMessages, AnySignals, Presence, Signal
  <2>2. \A i \in DOMAIN messages : messages[i] \in NetMessages
    OBVIOUS
  <2> QED
    BY <2>1, <2>2
<1> QED
  BY <1>1 DEF NegsOf

(* What is sent is added to what there is.                                 *)
LEMMA Sending ==
    ASSUME NEW nets \in Nets, NEW e \in Ends, NEW sent \in Seq(NetMessages),
           e = "receiver" => NoOffer(sent)
    PROVE  [nets EXCEPT ![Other(e)] = @ \o sent] \in Nets
<1> DEFINE q == [nets EXCEPT ![Other(e)] = nets[Other(e)] \o sent]
<1>1. nets \in [Ends -> Seq(NetMessages)] /\ NoOffer(nets["owner"]) /\ "owner" \in Ends
      /\ Other(e) \in Ends
  BY DEF Nets, Ends, Other
<1>2. nets[Other(e)] \in Seq(NetMessages)
  BY <1>1
<1>3. nets[Other(e)] \o sent \in Seq(NetMessages)
  BY <1>2
<1>4. q \in [Ends -> Seq(NetMessages)]
  BY <1>1, <1>3
<1>5. CASE e = "receiver"
  <2>1. q["owner"] = nets["owner"] \o sent /\ nets["owner"] \in Seq(NetMessages)
    BY <1>1, <1>5 DEF Other
  <2> HIDE DEF q
  <2>2. NoOffer(q["owner"])
    BY <1>1, <1>5, <2>1 DEF NoOffer
  <2> QED
    BY <1>4, <2>2 DEF Nets, q
<1>6. CASE e = "owner"
  <2>1. q["owner"] = nets["owner"]
    BY <1>1, <1>6 DEF Other
  <2> QED
    BY <1>1, <1>4, <2>1 DEF Nets
<1> QED
  BY <1>5, <1>6 DEF Ends

(* A page becomes another.                                                 *)
LEMMA BecomesKeeps ==
    ASSUME SignalingInv, NEW e \in Ends, NEW p, Sound(p, e), NEW nets \in Nets,
           Becomes(e, p, nets)
    PROVE  SignalingInv'
<1>1. p \in Pages /\ p.out \in Seq(AnySignals) /\ p.neg \in Nat /\ p.role = e
  BY DEF Sound, PageInv, Pages
<1>2. p.out \in Seq(NetMessages)
  BY <1>1 DEF NetMessages
<1>3. NegsOf(p.out) \in SUBSET Nat
  BY <1>2, NegsAreNumbers
<1>4. e = "receiver" => NoOffer(p.out)
  BY <1>1 DEF Sound, PageInv, OwnersOffer, NoOffer
<1>5. net' \in Nets
  <2>1. [nets EXCEPT ![Other(e)] = @ \o p.out] \in Nets
    BY <1>2, <1>4, Sending
  <2> QED
    BY <2>1 DEF Becomes
<1>6. negs' \in Nat /\ up' \in [Ends -> BOOLEAN]
  BY <1>1 DEF Becomes, SignalingInv
<1>7. PICK q : page' = [page EXCEPT ![e] = q] /\ Sound(q, e)
  <2> DEFINE q == [p EXCEPT !.out = <<>>]
             r == [p EXCEPT !.out = <<>>, !.dropped = @ \cup NegsOf(p.out)]
  <2>1. PageInv(q) /\ PageInv(r)
    BY <1>3, Emptying DEF Sound
  <2>2. q.role = e /\ q.config = p.config /\ q.sees = p.sees /\ q.phase = p.phase
    BY <1>1 DEF Pages
  <2>3. r.role = e /\ r.config = p.config /\ r.sees = p.sees /\ r.phase = p.phase
    BY <1>1 DEF Pages
  <2>4. page' = [page EXCEPT ![e] = q] \/ page' = [page EXCEPT ![e] = r]
    BY DEF Becomes
  <2> HIDE DEF q, r
  <2>5. Sound(q, e) /\ Sound(r, e)
    BY <2>1, <2>2, <2>3 DEF Sound, Active
  <2> QED
    BY <2>4, <2>5
<1>8. page' = [f \in Ends |-> page'[f]] /\ \A f \in Ends : Sound(page'[f], f)
  BY <1>7 DEF SignalingInv
<1> QED
  BY <1>5, <1>6, <1>8 DEF SignalingInv

(* A page that has just been opened.                                       *)
LEMMA Opened ==
    ASSUME NEW e \in Ends, NEW streamed \in BOOLEAN
    PROVE  Sound(NewPage(e, streamed), e)
<1> DEFINE p == NewPage(e, streamed)
<1>1. NoWork \in Works /\ NoWork[1] = "none"
  BY DEF NoWork, Works
<1>2. <<>> \in Seq(AnySignals)
  OBVIOUS
<1>3. p \in Pages
  BY <1>1, <1>2 DEF NewPage, Pages, Phases
<1>4. /\ p.role = e /\ p.phase = "waiting" /\ p.work = NoWork /\ p.timers = {} /\ ~p.config
      /\ p.queue = <<>> /\ p.out = <<>> /\ p.neg = 0 /\ p.tasks = {} /\ p.applied = {}
      /\ p.answered = 0 /\ ~p.set /\ ~p.announced /\ ~p.described /\ p.local = {}
  BY DEF NewPage
<1> HIDE DEF p
<1>5. OwnOnly(p)
  BY <1>4, FS_EmptySet DEF OwnOnly
<1>6. OwnersOffer(p)
  BY <1>1, <1>4 DEF OwnersOffer
<1>7. PhaseRests(p)
  BY <1>4 DEF PhaseRests
<1> QED
  BY <1>3, <1>4, <1>5, <1>6, <1>7 DEF Sound, PageInv, Active, p

(* The invariant holds at the start.                                       *)
LEMMA SignalingInit ==
    ASSUME Init
    PROVE  SignalingInv
<1>1. PICK s \in Scenarios :
        /\ page = [e \in Ends |->
                 LET p == [NewPage(e, s.streamed) EXCEPT !.sees = TRUE]
                 IN IF s.configured THEN ApplyRtcConfig(p, 1) ELSE p]
        /\ negs = IF s.configured THEN 1 ELSE 0
  BY DEF Init
<1>2. s.streamed \in BOOLEAN
  BY SignalingAssumption
<1>3. ASSUME NEW e \in Ends
      PROVE  Sound(page[e], e)
  <2> DEFINE n == NewPage(e, s.streamed)
             p == [n EXCEPT !.sees = TRUE]
  <2>1. PageInv(n) /\ n.role = e /\ n \in Pages
    BY <1>2, Opened DEF Sound, PageInv
  <2>2. ~n.config
    BY DEF NewPage
  <2>3. page[e] = IF s.configured THEN ApplyRtcConfig(p, 1) ELSE p
    BY <1>1
  <2> HIDE DEF n
  <2>4. PageInv(p) /\ p.role = e
    BY <2>1, Learning
  <2>5. ~p.config
    BY <2>1, <2>2 DEF Pages
  <2> HIDE DEF p
  <2>6. Sound(p, e) /\ Sound(ApplyRtcConfig(p, 1), e)
    BY <2>4, <2>5, Configuring DEF Sound, Active
  <2> QED
    BY <2>3, <2>6
<1>4. page = [e \in Ends |-> page[e]]
  BY <1>1
<1>5. net \in Nets /\ up \in [Ends -> BOOLEAN]
  <2>1. net = [e \in Ends |-> <<>>] /\ up = [e \in Ends |-> TRUE] /\ "owner" \in Ends
    BY DEF Init, Ends
  <2>2. <<>> \in Seq(NetMessages) /\ NoOffer(<<>>)
    BY DEF NoOffer
  <2> QED
    BY <2>1, <2>2 DEF Nets
<1>6. negs \in Nat
  BY <1>1
<1> QED
  BY <1>3, <1>4, <1>5, <1>6 DEF SignalingInv

(* What the server brings is taken off the queue.                          *)
LEMMA Delivering ==
    ASSUME SignalingInv, NEW e \in Ends, Deliver(e)
    PROVE  SignalingInv'
<1> DEFINE s == Head(net[e])
           p == page[e]
           nets == [net EXCEPT ![e] = Tail(@)]
<1>1. PageInv(p) /\ Active(p) /\ p.role = e /\ Fresh \in Nat \ {0}
  BY DEF SignalingInv, Sound, Fresh
<1>2. net \in [Ends -> Seq(NetMessages)] /\ net[e] \in Seq(NetMessages) /\ net[e] # <<>>
      /\ (e = "owner" => NoOffer(net[e])) /\ NoOffer(net["owner"]) /\ "owner" \in Ends
  BY DEF SignalingInv, Nets, Deliver, Ends
<1>3. s \in NetMessages /\ (e = "owner" => s.kind # "offer")
  BY <1>2 DEF NoOffer
<1>4. nets \in Nets
  <2>1. Tail(net[e]) \in Seq(NetMessages) /\ (NoOffer(net[e]) => NoOffer(Tail(net[e])))
    BY <1>2 DEF NoOffer
  <2>2. nets \in [Ends -> Seq(NetMessages)]
    BY <1>2, <2>1
  <2>3. nets["owner"] = IF e = "owner" THEN Tail(net[e]) ELSE net["owner"]
    BY <1>2
  <2> QED
    BY <1>2, <2>1, <2>2, <2>3 DEF Nets
<1> DEFINE gone == IF p.peer /\ ~Kept(p) THEN [RemoveRtcPeer(p) EXCEPT !.sees = FALSE]
                   ELSE [p EXCEPT !.sees = FALSE]
           there == SyncRtcPeers([p EXCEPT !.sees = TRUE], Fresh)
<1>5. \/ Becomes(e, there, nets) \/ Becomes(e, gone, nets)
      \/ s.kind \notin {"online", "offline"} /\ Becomes(e, AcceptRtcSignal(p, s), nets)
  BY DEF Deliver
<1>6. Sound(there, e)
  <2> DEFINE q == [p EXCEPT !.sees = TRUE]
  <2>1. PageInv(q) /\ q.role = e
    BY <1>1, Learning
  <2> HIDE DEF q
  <2> QED
    BY <1>1, <2>1, Syncing DEF q
<1>7. Sound(gone, e)
  <2>1. ASSUME NEW q, PageInv(q), q.role = e
        PROVE  Sound([q EXCEPT !.sees = FALSE], e)
    BY <2>1, Learning DEF Sound, Active
  <2>2. PageInv(RemoveRtcPeer(p)) /\ RemoveRtcPeer(p).role = e
    BY <1>1, Removing DEF SeesAs
  <2>3. Sound([RemoveRtcPeer(p) EXCEPT !.sees = FALSE], e)
    BY <2>1, <2>2
  <2>4. Sound([p EXCEPT !.sees = FALSE], e)
    BY <1>1, <2>1
  <2> QED
    BY <2>3, <2>4
<1>8. s.kind \notin {"online", "offline"} => Sound(AcceptRtcSignal(p, s), e)
  <2>1. s.kind \notin {"online", "offline"} => s \in AnySignals
    BY <1>3 DEF NetMessages, Presence, Signal
  <2> HIDE DEF s
  <2> QED
    BY <1>1, <1>3, <2>1, Receiving
<1> HIDE DEF there, gone, nets, s
<1> QED
  BY <1>4, <1>5, <1>6, <1>7, <1>8, BecomesKeeps

(* A socket is lost, with what was under way.                              *)
LEMMA GoingOffline ==
    ASSUME SignalingInv, NEW e \in Ends, NEW p, Sound(p, e), Offline(e, p)
    PROVE  SignalingInv'
<1> DEFINE o == Other(e)
           lost == NegsOf(net[e])
           q == [page[o] EXCEPT !.dropped = @ \cup lost]
<1>1. o \in Ends /\ o # e
  BY DEF Other, Ends
<1>2. lost \in SUBSET Nat
  BY NegsAreNumbers DEF SignalingInv, Nets
<1>3. Sound(page[o], o)
  BY <1>1 DEF SignalingInv
<1>4. Sound(q, o)
  <2>1. page[o] \in Pages
    BY <1>3 DEF Sound, PageInv
  <2>2. q.role = page[o].role /\ q.config = page[o].config /\ q.sees = page[o].sees
        /\ q.phase = page[o].phase
    BY <2>1 DEF Pages
  <2>3. PageInv(q)
    BY <1>2, <1>3, Emptying DEF Sound
  <2> HIDE DEF q
  <2> QED
    BY <1>3, <2>2, <2>3 DEF Sound, Active
<1>5. page' = [page EXCEPT ![e] = p, ![o].dropped = @ \cup lost]
  BY DEF Offline
<1>6. page'[e] = p /\ page'[o] = q /\ page' = [f \in Ends |-> page'[f]]
  BY <1>1, <1>5 DEF SignalingInv
<1>7. \A f \in Ends : Sound(page'[f], f)
  BY <1>1, <1>4, <1>6 DEF Ends
<1>8. net' \in Nets
  <2> DEFINE gone == <<Presence("offline")>>
             m == [net EXCEPT ![e] = <<>>]
             more == [m EXCEPT ![o] = @ \o gone]
  <2>1. net \in [Ends -> Seq(NetMessages)] /\ NoOffer(net["owner"]) /\ "owner" \in Ends
    BY DEF SignalingInv, Nets, Ends
  <2>2. <<>> \in Seq(NetMessages) /\ NoOffer(<<>>)
    BY DEF NoOffer
  <2>3. m \in Nets
    BY <2>1, <2>2 DEF Nets
  <2>4. gone \in Seq(NetMessages) /\ NoOffer(gone)
    BY DEF NetMessages, NoOffer, Presence, Signal
  <2>5. more \in Nets
    BY <2>3, <2>4, Sending
  <2>6. net[o] \in Seq(NetMessages) /\ Append(net[o], Presence("offline")) = net[o] \o gone
    <3>1. net[o] \in Seq(NetMessages) /\ Presence("offline") \in NetMessages
      BY <1>1, <2>1 DEF NetMessages
    <3> HIDE DEF o
    <3> QED
      BY <3>1
  <2>7. m[o] = net[o]
    BY <1>1, <2>1
  <2>8. net' = [net EXCEPT ![e] = <<>>, ![o] = IF up[o] THEN Append(@, Presence("offline")) ELSE @]
    BY DEF Offline
  <2>9. CASE up[o]
    <3>1. net' = [net EXCEPT ![e] = <<>>, ![o] = Append(net[o], Presence("offline"))]
      BY <1>1, <2>1, <2>8, <2>9
    <3>2. net' = more
      BY <1>1, <2>1, <2>6, <2>7, <3>1
    <3> QED
      BY <2>5, <3>2
  <2>10. CASE ~up[o]
    <3>1. net' = m
      BY <1>1, <2>1, <2>8, <2>10
    <3> QED
      BY <2>3, <3>1
  <2> QED
    BY <2>9, <2>10
<1>9. negs' \in Nat /\ up' \in [Ends -> BOOLEAN]
  BY DEF Offline, SignalingInv
<1> QED
  BY <1>6, <1>7, <1>8, <1>9 DEF SignalingInv

(* A page attaches again, with a snapshot of the room.                     *)
LEMMA Reattaching ==
    ASSUME SignalingInv, NEW e \in Ends, Reattach(e)
    PROVE  SignalingInv'
<1>1. PICK rebuild \in BOOLEAN :
        LET q == IF rebuild THEN RebuildPeer(page[e]) ELSE page[e]
            p == SyncRtcPeers([q EXCEPT !.sees = up[Other(e)]], Fresh)
        IN /\ p.neg <= MaxNegotiations
           /\ negs' = IF p.neg > negs THEN p.neg ELSE negs
           /\ page' = [page EXCEPT ![e] = p]
  BY DEF Reattach
<1> DEFINE q == IF rebuild THEN RebuildPeer(page[e]) ELSE page[e]
           r == [q EXCEPT !.sees = up[Other(e)]]
           p == SyncRtcPeers(r, Fresh)
<1>2. Sound(page[e], e) /\ Fresh \in Nat \ {0} /\ up[Other(e)] \in BOOLEAN
  BY DEF SignalingInv, Fresh, Other, Ends
<1>3. PageInv(q) /\ q.role = e
  <2> DEFINE w == ResetPeerWaiting(page[e])
             c == PrepareReconnect(w)
             i == InvalidateWork(page[e])
  <2>1. Linked(page[e]) /\ page[e].role = e
    BY <1>2 DEF Sound, PageInv, Linked
  <2>2. Linked(i) /\ SameLink(page[e], i)
    BY <2>1, Invalidating
  <2>3. w = [i EXCEPT !.phase = "waiting"]
    BY DEF ResetPeerWaiting
  <2> HIDE DEF i
  <2>4. Phased(i, w, "waiting")
    BY <2>2, <2>3, Phasing DEF Phases
  <2> HIDE DEF w
  <2>5. Linked(w) /\ w.phase = "waiting" /\ w.role = e
    BY <2>1, <2>2, <2>4 DEF Phased, SameLink, SeesAs
  <2>6. Renewed(w, c, 0)
    BY <2>5, Reconnecting
  <2> HIDE DEF c
  <2>7. PageInv(c) /\ c.role = e
    BY <2>5, <2>6 DEF Renewed, PageInv, Linked, PhaseRests, SeesAs
  <2>8. q = page[e] \/ q = c
    BY DEF RebuildPeer, c, w
  <2> HIDE DEF q
  <2> QED
    BY <1>2, <2>7, <2>8 DEF Sound
<1> HIDE DEF q
<1>4. PageInv(r) /\ r.role = e
  BY <1>2, <1>3, Learning
<1> HIDE DEF r
<1>5. Sound(p, e)
  BY <1>2, <1>4, Syncing
<1>6. page' = [page EXCEPT ![e] = p] /\ negs' = IF p.neg > negs THEN p.neg ELSE negs
  BY <1>1 DEF q, r
<1> HIDE DEF p
<1>7. page' = [f \in Ends |-> page'[f]] /\ \A f \in Ends : Sound(page'[f], f)
  BY <1>5, <1>6 DEF SignalingInv
<1>8. negs' \in Nat
  BY <1>5, <1>6 DEF SignalingInv, Sound, PageInv, Pages
<1>9. net' \in Nets
  <2> DEFINE o == Other(e)
             back == <<Presence("online")>>
             more == [net EXCEPT ![o] = @ \o back]
  <2>1. net \in [Ends -> Seq(NetMessages)] /\ net \in Nets /\ o \in Ends
    BY DEF SignalingInv, Nets, Other, Ends
  <2>2. back \in Seq(NetMessages) /\ NoOffer(back)
    BY DEF NetMessages, NoOffer, Presence, Signal
  <2>3. more \in Nets
    BY <2>1, <2>2, Sending
  <2>4. net[o] \in Seq(NetMessages) /\ Append(net[o], Presence("online")) = net[o] \o back
    <3>1. net[o] \in Seq(NetMessages) /\ Presence("online") \in NetMessages
      BY <2>1 DEF NetMessages
    <3> HIDE DEF o
    <3> QED
      BY <3>1
  <2>5. net' = [net EXCEPT ![o] = IF up[o] THEN Append(@, Presence("online")) ELSE @]
    BY DEF Reattach
  <2>6. net' = more \/ net' = net
    BY <2>1, <2>4, <2>5
  <2> QED
    BY <2>1, <2>3, <2>6
<1>10. up' \in [Ends -> BOOLEAN]
  BY DEF Reattach, SignalingInv
<1> QED
  BY <1>7, <1>8, <1>9, <1>10 DEF SignalingInv

(* Every step keeps the invariant.                                         *)
LEMMA SignalingStep ==
    ASSUME SignalingInv, [Next]_vars
    PROVE  SignalingInv'
<1>1. CASE UNCHANGED vars
  BY <1>1 DEF vars, SignalingInv, Sound, PageInv, Active
<1>2. ASSUME NEW e \in Ends,
             \/ Deliver(e) \/ Refresh(e) \/ LoseSocket(e) \/ Reload(e) \/ Reattach(e)
             \/ ConfigArrives(e) \/ ConfigExpires(e)
             \/ Step(e) \/ Reject(e) \/ Fire(e) \/ RetryPaused(e)
             \/ Gather(e) \/ Connecting(e) \/ Connected(e) \/ ChannelOpens(e)
             \/ Disconnects(e) \/ Fails(e) \/ ChannelCloses(e)
      PROVE  SignalingInv'
  <2> DEFINE p == page[e]
  <2>1. Sound(p, e) /\ PageInv(p) /\ Active(p) /\ p.role = e /\ Fresh \in Nat \ {0} /\ net \in Nets
    BY DEF SignalingInv, Sound, Fresh
  <2>2. ASSUME NEW q, Sound(q, e), Becomes(e, q, net)
        PROVE  SignalingInv'
    BY <2>1, <2>2, BecomesKeeps
  <2>3. CASE Deliver(e)
    BY <2>3, Delivering
  <2>4. CASE Refresh(e)
    BY <2>1, <2>2, <2>4, Syncing DEF Refresh
  <2>5. CASE LoseSocket(e)
    BY <2>1, <2>5, GoingOffline DEF LoseSocket
  <2>6. CASE Reload(e)
    BY <2>6, Opened, GoingOffline DEF Reload
  <2>7. CASE Reattach(e)
    BY <2>7, Reattaching
  <2>8. CASE ConfigArrives(e)
    BY <2>1, <2>2, <2>8, Configuring DEF ConfigArrives
  <2>9. CASE ConfigExpires(e)
    <3>1. Sound([p EXCEPT !.config = FALSE], e)
      BY <2>1, Learning DEF Sound, Active
    <3> QED
      BY <2>2, <2>9, <3>1 DEF ConfigExpires
  <2>10. CASE Step(e)
    BY <2>1, <2>2, <2>10, Stepping, FollowingSound DEF Step
  <2>11. CASE Reject(e)
    BY <2>1, <2>2, <2>11, Failing, FollowingSound DEF Reject
  <2>12. CASE Fire(e)
    BY <2>1, <2>2, <2>12, Firing DEF Fire
  <2>13. CASE RetryPaused(e)
    <3> DEFINE c == PrepareReconnect(p)
               r == Resume(c)
               q == ReconnectPausedTransfer(p, Fresh)
    <3>1. e = "owner" /\ Becomes(e, q, net)
      BY <2>13 DEF RetryPaused
    <3>2. Linked(c) /\ c.role = e /\ c.neg = 0 /\ c \in Pages
      BY <2>1, Reconnecting DEF PageInv, Linked, Renewed, SeesAs
    <3>3. q = StartOwnerOfferAttempt(r, Fresh, 0, FALSE)
      BY DEF ReconnectPausedTransfer, StartRtcOffer
    <3> HIDE DEF c
    <3>4. r \in Pages /\ SameLink(c, r) /\ r.timers = c.timers /\ r.work = c.work
      BY <3>2 DEF Resume, Pages, SameLink, SeesAs
    <3> HIDE DEF r, q
    <3>5. OwnOnly(r)
      BY <3>2, <3>4, SameOwn DEF Linked
    <3>6. OwnersOffer(r)
      BY <3>2, <3>4 DEF Linked, OwnersOffer, SameLink, SeesAs
    <3>7. Linked(r) /\ r.role = "owner" /\ r.neg = 0 /\ 0 \in 0..RetryDelays
      BY <3>1, <3>2, <3>4, <3>5, <3>6, RtcAssumption DEF Linked, SameLink, SeesAs
    <3>8. \/ r.neg # 0 /\ q = r
          \/ PageInv(q) /\ q.role = "owner" /\ q.phase # "waiting"
      BY <2>1, <3>3, <3>7, Attempting
    <3>9. Sound(q, e)
      BY <3>1, <3>7, <3>8 DEF Sound, Active
    <3> QED
      BY <2>2, <3>1, <3>9
  <2>14. CASE Gather(e)
    BY <2>1, <2>2, <2>14, Gathering, FollowingSound DEF Gather
  <2>15. ASSUME NEW state \in {"connecting", "connected", "disconnected", "failed"},
                StateChanges(e, state)
         PROVE  SignalingInv'
    <3>1. Onward(p, HandleConnectionState([p EXCEPT !.state = state], state))
      BY <2>1, <2>15, Changing
    <3>2. Sound(HandleConnectionState([p EXCEPT !.state = state], state), e)
      BY <2>1, <3>1, OnwardSound
    <3> QED
      BY <2>2, <2>15, <3>2 DEF StateChanges
  <2>16. CASE Connecting(e)
    BY <2>15, <2>16 DEF Connecting
  <2>17. CASE Connected(e)
    BY <2>15, <2>17 DEF Connected
  <2>18. CASE ChannelOpens(e)
    <3>1. Sound(MarkReady([p EXCEPT !.chan = "open"]), e)
      BY <2>1, Changing, OnwardSound
    <3> QED
      BY <2>2, <2>18, <3>1 DEF ChannelOpens
  <2>19. CASE Disconnects(e)
    BY <2>15, <2>19 DEF Disconnects
  <2>20. CASE Fails(e)
    BY <2>15, <2>20 DEF Fails
  <2>21. CASE ChannelCloses(e)
    <3>1. Sound(HandleConnectionState([p EXCEPT !.chan = "closed"], "closed"), e)
      BY <2>1, Changing, OnwardSound
    <3> QED
      BY <2>2, <2>21, <3>1 DEF ChannelCloses
  <2> QED
    BY <1>2, <2>3, <2>4, <2>5, <2>6, <2>7, <2>8, <2>9, <2>10, <2>11, <2>12, <2>13, <2>14,
       <2>16, <2>17, <2>18, <2>19, <2>20, <2>21
<1> QED
  BY <1>1, <1>2 DEF Next

(* The pages and what is between them are always as described.             *)
THEOREM SignalingAlways == Spec => []SignalingInv
<1>1. Init => SignalingInv
  BY SignalingInit
<1>2. SignalingInv /\ [Next]_vars => SignalingInv'
  BY SignalingStep
<1> QED
  BY <1>1, <1>2, PTL DEF Spec

(* A connection is only ever given the description and the candidates of   *)
(* its own negotiation, however late anything of an earlier one arrives.   *)
THEOREM OwnNegotiation == Spec => []OnlyOwnNegotiation
<1>1. SignalingInv => OnlyOwnNegotiation
  BY DEF SignalingInv, Sound, PageInv, OwnOnly, OnlyOwnNegotiation
<1> QED
  BY <1>1, SignalingAlways, PTL

(* A page never says it is connected when its data channel is not open.    *)
THEOREM Ready == Spec => []ReadyIsOpen
<1>1. SignalingInv => ReadyIsOpen
  BY DEF SignalingInv, Sound, PageInv, PhaseRests, ReadyIsOpen
<1> QED
  BY <1>1, SignalingAlways, PTL

(* A peer that is neither connected nor given up always has a deadline, a  *)
(* restart or the browser's verdict ahead of it.                           *)
THEOREM Unstranded == Spec => []NotStranded
<1>1. ASSUME SignalingInv, NEW e \in Ends, page[e].config, page[e].sees,
             page[e].phase \in {"waiting", "connecting", "disconnected"}
      PROVE  \/ \E t \in page[e].timers : WorkIsCurrent(page[e], t) \/ t.work[1] = "restart"
             \/ page[e].state \in {"connecting", "connected", "disconnected"}
  <2>1. PhaseRests(page[e]) /\ Active(page[e])
    BY <1>1 DEF SignalingInv, Sound, PageInv
  <2>2. Armed(page[e]) \/ Restarting(page[e]) \/ Lively(page[e])
    BY <1>1, <2>1 DEF PhaseRests, Active
  <2> QED
    BY <2>2 DEF Armed, Restarting, Lively
<1>2. SignalingInv => NotStranded
  BY <1>1 DEF NotStranded
<1> QED
  BY <1>2, SignalingAlways, PTL

----------------------------------------------------------------------------
(* No candidate gets lost.                                                 *)

(* The page knows of a candidate of the other's.                           *)
Knows(p, c) == c \in p.applied \cup p.remote \/ \E t \in p.tasks : c \in t.cands

(* How a page announces itself: candidates wait for the announcement, and  *)
(* there is one offer at most, by the owner.                               *)
TidyTask(p, t) ==
    /\ t.step # "apply" => t.cands = {}
    /\ t.step \in {"local", "announce"} => t.kind \in {"offer", "accept"}
    /\ t.kind = "offer" => t.step \in {"local", "announce"} /\ ~p.announced
    /\ t.kind = "accept" => p.role = "receiver"
Tidy(p) ==
    /\ p.announced => p.local = {}
    /\ ~p.announced /\ p.neg \notin p.dropped => p.local = 1..p.found
    /\ \A t \in p.tasks : TidyTask(p, t)
    /\ \A t, u \in p.tasks : t.kind = "offer" /\ u.kind = "offer" => t = u

(* What is on its way from the owner o to the receiver r (the sequence to) *)
(* and back (the sequence back), in negotiations up to m: the offer of the *)
(* owner's negotiation goes once and first, and while it is ahead of the   *)
(* receiver or has been taken by it, every candidate of either is with its *)
(* finder, on its way or with the other.                                   *)
IsOffer(s, n) == s.kind = "offer" /\ s.neg = n
Unheard(o, r, to) == ~o.announced => r.neg # o.neg /\ \A i \in 1..Len(to) : to[i].neg # o.neg
OfferOnce(n, r, to) ==
    /\ r.neg = n => \A i \in 1..Len(to) : ~IsOffer(to[i], n)
    /\ \A i, j \in 1..Len(to) : IsOffer(to[i], n) /\ IsOffer(to[j], n) => i = j
    /\ \A i, j \in 1..Len(to) :
         IsOffer(to[i], n) /\ to[j].kind = "candidate" /\ to[j].neg = n => i < j
Arriving(a, b, way) ==
    \A k \in 1..a.found :
        \/ k \in a.local
        \/ \E i \in 1..Len(way) : way[i] = Candidate(a.neg, k)
        \/ b.neg = a.neg /\ Knows(b, Candidate(a.neg, k))
Undropped(o, r) == o.neg \notin o.dropped /\ o.neg \notin r.dropped
Ahead(o, r, to) == r.neg = o.neg \/ \E i \in 1..Len(to) : IsOffer(to[i], o.neg)
Exchange(o, r, back, to, m) ==
    /\ o.neg <= m /\ r.neg <= m /\ \A i \in 1..Len(to) : to[i].neg <= m
    /\ o.neg # 0 =>
         /\ Unheard(o, r, to)
         /\ OfferOnce(o.neg, r, to)
         /\ Undropped(o, r) /\ Ahead(o, r, to) => Arriving(o, r, to)
         /\ Undropped(o, r) /\ r.neg = o.neg => Arriving(r, o, back)

(* The same, for the page p of e with the other page q.                    *)
Seen(e, p, q, in, out, m) ==
    IF e = "owner" THEN Exchange(p, q, in, out, m) ELSE Exchange(q, p, out, in, m)

(* A page whose signals are sent, and queued only while they must be.      *)
Quiet(p) == p.out = <<>> /\ (p.config => p.queue = <<>>) /\ Tidy(p)
Pipe(e) == page[e].queue \o net[e]
ExchangeInv ==
    /\ \A e \in Ends : Quiet(page[e])
    /\ Exchange(page["owner"], page["receiver"], Pipe("owner"), Pipe("receiver"), negs)

(* What a page may become without a word to the other: it keeps its        *)
(* connection and what it knows of it, it has none, or it has a new one of *)
(* a negotiation in N.                                                     *)
SameTalk(p, q) ==
    /\ q.neg = p.neg /\ q.announced = p.announced /\ q.local = p.local /\ q.found = p.found
    /\ \A c : c.neg = p.neg /\ Knows(p, c) => Knows(q, c) \/ p.neg \in q.dropped
Anew(q, N) == q.neg \in N /\ ~q.announced /\ q.found = 0 /\ q.local = {}
Moves(p, q, N) ==
    /\ p.dropped \subseteq q.dropped
    /\ SameTalk(p, q) \/ q.neg = 0 \/ Anew(q, N)

(* Signals on their way are numbered.                                      *)
Numbered(way) == Len(way) \in Nat /\ \A i \in 1..Len(way) : way[i].neg \in Nat

(* It keeps what the other has been told, and what it has been told.       *)
LEMMA Turning ==
    ASSUME NEW e \in Ends, NEW p, NEW q, NEW o, NEW in, NEW out, NEW m \in Nat, NEW n \in Nat,
           NEW N, Moves(p, q, N), e = "receiver" => N = {}, \A x \in N : x > m,
           p.neg \in Nat, q.neg \in Nat, o.neg \in Nat, Numbered(in), Numbered(out),
           m <= n, q.neg <= n, Seen(e, p, o, in, out, m)
    PROVE  Seen(e, q, o, in, out, n)
<1>1. CASE e = "owner"
  <2>1. Exchange(p, o, in, out, m)
    BY <1>1 DEF Seen
  <2>2. q.neg <= n /\ o.neg <= n /\ \A i \in 1..Len(out) : out[i].neg <= n
    BY <2>1 DEF Exchange, Numbered
  <2>3. CASE q.neg = 0
    BY <1>1, <2>2, <2>3 DEF Seen, Exchange
  <2>4. CASE Anew(q, N)
    <3>1. q.neg > m /\ q.found = 0
      BY <2>4 DEF Anew
    <3>2. o.neg # q.neg /\ \A i \in 1..Len(out) : out[i].neg # q.neg
      <4>1. o.neg <= m /\ \A i \in 1..Len(out) : out[i].neg <= m /\ out[i].neg \in Nat
        BY <2>1 DEF Exchange, Numbered
      <4> QED
        BY <3>1, <4>1
    <3>3. Unheard(q, o, out) /\ OfferOnce(q.neg, o, out)
      BY <3>2 DEF Unheard, OfferOnce, IsOffer
    <3>4. Arriving(q, o, out)
      BY <3>1 DEF Arriving
    <3> QED
      BY <1>1, <2>2, <3>2, <3>3, <3>4 DEF Seen, Exchange
  <2>5. CASE SameTalk(p, q) /\ q.neg # 0
    <3>1. p.neg = q.neg /\ p.dropped \subseteq q.dropped
      BY <2>5 DEF SameTalk, Moves
    <3>2. Unheard(q, o, out) /\ OfferOnce(q.neg, o, out)
      BY <2>1, <2>5, <3>1 DEF Exchange, Unheard, SameTalk
    <3>3. Undropped(q, o) /\ Ahead(q, o, out) => Arriving(q, o, out)
      <4>1. Undropped(q, o) /\ Ahead(q, o, out) => Arriving(p, o, out)
        BY <2>1, <2>5, <3>1 DEF Exchange, Undropped, Ahead
      <4> QED
        BY <4>1, <2>5 DEF Arriving, SameTalk
    <3>4. Undropped(q, o) /\ o.neg = q.neg => Arriving(o, q, in)
      <4>1. Undropped(q, o) /\ o.neg = q.neg => Arriving(o, p, in)
        BY <2>1, <2>5, <3>1 DEF Exchange, Undropped
      <4>2. \A k : Candidate(p.neg, k).neg = p.neg
        BY DEF Candidate, Signal
      <4>3. \A k : Undropped(q, o) /\ Knows(p, Candidate(p.neg, k)) => Knows(q, Candidate(p.neg, k))
        BY <4>2, <2>5, <3>1 DEF SameTalk, Undropped
      <4> QED
        BY <4>1, <4>3, <3>1 DEF Arriving
    <3> QED
      BY <1>1, <2>2, <3>2, <3>3, <3>4 DEF Seen, Exchange
  <2> QED
    BY <2>3, <2>4, <2>5 DEF Moves
<1>2. CASE e = "receiver"
  <2>1. Exchange(o, p, out, in, m)
    BY <1>2 DEF Seen
  <2>2. q.neg <= n /\ o.neg <= n /\ \A i \in 1..Len(in) : in[i].neg <= n
    BY <2>1 DEF Exchange, Numbered
  <2>3. SUFFICES ASSUME o.neg # 0
                 PROVE  /\ Unheard(o, q, in)
                        /\ OfferOnce(o.neg, q, in)
                        /\ Undropped(o, q) /\ Ahead(o, q, in) => Arriving(o, q, in)
                        /\ Undropped(o, q) /\ q.neg = o.neg => Arriving(q, o, out)
    BY <1>2, <2>2 DEF Seen, Exchange
  <2>4. p.dropped \subseteq q.dropped /\ (SameTalk(p, q) \/ q.neg = 0)
    BY <1>2 DEF Moves, Anew
  <2>5. CASE q.neg = 0
    <3>1. Unheard(o, q, in) /\ OfferOnce(o.neg, q, in)
      BY <2>1, <2>3, <2>5 DEF Exchange, Unheard, OfferOnce
    <3>2. ASSUME Undropped(o, q), Ahead(o, q, in)
          PROVE  Arriving(o, q, in)
      <4>1. PICK i \in 1..Len(in) : IsOffer(in[i], o.neg)
        BY <3>2, <2>3, <2>5 DEF Ahead
      <4>2. p.neg # o.neg
        BY <4>1, <2>1, <2>3 DEF Exchange, OfferOnce
      <4>3. Arriving(o, p, in)
        BY <4>1, <3>2, <2>1, <2>3, <2>4 DEF Exchange, Undropped, Ahead
      <4> QED
        BY <4>2, <4>3 DEF Arriving
    <3> QED
      BY <3>1, <3>2, <2>3, <2>5
  <2>6. CASE SameTalk(p, q)
    <3>1. p.neg = q.neg
      BY <2>6 DEF SameTalk
    <3>2. Unheard(o, q, in) /\ OfferOnce(o.neg, q, in)
      BY <2>1, <2>3, <3>1 DEF Exchange, Unheard, OfferOnce
    <3>3. ASSUME Undropped(o, q), Ahead(o, q, in)
          PROVE  Arriving(o, q, in)
      <4>1. Arriving(o, p, in)
        BY <3>1, <3>3, <2>1, <2>3, <2>4 DEF Exchange, Undropped, Ahead
      <4>2. \A k : Candidate(o.neg, k).neg = o.neg
        BY DEF Candidate, Signal
      <4>3. \A k : p.neg = o.neg /\ Knows(p, Candidate(o.neg, k)) => Knows(q, Candidate(o.neg, k))
        BY <4>2, <2>6, <3>3 DEF SameTalk, Undropped
      <4> QED
        BY <4>1, <4>3, <3>1 DEF Arriving
    <3>4. ASSUME Undropped(o, q), q.neg = o.neg
          PROVE  Arriving(q, o, out)
      <4>1. Arriving(p, o, out)
        BY <3>1, <3>4, <2>1, <2>3, <2>4 DEF Exchange, Undropped
      <4> QED
        BY <4>1, <2>6 DEF Arriving, SameTalk
    <3> QED
      BY <3>2, <3>3, <3>4
  <2> QED
    BY <2>4, <2>5, <2>6
<1> QED
  BY <1>1, <1>2 DEF Ends

(* Some signals are gone from a way, and the others are there in order.    *)
Thinned(w, v) ==
    \E f : /\ \A i \in 1..Len(v) : f[i] \in 1..Len(w) /\ v[i] = w[f[i]]
           /\ \A i, j \in 1..Len(v) : i < j => f[i] < f[j]

(* A signal the page p can do without: it has been dropped, it is no       *)
(* candidate, or it is the next one and the page has it or has no use for  *)
(* it.                                                                     *)
Spare(p, o, w, j) ==
    \/ w[j].neg \in {0} \cup p.dropped \cup o.dropped
    \/ w[j].kind # "candidate"
    \/ w[j].neg = p.neg /\ Knows(p, w[j])
    \/ w[j].neg # p.neg /\ j = 1

(* Signals a page can do without are gone.                                 *)
LEMMA Losing ==
    ASSUME NEW e \in Ends, NEW p, NEW o, NEW in, NEW out, NEW m \in Nat, NEW v,
           p.neg \in Nat, o.neg \in Nat, Numbered(in), Numbered(out), Numbered(v),
           Thinned(in, v),
           \A j \in 1..Len(in) : (\E i \in 1..Len(v) : v[i] = in[j]) \/ Spare(p, o, in, j),
           Seen(e, p, o, in, out, m)
    PROVE  Seen(e, p, o, v, out, m)
<1>1. CASE e = "owner"
  <2>1. Exchange(p, o, in, out, m)
    BY <1>1 DEF Seen
  <2>2. ASSUME p.neg # 0, Undropped(p, o), o.neg = p.neg
        PROVE  Arriving(o, p, v)
    <3>1. Arriving(o, p, in)
      BY <2>1, <2>2 DEF Exchange
    <3>2. ASSUME NEW k \in 1..o.found, NEW j \in 1..Len(in), in[j] = Candidate(o.neg, k)
          PROVE  (\E i \in 1..Len(v) : v[i] = Candidate(o.neg, k)) \/ Knows(p, Candidate(o.neg, k))
      <4>1. in[j].kind = "candidate" /\ in[j].neg = p.neg
        BY <3>2, <2>2 DEF Candidate, Signal
      <4>2. Spare(p, o, in, j) => Knows(p, in[j])
        BY <4>1, <2>2 DEF Spare, Undropped
      <4> QED
        BY <4>2, <3>2
    <3> QED
      BY <3>1, <3>2, <2>2 DEF Arriving
  <2> QED
    BY <1>1, <2>1, <2>2 DEF Seen, Exchange
<1>2. CASE e = "receiver"
  <2>1. Exchange(o, p, out, in, m)
    BY <1>2 DEF Seen
  <2>2. PICK f : /\ \A i \in 1..Len(v) : f[i] \in 1..Len(in) /\ v[i] = in[f[i]]
                 /\ \A i, j \in 1..Len(v) : i < j => f[i] < f[j]
    BY DEF Thinned
  <2>3. \A i \in 1..Len(v) : v[i].neg <= m
    BY <2>1, <2>2 DEF Exchange
  <2>4. SUFFICES ASSUME o.neg # 0
                 PROVE  /\ Unheard(o, p, v)
                        /\ OfferOnce(o.neg, p, v)
                        /\ Undropped(o, p) /\ Ahead(o, p, v) => Arriving(o, p, v)
    BY <1>2, <2>1, <2>3 DEF Seen, Exchange
  <2>5. Unheard(o, p, v)
    BY <2>1, <2>2, <2>4 DEF Exchange, Unheard
  <2>6. OfferOnce(o.neg, p, v)
    <3>1. OfferOnce(o.neg, p, in)
      BY <2>1, <2>4 DEF Exchange
    <3>2. p.neg = o.neg => \A i \in 1..Len(v) : ~IsOffer(v[i], o.neg)
      BY <3>1, <2>2 DEF OfferOnce
    <3>3. ASSUME NEW i \in 1..Len(v), NEW j \in 1..Len(v), IsOffer(v[i], o.neg), IsOffer(v[j], o.neg)
          PROVE  i = j
      <4>1. f[i] = f[j]
        BY <3>1, <3>3, <2>2 DEF OfferOnce
      <4> QED
        BY <4>1, <2>2 DEF Numbered
    <3>4. ASSUME NEW i \in 1..Len(v), NEW j \in 1..Len(v), IsOffer(v[i], o.neg),
                 v[j].kind = "candidate", v[j].neg = o.neg
          PROVE  i < j
      <4>1. f[i] < f[j]
        BY <3>1, <3>4, <2>2 DEF OfferOnce
      <4>2. f[i] \in Nat /\ f[j] \in Nat
        BY <2>2 DEF Numbered
      <4> QED
        BY <4>1, <4>2, <2>2 DEF Numbered
    <3> QED
      BY <3>2, <3>3, <3>4 DEF OfferOnce
  <2>7. ASSUME Undropped(o, p), Ahead(o, p, v)
        PROVE  Arriving(o, p, v)
    <3>1. Ahead(o, p, in)
      BY <2>2, <2>7 DEF Ahead
    <3>2. Arriving(o, p, in)
      BY <3>1, <2>1, <2>4, <2>7 DEF Exchange
    <3>3. ASSUME NEW k \in 1..o.found, NEW j \in 1..Len(in), in[j] = Candidate(o.neg, k)
          PROVE  \/ \E i \in 1..Len(v) : v[i] = Candidate(o.neg, k)
                 \/ p.neg = o.neg /\ Knows(p, Candidate(o.neg, k))
      <4>1. in[j].kind = "candidate" /\ in[j].neg = o.neg
        BY <3>3 DEF Candidate, Signal
      <4>2. ~(p.neg # o.neg /\ j = 1)
        <5>1. SUFFICES ASSUME p.neg # o.neg, j = 1
                       PROVE  FALSE
          OBVIOUS
        <5>2. PICK i \in 1..Len(v) : IsOffer(v[i], o.neg)
          BY <2>7, <5>1 DEF Ahead
        <5>3. f[i] \in 1..Len(in) /\ IsOffer(in[f[i]], o.neg)
          BY <5>2, <2>2
        <5>4. f[i] < j
          BY <5>3, <4>1, <2>1, <2>4 DEF Exchange, OfferOnce
        <5> QED
          BY <5>1, <5>3, <5>4 DEF Numbered
      <4>3. Spare(p, o, in, j) => p.neg = o.neg /\ Knows(p, in[j])
        BY <4>1, <4>2, <2>4, <2>7 DEF Spare, Undropped
      <4> QED
        BY <4>3, <3>3
    <3> QED
      BY <3>2, <3>3 DEF Arriving
  <2> QED
    BY <2>5, <2>6, <2>7
<1> QED
  BY <1>1, <1>2 DEF Ends

(* The receiver takes the offer that is next.                              *)
LEMMA Answering ==
    ASSUME NEW p, NEW q, NEW o, NEW in, NEW out, NEW m \in Nat, NEW v,
           p.neg \in Nat, q.neg \in Nat, o.neg \in Nat, Numbered(in), Numbered(out), Numbered(v),
           Len(in) = Len(v) + 1, \A i \in 1..Len(v) : v[i] = in[i + 1],
           in[1].kind = "offer", Anew(q, {in[1].neg}), p.dropped \subseteq q.dropped,
           Seen("receiver", p, o, in, out, m)
    PROVE  Seen("receiver", q, o, v, out, m)
<1>1. Exchange(o, p, out, in, m)
  BY DEF Seen
<1>2. /\ 1 \in 1..Len(in) /\ \A i \in 1..Len(v) : i + 1 \in 1..Len(in) /\ i \in Nat
      /\ q.neg = in[1].neg /\ q.found = 0
  BY DEF Numbered, Anew
<1>3. o.neg <= m /\ q.neg <= m /\ \A i \in 1..Len(v) : v[i].neg <= m
  BY <1>1, <1>2 DEF Exchange
<1>4. SUFFICES ASSUME o.neg # 0
               PROVE  /\ Unheard(o, q, v)
                      /\ OfferOnce(o.neg, q, v)
                      /\ Undropped(o, q) /\ Ahead(o, q, v) => Arriving(o, q, v)
                      /\ Undropped(o, q) /\ q.neg = o.neg => Arriving(q, o, out)
  BY <1>3 DEF Seen, Exchange
<1>5. Unheard(o, p, in) /\ OfferOnce(o.neg, p, in)
      /\ (Undropped(o, p) /\ Ahead(o, p, in) => Arriving(o, p, in))
  BY <1>1, <1>4 DEF Exchange
<1>6. Unheard(o, q, v)
  BY <1>2, <1>5 DEF Unheard
<1>7. OfferOnce(o.neg, q, v)
  <2>1. \A i \in 1..Len(v) : q.neg = o.neg => ~IsOffer(v[i], o.neg)
    <3>1. q.neg = o.neg => IsOffer(in[1], o.neg)
      BY <1>2 DEF IsOffer
    <3>2. \A i \in 1..Len(v) : i + 1 # 1
      BY <1>2
    <3> QED
      BY <1>2, <1>5, <3>1, <3>2 DEF OfferOnce
  <2>2. \A i, j \in 1..Len(v) : IsOffer(v[i], o.neg) /\ IsOffer(v[j], o.neg) => i = j
    <3>1. \A i, j \in 1..Len(v) : IsOffer(v[i], o.neg) /\ IsOffer(v[j], o.neg) => i + 1 = j + 1
      BY <1>2, <1>5 DEF OfferOnce
    <3> QED
      BY <3>1, <1>2
  <2>3. \A i, j \in 1..Len(v) :
          IsOffer(v[i], o.neg) /\ v[j].kind = "candidate" /\ v[j].neg = o.neg => i < j
    <3>1. \A i, j \in 1..Len(v) :
            IsOffer(v[i], o.neg) /\ v[j].kind = "candidate" /\ v[j].neg = o.neg => i + 1 < j + 1
      BY <1>2, <1>5 DEF OfferOnce
    <3> QED
      BY <3>1, <1>2
  <2> QED
    BY <2>1, <2>2, <2>3 DEF OfferOnce
<1>8. ASSUME Undropped(o, q), Ahead(o, q, v)
      PROVE  Arriving(o, q, v)
  <2>1. PICK i \in 1..Len(in) : IsOffer(in[i], o.neg)
    BY <1>2, <1>8 DEF Ahead, IsOffer
  <2>2. p.neg # o.neg
    BY <2>1, <1>5 DEF OfferOnce
  <2>3. Arriving(o, p, in)
    BY <2>1, <1>5, <1>8 DEF Ahead, Undropped
  <2>4. ASSUME NEW k, NEW j \in 1..Len(in), in[j] = Candidate(o.neg, k)
        PROVE  \E l \in 1..Len(v) : v[l] = Candidate(o.neg, k)
    <3>1. j # 1
      BY <2>4 DEF Candidate, Signal
    <3>2. j - 1 \in 1..Len(v) /\ (j - 1) + 1 = j
      BY <3>1 DEF Numbered
    <3> QED
      BY <2>4, <3>2
  <2> QED
    BY <2>2, <2>3, <2>4 DEF Arriving
<1>9. Arriving(q, o, out)
  BY <1>2 DEF Arriving
<1> QED
  BY <1>6, <1>7, <1>8, <1>9

(* What a page sends about its connection: the offer comes first and with  *)
(* the announcement, and every candidate that is found and no longer waits *)
(* is sent or was.                                                         *)
Emits(p, q) ==
    /\ q.neg = p.neg /\ p.dropped \subseteq q.dropped
    /\ \A c : Knows(p, c) => Knows(q, c)
    /\ p.announced => q.announced
    /\ ~q.announced => Len(q.out) = 0
    /\ \A i \in 1..Len(q.out) : /\ q.out[i].neg = p.neg
                                /\ q.out[i].kind = "offer" => i = 1 /\ ~p.announced
    /\ \A k \in 1..q.found : \/ k \in q.local \/ p.neg \in q.dropped
                             \/ k \in 1..p.found /\ k \notin p.local
                             \/ \E i \in 1..Len(q.out) : q.out[i] = Candidate(p.neg, k)

(* One way goes on with what another brings.                               *)
Joins(w, x, v) ==
    /\ Len(v) = Len(w) + Len(x)
    /\ \A i \in 1..Len(w) : v[i] = w[i]
    /\ \A i \in 1..Len(x) : v[Len(w) + i] = x[i]

(* Where the signals of such a way come from.                              *)
LEMMA JoinedFrom ==
    ASSUME NEW w, NEW x, NEW v, Numbered(w), Numbered(x), Joins(w, x, v)
    PROVE  /\ \A i \in 1..Len(w) : i \in 1..Len(v)
           /\ \A i \in 1..Len(x) : Len(w) + i \in 1..Len(v)
           /\ \A i \in 1..Len(v) : \/ i \in 1..Len(w) /\ v[i] = w[i]
                                   \/ i > Len(w) /\ i - Len(w) \in 1..Len(x) /\ v[i] = x[i - Len(w)]
<1>1. Len(w) \in Nat /\ Len(x) \in Nat /\ Len(v) = Len(w) + Len(x)
  BY DEF Numbered, Joins
<1>2. ASSUME NEW i \in 1..Len(v), i > Len(w)
      PROVE  i - Len(w) \in 1..Len(x) /\ v[i] = x[i - Len(w)]
  <2>1. i - Len(w) \in 1..Len(x) /\ Len(w) + (i - Len(w)) = i
    BY <1>1, <1>2
  <2> QED
    BY <2>1 DEF Joins
<1> QED
  BY <1>1, <1>2 DEF Joins

(* What a page sends reaches the way to the other page.                    *)
LEMMA Emitting ==
    ASSUME NEW e \in Ends, NEW p, NEW q, NEW o, NEW in, NEW out, NEW m \in Nat, NEW v,
           p.neg \in Nat, o.neg \in Nat, p.found \in Nat, q.found \in Nat,
           Numbered(in), Numbered(out), Numbered(q.out), Tidy(p),
           Joins(out, q.out, v), Emits(p, q), Seen(e, p, o, in, out, m)
    PROVE  Seen(e, q, o, in, v, m)
<1>1. /\ \A i \in 1..Len(out) : i \in 1..Len(v)
      /\ \A i \in 1..Len(q.out) : Len(out) + i \in 1..Len(v)
      /\ \A i \in 1..Len(v) : \/ i \in 1..Len(out) /\ v[i] = out[i]
                              \/ /\ i > Len(out) /\ i - Len(out) \in 1..Len(q.out)
                                 /\ v[i] = q.out[i - Len(out)]
  BY JoinedFrom
<1>2. Len(out) \in Nat /\ Len(v) \in Nat
  BY DEF Numbered, Joins
<1>3. \A a : (\E i \in 1..Len(out) : out[i] = a) => \E i \in 1..Len(v) : v[i] = a
  BY <1>1 DEF Joins
<1>4. \A a : (\E i \in 1..Len(q.out) : q.out[i] = a) => \E i \in 1..Len(v) : v[i] = a
  BY <1>1 DEF Joins
<1>5. ASSUME q.neg \notin q.dropped, Arriving(p, o, out) \/ p.local = 1..p.found
      PROVE  Arriving(q, o, v)
  <2>1. ASSUME NEW k \in 1..q.found, k \notin q.local,
               ~\E i \in 1..Len(q.out) : q.out[i] = Candidate(p.neg, k)
        PROVE  \/ \E i \in 1..Len(v) : v[i] = Candidate(q.neg, k)
               \/ o.neg = q.neg /\ Knows(o, Candidate(q.neg, k))
    <3>1. k \in 1..p.found /\ k \notin p.local /\ q.neg = p.neg
      BY <1>5, <2>1 DEF Emits
    <3> QED
      BY <3>1, <1>3, <1>5 DEF Arriving
  <2>2. q.neg = p.neg
    BY DEF Emits
  <2> QED
    BY <2>1, <2>2, <1>4 DEF Arriving
<1>6. CASE e = "owner"
  <2>1. Exchange(p, o, in, out, m)
    BY <1>6 DEF Seen
  <2>2. q.neg <= m /\ o.neg <= m /\ \A i \in 1..Len(v) : v[i].neg <= m
    <3>1. /\ q.neg <= m /\ o.neg <= m /\ \A i \in 1..Len(out) : out[i].neg <= m
          /\ \A i \in 1..Len(q.out) : q.out[i].neg <= m
      BY <2>1 DEF Exchange, Emits
    <3>2. ASSUME NEW i \in 1..Len(v)
          PROVE  v[i].neg <= m
      BY <1>1, <3>1, <3>2
    <3> QED
      BY <3>1, <3>2
  <2>3. SUFFICES ASSUME q.neg # 0
                 PROVE  /\ Unheard(q, o, v)
                        /\ OfferOnce(q.neg, o, v)
                        /\ Undropped(q, o) /\ Ahead(q, o, v) => Arriving(q, o, v)
                        /\ Undropped(q, o) /\ o.neg = q.neg => Arriving(o, q, in)
    BY <1>6, <2>2 DEF Seen, Exchange
  <2>4. /\ q.neg = p.neg /\ p.neg # 0 /\ p.dropped \subseteq q.dropped
        /\ Unheard(p, o, out) /\ OfferOnce(p.neg, o, out)
    BY <2>1, <2>3 DEF Exchange, Emits
  <2>5. Unheard(q, o, v)
    <3>1. ~q.announced => ~p.announced /\ Len(q.out) = 0
      BY DEF Emits
    <3> QED
      BY <3>1, <1>1, <2>4 DEF Unheard
  <2>6. \A i \in 1..Len(v) : IsOffer(v[i], p.neg) =>
          \/ i \in 1..Len(out) /\ IsOffer(out[i], p.neg) /\ p.announced
          \/ i = Len(out) + 1 /\ ~p.announced
    <3>1. \A i \in 1..Len(out) : IsOffer(out[i], p.neg) => p.announced
      BY <2>4 DEF Unheard, IsOffer
    <3>2. \A i \in 1..Len(v) : i > Len(out) /\ IsOffer(v[i], p.neg) => i - Len(out) = 1 /\ ~p.announced
      <4>1. \A i \in 1..Len(q.out) : IsOffer(q.out[i], p.neg) => i = 1 /\ ~p.announced
        BY DEF Emits, IsOffer
      <4>2. \A i \in 1..Len(v) : i > Len(out) =>
              i - Len(out) \in 1..Len(q.out) /\ v[i] = q.out[i - Len(out)]
        BY <1>1, <1>2
      <4> QED
        BY <4>1, <4>2
    <3> QED
      BY <3>1, <3>2, <1>1, <1>2
  <2>7. OfferOnce(q.neg, o, v)
    <3>1. o.neg = p.neg => \A i \in 1..Len(v) : ~IsOffer(v[i], p.neg)
      BY <2>4, <2>6 DEF OfferOnce, Unheard
    <3>2. \A i, j \in 1..Len(v) : IsOffer(v[i], p.neg) /\ IsOffer(v[j], p.neg) => i = j
      BY <2>4, <2>6 DEF OfferOnce
    <3>3. ASSUME NEW i \in 1..Len(v), NEW j \in 1..Len(v), IsOffer(v[i], p.neg),
                 v[j].kind = "candidate", v[j].neg = p.neg
          PROVE  i < j
      <4>1. CASE p.announced
        <5>1. i \in 1..Len(out) /\ IsOffer(out[i], p.neg)
          BY <2>6, <3>3, <4>1
        <5>2. j \in 1..Len(out) => v[j] = out[j]
          BY <1>1, <1>2
        <5>3. j \in 1..Len(out) => i < j
          BY <5>1, <5>2, <3>3, <2>4 DEF OfferOnce
        <5> QED
          BY <5>1, <5>3, <1>2
      <4>2. CASE ~p.announced
        <5>1. i = Len(out) + 1
          BY <2>6, <3>3, <4>2
        <5>2. j \notin 1..Len(out)
          BY <1>1, <2>4, <3>3, <4>2 DEF Unheard, Joins
        <5>3. i # j
          BY <3>3 DEF IsOffer
        <5> QED
          BY <5>1, <5>2, <5>3, <1>2
      <4> QED
        BY <4>1, <4>2
    <3> QED
      BY <3>1, <3>2, <3>3, <2>4 DEF OfferOnce
  <2>8. ASSUME Undropped(q, o), Ahead(q, o, v)
        PROVE  Arriving(q, o, v)
    <3>1. Undropped(p, o)
      BY <2>4, <2>8 DEF Undropped
    <3>2. CASE p.announced
      <4>1. Ahead(p, o, out)
        BY <2>4, <2>6, <2>8, <3>2 DEF Ahead
      <4> QED
        BY <1>5, <2>1, <2>4, <2>8, <3>1, <4>1 DEF Exchange, Undropped
    <3>3. CASE ~p.announced
      BY <1>5, <2>8, <3>1, <3>3 DEF Tidy, Undropped
    <3> QED
      BY <3>2, <3>3
  <2>9. ASSUME Undropped(q, o), o.neg = q.neg
        PROVE  Arriving(o, q, in)
    <3>1. Arriving(o, p, in)
      BY <2>1, <2>4, <2>9 DEF Exchange, Undropped
    <3> QED
      BY <3>1, <2>4 DEF Arriving, Emits
  <2> QED
    BY <2>5, <2>7, <2>8, <2>9
<1>7. CASE e = "receiver"
  <2>1. Exchange(o, p, out, in, m)
    BY <1>7 DEF Seen
  <2>2. q.neg = p.neg /\ p.dropped \subseteq q.dropped
    BY DEF Emits
  <2>3. q.neg <= m /\ o.neg <= m /\ \A i \in 1..Len(in) : in[i].neg <= m
    BY <2>1, <2>2 DEF Exchange
  <2>4. SUFFICES ASSUME o.neg # 0
                 PROVE  /\ Unheard(o, q, in)
                        /\ OfferOnce(o.neg, q, in)
                        /\ Undropped(o, q) /\ Ahead(o, q, in) => Arriving(o, q, in)
                        /\ Undropped(o, q) /\ q.neg = o.neg => Arriving(q, o, v)
    BY <1>7, <2>3 DEF Seen, Exchange
  <2>5. Unheard(o, q, in) /\ OfferOnce(o.neg, q, in)
    BY <2>1, <2>2, <2>4 DEF Exchange, Unheard, OfferOnce
  <2>6. ASSUME Undropped(o, q), Ahead(o, q, in)
        PROVE  Arriving(o, q, in)
    <3>1. Arriving(o, p, in)
      BY <2>1, <2>2, <2>4, <2>6 DEF Exchange, Undropped, Ahead
    <3> QED
      BY <3>1, <2>2 DEF Arriving, Emits
  <2>7. ASSUME Undropped(o, q), q.neg = o.neg
        PROVE  Arriving(q, o, v)
    <3>1. Arriving(p, o, out)
      BY <2>1, <2>2, <2>4, <2>7 DEF Exchange, Undropped
    <3> QED
      BY <3>1, <2>7, <1>5 DEF Undropped
  <2> QED
    BY <2>5, <2>6, <2>7
<1> QED
  BY <1>6, <1>7 DEF Ends

(* Or it does not, and its negotiation has lost a signal.                  *)
LEMMA EmittingInVain ==
    ASSUME NEW e \in Ends, NEW p, NEW q, NEW o, NEW in, NEW out, NEW m \in Nat,
           q.neg = p.neg, p.dropped \subseteq q.dropped, p.neg \in q.dropped,
           p.announced => q.announced, Seen(e, p, o, in, out, m)
    PROVE  Seen(e, q, o, in, out, m)
<1>1. CASE e = "owner"
  <2>1. Exchange(p, o, in, out, m)
    BY <1>1 DEF Seen
  <2>2. Exchange(q, o, in, out, m)
    BY <2>1 DEF Exchange, Undropped, Unheard
  <2> QED
    BY <1>1, <2>2 DEF Seen
<1>2. CASE e = "receiver"
  <2>1. Exchange(o, p, out, in, m)
    BY <1>2 DEF Seen
  <2>2. o.neg # 0 => Unheard(o, q, in) /\ OfferOnce(o.neg, q, in)
    BY <2>1 DEF Exchange, Unheard, OfferOnce
  <2>3. ASSUME o.neg # 0, Undropped(o, q), Ahead(o, q, in)
        PROVE  Arriving(o, q, in)
    <3>1. p.neg # o.neg /\ Arriving(o, p, in)
      BY <2>1, <2>3 DEF Exchange, Undropped, Ahead
    <3> QED
      BY <3>1 DEF Arriving
  <2>4. Exchange(o, q, out, in, m)
    BY <2>1, <2>2, <2>3 DEF Exchange, Undropped
  <2> QED
    BY <1>2, <2>4 DEF Seen
<1> QED
  BY <1>1, <1>2 DEF Ends

(* The server announces that a member comes or goes.                       *)
LEMMA Noticing ==
    ASSUME NEW e \in Ends, NEW p, NEW o, NEW in, NEW out, NEW m \in Nat, NEW x, NEW v,
           p.neg \in Nat, o.neg \in Nat, Numbered(in), Numbered(out), Numbered(x),
           \A i \in 1..Len(x) : x[i].neg = 0,
           Joins(out, x, v), Seen(e, p, o, in, out, m)
    PROVE  Seen(e, p, o, in, v, m)
<1>1. \A i \in 1..Len(v) : \/ i \in 1..Len(out) /\ v[i] = out[i]
                           \/ v[i].neg = 0
  BY JoinedFrom
<1>2. \A i \in 1..Len(out) : i \in 1..Len(v) /\ v[i] = out[i]
  BY JoinedFrom DEF Joins
<1>3. \A a : (\E i \in 1..Len(out) : out[i] = a) => \E i \in 1..Len(v) : v[i] = a
  BY <1>2
<1>4. CASE e = "owner"
  <2>1. Exchange(p, o, in, out, m)
    BY <1>4 DEF Seen
  <2>2. \A i \in 1..Len(v) : v[i].neg <= m
    BY <1>1, <2>1 DEF Exchange
  <2>3. ASSUME p.neg # 0
        PROVE  Unheard(p, o, v) /\ OfferOnce(p.neg, o, v)
    BY <1>1, <2>1, <2>3 DEF Exchange, Unheard, OfferOnce, IsOffer
  <2>4. ASSUME p.neg # 0, Undropped(p, o), Ahead(p, o, v)
        PROVE  Arriving(p, o, v)
    <3>1. Ahead(p, o, out)
      BY <1>1, <2>4 DEF Ahead, IsOffer
    <3>2. Arriving(p, o, out)
      BY <2>1, <2>4, <3>1 DEF Exchange
    <3> QED
      BY <3>2, <1>3 DEF Arriving
  <2> QED
    BY <1>4, <2>1, <2>2, <2>3, <2>4 DEF Seen, Exchange
<1>5. CASE e = "receiver"
  <2>1. Exchange(o, p, out, in, m)
    BY <1>5 DEF Seen
  <2>2. Arriving(p, o, out) => Arriving(p, o, v)
    BY <1>3 DEF Arriving
  <2> QED
    BY <1>5, <2>1, <2>2 DEF Seen, Exchange
<1> QED
  BY <1>4, <1>5 DEF Ends

----------------------------------------------------------------------------
(* What the operations on a page are to the other page.                    *)

Fields == {"role", "streamed", "peer", "phase", "work", "timers", "paused", "config", "queue",
           "sees", "neg", "negotiating", "announced", "pending", "set", "local", "remote",
           "tasks", "described", "answered", "found", "applied", "state", "chan", "out", "dropped"}
Fielded(p) == Fields \subseteq DOMAIN p

(* The page moves on with nothing more to send.                            *)
Turned(p, q, N) ==
    /\ DOMAIN q = DOMAIN p /\ Tidy(q) /\ Moves(p, q, N)
    /\ q.role = p.role /\ q.out = p.out /\ q.queue = p.queue /\ q.config = p.config

(* The application has changed, and nothing of the connection the other    *)
(* page could notice.                                                      *)
Wire(p, q) ==
    /\ DOMAIN q = DOMAIN p
    /\ q.role = p.role /\ q.out = p.out /\ q.queue = p.queue /\ q.config = p.config
    /\ q.neg = p.neg /\ q.announced = p.announced /\ q.local = p.local /\ q.found = p.found
    /\ q.remote = p.remote /\ q.tasks = p.tasks /\ q.applied = p.applied
    /\ q.dropped = p.dropped

(* Then the page has moved on.                                             *)
LEMMA WireTurns ==
    ASSUME NEW p, NEW q, NEW N, Tidy(p), Wire(p, q)
    PROVE  Turned(p, q, N)
<1>1. \A t : TidyTask(p, t) => TidyTask(q, t)
  BY DEF TidyTask, Wire
<1>2. Tidy(q)
  BY <1>1 DEF Tidy, Wire
<1>3. \A c : Knows(p, c) => Knows(q, c)
  BY DEF Knows, Wire
<1> QED
  BY <1>2, <1>3 DEF Turned, Moves, SameTalk, Wire

(* Moving on twice.                                                        *)
LEMMA TurnTwice ==
    ASSUME NEW p, NEW q, NEW r, NEW N, Turned(p, q, N), Turned(q, r, N)
    PROVE  Turned(p, r, N)
<1>1. p.dropped \subseteq r.dropped
  BY DEF Turned, Moves
<1>2. SameTalk(p, r) \/ r.neg = 0 \/ Anew(r, N)
  <2>1. CASE SameTalk(q, r) /\ SameTalk(p, q)
    BY <2>1 DEF SameTalk, Turned, Moves
  <2>2. CASE SameTalk(q, r) /\ (q.neg = 0 \/ Anew(q, N))
    BY <2>2 DEF SameTalk, Anew
  <2> QED
    BY <2>1, <2>2 DEF Turned, Moves
<1> QED
  BY <1>1, <1>2 DEF Turned, Moves

(* The application's own operations.                                       *)
LEMMA Wires ==
    ASSUME NEW p, Fielded(p)
    PROVE  /\ \A x : /\ Wire(p, [p EXCEPT !.timers = x]) /\ Wire(p, [p EXCEPT !.state = x])
                     /\ Wire(p, [p EXCEPT !.chan = x]) /\ Wire(p, [p EXCEPT !.sees = x])
                     /\ Wire(p, [p EXCEPT !.phase = x]) /\ Wire(p, [p EXCEPT !.work = x])
           /\ Wire(p, EnsureRtcPeer(p)) /\ Wire(p, InvalidateWork(p))
           /\ \A work : Wire(p, ArmWork(p, work))
           /\ Wire(p, Pause(p)) /\ Wire(p, Resume(p))
<1>1. \A x \in Fields : x \in DOMAIN p
  BY DEF Fielded
<1>2. /\ "role" \in DOMAIN p /\ "out" \in DOMAIN p /\ "queue" \in DOMAIN p /\ "config" \in DOMAIN p
      /\ "neg" \in DOMAIN p /\ "announced" \in DOMAIN p /\ "local" \in DOMAIN p
      /\ "found" \in DOMAIN p /\ "remote" \in DOMAIN p /\ "tasks" \in DOMAIN p
      /\ "applied" \in DOMAIN p /\ "dropped" \in DOMAIN p
  BY <1>1 DEF Fields
<1>3. \A x : /\ Wire(p, [p EXCEPT !.timers = x]) /\ Wire(p, [p EXCEPT !.state = x])
             /\ Wire(p, [p EXCEPT !.chan = x]) /\ Wire(p, [p EXCEPT !.sees = x])
  BY <1>2 DEF Wire
<1>4. \A x : /\ Wire(p, [p EXCEPT !.phase = x]) /\ Wire(p, [p EXCEPT !.work = x])
             /\ Wire(p, [p EXCEPT !.paused = x]) /\ Wire(p, [p EXCEPT !.peer = x])
  BY <1>2 DEF Wire
<1>5. \A x, y : Wire(p, [p EXCEPT !.work = x, !.timers = y])
  BY <1>2 DEF Wire
<1> QED
  BY <1>3, <1>4, <1>5 DEF EnsureRtcPeer, InvalidateWork, ArmWork, Pause, Resume

(* Two of them.                                                            *)
LEMMA WireTwice ==
    ASSUME NEW p, NEW q, NEW r, Fielded(p), Wire(p, q), Wire(q, r)
    PROVE  Wire(p, r) /\ Fielded(q) /\ Fielded(r)
  BY DEF Wire, Fielded

(* The transitions of the application.                                     *)
LEMMA WiredMarks ==
    ASSUME NEW p, Fielded(p)
    PROVE  /\ Wire(p, MarkFailed(p)) /\ Wire(p, MarkReady(p)) /\ Wire(p, BeginPassiveDeadline(p))
           /\ Wire(p, ResetPeerWaiting(p)) /\ \A attempt : Wire(p, BeginOwnerOffer(p, attempt))
<1>1. ASSUME NEW q, Wire(p, q), NEW phase
      PROVE  /\ Wire(p, [q EXCEPT !.phase = phase])
             /\ Wire(p, Pause([q EXCEPT !.phase = phase]))
             /\ Wire(p, Resume([q EXCEPT !.phase = phase]))
  <2> DEFINE r == [q EXCEPT !.phase = phase]
  <2>1. Fielded(q)
    BY <1>1 DEF Wire, Fielded
  <2>2. Wire(q, r)
    BY <2>1, Wires
  <2>3. Wire(p, r) /\ Fielded(r)
    BY <2>2, <1>1, WireTwice
  <2>4. Wire(r, Pause(r)) /\ Wire(r, Resume(r))
    BY <2>3, Wires
  <2> HIDE DEF r
  <2>5. Wire(p, Pause(r)) /\ Wire(p, Resume(r))
    BY <2>3, <2>4, WireTwice
  <2> QED
    BY <2>3, <2>5 DEF r
<1>2. Wire(p, InvalidateWork(p)) /\ \A work : Wire(p, ArmWork(p, work))
  BY Wires
<1> QED
  BY <1>1, <1>2 DEF MarkFailed, MarkReady, BeginPassiveDeadline, ResetPeerWaiting, BeginOwnerOffer

(* A page in order stays in order.                                         *)
Neat(p) == Fielded(p) /\ Tidy(p)

(* It stays neat as it moves on.                                           *)
LEMMA TurnNeat ==
    ASSUME NEW p, NEW q, NEW N, Neat(p), Turned(p, q, N)
    PROVE  Neat(q)
  BY DEF Neat, Turned, Fielded

(* Moving on, and then a change of the application's own.                  *)
LEMMA Turns ==
    ASSUME NEW p, NEW q, NEW r, NEW N, Neat(p), Turned(p, q, N), Wire(q, r)
    PROVE  Turned(p, r, N)
<1>1. Tidy(q)
  BY DEF Turned
<1>2. Turned(q, r, N)
  BY <1>1, WireTurns
<1> QED
  BY <1>2, TurnTwice

(* The connection is closed.                                               *)
LEMMA TurnsCleared ==
    ASSUME NEW p, Neat(p), NEW N
    PROVE  Turned(p, ClearPeerResources(p), N) /\ Turned(p, PrepareReconnect(p), N)
           /\ Turned(p, RemoveRtcPeer(p), N)
<1> DEFINE q == ClearPeerResources(p)
<1>1. \A x \in Fields : x \in DOMAIN p
  BY DEF Neat, Fielded
<1>2. /\ DOMAIN q = DOMAIN p /\ q.neg = 0 /\ ~q.announced /\ q.local = {} /\ q.found = 0
      /\ q.tasks = {} /\ q.role = p.role /\ q.out = p.out /\ q.queue = p.queue
      /\ q.config = p.config /\ q.dropped = p.dropped /\ q.remote = {}
  BY <1>1 DEF Fields, ClearPeerResources
<1>3. Tidy(q)
  <2>1. 1..0 = {}
    OBVIOUS
  <2> QED
    BY <2>1, <1>2 DEF Tidy
<1>4. Turned(p, q, N)
  BY <1>2, <1>3 DEF Turned, Moves
<1>5. \A x \in Fields : x \in DOMAIN q
  BY <1>1, <1>2
<1> HIDE DEF q
<1>6. \A a, b, c, d, f : Wire(q, [q EXCEPT !.peer = a, !.phase = b, !.work = c, !.timers = d, !.paused = f])
  BY <1>5 DEF Fields, Wire
<1>7. Turned(p, RemoveRtcPeer(p), N)
  BY <1>4, <1>6, Turns DEF RemoveRtcPeer, q
<1> QED
  BY <1>4, <1>7 DEF PrepareReconnect, q

(* A connection is opened, and a first task for it.                        *)
LEMMA TurnsOpened ==
    ASSUME NEW p, Neat(p), NEW N, NEW n \in N, NEW kind \in {"offer", "accept"},
           NEW negotiating, NEW chan, kind = "accept" => p.role = "receiver"
    PROVE  LET t == Task(kind, n, n, IF kind = "offer" THEN "local" ELSE "remote", {})
           IN  /\ Turned(p, Spawn([EnsurePeerConnection(p, n) EXCEPT
                                    !.negotiating = negotiating, !.chan = chan], t), N)
               /\ Turned(p, Spawn(EnsurePeerConnection(p, n), t), N)
<1> DEFINE t == Task(kind, n, n, IF kind = "offer" THEN "local" ELSE "remote", {})
           a == EnsurePeerConnection(p, n)
           b == [a EXCEPT !.negotiating = negotiating, !.chan = chan]
<1>1. \A x \in Fields : x \in DOMAIN p
  BY DEF Neat, Fielded
<1>2. /\ DOMAIN a = DOMAIN p /\ a.neg = n /\ ~a.announced /\ a.local = {} /\ a.found = 0
      /\ a.tasks = {} /\ a.role = p.role /\ a.out = p.out /\ a.queue = p.queue
      /\ a.config = p.config /\ a.dropped = p.dropped
  BY <1>1 DEF Fields, ClearPeerResources, EnsurePeerConnection
<1> HIDE DEF a
<1>3. ASSUME NEW c, DOMAIN c = DOMAIN a, c.neg = n, ~c.announced, c.local = {}, c.found = 0,
             c.tasks = {}, c.role = p.role, c.out = p.out, c.queue = p.queue,
             c.config = p.config, c.dropped = p.dropped
      PROVE  Turned(p, Spawn(c, t), N)
  <2> DEFINE q == [c EXCEPT !.tasks = c.tasks \cup {t}]
  <2>1. \A x \in Fields : x \in DOMAIN c
    BY <1>1, <1>2, <1>3
  <2>2. /\ DOMAIN q = DOMAIN p /\ q.neg = n /\ ~q.announced /\ q.local = {} /\ q.found = 0
        /\ q.tasks = {t} /\ q.role = p.role /\ q.out = p.out /\ q.queue = p.queue
        /\ q.config = p.config /\ q.dropped = p.dropped
    BY <1>2, <1>3, <2>1 DEF Fields
  <2> HIDE DEF q
  <2>3. TidyTask(q, t)
    BY <2>2 DEF TidyTask, Task
  <2>4. Tidy(q)
    <3>1. 1..0 = {}
      OBVIOUS
    <3> QED
      BY <3>1, <2>2, <2>3 DEF Tidy
  <2>5. Turned(p, q, N)
    BY <2>2, <2>4 DEF Turned, Moves, Anew
  <2> QED
    BY <2>5 DEF q, Spawn
<1>4. Turned(p, Spawn(a, t), N)
  BY <1>2, <1>3
<1>5. \A x \in Fields : x \in DOMAIN a
  BY <1>1, <1>2
<1>6. /\ DOMAIN b = DOMAIN a /\ b.neg = n /\ ~b.announced /\ b.local = {} /\ b.found = 0
      /\ b.tasks = {} /\ b.role = p.role /\ b.out = p.out /\ b.queue = p.queue
      /\ b.config = p.config /\ b.dropped = p.dropped
  BY <1>2, <1>5 DEF Fields
<1> HIDE DEF b
<1>7. Turned(p, Spawn(b, t), N)
  BY <1>6, <1>3
<1> QED
  BY <1>4, <1>7 DEF a, b

(* The owner tries to offer.                                               *)
LEMMA TurnsOffering ==
    ASSUME NEW p, Neat(p), NEW N, NEW n \in N, NEW attempt, NEW failure \in BOOLEAN
    PROVE  Turned(p, StartOwnerOfferAttempt(p, n, attempt, failure), N)
<1> DEFINE q == StartOffer(p, n)
<1>1. Turned(p, p, N) /\ Turned(p, MarkFailed(p), N)
  BY WireTurns, WiredMarks DEF Neat, Wire
<1>2. Turned(p, q, N)
  BY TurnsOpened DEF StartOffer
<1> HIDE DEF q
<1>3. Wire(q, BeginOwnerOffer(q, attempt))
  BY <1>2, TurnNeat, WiredMarks DEF Neat
<1>4. Turned(p, BeginOwnerOffer(q, attempt), N)
  BY <1>2, <1>3, Turns
<1> QED
  BY <1>1, <1>4 DEF StartOwnerOfferAttempt, q

(* The registry follows the members that are online.  Only the owner       *)
(* offers.                                                                 *)
LEMMA TurnsSynced ==
    ASSUME NEW p, Neat(p), NEW N, NEW n, p.role = "owner" => n \in N
    PROVE  Turned(p, SyncRtcPeers(p, n), N)
<1> DEFINE q == EnsureRtcPeer(p)
<1>1. Wire(p, p) /\ Wire(p, q)
  BY Wires DEF Neat, Wire
<1>2. Turned(p, p, N) /\ Turned(p, q, N) /\ Neat(q)
  BY <1>1, WireTurns, TurnNeat DEF Neat
<1>3. q.role = p.role
  BY <1>1 DEF Wire
<1> HIDE DEF q
<1>4. Turned(p, RemoveRtcPeer(p), N)
  BY TurnsCleared
<1>5. p.role = "owner" => Turned(p, StartRtcOffer(q, n), N)
  BY <1>2, TurnsOffering, TurnTwice DEF StartRtcOffer
<1>6. Turned(p, BeginPassiveDeadline(q), N)
  BY <1>2, WiredMarks, Turns DEF Neat
<1> QED
  BY <1>2, <1>4, <1>5, <1>6 DEF SyncRtcPeers, q

(* A signal is given up.                                                   *)
LEMMA TurnsDropped ==
    ASSUME NEW p, Neat(p), NEW N, NEW gone
    PROVE  Turned(p, [p EXCEPT !.dropped = @ \cup gone], N)
           /\ [p EXCEPT !.dropped = @ \cup gone].dropped = p.dropped \cup gone
<1> DEFINE q == [p EXCEPT !.dropped = p.dropped \cup gone]
<1>1. \A x \in Fields : x \in DOMAIN p
  BY DEF Neat, Fielded
<1>2. /\ DOMAIN q = DOMAIN p /\ q.dropped = p.dropped \cup gone
      /\ q.role = p.role /\ q.out = p.out /\ q.queue = p.queue /\ q.config = p.config
      /\ q.neg = p.neg /\ q.announced = p.announced /\ q.local = p.local /\ q.found = p.found
      /\ q.remote = p.remote /\ q.tasks = p.tasks /\ q.applied = p.applied
  BY <1>1 DEF Fields
<1> HIDE DEF q
<1>3. \A t : TidyTask(p, t) => TidyTask(q, t)
  BY <1>2 DEF TidyTask
<1>4. Tidy(q)
  BY <1>2, <1>3 DEF Neat, Tidy
<1>5. \A c : Knows(p, c) => Knows(q, c)
  BY <1>2 DEF Knows
<1>6. Turned(p, q, N)
  BY <1>2, <1>4, <1>5 DEF Turned, Moves, SameTalk
<1> QED
  BY <1>2, <1>6 DEF q

(* A task that is none of the announcement's is started.                   *)
LEMMA TurnsSpawned ==
    ASSUME NEW p, Neat(p), NEW N, NEW t, TidyTask(p, t), t.kind # "offer"
    PROVE  Turned(p, Spawn(p, t), N) /\ \A c \in t.cands : Knows(Spawn(p, t), c)
<1> DEFINE q == [p EXCEPT !.tasks = p.tasks \cup {t}]
<1>1. \A x \in Fields : x \in DOMAIN p
  BY DEF Neat, Fielded
<1>2. /\ DOMAIN q = DOMAIN p /\ q.dropped = p.dropped
      /\ q.role = p.role /\ q.out = p.out /\ q.queue = p.queue /\ q.config = p.config
      /\ q.neg = p.neg /\ q.announced = p.announced /\ q.local = p.local /\ q.found = p.found
      /\ q.remote = p.remote /\ q.tasks = p.tasks \cup {t} /\ q.applied = p.applied
  BY <1>1 DEF Fields
<1> HIDE DEF q
<1>3. \A u : TidyTask(p, u) => TidyTask(q, u)
  BY <1>2 DEF TidyTask
<1>4. Tidy(q)
  BY <1>2, <1>3 DEF Neat, Tidy
<1>5. \A c : Knows(p, c) \/ c \in t.cands => Knows(q, c)
  BY <1>2 DEF Knows
<1>6. Turned(p, q, N)
  BY <1>2, <1>4, <1>5 DEF Turned, Moves, SameTalk
<1> QED
  BY <1>5, <1>6 DEF q, Spawn

(* The receiver takes an offer: it has a new connection, unless it has one *)
(* for it already.                                                         *)
LEMMA TurnsOffer ==
    ASSUME NEW p, Neat(p), p.role = "receiver", NEW s
    PROVE  /\ Turned(p, AcceptOffer(p, s), {s.neg})
           /\ p.neg # s.neg => Anew(AcceptOffer(p, s), {s.neg})
<1> DEFINE c == IF p.neg # 0 THEN PrepareReconnect(p) ELSE p
           q == Spawn(EnsurePeerConnection(c, s.neg), Task("accept", s.neg, s.neg, "remote", {}))
           r == BeginPassiveDeadline(q)
<1>1. Turned(p, p, {s.neg})
  BY WireTurns DEF Neat, Wire
<1>2. Turned(p, c, {s.neg})
  BY <1>1, TurnsCleared
<1>3. Neat(c) /\ c.role = "receiver"
  BY <1>2, TurnNeat DEF Turned
<1> HIDE DEF c
<1>4. Turned(c, q, {s.neg})
  BY <1>3, TurnsOpened
<1>5. Neat(q) /\ Turned(p, q, {s.neg})
  BY <1>2, <1>3, <1>4, TurnNeat, TurnTwice
<1>6. Anew(q, {s.neg})
  <2>1. \A x \in Fields : x \in DOMAIN c
    BY <1>3 DEF Neat, Fielded
  <2>2. LET a == EnsurePeerConnection(c, s.neg)
        IN  /\ a.neg = s.neg /\ ~a.announced /\ a.local = {} /\ a.found = 0
            /\ DOMAIN a = DOMAIN c
    BY <2>1 DEF Fields, ClearPeerResources, EnsurePeerConnection
  <2> QED
    BY <2>1, <2>2 DEF Spawn, Anew, Fields
<1> HIDE DEF q
<1>7. Wire(q, r)
  BY <1>5, WiredMarks DEF Neat
<1>8. Turned(p, r, {s.neg})
  BY <1>5, <1>7, Turns
<1>9. Anew(r, {s.neg})
  BY <1>6, <1>7 DEF Anew, Wire
<1> QED
  BY <1>1, <1>8, <1>9 DEF AcceptOffer, q, c

(* An answer is taken.                                                     *)
LEMMA TurnsAnswer ==
    ASSUME NEW p, Neat(p), NEW s
    PROVE  Turned(p, AcceptAnswer(p, s), {})
<1> DEFINE q == [p EXCEPT !.pending = TRUE]
           t == Task("answer", p.neg, s.neg, "remote", {})
<1>1. Wire(p, p) /\ Wire(p, q)
  BY DEF Wire, Neat, Fielded, Fields
<1>2. Turned(p, p, {}) /\ Turned(p, q, {}) /\ Neat(q)
  BY <1>1, WireTurns, TurnNeat DEF Neat
<1> HIDE DEF q
<1>3. TidyTask(q, t) /\ t.kind = "answer"
  BY DEF TidyTask, Task
<1>4. Turned(p, Spawn(q, t), {})
  BY <1>2, <1>3, TurnsSpawned, TurnTwice
<1> QED
  BY <1>2, <1>4 DEF AcceptAnswer, q

(* A candidate of the page's negotiation is taken or given up.             *)
LEMMA TurnsCandidate ==
    ASSUME NEW p, Neat(p), NEW s
    PROVE  LET q == AcceptCandidate(p, s)
           IN  /\ Turned(p, q, {}) /\ q.neg = p.neg
               /\ p.neg = s.neg => Knows(q, s) \/ s.neg \in q.dropped
<1> DEFINE t == Task("candidate", p.neg, s.neg, "apply", {s})
           f == MarkFailed(p)
           r == [p EXCEPT !.remote = p.remote \cup {s}]
<1>1. Turned(p, p, {})
  BY WireTurns DEF Neat, Wire
<1>2. Turned(p, Spawn(p, t), {}) /\ Knows(Spawn(p, t), s) /\ Spawn(p, t).neg = p.neg
  <2>1. TidyTask(p, t) /\ t.kind = "candidate" /\ s \in t.cands
    BY DEF TidyTask, Task
  <2>2. Turned(p, Spawn(p, t), {}) /\ Knows(Spawn(p, t), s)
    BY <2>1, TurnsSpawned
  <2>3. Spawn(p, t).neg = p.neg
    BY DEF Spawn, Neat, Fielded, Fields
  <2> QED
    BY <2>2, <2>3
<1>3. Turned(p, Drop(f, s.neg), {}) /\ s.neg \in Drop(f, s.neg).dropped /\ Drop(f, s.neg).neg = p.neg
  <2>1. Turned(p, f, {}) /\ f.neg = p.neg
    BY WiredMarks, WireTurns DEF Neat, Wire
  <2>2. Neat(f)
    BY <2>1, TurnNeat
  <2> HIDE DEF f
  <2>3. Drop(f, s.neg) = [f EXCEPT !.dropped = @ \cup {s.neg}]
    BY DEF Drop
  <2>4. Turned(f, Drop(f, s.neg), {}) /\ Drop(f, s.neg).dropped = f.dropped \cup {s.neg}
    BY <2>2, <2>3, TurnsDropped
  <2>5. Drop(f, s.neg).neg = f.neg
    BY <2>2, <2>3 DEF Neat, Fielded, Fields
  <2> QED
    BY <2>1, <2>4, <2>5, TurnTwice
<1>4. Turned(p, r, {}) /\ Knows(r, s) /\ r.neg = p.neg
  <2>1. \A x \in Fields : x \in DOMAIN p
    BY DEF Neat, Fielded
  <2>2. /\ DOMAIN r = DOMAIN p /\ r.dropped = p.dropped
        /\ r.role = p.role /\ r.out = p.out /\ r.queue = p.queue /\ r.config = p.config
        /\ r.neg = p.neg /\ r.announced = p.announced /\ r.local = p.local /\ r.found = p.found
        /\ r.remote = p.remote \cup {s} /\ r.tasks = p.tasks /\ r.applied = p.applied
    BY <2>1 DEF Fields
  <2> HIDE DEF r
  <2>3. \A u : TidyTask(p, u) => TidyTask(r, u)
    BY <2>2 DEF TidyTask
  <2>4. Tidy(r)
    BY <2>2, <2>3 DEF Neat, Tidy
  <2>5. \A c : Knows(p, c) \/ c = s => Knows(r, c)
    BY <2>2 DEF Knows
  <2> QED
    BY <2>2, <2>4, <2>5 DEF Turned, Moves, SameTalk
<1>5. ~TakesCandidate(p, s) => p.neg # s.neg
  BY DEF TakesCandidate
<1> HIDE DEF t, f, r
<1> QED
  BY <1>1, <1>2, <1>3, <1>4, <1>5 DEF AcceptCandidate, t, f, r

(* The page has something to send, and is otherwise in order.              *)
Sends(p, q) ==
    /\ DOMAIN q = DOMAIN p /\ Tidy(q) /\ Emits(p, q)
    /\ q.role = p.role /\ q.queue = p.queue /\ q.config = p.config

(* A task has ended that brought no candidates, or whose candidates have   *)
(* been dropped.                                                           *)
LEMMA TurnsEnded ==
    ASSUME NEW p, Neat(p), NEW t \in p.tasks
    PROVE  LET q == [p EXCEPT !.tasks = @ \ {t}]
           IN  /\ DOMAIN q = DOMAIN p /\ Tidy(q) /\ q.tasks = p.tasks \ {t}
               /\ q.role = p.role /\ q.out = p.out /\ q.queue = p.queue /\ q.config = p.config
               /\ q.neg = p.neg /\ q.announced = p.announced /\ q.local = p.local
               /\ q.found = p.found /\ q.remote = p.remote /\ q.applied = p.applied
               /\ q.dropped = p.dropped
<1> DEFINE q == [p EXCEPT !.tasks = p.tasks \ {t}]
<1>1. \A y \in Fields : y \in DOMAIN p
  BY DEF Neat, Fielded
<1>2. /\ DOMAIN q = DOMAIN p /\ q.dropped = p.dropped
      /\ q.role = p.role /\ q.out = p.out /\ q.queue = p.queue /\ q.config = p.config
      /\ q.neg = p.neg /\ q.announced = p.announced /\ q.local = p.local /\ q.found = p.found
      /\ q.remote = p.remote /\ q.tasks = p.tasks \ {t} /\ q.applied = p.applied
  BY <1>1 DEF Fields
<1> HIDE DEF q
<1>3. \A u : TidyTask(p, u) => TidyTask(q, u)
  BY <1>2 DEF TidyTask
<1>4. Tidy(q)
  BY <1>2, <1>3 DEF Neat, Tidy
<1> QED
  BY <1>2, <1>4 DEF q

(* The promise of a task is rejected.                                      *)
LEMMA TurnsFailed ==
    ASSUME NEW p, Neat(p), PageInv(p), NEW t \in p.tasks
    PROVE  Turned(p, FailTask(p, t), {})
<1> DEFINE q == [p EXCEPT !.tasks = @ \ {t}]
           a == [q EXCEPT !.negotiating = FALSE]
           b == [q EXCEPT !.pending = FALSE]
<1>1. IsCurrent(p, t) /\ t.neg = p.neg /\ TidyTask(p, t)
  BY DEF PageInv, OwnOnly, IsCurrent, Neat, Tidy
<1>2. /\ DOMAIN q = DOMAIN p /\ Tidy(q) /\ q.tasks = p.tasks \ {t}
      /\ q.role = p.role /\ q.out = p.out /\ q.queue = p.queue /\ q.config = p.config
      /\ q.neg = p.neg /\ q.announced = p.announced /\ q.local = p.local
      /\ q.found = p.found /\ q.remote = p.remote /\ q.applied = p.applied
      /\ q.dropped = p.dropped
  BY TurnsEnded
<1>3. Neat(q)
  BY <1>2 DEF Neat, Fielded
<1> HIDE DEF q
<1>4. Wire(q, a) /\ Wire(q, b)
  BY <1>3 DEF Wire, Neat, Fielded, Fields
<1>5. CASE t.kind = "offer"
  <2>1. t.cands = {}
    BY <1>1, <1>5 DEF TidyTask
  <2>2. \A c : Knows(p, c) => Knows(q, c)
    BY <1>2, <2>1 DEF Knows
  <2>3. Turned(p, q, {})
    BY <1>2, <2>2 DEF Turned, Moves, SameTalk
  <2>4. Turned(p, a, {})
    BY <1>4, <2>3, Turns
  <2> QED
    BY <1>1, <1>5, <2>4 DEF FailTask, q
<1>6. CASE t.kind # "offer"
  <2>1. Turned(q, b, {}) /\ Neat(b)
    BY <1>3, <1>4, WireTurns, TurnNeat DEF Neat
  <2> HIDE DEF b
  <2> DEFINE d == [b EXCEPT !.dropped = @ \cup {t.neg}]
  <2>2. Turned(b, d, {}) /\ d.dropped = b.dropped \cup {t.neg}
    BY <2>1, TurnsDropped
  <2>3. Turned(q, d, {}) /\ p.neg \in d.dropped /\ d.neg = p.neg
    <3>1. d.neg = b.neg
      BY <2>1 DEF Neat, Fielded, Fields
    <3> QED
      BY <1>1, <1>2, <1>4, <2>1, <2>2, <3>1, TurnTwice DEF Wire
  <2> HIDE DEF d
  <2>4. SameTalk(q, d) /\ q.dropped \subseteq d.dropped
    <3>1. p.neg # 0
      BY DEF PageInv, OwnOnly
    <3> QED
      BY <3>1, <2>3 DEF Turned, Moves, Anew
  <2>5. p.dropped \subseteq d.dropped /\ SameTalk(p, d)
    BY <1>2, <2>3, <2>4 DEF SameTalk
  <2>6. Turned(p, d, {})
    BY <1>2, <2>3, <2>5 DEF Turned, Moves
  <2> QED
    BY <1>1, <1>6, <2>6 DEF FailTask, Drop, d, b, q
<1> QED
  BY <1>5, <1>6

(* Another candidate is found.                                             *)
LEMMA SendsGathered ==
    ASSUME NEW p, Neat(p), PageInv(p), p.out = <<>>
    PROVE  Sends(p, QueueOrEmitLocalCandidate(p))
<1> DEFINE k == p.found + 1
           a == [p EXCEPT !.found = k]
           b == [a EXCEPT !.out = Append(a.out, Candidate(p.neg, k))]
           c == [a EXCEPT !.local = a.local \cup {k}]
           d == [a EXCEPT !.dropped = a.dropped \cup {p.neg}]
<1>1. \A x \in Fields : x \in DOMAIN p
  BY DEF Neat, Fielded
<1>2. p.found \in Nat /\ k \in Nat /\ p.neg \in Nat /\ 1..k = (1..p.found) \cup {k}
  BY DEF PageInv, Pages
<1>3. /\ DOMAIN a = DOMAIN p /\ a.dropped = p.dropped
      /\ a.role = p.role /\ a.out = p.out /\ a.queue = p.queue /\ a.config = p.config
      /\ a.neg = p.neg /\ a.announced = p.announced /\ a.local = p.local /\ a.found = k
      /\ a.remote = p.remote /\ a.tasks = p.tasks /\ a.applied = p.applied
  BY <1>1 DEF Fields
<1>4. \A x \in Fields : x \in DOMAIN a
  BY <1>1, <1>3
<1> HIDE DEF a, k
<1>5. ASSUME NEW q, DOMAIN q = DOMAIN p, q.role = p.role, q.queue = p.queue, q.config = p.config,
             q.neg = p.neg, q.announced = p.announced, q.found = k, q.remote = p.remote,
             q.tasks = p.tasks, q.applied = p.applied, p.dropped \subseteq q.dropped,
             p.announced => q.local = p.local,
             p.announced \/ q.local = p.local \cup {k} \/ p.neg \in q.dropped,
             p.local \subseteq q.local, Len(q.out) = 0 \/ (p.announced /\ Len(q.out) = 1),
             p.announced => Len(q.out) = 1 /\ q.out[1] = Candidate(p.neg, k)
      PROVE  Sends(p, q)
  <2>1. \A t : TidyTask(p, t) => TidyTask(q, t)
    BY <1>5 DEF TidyTask
  <2>2. ~q.announced /\ q.neg \notin q.dropped => q.local = 1..q.found
    BY <1>2, <1>5 DEF Neat, Tidy
  <2>3. Tidy(q)
    BY <1>5, <2>1, <2>2 DEF Neat, Tidy
  <2>4. \A x : Knows(p, x) => Knows(q, x)
    BY <1>5 DEF Knows
  <2>5. ASSUME NEW i \in 1..Len(q.out)
        PROVE  i = 1 /\ q.out[i] = Candidate(p.neg, k)
    <3>1. Len(q.out) # 0
      OBVIOUS
    <3>2. p.announced
      BY <1>5, <3>1
    <3>3. Len(q.out) = 1 /\ q.out[1] = Candidate(p.neg, k)
      BY <1>5, <3>2
    <3> QED
      BY <3>3
  <2>6. \A i \in 1..Len(q.out) : /\ q.out[i].neg = p.neg
                                 /\ q.out[i].kind = "offer" => i = 1 /\ ~p.announced
    BY <2>5 DEF Candidate, Signal
  <2>7. ASSUME NEW x \in 1..q.found
        PROVE  \/ x \in q.local \/ p.neg \in q.dropped
               \/ x \in 1..p.found /\ x \notin p.local
               \/ \E i \in 1..Len(q.out) : q.out[i] = Candidate(p.neg, x)
    BY <1>2, <1>5, <2>7
  <2>8. ~q.announced => Len(q.out) = 0
    BY <1>5
  <2>9. Emits(p, q)
    BY <1>5, <2>4, <2>6, <2>7, <2>8 DEF Emits
  <2> QED
    BY <1>5, <2>3, <2>9 DEF Sends
<1>6. CASE p.announced
  <2>1. /\ DOMAIN b = DOMAIN p /\ b.dropped = p.dropped
        /\ b.role = p.role /\ b.queue = p.queue /\ b.config = p.config
        /\ b.neg = p.neg /\ b.announced = p.announced /\ b.local = p.local /\ b.found = k
        /\ b.remote = p.remote /\ b.tasks = p.tasks /\ b.applied = p.applied
        /\ b.out = Append(<<>>, Candidate(p.neg, k))
    BY <1>3, <1>4 DEF Fields
  <2> HIDE DEF b
  <2>2. Len(b.out) = 1 /\ b.out[1] = Candidate(p.neg, k)
    BY <2>1
  <2>3. Sends(p, b)
    BY <1>5, <1>6, <2>1, <2>2
  <2> QED
    BY <1>6, <2>3 DEF QueueOrEmitLocalCandidate, b, a, k
<1>7. CASE ~p.announced
  <2>1. /\ DOMAIN c = DOMAIN p /\ c.dropped = p.dropped
        /\ c.role = p.role /\ c.queue = p.queue /\ c.config = p.config
        /\ c.neg = p.neg /\ c.announced = p.announced /\ c.local = p.local \cup {k} /\ c.found = k
        /\ c.remote = p.remote /\ c.tasks = p.tasks /\ c.applied = p.applied /\ c.out = <<>>
    BY <1>3, <1>4 DEF Fields
  <2>2. /\ DOMAIN d = DOMAIN p /\ d.dropped = p.dropped \cup {p.neg}
        /\ d.role = p.role /\ d.queue = p.queue /\ d.config = p.config
        /\ d.neg = p.neg /\ d.announced = p.announced /\ d.local = p.local /\ d.found = k
        /\ d.remote = p.remote /\ d.tasks = p.tasks /\ d.applied = p.applied /\ d.out = <<>>
    BY <1>3, <1>4 DEF Fields
  <2> HIDE DEF c, d
  <2>3. Len(c.out) = 0 /\ Len(d.out) = 0
    BY <2>1, <2>2
  <2>4. Sends(p, c)
    BY <1>5, <1>7, <2>1, <2>3
  <2>5. Sends(p, d)
    BY <1>5, <1>7, <2>2, <2>3
  <2> QED
    BY <1>7, <2>4, <2>5 DEF QueueOrEmitLocalCandidate, Drop, c, d, a, k
<1> QED
  BY <1>6, <1>7

(* The local description is announced: the offer or the answer, then the   *)
(* candidates that were waiting for it.                                    *)
LEMMA SendsAnnounced ==
    ASSUME NEW p, Neat(p), PageInv(p), p.out = <<>>, NEW t \in p.tasks, t.step = "announce"
    PROVE  Sends(p, StepTask(p, t))
<1> DEFINE q == [p EXCEPT !.tasks = @ \ {t}]
           r == AnnounceLocalDescription(q, t)
           n == Cardinality(p.local)
           s == Signal(IF t.kind = "offer" THEN "offer" ELSE "answer", p.neg, 0)
           cs == [i \in 1..n |-> Candidate(p.neg, i)]
<1>1. IsCurrent(p, t) /\ t.conn = p.neg /\ TidyTask(p, t)
  BY DEF PageInv, OwnOnly, IsCurrent, Neat, Tidy
<1>2. /\ DOMAIN q = DOMAIN p /\ Tidy(q) /\ q.tasks = p.tasks \ {t}
      /\ q.role = p.role /\ q.out = p.out /\ q.queue = p.queue /\ q.config = p.config
      /\ q.neg = p.neg /\ q.announced = p.announced /\ q.local = p.local
      /\ q.found = p.found /\ q.remote = p.remote /\ q.applied = p.applied
      /\ q.dropped = p.dropped
  BY TurnsEnded
<1>3. \A x \in Fields : x \in DOMAIN q
  BY <1>2 DEF Neat, Fielded
<1> HIDE DEF q
<1>4. /\ DOMAIN r = DOMAIN p /\ r.tasks = p.tasks \ {t}
      /\ r.role = p.role /\ r.queue = p.queue /\ r.config = p.config
      /\ r.neg = p.neg /\ r.announced /\ r.local = {}
      /\ r.found = p.found /\ r.remote = p.remote /\ r.applied = p.applied
      /\ r.dropped = p.dropped
  BY <1>2, <1>3 DEF Fields, AnnounceLocalDescription
<1>5. r.out = <<>> \o <<s>> \o cs
  BY <1>1, <1>2, <1>3 DEF Fields, AnnounceLocalDescription
<1>6. n \in Nat /\ p.found \in Nat /\ p.neg \in Nat
  <2>1. IsFiniteSet(p.local)
    BY DEF PageInv, OwnOnly
  <2> QED
    BY <2>1, FS_CardinalityType DEF PageInv, Pages
<1> HIDE DEF r, n
<1>7. /\ Len(r.out) = n + 1 /\ r.out[1] = s
      /\ \A i \in 1..n : r.out[i + 1] = Candidate(p.neg, i)
      /\ \A i \in 2..(n + 1) : r.out[i] = Candidate(p.neg, i - 1)
  <2>1. cs \in Seq({Candidate(p.neg, i) : i \in 1..n}) /\ Len(cs) = n
    BY <1>6
  <2>2. \A i \in 1..n : cs[i] = Candidate(p.neg, i)
    OBVIOUS
  <2> HIDE DEF cs, s
  <2>3. <<s>> \in Seq({s}) /\ Len(<<s>>) = 1 /\ <<s>>[1] = s
    OBVIOUS
  <2>4. r.out = <<s>> \o cs
    BY <1>5, <2>3
  <2>5. Len(r.out) = n + 1 /\ r.out[1] = s /\ \A i \in 2..(n + 1) : r.out[i] = cs[i - 1]
    BY <1>6, <2>1, <2>3, <2>4
  <2> QED
    BY <1>6, <2>2, <2>5
<1>8. \A i \in 1..Len(r.out) : /\ r.out[i].neg = p.neg
                               /\ r.out[i].kind = "offer" => i = 1 /\ ~p.announced
  <2>1. s.neg = p.neg /\ (s.kind = "offer" => t.kind = "offer")
    BY DEF Signal
  <2>2. t.kind = "offer" => ~p.announced
    BY <1>1 DEF TidyTask
  <2>3. \A i : Candidate(p.neg, i).neg = p.neg /\ Candidate(p.neg, i).kind # "offer"
    BY DEF Candidate, Signal
  <2> HIDE DEF s
  <2>4. \A i \in 1..Len(r.out) : i = 1 \/ i \in 2..(n + 1)
    BY <1>6, <1>7
  <2> QED
    <3>1. ASSUME NEW i \in 1..Len(r.out)
          PROVE  /\ r.out[i].neg = p.neg
                 /\ r.out[i].kind = "offer" => i = 1 /\ ~p.announced
      <4>1. CASE i = 1
        BY <1>7, <2>1, <2>2, <4>1
      <4>2. CASE i \in 2..(n + 1)
        BY <1>7, <2>3, <4>2
      <4> QED
        BY <2>4, <4>1, <4>2
    <3> QED
      BY <3>1
<1>9. ASSUME NEW k \in 1..r.found
      PROVE  \/ k \in r.local \/ p.neg \in r.dropped
             \/ k \in 1..p.found /\ k \notin p.local
             \/ \E i \in 1..Len(r.out) : r.out[i] = Candidate(p.neg, k)
  <2>1. CASE p.announced \/ p.neg \in p.dropped
    BY <1>4, <2>1 DEF Neat, Tidy
  <2>2. CASE ~p.announced /\ p.neg \notin p.dropped
    <3>1. p.local = 1..p.found
      BY <2>2 DEF Neat, Tidy
    <3>2. n = p.found
      <4>1. Cardinality(1..p.found) = IF 1 > p.found THEN 0 ELSE p.found-1+1
        BY <1>6, FS_Interval, 1 \in Int, p.found \in Int
      <4> QED
        BY <1>6, <3>1, <4>1 DEF n
    <3>3. k \in 1..n /\ k + 1 \in 1..Len(r.out)
      BY <1>4, <1>6, <1>7, <3>2
    <3> QED
      BY <1>7, <3>3
  <2> QED
    BY <2>1, <2>2
<1>10. \A c : Knows(p, c) => Knows(r, c)
  <2>1. t.cands = {}
    BY <1>1 DEF TidyTask
  <2> QED
    BY <1>4, <2>1 DEF Knows
<1>11. Emits(p, r)
  BY <1>4, <1>8, <1>9, <1>10 DEF Emits
<1>12. Tidy(r)
  <2>1. ASSUME NEW u \in p.tasks \ {t}
        PROVE  u.kind # "offer"
    <3>1. p.role = "receiver" => u.kind # "offer"
      BY DEF PageInv, OwnersOffer
    <3>2. p.role = "receiver" \/ t.kind = "offer"
      BY <1>1 DEF TidyTask
    <3> QED
      BY <3>1, <3>2 DEF Neat, Tidy
  <2>2. \A u \in r.tasks : TidyTask(r, u)
    BY <1>4, <2>1 DEF Neat, Tidy, TidyTask
  <2> QED
    BY <1>4, <2>1, <2>2 DEF Tidy
<1>13. Sends(p, r)
  BY <1>4, <1>11, <1>12 DEF Sends
<1>14. StepTask(p, t) = r
  BY <1>1 DEF StepTask, q, r
<1> QED
  BY <1>13, <1>14

(* The candidates of a task are applied, or there are none.                *)
LEMMA TurnsApplied ==
    ASSUME NEW p, Neat(p), NEW t, TidyTask(p, t), t.kind # "offer",
           DOMAIN t = {"kind", "conn", "neg", "step", "cands"}
    PROVE  /\ Turned(p, ApplyCandidates(p, t), {})
           /\ \A c \in t.cands : Knows(ApplyCandidates(p, t), c)
<1> DEFINE q == [p EXCEPT !.applied = p.applied \cup t.cands]
           u == [t EXCEPT !.step = "local", !.cands = {}]
<1>1. \A x \in Fields : x \in DOMAIN p
  BY DEF Neat, Fielded
<1>2. /\ DOMAIN q = DOMAIN p /\ q.dropped = p.dropped
      /\ q.role = p.role /\ q.out = p.out /\ q.queue = p.queue /\ q.config = p.config
      /\ q.neg = p.neg /\ q.announced = p.announced /\ q.local = p.local /\ q.found = p.found
      /\ q.remote = p.remote /\ q.tasks = p.tasks /\ q.applied = p.applied \cup t.cands
  BY <1>1 DEF Fields
<1> HIDE DEF q
<1>3. \A v : TidyTask(p, v) => TidyTask(q, v)
  BY <1>2 DEF TidyTask
<1>4. Tidy(q) /\ Neat(q)
  BY <1>2, <1>3 DEF Neat, Tidy, Fielded
<1>5. \A c : Knows(p, c) \/ c \in t.cands => Knows(q, c)
  BY <1>2 DEF Knows
<1>6. Turned(p, q, {})
  BY <1>2, <1>4, <1>5 DEF Turned, Moves, SameTalk
<1>7. ASSUME t.kind = "accept"
      PROVE  /\ Turned(p, Spawn(q, u), {})
             /\ \A c \in t.cands : Knows(Spawn(q, u), c)
  <2>1. u.kind = "accept" /\ u.step = "local" /\ u.cands = {}
    BY <1>7
  <2>2. TidyTask(q, u)
    BY <1>2, <1>7, <2>1 DEF TidyTask
  <2> HIDE DEF u
  <2>3. Turned(p, Spawn(q, u), {})
    BY <1>4, <1>6, <2>1, <2>2, TurnsSpawned, TurnTwice
  <2>4. Spawn(q, u).applied = q.applied
    BY <1>4 DEF Spawn, Neat, Fielded, Fields
  <2> QED
    BY <1>2, <2>3, <2>4 DEF Knows
<1> QED
  BY <1>5, <1>6, <1>7 DEF ApplyCandidates, Goes, q

(* A task goes on to its next await, and has nothing to announce.          *)
LEMMA TurnsStepped ==
    ASSUME NEW p, Neat(p), PageInv(p), NEW t \in p.tasks, t.step # "announce"
    PROVE  Turned(p, StepTask(p, t), {})
<1> DEFINE q == [p EXCEPT !.tasks = @ \ {t}]
           r == StepTask(p, t)
<1>1. IsCurrent(p, t) /\ t.conn = p.neg /\ t.neg = p.neg /\ TidyTask(p, t)
  BY DEF PageInv, OwnOnly, IsCurrent, Neat, Tidy
<1>2. t.step \in {"local", "remote", "apply"} /\ DOMAIN t = {"kind", "conn", "neg", "step", "cands"}
  <2>1. t \in AnyTasks
    BY DEF PageInv, Pages
  <2> QED
    BY <2>1 DEF AnyTasks
<1>3. /\ DOMAIN q = DOMAIN p /\ Tidy(q) /\ q.tasks = p.tasks \ {t}
      /\ q.role = p.role /\ q.out = p.out /\ q.queue = p.queue /\ q.config = p.config
      /\ q.neg = p.neg /\ q.announced = p.announced /\ q.local = p.local
      /\ q.found = p.found /\ q.remote = p.remote /\ q.applied = p.applied
      /\ q.dropped = p.dropped
  BY TurnsEnded
<1>4. Neat(q)
  BY <1>3 DEF Neat, Fielded
<1>5. TidyTask(q, t)
  BY <1>1, <1>3 DEF TidyTask
<1>6. \A c : Knows(p, c) => Knows(q, c) \/ c \in t.cands
  BY <1>3 DEF Knows
<1>7. ASSUME NEW z, Turned(q, z, {}), \A c \in t.cands : Knows(z, c)
      PROVE  Turned(p, z, {})
  <2>1. q.dropped \subseteq z.dropped /\ (SameTalk(q, z) \/ z.neg = 0)
    BY <1>7 DEF Turned, Moves, Anew
  <2>2. p.dropped \subseteq z.dropped /\ (SameTalk(p, z) \/ z.neg = 0)
    BY <1>3, <1>6, <1>7, <2>1 DEF SameTalk
  <2> QED
    BY <1>3, <1>7, <2>2 DEF Turned, Moves
<1>8. IsCurrent(p, t) /\ t.step # "announce"
  BY <1>1
<1> HIDE DEF q
<1>9. CASE t.step = "local"
  <2> DEFINE d == [q EXCEPT !.described = TRUE]
             u == [t EXCEPT !.step = "announce", !.cands = {}]
             z == [d EXCEPT !.tasks = d.tasks \cup {u}]
  <2>1. t.cands = {} /\ t.kind \in {"offer", "accept"}
    BY <1>1, <1>9 DEF TidyTask
  <2>2. u.kind = t.kind /\ u.step = "announce" /\ u.cands = {}
    BY <1>2
  <2> HIDE DEF u
  <2>3. Wire(q, d)
    BY <1>4 DEF Wire, Neat, Fielded, Fields
  <2>4. \A x \in Fields : x \in DOMAIN d
    BY <1>4, <2>3 DEF Wire, Neat, Fielded
  <2> HIDE DEF d
  <2>5. /\ DOMAIN z = DOMAIN d /\ z.dropped = d.dropped
        /\ z.role = d.role /\ z.out = d.out /\ z.queue = d.queue /\ z.config = d.config
        /\ z.neg = d.neg /\ z.announced = d.announced /\ z.local = d.local /\ z.found = d.found
        /\ z.remote = d.remote /\ z.tasks = d.tasks \cup {u} /\ z.applied = d.applied
    BY <2>4 DEF Fields
  <2> HIDE DEF z
  <2>6. /\ DOMAIN z = DOMAIN p /\ z.dropped = p.dropped
        /\ z.role = p.role /\ z.out = p.out /\ z.queue = p.queue /\ z.config = p.config
        /\ z.neg = p.neg /\ z.announced = p.announced /\ z.local = p.local /\ z.found = p.found
        /\ z.remote = p.remote /\ z.tasks = (p.tasks \ {t}) \cup {u} /\ z.applied = p.applied
    BY <1>3, <2>3, <2>5 DEF Wire
  <2>7. \A v \in p.tasks : TidyTask(z, v)
    BY <2>6 DEF Neat, Tidy, TidyTask
  <2>8. TidyTask(z, u)
    BY <2>1, <2>2, <2>6, <2>7 DEF TidyTask
  <2>9. \A v, w \in z.tasks : v.kind = "offer" /\ w.kind = "offer" => v = w
    <3>1. \A v \in p.tasks \ {t} : u.kind = "offer" => v.kind # "offer"
      BY <2>2 DEF Neat, Tidy
    <3> QED
      BY <2>6, <3>1 DEF Neat, Tidy
  <2>10. Tidy(z)
    BY <2>6, <2>7, <2>8, <2>9 DEF Neat, Tidy
  <2>11. \A c : Knows(p, c) => Knows(z, c)
    BY <2>1, <2>6 DEF Knows
  <2>12. Turned(p, z, {})
    BY <2>6, <2>10, <2>11 DEF Turned, Moves, SameTalk
  <2> QED
    BY <1>8, <1>9, <2>12 DEF StepTask, SetLocalDescription, Goes, Spawn, z, d, u, q
<1>10. CASE t.step = "apply"
  <2>1. t.kind # "offer"
    BY <1>1, <1>10 DEF TidyTask
  <2>2. Turned(q, ApplyCandidates(q, t), {}) /\ \A c \in t.cands : Knows(ApplyCandidates(q, t), c)
    BY <1>2, <1>4, <1>5, <2>1, TurnsApplied
  <2>3. Turned(p, ApplyCandidates(q, t), {})
    BY <1>7, <2>2
  <2> QED
    BY <1>8, <1>10, <2>3 DEF StepTask, q
<1>11. CASE t.step = "remote"
  <2> DEFINE taken == {c \in q.remote : c.neg = t.neg}
             a == [q EXCEPT !.answered = t.neg, !.pending = FALSE, !.set = TRUE, !.remote = {}]
             u == [t EXCEPT !.step = "apply", !.cands = taken]
  <2>1. t.cands = {} /\ t.kind \notin {"offer"}
    BY <1>1, <1>11 DEF TidyTask
  <2>2. /\ DOMAIN a = DOMAIN q /\ a.dropped = q.dropped
        /\ a.role = q.role /\ a.out = q.out /\ a.queue = q.queue /\ a.config = q.config
        /\ a.neg = q.neg /\ a.announced = q.announced /\ a.local = q.local /\ a.found = q.found
        /\ a.remote = {} /\ a.tasks = q.tasks /\ a.applied = q.applied
    BY <1>4 DEF Neat, Fielded, Fields
  <2> HIDE DEF a
  <2>3. \A v : TidyTask(q, v) => TidyTask(a, v)
    BY <2>2 DEF TidyTask
  <2>4. Neat(a)
    BY <1>4, <2>2, <2>3 DEF Neat, Tidy, Fielded
  <2>5. \A c : c.neg = p.neg /\ Knows(p, c) => Knows(a, c) \/ c \in taken
    BY <1>1, <1>3, <2>1, <2>2 DEF Knows
  <2>6. ASSUME NEW z, Turned(a, z, {}), \A c \in taken : Knows(z, c)
        PROVE  Turned(p, z, {})
    <3>1. a.dropped \subseteq z.dropped /\ (SameTalk(a, z) \/ z.neg = 0)
      BY <2>6 DEF Turned, Moves, Anew
    <3>2. p.dropped \subseteq z.dropped /\ (SameTalk(p, z) \/ z.neg = 0)
      BY <1>3, <2>2, <2>5, <2>6, <3>1 DEF SameTalk
    <3> QED
      BY <1>3, <2>2, <2>6, <3>2 DEF Turned, Moves
  <2>7. CASE taken = {}
    <3>1. Turned(a, ApplyCandidates(a, t), {})
      BY <1>2, <1>5, <2>1, <2>3, <2>4, TurnsApplied
    <3>2. Turned(p, ApplyCandidates(a, t), {})
      BY <2>6, <2>7, <3>1
    <3> QED
      BY <1>8, <1>11, <2>7, <3>2 DEF StepTask, SetRemoteDescription, q, a
  <2>8. CASE taken # {}
    <3>1. u.kind = t.kind /\ u.step = "apply" /\ u.cands = taken
      BY <1>2
    <3> HIDE DEF u, taken
    <3>2. TidyTask(a, u) /\ u.kind # "offer"
      BY <1>5, <2>1, <2>3, <3>1 DEF TidyTask
    <3>3. Turned(a, Spawn(a, u), {}) /\ \A c \in taken : Knows(Spawn(a, u), c)
      BY <2>4, <3>1, <3>2, TurnsSpawned
    <3>4. Turned(p, Spawn(a, u), {})
      BY <2>6, <3>3
    <3> QED
      BY <1>8, <1>11, <2>8, <3>4 DEF StepTask, SetRemoteDescription, q, a, u, taken
  <2> QED
    BY <2>7, <2>8
<1> QED
  BY <1>2, <1>9, <1>10, <1>11

(* The browser reports on the connection.                                  *)
LEMMA WiredStates ==
    ASSUME NEW p, Fielded(p), NEW state
    PROVE  Wire(p, HandleConnectionState(p, state))
<1> DEFINE i == InvalidateWork(p)
           d == [i EXCEPT !.phase = "disconnected"]
           e == Resume(d)
           a == ArmWork(p, <<"grace", 0>>)
           q == ReduceConnectionState(p, state)
<1>1. Wire(p, p) /\ Wire(p, i) /\ Fielded(i) /\ Wire(p, a) /\ Fielded(a)
      /\ \A x : Wire(p, [p EXCEPT !.phase = x])
  BY Wires DEF Wire, Fielded
<1> HIDE DEF i, a
<1>2. Wire(p, d) /\ Fielded(d)
  BY <1>1, Wires, WireTwice
<1>3. Wire(p, [a EXCEPT !.phase = "disconnected"])
  BY <1>1, Wires, WireTwice
<1> HIDE DEF d
<1>4. Wire(p, e) /\ Fielded(e)
  BY <1>2, Wires, WireTwice
<1> HIDE DEF e
<1>5. Wire(p, [e EXCEPT !.timers = @ \cup {Timer(<<"restart", 0>>)}])
  <2>1. \A x : Wire(e, [e EXCEPT !.timers = x])
    BY <1>4, Wires
  <2>2. Wire(e, [e EXCEPT !.timers = e.timers \cup {Timer(<<"restart", 0>>)}])
    BY <2>1
  <2> QED
    BY <1>4, <2>2, WireTwice
<1>6. Wire(p, BeginPassiveDeadline(e))
  BY <1>4, WiredMarks, WireTwice
<1>7. Wire(p, ConnectionEnded(p))
  BY <1>5, <1>6 DEF ConnectionEnded, e, d, i
<1>8. Wire(p, q) /\ Fielded(q)
  <2>1. /\ Wire(p, p) /\ Wire(p, ConnectionEnded(p))
        /\ Wire(p, [ArmWork(p, <<"grace", 0>>) EXCEPT !.phase = "disconnected"])
        /\ Wire(p, [p EXCEPT !.phase = "disconnected"]) /\ Wire(p, [p EXCEPT !.phase = "connecting"])
    BY <1>1, <1>3, <1>7 DEF a
  <2>2. Wire(p, q)
    BY <2>1, Zenon DEF ReduceConnectionState
  <2> QED
    BY <2>2 DEF Wire, Fielded
<1> HIDE DEF q
<1>9. Wire(p, MarkReady(q))
  BY <1>8, WiredMarks, WireTwice
<1> QED
  BY <1>8, <1>9 DEF HandleConnectionState, q

(* Each of the changes of its state.                                       *)
LEMMA TurnsStates ==
    ASSUME NEW p, Neat(p), NEW x, NEW state
    PROVE  /\ Turned(p, HandleConnectionState([p EXCEPT !.state = x], state), {})
           /\ Turned(p, HandleConnectionState([p EXCEPT !.chan = x], state), {})
           /\ Turned(p, MarkReady([p EXCEPT !.chan = x]), {})
<1> DEFINE a == [p EXCEPT !.state = x]
           b == [p EXCEPT !.chan = x]
<1>1. Wire(p, a) /\ Wire(p, b) /\ Fielded(a) /\ Fielded(b)
  BY Wires DEF Neat, Wire, Fielded
<1> HIDE DEF a, b
<1>2. /\ Wire(a, HandleConnectionState(a, state)) /\ Wire(b, HandleConnectionState(b, state))
      /\ Wire(b, MarkReady(b))
  BY <1>1, WiredStates, WiredMarks
<1>3. /\ Wire(p, HandleConnectionState(a, state)) /\ Wire(p, HandleConnectionState(b, state))
      /\ Wire(p, MarkReady(b))
  BY <1>1, <1>2, WireTwice DEF Neat
<1> QED
  BY <1>3, WireTurns DEF a, b, Neat

(* The connection is closed and another offered.                           *)
LEMMA TurnsRestarted ==
    ASSUME NEW p, Neat(p), NEW N, NEW n \in N
    PROVE  /\ \A attempt : Turned(p, StartOwnerOfferAttempt(PrepareReconnect(p), n, attempt, TRUE), N)
           /\ Turned(p, StartRtcOffer(PrepareReconnect(p), n), N)
           /\ Turned(p, RestartOffer(p, n), N)
           /\ Turned(p, ReconnectPausedTransfer(p, n), N)
<1> DEFINE c == PrepareReconnect(p)
           d == Resume(c)
<1>1. Turned(p, c, N) /\ Turned(p, p, N)
  BY TurnsCleared, WireTurns DEF Neat, Wire
<1>2. Neat(c)
  BY <1>1, TurnNeat
<1> HIDE DEF c
<1>3. Turned(p, d, N) /\ Neat(d)
  BY <1>1, <1>2, Wires, Turns, TurnNeat DEF Neat
<1> HIDE DEF d
<1>4. /\ \A attempt : Turned(p, StartOwnerOfferAttempt(c, n, attempt, TRUE), N)
      /\ Turned(p, StartRtcOffer(c, n), N) /\ Turned(p, StartRtcOffer(d, n), N)
  BY <1>1, <1>2, <1>3, TurnsOffering, TurnTwice DEF StartRtcOffer
<1> QED
  BY <1>1, <1>4 DEF RestartOffer, ReconnectPausedTransfer, c, d

(* The peer is rebuilt after a change of the network.                      *)
LEMMA TurnsRebuilt ==
    ASSUME NEW p, Neat(p), NEW N
    PROVE  Turned(p, RebuildPeer(p), N)
<1> DEFINE r == ResetPeerWaiting(p)
<1>1. Turned(p, p, N) /\ Turned(p, r, N)
  BY WiredMarks, WireTurns DEF Neat, Wire
<1>2. Neat(r)
  BY <1>1, TurnNeat
<1> HIDE DEF r
<1>3. Turned(p, PrepareReconnect(r), N)
  BY <1>1, <1>2, TurnsCleared, TurnTwice
<1> QED
  BY <1>1, <1>3 DEF RebuildPeer, r

(* A timer goes off.  Only the owner's lead to an offer.                   *)
LEMMA TurnsFired ==
    ASSUME NEW p, Neat(p), PageInv(p), NEW t \in p.timers, NEW N, NEW n,
           p.role = "owner" => n \in N
    PROVE  Turned(p, FireTimer(p, t, n), N)
<1> DEFINE q == [p EXCEPT !.timers = @ \ {t}]
           i == InvalidateWork(q)
           w == [q EXCEPT !.work = NoWork]
<1>1. Wire(p, q)
  <2>1. \A x : Wire(p, [p EXCEPT !.timers = x])
    BY Wires DEF Neat
  <2> QED
    BY <2>1
<1>2. Turned(p, q, N) /\ Neat(q) /\ q.role = p.role /\ q.work = p.work
  <2>1. Turned(p, q, N)
    BY <1>1, WireTurns DEF Neat
  <2>3. Neat(q) /\ q.role = p.role
    BY <2>1, TurnNeat DEF Turned
  <2>2. q.work = p.work
    BY DEF Neat, Fielded, Fields
  <2> QED
    BY <2>1, <2>2, <2>3
<1> HIDE DEF q
<1>3. Turned(p, i, N) /\ Neat(i) /\ Turned(p, w, N) /\ Neat(w)
  BY <1>2, Wires, Turns, TurnNeat DEF Neat
<1> HIDE DEF i, w
<1>4. /\ Turned(p, MarkReady(q), N) /\ Turned(p, MarkFailed(q), N)
      /\ Turned(p, BeginPassiveDeadline(i), N) /\ \A work : Turned(p, ArmWork(q, work), N)
  BY <1>2, <1>3, Wires, WiredMarks, Turns DEF Neat
<1>5. ASSUME p.role = "owner"
      PROVE  /\ Turned(p, RestartOffer(q, n), N) /\ Turned(p, StartRtcOffer(PrepareReconnect(i), n), N)
             /\ \A attempt : Turned(p, StartOwnerOfferAttempt(PrepareReconnect(w), n, attempt, TRUE), N)
  BY <1>2, <1>3, <1>5, TurnsRestarted, TurnTwice
<1>6. p.role \in Ends
  BY DEF PageInv, Pages
<1>7. p.role = "receiver" => t.work[1] # "restart" /\ p.work[1] \notin {"offer", "retry"}
  BY DEF PageInv, OwnersOffer
<1>8. WorkIsCurrent(p, t) => p.work = t.work
  BY DEF WorkIsCurrent
<1>9. WorkIsCurrent(p, t) => Turned(p, WorkDue(q, t, n), N)
  <2>1. SUFFICES ASSUME p.work = t.work
                 PROVE  Turned(p, WorkDue(q, t, n), N)
    BY <1>8
  <2>2. CASE t.work[1] = "offer"
    BY <1>4, <2>2 DEF WorkDue
  <2>3. CASE t.work[1] = "retry"
    BY <1>5, <1>6, <1>7, <2>1, <2>3 DEF WorkDue, Ends, w
  <2>4. CASE t.work[1] = "grace"
    <3>1. IF q.role = "owner" THEN Turned(p, StartRtcOffer(PrepareReconnect(i), n), N)
          ELSE Turned(p, BeginPassiveDeadline(i), N)
      BY <1>2, <1>4, <1>5
    <3> QED
      BY <2>4, <3>1 DEF WorkDue, i
  <2>5. CASE t.work[1] \notin {"offer", "retry", "grace"}
    BY <1>4, <2>5 DEF WorkDue
  <2> QED
    BY <2>2, <2>3, <2>4, <2>5
<1>10. t.work[1] = "restart" => Turned(p, RestartOffer(q, n), N)
  BY <1>5, <1>6, <1>7 DEF Ends
<1> QED
  BY <1>2, <1>4, <1>9, <1>10 DEF FireTimer, q

(* A page that has moved on by itself is seen as it was.                   *)
LEMMA SeenTurned ==
    ASSUME NEW e \in Ends, NEW p, NEW q, NEW o, NEW in, NEW out, NEW m \in Nat,
           p.neg \in Nat, o.neg \in Nat, Numbered(in), Numbered(out),
           Turned(p, q, {}), Seen(e, p, o, in, out, m)
    PROVE  Seen(e, q, o, in, out, m) /\ q.neg \in Nat
<1>1. Moves(p, q, {}) /\ (q.neg = p.neg \/ q.neg = 0)
  BY DEF Turned, Moves, SameTalk, Anew
<1>2. p.neg <= m
  BY DEF Seen, Exchange
<1>3. q.neg \in Nat /\ q.neg <= m /\ m <= m
  BY <1>1, <1>2
<1>4. \A x \in {} : x > m
  OBVIOUS
<1> QED
  BY <1>1, <1>3, <1>4, Turning

(* What is left of a way when its first signal is taken.                   *)
Pops(w, v) == Len(w) = Len(v) + 1 /\ \A i \in 1..Len(v) : v[i] = w[i + 1]

(* Only the first is missing from it.                                      *)
LEMMA PoppingThins ==
    ASSUME NEW w, NEW v, Numbered(w), Numbered(v), Pops(w, v)
    PROVE  /\ Thinned(w, v)
           /\ \A j \in 1..Len(w) : (\E i \in 1..Len(v) : v[i] = w[j]) \/ j = 1
<1> DEFINE f == [i \in 1..Len(v) |-> i + 1]
<1>1. Len(v) \in Nat /\ Len(w) = Len(v) + 1
  BY DEF Numbered, Pops
<1>2. \A i \in 1..Len(v) : f[i] \in 1..Len(w) /\ v[i] = w[f[i]]
  BY <1>1 DEF Pops
<1>3. \A i, j \in 1..Len(v) : i < j => f[i] < f[j]
  BY <1>1
<1>4. ASSUME NEW j \in 1..Len(w), j # 1
      PROVE  \E i \in 1..Len(v) : v[i] = w[j]
  <2>1. j - 1 \in 1..Len(v) /\ (j - 1) + 1 = j
    BY <1>1, <1>4
  <2> QED
    BY <2>1 DEF Pops
<1> HIDE DEF f
<1> QED
  BY <1>2, <1>3, <1>4 DEF Thinned

(* The signal s is the next for a page p that can take it.                 *)
NextFor(e, p, o, in, out, m, v, s) ==
    /\ e \in Ends /\ Neat(p) /\ p.config = TRUE /\ p.role = e /\ (e = "owner" => s.kind # "offer")
    /\ p.neg \in Nat /\ o.neg \in Nat /\ s.neg \in Nat /\ m \in Nat
    /\ Numbered(in) /\ Numbered(out) /\ Numbered(v)
    /\ Pops(in, v) /\ in[1] = s /\ Seen(e, p, o, in, out, m)

(* A page with a config takes the signal that is next.                     *)
LEMMA SeenTaken ==
    ASSUME NEW e, NEW p, NEW o, NEW in, NEW out, NEW m, NEW v, NEW s,
           NextFor(e, p, o, in, out, m, v, s)
    PROVE  LET q == AcceptRtcSignal(p, s)
           IN  /\ Seen(e, q, o, v, out, m) /\ Neat(q) /\ q.neg \in Nat
               /\ q.role = p.role /\ q.out = p.out /\ q.queue = p.queue /\ q.config = p.config
<1> USE DEF NextFor
<1> DEFINE r == EnsureRtcPeer(p)
           d == [p EXCEPT !.dropped = @ \cup {s.neg}]
<1>1. Thinned(in, v) /\ \A j \in 1..Len(in) : (\E i \in 1..Len(v) : v[i] = in[j]) \/ j = 1
  BY PoppingThins
<1>2. ASSUME NEW q, Turned(p, q, {}), Spare(q, o, in, 1)
      PROVE  Seen(e, q, o, v, out, m) /\ Neat(q) /\ q.neg \in Nat
             /\ q.role = p.role /\ q.out = p.out /\ q.queue = p.queue /\ q.config = p.config
  <2>1. Seen(e, q, o, in, out, m) /\ q.neg \in Nat
    BY <1>2, SeenTurned
  <2>2. Seen(e, q, o, v, out, m)
    BY <1>1, <1>2, <2>1, Losing
  <2> QED
    BY <1>2, <2>1, <2>2, TurnNeat DEF Turned
<1>3. CASE ~p.sees
  <2>1. Turned(p, d, {}) /\ s.neg \in d.dropped
    BY TurnsDropped
  <2> HIDE DEF d
  <2>2. Spare(d, o, in, 1)
    BY <2>1 DEF Spare
  <2>3. AcceptRtcSignal(p, s) = d
    BY <1>3 DEF AcceptRtcSignal, Drop, d
  <2> QED
    BY <1>2, <2>1, <2>2, <2>3
<1>4. Turned(p, r, {}) /\ Neat(r) /\ r.neg = p.neg /\ r.role = p.role
  <2>1. Wire(p, r)
    BY Wires DEF Neat
  <2>2. Turned(p, r, {})
    BY <2>1, WireTurns DEF Neat
  <2> QED
    BY <2>1, <2>2, TurnNeat DEF Wire
<1> HIDE DEF r
<1>5. CASE p.sees /\ s.kind = "answer"
  <2>1. Turned(p, AcceptAnswer(r, s), {})
    BY <1>4, TurnsAnswer, TurnTwice
  <2>2. Spare(AcceptAnswer(r, s), o, in, 1)
    BY <1>5 DEF Spare
  <2>3. AcceptRtcSignal(p, s) = AcceptAnswer(r, s)
    BY <1>5 DEF AcceptRtcSignal, r
  <2> QED
    BY <1>2, <2>1, <2>2, <2>3
<1>6. CASE p.sees /\ s.kind \notin {"offer", "answer"}
  <2> DEFINE q == AcceptCandidate(r, s)
  <2>1. Turned(r, q, {}) /\ q.neg = p.neg /\ (p.neg = s.neg => Knows(q, s) \/ s.neg \in q.dropped)
    BY <1>4, TurnsCandidate
  <2> HIDE DEF q
  <2>2. Turned(p, q, {})
    BY <1>4, <2>1, TurnTwice
  <2>3. Spare(q, o, in, 1)
    BY <2>1 DEF Spare
  <2>4. AcceptRtcSignal(p, s) = q
    BY <1>6 DEF AcceptRtcSignal, q, r
  <2> QED
    BY <1>2, <2>2, <2>3, <2>4
<1>7. CASE p.sees /\ s.kind = "offer"
  <2> DEFINE q == AcceptOffer(r, s)
  <2>1. e = "receiver" /\ r.role = "receiver"
    BY <1>4, <1>7 DEF Ends
  <2>2. Turned(r, q, {s.neg}) /\ (r.neg # s.neg => Anew(q, {s.neg}))
    BY <1>4, <2>1, TurnsOffer
  <2>3. AcceptRtcSignal(p, s) = q
    BY <1>7 DEF AcceptRtcSignal, q, r
  <2>4. CASE r.neg = s.neg
    <3>1. q = r
      BY <2>4 DEF AcceptOffer
    <3>2. Spare(r, o, in, 1)
      BY <1>7 DEF Spare
    <3> QED
      BY <1>2, <1>4, <2>3, <3>1, <3>2
  <2>5. CASE r.neg # s.neg
    <3> HIDE DEF q
    <3>1. Seen(e, r, o, in, out, m)
      BY <1>4, SeenTurned
    <3>2. Anew(q, {s.neg}) /\ q.neg \in Nat /\ r.dropped \subseteq q.dropped
      BY <2>2, <2>5 DEF Anew, Turned, Moves
    <3>3. Seen(e, q, o, v, out, m)
      BY <1>4, <1>7, <2>1, <3>1, <3>2, Answering DEF Pops
    <3>4. Neat(q) /\ q.role = r.role /\ q.out = r.out /\ q.queue = r.queue /\ q.config = r.config
      BY <1>4, <2>2, TurnNeat DEF Turned
    <3> QED
      BY <1>4, <2>3, <3>2, <3>3, <3>4 DEF Turned
  <2> QED
    BY <2>4, <2>5
<1> QED
  BY <1>3, <1>5, <1>6, <1>7

(* What is left of a way when so many signals are taken.                   *)
Rest(w, n) == [j \in 1..(Len(w) - n) |-> w[j + n]]

(* It begins after those.                                                  *)
LEMMA Resting ==
    ASSUME NEW w, Numbered(w), NEW n \in 0..Len(w)
    PROVE  /\ Numbered(Rest(w, n)) /\ Len(Rest(w, n)) = Len(w) - n
           /\ \A j \in 1..(Len(w) - n) : Rest(w, n)[j] = w[j + n]
<1>1. Len(w) \in Nat /\ Len(w) - n \in Nat
  BY DEF Numbered
<1>2. Rest(w, n) \in Seq({w[j + n] : j \in 1..(Len(w) - n)}) /\ Len(Rest(w, n)) = Len(w) - n
  <2> DEFINE d == Len(w) - n
             S == {w[j + n] : j \in 1..d}
             g == [j \in 1..d |-> w[j + n]]
  <2>1. d \in Nat /\ g \in [1..d -> S]
    BY <1>1
  <2> HIDE DEF d, S
  <2>2. ASSUME NEW T, NEW k \in Nat, NEW h \in [1..k -> T]
        PROVE  h \in Seq(T) /\ Len(h) = k
    OBVIOUS
  <2>3. g \in Seq(S) /\ Len(g) = d
    BY <2>1, <2>2
  <2> QED
    BY <2>3 DEF Rest, d, S
<1>3. \A j \in 1..(Len(w) - n) : Rest(w, n)[j] = w[j + n] /\ j + n \in 1..Len(w)
  BY <1>1 DEF Rest
<1> QED
  BY <1>1, <1>2, <1>3 DEF Numbered

(* The same signals are on a way.                                          *)
Alike(w, v) == Len(v) = Len(w) /\ \A i \in 1..Len(w) : v[i] = w[i]

(* Then it has lost none.                                                  *)
LEMMA AlikeThins ==
    ASSUME NEW w, NEW v, Alike(w, v)
    PROVE  Thinned(w, v) /\ \A j \in 1..Len(w) : \E i \in 1..Len(v) : v[i] = w[j]
<1> DEFINE g == [i \in 1..Len(v) |-> i]
<1>1. \A i \in 1..Len(v) : g[i] = i
  OBVIOUS
<1> HIDE DEF g
<1> QED
  BY <1>1 DEF Thinned, Alike

(* The page p has a config and the signals queue to take, and f is how.     *)
Replayable(e, p, o, in, out, m, queue, f) ==
    /\ e \in Ends /\ m \in Nat
    /\ Neat(p) /\ p.config = TRUE /\ p.role = e /\ p.neg \in Nat /\ o.neg \in Nat
    /\ Numbered(in) /\ Numbered(out) /\ Len(queue) \in Nat /\ Len(queue) <= Len(in)
    /\ \A i \in 1..Len(queue) : in[i] = queue[i] /\ (e = "owner" => queue[i].kind # "offer")
    /\ Replays(f, p, queue, Len(queue)) /\ Seen(e, p, o, in, out, m)

(* The queued signals are taken, one after the other.                      *)
LEMMA SeenReplayed ==
    ASSUME NEW e, NEW p, NEW o, NEW in, NEW out, NEW m, NEW queue, NEW f,
           Replayable(e, p, o, in, out, m, queue, f)
    PROVE  LET q == f[Len(queue)]
           IN  /\ Seen(e, q, o, Rest(in, Len(queue)), out, m) /\ Neat(q) /\ q.neg \in Nat
               /\ q.role = p.role /\ q.out = p.out /\ q.queue = p.queue /\ q.config = p.config
<1> USE DEF Replayable
<1> DEFINE last == Len(queue)
           Good(q, n) == /\ Seen(e, q, o, Rest(in, n), out, m) /\ Neat(q) /\ q.neg \in Nat
                         /\ q.role = p.role /\ q.out = p.out /\ q.queue = p.queue
                         /\ q.config = p.config
           bad == {n \in 0..last : ~Good(f[n], n)}
<1>1. last \in Nat /\ Len(in) \in Nat
  BY DEF Numbered
<1>2. f = [i \in 0..last |-> IF i = 0 THEN p ELSE AcceptRtcSignal(f[i - 1], queue[i])]
  BY DEF Replays
<1>3. Good(p, 0)
  <2>1. /\ Numbered(Rest(in, 0)) /\ Len(Rest(in, 0)) = Len(in)
        /\ \A j \in 1..Len(in) : Rest(in, 0)[j] = in[j]
    <3>1. 0 \in 0..Len(in) /\ Len(in) - 0 = Len(in) /\ \A j \in 1..Len(in) : j + 0 = j
      BY <1>1
    <3> QED
      BY <3>1, Resting
  <2>2. Alike(in, Rest(in, 0))
    BY <2>1 DEF Alike
  <2>3. Seen(e, p, o, Rest(in, 0), out, m)
    BY <2>1, <2>2, AlikeThins, Losing
  <2> QED
    BY <2>3
<1> HIDE DEF Good
<1>4. ASSUME NEW n \in 1..last, Good(f[n - 1], n - 1)
      PROVE  Good(AcceptRtcSignal(f[n - 1], queue[n]), n)
  <2> DEFINE w == Rest(in, n - 1)
             v == Rest(in, n)
             q == f[n - 1]
  <2>1. n - 1 \in 0..Len(in) /\ n \in 0..Len(in) /\ n \in 1..Len(in)
    BY <1>1
  <2>2. /\ Numbered(w) /\ Len(w) = Len(in) - (n - 1)
        /\ \A j \in 1..(Len(in) - (n - 1)) : w[j] = in[j + (n - 1)]
    BY <2>1, Resting
  <2>3. /\ Numbered(v) /\ Len(v) = Len(in) - n
        /\ \A j \in 1..(Len(in) - n) : v[j] = in[j + n]
    BY <2>1, Resting
  <2> HIDE DEF w, v, q
  <2>4. Pops(w, v)
    <3>1. Len(w) = Len(v) + 1
      BY <1>1, <2>1, <2>2, <2>3
    <3>2. ASSUME NEW j \in 1..Len(v)
          PROVE  v[j] = w[j + 1]
      <4>1. j \in 1..(Len(in) - n) /\ j + 1 \in 1..(Len(in) - (n - 1)) /\ (j + 1) + (n - 1) = j + n
        BY <1>1, <2>1, <2>3
      <4> QED
        BY <2>2, <2>3, <4>1
    <3> QED
      BY <3>1, <3>2 DEF Pops
  <2>5. w[1] = queue[n]
    <3>1. 1 \in 1..(Len(in) - (n - 1)) /\ 1 + (n - 1) = n
      BY <1>1, <2>1
    <3> QED
      BY <2>2, <3>1
  <2>6. queue[n].neg \in Nat /\ (e = "owner" => queue[n].kind # "offer")
    BY <2>1 DEF Numbered
  <2>7. /\ Seen(e, q, o, w, out, m) /\ Neat(q) /\ q.neg \in Nat /\ q.role = e /\ q.config = TRUE
        /\ q.out = p.out /\ q.queue = p.queue /\ q.config = p.config
    BY <1>4 DEF Good, w, q
  <2> DEFINE r == AcceptRtcSignal(q, queue[n])
  <2>8. /\ Seen(e, r, o, v, out, m) /\ Neat(r) /\ r.neg \in Nat
        /\ r.role = q.role /\ r.out = q.out /\ r.queue = q.queue /\ r.config = q.config
    <3>1. Numbered(w) /\ Numbered(v)
      BY <2>2, <2>3
    <3>2. NextFor(e, q, o, w, out, m, v, queue[n])
      BY <2>4, <2>5, <2>6, <2>7, <3>1 DEF NextFor
    <3> QED
      BY <3>2, SeenTaken
  <2> HIDE DEF r
  <2>9. Good(r, n)
    BY <2>7, <2>8 DEF Good, v
  <2> QED
    BY <2>9 DEF r, q
<1>5. ASSUME bad # {}
      PROVE  FALSE
  <2>1. bad \in SUBSET Nat
    OBVIOUS
  <2>2. PICK n \in bad : \A k \in bad : n <= k
    BY <1>5, <2>1, Least
  <2>3. n \in 0..last /\ ~Good(f[n], n)
    OBVIOUS
  <2>4. n # 0
    <3>1. f[0] = p
      BY <1>1, <1>2
    <3> QED
      BY <1>3, <2>3, <3>1
  <2>5. n - 1 \in 0..last /\ n - 1 \notin bad /\ n \in 1..last
    BY <1>1, <2>2, <2>3, <2>4
  <2>6. Good(f[n - 1], n - 1)
    BY <2>5
  <2>7. f[n] = AcceptRtcSignal(f[n - 1], queue[n])
    BY <1>2, <2>3, <2>4
  <2> QED
    BY <1>4, <2>3, <2>5, <2>6, <2>7
<1>6. Good(f[last], last)
  BY <1>1, <1>5
<1> QED
  BY <1>6 DEF Good

(* The bound on negotiations is that of the owner's and what has been sent *)
(* to the receiver.                                                        *)
LEMMA Bounded ==
    ASSUME NEW e \in Ends, NEW p, NEW q, NEW o, NEW in, NEW v, NEW out,
           NEW m \in Nat, NEW n \in Nat, NEW k \in Nat,
           q.neg \in Nat, o.neg \in Nat, Numbered(out), Numbered(v), e = "receiver" => n = m,
           m <= k, q.neg <= k, Seen(e, p, o, in, out, m), Seen(e, q, o, v, out, n)
    PROVE  Seen(e, q, o, v, out, k)
<1>1. CASE e = "owner"
  <2>1. Exchange(p, o, in, out, m) /\ Exchange(q, o, v, out, n)
    BY <1>1 DEF Seen
  <2>2. o.neg <= k /\ \A i \in 1..Len(out) : out[i].neg <= k
    BY <2>1 DEF Exchange, Numbered
  <2>3. Exchange(q, o, v, out, k)
    BY <2>1, <2>2 DEF Exchange
  <2> QED
    BY <1>1, <2>3 DEF Seen
<1>2. CASE e = "receiver"
  <2>1. Exchange(o, q, out, v, m)
    BY <1>2 DEF Seen
  <2>2. o.neg <= k /\ \A i \in 1..Len(v) : v[i].neg <= k
    BY <2>1 DEF Exchange, Numbered
  <2>3. Exchange(o, q, out, v, k)
    BY <2>1, <2>2 DEF Exchange
  <2> QED
    BY <1>2, <2>3 DEF Seen
<1> QED
  BY <1>1, <1>2 DEF Ends

(* The RTC config arrives: the page offers or waits for an offer, and      *)
(* takes the signals it has queued.                                        *)
LEMMA SeenConfigured ==
    ASSUME NEW e \in Ends, NEW p, NEW o, NEW in, NEW out, NEW m \in Nat, NEW next, next = m + 1,
           PageInv(p), Neat(p), p.role = e, o.neg \in Nat, Numbered(in), Numbered(out),
           Len(p.queue) <= Len(in), \A i \in 1..Len(p.queue) : in[i] = p.queue[i],
           Seen(e, p, o, in, out, m)
    PROVE  LET q == ApplyRtcConfig(p, next)
           IN  /\ \A k \in Nat : m <= k /\ q.neg <= k => Seen(e, q, o, Rest(in, Len(p.queue)), out, k)
               /\ Neat(q) /\ q.neg \in Nat /\ q.queue = <<>> /\ q.out = p.out /\ q.role = e
               /\ p.queue = <<>> => q.neg \in {p.neg, 0} \cup (IF e = "owner" THEN {next} ELSE {})
<1> DEFINE N == IF e = "owner" THEN {next} ELSE {}
           c == [p EXCEPT !.config = TRUE]
           s == SyncRtcPeers(c, next)
           z == [s EXCEPT !.queue = <<>>]
           last == Len(p.queue)
           f == CHOOSE g : g = [i \in 0..last |-> IF i = 0 THEN z
                                                  ELSE AcceptRtcSignal(g[i - 1], p.queue[i])]
           n == IF s.neg > m THEN s.neg ELSE m
<1>1. last \in Nat /\ p.neg \in Nat /\ Len(in) \in Nat
  BY DEF PageInv, Pages, Numbered
<1>2. \A i \in 1..Len(p.queue) : e = "owner" => p.queue[i].kind # "offer"
  BY DEF PageInv, OwnersOffer
<1>3. ApplyRtcConfig(p, next) = f[last]
  BY DEF ApplyRtcConfig
<1>4. /\ DOMAIN c = DOMAIN p /\ c.dropped = p.dropped /\ c.config = TRUE
      /\ c.role = p.role /\ c.out = p.out
      /\ c.neg = p.neg /\ c.announced = p.announced /\ c.local = p.local /\ c.found = p.found
      /\ c.remote = p.remote /\ c.tasks = p.tasks /\ c.applied = p.applied
  BY DEF Neat, Fielded, Fields
<1> HIDE DEF c
<1>5. Neat(c) /\ Moves(p, c, {})
  <2>1. \A t : TidyTask(p, t) => TidyTask(c, t)
    BY <1>4 DEF TidyTask
  <2>2. \A x : Knows(p, x) => Knows(c, x)
    BY <1>4 DEF Knows
  <2> QED
    BY <1>4, <2>1, <2>2 DEF Neat, Tidy, Fielded, Moves, SameTalk
<1>6. Seen(e, c, o, in, out, m)
  <2>1. p.neg <= m /\ m <= m /\ c.neg \in Nat /\ c.neg <= m
    BY <1>1, <1>4 DEF Seen, Exchange
  <2>2. \A x \in {} : x > m
    OBVIOUS
  <2> QED
    BY <1>1, <1>5, <2>1, <2>2, Turning
<1>7. Turned(c, s, N)
  BY <1>4, <1>5, TurnsSynced
<1> HIDE DEF s
<1>8. /\ Neat(s) /\ s.role = e /\ s.out = p.out /\ s.config = TRUE
      /\ s.neg \in {p.neg, 0} \cup N /\ s.neg \in Nat
  <2>1. Neat(s) /\ s.role = e /\ s.out = p.out /\ s.config = TRUE
    BY <1>4, <1>5, <1>7, TurnNeat DEF Turned
  <2>2. s.neg \in {p.neg, 0} \cup N
    BY <1>4, <1>7 DEF Turned, Moves, SameTalk, Anew
  <2> QED
    BY <1>1, <2>1, <2>2
<1>9. Seen(e, s, o, in, out, n) /\ n \in Nat /\ (e = "receiver" => n = m)
  <2>1. n \in Nat /\ m <= n /\ s.neg <= n /\ c.neg \in Nat
    BY <1>1, <1>4, <1>8
  <2>2. (e = "receiver" => N = {}) /\ \A x \in N : x > m
    OBVIOUS
  <2>3. p.neg <= m
    BY DEF Seen, Exchange
  <2>4. e = "receiver" => n = m
    BY <1>1, <1>8, <2>3
  <2>5. Moves(c, s, N)
    BY <1>7 DEF Turned
  <2> HIDE DEF n, N
  <2>6. Seen(e, s, o, in, out, n)
    BY <1>6, <1>8, <2>1, <2>2, <2>5, Turning
  <2> QED
    BY <2>1, <2>4, <2>6
<1> HIDE DEF n, N
<1>10. /\ DOMAIN z = DOMAIN s /\ z.dropped = s.dropped /\ z.config = s.config
       /\ z.role = s.role /\ z.out = s.out /\ z.queue = <<>>
       /\ z.neg = s.neg /\ z.announced = s.announced /\ z.local = s.local /\ z.found = s.found
       /\ z.remote = s.remote /\ z.tasks = s.tasks /\ z.applied = s.applied
  BY <1>8 DEF Neat, Fielded, Fields
<1> HIDE DEF z
<1>11. Neat(z) /\ Moves(s, z, {})
  <2>1. \A t : TidyTask(s, t) => TidyTask(z, t)
    BY <1>10 DEF TidyTask
  <2>2. \A x : Knows(s, x) => Knows(z, x)
    BY <1>10 DEF Knows
  <2> QED
    BY <1>8, <1>10, <2>1, <2>2 DEF Neat, Tidy, Fielded, Moves, SameTalk
<1>12. Seen(e, z, o, in, out, n)
  <2>1. s.neg <= n /\ n <= n /\ z.neg \in Nat /\ z.neg <= n
    BY <1>8, <1>9, <1>10 DEF Seen, Exchange
  <2>2. \A x \in {} : x > n
    OBVIOUS
  <2> QED
    BY <1>8, <1>9, <1>11, <2>1, <2>2, Turning
<1>13. \E g : g = [i \in 0..last |-> IF i = 0 THEN z ELSE AcceptRtcSignal(g[i - 1], p.queue[i])]
  <2>1. \E g : Replays(g, z, p.queue, last)
    BY <1>1, ReplayExists
  <2> QED
    BY <2>1 DEF Replays
<1>14. f = [i \in 0..last |-> IF i = 0 THEN z ELSE AcceptRtcSignal(f[i - 1], p.queue[i])]
  BY <1>13
<1> HIDE DEF f
<1>15. Replays(f, z, p.queue, Len(p.queue))
  BY <1>14 DEF Replays
<1> DEFINE q == f[Len(p.queue)]
<1>16. /\ Seen(e, q, o, Rest(in, Len(p.queue)), out, n) /\ Neat(q) /\ q.neg \in Nat
       /\ q.role = z.role /\ q.out = z.out /\ q.queue = z.queue /\ q.config = z.config
  <2>1. z.config = TRUE /\ z.role = e /\ z.neg \in Nat
    BY <1>8, <1>10
  <2>2. Replayable(e, z, o, in, out, n, p.queue, f)
    BY <1>1, <1>2, <1>9, <1>11, <1>12, <1>15, <2>1 DEF Replayable
  <2> QED
    BY <2>2, SeenReplayed
<1> HIDE DEF q
<1>17. Numbered(Rest(in, Len(p.queue)))
  <2>1. Len(p.queue) \in 0..Len(in)
    BY <1>1
  <2> QED
    BY <2>1, Resting
<1>18. \A k \in Nat : m <= k /\ q.neg <= k => Seen(e, q, o, Rest(in, Len(p.queue)), out, k)
  BY <1>9, <1>16, <1>17, Bounded
<1>19. Neat(q) /\ q.neg \in Nat /\ q.queue = <<>> /\ q.out = p.out /\ q.role = e
  BY <1>8, <1>10, <1>16
<1>20. p.queue = <<>> => q.neg \in {p.neg, 0} \cup N
  <2>1. p.queue = <<>> => last = 0
    OBVIOUS
  <2>2. last = 0 => q = z
    BY <1>14 DEF q
  <2> QED
    BY <1>8, <1>10, <2>1, <2>2
<1>21. ApplyRtcConfig(p, next) = q
  BY <1>3 DEF q
<1> QED
  BY <1>18, <1>19, <1>21, <1>20 DEF N

----------------------------------------------------------------------------
(* The exchange, step by step.                                             *)

(* What is on its way to a page has a number.                              *)
LEMMA Piping ==
    ASSUME NEW a \in Seq(NetMessages), NEW b \in Seq(NetMessages)
    PROVE  /\ a \o b \in Seq(NetMessages) /\ Joins(a, b, a \o b)
           /\ Numbered(a) /\ Numbered(b) /\ Numbered(a \o b)
<1>1. \A s \in NetMessages : s.neg \in Nat
  BY DEF NetMessages, AnySignals, Presence, Signal
<1>2. ASSUME NEW w \in Seq(NetMessages)
      PROVE  Numbered(w)
  <2>1. Len(w) \in Nat /\ \A i \in 1..Len(w) : w[i] \in NetMessages
    OBVIOUS
  <2> QED
    BY <1>1, <2>1 DEF Numbered
<1>3. a \o b \in Seq(NetMessages)
  OBVIOUS
<1>4. Joins(a, b, a \o b)
  <2>1. Len(a \o b) = Len(a) + Len(b)
    OBVIOUS
  <2>2. \A i \in 1..Len(a) : (a \o b)[i] = a[i]
    OBVIOUS
  <2>3. \A i \in 1..Len(b) : (a \o b)[Len(a) + i] = b[i]
    OBVIOUS
  <2> QED
    BY <2>1, <2>2, <2>3 DEF Joins
<1> QED
  BY <1>2, <1>3, <1>4

(* What the invariants say of a page and of the other.                     *)
LEMMA Standing ==
    ASSUME SignalingInv, ExchangeInv, NEW e \in Ends
    PROVE  /\ Other(e) \in Ends /\ Other(e) # e /\ Other(Other(e)) = e /\ Ends = {e, Other(e)}
           /\ PageInv(page[e]) /\ Neat(page[e]) /\ page[e].role = e /\ page[e].neg \in Nat
           /\ Quiet(page[e]) /\ Quiet(page[Other(e)]) /\ page[Other(e)].neg \in Nat
           /\ page[e].queue \in Seq(NetMessages) /\ net[e] \in Seq(NetMessages)
           /\ Pipe(e) \in Seq(NetMessages) /\ Numbered(Pipe(e))
           /\ Pipe(Other(e)) \in Seq(NetMessages) /\ Numbered(Pipe(Other(e))) /\ negs \in Nat
           /\ Seen(e, page[e], page[Other(e)], Pipe(e), Pipe(Other(e)), negs)
<1>1. Other(e) \in Ends /\ Other(e) # e /\ Other(Other(e)) = e /\ Ends = {e, Other(e)}
  BY DEF Ends, Other
<1>2. ASSUME NEW f \in Ends
      PROVE  /\ PageInv(page[f]) /\ Neat(page[f]) /\ page[f].role = f /\ page[f].neg \in Nat
             /\ Quiet(page[f]) /\ page[f].queue \in Seq(NetMessages) /\ net[f] \in Seq(NetMessages)
             /\ Pipe(f) \in Seq(NetMessages) /\ Numbered(Pipe(f))
  <2>1. PageInv(page[f]) /\ page[f].role = f /\ page[f] \in Pages /\ Quiet(page[f])
    BY DEF SignalingInv, Sound, PageInv, ExchangeInv
  <2>2. Neat(page[f])
    BY <2>1 DEF Neat, Fielded, Fields, Pages, Quiet
  <2>3. page[f].queue \in Seq(AnySignals) /\ page[f].neg \in Nat
    BY <2>1 DEF Pages
  <2>4. page[f].queue \in Seq(NetMessages)
    BY <2>3 DEF NetMessages
  <2>5. net[f] \in Seq(NetMessages)
    BY DEF SignalingInv, Nets
  <2> QED
    BY <2>1, <2>2, <2>3, <2>4, <2>5, Piping DEF Pipe
<1>3. Seen(e, page[e], page[Other(e)], Pipe(e), Pipe(Other(e)), negs)
  BY DEF ExchangeInv, Seen, Ends, Other
<1> QED
  BY <1>1, <1>2, <1>3 DEF SignalingInv

(* Either page may be looked at.                                           *)
LEMMA Installed ==
    ASSUME NEW e \in Ends, Quiet(page'[e]), Quiet(page'[Other(e)]),
           Seen(e, page'[e], page'[Other(e)], page'[e].queue \o net'[e],
                page'[Other(e)].queue \o net'[Other(e)], negs')
    PROVE  ExchangeInv'
<1>1. \A f \in Ends : Quiet(page'[f])
  BY DEF Ends, Other
<1>2. Exchange(page'["owner"], page'["receiver"], page'["owner"].queue \o net'["owner"],
               page'["receiver"].queue \o net'["receiver"], negs')
  BY DEF Seen, Ends, Other
<1> QED
  BY <1>1, <1>2 DEF ExchangeInv, Pipe

(* The way from the other side.                                            *)
LEMMA OtherSide ==
    ASSUME NEW e \in Ends, NEW p, NEW o, NEW in, NEW out, NEW m
    PROVE  Seen(Other(e), o, p, out, in, m) <=> Seen(e, p, o, in, out, m)
  BY DEF Seen, Ends, Other

(* A page becomes another that has nothing to send.                        *)
LEMMA Becoming ==
    ASSUME SignalingInv, ExchangeInv, NEW e \in Ends, NEW q, NEW nets, Becomes(e, q, nets),
           nets \in Nets, nets[Other(e)] = net[Other(e)],
           Neat(q), q.out = <<>>, q.config => q.queue = <<>>, q.queue \in Seq(NetMessages),
           q.neg \in Nat,
           Seen(e, q, page[Other(e)], q.queue \o nets[e], Pipe(Other(e)),
                IF q.neg > negs THEN q.neg ELSE negs)
    PROVE  ExchangeInv'
<1> DEFINE o == page[Other(e)]
           a == [q EXCEPT !.out = <<>>]
           b == [q EXCEPT !.out = <<>>, !.dropped = @ \cup NegsOf(q.out)]
           n == IF q.neg > negs THEN q.neg ELSE negs
<1>1. /\ Other(e) \in Ends /\ Other(e) # e /\ Quiet(o) /\ o.neg \in Nat
      /\ Numbered(Pipe(Other(e))) /\ negs \in Nat
  BY Standing
<1>2. NegsOf(q.out) = {}
  BY DEF NegsOf
<1>3. Wire(q, a) /\ Wire(q, b)
  <2>1. \A x \in Fields : x \in DOMAIN q
    BY DEF Neat, Fielded
  <2> QED
    BY <1>2, <2>1 DEF Wire, Fields
<1>4. \E r : page' = [page EXCEPT ![e] = r] /\ (r = a \/ r = b)
  BY DEF Becomes
<1> HIDE DEF a, b
<1>5. PICK r : page' = [page EXCEPT ![e] = r] /\ Wire(q, r)
  BY <1>3, <1>4
<1>6. page'[e] = r /\ page'[Other(e)] = o
  BY <1>1, <1>5 DEF SignalingInv
<1>7. net'[e] = nets[e] /\ net'[Other(e)] = net[Other(e)] /\ negs' = n
  <2>1. nets \in [Ends -> Seq(NetMessages)]
    BY DEF Nets
  <2>2. nets[Other(e)] \in Seq(NetMessages)
    BY <1>1, <2>1
  <2>3. nets[Other(e)] \o q.out = nets[Other(e)]
    BY <2>2
  <2>4. net' = nets \/ net' = [nets EXCEPT ![Other(e)] = nets[Other(e)] \o q.out]
    BY DEF Becomes
  <2> QED
    BY <1>1, <2>1, <2>3, <2>4 DEF Becomes
<1>8. Turned(q, r, {}) /\ Tidy(r)
  BY <1>5, WireTurns DEF Neat, Turned
<1>9. n \in Nat /\ Numbered(q.queue \o nets[e])
  BY <1>1, Piping DEF Nets
<1> HIDE DEF n, o
<1>10. Seen(e, r, o, q.queue \o nets[e], Pipe(Other(e)), n)
  BY <1>1, <1>8, <1>9, SeenTurned DEF n, o
<1>11. Quiet(r) /\ r.queue = q.queue
  BY <1>5, <1>8 DEF Quiet, Wire
<1> QED
  BY <1>1, <1>6, <1>7, <1>10, <1>11, Installed DEF Pipe, o

(* A page moves on by itself.                                              *)
LEMMA BecomesTurned ==
    ASSUME SignalingInv, ExchangeInv, NEW e \in Ends, NEW q, Becomes(e, q, net),
           Turned(page[e], q, IF e = "owner" THEN {Fresh} ELSE {}) \/ Turned(page[e], q, {})
    PROVE  ExchangeInv'
<1> DEFINE p == page[e]
           o == page[Other(e)]
           N == IF e = "owner" THEN {Fresh} ELSE {}
           n == IF q.neg > negs THEN q.neg ELSE negs
<1>1. /\ Neat(p) /\ p.neg \in Nat /\ Quiet(p) /\ o.neg \in Nat /\ p.queue \in Seq(NetMessages)
      /\ Numbered(Pipe(e)) /\ Numbered(Pipe(Other(e))) /\ negs \in Nat
      /\ Seen(e, p, o, Pipe(e), Pipe(Other(e)), negs)
  BY Standing
<1>2. Turned(p, q, N)
  BY DEF Turned, Moves, Anew
<1>3. (e = "receiver" => N = {}) /\ \A x \in N : x > negs /\ x \in Nat
  BY <1>1 DEF Fresh
<1> HIDE DEF N
<1>4. q.neg \in Nat
  BY <1>1, <1>2, <1>3 DEF Turned, Moves, SameTalk, Anew
<1>5. n \in Nat /\ negs <= n /\ q.neg <= n
  BY <1>1, <1>4
<1>6. Moves(p, q, N) /\ Neat(q) /\ q.out = <<>> /\ q.queue = p.queue /\ q.config = p.config
  BY <1>1, <1>2, TurnNeat DEF Turned, Quiet
<1> HIDE DEF n
<1>7. Seen(e, q, o, Pipe(e), Pipe(Other(e)), n)
  BY <1>1, <1>3, <1>4, <1>5, <1>6, Turning
<1>8. Seen(e, q, o, q.queue \o net[e], Pipe(Other(e)), n)
  BY <1>6, <1>7 DEF Pipe
<1>9. net \in Nets /\ (q.config => q.queue = <<>>) /\ q.queue \in Seq(NetMessages)
  BY <1>1, <1>6 DEF SignalingInv, Quiet
<1> QED
  BY <1>4, <1>6, <1>8, <1>9, Becoming DEF n

(* The signals a page sends are sent, and no longer the page's.            *)
LEMMA SentOff ==
    ASSUME NEW q, Neat(q), NEW gone
    PROVE  LET a == [q EXCEPT !.out = <<>>]
               b == [q EXCEPT !.out = <<>>, !.dropped = @ \cup gone]
           IN  /\ Moves(q, a, {}) /\ Neat(a) /\ a.neg = q.neg /\ a.out = <<>>
               /\ a.queue = q.queue /\ a.config = q.config
               /\ Moves(q, b, {}) /\ Neat(b) /\ b.neg = q.neg /\ b.out = <<>>
               /\ b.queue = q.queue /\ b.config = q.config
               /\ b.dropped = q.dropped \cup gone /\ b.announced = q.announced
<1>1. \A x \in Fields : x \in DOMAIN q
  BY DEF Neat, Fielded
<1>2. ASSUME NEW r, DOMAIN r = DOMAIN q, q.dropped \subseteq r.dropped,
             r.role = q.role, r.neg = q.neg, r.announced = q.announced, r.local = q.local,
             r.found = q.found, r.remote = q.remote, r.tasks = q.tasks, r.applied = q.applied
      PROVE  Moves(q, r, {}) /\ Neat(r)
  <2>1. \A t : TidyTask(q, t) => TidyTask(r, t)
    BY <1>2 DEF TidyTask
  <2>2. \A x : Knows(q, x) => Knows(r, x)
    BY <1>2 DEF Knows
  <2>3. Tidy(r)
    BY <1>2, <2>1 DEF Neat, Tidy
  <2>4. SameTalk(q, r)
    BY <1>2, <2>2 DEF SameTalk
  <2> QED
    BY <1>2, <2>3, <2>4 DEF Neat, Fielded, Moves
<1> DEFINE a == [q EXCEPT !.out = <<>>]
           b == [q EXCEPT !.out = <<>>, !.dropped = @ \cup gone]
<1>3. /\ DOMAIN a = DOMAIN q /\ a.role = q.role /\ a.neg = q.neg /\ a.announced = q.announced
      /\ a.local = q.local /\ a.found = q.found /\ a.remote = q.remote /\ a.tasks = q.tasks
      /\ a.applied = q.applied /\ a.dropped = q.dropped /\ a.out = <<>> /\ a.queue = q.queue
      /\ a.config = q.config
  BY <1>1 DEF Fields
<1>4. /\ DOMAIN b = DOMAIN q /\ b.role = q.role /\ b.neg = q.neg /\ b.announced = q.announced
      /\ b.local = q.local /\ b.found = q.found /\ b.remote = q.remote /\ b.tasks = q.tasks
      /\ b.applied = q.applied /\ b.dropped = q.dropped \cup gone /\ b.out = <<>>
      /\ b.queue = q.queue /\ b.config = q.config
  BY <1>1 DEF Fields
<1> HIDE DEF a, b
<1>5. Moves(q, a, {}) /\ Neat(a) /\ Moves(q, b, {}) /\ Neat(b)
  BY <1>2, <1>3, <1>4
<1> QED
  BY <1>3, <1>4, <1>5 DEF a, b

(* A page sends signals about its connection: they are on their way, or    *)
(* its negotiation has lost them.                                          *)
LEMMA BecomesSent ==
    ASSUME SignalingInv, ExchangeInv, NEW e \in Ends, NEW q, Becomes(e, q, net),
           Sends(page[e], q), PageInv(q)
    PROVE  ExchangeInv'
<1> DEFINE p == page[e]
           f == Other(e)
           o == page[f]
           a == [q EXCEPT !.out = <<>>]
           b == [q EXCEPT !.out = <<>>, !.dropped = @ \cup NegsOf(q.out)]
<1>1. /\ f \in Ends /\ f # e /\ PageInv(p) /\ Neat(p) /\ p.neg \in Nat /\ Quiet(p) /\ Quiet(o)
      /\ o.neg \in Nat /\ o.queue \in Seq(NetMessages) /\ net[f] \in Seq(NetMessages)
      /\ Numbered(Pipe(e)) /\ Numbered(Pipe(f)) /\ negs \in Nat
      /\ Seen(e, p, o, Pipe(e), Pipe(f), negs)
  BY Standing
<1>2. /\ q.out \in Seq(AnySignals) /\ q.found \in Nat /\ p.found \in Nat
      /\ q.neg = p.neg /\ p.dropped \subseteq q.dropped /\ (p.announced => q.announced)
      /\ q.queue = p.queue /\ q.config = p.config /\ Emits(p, q) /\ Tidy(p)
  BY <1>1 DEF PageInv, Pages, Sends, Emits, Neat
<1>3. Neat(q)
  BY <1>1 DEF Neat, Fielded, Sends
<1>4. negs' = negs
  <2>1. p.neg <= negs
    BY <1>1 DEF Seen, Exchange
  <2> QED
    BY <1>1, <1>2, <2>1 DEF Becomes
<1>5. q.out \in Seq(NetMessages) /\ Numbered(q.out)
  <2>1. q.out \in Seq(NetMessages)
    BY <1>2 DEF NetMessages
  <2> QED
    BY <2>1, Piping
<1>6. /\ Moves(q, a, {}) /\ Neat(a) /\ a.neg = q.neg /\ a.out = <<>>
      /\ a.queue = q.queue /\ a.config = q.config
      /\ Moves(q, b, {}) /\ Neat(b) /\ b.neg = q.neg /\ b.out = <<>>
      /\ b.queue = q.queue /\ b.config = q.config
      /\ b.dropped = q.dropped \cup NegsOf(q.out) /\ b.announced = q.announced
  BY <1>3, SentOff
<1>7. \/ /\ net' = [net EXCEPT ![f] = net[f] \o q.out] /\ page' = [page EXCEPT ![e] = a]
      \/ net' = net /\ page' = [page EXCEPT ![e] = b]
  BY DEF Becomes
<1> HIDE DEF a, b
<1>8. ASSUME NEW r, NEW v, page' = [page EXCEPT ![e] = r], net'[e] = net[e],
             v = o.queue \o net'[f], Seen(e, r, o, Pipe(e), v, negs), r.neg = q.neg,
             Neat(r), r.out = <<>>, r.queue = q.queue, r.config = q.config
      PROVE  ExchangeInv'
  <2>1. page'[e] = r /\ page'[f] = o
    BY <1>1, <1>8 DEF SignalingInv
  <2>2. Quiet(r) /\ r.queue = p.queue
    BY <1>1, <1>2, <1>8 DEF Quiet, Neat
  <2>3. r.queue \o net'[e] = Pipe(e)
    BY <1>8, <2>2 DEF Pipe
  <2> QED
    BY <1>1, <1>4, <1>8, <2>1, <2>2, <2>3, Installed
<1>9. ASSUME NEW r, NEW v, Numbered(v), Seen(e, q, o, Pipe(e), v, negs), Moves(q, r, {}),
             r.neg = q.neg
      PROVE  Seen(e, r, o, Pipe(e), v, negs)
  <2>1. q.neg <= negs /\ negs <= negs
    BY <1>1, <1>9 DEF Seen, Exchange
  <2>2. \A x \in {} : x > negs
    OBVIOUS
  <2> QED
    BY <1>1, <1>2, <1>9, <2>1, <2>2, Turning
<1>10. net[e] \in Seq(NetMessages) /\ net \in [Ends -> Seq(NetMessages)]
  BY DEF SignalingInv, Nets
<1>11. CASE net' = [net EXCEPT ![f] = net[f] \o q.out] /\ page' = [page EXCEPT ![e] = a]
  <2> DEFINE v == o.queue \o net'[f]
  <2>1. net'[e] = net[e] /\ net'[f] = net[f] \o q.out
    BY <1>1, <1>10, <1>11
  <2>2. v = Pipe(f) \o q.out
    <3>1. ASSUME NEW x \in Seq(NetMessages), NEW y \in Seq(NetMessages), NEW z \in Seq(NetMessages)
          PROVE  x \o (y \o z) = (x \o y) \o z
      OBVIOUS
    <3>2. o.queue \o (net[f] \o q.out) = (o.queue \o net[f]) \o q.out
      BY <1>1, <1>5, <3>1
    <3>3. Pipe(f) = o.queue \o net[f]
      BY DEF Pipe
    <3> QED
      BY <2>1, <3>2, <3>3
  <2>3. Joins(Pipe(f), q.out, v) /\ Numbered(v)
    <3>1. Pipe(f) \in Seq(NetMessages)
      BY <1>1 DEF Pipe
    <3> QED
      BY <1>5, <2>2, <3>1, Piping
  <2> HIDE DEF v
  <2>4. Seen(e, q, o, Pipe(e), v, negs)
    BY <1>1, <1>2, <1>5, <2>3, Emitting
  <2>5. Seen(e, a, o, Pipe(e), v, negs)
    BY <1>6, <1>9, <2>3, <2>4
  <2> QED
    BY <1>6, <1>8, <1>11, <2>1, <2>5 DEF v
<1>12. CASE net' = net /\ page' = [page EXCEPT ![e] = b]
  <2>1. Seen(e, b, o, Pipe(e), Pipe(f), negs)
    <3>1. CASE Len(q.out) = 0
      <4>1. Joins(Pipe(f), q.out, Pipe(f))
        BY <1>1, <3>1 DEF Joins, Numbered
      <4>2. Seen(e, q, o, Pipe(e), Pipe(f), negs)
        BY <1>1, <1>2, <1>5, <4>1, Emitting
      <4> QED
        BY <1>1, <1>6, <1>9, <4>2
    <3>2. CASE Len(q.out) # 0
      <4>1. 1 \in DOMAIN q.out /\ 1 \in 1..Len(q.out) /\ q.out[1] \in AnySignals
        BY <1>2, <3>2
      <4>2. q.out[1].neg = p.neg /\ q.out[1].neg # 0
        BY <1>2, <4>1 DEF Emits, AnySignals
      <4>3. p.neg \in NegsOf(q.out)
        BY <4>1, <4>2 DEF NegsOf
      <4>4. p.neg \in b.dropped /\ p.dropped \subseteq b.dropped /\ b.neg = p.neg
            /\ (p.announced => b.announced)
        BY <1>2, <1>6, <4>3
      <4> QED
        BY <1>1, <4>4, EmittingInVain
    <3> QED
      BY <3>1, <3>2
  <2>2. Pipe(f) = o.queue \o net'[f] /\ net'[e] = net[e]
    BY <1>12 DEF Pipe
  <2> QED
    BY <1>6, <1>8, <1>12, <2>1, <2>2
<1> QED
  BY <1>7, <1>11, <1>12

(* The first signal the server has is gone from the way to the page, or    *)
(* joins the ones the page has queued.                                     *)
LEMMA Sliding ==
    ASSUME NEW a \in Seq(NetMessages), NEW b \in Seq(NetMessages), b # <<>>
    PROVE  LET w == a \o b
               v == a \o Tail(b)
           IN  /\ Thinned(w, v) /\ w[Len(a) + 1] = Head(b)
               /\ \A j \in 1..Len(w) : (\E i \in 1..Len(v) : v[i] = w[j]) \/ j = Len(a) + 1
               /\ Append(a, Head(b)) \o Tail(b) = w
               /\ Pops(b, Tail(b)) /\ b[1] = Head(b)
<1> DEFINE w == a \o b
           v == a \o Tail(b)
           g == [i \in 1..Len(v) |-> IF i <= Len(a) THEN i ELSE i + 1]
<1>1. /\ Tail(b) \in Seq(NetMessages) /\ Len(b) = Len(Tail(b)) + 1 /\ Len(Tail(b)) \in Nat
      /\ \A i \in 1..Len(Tail(b)) : Tail(b)[i] = b[i + 1]
      /\ b[1] = Head(b) /\ Len(a) \in Nat
  OBVIOUS
<1>2. Joins(a, b, w) /\ Joins(a, Tail(b), v)
  BY <1>1, Piping
<1>3. Append(a, Head(b)) \o Tail(b) = w
  OBVIOUS
<1> HIDE DEF w, v
<1>4. Len(w) = Len(a) + Len(b) /\ Len(v) = Len(a) + Len(Tail(b))
  BY <1>2 DEF Joins
<1>5. w[Len(a) + 1] = Head(b)
  BY <1>1, <1>2 DEF Joins
<1>6. ASSUME NEW i \in 1..Len(v)
      PROVE  /\ i <= Len(a) => v[i] = w[i]
             /\ i > Len(a) => v[i] = w[i + 1]
  <2>1. CASE i <= Len(a)
    BY <1>1, <1>2, <1>4, <2>1 DEF Joins
  <2>2. CASE i > Len(a)
    <3> DEFINE k == i - Len(a)
    <3>1. k \in 1..Len(Tail(b)) /\ k + 1 \in 1..Len(b) /\ i = Len(a) + k /\ i + 1 = Len(a) + (k + 1)
      BY <1>1, <1>4, <2>2
    <3> HIDE DEF k
    <3>2. v[i] = Tail(b)[k] /\ w[i + 1] = b[k + 1]
      BY <1>2, <3>1 DEF Joins
    <3> QED
      BY <1>1, <2>2, <3>1, <3>2
  <2> QED
    BY <2>1, <2>2, <1>1, <1>4
<1>7. \A i \in 1..Len(v) : g[i] \in 1..Len(w) /\ v[i] = w[g[i]]
  BY <1>1, <1>4, <1>6
<1>8. \A i, j \in 1..Len(v) : i < j => g[i] < g[j]
  BY <1>1, <1>4
<1>9. ASSUME NEW j \in 1..Len(w), j # Len(a) + 1
      PROVE  \E i \in 1..Len(v) : v[i] = w[j]
  <2>1. CASE j <= Len(a)
    <3>1. j \in 1..Len(v)
      BY <1>1, <1>4, <2>1
    <3> QED
      BY <1>6, <2>1, <3>1
  <2>2. CASE ~(j <= Len(a))
    <3>1. j - 1 \in 1..Len(v) /\ j - 1 > Len(a) /\ (j - 1) + 1 = j
      BY <1>1, <1>4, <1>9, <2>2
    <3> QED
      BY <1>6, <3>1
  <2> QED
    BY <2>1, <2>2
<1> HIDE DEF g
<1>10. Thinned(w, v)
  BY <1>7, <1>8 DEF Thinned
<1> QED
  BY <1>1, <1>3, <1>5, <1>9, <1>10 DEF Pops, w, v

(* The page moves on and can do without the first signal the server has.   *)
LEMMA BecomesWithout ==
    ASSUME SignalingInv, ExchangeInv, NEW e \in Ends, NEW q, net[e] # <<>>,
           Becomes(e, q, [net EXCEPT ![e] = Tail(@)]),
           Turned(page[e], q, IF e = "owner" THEN {Fresh} ELSE {}) \/ Turned(page[e], q, {}),
           Head(net[e]).neg \in {0} \cup q.dropped
    PROVE  ExchangeInv'
<1> DEFINE p == page[e]
           f == Other(e)
           o == page[f]
           N == IF e = "owner" THEN {Fresh} ELSE {}
           n == IF q.neg > negs THEN q.neg ELSE negs
           nets == [net EXCEPT ![e] = Tail(@)]
           v == p.queue \o Tail(net[e])
<1>1. /\ Neat(p) /\ p.neg \in Nat /\ Quiet(p) /\ o.neg \in Nat /\ p.queue \in Seq(NetMessages)
      /\ net[e] \in Seq(NetMessages) /\ f \in Ends /\ f # e
      /\ Numbered(Pipe(e)) /\ Numbered(Pipe(f)) /\ negs \in Nat
      /\ Seen(e, p, o, Pipe(e), Pipe(f), negs)
  BY Standing
<1>2. Turned(p, q, N)
  BY DEF Turned, Moves, Anew
<1>3. (e = "receiver" => N = {}) /\ \A x \in N : x > negs /\ x \in Nat
  BY <1>1 DEF Fresh
<1> HIDE DEF N
<1>4. q.neg \in Nat
  BY <1>1, <1>2, <1>3 DEF Turned, Moves, SameTalk, Anew
<1>5. n \in Nat /\ negs <= n /\ q.neg <= n
  BY <1>1, <1>4
<1>6. Moves(p, q, N) /\ Neat(q) /\ q.out = <<>> /\ q.queue = p.queue /\ q.config = p.config
  BY <1>1, <1>2, TurnNeat DEF Turned, Quiet
<1> HIDE DEF n
<1>7. Seen(e, q, o, Pipe(e), Pipe(f), n)
  BY <1>1, <1>3, <1>4, <1>5, <1>6, Turning
<1>8. /\ Thinned(Pipe(e), v) /\ Pipe(e)[Len(p.queue) + 1] = Head(net[e])
      /\ \A j \in 1..Len(Pipe(e)) : (\E i \in 1..Len(v) : v[i] = Pipe(e)[j]) \/ j = Len(p.queue) + 1
  BY <1>1, Sliding DEF Pipe
<1>9. Numbered(v)
  <2>1. Tail(net[e]) \in Seq(NetMessages)
    BY <1>1
  <2> QED
    BY <1>1, <2>1, Piping
<1>10. nets \in Nets /\ nets[e] = Tail(net[e]) /\ nets[f] = net[f]
  <2>1. net \in [Ends -> Seq(NetMessages)] /\ NoOffer(net["owner"]) /\ "owner" \in Ends
    BY DEF SignalingInv, Nets, Ends
  <2>2. Tail(net[e]) \in Seq(NetMessages) /\ (NoOffer(net[e]) => NoOffer(Tail(net[e])))
    BY <1>1 DEF NoOffer
  <2>3. nets \in [Ends -> Seq(NetMessages)] /\ nets[e] = Tail(net[e]) /\ nets[f] = net[f]
    BY <1>1, <2>1, <2>2
  <2>4. nets["owner"] = IF e = "owner" THEN Tail(net[e]) ELSE net["owner"]
    BY <2>1
  <2> QED
    BY <2>1, <2>2, <2>3, <2>4 DEF Nets
<1> HIDE DEF v
<1>11. Spare(q, o, Pipe(e), Len(p.queue) + 1)
  BY <1>8 DEF Spare
<1>12. Seen(e, q, o, v, Pipe(f), n)
  BY <1>1, <1>4, <1>5, <1>7, <1>8, <1>9, <1>11, Losing
<1>13. Seen(e, q, o, q.queue \o nets[e], Pipe(f), n)
  BY <1>6, <1>10, <1>12 DEF v
<1>14. (q.config => q.queue = <<>>) /\ q.queue \in Seq(NetMessages)
  BY <1>1, <1>6 DEF Quiet
<1> QED
  BY <1>4, <1>6, <1>10, <1>13, <1>14, Becoming DEF n

(* The page takes or queues the first signal the server has.               *)
LEMMA BecomesTaker ==
    ASSUME SignalingInv, ExchangeInv, NEW e \in Ends, net[e] # <<>>,
           Becomes(e, AcceptRtcSignal(page[e], Head(net[e])), [net EXCEPT ![e] = Tail(@)])
    PROVE  ExchangeInv'
<1> DEFINE p == page[e]
           f == Other(e)
           o == page[f]
           s == Head(net[e])
           q == AcceptRtcSignal(p, s)
           nets == [net EXCEPT ![e] = Tail(@)]
<1>1. /\ Neat(p) /\ p.neg \in Nat /\ p.role = e /\ Quiet(p) /\ o.neg \in Nat
      /\ p.queue \in Seq(NetMessages) /\ net[e] \in Seq(NetMessages) /\ f \in Ends /\ f # e
      /\ Numbered(Pipe(e)) /\ Numbered(Pipe(f)) /\ negs \in Nat
      /\ Seen(e, p, o, Pipe(e), Pipe(f), negs) /\ PageInv(p)
  BY Standing
<1>2. /\ nets \in Nets /\ nets[e] = Tail(net[e]) /\ nets[f] = net[f]
      /\ s \in NetMessages /\ s.neg \in Nat /\ (e = "owner" => s.kind # "offer")
      /\ Tail(net[e]) \in Seq(NetMessages)
  <2>1. net \in [Ends -> Seq(NetMessages)] /\ NoOffer(net["owner"]) /\ "owner" \in Ends
    BY DEF SignalingInv, Nets, Ends
  <2>2. Tail(net[e]) \in Seq(NetMessages) /\ (NoOffer(net[e]) => NoOffer(Tail(net[e])))
        /\ s \in NetMessages /\ (NoOffer(net[e]) => s.kind # "offer")
    BY <1>1 DEF NoOffer
  <2>3. nets \in [Ends -> Seq(NetMessages)] /\ nets[e] = Tail(net[e]) /\ nets[f] = net[f]
    BY <1>1, <2>1, <2>2
  <2>4. nets["owner"] = IF e = "owner" THEN Tail(net[e]) ELSE net["owner"]
    BY <2>1
  <2>5. s.neg \in Nat
    BY <2>2 DEF NetMessages, AnySignals, Presence, Signal
  <2> QED
    BY <2>1, <2>2, <2>3, <2>4, <2>5 DEF Nets
<1>3. /\ Append(p.queue, s) \o Tail(net[e]) = Pipe(e)
      /\ Pops(net[e], Tail(net[e])) /\ net[e][1] = s
  BY <1>1, Sliding DEF Pipe
<1>4. p.config \in BOOLEAN
  BY <1>1 DEF PageInv, Pages
<1>5. Becomes(e, q, nets)
  OBVIOUS
<1> HIDE DEF nets, s
<1>6. CASE p.config
  <2>1. p.queue = <<>> /\ p.out = <<>> /\ p.config = TRUE
    BY <1>1, <1>4, <1>6 DEF Quiet
  <2>2. Pipe(e) = net[e]
    BY <1>1, <2>1 DEF Pipe
  <2>3. Numbered(Tail(net[e]))
    BY <1>2, Piping
  <2>4. NextFor(e, p, o, Pipe(e), Pipe(f), negs, Tail(net[e]), s)
    BY <1>1, <1>2, <1>3, <2>1, <2>2, <2>3 DEF NextFor
  <2>5. /\ Seen(e, q, o, Tail(net[e]), Pipe(f), negs) /\ Neat(q) /\ q.neg \in Nat
        /\ q.out = p.out /\ q.queue = p.queue
    BY <2>4, SeenTaken
  <2> HIDE DEF q
  <2>6. q.neg <= negs
    BY <2>5 DEF Seen, Exchange
  <2>7. (IF q.neg > negs THEN q.neg ELSE negs) = negs
    BY <1>1, <2>5, <2>6
  <2>8. q.queue \o nets[e] = Tail(net[e]) /\ q.queue \in Seq(NetMessages)
    BY <1>2, <2>1, <2>5
  <2> QED
    BY <1>2, <1>5, <2>1, <2>5, <2>7, <2>8, Becoming
<1>7. CASE ~p.config /\ Len(p.queue) < SignalLimit
  <2>1. q = [p EXCEPT !.queue = Append(p.queue, s)]
    BY <1>7 DEF AcceptRtcSignal
  <2>2. /\ DOMAIN q = DOMAIN p /\ q.role = p.role /\ q.neg = p.neg /\ q.announced = p.announced
        /\ q.local = p.local /\ q.found = p.found /\ q.remote = p.remote /\ q.tasks = p.tasks
        /\ q.applied = p.applied /\ q.dropped = p.dropped /\ q.out = p.out /\ q.config = p.config
        /\ q.queue = Append(p.queue, s)
    <3>1. \A x \in Fields : x \in DOMAIN p
      BY <1>1 DEF Neat, Fielded
    <3> QED
      BY <2>1, <3>1 DEF Fields
  <2> HIDE DEF q
  <2>3. Neat(q) /\ Moves(p, q, {})
    <3>1. \A t : TidyTask(p, t) => TidyTask(q, t)
      BY <2>2 DEF TidyTask
    <3>2. \A x : Knows(p, x) => Knows(q, x)
      BY <2>2 DEF Knows
    <3>3. Tidy(q)
      BY <1>1, <2>2, <3>1 DEF Neat, Tidy
    <3> QED
      BY <1>1, <2>2, <3>2, <3>3 DEF Neat, Fielded, Moves, SameTalk
  <2>4. q.neg <= negs /\ negs <= negs /\ \A x \in {} : x > negs
    BY <1>1, <2>2 DEF Seen, Exchange
  <2>5. Seen(e, q, o, Pipe(e), Pipe(f), negs)
    BY <1>1, <2>2, <2>3, <2>4, Turning
  <2>6. (IF q.neg > negs THEN q.neg ELSE negs) = negs
    BY <1>1, <2>2, <2>4
  <2>7. q.queue \o nets[e] = Pipe(e) /\ q.queue \in Seq(NetMessages)
    <3>1. ASSUME NEW a \in Seq(NetMessages), NEW c \in NetMessages
          PROVE  Append(a, c) \in Seq(NetMessages)
      OBVIOUS
    <3>2. q.queue \in Seq(NetMessages)
      BY <1>1, <1>2, <2>2, <3>1
    <3>3. q.queue \o nets[e] = Pipe(e)
      BY <1>2, <1>3, <2>2
    <3> QED
      BY <3>2, <3>3
  <2>8. q.out = <<>> /\ ~q.config /\ q.neg \in Nat
    BY <1>1, <1>7, <2>2 DEF Quiet
  <2> QED
    BY <1>2, <1>5, <2>3, <2>5, <2>6, <2>7, <2>8, Becoming
<1>8. CASE ~p.config /\ ~(Len(p.queue) < SignalLimit)
  <2> DEFINE d == [p EXCEPT !.dropped = @ \cup {s.neg}]
  <2>1. q = d
    BY <1>8 DEF AcceptRtcSignal, Drop
  <2>2. Turned(p, d, {}) /\ d.dropped = p.dropped \cup {s.neg}
    BY <1>1, TurnsDropped
  <2> HIDE DEF d
  <2>3. Turned(p, q, {}) /\ s.neg \in q.dropped
    BY <2>1, <2>2
  <2> QED
    BY <1>5, <2>3, BecomesWithout DEF nets, s
<1> QED
  BY <1>6, <1>7, <1>8

(* What the server brings.                                                 *)
LEMMA ExchangeDelivered ==
    ASSUME SignalingInv, ExchangeInv, NEW e \in Ends, Deliver(e)
    PROVE  ExchangeInv'
<1> DEFINE p == page[e]
           s == Head(net[e])
           N == IF e = "owner" THEN {Fresh} ELSE {}
           nets == [net EXCEPT ![e] = Tail(@)]
           a == [p EXCEPT !.sees = TRUE]
           c == [p EXCEPT !.sees = FALSE]
           r == RemoveRtcPeer(p)
           d == [r EXCEPT !.sees = FALSE]
<1>1. Neat(p) /\ p.role = e /\ net[e] \in Seq(NetMessages) /\ net[e] # <<>>
  BY Standing DEF Deliver
<1>2. s.kind \in {"online", "offline"} => s.neg = 0
  <2>1. s \in NetMessages
    BY <1>1
  <2> HIDE DEF s
  <2> QED
    BY <2>1 DEF NetMessages, AnySignals, Presence, Signal
<1>3. \/ s.kind = "online" /\ Becomes(e, SyncRtcPeers(a, Fresh), nets)
      \/ s.kind = "offline" /\ (Becomes(e, d, nets) \/ Becomes(e, c, nets))
      \/ Becomes(e, AcceptRtcSignal(p, s), nets)
  BY DEF Deliver
<1>4. Wire(p, a) /\ Wire(p, c)
  BY <1>1, Wires DEF Neat
<1>5. Turned(p, a, N) /\ Turned(p, c, N) /\ Neat(a) /\ a.role = e
  <2>1. Turned(p, a, N) /\ Turned(p, c, N)
    BY <1>1, <1>4, WireTurns DEF Neat
  <2> QED
    BY <1>1, <1>4, <2>1, TurnNeat DEF Wire
<1>6. Turned(p, SyncRtcPeers(a, Fresh), N)
  <2> HIDE DEF a
  <2>1. Turned(a, SyncRtcPeers(a, Fresh), N)
    BY <1>5, TurnsSynced
  <2> QED
    BY <1>5, <2>1, TurnTwice
<1>7. Turned(p, r, N) /\ Neat(r)
  BY <1>1, TurnsCleared, TurnNeat
<1>8. Turned(p, d, N)
  <2> HIDE DEF r
  <2>1. Wire(r, d)
    BY <1>7, Wires DEF Neat
  <2> QED
    BY <1>1, <1>7, <2>1, Turns
<1> HIDE DEF a, c, d
<1>9. CASE s.kind = "online" /\ Becomes(e, SyncRtcPeers(a, Fresh), nets)
  BY <1>1, <1>2, <1>6, <1>9, BecomesWithout
<1>10. CASE s.kind = "offline" /\ (Becomes(e, d, nets) \/ Becomes(e, c, nets))
  BY <1>1, <1>2, <1>5, <1>8, <1>10, BecomesWithout
<1>11. CASE Becomes(e, AcceptRtcSignal(p, s), nets)
  BY <1>1, <1>11, BecomesTaker
<1> QED
  BY <1>3, <1>9, <1>10, <1>11

(* What is left of the way when the queued signals are taken.              *)
LEMMA RestIsNet ==
    ASSUME NEW a \in Seq(NetMessages), NEW b \in Seq(NetMessages)
    PROVE  Alike(Rest(a \o b, Len(a)), b) /\ Len(a) \in 0..Len(a \o b)
<1> DEFINE w == a \o b
<1>1. Joins(a, b, w) /\ Numbered(w) /\ Len(a) \in Nat /\ Len(b) \in Nat
  BY Piping
<1> HIDE DEF w
<1>2. Len(w) - Len(a) = Len(b) /\ Len(a) \in 0..Len(w)
  BY <1>1 DEF Joins
<1>3. Len(Rest(w, Len(a))) = Len(b) /\ \A j \in 1..Len(b) : Rest(w, Len(a))[j] = w[j + Len(a)]
  BY <1>1, <1>2, Resting
<1>4. \A j \in 1..Len(b) : w[j + Len(a)] = b[j]
  <2>1. \A j \in 1..Len(b) : j + Len(a) = Len(a) + j
    BY <1>1
  <2> QED
    BY <1>1, <2>1 DEF Joins
<1> QED
  BY <1>2, <1>3, <1>4 DEF Alike, w

(* The same signals are as good.                                           *)
LEMMA LosingNone ==
    ASSUME NEW e \in Ends, NEW p, NEW o, NEW in, NEW out, NEW m \in Nat, NEW v,
           p.neg \in Nat, o.neg \in Nat, Numbered(in), Numbered(out), Numbered(v),
           Alike(in, v), Seen(e, p, o, in, out, m)
    PROVE  Seen(e, p, o, v, out, m)
<1>1. Thinned(in, v) /\ \A j \in 1..Len(in) : \E i \in 1..Len(v) : v[i] = in[j]
  BY AlikeThins
<1> QED
  BY <1>1, Losing

(* The RTC config arrives.                                                 *)
LEMMA ExchangeConfigured ==
    ASSUME SignalingInv, ExchangeInv, NEW e \in Ends,
           Becomes(e, ApplyRtcConfig(page[e], Fresh), net)
    PROVE  ExchangeInv'
<1> DEFINE p == page[e]
           f == Other(e)
           o == page[f]
           q == ApplyRtcConfig(p, negs + 1)
           n == IF q.neg > negs THEN q.neg ELSE negs
           v == Rest(Pipe(e), Len(p.queue))
<1>1. /\ Neat(p) /\ p.neg \in Nat /\ p.role = e /\ Quiet(p) /\ o.neg \in Nat
      /\ p.queue \in Seq(NetMessages) /\ net[e] \in Seq(NetMessages) /\ f \in Ends /\ f # e
      /\ Numbered(Pipe(e)) /\ Numbered(Pipe(f)) /\ negs \in Nat
      /\ Seen(e, p, o, Pipe(e), Pipe(f), negs) /\ PageInv(p)
  BY Standing
<1>2. Joins(p.queue, net[e], Pipe(e)) /\ Numbered(net[e])
  BY <1>1, Piping DEF Pipe
<1>3. Alike(v, net[e]) /\ Len(p.queue) \in 0..Len(Pipe(e)) /\ Numbered(v)
  <2>1. Alike(v, net[e]) /\ Len(p.queue) \in 0..Len(Pipe(e))
    BY <1>1, RestIsNet DEF Pipe
  <2> QED
    BY <1>1, <2>1, Resting
<1>4. Len(p.queue) <= Len(Pipe(e)) /\ \A i \in 1..Len(p.queue) : Pipe(e)[i] = p.queue[i]
  <2>1. Len(p.queue) <= Len(Pipe(e))
    BY <1>1, <1>3 DEF Numbered
  <2>2. \A i \in 1..Len(p.queue) : Pipe(e)[i] = p.queue[i]
    BY <1>2 DEF Joins
  <2> QED
    BY <2>1, <2>2
<1>5. /\ \A k \in Nat : negs <= k /\ q.neg <= k => Seen(e, q, o, v, Pipe(f), k)
      /\ Neat(q) /\ q.neg \in Nat /\ q.queue = <<>> /\ q.out = p.out /\ q.role = e
  BY <1>1, <1>4, SeenConfigured
<1>6. Becomes(e, q, net)
  BY DEF Fresh
<1> HIDE DEF q, v
<1>7. n \in Nat /\ negs <= n /\ q.neg <= n
  BY <1>1, <1>5
<1> HIDE DEF n
<1>8. Seen(e, q, o, v, Pipe(f), n)
  BY <1>5, <1>7
<1>9. Seen(e, q, o, net[e], Pipe(f), n)
  BY <1>1, <1>2, <1>3, <1>5, <1>7, <1>8, LosingNone
<1>10. q.queue \o net[e] = net[e] /\ q.queue \in Seq(NetMessages) /\ q.out = <<>> /\ net \in Nets
  BY <1>1, <1>5 DEF Quiet, SignalingInv
<1> QED
  BY <1>5, <1>6, <1>9, <1>10, Becoming DEF n

(* The server tells the other member, if it is there, that this one comes  *)
(* or goes.                                                                *)
LEMMA Notified ==
    ASSUME SignalingInv, ExchangeInv, NEW e \in Ends, NEW p, NEW o, NEW in, NEW n \in Nat,
           NEW kind \in {"online", "offline"}, NEW way,
           way = (IF up[Other(e)] THEN Append(net[Other(e)], Presence(kind)) ELSE net[Other(e)]),
           p.neg \in Nat, o.neg \in Nat, Numbered(in), Seen(e, p, o, in, Pipe(Other(e)), n)
    PROVE  Seen(e, p, o, in, page[Other(e)].queue \o way, n)
<1> DEFINE f == Other(e)
           x == <<Presence(kind)>>
<1>1. /\ page[f].queue \in Seq(NetMessages) /\ net[f] \in Seq(NetMessages)
      /\ Pipe(f) \in Seq(NetMessages) /\ Numbered(Pipe(f))
  BY Standing
<1>2. CASE ~up[f]
  BY <1>2 DEF Pipe
<1>3. CASE up[f]
  <2>1. Presence(kind) \in NetMessages /\ Presence(kind).neg = 0
    BY DEF NetMessages, Presence, Signal
  <2>2. ASSUME NEW a \in Seq(NetMessages), NEW b \in Seq(NetMessages), NEW s \in NetMessages
        PROVE  /\ a \o Append(b, s) = (a \o b) \o <<s>> /\ <<s>> \in Seq(NetMessages)
               /\ Len(<<s>>) = 1 /\ <<s>>[1] = s
    OBVIOUS
  <2>3. /\ page[f].queue \o way = (page[f].queue \o net[f]) \o x /\ x \in Seq(NetMessages)
        /\ Len(x) = 1 /\ x[1] = Presence(kind)
    BY <1>1, <1>3, <2>1, <2>2
  <2> HIDE DEF x
  <2>4. Joins(Pipe(f), x, Pipe(f) \o x) /\ Numbered(x)
    BY <1>1, <2>3, Piping
  <2>5. \A i \in 1..Len(x) : x[i].neg = 0
    BY <2>1, <2>3
  <2>6. Seen(e, p, o, in, Pipe(f) \o x, n)
    BY <1>1, <2>4, <2>5, Noticing
  <2>7. page[f].queue \o way = Pipe(f) \o x
    BY <2>3 DEF Pipe
  <2> QED
    BY <2>6, <2>7
<1> QED
  BY <1>2, <1>3

(* Some signals are gone from the end of a way.                            *)
LEMMA Cutting ==
    ASSUME NEW a \in Seq(NetMessages), NEW b \in Seq(NetMessages)
    PROVE  /\ Thinned(a \o b, a)
           /\ \A j \in 1..Len(a \o b) : \/ \E i \in 1..Len(a) : a[i] = (a \o b)[j]
                                        \/ (a \o b)[j].neg \in {0} \cup NegsOf(b)
<1> DEFINE w == a \o b
           g == [i \in 1..Len(a) |-> i]
<1>1. Joins(a, b, w) /\ Numbered(w) /\ Numbered(a) /\ Numbered(b) /\ DOMAIN b = 1..Len(b)
  BY Piping
<1> HIDE DEF w
<1>2. /\ \A i \in 1..Len(a) : i \in 1..Len(w)
      /\ \A i \in 1..Len(w) : \/ i \in 1..Len(a) /\ w[i] = a[i]
                              \/ i > Len(a) /\ i - Len(a) \in 1..Len(b) /\ w[i] = b[i - Len(a)]
  BY <1>1, JoinedFrom
<1>3. \A i \in 1..Len(a) : g[i] = i /\ a[i] = w[i]
  BY <1>1 DEF Joins
<1> HIDE DEF g
<1>4. Thinned(w, a)
  <2>1. \A i \in 1..Len(a) : g[i] \in 1..Len(w) /\ a[i] = w[g[i]]
    BY <1>2, <1>3
  <2>2. \A i, j \in 1..Len(a) : i < j => g[i] < g[j]
    BY <1>3
  <2> QED
    BY <2>1, <2>2 DEF Thinned
<1>5. \A i \in 1..Len(b) : b[i].neg \in {0} \cup NegsOf(b)
  BY <1>1 DEF NegsOf
<1> QED
  BY <1>2, <1>4, <1>5 DEF w

(* A socket is lost with what was under way, and the page with it or not.  *)
LEMMA ExchangeOffline ==
    ASSUME SignalingInv, ExchangeInv, NEW e \in Ends, NEW p, Offline(e, p),
           p = page[e] \/ p = NewPage(e, FALSE)
    PROVE  ExchangeInv'
<1> DEFINE f == Other(e)
           lost == NegsOf(net[e])
           g == [page[f] EXCEPT !.dropped = @ \cup lost]
           way == IF up[f] THEN Append(net[f], Presence("offline")) ELSE net[f]
<1>1. /\ Neat(page[e]) /\ page[e].neg \in Nat /\ Quiet(page[e]) /\ Quiet(page[f])
      /\ page[f].neg \in Nat /\ page[e].queue \in Seq(NetMessages) /\ net[e] \in Seq(NetMessages)
      /\ f \in Ends /\ f # e /\ Other(f) = e
      /\ Numbered(Pipe(e)) /\ Numbered(Pipe(f)) /\ negs \in Nat
      /\ Seen(e, page[e], page[f], Pipe(e), Pipe(f), negs)
  BY Standing
<1>2. Neat(page[f])
  BY <1>1, Standing
<1>3. page'[e] = p /\ page'[f] = g
  <2>1. page' = [page EXCEPT ![e] = p, ![f].dropped = @ \cup lost]
    BY DEF Offline
  <2> QED
    BY <1>1, <2>1 DEF SignalingInv
<1>4. net'[e] = <<>> /\ net'[f] = way /\ negs' = negs
  <2>1. net \in [Ends -> Seq(NetMessages)]
    BY DEF SignalingInv, Nets
  <2> QED
    BY <1>1, <2>1 DEF Offline
<1>5. Turned(page[f], g, {}) /\ g.dropped = page[f].dropped \cup lost
  BY <1>2, TurnsDropped
<1> HIDE DEF g
<1>6. Quiet(g) /\ g.queue = page[f].queue
  BY <1>1, <1>5 DEF Quiet, Turned
<1>7. Seen(e, page[e], g, Pipe(e), Pipe(f), negs) /\ g.neg \in Nat
  <2>1. Seen(f, page[f], page[e], Pipe(f), Pipe(e), negs)
    BY <1>1, OtherSide
  <2>2. Seen(f, g, page[e], Pipe(f), Pipe(e), negs) /\ g.neg \in Nat
    BY <1>1, <1>5, <2>1, SeenTurned
  <2> QED
    BY <1>1, <2>2, OtherSide
<1>8. ASSUME p = page[e]
      PROVE  /\ Seen(e, p, g, p.queue, Pipe(f), negs) /\ Quiet(p) /\ p.neg \in Nat
             /\ p.queue \in Seq(NetMessages)
  <2>1. /\ Thinned(Pipe(e), p.queue)
        /\ \A j \in 1..Len(Pipe(e)) : \/ \E i \in 1..Len(p.queue) : p.queue[i] = Pipe(e)[j]
                                      \/ Pipe(e)[j].neg \in {0} \cup lost
    BY <1>1, <1>8, Cutting DEF Pipe
  <2>2. \A j \in 1..Len(Pipe(e)) : Pipe(e)[j].neg \in {0} \cup lost => Spare(p, g, Pipe(e), j)
    BY <1>5 DEF Spare
  <2>3. Numbered(p.queue)
    BY <1>1, <1>8, Piping
  <2>4. Seen(e, p, g, p.queue, Pipe(f), negs)
    BY <1>1, <1>7, <1>8, <2>1, <2>2, <2>3, Losing
  <2> QED
    BY <1>1, <1>8, <2>4
<1>9. ASSUME p = NewPage(e, FALSE)
      PROVE  /\ Seen(e, p, g, p.queue, Pipe(f), negs) /\ Quiet(p) /\ p.neg \in Nat
             /\ p.queue \in Seq(NetMessages)
  <2>1. /\ p.neg = 0 /\ p.found = 0 /\ p.local = {} /\ p.tasks = {} /\ ~p.announced /\ ~p.config
        /\ p.out = <<>> /\ p.queue = <<>>
    BY <1>9 DEF NewPage
  <2>2. Quiet(p)
    BY <2>1 DEF Quiet, Tidy
  <2>3. Len(p.queue) = 0 /\ p.queue \in Seq(NetMessages)
    BY <2>1
  <2>4. g.neg <= negs /\ \A i \in 1..Len(Pipe(f)) : e = "owner" => Pipe(f)[i].neg <= negs
    BY <1>7 DEF Seen, Exchange
  <2>5. ASSUME e = "owner"
        PROVE  Seen(e, p, g, p.queue, Pipe(f), negs)
    <3>1. Exchange(p, g, p.queue, Pipe(f), negs)
      BY <1>1, <2>1, <2>4, <2>5 DEF Exchange
    <3> QED
      BY <2>5, <3>1 DEF Seen
  <2>6. ASSUME e = "receiver"
        PROVE  Seen(e, p, g, p.queue, Pipe(f), negs)
    <3>1. g.neg # 0 => p.neg # g.neg /\ ~Ahead(g, p, p.queue)
      BY <2>1, <2>3 DEF Ahead
    <3>2. g.neg # 0 => Unheard(g, p, p.queue) /\ OfferOnce(g.neg, p, p.queue)
      BY <2>1, <2>3 DEF Unheard, OfferOnce
    <3>3. Exchange(g, p, Pipe(f), p.queue, negs)
      BY <1>1, <2>1, <2>3, <2>4, <3>1, <3>2 DEF Exchange
    <3> QED
      BY <2>6, <3>3 DEF Seen
  <2>7. Seen(e, p, g, p.queue, Pipe(f), negs)
    BY <2>5, <2>6 DEF Ends
  <2> QED
    BY <2>1, <2>2, <2>3, <2>7
<1>10. /\ Seen(e, p, g, p.queue, Pipe(f), negs) /\ Quiet(p) /\ p.neg \in Nat
       /\ p.queue \in Seq(NetMessages) /\ Numbered(p.queue) /\ p.queue \o <<>> = p.queue
  <2>1. /\ Seen(e, p, g, p.queue, Pipe(f), negs) /\ Quiet(p) /\ p.neg \in Nat
        /\ p.queue \in Seq(NetMessages)
    BY <1>8, <1>9
  <2>2. p.queue \o <<>> = p.queue
    BY <2>1
  <2> QED
    BY <2>1, <2>2, Piping
<1>11. Seen(e, p, g, p.queue, page[f].queue \o way, negs)
  BY <1>1, <1>7, <1>10, Notified
<1> HIDE DEF way
<1>12. Seen(e, page'[e], page'[f], page'[e].queue \o net'[e], page'[f].queue \o net'[f], negs')
  BY <1>3, <1>4, <1>6, <1>10, <1>11
<1> QED
  BY <1>3, <1>6, <1>10, <1>12, Installed

(* A page attaches again.                                                  *)
LEMMA ExchangeReattached ==
    ASSUME SignalingInv, ExchangeInv, NEW e \in Ends, Reattach(e)
    PROVE  ExchangeInv'
<1> DEFINE f == Other(e)
           p == page[e]
           o == page[f]
           N == IF e = "owner" THEN {Fresh} ELSE {}
           way == IF up[f] THEN Append(net[f], Presence("online")) ELSE net[f]
<1>1. /\ Neat(p) /\ p.neg \in Nat /\ p.role = e /\ Quiet(p) /\ Quiet(o)
      /\ o.neg \in Nat /\ p.queue \in Seq(NetMessages) /\ f \in Ends /\ f # e
      /\ Numbered(Pipe(e)) /\ Numbered(Pipe(f)) /\ negs \in Nat
      /\ Seen(e, p, o, Pipe(e), Pipe(f), negs)
  BY Standing
<1>2. PICK rebuild \in BOOLEAN :
        LET a == IF rebuild THEN RebuildPeer(p) ELSE p
            q == SyncRtcPeers([a EXCEPT !.sees = up[f]], Fresh)
        IN /\ negs' = IF q.neg > negs THEN q.neg ELSE negs
           /\ page' = [page EXCEPT ![e] = q]
  BY DEF Reattach
<1> DEFINE a == IF rebuild THEN RebuildPeer(p) ELSE p
           b == [a EXCEPT !.sees = up[f]]
           q == SyncRtcPeers(b, Fresh)
           n == IF q.neg > negs THEN q.neg ELSE negs
<1>3. Turned(p, p, N) /\ Turned(p, RebuildPeer(p), N)
  BY <1>1, TurnsRebuilt, WireTurns DEF Neat, Wire
<1>4. Turned(p, a, N) /\ Neat(a)
  <2>1. Turned(p, a, N)
    BY <1>3
  <2> QED
    BY <1>1, <2>1, TurnNeat
<1>5. negs' = n /\ page'[e] = q /\ page'[f] = o
  <2>1. negs' = n /\ page' = [page EXCEPT ![e] = q]
    BY <1>2
  <2> HIDE DEF q, n
  <2> QED
    BY <1>1, <2>1 DEF SignalingInv
<1> HIDE DEF a
<1>6. Turned(p, b, N) /\ Neat(b) /\ b.role = e
  <2>1. Wire(a, b)
    BY <1>4, Wires DEF Neat
  <2>2. Turned(p, b, N)
    BY <1>1, <1>4, <2>1, Turns
  <2> QED
    BY <1>1, <2>2, TurnNeat DEF Turned
<1> HIDE DEF b
<1>7. Turned(p, q, N)
  <2>1. Turned(b, q, N)
    BY <1>6, TurnsSynced
  <2> QED
    BY <1>6, <2>1, TurnTwice
<1> HIDE DEF q
<1>8. (e = "receiver" => N = {}) /\ \A x \in N : x > negs /\ x \in Nat
  BY <1>1 DEF Fresh
<1> HIDE DEF N
<1>9. q.neg \in Nat
  BY <1>1, <1>7, <1>8 DEF Turned, Moves, SameTalk, Anew
<1>10. n \in Nat /\ negs <= n /\ q.neg <= n
  BY <1>1, <1>9
<1>11. Moves(p, q, N) /\ q.queue = p.queue /\ Quiet(q)
  BY <1>1, <1>7 DEF Turned, Quiet
<1> HIDE DEF n
<1>12. Seen(e, q, o, Pipe(e), Pipe(f), n)
  BY <1>1, <1>8, <1>9, <1>10, <1>11, Turning
<1>13. Seen(e, q, o, Pipe(e), o.queue \o way, n)
  BY <1>1, <1>9, <1>10, <1>12, Notified
<1>14. net'[e] = net[e] /\ net'[f] = way
  <2>1. net \in [Ends -> Seq(NetMessages)]
    BY DEF SignalingInv, Nets
  <2> QED
    BY <1>1, <2>1 DEF Reattach
<1> HIDE DEF way
<1>15. Seen(e, page'[e], page'[f], page'[e].queue \o net'[e], page'[f].queue \o net'[f], negs')
  BY <1>5, <1>11, <1>13, <1>14 DEF Pipe
<1> QED
  BY <1>1, <1>5, <1>11, <1>15, Installed

(* The RTC config expires.                                                 *)
LEMMA ExchangeExpired ==
    ASSUME SignalingInv, ExchangeInv, NEW e \in Ends, ConfigExpires(e)
    PROVE  ExchangeInv'
<1> DEFINE p == page[e]
           f == Other(e)
           o == page[f]
           q == [p EXCEPT !.config = FALSE]
<1>1. /\ Neat(p) /\ p.neg \in Nat /\ Quiet(p) /\ o.neg \in Nat /\ p.queue \in Seq(NetMessages)
      /\ Numbered(Pipe(e)) /\ Numbered(Pipe(f)) /\ negs \in Nat
      /\ Seen(e, p, o, Pipe(e), Pipe(f), negs)
  BY Standing
<1>2. /\ DOMAIN q = DOMAIN p /\ q.role = p.role /\ q.neg = p.neg /\ q.announced = p.announced
      /\ q.local = p.local /\ q.found = p.found /\ q.remote = p.remote /\ q.tasks = p.tasks
      /\ q.applied = p.applied /\ q.dropped = p.dropped /\ q.out = p.out /\ q.config = FALSE
      /\ q.queue = p.queue
  <2>1. \A x \in Fields : x \in DOMAIN p
    BY <1>1 DEF Neat, Fielded
  <2> QED
    BY <2>1 DEF Fields
<1>3. Becomes(e, q, net)
  BY DEF ConfigExpires
<1> HIDE DEF q
<1>4. Neat(q) /\ Moves(p, q, {})
  <2>1. \A t : TidyTask(p, t) => TidyTask(q, t)
    BY <1>2 DEF TidyTask
  <2>2. \A x : Knows(p, x) => Knows(q, x)
    BY <1>2 DEF Knows
  <2>3. Tidy(q)
    BY <1>1, <1>2, <2>1 DEF Neat, Tidy
  <2> QED
    BY <1>1, <1>2, <2>2, <2>3 DEF Neat, Fielded, Moves, SameTalk
<1>5. q.neg <= negs /\ negs <= negs /\ \A x \in {} : x > negs
  BY <1>1, <1>2 DEF Seen, Exchange
<1>6. Seen(e, q, o, Pipe(e), Pipe(f), negs)
  BY <1>1, <1>2, <1>4, <1>5, Turning
<1>7. (IF q.neg > negs THEN q.neg ELSE negs) = negs
  BY <1>1, <1>2, <1>5
<1>8. q.queue \o net[e] = Pipe(e) /\ q.queue \in Seq(NetMessages) /\ net \in Nets
  BY <1>1, <1>2 DEF Pipe, SignalingInv
<1>9. q.out = <<>> /\ ~q.config /\ q.neg \in Nat
  BY <1>1, <1>2 DEF Quiet
<1> QED
  BY <1>3, <1>4, <1>6, <1>7, <1>8, <1>9, Becoming

(* A page that has just been opened has nothing to say.                    *)
LEMMA OpenedNeat ==
    ASSUME NEW e \in Ends, NEW streamed \in BOOLEAN
    PROVE  LET p == [NewPage(e, streamed) EXCEPT !.sees = TRUE]
           IN  /\ PageInv(p) /\ Neat(p) /\ p.role = e /\ p.neg = 0 /\ p.queue = <<>>
               /\ p.out = <<>> /\ ~p.config
<1> DEFINE n == NewPage(e, streamed)
           p == [n EXCEPT !.sees = TRUE]
<1>1. PageInv(n) /\ n \in Pages
  BY Opened DEF Sound, PageInv
<1>2. /\ n.neg = 0 /\ n.found = 0 /\ n.local = {} /\ n.tasks = {} /\ ~n.announced /\ ~n.config
      /\ n.out = <<>> /\ n.queue = <<>> /\ n.role = e
  BY DEF NewPage
<1> HIDE DEF n
<1>3. PageInv(p)
  BY <1>1, Learning
<1>4. Neat(n)
  <2>1. Fielded(n)
    BY <1>1 DEF Pages, Fielded, Fields
  <2>2. n.local = 1..n.found
    BY <1>2
  <2> QED
    BY <1>2, <2>1, <2>2 DEF Neat, Tidy
<1>5. Wire(n, p)
  BY <1>4, Wires DEF Neat
<1> HIDE DEF p
<1>6. Neat(p)
  BY <1>4, <1>5, WireTurns, TurnNeat DEF Neat
<1> QED
  BY <1>2, <1>3, <1>5, <1>6 DEF Wire, p, n

(* An empty way.                                                           *)
LEMMA EmptyWay ==
    /\ <<>> \in Seq(NetMessages) /\ Numbered(<<>>) /\ Len(<<>>) = 0
    /\ Numbered(Rest(<<>>, 0)) /\ Alike(Rest(<<>>, 0), <<>>) /\ <<>> \o <<>> = <<>>
<1>1. <<>> \in Seq(NetMessages) /\ Len(<<>>) = 0
  OBVIOUS
<1>2. Numbered(<<>>)
  BY <1>1 DEF Numbered
<1>3. <<>> \o <<>> = <<>>
  BY <1>1
<1>4. Alike(Rest(<<>>, 0), <<>>)
  BY <1>1, <1>3, RestIsNet
<1>5. Numbered(Rest(<<>>, 0))
  BY <1>1, <1>2, Resting
<1> QED
  BY <1>1, <1>2, <1>3, <1>4, <1>5

(* The exchange at the start.                                              *)
LEMMA ExchangeInit ==
    ASSUME Init
    PROVE  ExchangeInv
<1>1. PICK s \in Scenarios :
        /\ page = [e \in Ends |->
                 LET p == [NewPage(e, s.streamed) EXCEPT !.sees = TRUE]
                 IN IF s.configured THEN ApplyRtcConfig(p, 1) ELSE p]
        /\ negs = IF s.configured THEN 1 ELSE 0
  BY DEF Init
<1>2. s.streamed \in BOOLEAN /\ s.configured \in BOOLEAN
  BY SignalingAssumption
<1> DEFINE a == [NewPage("owner", s.streamed) EXCEPT !.sees = TRUE]
           b == [NewPage("receiver", s.streamed) EXCEPT !.sees = TRUE]
           c == ApplyRtcConfig(a, 1)
           d == ApplyRtcConfig(b, 1)
<1>3. "owner" \in Ends /\ "receiver" \in Ends /\ Ends = {"owner", "receiver"}
  BY DEF Ends
<1>4. /\ page["owner"] = IF s.configured THEN c ELSE a
      /\ page["receiver"] = IF s.configured THEN d ELSE b
      /\ net["owner"] = <<>> /\ net["receiver"] = <<>>
  BY <1>1, <1>3 DEF Init
<1>5. /\ PageInv(a) /\ Neat(a) /\ a.role = "owner" /\ a.neg = 0 /\ a.queue = <<>>
      /\ a.out = <<>> /\ ~a.config
      /\ PageInv(b) /\ Neat(b) /\ b.role = "receiver" /\ b.neg = 0 /\ b.queue = <<>>
      /\ b.out = <<>> /\ ~b.config
  BY <1>2, <1>3, OpenedNeat
<1> HIDE DEF a, b
<1>6. Exchange(a, b, <<>>, <<>>, 0) /\ Seen("receiver", b, a, <<>>, <<>>, 0)
  <2>1. Exchange(a, b, <<>>, <<>>, 0)
    BY <1>5, EmptyWay DEF Exchange
  <2> QED
    BY <2>1 DEF Seen
<1>7. ASSUME NEW e \in Ends, NEW p, NEW o, PageInv(p), Neat(p), p.role = e, p.neg = 0,
             p.queue = <<>>, o.neg \in Nat, Seen(e, p, o, <<>>, <<>>, 0)
      PROVE  LET q == ApplyRtcConfig(p, 1)
             IN  /\ Neat(q) /\ q.neg \in Nat /\ q.queue = <<>> /\ q.out = p.out
                 /\ e = "owner" => Seen(e, q, o, <<>>, <<>>, 1)
                 /\ e = "receiver" => Seen(e, q, o, <<>>, <<>>, 0)
  <2> DEFINE q == ApplyRtcConfig(p, 1)
             k == IF e = "owner" THEN 1 ELSE 0
  <2>1. Len(p.queue) = 0 /\ Len(p.queue) <= Len(<<>>) /\ 0 + 1 = 1 /\ 0 \in Nat
        /\ \A i \in 1..Len(p.queue) : <<>>[i] = p.queue[i]
    BY <1>7, EmptyWay
  <2>2. /\ \A j \in Nat : 0 <= j /\ q.neg <= j => Seen(e, q, o, Rest(<<>>, 0), <<>>, j)
        /\ Neat(q) /\ q.neg \in Nat /\ q.queue = <<>> /\ q.out = p.out
        /\ q.neg \in {p.neg, 0} \cup (IF e = "owner" THEN {1} ELSE {})
    BY <1>7, <2>1, EmptyWay, SeenConfigured
  <2> HIDE DEF q
  <2>3. k \in Nat /\ 0 <= k /\ q.neg <= k
    BY <1>7, <2>2
  <2>4. Seen(e, q, o, Rest(<<>>, 0), <<>>, k)
    BY <2>2, <2>3
  <2>5. Seen(e, q, o, <<>>, <<>>, k)
    BY <1>7, <2>2, <2>3, <2>4, EmptyWay, LosingNone
  <2> QED
    BY <2>2, <2>5 DEF q
<1>8. Neat(d) /\ d.neg \in Nat /\ d.queue = <<>> /\ d.out = <<>>
      /\ Seen("receiver", d, a, <<>>, <<>>, 0)
  <2>1. a.neg \in Nat
    BY <1>5
  <2>2. /\ Neat(d) /\ d.neg \in Nat /\ d.queue = <<>> /\ d.out = b.out
        /\ "receiver" = "receiver" => Seen("receiver", d, a, <<>>, <<>>, 0)
    BY <1>3, <1>5, <1>6, <1>7, <2>1
  <2> QED
    BY <1>5, <2>2
<1> HIDE DEF d
<1>9. Seen("owner", a, d, <<>>, <<>>, 0)
  BY <1>8 DEF Seen
<1>10. Neat(c) /\ c.neg \in Nat /\ c.queue = <<>> /\ c.out = <<>>
       /\ Seen("owner", c, d, <<>>, <<>>, 1)
  BY <1>3, <1>5, <1>7, <1>8, <1>9
<1> HIDE DEF c
<1>11. Exchange(c, d, <<>>, <<>>, 1)
  BY <1>10 DEF Seen
<1>12. Quiet(a) /\ Quiet(b) /\ Quiet(c) /\ Quiet(d)
  BY <1>5, <1>8, <1>10 DEF Quiet, Neat
<1>13. CASE s.configured
  <2>1. page["owner"] = c /\ page["receiver"] = d /\ negs = 1
    BY <1>1, <1>4, <1>13
  <2>2. Pipe("owner") = <<>> /\ Pipe("receiver") = <<>>
    BY <1>4, <1>8, <1>10, <2>1, EmptyWay DEF Pipe
  <2> QED
    BY <1>3, <1>11, <1>12, <2>1, <2>2 DEF ExchangeInv
<1>14. CASE ~s.configured
  <2>1. page["owner"] = a /\ page["receiver"] = b /\ negs = 0
    BY <1>1, <1>4, <1>14
  <2>2. Pipe("owner") = <<>> /\ Pipe("receiver") = <<>>
    BY <1>4, <1>5, <2>1, EmptyWay DEF Pipe
  <2> QED
    BY <1>3, <1>6, <1>12, <2>1, <2>2 DEF ExchangeInv
<1> QED
  BY <1>13, <1>14

(* Every step keeps the exchange.                                          *)
LEMMA ExchangeStep ==
    ASSUME SignalingInv, ExchangeInv, [Next]_vars
    PROVE  ExchangeInv'
<1>1. CASE UNCHANGED vars
  BY <1>1 DEF vars, ExchangeInv, Pipe
<1>2. ASSUME NEW e \in Ends,
             \/ Deliver(e) \/ Refresh(e) \/ LoseSocket(e) \/ Reload(e) \/ Reattach(e)
             \/ ConfigArrives(e) \/ ConfigExpires(e)
             \/ Step(e) \/ Reject(e) \/ Fire(e) \/ RetryPaused(e)
             \/ Gather(e) \/ Connecting(e) \/ Connected(e) \/ ChannelOpens(e)
             \/ Disconnects(e) \/ Fails(e) \/ ChannelCloses(e)
      PROVE  ExchangeInv'
  <2> DEFINE p == page[e]
             N == IF e = "owner" THEN {Fresh} ELSE {}
  <2>1. PageInv(p) /\ Neat(p) /\ p.role = e /\ p.out = <<>>
    BY Standing DEF Quiet
  <2>2. ASSUME NEW q, Becomes(e, q, net), Turned(p, q, N) \/ Turned(p, q, {})
        PROVE  ExchangeInv'
    BY <2>2, BecomesTurned
  <2>3. CASE Deliver(e)
    BY <2>3, ExchangeDelivered
  <2>4. CASE Refresh(e)
    <3>1. Turned(p, SyncRtcPeers(p, Fresh), N)
      BY <2>1, TurnsSynced
    <3> QED
      BY <2>2, <2>4, <3>1 DEF Refresh
  <2>5. CASE LoseSocket(e)
    BY <2>5, ExchangeOffline DEF LoseSocket
  <2>6. CASE Reload(e)
    BY <2>6, ExchangeOffline DEF Reload
  <2>7. CASE Reattach(e)
    BY <2>7, ExchangeReattached
  <2>8. CASE ConfigArrives(e)
    BY <2>8, ExchangeConfigured DEF ConfigArrives
  <2>9. CASE ConfigExpires(e)
    BY <2>9, ExchangeExpired
  <2>10. CASE Step(e)
    <3>1. PICK t \in p.tasks : Becomes(e, StepTask(p, t), net)
      BY <2>10 DEF Step
    <3>2. CASE t.step = "announce"
      <4>1. Sends(p, StepTask(p, t))
        BY <2>1, <3>2, SendsAnnounced
      <4>2. PageInv(StepTask(p, t))
        BY <2>1, Stepping DEF Follows
      <4> QED
        BY <3>1, <4>1, <4>2, BecomesSent
    <3>3. CASE t.step # "announce"
      <4>1. Turned(p, StepTask(p, t), {})
        BY <2>1, <3>3, TurnsStepped
      <4> QED
        BY <2>2, <3>1, <4>1
    <3> QED
      BY <3>2, <3>3
  <2>11. CASE Reject(e)
    <3>1. PICK t \in p.tasks : Becomes(e, FailTask(p, t), net)
      BY <2>11 DEF Reject
    <3>2. Turned(p, FailTask(p, t), {})
      BY <2>1, TurnsFailed
    <3> QED
      BY <2>2, <3>1, <3>2
  <2>12. CASE Fire(e)
    <3>1. PICK t \in p.timers : Becomes(e, FireTimer(p, t, Fresh), net)
      BY <2>12 DEF Fire
    <3>2. Turned(p, FireTimer(p, t, Fresh), N)
      BY <2>1, TurnsFired
    <3> QED
      BY <2>2, <3>1, <3>2
  <2>13. CASE RetryPaused(e)
    <3>1. e = "owner" /\ Becomes(e, ReconnectPausedTransfer(p, Fresh), net)
      BY <2>13 DEF RetryPaused
    <3>2. Fresh \in N
      BY <3>1
    <3> HIDE DEF N
    <3>3. Turned(p, ReconnectPausedTransfer(p, Fresh), N)
      BY <2>1, <3>2, TurnsRestarted
    <3> QED
      BY <2>2, <3>1, <3>3
  <2>14. CASE Gather(e)
    <3>1. Becomes(e, QueueOrEmitLocalCandidate(p), net) /\ p.described
      BY <2>14 DEF Gather
    <3>2. Sends(p, QueueOrEmitLocalCandidate(p))
      BY <2>1, SendsGathered
    <3>3. PageInv(QueueOrEmitLocalCandidate(p))
      BY <2>1, <3>1, Gathering DEF Follows
    <3> QED
      BY <3>1, <3>2, <3>3, BecomesSent
  <2>15. \A x, state : /\ Turned(p, HandleConnectionState([p EXCEPT !.state = x], state), {})
                       /\ Turned(p, HandleConnectionState([p EXCEPT !.chan = x], state), {})
                       /\ Turned(p, MarkReady([p EXCEPT !.chan = x]), {})
    BY <2>1, TurnsStates
  <2>16. ASSUME NEW state, StateChanges(e, state)
         PROVE  ExchangeInv'
    BY <2>2, <2>15, <2>16 DEF StateChanges
  <2>17. CASE ChannelOpens(e)
    BY <2>2, <2>15, <2>17 DEF ChannelOpens
  <2>18. CASE ChannelCloses(e)
    BY <2>2, <2>15, <2>18 DEF ChannelCloses
  <2>19. CASE Connecting(e) \/ Connected(e) \/ Disconnects(e) \/ Fails(e)
    BY <2>16, <2>19 DEF Connecting, Connected, Disconnects, Fails
  <2> QED
    BY <1>2, <2>3, <2>4, <2>5, <2>6, <2>7, <2>8, <2>9, <2>10, <2>11, <2>12, <2>13, <2>14,
       <2>17, <2>18, <2>19
<1> QED
  BY <1>1, <1>2 DEF Next

(* What is on its way is queued by the page or still with the server.      *)
LEMMA OnTheWay ==
    ASSUME NEW a \in Seq(NetMessages), NEW b \in Seq(NetMessages), NEW c,
           \E i \in 1..Len(a \o b) : (a \o b)[i] = c
    PROVE  \/ \E j \in DOMAIN b : b[j] = c
           \/ \E j \in DOMAIN a : a[j] = c
<1> DEFINE w == a \o b
<1>1. PICK i \in 1..Len(w) : w[i] = c
  OBVIOUS
<1>2. Joins(a, b, w) /\ Numbered(a) /\ Numbered(b)
  BY Piping
<1>3. DOMAIN a = 1..Len(a) /\ DOMAIN b = 1..Len(b)
  OBVIOUS
<1> HIDE DEF w
<1>4. \A l \in 1..Len(w) : \/ l \in 1..Len(a) /\ w[l] = a[l]
                           \/ l > Len(a) /\ l - Len(a) \in 1..Len(b) /\ w[l] = b[l - Len(a)]
  BY <1>2, JoinedFrom
<1>5. \/ i \in 1..Len(a) /\ w[i] = a[i]
      \/ i - Len(a) \in 1..Len(b) /\ w[i] = b[i - Len(a)]
  BY <1>4
<1>6. CASE i \in 1..Len(a) /\ w[i] = a[i]
  BY <1>1, <1>3, <1>6
<1>7. CASE i - Len(a) \in 1..Len(b) /\ w[i] = b[i - Len(a)]
  BY <1>1, <1>3, <1>7
<1> QED
  BY <1>5, <1>6, <1>7

(* Then every candidate of a negotiation both pages are in is with the     *)
(* page that found it, on its way, or with the other.                      *)
LEMMA ExchangeArrives ==
    ASSUME SignalingInv, ExchangeInv
    PROVE  CandidatesArrive
<1>1. SUFFICES ASSUME NEW e \in Ends, page[e].neg # 0, page[Other(e)].neg = page[e].neg,
                      page[e].neg \notin page[e].dropped \cup page[Other(e)].dropped,
                      NEW k \in 1..page[Other(e)].found
               PROVE  Reaches(e, Candidate(page[e].neg, k))
  BY DEF CandidatesArrive
<1> DEFINE p == page[e]
           o == page[Other(e)]
           c == Candidate(p.neg, k)
<1>2. /\ p.queue \in Seq(NetMessages) /\ net[e] \in Seq(NetMessages)
      /\ Seen(e, p, o, Pipe(e), Pipe(Other(e)), negs)
  BY Standing
<1>3. Arriving(o, p, Pipe(e))
  <2>1. CASE e = "owner"
    <3>1. Exchange(p, o, Pipe(e), Pipe(Other(e)), negs)
      BY <1>2, <2>1 DEF Seen
    <3> QED
      BY <1>1, <3>1 DEF Exchange, Undropped
  <2>2. CASE e = "receiver"
    <3>1. Exchange(o, p, Pipe(Other(e)), Pipe(e), negs)
      BY <1>2, <2>2 DEF Seen
    <3> QED
      BY <1>1, <3>1 DEF Exchange, Undropped, Ahead
  <2> QED
    BY <2>1, <2>2 DEF Ends
<1>4. \/ k \in o.local
      \/ \E i \in 1..Len(Pipe(e)) : Pipe(e)[i] = c
      \/ Knows(p, c)
  BY <1>1, <1>3 DEF Arriving
<1>5. (\E i \in 1..Len(Pipe(e)) : Pipe(e)[i] = c)
      => \/ \E j \in DOMAIN net[e] : net[e][j] = c
         \/ \E j \in DOMAIN p.queue : p.queue[j] = c
  BY <1>2, OnTheWay DEF Pipe
<1>6. c.k = k
  BY DEF Candidate, Signal
<1> HIDE DEF c
<1>7. Reaches(e, c)
  BY <1>4, <1>5, <1>6 DEF Reaches, Knows
<1> QED
  BY <1>7 DEF c

(* No candidate of the negotiation both pages are in gets lost between     *)
(* them, unless a socket was lost, a queue was full or a promise was       *)
(* rejected.                                                               *)
THEOREM Arrival == Spec => []CandidatesArrive
<1>1. Init => SignalingInv /\ ExchangeInv
  BY SignalingInit, ExchangeInit
<1>2. (SignalingInv /\ ExchangeInv) /\ [Next]_vars => (SignalingInv /\ ExchangeInv)'
  BY SignalingStep, ExchangeStep
<1>3. SignalingInv /\ ExchangeInv => CandidatesArrive
  BY ExchangeArrives
<1> QED
  BY <1>1, <1>2, <1>3, PTL DEF Spec
=============================================================================

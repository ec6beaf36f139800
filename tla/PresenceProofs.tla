--------------------------- MODULE PresenceProofs ---------------------------
(***************************************************************************)
(* A member stored as online always has somebody who will take it offline  *)
(* again, for every set of connections, sessions and peers.                *)
(*                                                                         *)
(* The argument names, for every online membership, the task that keeps    *)
(* it: KeptBy is Holder seen from one task, and leaves out an attachment   *)
(* that its connection is about to replace, since that one is lost when    *)
(* the hub binds the connection anew.  A step of one task changes only     *)
(* what that task keeps; to the other connections it does nothing worse    *)
(* than evict them, and an evicted attachment stays available to their     *)
(* unregister.                                                             *)
(***************************************************************************)
EXTENDS Presence, HubStateProofs

Cleans == {"cleanup", "tell"}
Disconnects == {"close", "disconnect"}

(* What the hub holds for a socket whose session is s.                     *)
SocketHub(c, s, h) ==
    /\ h.connections[c].join_watch = NoWatch
    /\ h.evicted_attachments[c] # NoAttachment => ~Registered(h, c)
    /\ Registered(h, c) => h.connections[c].session = s

(* The hub knows nothing of the connection.                                *)
Unknown(c, h) == ~Registered(h, c) /\ h.evicted_attachments[c] = NoAttachment

(* Only cleanup_attachments has attachments pending or seen; the           *)
(* disconnecting tasks carry theirs to it.                                 *)
ListsOK(k) ==
    /\ k.pc \notin Cleans => k.seen = {}
    /\ k.pc \notin Cleans \cup Disconnects => k.pending = {}

SocketOK(c, k, h) ==
    /\ SocketHub(c, k.session, h)
    /\ k.pc \notin {"unborn", "ended"} => k.session \in Sessions
    /\ k.pc \notin Disconnects \cup {"idle"}
    /\ k.then \in {"idle", "greet", "reading", "ended"}
    /\ k.pc \in Cleans => k.then # "idle"
    /\ k.pc \in {"unborn", "ended"} \/ k.then = "ended" => Unknown(c, h)
    /\ k.pc \in {"attach", "relay"} => k.peer \in Peers
    /\ ~AnyClient /\ k.pc \in {"fresh", "attach"} =>
         Registered(h, c) /\ h.connections[c].attachment = NoAttachment

(* A leave_room handler, or the maintenance task.                          *)
OtherOK(t, k) ==
    /\ k.pc \in {"idle", "announce"} \cup Cleans \cup Disconnects
    /\ k.pc = "announce" => k.then \in Disconnects
    /\ k.pc \in Cleans => k.then = "idle"
    /\ "disconnect" \in {k.pc, k.then} => t \in Leavers

TaskOK(t, k, h) ==
    /\ k \in Task
    /\ ListsOK(k)
    /\ t \in Connections => SocketOK(t, k, h)
    /\ t \notin Connections => OtherOK(t, k)

(* Task t will take the session of a offline again.                        *)
KeptBy(t, k, h, a) ==
    \/ a \in k.pending \ k.seen
    \/ /\ t \in Connections
       /\ \/ h.evicted_attachments[t] = a
          \/ h.connections[t].attachment = a /\ k.pc # "attach"
          \/ k.pc = "attach" /\ k.session = a.session /\ k.peer = a.peer

OnlineIn(r, a) ==
    /\ r.memberships[a.session].state = "online"
    /\ r.memberships[a.session].peer = a.peer

RoomOK(r) == r \in R!RoomRecord /\ r.revision = 1

(* Clients do as apps/web does and the database answers.                   *)
WellBehaved == ~AnyClient /\ ~DatabaseFails

PInv ==
    /\ RoomOK(room) /\ due \in BOOLEAN
    /\ abandoned \subseteq Attachment
    /\ WellBehaved => abandoned = {}
    /\ HubOK(hub)
    /\ task \in [Tasks -> Task]
    /\ \A t \in Tasks : TaskOK(t, task[t], hub)
    /\ \A a \in Attachment :
         OnlineIn(room, a) => (\E t \in Tasks : KeptBy(t, task[t], hub, a)) \/ a \in abandoned

----------------------------------------------------------------------------
(* The hub around a step.                                                  *)

(* What a step of one task may do to the connection of another.            *)
Moved(h, g, d) == Stays(h, g, d) \/ (Evicted(h, g, d) /\ Bound(h, d))

(* A connection that is not registered has no attachment.                  *)
LEMMA UnregisteredIsUnattached ==
    ASSUME NEW h, HubOK(h), NEW c \in Connections, ~Registered(h, c)
    PROVE  h.connections[c].attachment = NoAttachment
BY AttachedIsRegistered

(* The queues of removed connections do not matter.                        *)
LEMMA HubBecomesOK ==
    ASSUME NEW g, HubOK(g), HubBecomes(g)
    PROVE  /\ HubOK(hub')
           /\ hub'.connections = g.connections
           /\ hub'.evicted_attachments = g.evicted_attachments
<1> DEFINE q == [c \in Connections |-> IF Registered(g, c) THEN g.queue[c] ELSE <<>>]
           w == {c \in g.writers : Registered(g, c)}
<1>1. g \in Hub /\ Capacity \in Nat
  BY HubAssumption DEF HubOK
<1>2. hub' = [g EXCEPT !.queue = q, !.writers = w]
  BY <1>1 DEF HubBecomes, Hub
<1>3. /\ q \in [Connections -> Seq(Outbound)] /\ w \in SUBSET Connections
      /\ \A c \in Connections : Len(q[c]) <= Capacity
  <2>1. <<>> \in Seq(Outbound) /\ Len(<<>>) = 0 /\ 0 <= Capacity
    BY <1>1
  <2>2. \A c \in Connections : g.queue[c] \in Seq(Outbound) /\ Len(g.queue[c]) <= Capacity
    BY <1>1 DEF HubOK, Hub
  <2>3. w \in SUBSET Connections
    BY <1>1 DEF Hub
  <2> QED
    BY <2>1, <2>2, <2>3
<1> HIDE DEF q, w
<1>4. /\ hub' \in Hub /\ hub'.connections = g.connections
      /\ hub'.evicted_attachments = g.evicted_attachments
      /\ hub'.room_connections = g.room_connections /\ hub'.session_routes = g.session_routes
      /\ hub'.peer_routes = g.peer_routes /\ hub'.queue = q
  BY <1>1, <1>2, <1>3 DEF Hub
<1>5. HubOK(hub')
  BY <1>3, <1>4, SameBindings
<1> QED
  BY <1>4, <1>5

(* After a method that only evicts.                                        *)
LEMMA EvictingStep ==
    ASSUME NEW g, HubOK(g), HubBecomes(g), NEW T, OnlyEvicts(hub, g, T)
    PROVE  /\ HubOK(hub')
           /\ \A d \in Connections \ T : Moved(hub, hub', d)
           /\ \A d \in Connections : Stays(hub, hub', d) \/ Evicted(hub, hub', d)
<1>1. /\ HubOK(hub') /\ hub'.connections = g.connections
      /\ hub'.evicted_attachments = g.evicted_attachments
  BY HubBecomesOK
<1> QED
  BY <1>1 DEF OnlyEvicts, Moved, Stays, Evicted

(* What the hub holds for a connection left alone or evicted.              *)
LEMMA OwnHub ==
    ASSUME NEW h, HubOK(h), NEW g, NEW c \in Connections, NEW s, SocketHub(c, s, h),
           Stays(h, g, c) \/ Evicted(h, g, c)
    PROVE  /\ SocketHub(c, s, g)
           /\ Unknown(c, h) => Unknown(c, g)
           /\ \A a \in Attachment :
                a \in {h.evicted_attachments[c], h.connections[c].attachment} =>
                  a \in {g.evicted_attachments[c], g.connections[c].attachment}
<1>0. NoAttachment \notin Attachment
  BY HubAssumption DEF Attachment
<1>1. ~Registered(h, c) => h.connections[c].attachment = NoAttachment
  BY UnregisteredIsUnattached
<1>2. CASE Stays(h, g, c)
  BY <1>2 DEF Stays, SocketHub, Unknown, Registered
<1>3. CASE Evicted(h, g, c)
  <2>1. /\ g.connections[c].session = NoSession /\ g.connections[c].attachment = NoAttachment
        /\ g.connections[c].join_watch = NoWatch /\ ~Registered(g, c)
    BY <1>3 DEF Evicted, Unregistered, Entry, Registered
  <2>2. SocketHub(c, s, g)
    BY <2>1 DEF SocketHub
  <2>3. Unknown(c, h) => Unknown(c, g)
    BY <1>1, <1>3, <2>1 DEF Unknown, Evicted
  <2>4. ASSUME NEW a \in Attachment,
               a \in {h.evicted_attachments[c], h.connections[c].attachment}
        PROVE  g.evicted_attachments[c] = a
    <3>1. CASE h.connections[c].attachment = a
      BY <1>0, <1>3, <3>1 DEF Evicted
    <3>2. CASE h.evicted_attachments[c] = a
      BY <1>0, <1>1, <1>3, <3>2 DEF Evicted, SocketHub
    <3> QED
      BY <2>4, <3>1, <3>2
  <2> QED
    BY <2>2, <2>3, <2>4
<1> QED
  BY <1>2, <1>3

(* What a step of one task leaves to the socket of another.                *)
LEMMA OthersKeep ==
    ASSUME NEW h, HubOK(h), NEW g, NEW c \in Connections, NEW k, TaskOK(c, k, h),
           Moved(h, g, c)
    PROVE  /\ TaskOK(c, k, g)
           /\ \A a \in Attachment : KeptBy(c, k, h, a) => KeptBy(c, k, g, a)
<1>1. SocketOK(c, k, h) /\ SocketHub(c, k.session, h)
  BY DEF TaskOK, SocketOK
<1>2. /\ SocketHub(c, k.session, g)
      /\ Unknown(c, h) => Unknown(c, g)
      /\ \A a \in Attachment :
           a \in {h.evicted_attachments[c], h.connections[c].attachment} =>
             a \in {g.evicted_attachments[c], g.connections[c].attachment}
  BY <1>1, OwnHub DEF Moved
<1>3. ~AnyClient /\ k.pc \in {"fresh", "attach"} =>
        Registered(g, c) /\ g.connections[c].attachment = NoAttachment
  BY <1>1 DEF SocketOK, SocketHub, Moved, Bound, Stays, Registered
<1>4. TaskOK(c, k, g)
  BY <1>1, <1>2, <1>3 DEF TaskOK, SocketOK
<1>5. ASSUME NEW a \in Attachment, KeptBy(c, k, h, a)
      PROVE  KeptBy(c, k, g, a)
  <2>1. CASE k.pc = "attach"
    <3>0. NoAttachment \notin Attachment
      BY HubAssumption DEF Attachment
    <3>1. h.evicted_attachments[c] = a => g.evicted_attachments[c] = a
      BY <1>1, <3>0, UnregisteredIsUnattached DEF Moved, Stays, Evicted, SocketHub
    <3> QED
      BY <1>5, <2>1, <3>1 DEF KeptBy
  <2>2. CASE k.pc # "attach"
    BY <1>2, <1>5, <2>2 DEF KeptBy
  <2> QED
    BY <2>1, <2>2
<1> QED
  BY <1>4, <1>5

----------------------------------------------------------------------------
(* The shape of every step.                                                *)

(* A step of task t keeps the invariant if the task is fit to go on, the   *)
(* others' connections are at worst evicted, whoever comes online is kept  *)
(* by t, and whoever was kept by t and still is online stays kept.         *)
LEMMA StepBy ==
    ASSUME PInv, NEW t \in Tasks, NEW k, task' = [task EXCEPT ![t] = k],
           HubOK(hub'), \A d \in Connections \ {t} : Moved(hub, hub', d),
           TaskOK(t, k, hub'),
           RoomOK(room'), due' \in BOOLEAN, abandoned' \subseteq Attachment,
           WellBehaved => abandoned' = {},
           \A a \in Attachment :
             OnlineIn(room', a) =>
               /\ OnlineIn(room, a) \/ KeptBy(t, k, hub', a)
               /\ KeptBy(t, task[t], hub, a) \/ a \in abandoned =>
                    KeptBy(t, k, hub', a) \/ a \in abandoned'
    PROVE  PInv'
<1>1. task \in [Tasks -> Task] /\ k \in Task
  BY DEF PInv, TaskOK
<1>2. task' \in [Tasks -> Task] /\ task'[t] = k /\ \A u \in Tasks \ {t} : task'[u] = task[u]
  BY <1>1
<1>3. ASSUME NEW u \in Tasks, u # t
      PROVE  /\ TaskOK(u, task'[u], hub')
             /\ \A a \in Attachment : KeptBy(u, task[u], hub, a) => KeptBy(u, task'[u], hub', a)
  <2>1. task'[u] = task[u] /\ TaskOK(u, task[u], hub) /\ HubOK(hub)
    BY <1>2, <1>3 DEF PInv
  <2>2. CASE u \in Connections
    <3>1. Moved(hub, hub', u)
      BY <1>3, <2>2
    <3> QED
      BY <2>1, <2>2, <3>1, OthersKeep
  <2>3. CASE u \notin Connections
    BY <2>1, <2>3 DEF TaskOK, KeptBy
  <2> QED
    BY <2>2, <2>3
<1>4. \A u \in Tasks : TaskOK(u, task'[u], hub')
  BY <1>2, <1>3
<1>5. ASSUME NEW a \in Attachment, OnlineIn(room', a)
      PROVE  (\E u \in Tasks : KeptBy(u, task'[u], hub', a)) \/ a \in abandoned'
  <2>1. CASE KeptBy(t, k, hub', a)
    BY <1>2, <2>1
  <2>2. CASE OnlineIn(room, a)
    <3>1. (\E u \in Tasks : KeptBy(u, task[u], hub, a)) \/ a \in abandoned
      BY <2>2 DEF PInv
    <3>2. CASE KeptBy(t, task[t], hub, a) \/ a \in abandoned
      BY <1>2, <1>5, <3>2
    <3>3. CASE \E u \in Tasks \ {t} : KeptBy(u, task[u], hub, a)
      BY <1>3, <3>3
    <3> QED
      BY <3>1, <3>2, <3>3
  <2> QED
    BY <1>5, <2>1, <2>2
<1> QED
  BY <1>2, <1>4, <1>5 DEF PInv

(* The same for a step that leaves the stored room alone.                  *)
LEMMA HubStepBy ==
    ASSUME PInv, NEW t \in Tasks, NEW k, task' = [task EXCEPT ![t] = k],
           HubOK(hub'), \A d \in Connections \ {t} : Moved(hub, hub', d),
           TaskOK(t, k, hub'),
           UNCHANGED <<room, due, abandoned>>,
           \A a \in Attachment : KeptBy(t, task[t], hub, a) => KeptBy(t, k, hub', a)
    PROVE  PInv'
<1>1. /\ RoomOK(room') /\ due' \in BOOLEAN /\ abandoned' \subseteq Attachment
      /\ WellBehaved => abandoned' = {}
  BY DEF PInv
<1>2. \A a \in Attachment :
        OnlineIn(room', a) =>
          /\ OnlineIn(room, a) \/ KeptBy(t, k, hub', a)
          /\ KeptBy(t, task[t], hub, a) \/ a \in abandoned =>
               KeptBy(t, k, hub', a) \/ a \in abandoned'
  OBVIOUS
<1> QED
  BY <1>1, <1>2, StepBy

(* What is known of a task before its step.                                *)
LEMMA Before ==
    ASSUME PInv, NEW t \in Tasks
    PROVE  /\ HubOK(hub) /\ RoomOK(room) /\ due \in BOOLEAN /\ abandoned \subseteq Attachment
           /\ WellBehaved => abandoned = {}
           /\ task \in [Tasks -> Task] /\ task[t] \in Task
           /\ TaskOK(t, task[t], hub)
           /\ TheRoom \in Rooms
           /\ \A h, d : Moved(h, h, d)
BY PresenceAssumption DEF PInv, Moved, Stays

(* A clean-up that task t can go on with once it is done.                  *)
CanClean(t, k, h) ==
    /\ k \in Task
    /\ t \in Connections => /\ k.session \in Sessions
                            /\ k.then \in {"greet", "reading", "ended"}
                            /\ SocketHub(t, k.session, h)
                            /\ k.then = "ended" => Unknown(t, h)
    /\ t \notin Connections => k.then = "idle"

(* The loop of cleanup_attachments: the task stays fit, and keeps what is  *)
(* pending and what the hub holds for it.                                  *)
LEMMA CleaningOK ==
    ASSUME NEW t \in Tasks, NEW k, NEW h, HubOK(h), CanClean(t, k, h)
    PROVE  /\ TaskOK(t, Cleaning(k), h)
           /\ \A a \in Attachment :
                \/ a \in k.pending \ k.seen
                \/ t \in Connections /\ a \in {h.evicted_attachments[t], h.connections[t].attachment}
                => KeptBy(t, Cleaning(k), h, a)
<1>0. k \in Task /\ NoAttachment \notin Attachment /\ NoPeer \notin Peers
  BY HubAssumption, PresenceAssumption DEF CanClean, Attachment
<1>1. CASE k.pending # {}
  <2>1. Cleaning(k) = [k EXCEPT !.pc = "cleanup"]
    BY <1>1 DEF Cleaning
  <2> DEFINE n == [k EXCEPT !.pc = "cleanup"]
  <2>2. /\ n \in Task /\ n.pc = "cleanup" /\ n.session = k.session /\ n.then = k.then
        /\ n.pending = k.pending /\ n.seen = k.seen
    BY <1>0 DEF Task, Steps
  <2> HIDE DEF n
  <2>3. TaskOK(t, n, h)
    BY <2>2 DEF TaskOK, CanClean, ListsOK, SocketOK, OtherOK, Cleans, Disconnects
  <2>4. ASSUME NEW a \in Attachment,
               \/ a \in k.pending \ k.seen
               \/ t \in Connections /\ a \in {h.evicted_attachments[t], h.connections[t].attachment}
        PROVE  KeptBy(t, n, h, a)
    BY <2>2, <2>4 DEF KeptBy
  <2> QED
    BY <2>1, <2>3, <2>4 DEF n
<1>2. CASE k.pending = {} /\ k.then = "ended"
  <2>1. Cleaning(k) = NewTask("ended", NoSession)
    BY <1>2 DEF Cleaning
  <2> DEFINE n == NewTask("ended", NoSession)
  <2>2. /\ n \in Task /\ n.pc = "ended" /\ n.session = NoSession /\ n.then = "idle"
        /\ n.pending = {} /\ n.seen = {}
    BY DEF Task, Steps, NewTask
  <2> HIDE DEF n
  <2>3. t \in Connections /\ Unknown(t, h) /\ SocketHub(t, NoSession, h)
    BY <1>2 DEF CanClean, SocketHub, Unknown
  <2>4. TaskOK(t, n, h)
    BY <2>2, <2>3 DEF TaskOK, ListsOK, SocketOK, Cleans, Disconnects
  <2>5. h.connections[t].attachment = NoAttachment /\ h.evicted_attachments[t] = NoAttachment
    BY <2>3, UnregisteredIsUnattached DEF Unknown
  <2> QED
    BY <1>0, <1>2, <2>1, <2>4, <2>5 DEF n
<1>3. CASE k.pending = {} /\ k.then # "ended"
  <2> DEFINE n == [k EXCEPT !.pc = k.then, !.seen = {}, !.then = "idle"]
  <2>1. Cleaning(k) = n
    BY <1>3 DEF Cleaning
  <2>2. /\ n \in Task /\ n.pc = k.then /\ n.session = k.session /\ n.then = "idle"
        /\ n.pending = {} /\ n.seen = {}
    BY <1>0, <1>3 DEF Task, Steps
  <2> HIDE DEF n
  <2>3. TaskOK(t, n, h)
    BY <1>3, <2>2 DEF TaskOK, CanClean, ListsOK, SocketOK, OtherOK, Cleans, Disconnects
  <2>4. ASSUME NEW a \in Attachment,
               \/ a \in k.pending \ k.seen
               \/ t \in Connections /\ a \in {h.evicted_attachments[t], h.connections[t].attachment}
        PROVE  KeptBy(t, n, h, a)
    BY <1>3, <2>2, <2>4 DEF KeptBy, CanClean
  <2> QED
    BY <2>1, <2>3, <2>4
<1> QED
  BY <1>1, <1>2, <1>3

(* A task that begins cleanup_attachments.                                 *)
LEMMA CleanUpOK ==
    ASSUME NEW t \in Tasks, NEW k \in Task, NEW A \in SUBSET Attachment, NEW pc \in Steps,
           NEW h, HubOK(h), k.seen = {},
           t \in Connections => /\ k.session \in Sessions /\ SocketHub(t, k.session, h)
                                /\ pc \in {"greet", "reading", "ended"}
                                /\ pc = "ended" => Unknown(t, h),
           t \notin Connections => pc = "idle"
    PROVE  /\ TaskOK(t, CleanUp(k, A, pc), h)
           /\ \A a \in Attachment :
                \/ a \in A
                \/ t \in Connections /\ a \in {h.evicted_attachments[t], h.connections[t].attachment}
                => KeptBy(t, CleanUp(k, A, pc), h, a)
<1> DEFINE n == [k EXCEPT !.pending = A, !.then = pc]
<1>1. /\ n \in Task /\ n.session = k.session /\ n.then = pc /\ n.pending = A /\ n.seen = {}
      /\ CleanUp(k, A, pc) = Cleaning(n)
  BY DEF Task, CleanUp
<1> HIDE DEF n
<1>2. CanClean(t, n, h)
  BY <1>1 DEF CanClean
<1>3. /\ TaskOK(t, Cleaning(n), h)
      /\ \A a \in Attachment :
           \/ a \in n.pending \ n.seen
           \/ t \in Connections /\ a \in {h.evicted_attachments[t], h.connections[t].attachment}
           => KeptBy(t, Cleaning(n), h, a)
  BY <1>2, CleaningOK
<1> QED
  BY <1>1, <1>3

(* What a socket's task knows outside of cleanup_attachments.              *)
LEMMA SocketBefore ==
    ASSUME PInv, NEW c \in Connections, task[c].pc \notin Cleans \cup {"unborn", "ended"}
    PROVE  /\ c \in Tasks /\ task[c] \in Task
           /\ task[c].session \in Sessions
           /\ SocketHub(c, task[c].session, hub)
           /\ task[c].pending = {} /\ task[c].seen = {}
           /\ \A a \in Attachment :
                KeptBy(c, task[c], hub, a) =>
                  \/ a \in {hub.evicted_attachments[c], hub.connections[c].attachment}
                  \/ task[c].pc = "attach"
<1>1. c \in Tasks
  BY DEF Tasks
<1>2. TaskOK(c, task[c], hub) /\ task[c] \in Task
  BY <1>1, Before
<1> QED
  BY <1>1, <1>2 DEF TaskOK, SocketOK, ListsOK, KeptBy

(* A socket goes on in its loop: the hub may have evicted its connection,  *)
(* and the room is not touched.                                            *)
LEMMA OwnStep ==
    ASSUME PInv, NEW c \in Connections,
           task[c].pc \notin Cleans \cup {"unborn", "ended", "attach"},
           NEW k \in Task, task' = [task EXCEPT ![c] = k],
           k.session = task[c].session, k.pending = task[c].pending, k.seen = task[c].seen,
           k.then = task[c].then,
           k.pc \in {"snapshot", "announce", "refuse", "fail", "signal", "detach", "relay",
                    "reading", "unregister"},
           k.pc = "relay" => k.peer \in Peers,
           HubOK(hub'), \A d \in Connections \ {c} : Moved(hub, hub', d),
           Stays(hub, hub', c) \/ Evicted(hub, hub', c),
           UNCHANGED <<room, due, abandoned>>
    PROVE  PInv'
<1>1. /\ c \in Tasks /\ task[c] \in Task /\ task[c].session \in Sessions
      /\ SocketHub(c, task[c].session, hub)
      /\ task[c].pending = {} /\ task[c].seen = {}
      /\ \A a \in Attachment :
           KeptBy(c, task[c], hub, a) =>
             a \in {hub.evicted_attachments[c], hub.connections[c].attachment}
  BY SocketBefore
<1>2. SocketOK(c, task[c], hub) /\ HubOK(hub)
  BY <1>1, Before DEF TaskOK
<1>3. /\ SocketHub(c, task[c].session, hub')
      /\ Unknown(c, hub) => Unknown(c, hub')
      /\ \A a \in Attachment :
           a \in {hub.evicted_attachments[c], hub.connections[c].attachment} =>
             a \in {hub'.evicted_attachments[c], hub'.connections[c].attachment}
  BY <1>1, <1>2, OwnHub
<1>4. SocketOK(c, k, hub')
  BY <1>1, <1>2, <1>3 DEF SocketOK, Cleans, Disconnects
<1>5. TaskOK(c, k, hub')
  BY <1>1, <1>4 DEF TaskOK, ListsOK
<1>6. \A a \in Attachment : KeptBy(c, task[c], hub, a) => KeptBy(c, k, hub', a)
  BY <1>1, <1>3 DEF KeptBy
<1> QED
  BY <1>1, <1>5, <1>6, HubStepBy

----------------------------------------------------------------------------
(* The stored room around a step.                                          *)

(* apply_room_command keeps a well formed room that has changed.           *)
LEMMA StoredOK ==
    ASSUME RoomOK(room), NEW r, r \in R!RoomRecord, r.revision = 1
    PROVE  /\ RoomOK(Stored(R!Commit(r)))
           /\ Stored(R!Commit(r)) = r /\ R!Commit(r).outcome = "changed"
           /\ R!Commit(r).room.state = r.state
           /\ Stored(R!Failed(room)) = room /\ R!Failed(room).outcome = "error"
           /\ Stored(R!Unchanged(room)) = room /\ R!Unchanged(room).outcome = "unchanged"
<1>1. R!Commit(r) = [room |-> [r EXCEPT !.revision = 2], outcome |-> "changed"]
  BY DEF R!Commit
<1>2. [[r EXCEPT !.revision = 2] EXCEPT !.revision = 1] = r
  BY DEF R!RoomRecord
<1>3. Stored(R!Commit(r)) = r /\ R!Commit(r).room.state = r.state
  BY <1>1, <1>2 DEF Stored, R!RoomRecord
<1> QED
  BY <1>1, <1>3 DEF RoomOK, Stored, R!Failed, R!Unchanged

(* Attach brings its session online with its peer, and nobody else.        *)
LEMMA AttachStored ==
    ASSUME RoomOK(room), NEW s \in Sessions, NEW p \in Peers, NEW t,
           R!Attach(room, s, p, t).outcome # "error"
    PROVE  /\ RoomOK(Stored(R!Attach(room, s, p, t)))
           /\ \A a \in Attachment :
                OnlineIn(Stored(R!Attach(room, s, p, t)), a) =>
                  IF a.session = s THEN a.peer = p ELSE OnlineIn(room, a)
<1> DEFINE m == [role |-> room.memberships[s].role, state |-> "online", peer |-> p]
           r == [room EXCEPT !.memberships[s] = m]
<1>1. m \in R!Membership
  BY DEF RoomOK, R!RoomRecord, R!Membership, R!MembershipState
<1>2. RoomOK(r) /\ r.memberships[s] = m
      /\ \A u \in Sessions \ {s} : r.memberships[u] = room.memberships[u]
  BY <1>1 DEF RoomOK, R!RoomRecord
<1>3. /\ Stored(R!Commit(r)) = r
      /\ Stored(R!Unchanged(room)) = room /\ R!Failed(room).outcome = "error"
  BY <1>2, StoredOK DEF RoomOK
<1>4. \/ /\ room.memberships[s].peer = p
         /\ R!Attach(room, s, p, t) = R!Unchanged(room)
      \/ R!Attach(room, s, p, t) = R!Commit(r)
  BY <1>3 DEF R!Attach
<1>5. \A a \in Attachment : a.session \in Sessions
  BY DEF Attachment
<1>6. CASE R!Attach(room, s, p, t) = R!Unchanged(room) /\ room.memberships[s].peer = p
  BY <1>3, <1>5, <1>6 DEF OnlineIn
<1>7. CASE R!Attach(room, s, p, t) = R!Commit(r)
  <2>1. Stored(R!Attach(room, s, p, t)) = r
    BY <1>3, <1>7
  <2>2. r.memberships[s].peer = p
    BY <1>2
  <2> HIDE DEF r
  <2> QED
    BY <1>2, <1>5, <2>1, <2>2 DEF OnlineIn
<1> QED
  BY <1>4, <1>6, <1>7

(* Detach takes the peer offline, if the session is online with it.        *)
LEMMA DetachStoredOK ==
    ASSUME RoomOK(room), NEW s \in Sessions, NEW p
    PROVE  /\ RoomOK(Stored(R!Detach(room, s, p)))
           /\ \A a \in Attachment :
                OnlineIn(Stored(R!Detach(room, s, p)), a) =>
                  OnlineIn(room, a) /\ ~(a.session = s /\ a.peer = p)
<1> DEFINE m == R!Offline(room.memberships[s].role)
           r == [room EXCEPT !.memberships[s] = m]
<1>1. m \in R!Membership /\ m.state = "offline"
  BY DEF RoomOK, R!RoomRecord, R!Membership, R!MembershipState, R!Offline
<1> HIDE DEF m
<1>2. RoomOK(r) /\ r.memberships[s] = m
      /\ \A u \in Sessions \ {s} : r.memberships[u] = room.memberships[u]
  BY <1>1 DEF RoomOK, R!RoomRecord
<1>3. /\ Stored(R!Commit(r)) = r
      /\ Stored(R!Unchanged(room)) = room /\ Stored(R!Failed(room)) = room
  BY <1>2, StoredOK DEF RoomOK
<1>4. \/ /\ ~(room.memberships[s].state = "online" /\ room.memberships[s].peer = p)
         /\ Stored(R!Detach(room, s, p)) = room
      \/ Stored(R!Detach(room, s, p)) = r
  BY <1>3 DEF R!Detach, m
<1>5. \A a \in Attachment : a.session \in Sessions
  BY DEF Attachment
<1>6. CASE /\ ~(room.memberships[s].state = "online" /\ room.memberships[s].peer = p)
           /\ Stored(R!Detach(room, s, p)) = room
  BY <1>6 DEF OnlineIn
<1>7. CASE Stored(R!Detach(room, s, p)) = r
  <2> HIDE DEF r
  <2> QED
    BY <1>1, <1>2, <1>5, <1>7 DEF OnlineIn
<1> QED
  BY <1>4, <1>6, <1>7

(* Leaving brings nobody online.                                           *)
LEMMA LeaveStoredOK ==
    ASSUME RoomOK(room), NEW s \in Sessions
    PROVE  /\ RoomOK(Stored(R!Leave(room, s)))
           /\ \A a \in Attachment : OnlineIn(Stored(R!Leave(room, s)), a) => OnlineIn(room, a)
<1> DEFINE m == [role |-> room.memberships[s].role, state |-> "left", peer |-> NoPeer]
           r == [room EXCEPT !.memberships[s] = m]
           e == [room EXCEPT !.state = "expired"]
<1>1. m \in R!Membership /\ m.state = "left"
  BY DEF RoomOK, R!RoomRecord, R!Membership, R!MembershipState
<1>2. RoomOK(r) /\ r.memberships[s] = m
      /\ \A u \in Sessions \ {s} : r.memberships[u] = room.memberships[u]
  BY <1>1 DEF RoomOK, R!RoomRecord
<1>3. RoomOK(e) /\ e.memberships = room.memberships
  BY DEF RoomOK, R!RoomRecord
<1>4. /\ Stored(R!Commit(r)) = r /\ Stored(R!Commit(e)) = e
      /\ Stored(R!Unchanged(room)) = room /\ Stored(R!Failed(room)) = room
  BY <1>2, <1>3, StoredOK DEF RoomOK
<1>5. R!PendingOf(room, s) = {}
  BY DEF R!PendingOf
<1>6. \/ Stored(R!Leave(room, s)) = room
      \/ Stored(R!Leave(room, s)) = r
      \/ Stored(R!Leave(room, s)) = e
  BY <1>4, <1>5 DEF R!Leave
<1>7. \A a \in Attachment : a.session \in Sessions
  BY DEF Attachment
<1>8. CASE Stored(R!Leave(room, s)) = r
  <2> HIDE DEF r
  <2> QED
    BY <1>1, <1>2, <1>7, <1>8 DEF OnlineIn
<1> HIDE DEF r, e
<1> QED
  BY <1>3, <1>6, <1>8 DEF OnlineIn

(* Nor does the expiry.                                                    *)
LEMMA ExpireStoredOK ==
    ASSUME RoomOK(room)
    PROVE  /\ RoomOK(Stored(R!Expire(room, 1)))
           /\ \A a \in Attachment : OnlineIn(Stored(R!Expire(room, 1)), a) => OnlineIn(room, a)
<1> DEFINE q == [x \in {} |-> IF room.join_requests[x].state = "pending"
                             THEN [room.join_requests[x] EXCEPT !.state = "expired"]
                             ELSE room.join_requests[x]]
           e == [room EXCEPT !.state = "expired", !.join_requests = q]
<1>1. q \in [{} -> R!JoinRequest]
  OBVIOUS
<1> HIDE DEF q
<1>2. RoomOK(e) /\ e.memberships = room.memberships
  BY <1>1 DEF RoomOK, R!RoomRecord
<1>3. /\ Stored(R!Commit(e)) = e
      /\ Stored(R!Unchanged(room)) = room /\ Stored(R!Failed(room)) = room
  BY <1>2, StoredOK DEF RoomOK
<1>4. Stored(R!Expire(room, 1)) = room \/ Stored(R!Expire(room, 1)) = e
  BY <1>3 DEF R!Expire, q
<1> HIDE DEF e
<1> QED
  BY <1>2, <1>4 DEF OnlineIn

----------------------------------------------------------------------------
(* The steps that only touch the loop of a socket.                         *)

(* A reply to the socket itself, or an error: the socket's connection is   *)
(* the only unbound one that may be evicted.                               *)
LEMMA SendingStep ==
    ASSUME PInv, NEW c \in Connections, HubBecomes(Send(hub, c, "message").hub)
    PROVE  /\ HubOK(hub') /\ \A d \in Connections \ {c} : Moved(hub, hub', d)
           /\ Stays(hub, hub', c) \/ Evicted(hub, hub', c)
<1>1. HubOK(hub)
  BY DEF PInv
<1>2. HubOK(Send(hub, c, "message").hub)
  BY <1>1, SendKeeps DEF Keeps, Outbound
<1>3. OnlyEvicts(hub, Send(hub, c, "message").hub, {c})
  BY <1>1, SendingMoves
<1> QED
  BY <1>2, <1>3, EvictingStep

(* SendAttached, and the snapshot.                                         *)
LEMMA ReplySteps ==
    ASSUME PInv, NEW c \in Connections, SendAttached(c) \/ SendSnapshot(c)
    PROVE  PInv'
<1>0. /\ task[c].pc \in {"greet", "snapshot"}
      /\ task[c].pc \notin Cleans \cup {"unborn", "ended", "attach"}
  BY DEF SendAttached, SendSnapshot, At, Cleans
<1>1. c \in Tasks /\ task[c] \in Task /\ HubOK(hub)
  BY <1>0, SocketBefore DEF PInv
<1>2. ASSUME NEW pc \in {"snapshot", "announce", "refuse", "fail"}, Goto(c, pc),
             HubOK(hub'), \A d \in Connections \ {c} : Moved(hub, hub', d),
             Stays(hub, hub', c) \/ Evicted(hub, hub', c),
             UNCHANGED <<room, due, abandoned>>
      PROVE  PInv'
  <2> DEFINE k == [task[c] EXCEPT !.pc = pc]
  <2>1. task' = [task EXCEPT ![c] = k]
    BY <1>2 DEF Goto
  <2>2. /\ k \in Task /\ k.session = task[c].session /\ k.pending = task[c].pending
        /\ k.seen = task[c].seen /\ k.then = task[c].then /\ k.pc = pc
    BY <1>1 DEF Task, Steps
  <2> HIDE DEF k
  <2> QED
    BY <1>0, <1>2, <2>1, <2>2, OwnStep
<1>3. ASSUME NEW pc \in {"snapshot", "announce"}, Reply(c, pc)
      PROVE  PInv'
  <2>1. /\ HubOK(hub') /\ \A d \in Connections \ {c} : Moved(hub, hub', d)
        /\ Stays(hub, hub', c) \/ Evicted(hub, hub', c)
    BY <1>3, SendingStep DEF Reply
  <2>2. \E n \in {"snapshot", "announce", "refuse", "fail"} : Goto(c, n)
    BY <1>3 DEF Reply
  <2>3. UNCHANGED <<room, due, abandoned>>
    BY <1>3 DEF Reply
  <2> QED
    BY <1>2, <2>1, <2>2, <2>3
<1>4. ASSUME NEW pc \in {"announce", "refuse"}, Goto(c, pc), UNCHANGED <<room, hub, due, abandoned>>
      PROVE  PInv'
  <2>1. /\ HubOK(hub') /\ \A d \in Connections \ {c} : Moved(hub, hub', d)
        /\ Stays(hub, hub', c) /\ UNCHANGED <<room, due, abandoned>>
    BY <1>1, <1>4 DEF Moved, Stays
  <2> QED
    BY <1>2, <1>4, <2>1
<1> QED
  BY <1>3, <1>4 DEF SendAttached, SendSnapshot

(* A message other than an attach, a refused attach, and the end of the    *)
(* read side: only the step changes.                                       *)
LEMMA GotoSteps ==
    ASSUME PInv, NEW c \in Connections, At(c, "fresh") \/ At(c, "reading") \/ At(c, "detach"),
           NEW pc \in {"signal", "detach", "refuse", "fail", "unregister"}, Goto(c, pc),
           UNCHANGED <<room, hub, due, abandoned>>
    PROVE  PInv'
<1>0. task[c].pc \notin Cleans \cup {"unborn", "ended", "attach"}
  BY DEF At, Cleans
<1>1. c \in Tasks /\ task[c] \in Task /\ HubOK(hub)
  BY <1>0, SocketBefore DEF PInv
<1> DEFINE k == [task[c] EXCEPT !.pc = pc]
<1>2. task' = [task EXCEPT ![c] = k]
  BY DEF Goto
<1>3. /\ k \in Task /\ k.session = task[c].session /\ k.pending = task[c].pending
      /\ k.seen = task[c].seen /\ k.then = task[c].then /\ k.pc = pc
  BY <1>1 DEF Task, Steps
<1>4. /\ HubOK(hub') /\ \A d \in Connections \ {c} : Moved(hub, hub', d)
      /\ Stays(hub, hub', c) /\ UNCHANGED <<room, due, abandoned>>
  BY <1>1 DEF Moved, Stays
<1> HIDE DEF k
<1> QED
  BY <1>0, <1>2, <1>3, <1>4, OwnStep

(* A signal is authorised and relayed; an error is sent.                   *)
LEMMA SignalSteps ==
    ASSUME PInv, NEW c \in Connections,
           (\E p \in Peers : AuthorizeSignal(c, p)) \/ RelaySignal(c) \/ SendError(c)
    PROVE  PInv'
<1>0. task[c].pc \notin Cleans \cup {"unborn", "ended", "attach"}
  BY DEF AuthorizeSignal, RelaySignal, SendError, At, Cleans
<1>1. c \in Tasks /\ task[c] \in Task /\ HubOK(hub) /\ TaskOK(c, task[c], hub)
  BY <1>0, SocketBefore, Before
<1>2. ASSUME NEW p \in Peers, AuthorizeSignal(c, p)
      PROVE  PInv'
  <2> DEFINE relay  == [task[c] EXCEPT !.pc = "relay", !.peer = p]
             refuse == [task[c] EXCEPT !.pc = "refuse"]
  <2>1. /\ task' = [task EXCEPT ![c] = relay] \/ task' = [task EXCEPT ![c] = refuse]
        /\ UNCHANGED <<room, hub, due, abandoned>>
    BY <1>2 DEF AuthorizeSignal, Becomes
  <2>2. /\ relay \in Task /\ relay.session = task[c].session /\ relay.pending = task[c].pending
        /\ relay.seen = task[c].seen /\ relay.then = task[c].then
        /\ relay.pc = "relay" /\ relay.peer = p
        /\ refuse \in Task /\ refuse.session = task[c].session
        /\ refuse.pending = task[c].pending /\ refuse.seen = task[c].seen
        /\ refuse.then = task[c].then /\ refuse.pc = "refuse"
    BY <1>1 DEF Task, Steps
  <2>3. /\ HubOK(hub') /\ \A d \in Connections \ {c} : Moved(hub, hub', d)
        /\ Stays(hub, hub', c) /\ UNCHANGED <<room, due, abandoned>>
    BY <1>1, <2>1 DEF Moved, Stays
  <2> HIDE DEF relay, refuse
  <2>4. CASE task' = [task EXCEPT ![c] = relay]
    BY <1>0, <2>2, <2>3, <2>4, OwnStep
  <2>5. CASE task' = [task EXCEPT ![c] = refuse]
    BY <1>0, <2>2, <2>3, <2>5, OwnStep
  <2> QED
    BY <2>1, <2>4, <2>5
<1>3. CASE RelaySignal(c)
  <2> DEFINE q == task[c].peer
             result == SendToPeer(hub, c, q)
             n == IF result.outcome = "ok" THEN "reading"
                  ELSE IF result.outcome = "SlowConsumer" THEN "fail" ELSE "refuse"
             k == [task[c] EXCEPT !.pc = n, !.peer = NoPeer]
  <2>1. /\ task' = [task EXCEPT ![c] = k] /\ HubBecomes(result.hub)
        /\ UNCHANGED <<room, due, abandoned>> /\ task[c].pc = "relay"
    BY <1>3 DEF RelaySignal, Becomes, At
  <2>2. q \in Peers
    BY <1>1, <2>1 DEF TaskOK, SocketOK
  <2>3. HubOK(result.hub)
    BY <1>1, <2>2, SendToPeerKeeps DEF Keeps
  <2>4. OnlyEvicts(hub, result.hub, {})
    BY <1>1, <2>2, SendingMoves
  <2>5. n \in {"reading", "fail", "refuse"}
    OBVIOUS
  <2> HIDE DEF n, result
  <2>6. /\ k \in Task /\ k.session = task[c].session /\ k.pending = task[c].pending
        /\ k.seen = task[c].seen /\ k.then = task[c].then /\ k.pc = n
    BY <1>1, <2>5 DEF Task, Steps
  <2>7. /\ HubOK(hub') /\ \A d \in Connections \ {c} : Moved(hub, hub', d)
        /\ Stays(hub, hub', c) \/ Evicted(hub, hub', c)
    BY <2>1, <2>3, <2>4, EvictingStep
  <2> HIDE DEF k
  <2> QED
    BY <1>0, <2>1, <2>5, <2>6, <2>7, OwnStep
<1>4. CASE SendError(c)
  <2> DEFINE n == IF task[c].pc = "refuse" THEN "reading" ELSE "unregister"
             k == [task[c] EXCEPT !.changed = FALSE, !.pc = n]
  <2>1. /\ task' = [task EXCEPT ![c] = k] /\ HubBecomes(Send(hub, c, "message").hub)
        /\ UNCHANGED <<room, due, abandoned>>
    BY <1>1, <1>4 DEF SendError, Becomes, Task
  <2>2. n \in {"reading", "unregister"}
    OBVIOUS
  <2> HIDE DEF n
  <2>3. /\ k \in Task /\ k.session = task[c].session /\ k.pending = task[c].pending
        /\ k.seen = task[c].seen /\ k.then = task[c].then /\ k.pc = n
    BY <1>1, <2>2 DEF Task, Steps
  <2>4. /\ HubOK(hub') /\ \A d \in Connections \ {c} : Moved(hub, hub', d)
        /\ Stays(hub, hub', c) \/ Evicted(hub, hub', c)
    BY <2>1, SendingStep
  <2> HIDE DEF k
  <2> QED
    BY <1>0, <2>1, <2>2, <2>3, <2>4, OwnStep
<1> QED
  BY <1>2, <1>3, <1>4

----------------------------------------------------------------------------
(* The steps that change what a task keeps.                                *)

(* cleanup_attachments takes one attachment offline, has seen it before,   *)
(* or fails and gives it up.                                               *)
LEMMA DetachStoredStep ==
    ASSUME PInv, NEW t \in Tasks, DetachStored(t)
    PROVE  PInv'
<1>1. /\ HubOK(hub) /\ RoomOK(room) /\ due \in BOOLEAN /\ abandoned \subseteq Attachment
      /\ WellBehaved => abandoned = {}
      /\ task[t] \in Task /\ TaskOK(t, task[t], hub)
  BY Before
<1>2. task[t].pc = "cleanup" /\ UNCHANGED <<hub, due>>
  BY DEF DetachStored, At
<1> DEFINE Rest(a) == [task[t] EXCEPT !.pending = @ \ {a}, !.seen = @ \cup {a}]
           Result(a) == R!Detach(room, a.session, a.peer)
<1>3. PICK a \in task[t].pending :
        \/ /\ a \notin task[t].seen
           /\ room' = Stored(Result(a))
           /\ Becomes(t, IF Result(a).outcome = "changed"
                         THEN [Rest(a) EXCEPT !.pc = "tell"]
                         ELSE Cleaning(Rest(a)))
           /\ abandoned' = abandoned \ {a}
        \/ /\ a \in task[t].seen
           /\ Becomes(t, Cleaning(Rest(a)))
           /\ UNCHANGED <<room, abandoned>>
        \/ /\ a \notin task[t].seen /\ DatabaseFails
           /\ Becomes(t, Cleaning(Rest(a)))
           /\ abandoned' = abandoned \cup {a}
           /\ UNCHANGED room
  BY DEF DetachStored
<1>4. a \in Attachment /\ a.session \in Sessions
  BY <1>1 DEF Task, Attachment
<1> DEFINE n == Rest(a)
           tell == [n EXCEPT !.pc = "tell"]
           clean == Cleaning(n)
<1>5. /\ n \in Task /\ n.session = task[t].session /\ n.then = task[t].then
      /\ n.pending = task[t].pending \ {a} /\ n.seen = task[t].seen \cup {a}
      /\ tell \in Task /\ tell.session = task[t].session /\ tell.then = task[t].then
      /\ tell.pending = n.pending /\ tell.seen = n.seen /\ tell.pc = "tell"
  BY <1>1, <1>4 DEF Task, Steps
<1>6. /\ room' = Stored(Result(a)) /\ abandoned' = abandoned \ {a}
      /\ task' = [task EXCEPT ![t] = tell] \/ task' = [task EXCEPT ![t] = clean]
      \/ /\ UNCHANGED room
         /\ \/ a \in task[t].seen /\ UNCHANGED abandoned
            \/ DatabaseFails /\ abandoned' = abandoned \cup {a}
         /\ task' = [task EXCEPT ![t] = clean]
  BY <1>3 DEF Becomes
<1> HIDE DEF n, tell, clean, Rest
<1>7. CanClean(t, n, hub)
  BY <1>1, <1>2, <1>5 DEF CanClean, TaskOK, SocketOK, OtherOK, Cleans
<1>8. /\ TaskOK(t, clean, hub)
      /\ \A b \in Attachment :
           \/ b \in n.pending \ n.seen
           \/ t \in Connections /\ b \in {hub.evicted_attachments[t], hub.connections[t].attachment}
           => KeptBy(t, clean, hub, b)
  BY <1>1, <1>7, CleaningOK DEF clean
<1>9. /\ TaskOK(t, tell, hub)
      /\ \A b \in Attachment :
           \/ b \in n.pending \ n.seen
           \/ t \in Connections /\ b \in {hub.evicted_attachments[t], hub.connections[t].attachment}
           => KeptBy(t, tell, hub, b)
  BY <1>1, <1>2, <1>5
     DEF TaskOK, ListsOK, SocketOK, OtherOK, KeptBy, Cleans, Disconnects
<1>10. \A b \in Attachment :
         (b # a \/ a \in task[t].seen) /\ KeptBy(t, task[t], hub, b) =>
           \/ b \in n.pending \ n.seen
           \/ t \in Connections /\ b \in {hub.evicted_attachments[t], hub.connections[t].attachment}
  BY <1>2, <1>5 DEF KeptBy
<1>11. \A d \in Connections \ {t} : Moved(hub, hub', d)
  BY <1>2 DEF Moved, Stays
<1>12. HubOK(hub') /\ due' \in BOOLEAN /\ hub' = hub
  BY <1>1, <1>2
<1>13. ASSUME NEW k, task' = [task EXCEPT ![t] = k], TaskOK(t, k, hub),
              \A b \in Attachment :
                \/ b \in n.pending \ n.seen
                \/ t \in Connections /\ b \in {hub.evicted_attachments[t], hub.connections[t].attachment}
                => KeptBy(t, k, hub, b),
              RoomOK(room'), abandoned' \subseteq Attachment, WellBehaved => abandoned' = {},
              \A b \in Attachment : OnlineIn(room', b) => OnlineIn(room, b),
              abandoned \ {a} \subseteq abandoned',
              \/ ~OnlineIn(room', a)
              \/ a \in task[t].seen /\ abandoned' = abandoned
              \/ a \in abandoned'
       PROVE  PInv'
  <2>1. ASSUME NEW b \in Attachment, OnlineIn(room', b)
        PROVE  /\ OnlineIn(room, b) \/ KeptBy(t, k, hub', b)
               /\ KeptBy(t, task[t], hub, b) \/ b \in abandoned =>
                    KeptBy(t, k, hub', b) \/ b \in abandoned'
    BY <1>10, <1>12, <1>13, <2>1
  <2> QED
    BY <1>11, <1>12, <1>13, <2>1, StepBy
<1>14. CASE /\ room' = Stored(Result(a)) /\ abandoned' = abandoned \ {a}
            /\ task' = [task EXCEPT ![t] = tell] \/ task' = [task EXCEPT ![t] = clean]
  <2>1. /\ RoomOK(room')
        /\ \A b \in Attachment :
             OnlineIn(room', b) => OnlineIn(room, b) /\ ~(b.session = a.session /\ b.peer = a.peer)
    BY <1>1, <1>4, <1>14, DetachStoredOK
  <2>2. /\ abandoned' \subseteq Attachment
        /\ WellBehaved => abandoned' = {}
        /\ abandoned \ {a} \subseteq abandoned' /\ ~OnlineIn(room', a)
        /\ \A b \in Attachment : OnlineIn(room', b) => OnlineIn(room, b)
    BY <1>1, <1>4, <1>14, <2>1
  <2> QED
    BY <1>8, <1>9, <1>13, <1>14, <2>1, <2>2
<1>15. CASE /\ UNCHANGED room /\ task' = [task EXCEPT ![t] = clean]
            /\ \/ a \in task[t].seen /\ UNCHANGED abandoned
               \/ DatabaseFails /\ abandoned' = abandoned \cup {a}
  <2>1. /\ RoomOK(room') /\ \A b \in Attachment : OnlineIn(room', b) => OnlineIn(room, b)
        /\ abandoned' \subseteq Attachment /\ abandoned \ {a} \subseteq abandoned'
        /\ (a \in task[t].seen /\ abandoned' = abandoned) \/ a \in abandoned'
    BY <1>1, <1>4, <1>15
  <2>2. WellBehaved => abandoned' = {}
    BY <1>1, <1>15 DEF WellBehaved
  <2> QED
    BY <1>8, <1>13, <1>15, <2>1, <2>2
<1> QED
  BY <1>6, <1>14, <1>15

(* A broadcast to the room evicts bound connections only.                  *)
LEMMA BroadcastStep ==
    ASSUME PInv, HubBecomes(Broadcast(hub, TheRoom).hub)
    PROVE  /\ HubOK(hub') /\ \A d \in Connections : Moved(hub, hub', d)
           /\ \A d \in Connections : Stays(hub, hub', d) \/ Evicted(hub, hub', d)
           /\ Broadcast(hub, TheRoom).attachments \in SUBSET Attachment
<1>1. HubOK(hub) /\ TheRoom \in Rooms
  BY PresenceAssumption DEF PInv
<1> DEFINE g == Broadcast(hub, TheRoom).hub
<1>2. HubOK(g) /\ Broadcast(hub, TheRoom).attachments \in SUBSET Attachment
  BY <1>1, BroadcastKeeps DEF Keeps
<1>3. OnlyEvicts(hub, g, {})
  BY <1>1, SendingMoves
<1> HIDE DEF g
<1>4. /\ HubOK(hub') /\ \A d \in Connections \ {} : Moved(hub, hub', d)
      /\ \A d \in Connections : Stays(hub, hub', d) \/ Evicted(hub, hub', d)
  BY <1>2, <1>3, EvictingStep DEF g
<1> QED
  BY <1>2, <1>4

(* cleanup_attachments tells the room and goes on with whoever the         *)
(* broadcast evicted.                                                      *)
LEMMA TellOfflineStep ==
    ASSUME PInv, NEW t \in Tasks, TellOffline(t)
    PROVE  PInv'
<1> DEFINE A == Broadcast(hub, TheRoom).attachments
           n == [task[t] EXCEPT !.pending = @ \cup A]
<1>1. HubOK(hub) /\ task[t] \in Task /\ TaskOK(t, task[t], hub)
  BY Before
<1>2. /\ task[t].pc = "tell" /\ HubBecomes(Broadcast(hub, TheRoom).hub)
      /\ task' = [task EXCEPT ![t] = Cleaning(n)] /\ UNCHANGED <<room, due, abandoned>>
  BY DEF TellOffline, At, Becomes
<1>3. /\ HubOK(hub') /\ \A d \in Connections \ {t} : Moved(hub, hub', d)
      /\ \A d \in Connections : Stays(hub, hub', d) \/ Evicted(hub, hub', d)
      /\ A \in SUBSET Attachment
  BY <1>2, BroadcastStep
<1> HIDE DEF A
<1>4. /\ n \in Task /\ n.session = task[t].session /\ n.then = task[t].then
      /\ n.pending = task[t].pending \cup A /\ n.seen = task[t].seen
  BY <1>1, <1>3 DEF Task
<1> HIDE DEF n
<1>5. ASSUME t \in Connections
      PROVE  /\ SocketHub(t, task[t].session, hub')
             /\ Unknown(t, hub) => Unknown(t, hub')
             /\ \A a \in Attachment :
                  a \in {hub.evicted_attachments[t], hub.connections[t].attachment} =>
                    a \in {hub'.evicted_attachments[t], hub'.connections[t].attachment}
  <2>1. SocketHub(t, task[t].session, hub)
    BY <1>1, <1>5 DEF TaskOK, SocketOK
  <2> QED
    BY <1>1, <1>3, <1>5, <2>1, OwnHub
<1>6. CanClean(t, n, hub')
  BY <1>1, <1>2, <1>4, <1>5 DEF CanClean, TaskOK, SocketOK, OtherOK, Cleans
<1>7. /\ TaskOK(t, Cleaning(n), hub')
      /\ \A a \in Attachment :
           \/ a \in n.pending \ n.seen
           \/ t \in Connections /\ a \in {hub'.evicted_attachments[t], hub'.connections[t].attachment}
           => KeptBy(t, Cleaning(n), hub', a)
  BY <1>3, <1>6, CleaningOK
<1>8. ASSUME NEW a \in Attachment, KeptBy(t, task[t], hub, a)
      PROVE  KeptBy(t, Cleaning(n), hub', a)
  <2>1. \/ a \in n.pending \ n.seen
        \/ /\ t \in Connections
           /\ a \in {hub.evicted_attachments[t], hub.connections[t].attachment}
    BY <1>2, <1>4, <1>8 DEF KeptBy
  <2> QED
    BY <1>5, <1>7, <2>1
<1> QED
  BY <1>2, <1>3, <1>7, <1>8, HubStepBy

(* A socket opens: the hub knew nothing of the connection.                 *)
LEMMA OpenStep ==
    ASSUME PInv, NEW c \in Connections, NEW s \in Sessions, Open(c, s)
    PROVE  PInv'
<1> DEFINE k == NewTask("fresh", s)
           g == Register(hub, c, s)
<1>1. /\ c \in Tasks /\ HubOK(hub) /\ TaskOK(c, task[c], hub) /\ NoAttachment \notin Attachment
      /\ NoSession # s
  BY Before, HubAssumption DEF Tasks, Attachment
<1>2. /\ task[c].pc = "unborn" /\ HubBecomes(g) /\ task' = [task EXCEPT ![c] = k]
      /\ UNCHANGED <<room, due, abandoned>>
  BY DEF Open, At, Becomes
<1>3. Unknown(c, hub) /\ task[c].pending = {}
  BY <1>1, <1>2 DEF TaskOK, SocketOK, ListsOK, Cleans, Disconnects
<1>4. HubOK(g)
  BY <1>1, <1>3, RegisterKeeps DEF Unknown
<1>5. /\ g.connections[c] = Entry(s) /\ g.evicted_attachments = hub.evicted_attachments
      /\ \A d \in Connections \ {c} : Stays(hub, g, d)
  BY <1>1, QuietMoves
<1> HIDE DEF g
<1>6. /\ HubOK(hub') /\ hub'.connections = g.connections
      /\ hub'.evicted_attachments = g.evicted_attachments
  BY <1>2, <1>4, HubBecomesOK
<1>7. \A d \in Connections \ {c} : Moved(hub, hub', d)
  BY <1>5, <1>6 DEF Moved, Stays
<1>8. /\ k \in Task /\ k.pc = "fresh" /\ k.session = s /\ k.then = "idle"
      /\ k.pending = {} /\ k.seen = {}
  BY DEF NewTask, Task, Steps
<1> HIDE DEF k
<1>9. /\ hub'.connections[c].session = s /\ hub'.connections[c].attachment = NoAttachment
      /\ hub'.connections[c].join_watch = NoWatch /\ hub'.evicted_attachments[c] = NoAttachment
      /\ Registered(hub', c)
  BY <1>1, <1>3, <1>5, <1>6 DEF Entry, Unknown, Registered
<1>10. TaskOK(c, k, hub')
  BY <1>8, <1>9 DEF TaskOK, ListsOK, SocketOK, SocketHub, Cleans, Disconnects
<1>11. ASSUME NEW a \in Attachment
       PROVE  ~KeptBy(c, task[c], hub, a)
  BY <1>1, <1>2, <1>3, UnregisteredIsUnattached DEF KeptBy, Unknown
<1> QED
  BY <1>1, <1>2, <1>6, <1>7, <1>10, <1>11, HubStepBy

(* attach_room stores the session as online: the socket now keeps the new  *)
(* peer id, and what its connection was attached as is no longer online.   *)
LEMMA ReceiveAttachStep ==
    ASSUME PInv, NEW c \in Connections, NEW p \in Peers, NEW t, ReceiveAttach(c, p, t)
    PROVE  PInv'
<1> DEFINE s == task[c].session
           result == R!Attach(room, s, p, t)
           n == result.outcome = "changed"
           k == [task[c] EXCEPT !.pc = "attach", !.peer = p, !.changed = n]
<1>1. /\ At(c, "fresh") \/ At(c, "reading")
      /\ At(c, "fresh") \/ AnyClient
      /\ UNCHANGED <<hub, due, abandoned>>
  BY DEF ReceiveAttach
<1>2. task[c].pc \notin Cleans \cup {"unborn", "ended", "attach"}
  BY <1>1 DEF At, Cleans
<1>3. /\ c \in Tasks /\ task[c] \in Task /\ s \in Sessions /\ SocketHub(c, s, hub)
      /\ task[c].pending = {} /\ task[c].seen = {}
      /\ \A a \in Attachment :
           KeptBy(c, task[c], hub, a) =>
             a \in {hub.evicted_attachments[c], hub.connections[c].attachment}
  BY <1>2, SocketBefore
<1>4. /\ HubOK(hub) /\ RoomOK(room) /\ due \in BOOLEAN /\ abandoned \subseteq Attachment
      /\ WellBehaved => abandoned = {}
      /\ TaskOK(c, task[c], hub)
  BY <1>3, Before
<1>5. CASE UNCHANGED room /\ (Goto(c, "refuse") \/ Goto(c, "fail"))
  <2>1. UNCHANGED <<room, hub, due, abandoned>>
    BY <1>1, <1>5
  <2> QED
    BY <1>1, <1>5, <2>1, GotoSteps
<1>6. CASE /\ result.outcome # "error" /\ room' = Stored(result)
           /\ task' = [task EXCEPT ![c] = k]
  <2>1. /\ RoomOK(room')
        /\ \A a \in Attachment :
             OnlineIn(room', a) => IF a.session = s THEN a.peer = p ELSE OnlineIn(room, a)
    BY <1>3, <1>4, <1>6, AttachStored
  <2>2. n \in BOOLEAN
    OBVIOUS
  <2> HIDE DEF n
  <2>3. /\ k \in Task /\ k.pc = "attach" /\ k.session = s /\ k.peer = p
        /\ k.then = task[c].then /\ k.pending = {} /\ k.seen = {}
    BY <1>3, <2>2 DEF Task, Steps
  <2> HIDE DEF k
  <2>4. ~AnyClient => Registered(hub, c) /\ hub.connections[c].attachment = NoAttachment
    BY <1>1, <1>4 DEF TaskOK, SocketOK, At
  <2>5. SocketOK(c, k, hub)
    BY <1>3, <1>4, <2>3, <2>4 DEF TaskOK, SocketOK, Cleans, Disconnects
  <2>6. TaskOK(c, k, hub')
    BY <1>1, <2>3, <2>5 DEF TaskOK, ListsOK
  <2>7. /\ HubOK(hub') /\ due' \in BOOLEAN /\ abandoned' \subseteq Attachment
        /\ WellBehaved => abandoned' = {}
    BY <1>1, <1>4
  <2>8. \A d \in Connections \ {c} : Moved(hub, hub', d)
    BY <1>1 DEF Moved, Stays
  <2>9. hub.connections[c].attachment # NoAttachment => hub.connections[c].attachment.session = s
    <3>1. ~Registered(hub, c) => hub.connections[c].attachment = NoAttachment
      BY <1>4, UnregisteredIsUnattached
    <3> QED
      BY <1>3, <1>4, <3>1 DEF SocketHub, HubOK, Owned
  <2>10. ASSUME NEW a \in Attachment, OnlineIn(room', a)
         PROVE  /\ OnlineIn(room, a) \/ KeptBy(c, k, hub', a)
                /\ KeptBy(c, task[c], hub, a) \/ a \in abandoned =>
                     KeptBy(c, k, hub', a) \/ a \in abandoned'
    <3>1. a.session = s => KeptBy(c, k, hub', a)
      BY <2>1, <2>3, <2>10 DEF KeptBy
    <3>2. NoAttachment \notin Attachment
      BY HubAssumption DEF Attachment
    <3>3. KeptBy(c, task[c], hub, a) => KeptBy(c, k, hub', a)
      <4>1. a = hub.connections[c].attachment => a.session = s
        BY <2>9, <3>2
      <4>2. a = hub.evicted_attachments[c] => KeptBy(c, k, hub', a)
        BY <1>1 DEF KeptBy
      <4> QED
        BY <1>3, <3>1, <4>1, <4>2
    <3> QED
      BY <1>1, <2>1, <2>10, <3>1, <3>3
  <2> QED
    BY <1>3, <1>6, <2>1, <2>6, <2>7, <2>8, <2>10, StepBy
<1> QED
  BY <1>5, <1>6 DEF ReceiveAttach, Becomes

(* attach_room at the hub: the connection holds what was stored, or, once  *)
(* it has been evicted, the attachment is given up.                        *)
LEMMA AttachHubStep ==
    ASSUME PInv, NEW c \in Connections, AttachHub(c)
    PROVE  PInv'
<1> DEFINE s == task[c].session
           p == task[c].peer
           new == [room |-> TheRoom, session |-> s, peer |-> p]
           k == [task[c] EXCEPT !.peer = NoPeer]
           result == Attach(hub, c, TheRoom, p)
<1>1. task[c].pc = "attach" /\ HubBecomes(result.hub) /\ UNCHANGED <<room, due>>
  BY DEF AttachHub, At
<1>2. /\ c \in Tasks /\ task[c] \in Task /\ s \in Sessions /\ SocketHub(c, s, hub)
      /\ task[c].pending = {} /\ task[c].seen = {}
  BY <1>1, SocketBefore DEF Cleans
<1>3. /\ HubOK(hub) /\ RoomOK(room) /\ due \in BOOLEAN /\ abandoned \subseteq Attachment
      /\ WellBehaved => abandoned = {}
      /\ TaskOK(c, task[c], hub) /\ TheRoom \in Rooms
  BY <1>2, Before
<1>4. /\ p \in Peers /\ SocketOK(c, task[c], hub)
      /\ ~AnyClient => Registered(hub, c)
  BY <1>1, <1>3 DEF TaskOK, SocketOK
<1>5. new \in Attachment /\ NoAttachment \notin Attachment
  BY <1>2, <1>3, <1>4, HubAssumption DEF Attachment
<1>6. ASSUME NEW a \in Attachment, a.session = s, a.peer = p
      PROVE  a = new
  BY <1>6, PresenceAssumption DEF Attachment
<1>7. /\ k \in Task /\ k.pc = "attach" /\ k.session = s /\ k.then = task[c].then
      /\ k.pending = {} /\ k.seen = {}
  BY <1>1, <1>2 DEF Task
<1>8. HubOK(result.hub) /\ result.attachments \in SUBSET Attachment
  BY <1>3, <1>4, AttachKeeps DEF Keeps
<1>9. /\ HubOK(hub') /\ hub'.connections = result.hub.connections
      /\ hub'.evicted_attachments = result.hub.evicted_attachments
  BY <1>1, <1>8, HubBecomesOK
<1>10. KeptBy(c, task[c], hub, new) /\ \A a \in Attachment :
         KeptBy(c, task[c], hub, a) => a = new \/ a = hub.evicted_attachments[c]
  BY <1>1, <1>2, <1>6 DEF KeptBy
<1>11. CASE /\ ~Registered(hub, c) /\ result = Err(hub, "ConnectionNotFound")
  <2> DEFINE f == [k EXCEPT !.pc = "fail"]
  <2>1. task' = [task EXCEPT ![c] = f] /\ abandoned' = abandoned \cup {new}
    BY <1>11 DEF AttachHub, Err, Becomes
  <2>2. /\ f \in Task /\ f.pc = "fail" /\ f.session = s /\ f.then = task[c].then
        /\ f.pending = {} /\ f.seen = {}
    BY <1>7 DEF Task, Steps
  <2> HIDE DEF f
  <2>3. hub'.connections = hub.connections /\ hub'.evicted_attachments = hub.evicted_attachments
    BY <1>9, <1>11 DEF Err
  <2>4. TaskOK(c, f, hub')
    BY <1>2, <1>4, <2>2, <2>3
       DEF TaskOK, ListsOK, SocketOK, SocketHub, Unknown, Registered, Cleans, Disconnects
  <2>5. ~WellBehaved /\ abandoned' \subseteq Attachment
    BY <1>3, <1>4, <1>5, <1>11, <2>1 DEF WellBehaved
  <2>6. \A d \in Connections \ {c} : Moved(hub, hub', d)
    BY <2>3 DEF Moved, Stays
  <2>7. ASSUME NEW a \in Attachment, OnlineIn(room', a)
        PROVE  /\ OnlineIn(room, a) \/ KeptBy(c, f, hub', a)
               /\ KeptBy(c, task[c], hub, a) \/ a \in abandoned =>
                    KeptBy(c, f, hub', a) \/ a \in abandoned'
    <3>1. a = hub.evicted_attachments[c] => KeptBy(c, f, hub', a)
      BY <2>3 DEF KeptBy
    <3> QED
      BY <1>1, <1>10, <2>1, <2>7, <3>1
  <2>8. RoomOK(room') /\ due' \in BOOLEAN
    BY <1>1, <1>3
  <2> QED
    BY <1>2, <1>9, <2>1, <2>4, <2>5, <2>6, <2>7, <2>8, StepBy
<1>12. CASE /\ Registered(hub, c) /\ result.outcome = "ok"
            /\ BoundAnew(hub, result.hub, c, hub.connections[c].session,
                         [room |-> TheRoom, session |-> hub.connections[c].session, peer |-> p],
                         NoWatch)
  <2> DEFINE f == CleanUp(k, result.attachments, "greet")
  <2>1. task' = [task EXCEPT ![c] = f] /\ abandoned' = abandoned \ {new}
    BY <1>12 DEF AttachHub, Becomes
  <2>2. hub.connections[c].session = s /\ hub.evicted_attachments[c] = NoAttachment
    BY <1>2, <1>12 DEF SocketHub
  <2>3. /\ hub'.connections[c] = [session |-> s, attachment |-> new, join_watch |-> NoWatch]
        /\ hub'.evicted_attachments[c] = NoAttachment
        /\ \A d \in Connections \ {c} : Moved(hub, hub', d)
    BY <1>9, <1>12, <2>2 DEF BoundAnew, Moved, Stays, Evicted
  <2>4. SocketHub(c, s, hub') /\ hub'.connections[c].attachment = new
    BY <2>3 DEF SocketHub
  <2>5. "greet" \in Steps
    BY DEF Steps
  <2> HIDE DEF k, new, result
  <2>6. /\ TaskOK(c, f, hub')
        /\ \A a \in Attachment :
             \/ a \in result.attachments
             \/ c \in Connections /\ a \in {hub'.evicted_attachments[c], hub'.connections[c].attachment}
             => KeptBy(c, f, hub', a)
    BY <1>2, <1>7, <1>8, <1>9, <2>4, <2>5, CleanUpOK
  <2> HIDE DEF f
  <2>7. KeptBy(c, f, hub', new)
    BY <1>5, <2>4, <2>6
  <2>8. \A a \in Attachment :
          OnlineIn(room', a) =>
            /\ OnlineIn(room, a) \/ KeptBy(c, f, hub', a)
            /\ KeptBy(c, task[c], hub, a) \/ a \in abandoned =>
                 KeptBy(c, f, hub', a) \/ a \in abandoned'
    BY <1>1, <1>5, <1>10, <2>1, <2>2, <2>7
  <2>9. /\ RoomOK(room') /\ due' \in BOOLEAN /\ abandoned' \subseteq Attachment
        /\ WellBehaved => abandoned' = {}
    BY <1>1, <1>3, <2>1
  <2> QED
    BY <1>2, <1>9, <2>1, <2>3, <2>6, <2>8, <2>9, StepBy
<1> HIDE DEF new, k
<1> QED
  BY <1>3, <1>4, <1>11, <1>12, AttachMoves

(* A socket that goes into cleanup_attachments with what the hub gave it   *)
(* back keeps what it kept, if the hub lost nothing of it.                 *)
LEMMA CleanUpStep ==
    ASSUME PInv, NEW c \in Connections,
           task[c].pc \notin Cleans \cup {"unborn", "ended", "attach"},
           NEW k \in Task, k.seen = {}, k.session = task[c].session,
           NEW A \in SUBSET Attachment, NEW pc \in {"reading", "ended"},
           task' = [task EXCEPT ![c] = CleanUp(k, A, pc)],
           HubOK(hub'), \A d \in Connections \ {c} : Moved(hub, hub', d),
           SocketHub(c, task[c].session, hub'), pc = "ended" => Unknown(c, hub'),
           \A a \in Attachment :
             a \in {hub.evicted_attachments[c], hub.connections[c].attachment} =>
               a \in A \cup {hub'.evicted_attachments[c], hub'.connections[c].attachment},
           UNCHANGED <<room, due, abandoned>>
    PROVE  PInv'
<1>1. /\ c \in Tasks /\ task[c].session \in Sessions
      /\ \A a \in Attachment :
           KeptBy(c, task[c], hub, a) =>
             a \in {hub.evicted_attachments[c], hub.connections[c].attachment}
  BY SocketBefore
<1>2. pc \in Steps
  BY DEF Steps
<1>3. /\ TaskOK(c, CleanUp(k, A, pc), hub')
      /\ \A a \in Attachment :
           \/ a \in A
           \/ c \in Connections /\ a \in {hub'.evicted_attachments[c], hub'.connections[c].attachment}
           => KeptBy(c, CleanUp(k, A, pc), hub', a)
  BY <1>1, <1>2, CleanUpOK
<1>4. \A a \in Attachment : KeptBy(c, task[c], hub, a) => KeptBy(c, CleanUp(k, A, pc), hub', a)
  BY <1>1, <1>3
<1> QED
  BY <1>1, <1>3, <1>4, HubStepBy

(* attach_room tells the room, if the attach changed it.                   *)
LEMMA AnnounceOnlineStep ==
    ASSUME PInv, NEW c \in Connections, AnnounceOnline(c)
    PROVE  PInv'
<1> DEFINE told == IF task[c].changed THEN Broadcast(hub, TheRoom) ELSE Ok(hub, {})
           k == [task[c] EXCEPT !.attached = TRUE, !.changed = FALSE]
<1>1. /\ task[c].pc = "announce" /\ HubBecomes(told.hub) /\ UNCHANGED <<room, due, abandoned>>
      /\ task' = [task EXCEPT ![c] = CleanUp(k, told.attachments, "reading")]
  BY DEF AnnounceOnline, At, Becomes
<1>2. /\ c \in Tasks /\ task[c] \in Task /\ SocketHub(c, task[c].session, hub)
      /\ task[c].seen = {} /\ HubOK(hub)
  BY <1>1, SocketBefore DEF Cleans, PInv
<1>3. /\ HubOK(hub') /\ \A d \in Connections : Moved(hub, hub', d)
      /\ \A d \in Connections : Stays(hub, hub', d) \/ Evicted(hub, hub', d)
      /\ told.attachments \in SUBSET Attachment
  <2>1. CASE task[c].changed
    BY <1>1, <2>1, BroadcastStep
  <2>2. CASE ~task[c].changed
    <3>1. told.hub = hub /\ told.attachments = {}
      BY <2>2 DEF Ok
    <3>2. /\ HubOK(hub') /\ hub'.connections = hub.connections
          /\ hub'.evicted_attachments = hub.evicted_attachments
      BY <1>1, <1>2, <3>1, HubBecomesOK
    <3> QED
      BY <3>1, <3>2 DEF Moved, Stays
  <2> QED
    BY <2>1, <2>2
<1>4. /\ SocketHub(c, task[c].session, hub')
      /\ \A a \in Attachment :
           a \in {hub.evicted_attachments[c], hub.connections[c].attachment} =>
             a \in {hub'.evicted_attachments[c], hub'.connections[c].attachment}
  BY <1>2, <1>3, OwnHub
<1>5. k \in Task /\ k.seen = {} /\ k.session = task[c].session
  BY <1>2 DEF Task
<1>6. task[c].pc \notin Cleans \cup {"unborn", "ended", "attach"}
  BY <1>1 DEF Cleans
<1> HIDE DEF told, k
<1> QED
  BY <1>1, <1>3, <1>4, <1>5, <1>6, CleanUpStep

(* detach_room.                                                            *)
LEMMA DetachHubStep ==
    ASSUME PInv, NEW c \in Connections, DetachHub(c)
    PROVE  PInv'
<1> DEFINE result == Detach(hub, c)
           k == [task[c] EXCEPT !.attached = FALSE]
<1>1. task[c].pc = "detach" /\ UNCHANGED <<room, due, abandoned>>
  BY DEF DetachHub, At
<1>2. /\ c \in Tasks /\ task[c] \in Task /\ SocketHub(c, task[c].session, hub)
      /\ task[c].seen = {} /\ HubOK(hub)
  BY <1>1, SocketBefore DEF Cleans, PInv
<1>3. CASE Goto(c, "refuse") /\ UNCHANGED hub
  BY <1>1, <1>3, GotoSteps DEF At
<1>4. CASE /\ hub.connections[c].attachment # NoAttachment
           /\ HubBecomes(result.hub)
           /\ task' = [task EXCEPT ![c] = CleanUp(k, result.attachments, "reading")]
  <2>1. Registered(hub, c)
    BY <1>2, <1>4, UnregisteredIsUnattached
  <2>2. /\ result.attachments = AttachmentsOf(hub, {c})
        /\ result.hub.connections[c] = Entry(hub.connections[c].session)
        /\ result.hub.evicted_attachments = hub.evicted_attachments
        /\ \A d \in Connections \ {c} : Stays(hub, result.hub, d)
    BY <1>2, <2>1, DetachMoves
  <2>3. HubOK(result.hub) /\ result.attachments \in SUBSET Attachment
    BY <1>2, DetachKeeps DEF Keeps
  <2>4. hub.connections[c].attachment \in result.attachments
    BY <1>4, <2>2 DEF AttachmentsOf
  <2> HIDE DEF result
  <2>5. /\ HubOK(hub') /\ hub'.connections = result.hub.connections
        /\ hub'.evicted_attachments = result.hub.evicted_attachments
    BY <1>4, <2>3, HubBecomesOK
  <2>6. \A d \in Connections \ {c} : Moved(hub, hub', d)
    BY <2>2, <2>5 DEF Moved, Stays
  <2>7. SocketHub(c, task[c].session, hub')
    BY <1>2, <2>1, <2>2, <2>5 DEF SocketHub, Entry, Registered
  <2>8. \A a \in Attachment :
          a \in {hub.evicted_attachments[c], hub.connections[c].attachment} =>
            a \in result.attachments
                   \cup {hub'.evicted_attachments[c], hub'.connections[c].attachment}
    BY <2>2, <2>4, <2>5
  <2>9. k \in Task /\ k.seen = {} /\ k.session = task[c].session
    BY <1>2 DEF Task
  <2>10. task[c].pc \notin Cleans \cup {"unborn", "ended", "attach"}
    BY <1>1 DEF Cleans
  <2> HIDE DEF k
  <2> QED
    BY <1>1, <1>4, <2>3, <2>5, <2>6, <2>7, <2>8, <2>9, <2>10, CleanUpStep
<1> QED
  BY <1>3, <1>4 DEF DetachHub, Becomes

(* unregister hands out the attachment, or the one kept since an eviction, *)
(* and the hub forgets the connection.                                     *)
LEMMA UnregisterHubStep ==
    ASSUME PInv, NEW c \in Connections, UnregisterHub(c)
    PROVE  PInv'
<1> DEFINE result == Unregister(hub, c)
           k == task[c]
<1>1. /\ task[c].pc = "unregister" /\ UNCHANGED <<room, due, abandoned>>
      /\ HubBecomes(result.hub)
      /\ task' = [task EXCEPT ![c] = CleanUp(k, result.attachments, "ended")]
  BY DEF UnregisterHub, At, Becomes
<1>2. /\ c \in Tasks /\ task[c] \in Task /\ SocketHub(c, task[c].session, hub)
      /\ task[c].seen = {} /\ HubOK(hub)
  BY <1>1, SocketBefore DEF Cleans, PInv
<1>3. HubOK(result.hub) /\ result.attachments \in SUBSET Attachment
  BY <1>2, UnregisterKeeps DEF Keeps
<1>4. /\ result.hub.connections[c] = Unregistered
      /\ \A d \in Connections \ {c} : Stays(hub, result.hub, d)
      /\ \/ /\ hub.connections[c].attachment # NoAttachment
            /\ result.attachments = AttachmentsOf(hub, {c})
            /\ result.hub.evicted_attachments = hub.evicted_attachments
         \/ /\ hub.connections[c].attachment = NoAttachment
            /\ result.attachments = {hub.evicted_attachments[c]} \ {NoAttachment}
            /\ result.hub.evicted_attachments[c] = NoAttachment
  BY <1>2, UnregisterMoves
<1> HIDE DEF result
<1>5. /\ HubOK(hub') /\ hub'.connections = result.hub.connections
      /\ hub'.evicted_attachments = result.hub.evicted_attachments
  BY <1>1, <1>3, HubBecomesOK
<1>6. \A d \in Connections \ {c} : Moved(hub, hub', d)
  BY <1>4, <1>5 DEF Moved, Stays
<1>7. hub.connections[c].attachment # NoAttachment => hub.evicted_attachments[c] = NoAttachment
  BY <1>2, UnregisteredIsUnattached DEF SocketHub
<1>8. Unknown(c, hub') /\ SocketHub(c, task[c].session, hub')
  BY <1>4, <1>5, <1>7 DEF Unknown, SocketHub, Registered, Unregistered, Entry
<1>9. NoAttachment \notin Attachment
  BY HubAssumption DEF Attachment
<1>10. \A a \in Attachment :
         a \in {hub.evicted_attachments[c], hub.connections[c].attachment} =>
           a \in result.attachments
                  \cup {hub'.evicted_attachments[c], hub'.connections[c].attachment}
  BY <1>4, <1>7, <1>9 DEF AttachmentsOf
<1>11. task[c].pc \notin Cleans \cup {"unborn", "ended", "attach"}
  BY <1>1 DEF Cleans
<1> HIDE DEF k
<1>12. k \in Task /\ k.seen = {} /\ k.session = task[c].session
  BY <1>2 DEF k
<1> QED
  BY <1>1, <1>3, <1>5, <1>6, <1>8, <1>10, <1>11, <1>12, CleanUpStep

(* The writer task changes nothing but its queue.                          *)
LEMMA WriterStepOK ==
    ASSUME PInv, NEW c \in Connections, WriterStep(c)
    PROVE  PInv'
<1>1. /\ c \in Tasks /\ HubOK(hub) /\ TaskOK(c, task[c], hub) /\ task \in [Tasks -> Task]
  BY Before DEF Tasks
<1>2. UNCHANGED <<room, due, task, abandoned>>
  BY DEF WriterStep
<1>3. ASSUME NEW g, HubOK(g), HubBecomes(g), \A d \in Connections : Stays(hub, g, d)
      PROVE  PInv'
  <2>1. /\ HubOK(hub') /\ hub'.connections = g.connections
        /\ hub'.evicted_attachments = g.evicted_attachments
    BY <1>3, HubBecomesOK
  <2>2. \A d \in Connections : Moved(hub, hub', d)
    BY <1>3, <2>1 DEF Moved, Stays
  <2>3. /\ TaskOK(c, task[c], hub')
        /\ \A a \in Attachment : KeptBy(c, task[c], hub, a) => KeptBy(c, task[c], hub', a)
    BY <1>1, <2>2, OthersKeep
  <2>4. task' = [task EXCEPT ![c] = task[c]] /\ UNCHANGED <<room, due, abandoned>>
    BY <1>1, <1>2
  <2> QED
    BY <1>1, <2>1, <2>2, <2>3, <2>4, HubStepBy
<1>4. /\ hub.queue[c] # <<>> => HubOK(Write(hub, c))
      /\ HubOK(EndWriter(hub, c))
      /\ \A d \in Connections : Stays(hub, Write(hub, c), d) /\ Stays(hub, EndWriter(hub, c), d)
  BY <1>1, WriteKeeps, QuietMoves
<1> QED
  BY <1>3, <1>4 DEF WriterStep

----------------------------------------------------------------------------
(* leave_room and the maintenance task.                                    *)

(* The stored room loses a member, or ends: the task goes on to announce   *)
(* it, and nobody comes online.                                            *)
LEMMA EndStored ==
    ASSUME PInv, NEW t \in Tasks \ Connections, At(t, "idle"), RoomOK(room'),
           NEW n \in Disconnects, n = "disconnect" => t \in Leavers,
           task' = [task EXCEPT ![t] = [task[t] EXCEPT !.pc = "announce", !.then = n]],
           \A a \in Attachment : OnlineIn(room', a) => OnlineIn(room, a),
           UNCHANGED <<hub, due, abandoned>>
    PROVE  PInv'
<1> DEFINE k == [task[t] EXCEPT !.pc = "announce", !.then = n]
<1>1. /\ HubOK(hub) /\ due \in BOOLEAN /\ abandoned \subseteq Attachment
      /\ WellBehaved => abandoned = {}
      /\ task[t] \in Task /\ TaskOK(t, task[t], hub)
  BY Before
<1>2. task[t].pending = {} /\ task[t].seen = {}
  BY <1>1 DEF TaskOK, ListsOK, At, Cleans, Disconnects
<1>3. k \in Task /\ k.pc = "announce" /\ k.then = n /\ k.pending = {} /\ k.seen = {}
  BY <1>1, <1>2 DEF Task, Steps, Disconnects
<1> HIDE DEF k
<1>4. TaskOK(t, k, hub')
  BY <1>3 DEF TaskOK, ListsOK, OtherOK, Cleans, Disconnects
<1>5. /\ HubOK(hub') /\ due' \in BOOLEAN /\ abandoned' \subseteq Attachment
      /\ WellBehaved => abandoned' = {}
  BY <1>1
<1>6. \A d \in Connections \ {t} : Moved(hub, hub', d)
  BY DEF Moved, Stays
<1>7. \A a \in Attachment :
        OnlineIn(room', a) =>
          /\ OnlineIn(room, a) \/ KeptBy(t, k, hub', a)
          /\ KeptBy(t, task[t], hub, a) \/ a \in abandoned =>
               KeptBy(t, k, hub', a) \/ a \in abandoned'
  BY <1>2 DEF KeptBy
<1>8. task' = [task EXCEPT ![t] = k] /\ t \in Tasks
  BY DEF k
<1> QED
  BY <1>4, <1>5, <1>6, <1>7, <1>8, StepBy

(* leave_room.                                                             *)
LEMMA LeaveStep ==
    ASSUME PInv, NEW s \in Leavers, LeaveStored(s)
    PROVE  PInv'
<1> DEFINE n == IF R!Leave(room, s).room.state = "expired" THEN "close" ELSE "disconnect"
<1>1. s \in Tasks \ Connections /\ s \in Sessions /\ RoomOK(room)
  BY PresenceAssumption DEF Tasks, PInv
<1>2. /\ At(s, "idle") /\ room' = Stored(R!Leave(room, s))
      /\ task' = [task EXCEPT ![s] = [task[s] EXCEPT !.pc = "announce", !.then = n]]
      /\ UNCHANGED <<hub, due, abandoned>>
  BY DEF LeaveStored, Becomes
<1>3. n \in Disconnects
  BY DEF Disconnects
<1> HIDE DEF n
<1>4. RoomOK(room') /\ \A a \in Attachment : OnlineIn(room', a) => OnlineIn(room, a)
  BY <1>1, <1>2, LeaveStoredOK
<1> QED
  BY <1>1, <1>2, <1>3, <1>4, EndStored

(* The expiry.                                                             *)
LEMMA ExpireStep ==
    ASSUME PInv, ExpireStored
    PROVE  PInv'
<1>1. Maintenance \in Tasks \ Connections /\ RoomOK(room)
  BY PresenceAssumption DEF Tasks, PInv
<1>2. /\ At(Maintenance, "idle") /\ room' = Stored(R!Expire(room, 1))
      /\ task' = [task EXCEPT ![Maintenance] =
                    [task[Maintenance] EXCEPT !.pc = "announce", !.then = "close"]]
      /\ UNCHANGED <<hub, due, abandoned>>
  BY DEF ExpireStored, Becomes
<1>3. "close" \in Disconnects
  BY DEF Disconnects
<1>4. RoomOK(room') /\ \A a \in Attachment : OnlineIn(room', a) => OnlineIn(room, a)
  BY <1>1, <1>2, ExpireStoredOK
<1> QED
  BY <1>1, <1>2, <1>3, <1>4, EndStored

(* The end is announced; those the broadcast evicted are kept for the      *)
(* clean-up.                                                               *)
LEMMA AnnounceEndStep ==
    ASSUME PInv, NEW t \in Tasks \ Connections, AnnounceEnd(t)
    PROVE  PInv'
<1> DEFINE A == Broadcast(hub, TheRoom).attachments
           n == task[t].then
           k == [task[t] EXCEPT !.pc = n, !.pending = A]
<1>1. task[t] \in Task /\ TaskOK(t, task[t], hub) /\ t \in Tasks
  BY Before
<1>2. /\ task[t].pc = "announce" /\ HubBecomes(Broadcast(hub, TheRoom).hub)
      /\ task' = [task EXCEPT ![t] = k] /\ UNCHANGED <<room, due, abandoned>>
  BY DEF AnnounceEnd, At, Becomes
<1>3. /\ HubOK(hub') /\ \A d \in Connections \ {t} : Moved(hub, hub', d)
      /\ A \in SUBSET Attachment
  BY <1>2, BroadcastStep
<1> HIDE DEF A
<1>4. /\ n \in Disconnects /\ task[t].pending = {} /\ task[t].seen = {}
      /\ n = "disconnect" => t \in Leavers
  BY <1>1, <1>2 DEF TaskOK, ListsOK, OtherOK, Cleans, Disconnects
<1>5. /\ k \in Task /\ k.pc = n /\ k.then = n /\ k.pending = A /\ k.seen = {}
  BY <1>1, <1>3, <1>4 DEF Task
<1> HIDE DEF k, n
<1>6. TaskOK(t, k, hub')
  BY <1>4, <1>5 DEF TaskOK, ListsOK, OtherOK, Cleans, Disconnects
<1>7. \A a \in Attachment : KeptBy(t, task[t], hub, a) => KeptBy(t, k, hub', a)
  BY <1>4 DEF KeptBy
<1> QED
  BY <1>1, <1>2, <1>3, <1>6, <1>7, HubStepBy

(* Whoever must go is disconnected, and everyone evicted is cleaned up.    *)
LEMMA DisconnectEndedStep ==
    ASSUME PInv, NEW t \in Tasks \ Connections, DisconnectEnded(t)
    PROVE  PInv'
<1> DEFINE result == IF At(t, "close") THEN DisconnectRoom(hub, TheRoom)
                     ELSE DisconnectSession(hub, TheRoom, t)
           A == task[t].pending \cup result.attachments
           k == CleanUp(task[t], A, "idle")
<1>1. /\ task[t] \in Task /\ TaskOK(t, task[t], hub) /\ t \in Tasks /\ HubOK(hub)
      /\ TheRoom \in Rooms
  BY Before
<1>2. /\ At(t, "close") \/ At(t, "disconnect")
      /\ HubBecomes(result.hub)
      /\ task' = [task EXCEPT ![t] = k] /\ UNCHANGED <<room, due, abandoned>>
  BY DEF DisconnectEnded, Becomes
<1>3. At(t, "disconnect") => t \in Sessions
  BY <1>1, PresenceAssumption DEF At, TaskOK, OtherOK
<1>4. /\ HubOK(result.hub) /\ result.attachments \in SUBSET Attachment
      /\ OnlyEvicts(hub, result.hub, {})
  <2>1. CASE At(t, "close")
    <3>1. Keeps(hub, DisconnectRoom(hub, TheRoom))
      BY <1>1, DisconnectRoomKeeps
    <3>2. OnlyEvicts(hub, DisconnectRoom(hub, TheRoom).hub, {})
      BY <1>1, SendingMoves
    <3> QED
      BY <2>1, <3>1, <3>2 DEF Keeps
  <2>2. CASE At(t, "disconnect") /\ ~At(t, "close")
    <3>1. Keeps(hub, DisconnectSession(hub, TheRoom, t))
      BY <1>1, <1>3, <2>2, DisconnectSessionKeeps
    <3>2. OnlyEvicts(hub, DisconnectSession(hub, TheRoom, t).hub, {})
      BY <1>1, <1>3, <2>2, SendingMoves
    <3> QED
      BY <2>2, <3>1, <3>2 DEF Keeps
  <2> QED
    BY <1>2, <2>1, <2>2
<1> HIDE DEF result
<1>5. HubOK(hub') /\ \A d \in Connections \ {t} : Moved(hub, hub', d)
  BY <1>2, <1>4, EvictingStep
<1>6. task[t].seen = {} /\ A \in SUBSET Attachment /\ "idle" \in Steps
  BY <1>1, <1>2, <1>4 DEF TaskOK, ListsOK, At, Cleans, Task, Steps
<1>7. \A a \in Attachment : KeptBy(t, task[t], hub, a) => a \in A
  BY DEF KeptBy
<1> HIDE DEF A
<1>8. /\ TaskOK(t, k, hub')
      /\ \A a \in Attachment : a \in A => KeptBy(t, k, hub', a)
  BY <1>1, <1>5, <1>6, CleanUpOK
<1> HIDE DEF k
<1> QED
  BY <1>1, <1>2, <1>5, <1>7, <1>8, HubStepBy

----------------------------------------------------------------------------
(* The invariant, and what it says about ghosts.                           *)

(* Everyone is offline at first, and no task has begun.                    *)
LEMMA InitInv ==
    ASSUME Init
    PROVE  PInv
<1>1. /\ HubOK(hub) /\ due = FALSE /\ abandoned = {}
      /\ \A c \in Connections : /\ hub.connections[c] = Unregistered
                                /\ hub.evicted_attachments[c] = NoAttachment
  BY EmptyHubOK DEF Init
<1>2. ASSUME NEW c \in Connections
      PROVE  Unknown(c, hub) /\ SocketHub(c, NoSession, hub)
  <2>1. /\ hub.connections[c].session = NoSession /\ hub.connections[c].join_watch = NoWatch
        /\ hub.evicted_attachments[c] = NoAttachment
    BY <1>1 DEF Unregistered, Entry
  <2> QED
    BY <2>1 DEF Unknown, SocketHub, Registered
<1>3. RoomOK(room) /\ \A s \in Sessions : room.memberships[s].state = "offline"
  <2> DEFINE m == [s \in Sessions |-> R!Offline(IF s = Owner THEN "owner" ELSE "receiver")]
             q == [x \in {} |-> R!NoRequest]
  <2>1. m \in [Sessions -> R!Membership] /\ \A s \in Sessions : m[s].state = "offline"
    BY DEF R!Offline, R!Membership, R!MembershipRole, R!MembershipState
  <2>2. q \in [{} -> R!JoinRequest]
    OBVIOUS
  <2>3. room = [owner |-> Owner, expires_at |-> 1, state |-> "active", revision |-> 1,
                memberships |-> m, join_requests |-> q]
    BY DEF Init, R!CreateRoom
  <2> HIDE DEF m, q
  <2> QED
    BY <2>1, <2>2, <2>3, PresenceAssumption DEF RoomOK, R!RoomRecord
<1>4. ASSUME NEW t \in Tasks
      PROVE  task[t] \in Task /\ TaskOK(t, task[t], hub)
  <2> DEFINE pc == IF t \in Connections THEN "unborn" ELSE "idle"
             k == NewTask(pc, NoSession)
  <2>1. task[t] = k
    BY DEF Init
  <2>2. /\ k \in Task /\ k.pc = pc /\ k.session = NoSession /\ k.then = "idle"
        /\ k.pending = {} /\ k.seen = {}
    BY DEF NewTask, Task, Steps
  <2> HIDE DEF k
  <2>3. TaskOK(t, k, hub)
    BY <1>2, <2>2 DEF TaskOK, ListsOK, SocketOK, OtherOK, Cleans, Disconnects
  <2> QED
    BY <2>1, <2>2, <2>3
<1>5. task \in [Tasks -> Task]
  BY <1>4 DEF Init
<1>6. \A a \in Attachment : ~OnlineIn(room, a)
  BY <1>3 DEF OnlineIn, Attachment
<1> QED
  BY <1>1, <1>3, <1>4, <1>5, <1>6 DEF PInv

(* Every step keeps the invariant.                                         *)
LEMMA StepKeepsPInv ==
    ASSUME PInv, [Next]_vars
    PROVE  PInv'
<1>1. ASSUME NEW t \in Tasks, Proceed(t)
      PROVE  PInv'
  <2>1. CASE DetachStored(t)
    BY <2>1, DetachStoredStep
  <2>2. CASE TellOffline(t)
    BY <2>2, TellOfflineStep
  <2>3. ASSUME t \in Connections, AttachHub(t)
        PROVE  PInv'
    BY <2>3, AttachHubStep
  <2>4. ASSUME t \in Connections, SendAttached(t) \/ SendSnapshot(t)
        PROVE  PInv'
    BY <2>4, ReplySteps
  <2>5. ASSUME t \in Connections, AnnounceOnline(t)
        PROVE  PInv'
    BY <2>5, AnnounceOnlineStep
  <2>6. ASSUME t \in Connections, DetachHub(t)
        PROVE  PInv'
    BY <2>6, DetachHubStep
  <2>7. ASSUME t \in Connections,
               (\E p \in Peers : AuthorizeSignal(t, p)) \/ RelaySignal(t) \/ SendError(t)
        PROVE  PInv'
    BY <2>7, SignalSteps
  <2>8. ASSUME t \in Connections, UnregisterHub(t)
        PROVE  PInv'
    BY <2>8, UnregisterHubStep
  <2>9. ASSUME t \notin Connections, AnnounceEnd(t)
        PROVE  PInv'
    BY <2>9, AnnounceEndStep
  <2>10. ASSUME t \notin Connections, DisconnectEnded(t)
         PROVE  PInv'
    BY <2>10, DisconnectEndedStep
  <2> QED
    BY <1>1, <2>1, <2>2, <2>3, <2>4, <2>5, <2>6, <2>7, <2>8, <2>9, <2>10 DEF Proceed
<1>2. ASSUME NEW c \in Connections, Client(c)
      PROVE  PInv'
  <2>1. ASSUME NEW s \in Sessions, Open(c, s)
        PROVE  PInv'
    BY <2>1, OpenStep
  <2>2. ASSUME NEW p \in Peers, NEW t \in Clock, ReceiveAttach(c, p, t)
        PROVE  PInv'
    BY <2>2, ReceiveAttachStep
  <2>3. ASSUME NEW pc \in {"signal", "detach", "refuse"}, ReceiveOther(c, pc)
        PROVE  PInv'
    <3>1. /\ At(c, "fresh") \/ At(c, "reading")
          /\ Goto(c, pc) \/ Goto(c, "fail")
          /\ UNCHANGED <<room, hub, due, abandoned>>
      BY <2>3 DEF ReceiveOther
    <3> QED
      BY <3>1, GotoSteps
  <2>4. CASE Disconnect(c)
    BY <2>4, GotoSteps DEF Disconnect
  <2>5. CASE WriterStep(c)
    BY <2>5, WriterStepOK
  <2> QED
    BY <1>2, <2>1, <2>2, <2>3, <2>4, <2>5 DEF Client
<1>3. ASSUME NEW s \in Leavers, LeaveStored(s)
      PROVE  PInv'
  BY <1>3, LeaveStep
<1>4. CASE ExpireStored
  BY <1>4, ExpireStep
<1>5. CASE BecomeDue
  BY <1>5 DEF BecomeDue, PInv
<1>6. CASE UNCHANGED vars
  BY <1>6 DEF vars, PInv
<1> QED
  BY <1>1, <1>2, <1>3, <1>4, <1>5, <1>6 DEF Next

(* The invariant holds in every state, whatever clients send and whichever *)
(* database calls fail.                                                    *)
THEOREM PresenceInvariance == Spec => []PInv
<1>1. Init => PInv
  BY InitInv
<1>2. PInv /\ [Next]_vars => PInv'
  BY StepKeepsPInv
<1> QED
  BY <1>1, <1>2, PTL DEF Spec

(* Whoever a task keeps online has a holder; an ended socket keeps nobody. *)
LEMMA KeptHasHolder ==
    ASSUME PInv, NEW a \in Attachment, NEW t \in Tasks, KeptBy(t, task[t], hub, a)
    PROVE  Holder(a)
<1>1. TaskOK(t, task[t], hub) /\ HubOK(hub) /\ NoAttachment \notin Attachment
  BY Before, HubAssumption DEF Attachment
<1>2. CASE a \in task[t].pending \ task[t].seen
  BY <1>2 DEF Holder
<1>3. CASE /\ t \in Connections
           /\ a \in {hub.connections[t].attachment, hub.evicted_attachments[t]}
  <2>1. Unknown(t, hub) => hub.connections[t].attachment = NoAttachment
    BY <1>1, <1>3, UnregisteredIsUnattached DEF Unknown
  <2>2. ~At(t, "ended")
    BY <1>1, <1>3, <2>1 DEF TaskOK, SocketOK, Unknown, At
  <2> QED
    BY <1>3, <2>2 DEF Holder
<1>4. CASE /\ t \in Connections /\ task[t].pc = "attach"
           /\ task[t].session = a.session /\ task[t].peer = a.peer
  BY <1>4 DEF Holder, At
<1> QED
  BY <1>2, <1>3, <1>4 DEF KeptBy

(* In every system, a member stored as online that nobody will take        *)
(* offline was abandoned: the hub refused a connection that had been       *)
(* evicted after attach_room stored it as online, or its detach failed.    *)
THEOREM Ghosts == Spec => []GhostsWereAbandoned
<1>1. PInv => GhostsWereAbandoned
  <2> SUFFICES ASSUME PInv, NEW a \in Attachment, Online(a.session, a.peer)
               PROVE  Holder(a) \/ a \in abandoned
    BY DEF GhostsWereAbandoned
  <2>1. OnlineIn(room, a)
    BY DEF Online, OnlineIn
  <2>2. (\E t \in Tasks : KeptBy(t, task[t], hub, a)) \/ a \in abandoned
    BY <2>1 DEF PInv
  <2> QED
    BY <2>2, KeptHasHolder
<1> QED
  BY <1>1, PresenceInvariance, PTL

(* With clients that behave as apps/web does, and a database that answers, *)
(* there are no ghosts, for any number of connections, sessions and peers. *)
THEOREM NoGhosts ==
    ASSUME ~AnyClient, ~DatabaseFails
    PROVE  Spec => []NoGhost
<1>1. PInv => NoGhost
  <2> SUFFICES ASSUME PInv, NEW a \in Attachment, Online(a.session, a.peer)
               PROVE  Holder(a)
    BY DEF NoGhost
  <2>1. OnlineIn(room, a) /\ abandoned = {}
    BY DEF Online, OnlineIn, PInv, WellBehaved
  <2>2. \E t \in Tasks : KeptBy(t, task[t], hub, a)
    BY <2>1 DEF PInv
  <2> QED
    BY <2>2, KeptHasHolder
<1> QED
  BY <1>1, PresenceInvariance, PTL

(* The stored room, the hub and the tasks keep their types.                *)
THEOREM PresenceTypes == Spec => []TypeOK
<1>1. PInv => TypeOK
  BY DEF PInv, TypeOK, RoomOK, HubOK
<1> QED
  BY <1>1, PresenceInvariance, PTL
=============================================================================

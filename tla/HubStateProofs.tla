--------------------------- MODULE HubStateProofs ---------------------------
(***************************************************************************)
(* What the methods of the hub do to its maps, for every set of            *)
(* connections, rooms, sessions and peers and every queue capacity.        *)
(*                                                                         *)
(* HubOK, a predicate on the hub's state, is kept by removal and eviction  *)
(* of any set of connections and by a new binding once the connections     *)
(* that it replaces are gone; every method is a composition of those.  The *)
(* second part says which connection each method evicts, binds or frees,   *)
(* which is what the tasks around the hub rely on.                         *)
(***************************************************************************)
EXTENDS HubState, SequenceTheorems, TLAPS

HubOK(h) ==
    /\ h \in Hub
    /\ \A c \in Connections : Len(h.queue[c]) <= Capacity
    /\ RoutesAgree(h)
    /\ Owned(h)

----------------------------------------------------------------------------
(* Two hubs that differ only in queues, writers and evicted attachments    *)
(* have the same bindings and the same routes.                             *)
LEMMA SameBindings ==
    ASSUME NEW h, NEW g, HubOK(h), g \in Hub,
           g.connections = h.connections,
           g.room_connections = h.room_connections,
           g.session_routes = h.session_routes,
           g.peer_routes = h.peer_routes,
           \A c \in Connections : Len(g.queue[c]) <= Capacity
    PROVE  HubOK(g)
BY DEF HubOK, RoutesAgree, SessionRoutesAgree, PeerRoutesAgree, RoomConnectionsAgree,
       Owned, BoundTo, AttachedAs, InRoom

(* What the fields of a removal are (remove_connection_locked).            *)
LEMMA RemoveFields ==
    ASSUME NEW h \in Hub, NEW S \in SUBSET Connections
    PROVE  /\ Remove(h, S) \in Hub
           /\ Remove(h, S).queue = h.queue
           /\ Remove(h, S).writers = h.writers
           /\ Remove(h, S).evicted_attachments = h.evicted_attachments
           /\ \A c \in Connections :
                Remove(h, S).connections[c] = IF c \in S THEN Unregistered ELSE h.connections[c]
           /\ \A r \in Rooms, s \in Sessions :
                Remove(h, S).session_routes[<<r, s>>] =
                  IF h.session_routes[<<r, s>>] \in S
                       /\ BoundTo(h, h.session_routes[<<r, s>>], r, s)
                  THEN NoConnection ELSE h.session_routes[<<r, s>>]
           /\ \A r \in Rooms, p \in Peers :
                Remove(h, S).peer_routes[<<r, p>>] =
                  IF h.peer_routes[<<r, p>>] \in S
                       /\ AttachedAs(h, h.peer_routes[<<r, p>>], r, p)
                  THEN NoConnection ELSE h.peer_routes[<<r, p>>]
           /\ \A r \in Rooms :
                Remove(h, S).room_connections[r] =
                  {c \in h.room_connections[r] : ~(c \in S /\ InRoom(h, c, r))}
<1> DEFINE sr == [k \in Rooms \X Sessions |->
                    IF h.session_routes[k] \in S /\ BoundTo(h, h.session_routes[k], k[1], k[2])
                    THEN NoConnection ELSE h.session_routes[k]]
           pr == [k \in Rooms \X Peers |->
                    IF h.peer_routes[k] \in S /\ AttachedAs(h, h.peer_routes[k], k[1], k[2])
                    THEN NoConnection ELSE h.peer_routes[k]]
           rc == [r \in Rooms |-> {c \in h.room_connections[r] : ~(c \in S /\ InRoom(h, c, r))}]
           cs == [c \in Connections |-> IF c \in S THEN Unregistered ELSE h.connections[c]]
<1>1. /\ h.session_routes \in [Rooms \X Sessions -> Connections \cup {NoConnection}]
      /\ h.peer_routes \in [Rooms \X Peers -> Connections \cup {NoConnection}]
      /\ h.room_connections \in [Rooms -> SUBSET Connections]
      /\ h.connections \in [Connections -> ConnectionEntry]
  BY DEF Hub
<1>2. sr \in [Rooms \X Sessions -> Connections \cup {NoConnection}]
  BY <1>1
<1>3. pr \in [Rooms \X Peers -> Connections \cup {NoConnection}]
  BY <1>1
<1>4. rc \in [Rooms -> SUBSET Connections]
  BY <1>1
<1>5. cs \in [Connections -> ConnectionEntry]
  <2>1. Unregistered \in ConnectionEntry
    BY DEF Unregistered, Entry, ConnectionEntry
  <2> QED
    BY <1>1, <2>1
<1>6. Remove(h, S) = [h EXCEPT !.session_routes = sr, !.peer_routes = pr,
                               !.room_connections = rc, !.connections = cs]
  BY DEF Remove, Unmap, Hub
<1> HIDE DEF sr, pr, rc, cs
<1>7. /\ Remove(h, S) \in Hub
      /\ Remove(h, S).session_routes = sr /\ Remove(h, S).peer_routes = pr
      /\ Remove(h, S).room_connections = rc /\ Remove(h, S).connections = cs
      /\ Remove(h, S).queue = h.queue /\ Remove(h, S).writers = h.writers
      /\ Remove(h, S).evicted_attachments = h.evicted_attachments
  BY <1>2, <1>3, <1>4, <1>5, <1>6 DEF Hub
<1> QED
  BY <1>7 DEF sr, pr, rc, cs

(* Removing connections leaves exactly the routes of the others: nothing   *)
(* of a removed connection stays and nothing of another goes.              *)
LEMMA RemoveOK ==
    ASSUME NEW h, HubOK(h), NEW S \in SUBSET Connections
    PROVE  HubOK(Remove(h, S))
<1> DEFINE g == Remove(h, S)
<1>1. h \in Hub /\ RoutesAgree(h) /\ Owned(h)
  BY DEF HubOK
<1>2. /\ g \in Hub /\ g.queue = h.queue
      /\ \A c \in Connections :
           g.connections[c] = IF c \in S THEN Unregistered ELSE h.connections[c]
  BY <1>1, RemoveFields
<1>3. ASSUME NEW c \in S, NEW r, NEW s
      PROVE  ~BoundTo(g, c, r, s) /\ ~AttachedAs(g, c, r, s)
  BY <1>2 DEF BoundTo, AttachedAs, Unregistered, Entry
<1>4. ASSUME NEW c \in Connections \ S, NEW r, NEW s
      PROVE  /\ BoundTo(g, c, r, s) <=> BoundTo(h, c, r, s)
             /\ AttachedAs(g, c, r, s) <=> AttachedAs(h, c, r, s)
  BY <1>2 DEF BoundTo, AttachedAs
<1>5. ASSUME NEW r \in Rooms, NEW s \in Sessions, NEW c \in Connections
      PROVE  g.session_routes[<<r, s>>] = c <=> BoundTo(g, c, r, s)
  <2> DEFINE d == h.session_routes[<<r, s>>]
  <2>1. g.session_routes[<<r, s>>] = IF d \in S /\ BoundTo(h, d, r, s) THEN NoConnection ELSE d
    BY <1>1, RemoveFields
  <2>2. d = c <=> BoundTo(h, c, r, s)
    BY <1>1 DEF RoutesAgree, SessionRoutesAgree, PeerRoutesAgree, RoomConnectionsAgree
  <2> QED
    BY <1>3, <1>4, <2>1, <2>2, HubAssumption
<1>6. ASSUME NEW r \in Rooms, NEW p \in Peers, NEW c \in Connections
      PROVE  g.peer_routes[<<r, p>>] = c <=> AttachedAs(g, c, r, p)
  <2> DEFINE d == h.peer_routes[<<r, p>>]
  <2>1. g.peer_routes[<<r, p>>] = IF d \in S /\ AttachedAs(h, d, r, p) THEN NoConnection ELSE d
    BY <1>1, RemoveFields
  <2>2. d = c <=> AttachedAs(h, c, r, p)
    BY <1>1 DEF RoutesAgree, SessionRoutesAgree, PeerRoutesAgree, RoomConnectionsAgree
  <2> QED
    BY <1>3, <1>4, <2>1, <2>2, HubAssumption
<1>7. ASSUME NEW r \in Rooms, NEW c \in Connections
      PROVE  c \in g.room_connections[r] <=> InRoom(g, c, r)
  <2>1. g.room_connections[r] = {x \in h.room_connections[r] : ~(x \in S /\ InRoom(h, x, r))}
    BY <1>1, RemoveFields
  <2>2. c \in h.room_connections[r] <=> InRoom(h, c, r)
    BY <1>1 DEF RoutesAgree, SessionRoutesAgree, PeerRoutesAgree, RoomConnectionsAgree
  <2>3. InRoom(g, c, r) <=> (c \notin S /\ InRoom(h, c, r))
    BY <1>3, <1>4 DEF InRoom
  <2> QED
    BY <2>1, <2>2, <2>3
<1>8. RoutesAgree(g)
  BY <1>5, <1>6, <1>7
  DEF RoutesAgree, SessionRoutesAgree, PeerRoutesAgree, RoomConnectionsAgree
<1>9. Owned(g)
  <2> SUFFICES ASSUME NEW c \in Connections
               PROVE  LET e == g.connections[c]
                      IN  /\ e.attachment # NoAttachment => e.attachment.session = e.session
                          /\ e.join_watch # NoWatch => e.join_watch.session = e.session
                          /\ e.attachment = NoAttachment \/ e.join_watch = NoWatch
    BY DEF Owned
  <2>1. CASE c \in S
    BY <1>2, <2>1 DEF Unregistered, Entry
  <2>2. CASE c \notin S
    BY <1>1, <1>2, <2>2 DEF Owned
  <2> QED
    BY <2>1, <2>2
<1> QED
  BY <1>2, <1>8, <1>9 DEF HubOK

(* evict_connection_locked adds only the kept attachments.                 *)
LEMMA EvictOK ==
    ASSUME NEW h, HubOK(h), NEW S \in SUBSET Connections
    PROVE  /\ HubOK(Evict(h, S))
           /\ Evict(h, S).connections = Remove(h, S).connections
           /\ Evict(h, S).session_routes = Remove(h, S).session_routes
           /\ Evict(h, S).peer_routes = Remove(h, S).peer_routes
           /\ Evict(h, S).room_connections = Remove(h, S).room_connections
           /\ \A c \in Connections :
                Evict(h, S).evicted_attachments[c] =
                  IF c \in S /\ h.connections[c].attachment # NoAttachment
                  THEN h.connections[c].attachment
                  ELSE h.evicted_attachments[c]
<1> DEFINE g == Remove(h, S)
           ev == [c \in Connections |->
                    IF c \in S /\ h.connections[c].attachment # NoAttachment
                    THEN h.connections[c].attachment
                    ELSE h.evicted_attachments[c]]
<1>1. h \in Hub /\ HubOK(g) /\ g \in Hub /\ g.evicted_attachments = h.evicted_attachments
  BY RemoveOK, RemoveFields DEF HubOK
<1>2. Evict(h, S) = [g EXCEPT !.evicted_attachments = ev]
  BY <1>1 DEF Evict, Hub
<1>3. ev \in [Connections -> Attachment \cup {NoAttachment}]
  BY <1>1 DEF Hub, ConnectionEntry
<1> HIDE DEF g
<1>4. /\ Evict(h, S) \in Hub
      /\ Evict(h, S).connections = g.connections
      /\ Evict(h, S).session_routes = g.session_routes
      /\ Evict(h, S).peer_routes = g.peer_routes
      /\ Evict(h, S).room_connections = g.room_connections
      /\ Evict(h, S).queue = g.queue
      /\ Evict(h, S).evicted_attachments = ev
  BY <1>1, <1>2, <1>3 DEF Hub
<1>5. HubOK(Evict(h, S))
  BY <1>1, <1>4, SameBindings DEF HubOK
<1> QED
  BY <1>4, <1>5 DEF g

(* try_send respects the capacity and touches only queues.                 *)
LEMMA PushOK ==
    ASSUME NEW h, HubOK(h), NEW S \in SUBSET Connections, NEW x \in Outbound
    PROVE  /\ HubOK(Push(h, S, x))
           /\ Push(h, S, x).connections = h.connections
           /\ Push(h, S, x).session_routes = h.session_routes
           /\ Push(h, S, x).peer_routes = h.peer_routes
           /\ Push(h, S, x).evicted_attachments = h.evicted_attachments
<1> DEFINE q == [c \in Connections |->
                   IF c \in S /\ CanSend(h, c) THEN Append(h.queue[c], x) ELSE h.queue[c]]
<1>1. h \in Hub /\ Capacity \in Nat
  BY HubAssumption DEF HubOK
<1>2. Push(h, S, x) = [h EXCEPT !.queue = q]
  BY <1>1 DEF Push, Hub
<1>3. q \in [Connections -> Seq(Outbound)]
  <2>1. \A c \in Connections : h.queue[c] \in Seq(Outbound)
    BY <1>1 DEF Hub
  <2>2. \A c \in Connections : Append(h.queue[c], x) \in Seq(Outbound)
    BY <2>1, AppendProperties
  <2> QED
    BY <2>1, <2>2
<1>4. ASSUME NEW c \in Connections
      PROVE  Len(q[c]) <= Capacity
  <2>1. h.queue[c] \in Seq(Outbound) /\ Len(h.queue[c]) <= Capacity
    BY <1>1 DEF HubOK, Hub
  <2>2. Len(Append(h.queue[c], x)) = Len(h.queue[c]) + 1 /\ Len(h.queue[c]) \in Nat
    BY <2>1
  <2>3. q[c] = IF c \in S /\ CanSend(h, c) THEN Append(h.queue[c], x) ELSE h.queue[c]
    OBVIOUS
  <2>4. CASE c \in S /\ CanSend(h, c)
    BY <1>1, <2>2, <2>3, <2>4 DEF CanSend
  <2>5. CASE ~(c \in S /\ CanSend(h, c))
    BY <2>1, <2>3, <2>5
  <2> QED
    BY <2>4, <2>5
<1> HIDE DEF q
<1>5. /\ Push(h, S, x) \in Hub
      /\ Push(h, S, x).connections = h.connections
      /\ Push(h, S, x).session_routes = h.session_routes
      /\ Push(h, S, x).peer_routes = h.peer_routes
      /\ Push(h, S, x).room_connections = h.room_connections
      /\ Push(h, S, x).evicted_attachments = h.evicted_attachments
      /\ Push(h, S, x).queue = q
  BY <1>1, <1>2, <1>3 DEF Hub
<1>6. HubOK(Push(h, S, x))
  BY <1>4, <1>5, SameBindings
<1> QED
  BY <1>5, <1>6

(* The bindings a connection gives up when it binds anew, or detaches.     *)
LEMMA UnmapFields ==
    ASSUME NEW h \in Hub, NEW c \in Connections
    PROVE  /\ Unmap(h, {c}) \in Hub
           /\ Unmap(h, {c}).connections = h.connections
           /\ Unmap(h, {c}).queue = h.queue
           /\ Unmap(h, {c}).evicted_attachments = h.evicted_attachments
           /\ \A r \in Rooms, s \in Sessions :
                Unmap(h, {c}).session_routes[<<r, s>>] =
                  IF h.session_routes[<<r, s>>] = c /\ BoundTo(h, c, r, s)
                  THEN NoConnection ELSE h.session_routes[<<r, s>>]
           /\ \A r \in Rooms, p \in Peers :
                Unmap(h, {c}).peer_routes[<<r, p>>] =
                  IF h.peer_routes[<<r, p>>] = c /\ AttachedAs(h, c, r, p)
                  THEN NoConnection ELSE h.peer_routes[<<r, p>>]
           /\ \A r \in Rooms :
                Unmap(h, {c}).room_connections[r] =
                  {x \in h.room_connections[r] : ~(x = c /\ InRoom(h, c, r))}
<1> DEFINE sr == [k \in Rooms \X Sessions |->
                    IF h.session_routes[k] \in {c} /\ BoundTo(h, h.session_routes[k], k[1], k[2])
                    THEN NoConnection ELSE h.session_routes[k]]
           pr == [k \in Rooms \X Peers |->
                    IF h.peer_routes[k] \in {c} /\ AttachedAs(h, h.peer_routes[k], k[1], k[2])
                    THEN NoConnection ELSE h.peer_routes[k]]
           rc == [r \in Rooms |->
                    {x \in h.room_connections[r] : ~(x \in {c} /\ InRoom(h, x, r))}]
<1>1. /\ h.session_routes \in [Rooms \X Sessions -> Connections \cup {NoConnection}]
      /\ h.peer_routes \in [Rooms \X Peers -> Connections \cup {NoConnection}]
      /\ h.room_connections \in [Rooms -> SUBSET Connections]
  BY DEF Hub
<1>2. sr \in [Rooms \X Sessions -> Connections \cup {NoConnection}]
  BY <1>1
<1>3. pr \in [Rooms \X Peers -> Connections \cup {NoConnection}]
  BY <1>1
<1>4. rc \in [Rooms -> SUBSET Connections]
  BY <1>1
<1>5. Unmap(h, {c}) = [h EXCEPT !.session_routes = sr, !.peer_routes = pr,
                                !.room_connections = rc]
  BY DEF Unmap, Hub
<1>6. /\ \A r \in Rooms, s \in Sessions :
           sr[<<r, s>>] = IF h.session_routes[<<r, s>>] = c /\ BoundTo(h, c, r, s)
                          THEN NoConnection ELSE h.session_routes[<<r, s>>]
      /\ \A r \in Rooms, p \in Peers :
           pr[<<r, p>>] = IF h.peer_routes[<<r, p>>] = c /\ AttachedAs(h, c, r, p)
                          THEN NoConnection ELSE h.peer_routes[<<r, p>>]
      /\ \A r \in Rooms : rc[r] = {x \in h.room_connections[r] : ~(x = c /\ InRoom(h, c, r))}
  OBVIOUS
<1> HIDE DEF sr, pr, rc
<1>7. /\ Unmap(h, {c}) \in Hub
      /\ Unmap(h, {c}).session_routes = sr /\ Unmap(h, {c}).peer_routes = pr
      /\ Unmap(h, {c}).room_connections = rc
      /\ Unmap(h, {c}).connections = h.connections /\ Unmap(h, {c}).queue = h.queue
      /\ Unmap(h, {c}).evicted_attachments = h.evicted_attachments
  BY <1>2, <1>3, <1>4, <1>5 DEF Hub
<1> QED
  BY <1>6, <1>7

(* The fields g has after connection c of h is bound to a room.            *)
NewlyBound(h, g, c, r, s, a, w) ==
    /\ g \in Hub
    /\ g.queue = h.queue
    /\ g.evicted_attachments = h.evicted_attachments
    /\ g.connections[c] = [session |-> s, attachment |-> a, join_watch |-> w]
    /\ \A d \in Connections \ {c} : g.connections[d] = h.connections[d]
    /\ \A x \in Rooms, y \in Sessions :
         g.session_routes[<<x, y>>] =
           IF x = r /\ y = s THEN c ELSE Unmap(h, {c}).session_routes[<<x, y>>]
    /\ \A x \in Rooms, p \in Peers :
         g.peer_routes[<<x, p>>] =
           IF a = [room |-> x, session |-> s, peer |-> p] THEN c
           ELSE Unmap(h, {c}).peer_routes[<<x, p>>]
    /\ \A x \in Rooms :
         g.room_connections[x] =
           IF x = r THEN Unmap(h, {c}).room_connections[x] \cup {c}
                    ELSE Unmap(h, {c}).room_connections[x]

(* Bind computes those fields.                                             *)
LEMMA BindFields ==
    ASSUME NEW h \in Hub, NEW c \in Connections, NEW r \in Rooms, NEW s \in Sessions,
           NEW a \in Attachment \cup {NoAttachment}, NEW w \in JoinWatch \cup {NoWatch}
    PROVE  NewlyBound(h, Bind(h, c, r, s, a, w), c, r, s, a, w)
<1> DEFINE u == Unmap(h, {c})
           g == Bind(h, c, r, s, a, w)
           e == [session |-> s, attachment |-> a, join_watch |-> w]
           pr == [k \in Rooms \X Peers |->
                    IF a = [room |-> k[1], session |-> s, peer |-> k[2]] THEN c
                    ELSE u.peer_routes[k]]
<1>1. /\ u \in Hub /\ u.connections = h.connections /\ u.queue = h.queue
      /\ u.evicted_attachments = h.evicted_attachments
  BY UnmapFields
<1> HIDE DEF u
<1>2. g = [u EXCEPT !.connections[c] = e,
                    !.room_connections[r] = @ \cup {c},
                    !.session_routes[<<r, s>>] = c,
                    !.peer_routes = pr]
  BY DEF Bind, u
<1>e. e \in ConnectionEntry
  BY DEF ConnectionEntry
<1>p. /\ pr \in [Rooms \X Peers -> Connections \cup {NoConnection}]
      /\ \A x \in Rooms, p \in Peers :
           pr[<<x, p>>] = IF a = [room |-> x, session |-> s, peer |-> p] THEN c
                          ELSE u.peer_routes[<<x, p>>]
  BY <1>1 DEF Hub
<1> HIDE DEF e, pr
<1>3. /\ g.connections = [u.connections EXCEPT ![c] = e]
      /\ g.room_connections = [u.room_connections EXCEPT ![r] = @ \cup {c}]
      /\ g.session_routes = [u.session_routes EXCEPT ![<<r, s>>] = c]
      /\ g.peer_routes = pr /\ g.queue = u.queue /\ g.writers = u.writers
      /\ g.evicted_attachments = u.evicted_attachments
  BY <1>1, <1>2 DEF Hub
<1>4. /\ g.connections \in [Connections -> ConnectionEntry]
      /\ g.room_connections \in [Rooms -> SUBSET Connections]
      /\ g.session_routes \in [Rooms \X Sessions -> Connections \cup {NoConnection}]
  BY <1>1, <1>e, <1>3 DEF Hub
<1>5. g \in Hub
  BY <1>1, <1>2, <1>3, <1>4, <1>p DEF Hub
<1>6. /\ g.connections[c] = e
      /\ \A d \in Connections \ {c} : g.connections[d] = h.connections[d]
  BY <1>1, <1>3 DEF Hub
<1>7. \A x \in Rooms, y \in Sessions :
        g.session_routes[<<x, y>>] = IF x = r /\ y = s THEN c ELSE u.session_routes[<<x, y>>]
  BY <1>1, <1>3 DEF Hub
<1>8. \A x \in Rooms :
        g.room_connections[x] = IF x = r THEN u.room_connections[x] \cup {c}
                                         ELSE u.room_connections[x]
  BY <1>1, <1>3 DEF Hub
<1> HIDE DEF g
<1>9. NewlyBound(h, g, c, r, s, a, w)
  BY <1>1, <1>3, <1>5, <1>6, <1>7, <1>8, <1>p DEF u, e, NewlyBound
<1> QED
  BY <1>9 DEF g

(* The new binding is an attachment or a watch of (r, s), and no other     *)
(* connection has that session, or that peer, of the room.                 *)
Vacant(h, c, r, s, a, w) ==
    /\ \A d \in Connections \ {c} : ~BoundTo(h, d, r, s)
    /\ \/ a = NoAttachment /\ w = [room |-> r, session |-> s]
       \/ \E p \in Peers :
            /\ a = [room |-> r, session |-> s, peer |-> p] /\ w = NoWatch
            /\ \A d \in Connections \ {c} : ~AttachedAs(h, d, r, p)

(* A new binding, once the connections that it replaces are gone, keeps    *)
(* the hub consistent.                                                     *)
LEMMA BindOK ==
    ASSUME NEW h, HubOK(h), NEW c \in Connections, NEW r \in Rooms, NEW s \in Sessions,
           NEW a, NEW w, Vacant(h, c, r, s, a, w),
           NEW g, NewlyBound(h, g, c, r, s, a, w)
    PROVE  HubOK(g)
<1> DEFINE u == Unmap(h, {c})
<1>1. h \in Hub /\ RoutesAgree(h) /\ Owned(h)
  BY DEF HubOK
<1>2. /\ g.connections[c].attachment = a /\ g.connections[c].join_watch = w
      /\ g.connections[c].session = s
      /\ \A d \in Connections \ {c} : g.connections[d] = h.connections[d]
  BY DEF NewlyBound
<1>3. \/ a = NoAttachment /\ w # NoWatch /\ w.room = r /\ w.session = s
      \/ a # NoAttachment /\ a.room = r /\ a.session = s /\ w = NoWatch
  BY HubAssumption DEF Vacant
<1>4. /\ \A x, y : BoundTo(g, c, x, y) <=> x = r /\ y = s
      /\ \A d \in Connections \ {c} : \A x, y :
           /\ BoundTo(g, d, x, y) <=> BoundTo(h, d, x, y)
           /\ AttachedAs(g, d, x, y) <=> AttachedAs(h, d, x, y)
  BY <1>2, <1>3 DEF BoundTo, AttachedAs
<1>5. SessionRoutesAgree(g)
  <2> SUFFICES ASSUME NEW x \in Rooms, NEW y \in Sessions, NEW d \in Connections
               PROVE  g.session_routes[<<x, y>>] = d <=> BoundTo(g, d, x, y)
    BY DEF SessionRoutesAgree
  <2> DEFINE b == h.session_routes[<<x, y>>]
  <2>1. g.session_routes[<<x, y>>] = IF x = r /\ y = s THEN c ELSE u.session_routes[<<x, y>>]
    BY DEF NewlyBound
  <2>2. u.session_routes[<<x, y>>] =
          IF b = c /\ BoundTo(h, c, x, y) THEN NoConnection ELSE b
    BY <1>1, UnmapFields
  <2>3. \A k \in Connections : b = k <=> BoundTo(h, k, x, y)
    BY <1>1 DEF RoutesAgree, SessionRoutesAgree
  <2>4. CASE x = r /\ y = s
    BY <1>4, <2>1, <2>4 DEF Vacant
  <2>5. CASE ~(x = r /\ y = s)
    BY <1>4, <2>1, <2>2, <2>3, <2>5, HubAssumption
  <2> QED
    BY <2>4, <2>5
<1>6. RoomConnectionsAgree(g)
  <2> SUFFICES ASSUME NEW x \in Rooms, NEW d \in Connections
               PROVE  d \in g.room_connections[x] <=> InRoom(g, d, x)
    BY DEF RoomConnectionsAgree
  <2>1. d \in h.room_connections[x] <=> InRoom(h, d, x)
    BY <1>1 DEF RoutesAgree, RoomConnectionsAgree
  <2>2. u.room_connections[x] = {k \in h.room_connections[x] : ~(k = c /\ InRoom(h, c, x))}
    BY <1>1, UnmapFields
  <2>3. g.room_connections[x] = IF x = r THEN u.room_connections[x] \cup {c}
                                         ELSE u.room_connections[x]
    BY DEF NewlyBound
  <2>4. d # c => (InRoom(g, d, x) <=> InRoom(h, d, x))
    BY <1>4 DEF InRoom
  <2>5. InRoom(g, c, x) <=> x = r
    BY <1>4 DEF InRoom
  <2> QED
    BY <2>1, <2>2, <2>3, <2>4, <2>5
<1>7. PeerRoutesAgree(g)
  <2> SUFFICES ASSUME NEW x \in Rooms, NEW p \in Peers, NEW d \in Connections
               PROVE  g.peer_routes[<<x, p>>] = d <=> AttachedAs(g, d, x, p)
    BY DEF PeerRoutesAgree
  <2> DEFINE b == h.peer_routes[<<x, p>>]
             mine == a = [room |-> x, session |-> s, peer |-> p]
  <2>1. g.peer_routes[<<x, p>>] = IF mine THEN c ELSE u.peer_routes[<<x, p>>]
    BY DEF NewlyBound
  <2>2. u.peer_routes[<<x, p>>] = IF b = c /\ AttachedAs(h, c, x, p) THEN NoConnection ELSE b
    BY <1>1, UnmapFields
  <2>3. \A k \in Connections : b = k <=> AttachedAs(h, k, x, p)
    BY <1>1 DEF RoutesAgree, PeerRoutesAgree
  <2>4. AttachedAs(g, c, x, p) <=> mine
    <3>1. CASE a = NoAttachment
      <4>1. ~mine
        BY <3>1, HubAssumption
      <4> QED
        BY <1>2, <3>1, <4>1 DEF AttachedAs
    <3>2. CASE a # NoAttachment
      <4>1. PICK q \in Peers : a = [room |-> r, session |-> s, peer |-> q]
        BY <3>2 DEF Vacant
      <4>2. mine <=> r = x /\ q = p
        BY <4>1
      <4>3. AttachedAs(g, c, x, p) <=> a.room = x /\ a.peer = p
        BY <1>2, <3>2 DEF AttachedAs
      <4> QED
        BY <4>1, <4>2, <4>3
    <3> QED
      BY <3>1, <3>2
  <2>5. mine => \A k \in Connections \ {c} : ~AttachedAs(h, k, x, p)
    <3> SUFFICES ASSUME mine
                 PROVE  \A k \in Connections \ {c} : ~AttachedAs(h, k, x, p)
      OBVIOUS
    <3>1. a # NoAttachment
      BY HubAssumption
    <3>2. PICK q \in Peers : /\ a = [room |-> r, session |-> s, peer |-> q]
                             /\ \A d2 \in Connections \ {c} : ~AttachedAs(h, d2, r, q)
      BY <3>1 DEF Vacant
    <3>3. r = x /\ q = p
      BY <3>2
    <3> QED
      BY <3>2, <3>3
  <2> HIDE DEF mine
  <2> QED
    BY <1>4, <2>1, <2>2, <2>3, <2>4, <2>5, HubAssumption
<1>8. Owned(g)
  BY <1>1, <1>2, <1>3 DEF Owned
<1> QED
  BY <1>5, <1>6, <1>7, <1>8 DEF HubOK, RoutesAgree, NewlyBound

----------------------------------------------------------------------------
(* The methods.                                                            *)

(* What an operation may do to the ids it knows: connections registered    *)
(* after it were registered before, and an attachment newly kept for       *)
(* unregister belongs to a connection it has removed.                      *)
Tame(h, g) ==
    \A d \in Connections :
        /\ Registered(g, d) => Registered(h, d)
        /\ g.evicted_attachments[d] # NoAttachment =>
             \/ h.evicted_attachments[d] # NoAttachment
             \/ Registered(h, d) /\ ~Registered(g, d)

(* Tameness composes.                                                      *)
LEMMA TameTransitive ==
    ASSUME NEW f, NEW g, NEW h, Tame(f, g), Tame(g, h)
    PROVE  Tame(f, h)
BY DEF Tame

(* Hubs with the same connections and kept attachments.                    *)
LEMMA SameIsTame ==
    ASSUME NEW h, NEW g, g.connections = h.connections,
           g.evicted_attachments = h.evicted_attachments
    PROVE  Tame(h, g)
BY DEF Tame, Registered

(* Only a registered connection has an attachment.                         *)
LEMMA AttachedIsRegistered ==
    ASSUME NEW h, HubOK(h), NEW c \in Connections,
           h.connections[c].attachment # NoAttachment
    PROVE  Registered(h, c) /\ h.connections[c].attachment \in Attachment
<1>1. h.connections[c].attachment \in Attachment
  BY DEF HubOK, Hub, ConnectionEntry
<1>2. h.connections[c].attachment.session = h.connections[c].session
  BY DEF HubOK, Owned
<1> QED
  BY <1>1, <1>2, HubAssumption DEF Attachment, Registered

(* Removal and eviction are tame.                                          *)
LEMMA EvictTame ==
    ASSUME NEW h, HubOK(h), NEW S \in SUBSET Connections
    PROVE  /\ Tame(h, Evict(h, S)) /\ Tame(h, Remove(h, S))
           /\ \A c \in S : ~Registered(Evict(h, S), c) /\ ~Registered(Remove(h, S), c)
<1> DEFINE g == Remove(h, S)
           k == Evict(h, S)
<1>1. /\ \A c \in Connections :
           g.connections[c] = IF c \in S THEN Unregistered ELSE h.connections[c]
      /\ g.evicted_attachments = h.evicted_attachments
  BY RemoveFields DEF HubOK
<1>2. /\ k.connections = g.connections
      /\ \A c \in Connections :
           k.evicted_attachments[c] =
             IF c \in S /\ h.connections[c].attachment # NoAttachment
             THEN h.connections[c].attachment ELSE h.evicted_attachments[c]
  BY EvictOK
<1> HIDE DEF g, k
<1>3. \A c \in S : ~Registered(g, c) /\ ~Registered(k, c)
  <2> TAKE c \in S
  <2>1. c \in Connections
    OBVIOUS
  <2>2. g.connections[c] = Unregistered /\ k.connections[c] = Unregistered
    BY <1>1, <1>2, <2>1
  <2>3. Unregistered.session = NoSession
    BY DEF Unregistered, Entry
  <2> QED
    BY <2>2, <2>3 DEF Registered
<1>4. \A c \in Connections \ S : (Registered(g, c) <=> Registered(h, c))
                                 /\ (Registered(k, c) <=> Registered(h, c))
  BY <1>1, <1>2 DEF Registered
<1>5. Tame(h, g)
  <2>1. \A d \in Connections : Registered(g, d) => Registered(h, d)
    BY <1>3, <1>4
  <2> QED
    BY <1>1, <2>1 DEF Tame
<1>6. Tame(h, k)
  <2> SUFFICES ASSUME NEW d \in Connections
               PROVE  /\ Registered(k, d) => Registered(h, d)
                      /\ k.evicted_attachments[d] # NoAttachment =>
                           \/ h.evicted_attachments[d] # NoAttachment
                           \/ Registered(h, d) /\ ~Registered(k, d)
    BY DEF Tame
  <2>1. CASE d \in S
    BY <1>2, <1>3, <2>1, AttachedIsRegistered
  <2>2. CASE d \notin S
    BY <1>2, <1>4, <2>2
  <2> QED
    BY <2>1, <2>2
<1> QED
  BY <1>3, <1>5, <1>6 DEF g, k

(* The attachments of a set of connections are attachments.                *)
LEMMA AttachmentsOfType ==
    ASSUME NEW h, HubOK(h), NEW S \in SUBSET Connections
    PROVE  AttachmentsOf(h, S) \subseteq Attachment
BY AttachedIsRegistered DEF AttachmentsOf

(* What every method keeps: its result's hub is consistent and tame, and   *)
(* what it gives back are attachments.                                     *)
Keeps(h, result) ==
    /\ HubOK(result.hub)
    /\ Tame(h, result.hub)
    /\ result.attachments \subseteq Attachment

(* The two shapes of a result.                                             *)
LEMMA ResultKeeps ==
    ASSUME NEW h, NEW g, HubOK(g), Tame(h, g), NEW A, A \subseteq Attachment, NEW x
    PROVE  Keeps(h, Ok(g, A)) /\ Keeps(h, Err(g, x))
BY DEF Keeps, Ok, Err

(* Nothing happened.                                                       *)
LEMMA Refused ==
    ASSUME NEW h, HubOK(h), NEW x
    PROVE  Keeps(h, Err(h, x))
<1>1. Tame(h, h)
  BY SameIsTame
<1> QED
  BY <1>1, ResultKeeps

(* A binding that replaces nobody's session or peer is tame.               *)
LEMMA BindKeeps ==
    ASSUME NEW h, HubOK(h), NEW c \in Connections, NEW r \in Rooms, NEW s \in Sessions,
           Registered(h, c),
           NEW a \in Attachment \cup {NoAttachment}, NEW w \in JoinWatch \cup {NoWatch},
           Vacant(h, c, r, s, a, w)
    PROVE  HubOK(Bind(h, c, r, s, a, w)) /\ Tame(h, Bind(h, c, r, s, a, w))
<1> DEFINE g == Bind(h, c, r, s, a, w)
<1>1. NewlyBound(h, g, c, r, s, a, w)
  BY BindFields DEF HubOK
<1> HIDE DEF g
<1>2. HubOK(g)
  BY <1>1, BindOK
<1>3. \A d \in Connections : Registered(g, d) => Registered(h, d)
  BY <1>1 DEF NewlyBound, Registered
<1>4. Tame(h, g)
  BY <1>1, <1>3 DEF NewlyBound, Tame
<1> QED
  BY <1>2, <1>4 DEF g

(* Once the connections that hold a session of a room, or one of a set of  *)
(* its peers, are evicted, no connection but c has them.                   *)
LEMMA ReplacedGone ==
    ASSUME NEW h, HubOK(h), NEW c \in Connections, NEW r \in Rooms, NEW s \in Sessions,
           NEW P \in SUBSET Peers, NEW k, HubOK(k),
           k.connections = h.connections
    PROVE  /\ Replaced(h, c, r, s, P) \in SUBSET Connections
           /\ c \notin Replaced(h, c, r, s, P)
           /\ \A d \in Connections \ {c} :
                /\ ~BoundTo(Evict(k, Replaced(h, c, r, s, P)), d, r, s)
                /\ \A p \in P : ~AttachedAs(Evict(k, Replaced(h, c, r, s, P)), d, r, p)
           /\ Evict(k, Replaced(h, c, r, s, P)).connections[c] = h.connections[c]
<1> DEFINE old == Replaced(h, c, r, s, P)
           g == Evict(k, old)
<1>1. h \in Hub /\ RoutesAgree(h) /\ k \in Hub
  BY DEF HubOK
<1>2. old \in SUBSET Connections /\ c \notin old
  <2>1. /\ h.session_routes[<<r, s>>] \in Connections \cup {NoConnection}
        /\ \A p \in P : h.peer_routes[<<r, p>>] \in Connections \cup {NoConnection}
    BY <1>1 DEF Hub
  <2> QED
    BY <2>1 DEF Replaced
<1>3. /\ \A d \in Connections \ {c} : h.session_routes[<<r, s>>] = d => d \in old
      /\ \A d \in Connections \ {c}, p \in P : h.peer_routes[<<r, p>>] = d => d \in old
  BY HubAssumption DEF Replaced
<1> HIDE DEF old
<1>4. \A d \in Connections :
        g.connections[d] = IF d \in old THEN Unregistered ELSE h.connections[d]
  BY <1>1, <1>2, EvictOK, RemoveFields
<1> HIDE DEF g
<1>5. ASSUME NEW d \in Connections \ {c}
      PROVE  ~BoundTo(g, d, r, s) /\ \A p \in P : ~AttachedAs(g, d, r, p)
  <2>1. CASE d \in old
    BY <1>4, <2>1 DEF BoundTo, AttachedAs, Unregistered, Entry
  <2>2. CASE d \notin old
    <3>1. /\ BoundTo(g, d, r, s) <=> BoundTo(h, d, r, s)
          /\ \A p \in P : AttachedAs(g, d, r, p) <=> AttachedAs(h, d, r, p)
      BY <1>4, <2>2 DEF BoundTo, AttachedAs
    <3>2. /\ ~BoundTo(h, d, r, s)
          /\ \A p \in P : ~AttachedAs(h, d, r, p)
      BY <1>1, <1>3, <2>2 DEF RoutesAgree, SessionRoutesAgree, PeerRoutesAgree
    <3> QED
      BY <3>1, <3>2
  <2> QED
    BY <2>1, <2>2
<1> QED
  BY <1>2, <1>4, <1>5 DEF g, old

(* attach replaces the session's and the peer's old connections, then      *)
(* binds.                                                                  *)
LEMMA AttachKeeps ==
    ASSUME NEW h, HubOK(h), NEW c \in Connections, NEW r \in Rooms, NEW p \in Peers
    PROVE  Keeps(h, Attach(h, c, r, p))
<1> DEFINE s     == h.connections[c].session
           old   == Replaced(h, c, r, s, {p})
           told1 == Push(h, old, "message")
           told  == Push(told1, old, "close")
           new   == [room |-> r, session |-> s, peer |-> p]
           k     == Evict(told, old)
           g     == Bind(k, c, r, s, new, NoWatch)
<1>1. CASE ~Registered(h, c)
  <2>1. Attach(h, c, r, p) = Err(h, "ConnectionNotFound")
    BY <1>1 DEF Attach
  <2> QED
    BY <2>1, Refused
<1>2. CASE Registered(h, c)
  <2>1. s \in Sessions
    BY <1>2 DEF HubOK, Hub, ConnectionEntry, Registered
  <2>2. Attach(h, c, r, p) = Ok(g, AttachmentsOf(h, old))
    BY <1>2 DEF Attach
  <2> HIDE DEF s
  <2>3. old \in SUBSET Connections
    BY <2>1, ReplacedGone
  <2>4. HubOK(told1) /\ told1.connections = h.connections
        /\ told1.evicted_attachments = h.evicted_attachments
    BY <2>3, PushOK DEF Outbound
  <2> HIDE DEF told1, old
  <2>5. HubOK(told) /\ told.connections = h.connections
        /\ told.evicted_attachments = h.evicted_attachments
    BY <2>3, <2>4, PushOK DEF Outbound
  <2> HIDE DEF told
  <2>6. HubOK(k) /\ Tame(told, k)
    BY <2>3, <2>5, EvictOK, EvictTame
  <2>7. /\ \A d \in Connections \ {c} : ~BoundTo(k, d, r, s) /\ ~AttachedAs(k, d, r, p)
        /\ k.connections[c] = h.connections[c]
    BY <2>1, <2>5, ReplacedGone DEF old
  <2>8. Tame(h, k)
    BY <2>5, <2>6, SameIsTame, TameTransitive
  <2> HIDE DEF k
  <2>9. Vacant(k, c, r, s, new, NoWatch) /\ Registered(k, c)
    BY <1>2, <2>7 DEF Vacant, Registered
  <2>10. new \in Attachment
    BY <2>1 DEF Attachment
  <2> HIDE DEF new
  <2>11. HubOK(g) /\ Tame(k, g)
    BY <2>1, <2>6, <2>9, <2>10, BindKeeps
  <2> HIDE DEF g
  <2>12. Tame(h, g)
    BY <2>8, <2>11, TameTransitive
  <2> QED
    BY <2>2, <2>3, <2>11, <2>12, AttachmentsOfType, ResultKeeps
<1> QED
  BY <1>1, <1>2

(* watch_join replaces the session's old connection, then binds.           *)
LEMMA WatchJoinKeeps ==
    ASSUME NEW h, HubOK(h), NEW c \in Connections, NEW r \in Rooms
    PROVE  Keeps(h, WatchJoin(h, c, r))
<1> DEFINE s   == h.connections[c].session
           old == Replaced(h, c, r, s, {})
           w   == [room |-> r, session |-> s]
           k   == Evict(h, old)
           g   == Bind(k, c, r, s, NoAttachment, w)
<1>1. CASE ~Registered(h, c)
  <2>1. WatchJoin(h, c, r) = Err(h, "ConnectionNotFound")
    BY <1>1 DEF WatchJoin
  <2> QED
    BY <2>1, Refused
<1>2. CASE Registered(h, c)
  <2>1. s \in Sessions
    BY <1>2 DEF HubOK, Hub, ConnectionEntry, Registered
  <2>2. WatchJoin(h, c, r) = Ok(g, AttachmentsOf(h, old))
    BY <1>2 DEF WatchJoin
  <2> HIDE DEF s
  <2>3. old \in SUBSET Connections
    BY <2>1, ReplacedGone
  <2>4. /\ \A d \in Connections \ {c} : ~BoundTo(k, d, r, s)
        /\ k.connections[c] = h.connections[c]
    BY <2>1, ReplacedGone
  <2> HIDE DEF old
  <2>5. HubOK(k) /\ Tame(h, k)
    BY <2>3, EvictOK, EvictTame
  <2> HIDE DEF k
  <2>6. Vacant(k, c, r, s, NoAttachment, w) /\ Registered(k, c)
    BY <1>2, <2>4 DEF Vacant, Registered
  <2>7. w \in JoinWatch
    BY <2>1 DEF JoinWatch
  <2> HIDE DEF w
  <2>8. HubOK(g) /\ Tame(k, g)
    BY <2>1, <2>5, <2>6, <2>7, BindKeeps
  <2> HIDE DEF g
  <2>9. Tame(h, g)
    BY <2>5, <2>8, TameTransitive
  <2> QED
    BY <2>2, <2>3, <2>8, <2>9, AttachmentsOfType, ResultKeeps
<1> QED
  BY <1>1, <1>2

(* Naming the session of a connection that has no binding changes no       *)
(* binding and no route.                                                   *)
LEMMA SessionOnly ==
    ASSUME NEW h, HubOK(h), NEW g \in Hub, NEW c \in Connections, NEW s,
           h.connections[c].attachment = NoAttachment, h.connections[c].join_watch = NoWatch,
           g.connections[c] = Entry(s),
           \A d \in Connections \ {c} : g.connections[d] = h.connections[d],
           g.room_connections = h.room_connections,
           g.session_routes = h.session_routes,
           g.peer_routes = h.peer_routes,
           \A d \in Connections : Len(g.queue[d]) <= Capacity
    PROVE  HubOK(g)
<1>1. RoutesAgree(h) /\ Owned(h)
  BY DEF HubOK
<1>2. g.connections[c].attachment = NoAttachment /\ g.connections[c].join_watch = NoWatch
  BY DEF Entry
<1>3. \A d \in Connections : /\ g.connections[d].attachment = h.connections[d].attachment
                             /\ g.connections[d].join_watch = h.connections[d].join_watch
  BY <1>2
<1>4. /\ \A d \in Connections : \A x, y :
           /\ BoundTo(g, d, x, y) <=> BoundTo(h, d, x, y)
           /\ AttachedAs(g, d, x, y) <=> AttachedAs(h, d, x, y)
      /\ \A d \in Connections : \A x : InRoom(g, d, x) <=> InRoom(h, d, x)
  BY <1>3 DEF BoundTo, AttachedAs, InRoom
<1>5. RoutesAgree(g)
  BY <1>1, <1>4 DEF RoutesAgree, SessionRoutesAgree, PeerRoutesAgree, RoomConnectionsAgree
<1>6. Owned(g)
  BY <1>1, <1>2 DEF Owned
<1> QED
  BY <1>5, <1>6 DEF HubOK

(* detach gives up the binding and keeps the registration.                 *)
LEMMA DetachKeeps ==
    ASSUME NEW h, HubOK(h), NEW c \in Connections
    PROVE  Keeps(h, Detach(h, c))
<1> DEFINE s == h.connections[c].session
           u == Unmap(h, {c})
           k == Remove(h, {c})
           g == [u EXCEPT !.connections[c] = Entry(s)]
<1>1. CASE ~Registered(h, c)
  <2>1. Detach(h, c) = Err(h, "ConnectionNotFound")
    BY <1>1 DEF Detach
  <2> QED
    BY <2>1, Refused
<1>2. CASE Registered(h, c)
  <2>1. Detach(h, c) = Ok(g, AttachmentsOf(h, {c}))
    BY <1>2 DEF Detach
  <2>2. h \in Hub /\ s \in Sessions
    BY <1>2 DEF HubOK, Hub, ConnectionEntry, Registered
  <2>3. HubOK(k) /\ k.queue = h.queue /\ k.evicted_attachments = h.evicted_attachments
        /\ \A d \in Connections :
             k.connections[d] = IF d = c THEN Unregistered ELSE h.connections[d]
    BY <2>2, RemoveOK, RemoveFields
  <2>4. u \in Hub /\ u.connections = h.connections /\ u.queue = h.queue
        /\ u.evicted_attachments = h.evicted_attachments
    BY <2>2, UnmapFields
  <2> HIDE DEF u
  <2>5. /\ k.room_connections = u.room_connections /\ k.session_routes = u.session_routes
        /\ k.peer_routes = u.peer_routes
    BY <2>4 DEF Remove, Hub, u
  <2> HIDE DEF k, s
  <2>e. Entry(s) \in ConnectionEntry
    BY <2>2 DEF Entry, ConnectionEntry
  <2>6. /\ g \in Hub /\ g.connections[c] = Entry(s)
        /\ \A d \in Connections \ {c} : g.connections[d] = u.connections[d]
        /\ g.room_connections = u.room_connections /\ g.session_routes = u.session_routes
        /\ g.peer_routes = u.peer_routes /\ g.queue = u.queue
        /\ g.evicted_attachments = u.evicted_attachments
    BY <2>4, <2>e DEF Hub
  <2> HIDE DEF g
  <2>7. k.connections[c].attachment = NoAttachment /\ k.connections[c].join_watch = NoWatch
    BY <2>3 DEF Unregistered, Entry
  <2>8. /\ \A d \in Connections \ {c} : g.connections[d] = k.connections[d]
        /\ \A d \in Connections : Len(g.queue[d]) <= Capacity
    BY <2>3, <2>4, <2>6 DEF HubOK
  <2>9. HubOK(g)
    BY <2>3, <2>5, <2>6, <2>7, <2>8, SessionOnly
  <2>10. Tame(h, g)
    <3>1. \A d \in Connections : Registered(g, d) => Registered(h, d)
      BY <1>2, <2>4, <2>6 DEF Registered
    <3> QED
      BY <2>4, <2>6, <3>1 DEF Tame
  <2> QED
    BY <2>1, <2>9, <2>10, AttachmentsOfType, ResultKeeps
<1> QED
  BY <1>1, <1>2

(* unregister removes the connection and hands out its attachment, or the  *)
(* one kept since it was evicted.                                          *)
LEMMA UnregisterKeeps ==
    ASSUME NEW h, HubOK(h), NEW c \in Connections
    PROVE  Keeps(h, Unregister(h, c))
<1> DEFINE k == Remove(h, {c})
           g == [k EXCEPT !.evicted_attachments[c] = NoAttachment]
<1>1. HubOK(k) /\ Tame(h, k) /\ k.evicted_attachments = h.evicted_attachments
  BY RemoveOK, EvictTame, RemoveFields DEF HubOK
<1>2. CASE h.connections[c].attachment # NoAttachment
  <2>1. Unregister(h, c) = Ok(k, AttachmentsOf(h, {c}))
    BY <1>2 DEF Unregister
  <2> QED
    BY <1>1, <2>1, AttachmentsOfType, ResultKeeps
<1>3. CASE h.connections[c].attachment = NoAttachment
  <2> DEFINE A == {h.evicted_attachments[c]} \ {NoAttachment}
  <2>1. Unregister(h, c) = Ok(g, A)
    BY <1>3 DEF Unregister
  <2>2. A \subseteq Attachment
    BY DEF HubOK, Hub
  <2> HIDE DEF k
  <2>3. /\ g \in Hub /\ g.connections = k.connections /\ g.queue = k.queue
        /\ g.room_connections = k.room_connections /\ g.session_routes = k.session_routes
        /\ g.peer_routes = k.peer_routes
        /\ \A d \in Connections : g.evicted_attachments[d] # NoAttachment =>
             k.evicted_attachments[d] # NoAttachment
    BY <1>1 DEF HubOK, Hub
  <2> HIDE DEF g, A
  <2>4. HubOK(g)
    BY <1>1, <2>3, SameBindings DEF HubOK
  <2>5. Tame(h, g)
    BY <1>1, <2>3 DEF Tame, Registered
  <2> QED
    BY <2>1, <2>2, <2>4, <2>5, ResultKeeps
<1> QED
  BY <1>2, <1>3

(* try_send to some connections, then eviction of others: the shape of     *)
(* send, send_to_peer, broadcast and the disconnects.                      *)
LEMMA PushEvict ==
    ASSUME NEW h, HubOK(h), NEW S \in SUBSET Connections, NEW T \in SUBSET Connections,
           NEW x \in Outbound
    PROVE  /\ HubOK(Push(h, S, x)) /\ Tame(h, Push(h, S, x))
           /\ HubOK(Evict(h, T)) /\ Tame(h, Evict(h, T))
           /\ HubOK(Evict(Push(h, S, x), T)) /\ Tame(h, Evict(Push(h, S, x), T))
<1> DEFINE k == Push(h, S, x)
<1>1. HubOK(k) /\ Tame(h, k)
  BY PushOK, SameIsTame
<1>2. HubOK(Evict(h, T)) /\ Tame(h, Evict(h, T))
  BY EvictOK, EvictTame
<1> HIDE DEF k
<1>3. HubOK(Evict(k, T)) /\ Tame(k, Evict(k, T))
  BY <1>1, EvictOK, EvictTame
<1>4. Tame(h, Evict(k, T))
  BY <1>1, <1>3, TameTransitive
<1> QED
  BY <1>1, <1>2, <1>3, <1>4 DEF k

(* send queues the message or evicts the connection that cannot take it.   *)
LEMMA SendKeeps ==
    ASSUME NEW h, HubOK(h), NEW c \in Connections, NEW x \in Outbound
    PROVE  Keeps(h, Send(h, c, x))
<1> DEFINE err == IF c \in h.writers THEN "SlowConsumer" ELSE "ConnectionNotFound"
<1>1. \/ Send(h, c, x) = Err(h, "ConnectionNotFound")
      \/ Send(h, c, x) = Ok(Push(h, {c}, x), {})
      \/ Send(h, c, x) = Err(Evict(h, {c}), err)
  BY DEF Send
<1>2. /\ HubOK(Push(h, {c}, x)) /\ Tame(h, Push(h, {c}, x))
      /\ HubOK(Evict(h, {c})) /\ Tame(h, Evict(h, {c}))
  BY PushEvict
<1> HIDE DEF err
<1>3. Keeps(h, Ok(Push(h, {c}, x), {}))
  BY <1>2, ResultKeeps
<1>4. Keeps(h, Err(Evict(h, {c}), err))
  <2>1. {} \subseteq Attachment
    OBVIOUS
  <2> QED
    BY <1>2, <2>1, ResultKeeps
<1> QED
  BY <1>1, <1>3, <1>4, Refused

(* send_to_peer queues a signal or evicts the target that cannot take it.  *)
LEMMA SendToPeerKeeps ==
    ASSUME NEW h, HubOK(h), NEW c \in Connections, NEW p \in Peers
    PROVE  Keeps(h, SendToPeer(h, c, p))
<1> DEFINE target == h.peer_routes[<<h.connections[c].attachment.room, p>>]
           err == IF target \in h.writers THEN "SlowConsumer" ELSE "TargetNotFound"
<1>1. CASE h.connections[c].attachment = NoAttachment
  <2>1. SendToPeer(h, c, p) = Err(h, "NotAttached")
    BY <1>1 DEF SendToPeer
  <2> QED
    BY <2>1, Refused
<1>2. CASE h.connections[c].attachment # NoAttachment
  <2>1. h.connections[c].attachment.room \in Rooms
    BY <1>2, AttachedIsRegistered DEF Attachment
  <2>2. target \in Connections \cup {NoConnection}
    BY <2>1 DEF HubOK, Hub
  <2>3. \/ SendToPeer(h, c, p) = Err(h, "CannotSignalSelf")
        \/ SendToPeer(h, c, p) = Err(h, "TargetNotFound")
        \/ /\ target # NoConnection
           /\ \/ SendToPeer(h, c, p) = Ok(Push(h, {target}, "message"), {})
              \/ SendToPeer(h, c, p) = Err(Evict(h, {target}), err)
    BY <1>2 DEF SendToPeer
  <2> HIDE DEF target, err
  <2>4. target # NoConnection =>
          /\ HubOK(Push(h, {target}, "message")) /\ Tame(h, Push(h, {target}, "message"))
          /\ HubOK(Evict(h, {target})) /\ Tame(h, Evict(h, {target}))
    BY <2>2, PushEvict DEF Outbound
  <2>5. {} \subseteq Attachment
    OBVIOUS
  <2>6. target # NoConnection =>
          /\ Keeps(h, Ok(Push(h, {target}, "message"), {}))
          /\ Keeps(h, Err(Evict(h, {target}), err))
    BY <2>4, <2>5, ResultKeeps
  <2> QED
    BY <2>3, <2>6, Refused
<1> QED
  BY <1>1, <1>2

(* broadcast evicts the connections of the room that cannot take it.       *)
LEMMA BroadcastKeeps ==
    ASSUME NEW h, HubOK(h), NEW r \in Rooms
    PROVE  Keeps(h, Broadcast(h, r))
<1> DEFINE all  == {c \in h.room_connections[r] : Registered(h, c)}
           slow == {c \in all : ~CanSend(h, c)}
<1>1. Broadcast(h, r) = Ok(Evict(Push(h, all, "message"), slow), AttachmentsOf(h, slow))
  BY DEF Broadcast
<1>2. all \in SUBSET Connections /\ slow \in SUBSET Connections
  BY DEF HubOK, Hub
<1> HIDE DEF all, slow
<1>3. /\ HubOK(Evict(Push(h, all, "message"), slow))
      /\ Tame(h, Evict(Push(h, all, "message"), slow))
  BY <1>2, PushEvict DEF Outbound
<1> QED
  BY <1>1, <1>2, <1>3, AttachmentsOfType, ResultKeeps

(* disconnect_session evicts the connection it closes.                     *)
LEMMA DisconnectSessionKeeps ==
    ASSUME NEW h, HubOK(h), NEW r \in Rooms, NEW s \in Sessions
    PROVE  Keeps(h, DisconnectSession(h, r, s))
<1> DEFINE old == {h.session_routes[<<r, s>>]} \ {NoConnection}
<1>1. DisconnectSession(h, r, s) = Ok(Evict(Push(h, old, "close"), old), AttachmentsOf(h, old))
  BY DEF DisconnectSession
<1>2. old \in SUBSET Connections
  <2>1. h.session_routes[<<r, s>>] \in Connections \cup {NoConnection}
    BY DEF HubOK, Hub
  <2> QED
    BY <2>1
<1> HIDE DEF old
<1>3. HubOK(Evict(Push(h, old, "close"), old)) /\ Tame(h, Evict(Push(h, old, "close"), old))
  BY <1>2, PushEvict DEF Outbound
<1> QED
  BY <1>1, <1>2, <1>3, AttachmentsOfType, ResultKeeps

(* disconnect_room evicts everyone it closes.                              *)
LEMMA DisconnectRoomKeeps ==
    ASSUME NEW h, HubOK(h), NEW r \in Rooms
    PROVE  Keeps(h, DisconnectRoom(h, r))
<1> DEFINE old == h.room_connections[r]
<1>1. DisconnectRoom(h, r) = Ok(Evict(Push(h, old, "close"), old), AttachmentsOf(h, old))
  BY DEF DisconnectRoom
<1>2. old \in SUBSET Connections
  BY DEF HubOK, Hub
<1> HIDE DEF old
<1>3. HubOK(Evict(Push(h, old, "close"), old)) /\ Tame(h, Evict(Push(h, old, "close"), old))
  BY <1>2, PushEvict DEF Outbound
<1> QED
  BY <1>1, <1>2, <1>3, AttachmentsOfType, ResultKeeps

(* Queues after one of them is replaced by a sequence within the capacity. *)
LEMMA QueueFields ==
    ASSUME NEW h, HubOK(h), NEW c \in Connections, NEW q \in Seq(Outbound),
           Len(q) <= Capacity
    PROVE  /\ [h.queue EXCEPT ![c] = q] \in [Connections -> Seq(Outbound)]
           /\ \A d \in Connections : Len([h.queue EXCEPT ![c] = q][d]) <= Capacity
<1>1. /\ h.queue \in [Connections -> Seq(Outbound)]
      /\ \A d \in Connections : Len(h.queue[d]) <= Capacity
  BY DEF HubOK, Hub
<1> QED
  BY <1>1

(* The writer task only shortens its queue.                                *)
LEMMA WriterKeeps ==
    ASSUME NEW h, HubOK(h), NEW c \in Connections, NEW q \in Seq(Outbound),
           Len(q) <= Capacity, NEW wr \in SUBSET Connections,
           NEW g, g = [h EXCEPT !.queue[c] = q, !.writers = wr]
    PROVE  HubOK(g) /\ Tame(h, g)
<1> DEFINE nq == [h.queue EXCEPT ![c] = q]
<1>1. h \in Hub
  BY DEF HubOK
<1>2. /\ nq \in [Connections -> Seq(Outbound)]
      /\ \A d \in Connections : Len(nq[d]) <= Capacity
  BY QueueFields
<1>3. g = [h EXCEPT !.queue = nq, !.writers = wr]
  BY <1>1 DEF Hub
<1> HIDE DEF nq
<1>4. /\ g \in Hub /\ g.connections = h.connections /\ g.session_routes = h.session_routes
      /\ g.peer_routes = h.peer_routes /\ g.room_connections = h.room_connections
      /\ g.evicted_attachments = h.evicted_attachments /\ g.queue = nq
  BY <1>1, <1>2, <1>3 DEF Hub
<1>5. HubOK(g)
  BY <1>2, <1>4, SameBindings
<1> QED
  BY <1>4, <1>5, SameIsTame

(* A step of the writer task takes the head of its queue, or ends.         *)
LEMMA WriteKeeps ==
    ASSUME NEW h, HubOK(h), NEW c \in Connections
    PROVE  /\ h.queue[c] # <<>> => HubOK(Write(h, c)) /\ Tame(h, Write(h, c))
           /\ HubOK(EndWriter(h, c)) /\ Tame(h, EndWriter(h, c))
<1>1. h.queue[c] \in Seq(Outbound) /\ Len(h.queue[c]) <= Capacity /\ Capacity \in Nat
      /\ h.writers \in SUBSET Connections
  BY HubAssumption DEF HubOK, Hub
<1>2. ASSUME h.queue[c] # <<>>
      PROVE  HubOK(Write(h, c)) /\ Tame(h, Write(h, c))
  <2> DEFINE q == Tail(h.queue[c])
             wr == IF Head(h.queue[c]) = "close" THEN h.writers \ {c} ELSE h.writers
             g == Write(h, c)
  <2>1. q \in Seq(Outbound) /\ Len(q) = Len(h.queue[c]) - 1
    BY <1>1, <1>2, HeadTailProperties
  <2>2. Len(q) <= Capacity
    BY <1>1, <2>1
  <2>3. wr \in SUBSET Connections
    BY <1>1
  <2>4. g = [h EXCEPT !.queue[c] = q, !.writers = wr]
    BY DEF Write
  <2> HIDE DEF q, wr, g
  <2>5. HubOK(g) /\ Tame(h, g)
    BY <2>1, <2>2, <2>3, <2>4, WriterKeeps
  <2> QED
    BY <2>5 DEF g
<1>3. HubOK(EndWriter(h, c)) /\ Tame(h, EndWriter(h, c))
  <2> DEFINE q == <<>>
             wr == h.writers \ {c}
             g == EndWriter(h, c)
  <2>1. q \in Seq(Outbound) /\ Len(q) = 0
    OBVIOUS
  <2>2. Len(q) <= Capacity /\ wr \in SUBSET Connections
    BY <1>1, <2>1
  <2>3. g = [h EXCEPT !.queue[c] = q, !.writers = wr]
    BY DEF EndWriter
  <2> HIDE DEF q, wr, g
  <2>4. HubOK(g) /\ Tame(h, g)
    BY <2>1, <2>2, <2>3, WriterKeeps
  <2> QED
    BY <2>4 DEF g
<1> QED
  BY <1>2, <1>3

(* register, for a connection id that is not in use.                       *)
LEMMA RegisterKeeps ==
    ASSUME NEW h, HubOK(h), NEW c \in Connections, NEW s \in Sessions, ~Registered(h, c)
    PROVE  /\ HubOK(Register(h, c, s))
           /\ Register(h, c, s).evicted_attachments = h.evicted_attachments
           /\ \A d \in Connections \ {c} : Registered(Register(h, c, s), d) <=> Registered(h, d)
<1> DEFINE g  == Register(h, c, s)
           q  == <<>>
           wr == h.writers \cup {c}
           k  == [h EXCEPT !.queue[c] = q, !.writers = wr]
           cs == [h.connections EXCEPT ![c] = Entry(s)]
<1>1. h \in Hub /\ Capacity \in Nat
  BY HubAssumption DEF HubOK
<1>2. h.connections[c].attachment = NoAttachment /\ h.connections[c].join_watch = NoWatch
  <2>1. h.connections[c].attachment = NoAttachment
    BY AttachedIsRegistered
  <2>2. ASSUME h.connections[c].join_watch # NoWatch
        PROVE  FALSE
    <3>1. h.connections[c].join_watch \in JoinWatch
      BY <1>1, <2>2 DEF Hub, ConnectionEntry
    <3>2. h.connections[c].join_watch.session = h.connections[c].session
      BY <2>2 DEF HubOK, Owned
    <3> QED
      BY <3>1, <3>2, HubAssumption DEF JoinWatch, Registered
  <2> QED
    BY <2>1, <2>2
<1>3. /\ q \in Seq(Outbound) /\ Len(q) <= Capacity /\ wr \in SUBSET Connections
  <2>1. q \in Seq(Outbound) /\ Len(q) = 0
    OBVIOUS
  <2>2. Len(q) <= Capacity
    BY <1>1, <2>1
  <2>3. wr \in SUBSET Connections
    BY <1>1 DEF Hub
  <2> QED
    BY <2>1, <2>2, <2>3
<1> HIDE DEF q, wr
<1>4. HubOK(k)
  BY <1>3, WriterKeeps
<1>5. /\ k \in Hub /\ k.connections = h.connections
      /\ k.evicted_attachments = h.evicted_attachments
  BY <1>1, <1>4 DEF HubOK, Hub
<1>6. g = [k EXCEPT !.connections = cs]
  BY <1>1 DEF Register, Hub, q, wr
<1>7. /\ cs \in [Connections -> ConnectionEntry] /\ cs[c] = Entry(s)
      /\ \A d \in Connections \ {c} : cs[d] = h.connections[d]
  <2>1. Entry(s) \in ConnectionEntry
    BY DEF Entry, ConnectionEntry
  <2> QED
    BY <1>1, <2>1 DEF Hub
<1> HIDE DEF k, cs
<1>8. /\ g \in Hub /\ g.connections = cs /\ g.queue = k.queue
      /\ g.room_connections = k.room_connections /\ g.session_routes = k.session_routes
      /\ g.peer_routes = k.peer_routes /\ g.evicted_attachments = k.evicted_attachments
  BY <1>5, <1>6, <1>7 DEF Hub
<1> HIDE DEF g
<1>9. /\ g.connections[c] = Entry(s)
      /\ \A d \in Connections \ {c} : g.connections[d] = k.connections[d]
      /\ k.connections[c].attachment = NoAttachment /\ k.connections[c].join_watch = NoWatch
      /\ \A d \in Connections : Len(g.queue[d]) <= Capacity
  BY <1>2, <1>4, <1>5, <1>7, <1>8 DEF HubOK
<1>10. HubOK(g)
  BY <1>4, <1>8, <1>9, SessionOnly
<1>11. /\ g.evicted_attachments = h.evicted_attachments
       /\ \A d \in Connections \ {c} : Registered(g, d) <=> Registered(h, d)
  BY <1>5, <1>8, <1>9 DEF Registered
<1> QED
  BY <1>10, <1>11 DEF g

(* The hub before any connection is consistent.                            *)
LEMMA EmptyHubOK ==
    /\ HubOK(EmptyHub)
    /\ \A c \in Connections : /\ EmptyHub.connections[c] = Unregistered
                              /\ EmptyHub.evicted_attachments[c] = NoAttachment
<1> DEFINE h == EmptyHub
<1>1. h \in Hub /\ \A c \in Connections : Len(h.queue[c]) <= Capacity
  <2>1. Unregistered \in ConnectionEntry
    BY DEF Unregistered, Entry, ConnectionEntry
  <2>2. <<>> \in Seq(Outbound) /\ Len(<<>>) = 0 /\ Capacity \in Nat
    BY HubAssumption
  <2> QED
    BY <2>1, <2>2 DEF EmptyHub, Hub
<1>2. \A c \in Connections : /\ h.connections[c] = Unregistered
                             /\ h.evicted_attachments[c] = NoAttachment
  BY DEF EmptyHub
<1>3. /\ \A r \in Rooms, s \in Sessions : h.session_routes[<<r, s>>] = NoConnection
      /\ \A r \in Rooms, p \in Peers : h.peer_routes[<<r, p>>] = NoConnection
      /\ \A r \in Rooms : h.room_connections[r] = {}
  BY DEF EmptyHub
<1> HIDE DEF h
<1>4. ASSUME NEW c \in Connections
      PROVE  h.connections[c].attachment = NoAttachment /\ h.connections[c].join_watch = NoWatch
  BY <1>2 DEF Unregistered, Entry
<1>5. RoutesAgree(h) /\ Owned(h)
  BY <1>3, <1>4, HubAssumption
  DEF RoutesAgree, SessionRoutesAgree, PeerRoutesAgree, RoomConnectionsAgree,
      BoundTo, AttachedAs, InRoom, Owned
<1> QED
  BY <1>1, <1>2, <1>5 DEF HubOK, h

----------------------------------------------------------------------------
(* What the methods do to each connection.                                 *)

Bound(h, d) ==
    h.connections[d].attachment # NoAttachment \/ h.connections[d].join_watch # NoWatch

Stays(h, g, d) ==
    /\ g.connections[d] = h.connections[d]
    /\ g.evicted_attachments[d] = h.evicted_attachments[d]

Evicted(h, g, d) ==
    /\ g.connections[d] = Unregistered
    /\ g.evicted_attachments[d] = IF h.connections[d].attachment # NoAttachment
                                  THEN h.connections[d].attachment
                                  ELSE h.evicted_attachments[d]

(* Connections are left alone or evicted, and only bound ones or those of  *)
(* T are evicted.                                                          *)
OnlyEvicts(h, g, T) ==
    \A d \in Connections : Stays(h, g, d) \/ (Evicted(h, g, d) /\ (d \in T \/ Bound(h, d)))

(* A route leads to a bound connection, and so does a room's set.          *)
LEMMA RoutedIsBound ==
    ASSUME NEW h, HubOK(h), NEW r \in Rooms, NEW d \in Connections
    PROVE  /\ \A s \in Sessions : h.session_routes[<<r, s>>] = d => Bound(h, d)
           /\ \A p \in Peers : h.peer_routes[<<r, p>>] = d => Bound(h, d)
           /\ d \in h.room_connections[r] => Bound(h, d)
BY DEF HubOK, RoutesAgree, SessionRoutesAgree, PeerRoutesAgree, RoomConnectionsAgree,
       BoundTo, AttachedAs, InRoom, Bound

(* try_send, then eviction of connections that are bound or in T.          *)
LEMMA EvictMoves ==
    ASSUME NEW h, HubOK(h), NEW k, HubOK(k), k.connections = h.connections,
           k.evicted_attachments = h.evicted_attachments,
           NEW S \in SUBSET Connections, NEW T, \A d \in S : d \in T \/ Bound(h, d)
    PROVE  OnlyEvicts(h, k, T) /\ OnlyEvicts(h, Evict(k, S), T)
<1> DEFINE g == Evict(k, S)
<1>1. /\ \A d \in Connections :
           g.connections[d] = IF d \in S THEN Unregistered ELSE h.connections[d]
      /\ \A d \in Connections :
           g.evicted_attachments[d] =
             IF d \in S /\ h.connections[d].attachment # NoAttachment
             THEN h.connections[d].attachment ELSE h.evicted_attachments[d]
  BY EvictOK, RemoveFields DEF HubOK
<1> HIDE DEF g
<1>2. OnlyEvicts(h, g, T)
  <2> SUFFICES ASSUME NEW d \in Connections
               PROVE  Stays(h, g, d) \/ (Evicted(h, g, d) /\ (d \in T \/ Bound(h, d)))
    BY DEF OnlyEvicts
  <2>1. CASE d \in S
    BY <1>1, <2>1 DEF Evicted
  <2>2. CASE d \notin S
    BY <1>1, <2>2 DEF Stays
  <2> QED
    BY <2>1, <2>2
<1>3. OnlyEvicts(h, k, T)
  BY DEF OnlyEvicts, Stays
<1> QED
  BY <1>2, <1>3 DEF g

(* The connections that a newer one replaces are bound.                    *)
LEMMA ReplacedIsBound ==
    ASSUME NEW h, HubOK(h), NEW c \in Connections, NEW r \in Rooms, NEW s \in Sessions,
           NEW P \in SUBSET Peers
    PROVE  \A d \in Replaced(h, c, r, s, P) : Bound(h, d)
<1>1. Replaced(h, c, r, s, P) \in SUBSET Connections
  BY ReplacedGone
<1> SUFFICES ASSUME NEW d \in Replaced(h, c, r, s, P)
             PROVE  Bound(h, d)
  OBVIOUS
<1>2. \/ h.session_routes[<<r, s>>] = d
      \/ \E p \in P : h.peer_routes[<<r, p>>] = d
  BY DEF Replaced
<1> QED
  BY <1>1, <1>2, RoutedIsBound

(* The fields of a hub after connection c has been bound, the others being *)
(* left alone or evicted.                                                  *)
BoundAnew(h, g, c, s, a, w) ==
    /\ g.connections[c] = [session |-> s, attachment |-> a, join_watch |-> w]
    /\ g.evicted_attachments[c] = h.evicted_attachments[c]
    /\ \A d \in Connections \ {c} : Stays(h, g, d) \/ (Evicted(h, g, d) /\ Bound(h, d))

(* Replaced connections are evicted, then the binding is made.             *)
LEMMA ReplaceMoves ==
    ASSUME NEW h, HubOK(h), NEW k, HubOK(k), k.connections = h.connections,
           k.evicted_attachments = h.evicted_attachments,
           NEW c \in Connections, NEW r \in Rooms, NEW s \in Sessions, NEW P \in SUBSET Peers,
           NEW a \in Attachment \cup {NoAttachment}, NEW w \in JoinWatch \cup {NoWatch}
    PROVE  BoundAnew(h, Bind(Evict(k, Replaced(h, c, r, s, P)), c, r, s, a, w), c, s, a, w)
<1> DEFINE old == Replaced(h, c, r, s, P)
           e == Evict(k, old)
           g == Bind(e, c, r, s, a, w)
<1>1. old \in SUBSET Connections /\ c \notin old /\ \A d \in old : Bound(h, d)
  BY ReplacedGone, ReplacedIsBound
<1> HIDE DEF old
<1>2. HubOK(e) /\ OnlyEvicts(h, e, {})
  BY <1>1, EvictOK, EvictMoves
<1>3. e.evicted_attachments[c] = h.evicted_attachments[c]
  BY <1>1, EvictOK
<1> HIDE DEF e
<1>4. NewlyBound(e, g, c, r, s, a, w)
  BY <1>2, BindFields DEF HubOK
<1> HIDE DEF g
<1>5. /\ g.evicted_attachments = e.evicted_attachments
      /\ g.connections[c] = [session |-> s, attachment |-> a, join_watch |-> w]
      /\ \A d \in Connections \ {c} : g.connections[d] = e.connections[d]
  BY <1>4 DEF NewlyBound
<1>6. BoundAnew(h, g, c, s, a, w)
  BY <1>2, <1>3, <1>5 DEF BoundAnew, OnlyEvicts, Stays, Evicted
<1> QED
  BY <1>6 DEF g, e, old

(* attach binds a registered connection and evicts those it replaces.      *)
LEMMA AttachMoves ==
    ASSUME NEW h, HubOK(h), NEW c \in Connections, NEW r \in Rooms, NEW p \in Peers
    PROVE  \/ /\ ~Registered(h, c)
              /\ Attach(h, c, r, p) = Err(h, "ConnectionNotFound")
           \/ /\ Registered(h, c) /\ h.connections[c].session \in Sessions
              /\ Attach(h, c, r, p).outcome = "ok"
              /\ BoundAnew(h, Attach(h, c, r, p).hub, c, h.connections[c].session,
                           [room |-> r, session |-> h.connections[c].session, peer |-> p],
                           NoWatch)
<1> DEFINE s     == h.connections[c].session
           old   == Replaced(h, c, r, s, {p})
           told1 == Push(h, old, "message")
           told  == Push(told1, old, "close")
           new   == [room |-> r, session |-> s, peer |-> p]
           g     == Bind(Evict(told, old), c, r, s, new, NoWatch)
<1>1. CASE ~Registered(h, c)
  BY <1>1 DEF Attach
<1>2. CASE Registered(h, c)
  <2>1. s \in Sessions
    BY <1>2 DEF HubOK, Hub, ConnectionEntry, Registered
  <2>2. Attach(h, c, r, p).hub = g /\ Attach(h, c, r, p).outcome = "ok"
    BY <1>2 DEF Attach, Ok
  <2>3. old \in SUBSET Connections
    BY <2>1, ReplacedGone
  <2> HIDE DEF s, old
  <2>4. HubOK(told1) /\ told1.connections = h.connections
        /\ told1.evicted_attachments = h.evicted_attachments
    BY <2>3, PushOK DEF Outbound
  <2> HIDE DEF told1
  <2>5. HubOK(told) /\ told.connections = h.connections
        /\ told.evicted_attachments = h.evicted_attachments
    BY <2>3, <2>4, PushOK DEF Outbound
  <2> HIDE DEF told
  <2>6. new \in Attachment /\ {p} \in SUBSET Peers
    BY <2>1 DEF Attachment
  <2> HIDE DEF new
  <2>7. BoundAnew(h, g, c, s, new, NoWatch)
    BY <2>1, <2>5, <2>6, ReplaceMoves DEF old
  <2> HIDE DEF g
  <2> QED
    BY <1>2, <2>1, <2>2, <2>7 DEF s, new
<1> QED
  BY <1>1, <1>2

(* watch_join likewise.                                                    *)
LEMMA WatchMoves ==
    ASSUME NEW h, HubOK(h), NEW c \in Connections, NEW r \in Rooms
    PROVE  \/ WatchJoin(h, c, r) = Err(h, "ConnectionNotFound")
           \/ \E s \in Sessions :
                BoundAnew(h, WatchJoin(h, c, r).hub, c, s, NoAttachment,
                          [room |-> r, session |-> s])
<1> DEFINE s == h.connections[c].session
           w == [room |-> r, session |-> s]
           g == Bind(Evict(h, Replaced(h, c, r, s, {})), c, r, s, NoAttachment, w)
<1>1. CASE ~Registered(h, c)
  BY <1>1 DEF WatchJoin
<1>2. CASE Registered(h, c)
  <2>1. s \in Sessions
    BY <1>2 DEF HubOK, Hub, ConnectionEntry, Registered
  <2>2. WatchJoin(h, c, r).hub = g
    BY <1>2 DEF WatchJoin, Ok
  <2> HIDE DEF s
  <2>3. w \in JoinWatch /\ {} \in SUBSET Peers
    BY <2>1 DEF JoinWatch
  <2> HIDE DEF w
  <2>4. BoundAnew(h, g, c, s, NoAttachment, w)
    BY <2>1, <2>3, ReplaceMoves
  <2> HIDE DEF g
  <2> QED
    BY <2>1, <2>2, <2>4 DEF w
<1> QED
  BY <1>1, <1>2

(* detach frees a registered connection and gives back its attachment.     *)
LEMMA DetachMoves ==
    ASSUME NEW h, HubOK(h), NEW c \in Connections
    PROVE  \/ Detach(h, c) = Err(h, "ConnectionNotFound") /\ ~Registered(h, c)
           \/ /\ Detach(h, c).attachments = AttachmentsOf(h, {c})
              /\ Detach(h, c).hub.connections[c] = Entry(h.connections[c].session)
              /\ Detach(h, c).hub.evicted_attachments = h.evicted_attachments
              /\ \A d \in Connections \ {c} : Stays(h, Detach(h, c).hub, d)
<1> DEFINE u == Unmap(h, {c})
           e == Entry(h.connections[c].session)
           g == [u EXCEPT !.connections[c] = e]
<1>1. CASE ~Registered(h, c)
  BY <1>1 DEF Detach
<1>2. CASE Registered(h, c)
  <2>1. /\ u \in Hub /\ u.connections = h.connections
        /\ u.evicted_attachments = h.evicted_attachments
    BY UnmapFields DEF HubOK
  <2>2. Detach(h, c).hub = g /\ Detach(h, c).attachments = AttachmentsOf(h, {c})
    BY <1>2 DEF Detach, Ok
  <2> HIDE DEF u, e
  <2>3. /\ g.connections[c] = e /\ g.evicted_attachments = h.evicted_attachments
        /\ \A d \in Connections \ {c} : g.connections[d] = h.connections[d]
    BY <2>1 DEF Hub
  <2> HIDE DEF g
  <2> QED
    BY <2>2, <2>3 DEF Stays, e
<1> QED
  BY <1>1, <1>2

(* unregister removes a connection and gives back its attachment, or the   *)
(* one kept since it was evicted.                                          *)
LEMMA UnregisterMoves ==
    ASSUME NEW h, HubOK(h), NEW c \in Connections
    PROVE  /\ Unregister(h, c).hub.connections[c] = Unregistered
           /\ \A d \in Connections \ {c} : Stays(h, Unregister(h, c).hub, d)
           /\ \/ /\ h.connections[c].attachment # NoAttachment
                 /\ Unregister(h, c).attachments = AttachmentsOf(h, {c})
                 /\ Unregister(h, c).hub.evicted_attachments = h.evicted_attachments
              \/ /\ h.connections[c].attachment = NoAttachment
                 /\ Unregister(h, c).attachments = {h.evicted_attachments[c]} \ {NoAttachment}
                 /\ Unregister(h, c).hub.evicted_attachments[c] = NoAttachment
<1> DEFINE k == Remove(h, {c})
           g == [k EXCEPT !.evicted_attachments[c] = NoAttachment]
<1>1. /\ k \in Hub /\ k.connections[c] = Unregistered
      /\ k.evicted_attachments = h.evicted_attachments
      /\ \A d \in Connections \ {c} : k.connections[d] = h.connections[d]
  BY RemoveFields DEF HubOK
<1>2. CASE h.connections[c].attachment # NoAttachment
  <2>1. Unregister(h, c).hub = k /\ Unregister(h, c).attachments = AttachmentsOf(h, {c})
    BY <1>2 DEF Unregister, Ok
  <2> HIDE DEF k
  <2> QED
    BY <1>1, <1>2, <2>1 DEF Stays
<1>3. CASE h.connections[c].attachment = NoAttachment
  <2>1. /\ Unregister(h, c).hub = g
        /\ Unregister(h, c).attachments = {h.evicted_attachments[c]} \ {NoAttachment}
    BY <1>3 DEF Unregister, Ok
  <2> HIDE DEF k
  <2>2. /\ g.connections = k.connections /\ g.evicted_attachments[c] = NoAttachment
        /\ \A d \in Connections \ {c} : g.evicted_attachments[d] = k.evicted_attachments[d]
    BY <1>1 DEF Hub
  <2> HIDE DEF g
  <2> QED
    BY <1>1, <1>3, <2>1, <2>2 DEF Stays
<1> QED
  BY <1>2, <1>3

(* send, send_to_peer, broadcast and the disconnects evict nobody that is  *)
(* not bound, but for the connection a reply cannot be sent to.            *)
LEMMA SendingMoves ==
    ASSUME NEW h, HubOK(h)
    PROVE  /\ \A c \in Connections : OnlyEvicts(h, Send(h, c, "message").hub, {c})
           /\ \A c \in Connections, p \in Peers : OnlyEvicts(h, SendToPeer(h, c, p).hub, {})
           /\ \A r \in Rooms : /\ OnlyEvicts(h, Broadcast(h, r).hub, {})
                               /\ OnlyEvicts(h, DisconnectRoom(h, r).hub, {})
           /\ \A r \in Rooms, s \in Sessions : OnlyEvicts(h, DisconnectSession(h, r, s).hub, {})
<1>1. ASSUME NEW S \in SUBSET Connections, NEW x \in Outbound, NEW T,
             NEW U \in SUBSET Connections, \A d \in U : d \in T \/ Bound(h, d)
      PROVE  /\ OnlyEvicts(h, h, T)
             /\ OnlyEvicts(h, Push(h, S, x), T)
             /\ OnlyEvicts(h, Evict(h, U), T)
             /\ OnlyEvicts(h, Evict(Push(h, S, x), U), T)
  <2>1. HubOK(Push(h, S, x)) /\ Push(h, S, x).connections = h.connections
        /\ Push(h, S, x).evicted_attachments = h.evicted_attachments
    BY PushOK
  <2> QED
    BY <1>1, <2>1, EvictMoves
<1>2. "message" \in Outbound /\ "close" \in Outbound
  BY DEF Outbound
<1>3. ASSUME NEW c \in Connections
      PROVE  OnlyEvicts(h, Send(h, c, "message").hub, {c})
  <2>1. \/ Send(h, c, "message").hub = h
        \/ Send(h, c, "message").hub = Push(h, {c}, "message")
        \/ Send(h, c, "message").hub = Evict(h, {c})
    BY DEF Send, Ok, Err
  <2>2. {c} \in SUBSET Connections
    OBVIOUS
  <2> QED
    BY <1>1, <1>2, <2>1, <2>2
<1>4. ASSUME NEW c \in Connections, NEW p \in Peers
      PROVE  OnlyEvicts(h, SendToPeer(h, c, p).hub, {})
  <2> DEFINE target == h.peer_routes[<<h.connections[c].attachment.room, p>>]
  <2>0. {} \in SUBSET Connections
    OBVIOUS
  <2>1. CASE h.connections[c].attachment = NoAttachment
    <3>1. SendToPeer(h, c, p).hub = h
      BY <2>1 DEF SendToPeer, Err
    <3> QED
      BY <1>1, <1>2, <2>0, <3>1
  <2>2. CASE h.connections[c].attachment # NoAttachment
    <3>1. h.connections[c].attachment.room \in Rooms
      BY <2>2, AttachedIsRegistered DEF Attachment
    <3>2. target \in Connections \cup {NoConnection}
      BY <3>1 DEF HubOK, Hub
    <3>3. \/ SendToPeer(h, c, p).hub = h
          \/ /\ target # NoConnection
             /\ \/ SendToPeer(h, c, p).hub = Push(h, {target}, "message")
                \/ SendToPeer(h, c, p).hub = Evict(h, {target})
      BY <2>2 DEF SendToPeer, Ok, Err
    <3>4. target # NoConnection => {target} \in SUBSET Connections /\ Bound(h, target)
      BY <3>1, <3>2, RoutedIsBound
    <3> HIDE DEF target
    <3> QED
      BY <1>1, <1>2, <2>0, <3>3, <3>4
  <2> QED
    BY <2>1, <2>2
<1>5. ASSUME NEW r \in Rooms
      PROVE  OnlyEvicts(h, Broadcast(h, r).hub, {})
  <2> DEFINE all  == {x \in h.room_connections[r] : Registered(h, x)}
             slow == {x \in all : ~CanSend(h, x)}
  <2>1. Broadcast(h, r).hub = Evict(Push(h, all, "message"), slow)
    BY DEF Broadcast, Ok
  <2>2. all \in SUBSET Connections /\ slow \in SUBSET Connections
    BY DEF HubOK, Hub
  <2>3. \A d \in slow : Bound(h, d)
    BY <2>2, RoutedIsBound
  <2> HIDE DEF all, slow
  <2> QED
    BY <1>1, <1>2, <2>1, <2>2, <2>3
<1>6. ASSUME NEW r \in Rooms, NEW s \in Sessions
      PROVE  OnlyEvicts(h, DisconnectSession(h, r, s).hub, {})
  <2> DEFINE old == {h.session_routes[<<r, s>>]} \ {NoConnection}
  <2>1. DisconnectSession(h, r, s).hub = Evict(Push(h, old, "close"), old)
    BY DEF DisconnectSession, Ok
  <2>2. h.session_routes[<<r, s>>] \in Connections \cup {NoConnection}
    BY DEF HubOK, Hub
  <2>3. old \in SUBSET Connections /\ \A d \in old : Bound(h, d)
    BY <2>2, RoutedIsBound
  <2> HIDE DEF old
  <2> QED
    BY <1>1, <1>2, <2>1, <2>3
<1>7. ASSUME NEW r \in Rooms
      PROVE  OnlyEvicts(h, DisconnectRoom(h, r).hub, {})
  <2>1. DisconnectRoom(h, r).hub = Evict(Push(h, h.room_connections[r], "close"),
                                         h.room_connections[r])
    BY DEF DisconnectRoom, Ok
  <2>2. h.room_connections[r] \in SUBSET Connections
        /\ \A d \in h.room_connections[r] : Bound(h, d)
    <3>1. h.room_connections[r] \in SUBSET Connections
      BY DEF HubOK, Hub
    <3> QED
      BY <3>1, RoutedIsBound
  <2> QED
    BY <1>1, <1>2, <2>1, <2>2
<1> QED
  BY <1>3, <1>4, <1>5, <1>6, <1>7

(* register gives an entry to an unbound connection, and the writer task   *)
(* touches only queues.                                                    *)
LEMMA QuietMoves ==
    ASSUME NEW h, HubOK(h), NEW c \in Connections
    PROVE  /\ \A s : /\ Register(h, c, s).connections[c] = Entry(s)
                     /\ Register(h, c, s).evicted_attachments = h.evicted_attachments
                     /\ \A d \in Connections \ {c} : Stays(h, Register(h, c, s), d)
           /\ \A d \in Connections : Stays(h, Write(h, c), d) /\ Stays(h, EndWriter(h, c), d)
BY DEF HubOK, Hub, Register, Write, EndWriter, Stays
============================================================================

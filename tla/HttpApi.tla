------------------------------ MODULE HttpApi ------------------------------
(***************************************************************************)
(* The HTTP calls that create something: POST /session, /rooms,            *)
(* /rooms/{code}/invite-capabilities and /rooms/{code}/join-requests, from *)
(* rust/apps/server/src/http_api.rs down to the tables of RoomStore.  A    *)
(* handler awaits the database several times, so two calls, which may be   *)
(* one call and its repetition, interleave between any two of its reads    *)
(* and writes.  A client repeats a call when the answer is lost; to the    *)
(* server that is one more call with the same arguments.                   *)
(*                                                                         *)
(* The clock is read when a call has authenticated, for the rate limiter,  *)
(* and again by the service.  A call that fails ends without an answer.    *)
(* Decisions, departures and maintenance go on meanwhile; maintenance may  *)
(* expire anything that is due, in any order.                              *)
(***************************************************************************)
EXTENDS RoomStore, Sequences

CONSTANTS
    Calls,           \* slots for calls under way; their number bounds concurrency
    NoId,            \* no request id
    Addresses,       \* IP addresses of clients
    SessionTtl,      \* config.session_ttl
    InviteTtl,       \* config.invite_ttl
    CodeAttempts,    \* ROOM_CODE_ATTEMPTS
    MaxRequests,     \* RatePolicy.max_requests
    WindowLength,    \* RatePolicy.window_ms
    MaxTrackedKeys,  \* MAX_TRACKED_KEYS
    Scenarios        \* the sessions from before a restart, and bounds on the calls of each kind

CallKinds == {"session", "create", "invite", "join", "other"}

ASSUME ApiAssumption ==
    /\ NoId \notin RequestIds
    /\ {SessionTtl, InviteTtl, CodeAttempts} \subseteq Nat \ {0}
    /\ {MaxRequests, WindowLength, MaxTrackedKeys} \subseteq Nat \ {0}
    /\ MaxCreate = MaxClock
    /\ Scenarios \subseteq [known : SUBSET Sessions, calls : [CallKinds -> Nat]]

(* The buckets "session" (by address), "room" (by session) and "join" (by  *)
(* session and room).                                                      *)
LimiterKeys ==
    ({"session"} \X Addresses) \cup ({"room"} \X Sessions) \cup ({"join"} \X Sessions \X Codes)

L == INSTANCE RateLimiter WITH Keys <- LimiterKeys

VARIABLES
    sessions,    \* table sessions
    created,     \* column create_request_id of table rooms
    invites,     \* table invite_capabilities: the expiry by room and request id, 0 if none
    limiter,     \* AppServices.limiter
    calls,       \* the calls under way
    answers,     \* history: the answers of the calls that succeeded
    granted,     \* history: when each key was granted its calls, until a check is overtaken
    latest,      \* history: the latest time a check was given, MaxTime if one was overtaken
    budget       \* how many calls of each kind are still to come

apiVars == <<sessions, created, invites, limiter, calls, answers, granted, latest, budget>>
allVars == <<vars, apiVars>>

SessionRow == [state : {"none", "active", "expired"}, expires_at : Nat]

Steps == {"idle", "limit", "find", "insert", "again",
          "load", "expiry", "store", "reread", "room", "apply"}

Call == [op      : {"none", "create", "invite", "join"},
         step    : Steps,
         session : Sessions \cup {NoSession},
         request : RequestIds \cup {NoId},
         code    : Codes \cup {NoCode},
         with    : RequestIds \cup {NoId},    \* the invite a join presents
         t       : 0..MaxClock,
         tries   : 0..CodeAttempts]

NoCall == [op |-> "none", step |-> "idle", session |-> NoSession, request |-> NoId,
           code |-> NoCode, with |-> NoId, t |-> 0, tries |-> 0]

ApiInit ==
    /\ Init
    /\ \E scenario \in Scenarios :
         /\ sessions = [s \in Sessions |-> IF s \in scenario.known
                                          THEN [state |-> "active", expires_at |-> SessionTtl]
                                          ELSE [state |-> "none", expires_at |-> 0]]
         /\ budget = scenario.calls
    /\ created = [c \in Codes |-> NoId]
    /\ invites = [c \in Codes |-> [q \in RequestIds |-> 0]]
    /\ limiter = [key \in LimiterKeys |-> L!NoWindow]
    /\ calls = [k \in Calls |-> NoCall]
    /\ answers = {}
    /\ granted = [key \in LimiterKeys |-> <<>>]
    /\ latest = 0

----------------------------------------------------------------------------
(* What the handlers share.                                                *)

(* Session::ensure_active on the session as it was loaded.                 *)
EnsureActive(session, t) == session.state = "active" /\ t < session.expires_at

(* The same in a service, on the session loaded on arrival, when it was    *)
(* active.                                                                 *)
StillActive(session, t) == t < session.expires_at

(* The limiter's decision about a call at time t.                          *)
Limit(key, t, grant) ==
    LET check == L!Check(limiter, key, t)
    IN  /\ grant = check.admitted
        /\ limiter' = check.entries
        /\ latest' = IF t < latest THEN MaxTime ELSE t
        /\ granted' = IF grant /\ t >= latest THEN [granted EXCEPT ![key] = Append(@, t)]
                      ELSE granted

Spend(kind) == budget[kind] > 0 /\ budget' = [budget EXCEPT ![kind] = @ - 1]

Goto(k, step) == calls' = [calls EXCEPT ![k].step = step]
End(k) == calls' = [calls EXCEPT ![k] = NoCall]
Answer(k, code, expires_at) ==
    /\ answers' = answers \cup {[op |-> calls[k].op, session |-> calls[k].session,
                                 request |-> calls[k].request, code |-> code,
                                 expires_at |-> expires_at]}
    /\ End(k)

----------------------------------------------------------------------------
(* POST /session without an active session in the cookie: a new session.   *)
(* With one, the call only counts for the limiter.                         *)

CreateSession(s, a, t) ==
    /\ Spend("session")
    /\ sessions[s].state = "none"
    /\ Limit(<<"session", a>>, t, TRUE)
    /\ sessions' = [sessions EXCEPT ![s] = [state |-> "active", expires_at |-> now + SessionTtl]]
    /\ UNCHANGED <<vars, created, invites, calls, answers>>

RestoreSession(s, a, t) ==
    /\ Spend("session")
    /\ EnsureActive(sessions[s], now)
    /\ Limit(<<"session", a>>, t, TRUE)
    /\ UNCHANGED <<vars, sessions, created, invites, calls, answers>>

(* The limiter refuses, after it may have dropped what is over.            *)
RefuseSession(a, t) ==
    /\ Spend("session")
    /\ Limit(<<"session", a>>, t, FALSE)
    /\ UNCHANGED <<vars, sessions, created, invites, calls, answers>>

(* expire_due_sessions, by the maintenance task.                           *)
ExpireSession(s) ==
    /\ sessions[s].state = "active"
    /\ sessions[s].expires_at <= now
    /\ sessions' = [sessions EXCEPT ![s].state = "expired"]
    /\ UNCHANGED <<vars, created, invites, limiter, calls, answers, granted, latest, budget>>

----------------------------------------------------------------------------
(* A call arrives and is authenticated; create_invite is not limited.      *)

Arrive(k, call) ==
    /\ calls[k] = NoCall
    /\ k = CHOOSE free \in Calls : calls[free] = NoCall    \* slots are alike
    /\ Spend(call.op)
    /\ EnsureActive(sessions[call.session], now)
    /\ calls' = [calls EXCEPT ![k] = [call EXCEPT !.t = now]]
    /\ UNCHANGED <<vars, sessions, created, invites, limiter, answers, granted, latest>>

PostRoom(k, s, q) ==
    Arrive(k, [NoCall EXCEPT !.op = "create", !.step = "limit", !.session = s, !.request = q])

PostInvite(k, s, c, q) ==
    Arrive(k, [NoCall EXCEPT !.op = "invite", !.step = "load", !.session = s, !.request = q,
                             !.code = c])

(* A request id is made at random for one room (new_client_id), and an     *)
(* invite, an HMAC, is only known to those who were given it.              *)
PostJoin(k, s, c, q, invite) ==
    /\ invite # NoId =>
         \E a \in answers : a.op = "invite" /\ a.code = c /\ a.request = invite
    /\ requests[q].room \in {NoCode, c}
    /\ \A other \in Calls :
         calls[other].op = "join" /\ calls[other].request = q => calls[other].code = c
    /\ Arrive(k, [NoCall EXCEPT !.op = "join", !.step = "limit", !.session = s, !.request = q,
                                !.code = c, !.with = invite])

LimiterKey(call) ==
    IF call.op = "create" THEN <<"room", call.session>> ELSE <<"join", call.session, call.code>>

(* The limiter, and then the service with a clock of its own.              *)
Serve(k) ==
    /\ calls[k].step = "limit"
    /\ \E grant \in BOOLEAN :
         /\ Limit(LimiterKey(calls[k]), calls[k].t, grant)
         /\ calls' = [calls EXCEPT ![k] =
              IF grant /\ StillActive(sessions[@.session], now)
              THEN [@ EXCEPT !.step = IF calls[k].op = "create" THEN "find" ELSE "room", !.t = now,
                             !.tries = IF calls[k].op = "create" THEN CodeAttempts ELSE 0]
              ELSE NoCall]
    /\ UNCHANGED <<vars, sessions, created, invites, answers, budget>>

----------------------------------------------------------------------------
(* services.create_room: look the request up, then try to insert a room    *)
(* under a random code, CodeAttempts times; after a unique conflict look   *)
(* the request up again, for a call with the same id may have been faster. *)

(* find_room_by_create_request.                                            *)
RoomsOf(s, q) == {c \in Codes : rooms[c] # NoRoom /\ rooms[c].owner = s /\ created[c] = q}

FindRoom(k) ==
    LET found == RoomsOf(calls[k].session, calls[k].request)
    IN  /\ calls[k].step \in {"find", "again"}
        /\ \/ \E c \in found : Answer(k, c, rooms[c].expires_at)
           \/ /\ found = {}
              /\ IF calls[k].tries = 0 THEN End(k) ELSE Goto(k, "insert")
              /\ UNCHANGED answers
        /\ UNCHANGED <<vars, sessions, created, invites, limiter, granted, latest, budget>>

(* Faulty: a conflict is taken for a code that is in use and nothing else, *)
(* and an insert that is ignored for one that succeeded.                   *)
InsertOrIgnore(k, c) ==
    LET call == calls[k]
        free == rooms[c] = NoRoom /\ RoomsOf(call.session, call.request) = {}
    IN  /\ call.step = "insert"
        /\ IF free
           THEN InsertRoom(c, call.session, call.t) /\ created' = [created EXCEPT ![c] = call.request]
           ELSE UNCHANGED <<vars, created>>
        /\ Answer(k, c, call.t + RoomTtl)
        /\ UNCHANGED <<sessions, invites, limiter, granted, latest, budget>>

(* insert_room, under the indexes on the code and on the owner's request.  *)
Insert(k, c) ==
    LET call == calls[k]
        free == rooms[c] = NoRoom /\ RoomsOf(call.session, call.request) = {}
    IN  /\ call.step = "insert"
        /\ IF free
           THEN /\ InsertRoom(c, call.session, call.t)
                /\ created' = [created EXCEPT ![c] = call.request]
                /\ Answer(k, c, call.t + RoomTtl)
           ELSE /\ calls' = [calls EXCEPT ![k].step = "again", ![k].tries = @ - 1]
                /\ UNCHANGED <<vars, created, answers>>
        /\ UNCHANGED <<sessions, invites, limiter, granted, latest, budget>>

----------------------------------------------------------------------------
(* services.create_invite.  The capability is derived from the room and    *)
(* the request id; what is stored is its expiry.                           *)

InviteDeadline(call) ==
    IF call.t + InviteTtl < rooms[call.code].expires_at
    THEN call.t + InviteTtl ELSE rooms[call.code].expires_at

LoadForInvite(k) ==
    LET call == calls[k]
    IN  /\ call.step = "load"
        /\ IF /\ StillActive(sessions[call.session], now)
              /\ rooms[call.code] # NoRoom
              /\ rooms[call.code].owner = call.session
              /\ rooms[call.code].state = "active"
           THEN calls' = [calls EXCEPT ![k].step = "expiry", ![k].t = now]
           ELSE End(k)
        /\ UNCHANGED <<vars, sessions, created, invites, limiter, answers, granted, latest, budget>>

(* find_invite_expiry, before the insert and after a conflict.             *)
FindInvite(k) ==
    LET call == calls[k]
        stored == invites[call.code][call.request]
    IN  /\ call.step \in {"expiry", "reread"}
        /\ IF stored # 0
           THEN Answer(k, call.code, stored)
           ELSE /\ IF call.step = "expiry" /\ call.t < InviteDeadline(call)
                   THEN Goto(k, "store") ELSE End(k)
                /\ UNCHANGED answers
        /\ UNCHANGED <<vars, sessions, created, invites, limiter, granted, latest, budget>>

(* Faulty: after a conflict the answer carries the expiry just computed.   *)
StoreOwnInvite(k) ==
    LET call == calls[k]
    IN  /\ call.step = "store"
        /\ invites' = IF invites[call.code][call.request] = 0
                      THEN [invites EXCEPT ![call.code][call.request] = InviteDeadline(call)]
                      ELSE invites
        /\ Answer(k, call.code, InviteDeadline(call))
        /\ UNCHANGED <<vars, sessions, created, limiter, granted, latest, budget>>

(* insert_invite_capability, under the index on the room and the request.  *)
StoreInvite(k) ==
    LET call == calls[k]
    IN  /\ call.step = "store"
        /\ IF invites[call.code][call.request] = 0
           THEN /\ invites' = [invites EXCEPT ![call.code][call.request] = InviteDeadline(call)]
                /\ Answer(k, call.code, InviteDeadline(call))
           ELSE /\ Goto(k, "reread")
                /\ UNCHANGED <<invites, answers>>
        /\ UNCHANGED <<vars, sessions, created, limiter, granted, latest, budget>>

----------------------------------------------------------------------------
(* services.request_join: the room and the invite are read first, then one *)
(* transaction applies the command.                                        *)

(* find_room_by_code and validate_invite_capability.                       *)
LoadForJoin(k) ==
    LET call == calls[k]
    IN  /\ call.step = "room"
        /\ IF /\ rooms[call.code] # NoRoom
              /\ call.with # NoId => invites[call.code][call.with] > call.t
           THEN Goto(k, "apply") ELSE End(k)
        /\ UNCHANGED <<vars, sessions, created, invites, limiter, answers, granted, latest, budget>>

ApplyJoin(k) ==
    LET call == calls[k]
        result == RequestJoin(LoadRoom(call.code), call.request, call.session, call.t,
                              JoinDeadline(call.code, call.t))
    IN  /\ call.step = "apply"
        /\ \/ /\ Apply(call.code, result, call.t)
              /\ Answer(k, call.code, result.room.join_requests[call.request].expires_at)
              /\ UNCHANGED maintenance
           \/ /\ result.outcome = "unchanged"
              /\ Answer(k, call.code, result.room.join_requests[call.request].expires_at)
              /\ UNCHANGED vars
           \/ /\ ~Commits(call.code, result, call.t)
              /\ result.outcome # "unchanged"
              /\ End(k)
              /\ UNCHANGED <<vars, answers>>
        /\ UNCHANGED <<sessions, created, invites, limiter, granted, latest, budget>>

----------------------------------------------------------------------------
(* Everything else that changes the tables meanwhile.                      *)

Meanwhile ==
    /\ UNCHANGED <<sessions, created, invites, limiter, calls, answers, granted, latest, maintenance>>
    /\ \E c \in Codes :
         \/ /\ Spend("other")
            /\ \E s \in Sessions :
                 /\ EnsureActive(sessions[s], now)
                 /\ \/ Apply(c, Leave(LoadRoom(c), s), now)
                    \/ \E q \in RequestIds, d \in {"approve", "reject"} :
                         Apply(c, DecideJoin(LoadRoom(c), s, q, d, now), now)
         \/ /\ UNCHANGED budget
            /\ \/ Apply(c, Expire(LoadRoom(c), now), now)
               \/ \E q \in RequestIds : Apply(c, ExpireJoinRequest(LoadRoom(c), q, now), now)

(* A call takes no longer than MaxLag between reading the clock and its    *)
(* last write.                                                             *)
ApiTick ==
    /\ \A k \in Calls : calls[k] # NoCall => now < calls[k].t + MaxLag
    /\ Tick
    /\ UNCHANGED apiVars

Proceed(k) ==
    \/ Serve(k)
    \/ FindRoom(k) \/ \E c \in Codes : Insert(k, c)
    \/ LoadForInvite(k) \/ FindInvite(k) \/ StoreInvite(k)
    \/ LoadForJoin(k) \/ ApplyJoin(k)

ApiNext ==
    \/ ApiTick
    \/ Meanwhile
    \/ \E a \in Addresses, t \in Clock :
         \/ \E s \in Sessions : CreateSession(s, a, t) \/ RestoreSession(s, a, t)
         \/ RefuseSession(a, t)
    \/ \E s \in Sessions : ExpireSession(s)
    \/ \E k \in Calls, s \in Sessions, q \in RequestIds :
         \/ PostRoom(k, s, q)
         \/ \E c \in Codes : PostInvite(k, s, c, q)
         \/ \E c \in Codes, invite \in RequestIds \cup {NoId} : PostJoin(k, s, c, q, invite)
    \/ \E k \in Calls : Proceed(k)

ApiSpec == ApiInit /\ [][ApiNext]_allVars

----------------------------------------------------------------------------
(* Properties.                                                             *)

(* The tables, the limiter and the calls under way have their types.       *)
ApiTypeOK ==
    /\ TypeOK
    /\ sessions \in [Sessions -> SessionRow]
    /\ created \in [Codes -> RequestIds \cup {NoId}]
    /\ invites \in [Codes -> [RequestIds -> 0..MaxTime]]
    /\ limiter \in [LimiterKeys -> L!Window]
    /\ Cardinality(L!Tracked(limiter)) <= MaxTrackedKeys
    /\ calls \in [Calls -> Call]
    /\ budget \in [CallKinds -> Nat]

(* All answers to one POST /rooms, however often it is repeated and        *)
(* however the repetitions interleave in create_room, name the same room,  *)
(* and it is the caller's.                                                 *)
OneRoomPerRequest ==
    \A a \in answers : a.op = "create" =>
        /\ rooms[a.code] # NoRoom
        /\ rooms[a.code].owner = a.session
        /\ \A b \in answers :
             b.op = "create" /\ b.session = a.session /\ b.request = a.request => b.code = a.code

(* An invite is good until the moment its answer announced: all answers of *)
(* create_invite for it carry the expiry that validate_invite_capability   *)
(* will compare with, and the room outlives it.                            *)
InvitesHold ==
    \A a \in answers : a.op = "invite" =>
        /\ a.expires_at = invites[a.code][a.request]
        /\ a.expires_at <= rooms[a.code].expires_at

(* A receiver told how long it may wait is not told otherwise later: the   *)
(* deadline request_join answered with stays the deadline of its request,  *)
(* although every repetition computes another one.                         *)
JoinAnswersHold ==
    \A a \in answers : a.op = "join" =>
        LET request == requests[a.request].request
        IN  /\ requests[a.request].room = a.code
            /\ request.session = a.session
            /\ request.expires_at = a.expires_at

(* Nobody is granted more than two windows' worth of calls within one      *)
(* window's length: a call and the one so many calls later are a window    *)
(* apart, whatever check drops when its table is full, as long as the      *)
(* calls take the lock in the order in which they read the clock.          *)
WithinRate ==
    latest # MaxTime =>
        \A key \in LimiterKeys : \A i, j \in DOMAIN granted[key] :
            j = i + 2 * MaxRequests => granted[key][i] + WindowLength <= granted[key][j]
=============================================================================

----------------------------- MODULE Signaling -----------------------------
(***************************************************************************)
(* The owner's page and a receiver's page set up their RTCPeerConnection   *)
(* through the server: the signals and presence events the server relays   *)
(* in order and loses with a socket, the promises and timers of either     *)
(* page in any order, and the two browsers' connection.                    *)
(***************************************************************************)
EXTENDS RtcPage

CONSTANTS
    MaxNegotiations,   \* a bound on the offers made
    Faults,            \* what may go wrong
    Scenarios          \* whether a transfer is streamed, whether both pages already
                       \* have the RTC config, and how often what may go wrong

ASSUME SignalingAssumption ==
    /\ MaxNegotiations \in Nat
    /\ Faults = {"socket", "expire", "reject", "flap", "fail", "reload", "user", "slow"}
    /\ Scenarios \subseteq [streamed : BOOLEAN, configured : BOOLEAN,
                        faults : [Faults -> Nat]]

Ends == {"owner", "receiver"}
Other(e) == IF e = "owner" THEN "receiver" ELSE "owner"

VARIABLES
    page,     \* the pages
    up,       \* which pages are attached to the room
    net,      \* what the server has for a page: signals and presence events
    negs,     \* how many negotiation ids have been generated
    left      \* what is left of the budget

vars == <<page, up, net, negs, left>>

Negotiations == 1..MaxNegotiations
Candidates == [kind : {"candidate"}, neg : Negotiations, k : 1..Gathered]
Signals == [kind : {"offer", "answer"}, neg : Negotiations, k : {0}] \cup Candidates
Presence(kind) == Signal(kind, 0, 0)
NegsOf(signals) == {signals[i].neg : i \in DOMAIN signals} \ {0}

Init ==
    /\ \E s \in Scenarios :
         /\ page = [e \in Ends |->
                 LET p == [NewPage(e, s.streamed) EXCEPT !.sees = TRUE]
                 IN IF s.configured THEN ApplyRtcConfig(p, 1) ELSE p]
         /\ negs = IF s.configured THEN 1 ELSE 0
         /\ left = s.faults
    /\ up = [e \in Ends |-> TRUE]
    /\ net = [e \in Ends |-> <<>>]

Spend(fault) == left[fault] > 0 /\ left' = [left EXCEPT ![fault] = @ - 1]
Free == UNCHANGED left

(* The page has become p; what it sends is lost when its socket is gone,   *)
(* and refused when the other member is not attached.                      *)
Becomes(e, p, nets) ==
    /\ p.neg <= MaxNegotiations
    /\ negs' = IF p.neg > negs THEN p.neg ELSE negs
    /\ IF up[e] /\ up[Other(e)]
       THEN /\ net' = [nets EXCEPT ![Other(e)] = @ \o p.out]
            /\ page' = [page EXCEPT ![e] = [p EXCEPT !.out = <<>>]]
       ELSE /\ net' = nets
            /\ page' = [page EXCEPT ![e] = [p EXCEPT !.out = <<>>, !.dropped = @ \cup NegsOf(p.out)]]
    /\ UNCHANGED up
Fresh == negs + 1

-----------------------------------------------------------------------------
(* What the server brings.                                                 *)
Deliver(e) ==
    /\ net[e] # <<>>
    /\ LET s == Head(net[e])
           p == page[e]
           nets == [net EXCEPT ![e] = Tail(@)]
       IN \/ /\ s.kind = "online"
             /\ Becomes(e, SyncRtcPeers([p EXCEPT !.sees = TRUE], Fresh), nets)
          \/ /\ s.kind = "offline"
             /\ Becomes(e, IF p.peer /\ ~Kept(p) THEN [RemoveRtcPeer(p) EXCEPT !.sees = FALSE]
                           ELSE [p EXCEPT !.sees = FALSE], nets)
          \/ /\ s.kind \notin {"online", "offline"}
             /\ Becomes(e, AcceptRtcSignal(p, s), nets)
    /\ Free

Refresh(e) ==
    /\ up[e] /\ SyncRtcPeers(page[e], Fresh) # page[e]
    /\ Becomes(e, SyncRtcPeers(page[e], Fresh), net) /\ Free

(* A socket is lost with what was under way to the page; the page attaches *)
(* again and gets a snapshot, perhaps after a change of the network.       *)
Offline(e, p) ==
    /\ page' = [page EXCEPT ![e] = p,
                            ![Other(e)].dropped = @ \cup NegsOf(net[e])]
    /\ up' = [up EXCEPT ![e] = FALSE]
    /\ net' = [net EXCEPT ![e] = <<>>,
                          ![Other(e)] = IF up[Other(e)] THEN Append(@, Presence("offline")) ELSE @]
    /\ UNCHANGED negs
LoseSocket(e) == up[e] /\ Spend("socket") /\ Offline(e, page[e])
Reload(e) == up[e] /\ Spend("reload") /\ Offline(e, NewPage(e, FALSE))

Reattach(e) ==
    /\ ~up[e]
    /\ \E rebuild \in BOOLEAN :
         LET q == IF rebuild THEN RebuildPeer(page[e]) ELSE page[e]
             p == SyncRtcPeers([q EXCEPT !.sees = up[Other(e)]], Fresh)
         IN /\ p.neg <= MaxNegotiations
            /\ negs' = IF p.neg > negs THEN p.neg ELSE negs
            /\ page' = [page EXCEPT ![e] = p]
    /\ up' = [up EXCEPT ![e] = TRUE]
    /\ net' = [net EXCEPT ![Other(e)] = IF up[Other(e)] THEN Append(@, Presence("online")) ELSE @]
    /\ Free

-----------------------------------------------------------------------------
(* The RTC config is fetched, and expires when it cannot be refreshed.     *)
ConfigArrives(e) ==
    /\ ~page[e].config
    /\ Becomes(e, ApplyRtcConfig(page[e], Fresh), net) /\ Free
ConfigExpires(e) ==
    /\ page[e].config /\ Spend("expire")
    /\ Becomes(e, [page[e] EXCEPT !.config = FALSE], net)

(* The browsers' connection: both ends have each other's description and   *)
(* one can reach the other.                                                *)
Joined ==
    /\ page["owner"].neg = page["receiver"].neg /\ page["owner"].neg # 0
    /\ \A e \in Ends : page[e].described /\ page[e].answered = page[e].neg
                        /\ page[e].state # "failed"
    /\ \E e \in Ends : page[e].applied # {}

(* The page's promises and timers, and the user.  The deadlines are        *)
(* seconds: one passes while signals or promises are under way only where  *)
(* the network or a page is slow.                                          *)
Busy == \E e \in Ends : \/ net[e] # <<>> \/ page[e].tasks # {}
                        \/ Timer(<<"restart", 0>>) \in page[e].timers
                        \/ page[e].described /\ page[e].found < Gathered
                        \/ Joined /\ page[e].chan # "open"
Step(e) == \E t \in page[e].tasks : Becomes(e, StepTask(page[e], t), net) /\ Free
Reject(e) == \E t \in page[e].tasks :
    IsCurrent(page[e], t) /\ Spend("reject") /\ Becomes(e, FailTask(page[e], t), net)
Fire(e) == \E t \in page[e].timers :
    /\ IF Busy /\ t.work[1] # "restart" THEN Spend("slow") ELSE Free
    /\ Becomes(e, FireTimer(page[e], t, Fresh), net)
RetryPaused(e) ==
    /\ e = "owner" /\ page[e].peer /\ page[e].paused /\ Spend("user")
    /\ Becomes(e, ReconnectPausedTransfer(page[e], Fresh), net)

-----------------------------------------------------------------------------
(* The browsers: the connection comes up, breaks and comes back.           *)
Gather(e) ==
    /\ page[e].described /\ page[e].found < Gathered
    /\ Becomes(e, QueueOrEmitLocalCandidate(page[e]), net) /\ Free

StateChanges(e, state) ==
    Becomes(e, HandleConnectionState([page[e] EXCEPT !.state = state], state), net)

Connecting(e) ==
    /\ page[e].state = "new" /\ page[e].described /\ page[e].answered # 0
    /\ StateChanges(e, "connecting") /\ Free
Connected(e) ==
    /\ page[e].state \in {"connecting", "disconnected"} /\ Joined
    /\ StateChanges(e, "connected") /\ Free
ChannelOpens(e) ==
    /\ page[e].state = "connected" /\ page[e].chan \in {"none", "connecting"} /\ Joined
    /\ Becomes(e, MarkReady([page[e] EXCEPT !.chan = "open"]), net) /\ Free

Disconnects(e) ==
    /\ page[e].state = "connected"
    /\ IF Joined THEN Spend("flap") ELSE Free
    /\ StateChanges(e, "disconnected")

(* Nothing can bring the connection up any more.                           *)
UnderWay(e) ==
    \E f \in Ends : \/ page[e].neg \in NegsOf(net[f]) \cup NegsOf(page[f].queue)
                    \/ \E t \in page[f].tasks : t.conn = page[e].neg /\ page[f].neg = t.conn
                    \/ page[f].described /\ page[f].neg = page[e].neg /\ page[f].found < Gathered
Fails(e) ==
    /\ page[e].state \in {"connecting", "disconnected"}
    /\ IF Joined \/ UnderWay(e) THEN Spend("fail") ELSE Free
    /\ StateChanges(e, "failed")

ChannelCloses(e) ==
    /\ page[e].chan = "open"
    /\ page[Other(e)].neg # page[e].neg \/ page[e].state = "failed"
    /\ Becomes(e, HandleConnectionState([page[e] EXCEPT !.chan = "closed"], "closed"), net) /\ Free

-----------------------------------------------------------------------------
Next == \E e \in Ends :
    \/ Deliver(e) \/ Refresh(e) \/ LoseSocket(e) \/ Reload(e) \/ Reattach(e)
    \/ ConfigArrives(e) \/ ConfigExpires(e)
    \/ Step(e) \/ Reject(e) \/ Fire(e) \/ RetryPaused(e)
    \/ Gather(e) \/ Connecting(e) \/ Connected(e) \/ ChannelOpens(e)
    \/ Disconnects(e) \/ Fails(e) \/ ChannelCloses(e)

Spec == Init /\ [][Next]_vars

(* The server relays, the browsers connect or give up on a connection,     *)
(* promises settle, timers go off, a page attaches again and fetches its   *)
(* RTC config until it has it.                                             *)
FairSpec == Spec /\ \A e \in Ends :
    /\ WF_vars(Deliver(e)) /\ WF_vars(Reattach(e)) /\ WF_vars(ConfigArrives(e))
    /\ WF_vars(Step(e)) /\ WF_vars(Fire(e)) /\ WF_vars(Gather(e))
    /\ WF_vars(Connecting(e)) /\ WF_vars(Connected(e)) /\ WF_vars(ChannelOpens(e))
    /\ WF_vars(ChannelCloses(e)) /\ WF_vars(Disconnects(e)) /\ WF_vars(Fails(e))

-----------------------------------------------------------------------------
(* The type invariant.                                                     *)
TaskSet == [kind : {"offer", "accept", "answer", "candidate"}, conn : Negotiations,
          neg : Negotiations, step : {"local", "announce", "remote", "apply"},
          cands : SUBSET Candidates]
PageOK(p) ==
    /\ p.phase \in {"waiting", "connecting", "ready", "disconnected", "failed"}
    /\ p.work \in Works /\ p.neg \in 0..negs /\ p.answered \in 0..negs
    /\ \A t \in p.timers : t.work \in Works
    /\ p.tasks \subseteq TaskSet /\ p.remote \cup p.applied \subseteq Candidates
    /\ p.local \subseteq 1..p.found /\ p.found \in 0..Gathered
    /\ p.state \in {"new", "connecting", "connected", "disconnected", "failed"}
    /\ p.chan \in {"none", "connecting", "open", "closed"}
    /\ Len(p.queue) <= SignalLimit /\ Cardinality(p.remote) <= SignalLimit
TypeOK ==
    /\ \A e \in Ends : PageOK(page[e])
    /\ up \in [Ends -> BOOLEAN]
    /\ negs \in 0..MaxNegotiations

(* A connection is only ever given the description and the candidates of   *)
(* its own negotiation, whatever still arrives of the ones it has replaced *)
(* (prepare_signal_task, apply_pending_candidates).                        *)
OnlyOwnNegotiation ==
    \A e \in Ends :
        /\ page[e].answered \in {0, page[e].neg}
        /\ \A c \in page[e].applied : c.neg = page[e].neg

(* No candidate of the negotiation both pages are in gets lost between     *)
(* them: neither the ones found before the description is announced, nor   *)
(* the ones that arrive before the other's description is set, unless a    *)
(* socket was lost, a queue was full or a promise was rejected.            *)
Reaches(e, c) ==
    \/ c.k \in page[Other(e)].local
    \/ c \in page[e].applied \cup page[e].remote
    \/ \E t \in page[e].tasks : c \in t.cands
    \/ \E i \in DOMAIN net[e] : net[e][i] = c
    \/ \E i \in DOMAIN page[e].queue : page[e].queue[i] = c
CandidatesArrive ==
    \A e \in Ends :
        LET n == page[e].neg
            o == page[Other(e)]
        IN n # 0 /\ o.neg = n /\ n \notin page[e].dropped \cup o.dropped
           => \A k \in 1..o.found : Reaches(e, Candidate(n, k))

(* A page that says it is connected has an open data channel, however the  *)
(* connection has been replaced behind the application's back.             *)
ReadyIsOpen == \A e \in Ends : page[e].phase = "ready" => page[e].chan = "open"

(* A peer that is neither connected nor given up is waiting for something: *)
(* a deadline armed for just this phase, the restart of the offer, or the  *)
(* browser's verdict on a connection under way.                            *)
NotStranded ==
    \A e \in Ends :
        LET p == page[e]
        IN p.peer /\ p.config /\ p.sees /\ p.phase \in {"waiting", "connecting", "disconnected"}
           => \/ \E t \in p.timers : WorkIsCurrent(p, t) \/ t.work[1] = "restart"
              \/ p.state \in {"connecting", "connected", "disconnected"}

(* Once nothing goes wrong any more, each page ends up connected or says   *)
(* that it has failed: retries and deadlines do not go on forever.         *)
Settled(e) == ~page[e].peer \/ page[e].phase \in {"ready", "failed"}
Settles == \A e \in Ends : <>[]Settled(e)

(* And the two pages end up agreeing whether they are connected.           *)
Agree == <>[](page["owner"].phase = "ready" <=> page["receiver"].phase = "ready")
=============================================================================

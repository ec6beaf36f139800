---------------------------- MODULE RateLimiter ----------------------------
(***************************************************************************)
(* The fixed-window rate limiter of rust/apps/server/src/rate_limit.rs as  *)
(* an operator: from the tracked windows and a call to the windows after   *)
(* it and whether the call is admitted.  The map sits behind a mutex, so a *)
(* check is one step; its clock was read before the lock was taken.        *)
(***************************************************************************)
EXTENDS Naturals, FiniteSets

CONSTANTS
    Keys,            \* "bucket:key"
    MaxRequests,     \* RatePolicy.max_requests, one policy for all buckets
    WindowLength,    \* RatePolicy.window_ms
    MaxTrackedKeys   \* MAX_TRACKED_KEYS

(* A key without an entry has NoWindow: no entry resets at time 0.         *)
Window == [count : 0..MaxRequests, resets_at : Nat]
NoWindow == [count |-> 0, resets_at |-> 0]
NewWindow(t) == [count |-> 0, resets_at |-> t + WindowLength]

Tracked(entries) == {k \in Keys : entries[k] # NoWindow}

(* Faulty: a full table forgets everything.                                *)
RetainedNone(entries, t) == [k \in Keys |-> NoWindow]

(* entries.retain: the windows that are over are dropped.                  *)
Retained(entries, t) ==
    [k \in Keys |-> IF entries[k].resets_at > t THEN entries[k] ELSE NoWindow]

Check(entries, key, t) ==
    LET crowded(e) == e[key] = NoWindow /\ Cardinality(Tracked(e)) >= MaxTrackedKeys
        kept   == IF crowded(entries) THEN Retained(entries, t) ELSE entries
        window == IF t >= kept[key].resets_at THEN NewWindow(t) ELSE kept[key]
        admits == ~crowded(kept) /\ window.count < MaxRequests
    IN  [admitted |-> admits,
         entries  |-> IF crowded(kept) THEN kept
                      ELSE [kept EXCEPT ![key] =
                              IF admits THEN [window EXCEPT !.count = @ + 1] ELSE window]]
=============================================================================

--------------------------- MODULE MCRealtimeHub ---------------------------
(* RealtimeHub on three connections of two sessions.                       *)
EXTENDS RealtimeHub, TLC

Symmetry == Permutations(Connections) \cup Permutations(Rooms)
              \cup Permutations(Sessions) \cup Permutations(Peers)
============================================================================

------------------------------ MODULE MCRoom ------------------------------
(* One room, with every session a possible owner.                          *)
EXTENDS Room, TLC

Symmetry == Permutations(Sessions) \cup Permutations(RequestIds)
              \cup Permutations(Peers)
============================================================================

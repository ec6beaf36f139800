----------------------------- MODULE MCPresence -----------------------------
(* Presence with an owner and a receiver.                                  *)
EXTENDS Presence, TLC

Symmetry == Permutations(Connections) \cup Permutations(Peers)
=============================================================================

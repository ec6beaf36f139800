---------------------------- MODULE MCRoomStore ----------------------------
(* RoomStore on two rooms and two sessions, each of which can own a room   *)
(* and ask to join the other.                                              *)
EXTENDS RoomStore, TLC

Symmetry == Permutations(Sessions) \cup Permutations(RequestIds)
=============================================================================

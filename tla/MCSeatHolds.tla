---------------------------- MODULE MCSeatHolds ----------------------------
(***************************************************************************)
(* Instances of SeatHolds for TLC.                                         *)
(***************************************************************************)
EXTENDS SeatHolds, TLC

Symmetry == Permutations(Users) \cup Permutations(Calls)
=============================================================================

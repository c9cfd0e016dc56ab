---------------------------- MODULE MCMemoryStore ----------------------------
(***************************************************************************)
(* An instance of MemoryStore for TLC.                                     *)
(***************************************************************************)
EXTENDS MemoryStore, TLC

Symmetry == Permutations(Users)
=============================================================================

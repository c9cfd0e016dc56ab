---------------------------- MODULE MCCachedList ----------------------------
(***************************************************************************)
(* Instances of CachedList for TLC.                                        *)
(***************************************************************************)
EXTENDS CachedList, TLC
=============================================================================

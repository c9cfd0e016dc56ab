-------------------------- MODULE MCPostgresStore --------------------------
(***************************************************************************)
(* Instances of PostgresStore for TLC.  No symmetry: the run checks a      *)
(* liveness property.                                                      *)
(***************************************************************************)
EXTENDS PostgresStore
=============================================================================

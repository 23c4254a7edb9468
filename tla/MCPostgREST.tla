---------------------------- MODULE MCPostgREST ----------------------------
(***************************************************************************)
(* Three tenant ids, two of them served at the start.                      *)
(***************************************************************************)
EXTENDS PostgREST
=============================================================================

-------------------------- MODULE MCConfigdRollout --------------------------
(***************************************************************************)
(* Two operators, two signing keys and two rosters; only safety properties *)
(* are checked, so their names may be permuted.                            *)
(***************************************************************************)
EXTENDS ConfigdRollout, TLC

CONSTANTS o1, o2, s1, s2, r1, r2

MCSymmetry == Permutations({o1, o2}) \cup Permutations({s1, s2}) \cup Permutations({r1, r2})
=============================================================================

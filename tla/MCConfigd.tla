----------------------------- MODULE MCConfigd -----------------------------
(***************************************************************************)
(* Two requests at a time and two tenants.  One realm has a signing key,   *)
(* which comes and goes; tokens name it under either issuer.               *)
(***************************************************************************)
EXTENDS Configd, TLC

CONSTANTS r1, r2, k1

MCRealmOf == k1 :> r1
=============================================================================

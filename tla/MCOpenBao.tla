----------------------------- MODULE MCOpenBao -----------------------------
(***************************************************************************)
(* Two tenants, hg and hg-dev: the second one's legacy policy has the name *)
(* of the first one's dev policy.                                          *)
(***************************************************************************)
EXTENDS OpenBao

MCTenant == {<<"hg">>, <<"hg", "dev">>}
=============================================================================

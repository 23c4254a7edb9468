---------------------------- MODULE MCDatabases ----------------------------
(* Two tenants and the smallest cluster mksrv accepts. *)
EXTENDS Databases

MCOrder == <<"acme", "beta">>
MCNodes == <<"n1", "n2", "n3">>

=============================================================================

---------------------------- MODULE MCTenantWeb ----------------------------
(***************************************************************************)
(* Tenants acme (lab.acme...), acme-lab (app...) and beta (www...): the    *)
(* pattern of each of the first two also finds the other's file.           *)
(***************************************************************************)
EXTENDS TenantWeb

MCId   == << <<"acme">>, <<"acme", "lab">>, <<"beta">> >>
MCSlug == << <<"lab", "acme">>, <<"app">>, <<"www">> >>

=============================================================================

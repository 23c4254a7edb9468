------------------------------- MODULE MCMail -------------------------------
(* Two tenants, the id of one the beginning of the other's. *)
EXTENDS Mail

MCOrder == <<"lab", "lab-x">>
MCGlobs == {<<"lab", "lab-x">>}

=============================================================================

----------------------------- MODULE MCKeycloak -----------------------------
(* Two of the four groups, the managing one included. *)
EXTENDS Keycloak

MCGroups == <<"admin", "dev">>

=============================================================================

------------------------------ MODULE MCFleet ------------------------------
(* A base host and two private hosts; one private address is part of the other's text. *)
EXTENDS Fleet

MCOrder  == <<"core", "edge", "web">>
MCInside == {<<"10.0.0.11", "10.0.0.1">>}

=============================================================================

--------------------------- MODULE MCStackDeploy ---------------------------
(***************************************************************************)
(* A stack like `database`: two units, one config file, one Caddy vhost,   *)
(* one secret; the second unit has a health check.                         *)
(***************************************************************************)
EXTENDS StackDeployRefinement

CONSTANTS u1, u2, conf, vhost

MCQuadlets  == {u1, u2}
MCConfigs   == {conf}
MCFragments == {vhost}
MCPaths     == <<u1, u2, vhost, conf>>
MCLeaves    == <<"pw">>
MCHealth    == {u1}
=============================================================================

------------------------- MODULE MCReusePortServer -------------------------
(* The address list of a host with both families, for TLC.                   *)
EXTENDS ReusePortServer

AnyAddrs == <<"v4", "v6">>

=============================================================================

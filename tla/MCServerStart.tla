--------------------------- MODULE MCServerStart ---------------------------
(* Small instances of ServerStart for TLC.  The address list is that of a   *)
(* host with both families, 0.0.0.0 first.                                  *)
EXTENDS ServerStart

AnyAddrs == <<"v4", "v6">>

\* net.ipv6.bindv6only = 0, the default: [::] covers 0.0.0.0.
DualStack == {"v4", "v6"} \X {"v4", "v6"}

\* net.ipv6.bindv6only = 1.
V6Only == {<<"v4", "v4">>, <<"v6", "v6">>}

=============================================================================

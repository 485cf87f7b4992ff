-------------------------- MODULE MCBlockingServer --------------------------
(* The connections of the clients, for TLC.                                  *)
EXTENDS BlockingServer

ClientConns == (EchoClients \X {1}) \cup (Threads \X (1 .. Rounds))

=============================================================================

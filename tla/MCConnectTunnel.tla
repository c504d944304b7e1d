-------------------------- MODULE MCConnectTunnel --------------------------
(* Each peer sends up to three bytes through a buffer of one, connections  *)
(* that hold two, and an int that holds less than three.                   *)
EXTENDS ConnectTunnel

=============================================================================

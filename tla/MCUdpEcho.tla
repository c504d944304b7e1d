------------------------------ MODULE MCUdpEcho ------------------------------
(* Two clients of any two kinds with three lines each, and sockets that    *)
(* hold two datagrams.                                                     *)
EXTENDS UdpEcho

CONSTANTS c1, c2

MCClients == {c1, c2}

=============================================================================

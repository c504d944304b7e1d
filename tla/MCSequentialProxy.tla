-------------------------- MODULE MCSequentialProxy --------------------------
(* Three clients and a program that runs out of descriptors with the third *)
(* (every request costs it one); requests of up to three header lines.     *)
EXTENDS SequentialProxy

CONSTANTS c1, c2, c3

MCClients == {c1, c2, c3}

Host == [name |-> "Host", value |-> "host"]
ProxyKeepAlive == [name |-> "Proxy-Connection", value |-> "keep-alive"]
Close == [name |-> "Connection", value |-> "close"]

MCRequests ==
  {<<AbsoluteLine, Host, KeepAliveLine, ProxyKeepAlive>>,
   <<AbsoluteLine, ProxyKeepAlive, Host>>,
   <<AbsoluteLine, KeepAliveLine, Host>>,
   <<AbsoluteLine, Host, Host, KeepAliveLine>>,
   <<AbsoluteLine, Host, Close>>,
   <<ResourceLine, Host>>}

=============================================================================

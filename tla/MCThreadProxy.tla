---------------------------- MODULE MCThreadProxy ----------------------------
(* Two clients, and descriptors for both with their logs.                  *)
EXTENDS ThreadProxy, TLC

CONSTANTS c1, c2

MCWorkers == {c1, c2}
MCEntryLen == (c1 :> 1) @@ (c2 :> 2)

=============================================================================

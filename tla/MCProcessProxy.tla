--------------------------- MODULE MCProcessProxy ---------------------------
(* Two clients, so that the first child may accept the second one.        *)
EXTENDS ProcessProxy, TLC

CONSTANTS c1, c2

MCWorkers == {c1, c2}
MCEntryLen == (c1 :> 1) @@ (c2 :> 2)

=============================================================================

----------------------------- MODULE MCGetRelay -----------------------------
(* Responses of one to six bytes through a buffer of two: shorter than the *)
(* buffer, filling it, with the length and the end of the head inside or   *)
(* beyond it.                                                              *)
EXTENDS GetRelay

MCResponses ==
  {r \in [head : 1..3, body : 0..3, field : 0..2, closes : BOOLEAN] :
     r.field < r.head}
MCGarbageLens == {-1, 0, 5}

=============================================================================

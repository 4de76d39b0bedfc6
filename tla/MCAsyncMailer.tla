--------------------------- MODULE MCAsyncMailer ---------------------------
(* Two workers on the first instance and one on the second, for TLC. *)
EXTENDS AsyncMailer

CONSTANTS i1, i2, w1, w2, w3

MCOn == [w \in Workers |-> IF w = w3 THEN i2 ELSE i1]
=============================================================================

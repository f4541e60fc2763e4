----------------------------- MODULE MCHeading -----------------------------
(* A turn of 24 parts, of which the car turns 4 in 10 ms at most; Run! turns   *)
(* it either way, or not at all.                                               *)
EXTENDS Heading

MCTurns == {-3, 0, 7}
=============================================================================

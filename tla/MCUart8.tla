------------------------------ MODULE MCUart8 ------------------------------
(* Frames of four bytes (header, function, one field, tail) instead of 21.  *)
EXTENDS Uart8
=============================================================================

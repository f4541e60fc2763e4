------------------------------- MODULE MCBoot -------------------------------
(* The boot sequence with a window of three bytes and a FIFO of two.           *)
EXTENDS Boot
=============================================================================

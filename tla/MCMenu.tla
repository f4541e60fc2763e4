------------------------------- MODULE MCMenu -------------------------------
(* Two parameters: one word of flash can be spoiled while the other is not. *)
EXTENDS Menu
=============================================================================

------------------------------ MODULE MCCamera ------------------------------
(* Two rows and two columns: a frame can be half written, a copy torn.      *)
EXTENDS Camera
=============================================================================

----------------------------- MODULE MCControl -----------------------------
(* Limits in the order of the real ones; demands by which wheel 1 turns either *)
(* way, the car moving forward, sideways and turning.                          *)
EXTENDS Control

MCDemands == {<<1, 1, -1>>, <<-1, 0, 0>>}
=============================================================================

------------------------------- MODULE Angles -------------------------------
(* Angles of icm.c and motionPlanning.c, in whole parts of a turn.            *)
EXTENDS Integers

CONSTANT Full       \* 360 degrees

ASSUME AnglesAssumption == Full \in Nat \ {0} /\ Full % 4 = 0

Half == Full \div 2
Quarter == Full \div 4

Magnitude(a) == IF a < 0 THEN -a ELSE a
=============================================================================

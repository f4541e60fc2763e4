------------------------------ MODULE Steering ------------------------------
(***************************************************************************)
(* Which way go_point (motionPlanning.c) drives the car, tick by tick: the  *)
(* yaw of the goal by atan and its corrections, the derivative of pid_yaw,  *)
(* and the low-pass filter through which x and y are made.  pid_yaw and the *)
(* filter are static and keep what the drive before has left in them.       *)
(*                                                                          *)
(* dx and dy are where the goal is seen, an angle too.  The filter's 0.6    *)
(* and 0.4 are floats in the code; here what is left of the difference is   *)
(* rounded towards 0.                                                       *)
(***************************************************************************)
EXTENDS Angles

CONSTANTS
  Bearings,           \* bound: directions of a goal
  target_v,           \* 60, in go_point
  arm_cos, arm_sin    \* target_v times cosine and sine of whole parts of a turn

Here == Full          \* dx = dy = 0

ASSUME SteeringAssumption ==
  /\ Bearings \subseteq 0 .. Full /\ target_v \in Nat
  /\ arm_cos \in [0 .. Full - 1 -> -target_v .. target_v]
  /\ arm_sin \in [0 .. Full - 1 -> -target_v .. target_v]

VARIABLES
  last_e, out,        \* pid_yaw
  last_x, last_y,     \* static in go_point; x = last_x / 1.688 and y = last_y / 1.6
  bearing, lead,      \* history: the goal, and how it moved since the tick before
  lag                 \* history: what the filter may still be off

steeringVars == <<last_e, out, last_x, last_y, bearing, lead, lag>>

SteeringInit ==
  /\ last_e = 0 /\ out = 0 /\ last_x = 0 /\ last_y = 0
  /\ bearing = 0 /\ lead = 0 /\ lag = 2 * target_v

-----------------------------------------------------------------------------
\* atan(dx / dy) of a goal in direction b, and what go_point makes of it.
Atan(b) == IF b % Half < Quarter THEN b % Half ELSE (b % Half) - Half
dyIsZero(b) == b \in {Quarter, 3 * Quarter, Here}
dxPositive(b) == 0 < b /\ b < Half
dxNegative(b) == Half < b /\ b < Full
dyPositive(b) == b < Quarter \/ (3 * Quarter < b /\ b < Full)

\* What the signs of dx and dy add.  Mutant: the second of the three ifs is missing.
TwoCorrections(b) ==
  (IF dxNegative(b) /\ dyPositive(b) THEN Full ELSE 0)
  + (IF ~dxPositive(b) /\ ~dyPositive(b) THEN Half ELSE 0)
Corrections(b) ==
  (IF dxNegative(b) /\ dyPositive(b) THEN Full ELSE 0)
  + (IF dxPositive(b) /\ ~dyPositive(b) THEN Half ELSE 0)
  + (IF ~dxPositive(b) /\ ~dyPositive(b) THEN Half ELSE 0)
Yaw(b) ==
  IF dyIsZero(b) THEN IF dxPositive(b) THEN Quarter ELSE 3 * Quarter
                 ELSE Atan(b) + Corrections(b)

\* 0.6 of d, and 0.6 * old + 0.4 * new.
Shrink(d) == IF d < 0 THEN -((3 * (-d)) \div 5) ELSE (3 * d) \div 5
LowPass(old, new) == new + Shrink(old - new)

Direction(b) == IF b = Here THEN 3 * Quarter ELSE b
Swing(from, to) == ((to - from + Half) % Full) - Half     \* the shorter way, with its sign

\* A tick of go_point; pid_cal(yaw, 0, &pid_yaw) with p = d = 1 and i = 0.
go_point(b) ==
  /\ out' = Yaw(b) + (Yaw(b) - last_e)
  /\ last_e' = Yaw(b)
  /\ last_x' = LowPass(last_x, arm_cos[out' % Full])
  /\ last_y' = LowPass(last_y, arm_sin[out' % Full])
  /\ bearing' = b /\ lead' = Swing(Direction(bearing), Direction(b))
  /\ lag' = Shrink(IF out' % Full = out % Full THEN lag ELSE 2 * target_v)

SteeringNext == \E b \in Bearings : go_point(b)

SteeringSpec == SteeringInit /\ [][SteeringNext]_steeringVars

-----------------------------------------------------------------------------
SteeringTypeOK ==
  /\ bearing \in 0 .. Full /\ last_e \in 0 .. Full
  /\ out \in -Full .. 2 * Full /\ lead \in -Half .. Half
  /\ last_x \in -target_v .. target_v /\ last_y \in -target_v .. target_v
  /\ lag \in 0 .. 2 * target_v

\* A goal that stands still is steered for straight, wherever it lies; one that moved is
\* led by as much, and where its direction goes from 359 degrees to 0 the derivative's
\* jump is a whole turn, which changes nothing.  x and y follow over several ticks: they
\* still have what the drive before, or the tick that led, has left in the filter, and
\* with every tick in which the course stays 0.6 of that.
SteersForGoal ==
  LET course == out % Full
  IN /\ (out - (Direction(bearing) + lead)) % Full = 0
     /\ Magnitude(last_x - arm_cos[course]) <= lag
     /\ Magnitude(last_y - arm_sin[course]) <= lag
=============================================================================

------------------------------ MODULE Heading ------------------------------
(***************************************************************************)
(* Which way the car looks.  timer3 (icm.c) adds up the gyro to theta, and  *)
(* timer1's handlers turn the car back to theta = 0 (get_Theta); both       *)
(* timers have 10 ms and take turns.  Handlers are told apart by what they  *)
(* do to z only: Control has what they do to x, y and z, and Steering how   *)
(* go_point finds x and y.                                                  *)
(***************************************************************************)
EXTENDS Angles

CONSTANTS
  MaxRate,    \* bound: the most the gyro says for 10 ms
  Turns       \* bound: what the menu may ask for as z_temp

ASSUME HeadingAssumption == MaxRate \in 0 .. Full /\ Turns \subseteq Int

VARIABLES
  theta, last_gryo_z,     \* icm.c
  z,                      \* motor.c: the turn asked of the wheels
  phase,                  \* what timer1's handler does to z: "menu"; "drive" (go_point); "hold"
                          \* (others that call get_Theta); "stand" (motions 3, 13) and "keep"
                          \* (wait_drop, to_edge after a second '%'): z is left; "end" (motion 4)
  due                     \* the timer that runs next

headingVars == <<theta, last_gryo_z, z, phase, due>>

HeadingInit ==
  /\ theta = 0 /\ last_gryo_z = 0 /\ z = 0 /\ phase = "menu" /\ due = "timer3"

-----------------------------------------------------------------------------
Least(a, b) == IF a < b THEN a ELSE b

restrict_theta(a) == IF a > Full THEN a - Full ELSE a

\* Which side of tar the car looks to is found by trying one.  Mutant: the way is not
\* the shorter one.
Difference(tar, cur) == Magnitude(tar - cur)
Shorter(tar, cur) == Least(Magnitude(tar - cur), Full - Magnitude(tar - cur))
get_Theta(tar, cur) ==
  IF restrict_theta(tar + Shorter(tar, cur)) = theta THEN Shorter(tar, cur) ELSE -Shorter(tar, cur)

\* What the gyro says: of a car that is carried anything, of one that drives a turn
\* against z.
Gyro ==
  IF phase = "menu" THEN -MaxRate .. MaxRate
  ELSE {g \in -MaxRate .. MaxRate : /\ g = 0 <=> z = 0
                                    /\ z >= 0 => g \in -z .. 0
                                    /\ z <= 0 => g \in 0 .. -z}

\* last_gryo_z * 0.4 + realGryo_z * 0.6: between the two, and nearer to the new one.
Filtered(old, new) ==
  {v \in -MaxRate .. MaxRate : /\ Magnitude(v - old) + Magnitude(v - new) = Magnitude(old - new)
                               /\ Magnitude(v - new) <= Magnitude(v - old)}

Wrapped(a) == IF a < 0 THEN a + Full ELSE IF a > Full THEN a - Full ELSE a

icm_read_timer3 ==
  /\ due = "timer3" /\ due' = "timer1"
  /\ \E g \in Gyro : last_gryo_z' \in Filtered(last_gryo_z, g)
  /\ theta' = Wrapped(theta + last_gryo_z')
  /\ UNCHANGED <<z, phase>>

-----------------------------------------------------------------------------
Timer1(p) == due = "timer1" /\ due' = "timer3" /\ phase = p /\ UNCHANGED <<theta, last_gryo_z>>

\* go_point's z.  Under way, or arrived over a place of the three, or at the end of the 200 cm.
Drive ==
  /\ Timer1("drive")
  /\ z' = get_Theta(0, theta)
  /\ phase' \in {"drive", "keep", "end"}

\* Arrived near a picture: x = y = z = 0 after go_point.
DriveArrives ==
  /\ Timer1("drive")
  /\ z' = 0
  /\ phase' = "stand"

\* All places visited: motionControl only sets car.motion = 15.
DriveOver ==
  /\ Timer1("drive") /\ phase' = "hold"
  /\ UNCHANGED z

\* to_pic, protect_back, to_edge, go_in; the first and the last end with z = 0.
Hold ==
  /\ Timer1("hold")
  /\ \/ z' = get_Theta(0, theta) /\ UNCHANGED phase
     \/ z' = 0 /\ phase' \in {"stand", "end"}

Idle ==
  /\ \/ Timer1("menu") /\ UNCHANGED phase
     \/ Timer1("stand") /\ phase' \in {"stand", "drive"}
     \/ Timer1("keep") /\ phase' \in {"keep", "drive"}
  /\ UNCHANGED z

End ==
  /\ Timer1("end") /\ z' = 0
  /\ UNCHANGED phase

motorControl_timer1 == Drive \/ DriveArrives \/ DriveOver \/ Hold \/ Idle \/ End

\* The GUI starts the mission, main the way to a picture or its search, data_t a
\* bar_flag of 2.
Threads ==
  /\ \/ phase = "menu" /\ phase' = "drive"
     \/ phase = "stand" /\ phase' = "hold"
     \/ phase = "hold" /\ phase' = "keep"
  /\ UNCHANGED <<theta, last_gryo_z, z, due>>

\* Run! of the menu, on a drive and under the arm as well.
child3_UI ==
  /\ z' \in Turns
  /\ UNCHANGED <<theta, last_gryo_z, phase, due>>

HeadingNext == icm_read_timer3 \/ motorControl_timer1 \/ Threads \/ child3_UI

HeadingSpec == HeadingInit /\ [][HeadingNext]_headingVars

\* The two timers of the tick never stop (Kernel!TimersFire).
FairHeadingSpec == HeadingSpec /\ WF_headingVars(icm_read_timer3) /\ WF_headingVars(motorControl_timer1)

-----------------------------------------------------------------------------
\* However the car was put down, bumped, turned by Run! or during a drop, at which z is not
\* reset: when timer1 goes on correcting and Run! is let alone, the car looks ahead again
\* and stays so, with the gyro filtered and theta wrapping on the way.
Off == Least(theta, Full - theta)
LooksAheadAgain ==
  <>[](phase \in {"drive", "hold"}) /\ <>[][~child3_UI]_headingVars => <>[](Off = 0)
=============================================================================

------------------------------ MODULE Control ------------------------------
(***************************************************************************)
(* The speed control of the wheels (motorControl_timer1, pid.c), the        *)
(* watchdog (watchDog.c), which it refreshes only while no wheel is at its  *)
(* limit, and Run! of the menu (child3_UI), which writes x, y and z from    *)
(* the GUI thread while the tick of timer1 may come between, and data_t,    *)
(* which clears y when an answer of the arm's camera arrives.               *)
(*                                                                          *)
(* Which handler a tick serves is left open; of a handler this module has   *)
(* what it does to x, y and z (Effects).  Speeds, gains and sums are        *)
(* integers, where the code has floats: 0.8 * sum_i is rounded towards 0.   *)
(***************************************************************************)
EXTENDS Integers

CONSTANTS
  Driven,           \* the wheels that may not turn as asked; the others do
  Kp, Ki, Kd,       \* pid1 .. pid4, here with the same gains
  MaxOut, ClampTo,  \* 10000 and 9999 of pid_cal
  RefreshBelow,     \* 9900 of the watchdog's refresh
  Timeout,          \* ticks of timer1 in the 0.5 s of the watchdog
  DMax, SpeedMax,   \* bounds of a component of a demand and of a measured speed
  Demands           \* bound: what handlers and menu ask for: <<x, y, z>>

Wheel == 1 .. 4
Demand == (-DMax .. DMax) \X (-DMax .. DMax) \X (-DMax .. DMax)
Speed == -SpeedMax .. SpeedMax
EMax == 3 * DMax + SpeedMax      \* the most a wheel can be off
Effects == {"keep", "drive", "hold", "back", "halt"}

ASSUME ControlAssumption ==
  /\ Driven \subseteq Wheel /\ Demands \subseteq Demand
  /\ DMax \in Nat /\ SpeedMax \in Nat /\ 3 * DMax <= SpeedMax
  /\ Kp \in Nat /\ Ki \in Nat /\ Kd \in Nat
  /\ MaxOut \in Nat /\ ClampTo \in 0 .. MaxOut /\ RefreshBelow \in 0 .. ClampTo
  /\ Timeout \in Nat

VARIABLES
  x, y, z,          \* what is asked of the car: forward, sideways, turning
  stands,           \* history: stopped by a handler or a reset, and since then neither
                    \* driven by a handler nor by Run!
  speed,            \* what the encoders of the last tick said
  wanted,           \* target_1 .. target_4 as handed to pid_cal
  sum_i, last_e, out,
  age,              \* ticks since WDOG_Refresh
  gui, temp,        \* Run!: how far child3_UI is, x_temp, y_temp and z_temp
  asked             \* history: x and y when the last tick computed the targets

demand == <<x, y, z>>
pids == <<sum_i, last_e, out>>
tick == <<stands, speed, wanted, pids, age, asked>>
vars == <<demand, tick, gui, temp>>

-----------------------------------------------------------------------------
\* target_1 .. target_4 for d; wheels 3 and 4 are mounted the other way round.
Targets(d) ==
  << d[1] + d[2] + d[3], d[1] - d[2] + d[3], -(d[1] + d[2] - d[3]), -(d[1] - d[2] - d[3]) >>

\* Twice speed_x and speed_y (before the factors for slip).
Measured(s) == << s[2] - s[3], s[1] - s[2] >>

Magnitude(a) == IF a < 0 THEN -a ELSE a

\* More than a tenth too fast: a fifth of the sum is given up.
TooFast(tar, cur) ==
  \/ tar > 0 /\ 10 * (cur - tar) > tar
  \/ tar < 0 /\ 10 * (tar - cur) > -tar
Bleed(s) == IF s < 0 THEN -((4 * (-s)) \div 5) ELSE (4 * s) \div 5

Clamp(o) == IF o > MaxOut THEN ClampTo ELSE IF o < -MaxOut THEN -ClampTo ELSE o

\* Mutant: the sum is not let grow beyond what the watchdog's refresh allows.
SumLimited(sum, tar, cur) ==
  LET next == sum + (tar - cur)
  IN IF Ki * Magnitude(next) + Kp * Magnitude(tar - cur) < RefreshBelow THEN next ELSE sum
SumAfter(sum, tar, cur) ==
  IF TooFast(tar, cur) THEN Bleed(sum + (tar - cur)) ELSE sum + (tar - cur)

pid_cal(sum, last, tar, cur) ==
  Clamp(Kp * (tar - cur) + Ki * SumAfter(sum, tar, cur) + Kd * ((tar - cur) - last))

\* The condition of WDOG_Refresh.  Mutant: one wheel below the limit is enough.
SomeWheelWorks(o) == \E w \in Wheel : Magnitude(o[w]) < RefreshBelow
AllWheelsWork(o) == \A w \in Wheel : Magnitude(o[w]) < RefreshBelow

-----------------------------------------------------------------------------
ZeroWheels == [w \in Wheel |-> 0]

\* flag_init, pid_init and Wdog_init.
Init ==
  /\ x = 0 /\ y = 0 /\ z = 0 /\ stands = TRUE /\ asked = <<0, 0>>
  /\ speed = ZeroWheels /\ wanted = ZeroWheels
  /\ sum_i = ZeroWheels /\ last_e = ZeroWheels /\ out = ZeroWheels
  /\ age = 0 /\ gui = 0 /\ temp = <<0, 0, 0>>

\* What a tick makes of the demand.  Most handlers drive the car or stop it.  Motions 0
\* and 3, wait_get and to_edge after a second '%' write none of the three and motionControl
\* none when every place has been visited; wait_drop clears x and y; protect_back writes y
\* and z only on the tick on which it turns round.
Handler(e, d) ==
  CASE e = "keep"  -> <<x, y, z>>
    [] e = "drive" -> d
    [] e = "hold"  -> <<0, 0, z>>
    [] e = "back"  -> <<x, 0, d[3]>>
    [] e = "halt"  -> <<0, 0, 0>>

\* The demand the targets are computed from.  Mutant: the one before the handler.
DemandBefore(e, d) == <<x, y, z>>
DemandAfter(e, d) == Handler(e, d)

StandsAfter(e) ==
  \/ e = "halt" /\ gui = 0
  \/ e \in {"keep", "hold"} /\ stands

\* motorControl_timer1: e, d and s are what the car is about and what the encoders say.
motorControl_timer1(e, d, s) ==
  /\ age < Timeout
  /\ stands' = StandsAfter(e)
  /\ x' = Handler(e, d)[1] /\ y' = Handler(e, d)[2] /\ z' = Handler(e, d)[3]
  /\ wanted' = Targets(DemandAfter(e, d))
  /\ asked' = <<DemandAfter(e, d)[1], DemandAfter(e, d)[2]>>
  /\ speed' = [w \in Wheel |-> IF w \in Driven THEN s[w] ELSE wanted'[w]]
  /\ sum_i' = [w \in Wheel |-> SumAfter(sum_i[w], wanted'[w], speed'[w])]
  /\ last_e' = [w \in Wheel |-> wanted'[w] - speed'[w]]
  /\ out' = [w \in Wheel |-> pid_cal(sum_i[w], last_e[w], wanted'[w], speed'[w])]
  /\ age' = IF AllWheelsWork(out') THEN 0 ELSE age + 1
  /\ UNCHANGED <<gui, temp>>

Tick ==
  \E e \in Effects, s \in [Driven -> Speed] :
    \E d \in IF e \in {"drive", "back"} THEN Demands ELSE {<<0, 0, 0>>} :
      motorControl_timer1(e, d, s)

\* Half a second without a refresh: the chip resets and starts over in Init.
WatchdogResets ==
  /\ age = Timeout /\ age' = 0
  /\ x' = 0 /\ y' = 0 /\ z' = 0 /\ stands' = TRUE /\ asked' = <<0, 0>>
  /\ speed' = ZeroWheels /\ wanted' = ZeroWheels
  /\ sum_i' = ZeroWheels /\ last_e' = ZeroWheels /\ out' = ZeroWheels
  /\ gui' = 0 /\ temp' = <<0, 0, 0>>

\* child3_UI at Run!: x, y and z are three assignments.
child3_Run(d) ==
  /\ gui = 0 /\ gui' = 1
  /\ temp' = d /\ stands' = FALSE
  /\ UNCHANGED <<demand, speed, wanted, pids, age, asked>>

child3_Set ==
  /\ gui > 0
  /\ CASE gui = 1 -> x' = temp[1] /\ UNCHANGED <<y, z>>
       [] gui = 2 -> y' = temp[2] /\ UNCHANGED <<x, z>>
       [] gui = 3 -> z' = temp[3] /\ UNCHANGED <<x, y>>
  /\ gui' = (gui + 1) % 4
  /\ UNCHANGED <<tick, temp>>

Menu == child3_Set \/ \E d \in Demands : child3_Run(d)

\* data_t at the answer of the arm's camera: "y = 0".
data_analysis ==
  /\ y' = 0
  /\ UNCHANGED <<x, z, tick, gui, temp>>

Next == Tick \/ WatchdogResets \/ Menu \/ data_analysis

Spec == Init /\ [][Next]_vars

\* The kernel's ticks and timers never stop (Kernel!TimersFire), nor does the watchdog.
FairSpec == Spec /\ WF_vars(Tick) /\ WF_vars(WatchdogResets)

-----------------------------------------------------------------------------
TypeOK ==
  /\ stands \in BOOLEAN
  /\ x \in -DMax .. DMax /\ y \in -DMax .. DMax /\ z \in -DMax .. DMax
  /\ speed \in [Wheel -> Speed] /\ wanted \in [Wheel -> -(3 * DMax) .. 3 * DMax]
  /\ sum_i \in [Wheel -> Int] /\ last_e \in [Wheel -> -EMax .. EMax]
  /\ out \in [Wheel -> -MaxOut .. MaxOut]       \* the duty pwm_duty can take
  /\ age \in 0 .. Timeout /\ gui \in 0 .. 3 /\ temp \in Demand
  /\ asked \in (-DMax .. DMax) \X (-DMax .. DMax)

\* sum_i has no limit of its own.  What bounds it is the watchdog: a sum that asks for
\* more than the refresh allows grows for at most half a second.
SumBound(a) == RefreshBelow + Kp * EMax + Kd * (2 * EMax) + Ki * (a * EMax)
WindupBounded == \A w \in Wheel : Ki * Magnitude(sum_i[w]) <= SumBound(age)

\* A car that a handler has stopped is asked for no turn of any wheel, through the ticks of
\* the handlers that write less than x, y and z and through data_t's y = 0, until Run! is
\* pressed or a handler drives.  Run! wins in motions 0, 3, 13 and 15, and its turn in 14.
\* A car stopped while child3_UI is between its assignments does not stay so: what is left
\* of Run! moves it again.
StandsUntilRun == stands => wanted = Targets(<<0, 0, 0>>)

\* Dead reckoning and drive agree on the wheels' directions: wheels that turn as asked are
\* measured as the x and y that were asked for, however the car turns at the same time.
OdometryAgrees == speed = wanted => Measured(speed) = <<2 * asked[1], 2 * asked[2]>>

\* A wheel that is held while it should turn one way is not pushed for ever: the sum
\* reaches the limit, the refresh stops and the chip resets.  (With a target of 0
\* the sum stays and the wheel may be pushed for ever.)
BlockedResets ==
  \A w \in Driven :
    /\ ~<>[](speed[w] = 0 /\ wanted[w] > 0)
    /\ ~<>[](speed[w] = 0 /\ wanted[w] < 0)
=============================================================================

--------------------------- MODULE ControlProofs ---------------------------
(***************************************************************************)
(* Control for every gain, limit, bound and set of wheels.  The sums are    *)
(* bounded by an argument about one wheel: a tick that refreshes the        *)
(* watchdog shows that the controller asked for less than the limit, which  *)
(* bounds the sum whatever it was before; any other tick adds at most EMax  *)
(* and makes the watchdog's age one more.                                   *)
(***************************************************************************)
EXTENDS Control, TLAPS

\* A natural factor keeps an order.
LEMMA ProductMonotone ==
  ASSUME NEW a \in Nat, NEW b \in Int, NEW c \in Int, b <= c
  PROVE  a * b <= a * c
<1>1. a * (c - b) >= 0
  BY SMT
<1>2. a * (c - b) = a * c - a * b
  BY SMT
<1> QED BY <1>1, <1>2, SMT

\* What a factor makes of a bounded number.
LEMMA ProductBounded ==
  ASSUME NEW a \in Nat, NEW b \in Int, NEW c \in Nat, b \in -c .. c
  PROVE  a * b \in -(a * c) .. a * c
<1>1. a * b <= a * c
  BY ProductMonotone
<1>2. a * (-c) <= a * b
  BY ProductMonotone
<1>3. a * (-c) = -(a * c)
  BY SMT
<1> QED BY <1>1, <1>2, <1>3, SMT

LEMMA MagnitudeOfProduct ==
  ASSUME NEW a \in Nat, NEW b \in Int
  PROVE  a * Magnitude(b) = Magnitude(a * b)
<1>1. CASE b < 0
  <2>1. a * b <= a * 0
    BY <1>1, ProductMonotone
  <2>2. a * (-b) = -(a * b)
    BY SMT
  <2> QED BY <1>1, <2>1, <2>2, SMT DEF Magnitude
<1>2. CASE ~(b < 0)
  <2>1. a * 0 <= a * b
    BY <1>2, ProductMonotone
  <2> QED BY <1>2, <2>1, SMT DEF Magnitude
<1> QED BY <1>1, <1>2

\* Giving up a fifth of the sum does not make it larger.
LEMMA BleedShrinks ==
  ASSUME NEW s \in Int
  PROVE  Bleed(s) \in Int /\ Magnitude(Bleed(s)) <= Magnitude(s)
  BY SMT DEF Bleed, Magnitude

\* A tick changes a sum by at most what the wheel is off.
LEMMA SumGrowsSlowly ==
  ASSUME NEW sum \in Int, NEW tar \in Int, NEW cur \in Int, NEW m \in Nat, tar - cur \in -m .. m
  PROVE  /\ SumAfter(sum, tar, cur) \in Int
         /\ Magnitude(SumAfter(sum, tar, cur)) <= Magnitude(sum) + m
<1> DEFINE next == sum + (tar - cur)
<1>1. next \in Int /\ Magnitude(next) <= Magnitude(sum) + m
  BY SMT DEF Magnitude
<1>2. Bleed(next) \in Int /\ Magnitude(Bleed(next)) <= Magnitude(next)
  BY <1>1, BleedShrinks
<1>3. Magnitude(Bleed(next)) \in Int /\ Magnitude(next) \in Int /\ Magnitude(sum) \in Int
  BY <1>1, <1>2, SMT DEF Magnitude
<1>4. SumAfter(sum, tar, cur) = Bleed(next) \/ SumAfter(sum, tar, cur) = next
  BY DEF SumAfter
<1> HIDE DEF next
<1> QED BY <1>1, <1>2, <1>3, <1>4, SMT

\* The limit keeps out within the duty, and does not hide from the watchdog what was
\* beyond it.
LEMMA ClampKeeps ==
  ASSUME NEW o \in Int
  PROVE  /\ Clamp(o) \in -MaxOut .. MaxOut
         /\ Magnitude(Clamp(o)) < RefreshBelow => Magnitude(o) < RefreshBelow
  BY ControlAssumption, SMT DEF Clamp, Magnitude

-----------------------------------------------------------------------------
\* The two cases of one wheel in one tick.
LEMMA RefreshBoundsSum ==
  ASSUME NEW sum \in Int, NEW last \in -EMax .. EMax, NEW tar \in Int, NEW cur \in Int,
         tar - cur \in -EMax .. EMax,
         Magnitude(pid_cal(sum, last, tar, cur)) < RefreshBelow
  PROVE  Ki * Magnitude(SumAfter(sum, tar, cur)) <= SumBound(0)
<1> DEFINE S == SumAfter(sum, tar, cur)
           e == tar - cur
           P == Kp * e
           I == Ki * S
           D == Kd * (e - last)
<1>1. EMax \in Nat /\ Kp \in Nat /\ Ki \in Nat /\ Kd \in Nat /\ RefreshBelow \in Nat
  BY ControlAssumption, SMT DEF EMax
<1>2. S \in Int /\ e \in Int /\ e - last \in -(2 * EMax) .. 2 * EMax
  <2>1. S \in Int
    BY <1>1, SumGrowsSlowly
  <2>2. e \in -EMax .. EMax
    OBVIOUS
  <2> HIDE DEF S, e, EMax
  <2> QED BY <1>1, <2>1, <2>2, SMT
<1>3. P \in -(Kp * EMax) .. Kp * EMax /\ P \in Int
  BY <1>1, <1>2, ProductBounded
<1>4. D \in -(Kd * (2 * EMax)) .. Kd * (2 * EMax) /\ D \in Int
  <2>1. 2 * EMax \in Nat
    BY <1>1, SMT
  <2> QED BY <1>1, <1>2, <2>1, ProductBounded
<1>5. I \in Int
  BY <1>1, <1>2, SMT
<1>6. Magnitude(P + I + D) < RefreshBelow
  <2>1. P + I + D \in Int
    BY <1>3, <1>4, <1>5, SMT
  <2>2. pid_cal(sum, last, tar, cur) = Clamp(P + I + D)
    BY DEF pid_cal
  <2> QED BY <2>1, <2>2, ClampKeeps
<1>7. Kp * EMax \in Int /\ Kd * (2 * EMax) \in Int
  BY <1>1, SMT
<1>8. Magnitude(I) <= RefreshBelow + Kp * EMax + Kd * (2 * EMax)
  <2> HIDE DEF P, I, D, EMax
  <2> QED BY <1>1, <1>3, <1>4, <1>5, <1>6, <1>7, SMT DEF Magnitude
<1>9. Ki * Magnitude(S) = Magnitude(I)
  BY <1>1, <1>2, MagnitudeOfProduct
<1>10. SumBound(0) = RefreshBelow + Kp * EMax + Kd * (2 * EMax)
  <2>1. Ki * (0 * EMax) = 0
    BY <1>1, SMT
  <2> QED BY <1>1, <1>7, <2>1, SMT DEF SumBound
<1> QED BY <1>8, <1>9, <1>10

LEMMA LimitBoundsSum ==
  ASSUME NEW sum \in Int, NEW tar \in Int, NEW cur \in Int, NEW a \in Nat,
         tar - cur \in -EMax .. EMax, Ki * Magnitude(sum) <= SumBound(a)
  PROVE  Ki * Magnitude(SumAfter(sum, tar, cur)) <= SumBound(a + 1)
<1> DEFINE S == Magnitude(SumAfter(sum, tar, cur))
           M == Magnitude(sum)
<1>1. EMax \in Nat /\ Kp \in Nat /\ Ki \in Nat /\ Kd \in Nat /\ RefreshBelow \in Nat
  BY ControlAssumption, SMT DEF EMax
<1>2. S \in Int /\ M \in Int /\ S <= M + EMax
  BY <1>1, SumGrowsSlowly, SMT DEF Magnitude
<1>3. Ki * S <= Ki * (M + EMax)
  <2> HIDE DEF S, M
  <2> QED BY <1>1, <1>2, ProductMonotone, SMT
<1>4. Ki * (M + EMax) = Ki * M + Ki * EMax
  <2> HIDE DEF M, EMax
  <2> QED BY <1>1, <1>2, SMT
<1>5. Ki * ((a + 1) * EMax) = Ki * (a * EMax) + Ki * EMax
  <2>1. (a + 1) * EMax = a * EMax + EMax /\ a * EMax \in Int
    BY <1>1, SMT
  <2> DEFINE b == a * EMax
  <2>2. Ki * (b + EMax) = Ki * b + Ki * EMax
    <3>1. b \in Int
      BY <2>1
    <3> HIDE DEF b, EMax
    <3> QED BY <1>1, <3>1, SMT
  <2> QED BY <2>1, <2>2
<1>6. SumBound(a + 1) = SumBound(a) + Ki * EMax
  <2> DEFINE p == RefreshBelow + Kp * EMax + Kd * (2 * EMax)
             q == Ki * (a * EMax)
             r == Ki * EMax
  <2>1. p \in Int /\ q \in Int /\ r \in Int
    BY <1>1, SMT
  <2>2. SumBound(a) = p + q /\ SumBound(a + 1) = p + (q + r)
    BY <1>5 DEF SumBound
  <2> HIDE DEF p, q, r
  <2>3. p + (q + r) = (p + q) + r
    BY <2>1, SMT
  <2> QED BY <2>2, <2>3 DEF r
<1>7. Ki * S \in Int /\ Ki * M \in Int /\ Ki * EMax \in Int /\ SumBound(a) \in Int
  BY <1>1, <1>2, SMT DEF SumBound
<1> HIDE DEF S, M, EMax
<1>8. Ki * M <= SumBound(a)
  BY DEF M
<1>9. Ki * S <= SumBound(a) + Ki * EMax
  BY <1>3, <1>4, <1>7, <1>8, SMT
<1> QED BY <1>6, <1>9 DEF S

-----------------------------------------------------------------------------
LEMMA BoundsFit ==
  /\ EMax \in Nat /\ DMax \in Nat /\ SpeedMax \in Nat /\ 3 * DMax <= SpeedMax
  /\ Timeout \in Nat /\ Driven \subseteq Wheel
  /\ \A w \in -(3 * DMax) .. 3 * DMax : w \in Speed /\ w \in Int
  /\ \A w \in -(3 * DMax) .. 3 * DMax, c \in Speed : w - c \in -EMax .. EMax
  BY ControlAssumption, SMT DEF EMax, Speed

LEMMA TargetsTyped ==
  ASSUME NEW d \in Demand
  PROVE  Targets(d) \in [Wheel -> -(3 * DMax) .. 3 * DMax]
<1>1. d[1] \in -DMax .. DMax /\ d[2] \in -DMax .. DMax /\ d[3] \in -DMax .. DMax
  BY DEF Demand
<1>2. /\ d[1] + d[2] + d[3] \in -(3 * DMax) .. 3 * DMax
      /\ d[1] - d[2] + d[3] \in -(3 * DMax) .. 3 * DMax
      /\ -(d[1] + d[2] - d[3]) \in -(3 * DMax) .. 3 * DMax
      /\ -(d[1] - d[2] - d[3]) \in -(3 * DMax) .. 3 * DMax
  <2> DEFINE a == d[1]  b == d[2]  c == d[3]
  <2>1. /\ DMax \in Nat
        /\ a \in -DMax .. DMax /\ b \in -DMax .. DMax /\ c \in -DMax .. DMax
    BY <1>1, BoundsFit
  <2> HIDE DEF a, b, c
  <2>2. /\ a + b + c \in -(3 * DMax) .. 3 * DMax
        /\ a - b + c \in -(3 * DMax) .. 3 * DMax
        /\ -(a + b - c) \in -(3 * DMax) .. 3 * DMax
        /\ -(a - b - c) \in -(3 * DMax) .. 3 * DMax
    BY <2>1, SMT
  <2> QED BY <2>2 DEF a, b, c
<1> QED BY <1>2, SMT DEF Targets, Wheel

\* Every wheel runs as its target says: the car moves as its demand says.
LEMMA OdometryInvertsTargets ==
  ASSUME NEW d \in Demand
  PROVE  Measured(Targets(d)) = <<2 * d[1], 2 * d[2]>>
<1>1. d[1] \in Int /\ d[2] \in Int /\ d[3] \in Int
  BY DEF Demand
<1>2. /\ Targets(d)[1] = d[1] + d[2] + d[3]
      /\ Targets(d)[2] = d[1] - d[2] + d[3]
      /\ Targets(d)[3] = -(d[1] + d[2] - d[3])
  BY DEF Targets
<1>3. /\ (d[1] - d[2] + d[3]) - (-(d[1] + d[2] - d[3])) = 2 * d[1]
      /\ (d[1] + d[2] + d[3]) - (d[1] - d[2] + d[3]) = 2 * d[2]
  BY <1>1, SMT
<1> QED BY <1>2, <1>3 DEF Measured

\* wanted is the targets of the demand that asked shows.
Faithful == \E d \in Demand : wanted = Targets(d) /\ asked = <<d[1], d[2]>>

\* A stopped car is asked for nothing, and Run! has nothing left to write.
AtRest == stands => /\ x = 0 /\ y = 0 /\ z = 0 /\ gui = 0
                    /\ wanted = Targets(<<0, 0, 0>>)

IInv == TypeOK /\ WindupBounded /\ AtRest /\ Faithful

LEMMA InitIInv == Init => IInv
<1> SUFFICES ASSUME Init PROVE IInv
  OBVIOUS
<1>1. Targets(<<0, 0, 0>>) = ZeroWheels /\ <<0, 0, 0>> \in Demand
  BY BoundsFit, SMT DEF Targets, ZeroWheels, Wheel, Demand
<1>2. TypeOK
  BY BoundsFit, ControlAssumption, SMT DEF Init, TypeOK, ZeroWheels, Speed, Demand
<1>3. WindupBounded
  <2>1. SumBound(0) >= 0
    <3>1. RefreshBelow \in Nat /\ Kp \in Nat /\ Kd \in Nat /\ Ki \in Nat /\ EMax \in Nat
      BY ControlAssumption, BoundsFit
    <3>2. Kp * EMax >= 0 /\ Kd * (2 * EMax) >= 0 /\ Ki * (0 * EMax) = 0
      BY <3>1, SMT
    <3>3. Kp * EMax \in Int /\ Kd * (2 * EMax) \in Int
      BY <3>1, SMT
    <3> QED BY <3>1, <3>2, <3>3, SMT DEF SumBound
  <2>2. \A w \in Wheel : Ki * Magnitude(sum_i[w]) = 0
    BY ControlAssumption, SMT DEF Init, ZeroWheels, Magnitude
  <2> QED BY <2>1, <2>2 DEF WindupBounded, Init
<1>4. AtRest
  BY <1>1 DEF Init, AtRest
<1>5. Faithful
  BY <1>1 DEF Init, Faithful
<1> QED BY <1>2, <1>3, <1>4, <1>5 DEF IInv

-----------------------------------------------------------------------------
LEMMA TickIInv ==
  ASSUME IInv, NEW e \in Effects, NEW d \in Demand, NEW s \in [Driven -> Speed],
         motorControl_timer1(e, d, s)
  PROVE  IInv'
<1> DEFINE h == Handler(e, d)
<1>1. h \in Demand /\ x' = h[1] /\ y' = h[2] /\ z' = h[3]
  BY BoundsFit, SMT DEF motorControl_timer1, Handler, Effects, Demand, IInv, TypeOK
<1>2. wanted' = Targets(h) /\ asked' = <<h[1], h[2]>>
  BY DEF motorControl_timer1, DemandAfter
<1>3. wanted' \in [Wheel -> -(3 * DMax) .. 3 * DMax]
  BY <1>1, <1>2, TargetsTyped
<1>4. speed' \in [Wheel -> Speed]
  BY <1>3, BoundsFit DEF motorControl_timer1
<1>5. \A w \in Wheel : /\ wanted'[w] \in Int /\ speed'[w] \in Int
                       /\ wanted'[w] - speed'[w] \in -EMax .. EMax
  <2> SUFFICES ASSUME NEW w \in Wheel
               PROVE  /\ wanted'[w] \in Int /\ speed'[w] \in Int
                      /\ wanted'[w] - speed'[w] \in -EMax .. EMax
    OBVIOUS
  <2>1. wanted'[w] \in -(3 * DMax) .. 3 * DMax /\ speed'[w] \in Speed
    BY <1>3, <1>4
  <2>2. wanted'[w] \in Int /\ speed'[w] \in Int
    BY <2>1, BoundsFit, SMT DEF Speed
  <2>3. wanted'[w] - speed'[w] \in -EMax .. EMax
    BY <2>1, BoundsFit
  <2> QED BY <2>2, <2>3
<1>6. last_e' \in [Wheel -> -EMax .. EMax]
  BY <1>5 DEF motorControl_timer1
<1>7. sum_i' \in [Wheel -> Int]
  BY <1>5, BoundsFit, SumGrowsSlowly DEF motorControl_timer1, IInv, TypeOK
<1>8. out' \in [Wheel -> -MaxOut .. MaxOut]
  <2> SUFFICES ASSUME NEW w \in Wheel
               PROVE  pid_cal(sum_i[w], last_e[w], wanted'[w], speed'[w]) \in -MaxOut .. MaxOut
    BY DEF motorControl_timer1
  <2> DEFINE off == wanted'[w] - speed'[w]
             S == SumAfter(sum_i[w], wanted'[w], speed'[w])
  <2>1. off \in Int /\ S \in Int /\ last_e[w] \in Int /\ Kp \in Int /\ Ki \in Int /\ Kd \in Int
    BY <1>5, <1>7, ControlAssumption DEF motorControl_timer1, IInv, TypeOK
  <2>2. Kp * off + Ki * S + Kd * (off - last_e[w]) \in Int
    <3> HIDE DEF off, S
    <3> QED BY <2>1, SMT
  <2> QED BY <2>2, ClampKeeps DEF pid_cal
<1>9. age' \in 0 .. Timeout
  BY BoundsFit, SMT DEF motorControl_timer1, IInv, TypeOK
<1>10. TypeOK'
  <2>1. stands' \in BOOLEAN
    BY DEF motorControl_timer1, StandsAfter, IInv, TypeOK
  <2> QED BY <1>1, <1>2, <1>3, <1>4, <1>6, <1>7, <1>8, <1>9, <2>1, SMT
          DEF motorControl_timer1, IInv, TypeOK, Demand
<1>11. WindupBounded'
  <2> SUFFICES ASSUME NEW w \in Wheel
               PROVE  Ki * Magnitude(sum_i'[w]) <= SumBound(age')
    BY DEF WindupBounded
  <2>1. /\ sum_i[w] \in Int /\ last_e[w] \in -EMax .. EMax /\ age \in Nat
        /\ Ki * Magnitude(sum_i[w]) <= SumBound(age)
    BY DEF IInv, TypeOK, WindupBounded
  <2>2. /\ sum_i'[w] = SumAfter(sum_i[w], wanted'[w], speed'[w])
        /\ out'[w] = pid_cal(sum_i[w], last_e[w], wanted'[w], speed'[w])
    BY DEF motorControl_timer1
  <2>3. CASE AllWheelsWork(out')
    <3>1. Magnitude(out'[w]) < RefreshBelow /\ age' = 0
      BY <2>3 DEF AllWheelsWork, motorControl_timer1
    <3> QED BY <1>5, <2>1, <2>2, <3>1, RefreshBoundsSum
  <2>4. CASE ~AllWheelsWork(out')
    <3>1. age' = age + 1
      BY <2>4 DEF motorControl_timer1
    <3> QED BY <1>5, <2>1, <2>2, <3>1, LimitBoundsSum
  <2> QED BY <2>3, <2>4
<1>12. AtRest'
  <2> SUFFICES ASSUME stands' PROVE x' = 0 /\ y' = 0 /\ z' = 0 /\ gui' = 0 /\ wanted' = Targets(<<0, 0, 0>>)
    BY DEF AtRest
  <2>1. StandsAfter(e)
    BY DEF motorControl_timer1
  <2>2. h = <<0, 0, 0>> /\ gui = 0
    <3>1. CASE e = "halt"
      BY <2>1, <3>1 DEF StandsAfter, Handler
    <3>2. CASE e \in {"keep", "hold"} /\ stands
      BY <3>2 DEF Handler, IInv, AtRest
    <3> QED BY <2>1, <3>1, <3>2 DEF StandsAfter
  <2> QED BY <1>1, <1>2, <2>2 DEF motorControl_timer1
<1>13. Faithful'
  BY <1>1, <1>2 DEF Faithful
<1> QED BY <1>10, <1>11, <1>12, <1>13 DEF IInv

\* The menu writes x, y and z; what the last tick made of them stays.
LEMMA MenuIInv ==
  ASSUME IInv, Menu
  PROVE  IInv'
<1>1. UNCHANGED <<speed, wanted, pids, age, asked>> /\ stands' \in BOOLEAN
  BY DEF Menu, child3_Run, child3_Set, tick, IInv, TypeOK
<1>2. TypeOK'
  <2>1. CASE child3_Set
    <3>1. /\ temp[1] \in -DMax .. DMax /\ temp[2] \in -DMax .. DMax /\ temp[3] \in -DMax .. DMax
          /\ gui \in 0 .. 3 /\ gui > 0
      BY <2>1 DEF child3_Set, IInv, TypeOK, Demand
    <3>2. gui' \in 0 .. 3
      BY <2>1, <3>1, SMT DEF child3_Set
    <3>3. x' \in -DMax .. DMax /\ y' \in -DMax .. DMax /\ z' \in -DMax .. DMax
      <4>1. gui = 1 \/ gui = 2 \/ gui = 3
        BY <3>1, SMT
      <4>2. x \in -DMax .. DMax /\ y \in -DMax .. DMax /\ z \in -DMax .. DMax
        BY DEF IInv, TypeOK
      <4>3. CASE gui = 1
        BY <2>1, <3>1, <4>2, <4>3, SMT DEF child3_Set
      <4>4. CASE gui = 2
        BY <2>1, <3>1, <4>2, <4>4, SMT DEF child3_Set
      <4>5. CASE gui = 3
        BY <2>1, <3>1, <4>2, <4>5, SMT DEF child3_Set
      <4> QED BY <4>1, <4>3, <4>4, <4>5
    <3> QED BY <1>1, <2>1, <3>2, <3>3 DEF pids, child3_Set, IInv, TypeOK
  <2>2. ASSUME NEW d \in Demands, child3_Run(d) PROVE TypeOK'
    <3>1. d \in Demand
      BY ControlAssumption
    <3>2. gui' \in 0 .. 3
      BY <2>2, SMT DEF child3_Run
    <3> QED BY <1>1, <2>2, <3>1, <3>2 DEF pids, demand, child3_Run, IInv, TypeOK
  <2> QED BY <2>1, <2>2 DEF Menu
<1>3. WindupBounded' /\ Faithful'
  BY <1>1 DEF pids, IInv, WindupBounded, Faithful
<1>4. AtRest'
  <2>1. CASE child3_Set
    <3>1. gui # 0 /\ stands' = stands
      BY <2>1, SMT DEF child3_Set, tick, IInv, TypeOK
    <3> QED BY <3>1 DEF IInv, AtRest
  <2>2. ASSUME NEW d \in Demands, child3_Run(d) PROVE AtRest'
    BY <2>2 DEF child3_Run, AtRest
  <2> QED BY <2>1, <2>2 DEF Menu
<1> QED BY <1>2, <1>3, <1>4 DEF IInv

\* data_t takes y away; a car at rest has none.
LEMMA DataIInv ==
  ASSUME IInv, data_analysis
  PROVE  IInv'
<1>1. UNCHANGED <<x, z, tick, gui, temp>> /\ y' = 0
  BY DEF data_analysis
<1>2. TypeOK'
  <2>1. 0 \in -DMax .. DMax
    BY BoundsFit, SMT
  <2> QED BY <1>1, <2>1 DEF tick, pids, IInv, TypeOK
<1>3. WindupBounded' /\ AtRest' /\ Faithful'
  BY <1>1 DEF tick, pids, IInv, WindupBounded, AtRest, Faithful
<1> QED BY <1>2, <1>3 DEF IInv

LEMMA NextIInv == IInv /\ [Next]_vars => IInv'
<1> SUFFICES ASSUME IInv, [Next]_vars PROVE IInv'
  OBVIOUS
<1>1. CASE Tick
  <2>1. PICK e \in Effects, s \in [Driven -> Speed] :
          \E d \in IF e \in {"drive", "back"} THEN Demands ELSE {<<0, 0, 0>>} :
            motorControl_timer1(e, d, s)
    BY <1>1 DEF Tick
  <2>2. PICK d \in IF e \in {"drive", "back"} THEN Demands ELSE {<<0, 0, 0>>} :
          motorControl_timer1(e, d, s)
    BY <2>1
  <2>3. <<0, 0, 0>> \in Demand
    BY BoundsFit, SMT DEF Demand
  <2>4. d \in Demand
    BY <2>3, ControlAssumption
  <2> QED BY <2>2, <2>4, TickIInv
<1>2. CASE WatchdogResets
  <2>1. Init'
    BY <1>2 DEF WatchdogResets, Init
  <2>2. (Init => IInv)'
    BY InitIInv, PTL
  <2> QED BY <2>1, <2>2
<1>3. CASE Menu
  BY <1>3, MenuIInv
<1>4. CASE data_analysis
  BY <1>4, DataIInv
<1>5. CASE UNCHANGED vars
  BY <1>5 DEF vars, demand, tick, pids, IInv, TypeOK, WindupBounded, AtRest, Faithful
<1> QED BY <1>1, <1>2, <1>3, <1>4, <1>5 DEF Next

LEMMA InvariantHolds == Spec => []IInv
  BY InitIInv, NextIInv, PTL DEF Spec

-----------------------------------------------------------------------------
\* No duty beyond what pwm_duty takes, no demand or speed out of range.
THEOREM TypeCorrect == Spec => []TypeOK
  BY InvariantHolds, PTL DEF IInv

\* The watchdog bounds every integral, whatever the wheels do and is asked of them.
THEOREM WindupCorrect == Spec => []WindupBounded
  BY InvariantHolds, PTL DEF IInv

\* A car that a handler has stopped stands until Run! is pressed or a handler drives.
THEOREM StandingStays == Spec => []StandsUntilRun
<1>1. IInv => StandsUntilRun
  BY DEF IInv, AtRest, StandsUntilRun
<1> QED BY <1>1, InvariantHolds, PTL

\* Wheels that turn as asked are measured as what was asked for.
THEOREM OdometryCorrect == Spec => []OdometryAgrees
<1>1. IInv => OdometryAgrees
  BY OdometryInvertsTargets DEF IInv, Faithful, OdometryAgrees
<1> QED BY <1>1, InvariantHolds, PTL
=============================================================================

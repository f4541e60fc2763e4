------------------------------ MODULE Mission ------------------------------
(***************************************************************************)
(* The mission: who moves the car, its arm and its list of places, and the  *)
(* flags of the global record car by which they hand over to each other.    *)
(*                                                                          *)
(*   timer1  motorControl_timer1, every 10 ms in the tick interrupt         *)
(*   servo   servo_ctrl, priority 9          main  main.c, priority 10      *)
(*   data    data_analysis, priority 26      gui   ips_mb_recv, 31          *)
(*                                                                          *)
(* timer1 preempts every thread anywhere, so a thread's action ends where   *)
(* it touches a flag timer1 touches; a thread runs only while those above   *)
(* it sleep.  Lengths and angles are abstracted to "near or not", a picture *)
(* to its number, OpenART frames to their meaning (module Uart8 has their   *)
(* bytes).  History: here, held, bins, delivered.                           *)
(***************************************************************************)
EXTENDS Naturals, Sequences, Functions

CONSTANTS
  PicNum,      \* pic_num, 13 in ips_refresh.c
  Repeats,     \* bound: frames data_t acts on once more (Uart8!AtMostTwice)
  MayLose,     \* whether a camera's answer may be lost on the line
  Layouts      \* the byte behind '#': "A", which data_t wants, "X", which its comment has

ASSUME MissionAssumption ==
  /\ PicNum \in Nat \ {0} /\ Repeats \in Nat /\ MayLose \in BOOLEAN
  /\ Layouts \subseteq {"A", "X"} /\ Layouts # {}

Pictures == 0 .. PicNum - 1
Start == PicNum                    \* index n - 1 = pic_num in ACO_to_first
Depot(tag) == PicNum + 1 + tag     \* tag 0 animals, 1 traffic, 2 fruit
Road == PicNum + 4
Places == 0 .. Road
Indices == 0 .. PicNum + 2 + Repeats   \* the part of px[], clas[] in use

VARIABLES
  sequencer,   \* the build: TRUE with motionPlanning.c:37-72, FALSE as committed
  truth,       \* the world: class of each picture
  motion, target_cnt, moving, turning, here,           \* timer1, the wheels
  pic_flag, is_pic, pic_stop, bar_flag,                \* car.*
  put_flag, pick_flag, uart_flag, servo_flag, servo_flag_ctrl, drop_flag,
  drop_tail_flag,
  main, main_flag, main_ticked,                        \* main.c and its static
  servo, job, ticked, held, bins, delivered,           \* servo_ctrl
  gui,
  path, path_clk, lsttt, lstttt, n, px, clas,          \* aco.c
  asked, lost, mail, data, edge_flag, repeats          \* OpenART, data_t

world  == <<sequencer, truth>>
wheels == <<moving, turning, here>>
search == <<pic_flag, is_pic, pic_stop>>
hand   == <<put_flag, pick_flag, uart_flag, servo_flag_ctrl, drop_flag, drop_tail_flag>>
mainv  == <<main, main_flag>>
times  == <<ticked, main_ticked>>      \* timer1 ran since servo, main fell asleep
load   == <<held, bins, delivered>>
arm    == <<servo, job, load>>
route  == <<path, path_clk, lsttt, lstttt, n, px>>
frames == <<lost, mail, data, edge_flag, repeats>>
vars == <<world, motion, target_cnt, wheels, search, bar_flag, hand, servo_flag, mainv,
          arm, times, gui, route, clas, asked, frames>>

-----------------------------------------------------------------------------
\* After main's start-up, whose last call motor_init ends in flag_init; no thread
\* below main ran before it, because main does not block after IPS_INIT.
Init ==
  /\ sequencer \in BOOLEAN
  /\ truth \in [Pictures -> 0 .. 2]
  /\ motion = 0 /\ target_cnt = 0
  /\ moving = FALSE /\ turning = FALSE /\ here = Road
  /\ pic_flag = FALSE /\ is_pic = FALSE /\ pic_stop = FALSE /\ bar_flag = 0
  /\ put_flag = TRUE /\ pick_flag = FALSE /\ uart_flag = FALSE
  /\ servo_flag = 0 /\ servo_flag_ctrl = FALSE
  /\ drop_flag = FALSE /\ drop_tail_flag = FALSE
  /\ main = "loop" /\ main_flag = FALSE /\ main_ticked = TRUE
  /\ servo = "sleep" /\ job = 0 /\ ticked = FALSE
  /\ held = {} /\ bins = [b \in 1 .. 3 |-> {}] /\ delivered = [tag \in 0 .. 2 |-> {}]
  /\ gui = "off"
  /\ path = [k \in 0 .. PicNum |-> 0] /\ path_clk = 1
  /\ lsttt = 0 /\ lstttt = 0 /\ n = 0
  /\ px = [k \in Indices |-> Start] /\ clas = [k \in Indices |-> 0]
  /\ asked = "no" /\ lost = FALSE /\ mail = << >> /\ data = "recv" /\ edge_flag = FALSE
  /\ repeats = 0

\* The places where a thread waits in rt_thread_mdelay, or main for the camera.
ServoSleeps == servo # "clear"
MainSleeps == main \in {"loop", "settle", "grab", "regrab", "still"}
MainMayRun == ServoSleeps
DataMayRun == ServoSleeps /\ MainSleeps
GuiMayRun == DataMayRun /\ data = "recv" /\ mail = << >>

-----------------------------------------------------------------------------
\* aco.c.  path[0] after ant(): the start, then the pictures in some order.
\* shuffle(path[0], 13) permutes the first pic_num entries, the start with them.
Tours == {t \in Bijection(0 .. PicNum, 0 .. PicNum) : t[0] = Start}
Shuffled(t) == {s \in Bijection(0 .. PicNum, 0 .. PicNum) : s[PicNum] = t[PicNum]}

Entry(k) == IF k <= PicNum THEN path[k] ELSE 0    \* path is zero past its end

ACO_to_first ==
  /\ \E t \in Tours : path' \in Shuffled(t)
  /\ n' = PicNum
  /\ px' = [k \in Indices |-> IF k < PicNum THEN k ELSE Start]
  /\ lsttt' = path'[path_clk]
  /\ lstttt' = 0
  /\ UNCHANGED path_clk

ACO_to_next ==
  /\ path_clk' = path_clk + 1
  /\ lstttt' = lsttt
  /\ lsttt' = Entry(path_clk + 1)
  /\ UNCHANGED <<path, n, px>>

\* ACO_to_R, ACO_to_T, ACO_to_L append a place to px[] and head for it.
ToDepot(tag) ==
  /\ px' = [px EXCEPT ![n] = Depot(tag)]
  /\ lsttt' = n
  /\ n' = n + 1
  /\ UNCHANGED <<path, path_clk>>

ACO_to_R == ToDepot(2) /\ lstttt' = lsttt
ACO_to_T == ToDepot(1) /\ UNCHANGED lstttt
ACO_to_L == ToDepot(0) /\ UNCHANGED lstttt

\* gui: the first refresh runs child2_find_coor_UI, once (its static flag).
GuiPlan ==
  /\ GuiMayRun /\ gui = "off"
  /\ ACO_to_first
  /\ gui' = "planned"
  /\ UNCHANGED <<world, motion, target_cnt, wheels, search, bar_flag, hand, servo_flag,
                 mainv, arm, times, clas, asked, frames>>
GuiStart ==
  /\ GuiMayRun /\ gui = "planned"
  /\ gui' = "done" /\ motion' = 1
  /\ UNCHANGED <<world, target_cnt, wheels, search, bar_flag, hand, servo_flag,
                 mainv, arm, times, route, clas, asked, frames>>

-----------------------------------------------------------------------------
\* timer1: motorControl_timer1 runs one handler, chosen by car.motion; the motions
\* 2, 6..9 and 12 are never assigned once the mission has started.
Tick(m) == motion = m /\ ticked' = TRUE /\ main_ticked' = TRUE
Wheels(run, turn) == moving' = run /\ turning' = turn
Turn == turning' \in BOOLEAN          \* z = get_Theta(0, theta)
threads == <<world, mainv, arm, gui, clas, frames>>

\* On the way to lsttt.
Drive ==
  /\ Tick(1)
  /\ sequencer => target_cnt < PicNum + 3
  /\ moving' = TRUE /\ Turn /\ here' = Road
  /\ UNCHANGED <<motion, target_cnt, search, bar_flag, hand, servo_flag, route, asked, threads>>

\* if(go_point(0, 0, 200, 0)) car.motion = 4, all that the committed build does.
DriveEnds ==
  /\ Tick(1) /\ ~sequencer
  /\ motion' = 4
  /\ moving' = TRUE /\ Turn
  /\ UNCHANGED <<target_cnt, here, search, bar_flag, hand, servo_flag, route, asked, threads>>

ArriveAt(tag) == Tick(1) /\ sequencer /\ target_cnt = PicNum + 2 - tag

\* Arrived where fruit (2), traffic (1) or animals (0) are dropped.
DropFlag(tag) == CASE tag = 2 -> 5 [] tag = 1 -> 4 [] tag = 0 -> 6
NextDepot(tag) == CASE tag = 2 -> ACO_to_T [] tag = 1 -> ACO_to_L [] tag = 0 -> UNCHANGED route
ArriveDepot ==
  \E tag \in 0 .. 2 :
    /\ ArriveAt(tag)
    /\ here' = px[lsttt]
    /\ moving' = TRUE /\ Turn             \* as go_point left them
    /\ target_cnt' = target_cnt + 1
    /\ servo_flag' = DropFlag(tag)
    /\ motion' = 14
    /\ NextDepot(tag)
    /\ UNCHANGED <<search, bar_flag, hand, asked, threads>>

ArrivePicture ==
  /\ Tick(1) /\ sequencer /\ target_cnt < PicNum
  /\ here' = px[lsttt]
  /\ Wheels(FALSE, FALSE)
  /\ target_cnt' = target_cnt + 1 /\ motion' = 3
  /\ pic_flag' = FALSE
  /\ UNCHANGED <<is_pic, pic_stop, bar_flag, hand, servo_flag, route, asked, threads>>

\* All places visited: rt_kprintf8("4") asks the camera for the edge.
ToEdgeAsked ==
  /\ Tick(1) /\ sequencer /\ target_cnt = PicNum + 3
  /\ motion' = 15 /\ asked' = "edge"
  /\ UNCHANGED <<target_cnt, wheels, search, bar_flag, hand, servo_flag, route, threads>>

\* case 4, and the default for motions 0 and 3.
Stopped ==
  /\ \/ Tick(4) /\ Wheels(FALSE, FALSE)
     \/ (Tick(0) \/ Tick(3)) /\ UNCHANGED <<moving, turning>>
  /\ UNCHANGED <<motion, target_cnt, here, search, bar_flag, hand, servo_flag, route, asked, threads>>

to_pic_drive ==
  /\ Tick(5) /\ moving' = TRUE /\ Turn
  /\ UNCHANGED <<motion, target_cnt, here, search, bar_flag, hand, servo_flag, route, asked, threads>>

\* Over the picture: rt_kprintf8("3") asks the camera for its class.
to_pic_near ==
  /\ Tick(5)
  /\ Wheels(FALSE, FALSE)
  /\ motion' = 13 /\ asked' = "class"
  /\ UNCHANGED <<target_cnt, here, search, bar_flag, hand, servo_flag, route, threads>>

protect_back ==
  /\ Tick(11)
  /\ Turn
  /\ moving' = ~is_pic
  /\ pic_stop' = (pic_stop \/ is_pic)
  /\ UNCHANGED <<motion, target_cnt, here, pic_flag, is_pic, bar_flag, hand, servo_flag,
                 route, asked, threads>>

\* What wait_get leaves of car.pick_flag and car.uart_flag.  Mutants: no reset.
PickKept == pick_flag
PickTaken == FALSE
UartKept == uart_flag
UartTaken == FALSE

wait_get ==
  /\ Tick(13)
  /\ IF uart_flag /\ put_flag
       THEN /\ servo_flag_ctrl' = TRUE
            /\ IF pick_flag
                 THEN /\ motion' = 1 /\ pick_flag' = PickTaken
                      /\ uart_flag' = UartTaken /\ put_flag' = FALSE
                      /\ drop_tail_flag' = (drop_tail_flag \/ target_cnt = PicNum)
                 ELSE UNCHANGED <<motion, pick_flag, uart_flag, put_flag, drop_tail_flag>>
       ELSE UNCHANGED <<motion, put_flag, pick_flag, uart_flag, servo_flag_ctrl, drop_tail_flag>>
  /\ UNCHANGED <<target_cnt, wheels, search, bar_flag, drop_flag, servo_flag, route, asked, threads>>

wait_drop ==
  /\ Tick(14)
  /\ moving' = FALSE /\ UNCHANGED turning       \* x = y = 0, but not z
  /\ IF put_flag
       THEN /\ servo_flag_ctrl' = TRUE
            /\ motion' = IF drop_flag THEN 1 ELSE 14
            /\ drop_flag' = FALSE
       ELSE UNCHANGED <<servo_flag_ctrl, motion, drop_flag>>
  /\ UNCHANGED <<target_cnt, here, search, bar_flag, put_flag, pick_flag, uart_flag,
                 drop_tail_flag, servo_flag, route, asked, threads>>

\* Along the edge the camera reported; go_in ends the mission.
to_edge ==
  /\ Tick(15)
  /\ \/ bar_flag = 0 /\ moving' = FALSE /\ Turn /\ UNCHANGED motion
     \/ bar_flag = 1 /\ moving' = TRUE /\ Turn /\ motion' \in {15, 10}
     \/ bar_flag = 2 /\ UNCHANGED <<moving, turning, motion>>
  /\ UNCHANGED <<target_cnt, here, search, bar_flag, hand, servo_flag, route, asked, threads>>

go_in ==
  /\ Tick(10)
  /\ \/ moving' = TRUE /\ Turn /\ UNCHANGED motion
     \/ Wheels(FALSE, FALSE) /\ motion' = 4
  /\ UNCHANGED <<target_cnt, here, search, bar_flag, hand, servo_flag, route, asked, threads>>

motorControl_timer1 ==
  \/ Drive \/ DriveEnds \/ ArriveDepot \/ ArrivePicture \/ ToEdgeAsked \/ Stopped
  \/ to_pic_drive \/ to_pic_near \/ protect_back \/ wait_get \/ wait_drop \/ to_edge \/ go_in

-----------------------------------------------------------------------------
\* main.c's loop, which waits rt_thread_mdelay(10), a period of timer1: main_ticked.
\* A picture can be seen only where one lies.
Visible == here \in Pictures /\ here \notin held \union UNION Range(bins)
get_pic == is_pic' \in {FALSE, Visible}

rest == <<world, target_cnt, wheels, bar_flag, hand, servo_flag, arm, ticked, gui, route,
          clas, asked, frames>>

MainPoll ==
  /\ MainMayRun /\ main = "loop" /\ main_ticked
  /\ (motion = 3 /\ ~pic_flag) \/ motion = 11
  /\ main' = IF main_flag THEN "regrab" ELSE "settle"
  /\ UNCHANGED <<main_ticked, main_flag, motion, search, rest>>

MainSettled ==       \* rt_thread_mdelay(300), flag = 1
  /\ MainMayRun /\ main = "settle"
  /\ main' = "grab" /\ main_flag' = TRUE
  /\ UNCHANGED <<main_ticked, motion, search, rest>>

MainLook(found) ==   \* rt_sem_take, then car.is_pic = get_pic()
  /\ MainMayRun /\ main = "grab"
  /\ get_pic /\ is_pic' = found
  /\ main' = "seen"
  /\ UNCHANGED <<main_ticked, main_flag, motion, pic_flag, pic_stop, rest>>

MainSeen ==
  /\ MainMayRun /\ main = "seen"
  /\ IF is_pic
       THEN motion' = 5 /\ main' = "found"
       ELSE motion' = 11 /\ main' = "loop"
  /\ main_ticked' = FALSE
  /\ UNCHANGED <<main_flag, search, rest>>

\* What the end of a search leaves of the static flag.  Mutant: no flag = 0.
FlagKept == main_flag
FlagCleared == FALSE

MainFound ==
  /\ MainMayRun /\ main = "found"
  /\ pic_flag' = TRUE /\ main_flag' = FlagCleared
  /\ main' = "loop"
  /\ main_ticked' = FALSE
  /\ UNCHANGED <<motion, is_pic, pic_stop, rest>>

MainRelook(found) ==
  /\ MainMayRun /\ main = "regrab"
  /\ get_pic /\ is_pic' = found
  /\ main' = "check"
  /\ UNCHANGED <<main_ticked, main_flag, motion, pic_flag, pic_stop, rest>>

MainCheck ==
  /\ MainMayRun /\ main = "check"
  /\ main' = IF pic_stop THEN "still" ELSE "loop"
  /\ main_ticked' = FALSE
  /\ UNCHANGED <<main_flag, motion, search, rest>>

\* 300 ms later it looks once more and goes to the picture whatever it saw.
MainStill ==
  /\ MainMayRun /\ main = "still"
  /\ get_pic
  /\ main' = "aim"
  /\ UNCHANGED <<main_ticked, main_flag, motion, pic_flag, pic_stop, rest>>

MainAim ==
  /\ MainMayRun /\ main = "aim"
  /\ motion' = 5 /\ main' = "refound"
  /\ UNCHANGED <<main_ticked, main_flag, search, rest>>

\* What MainRefound leaves of car.pic_stop.  Mutant: the reset is missing.
StopKept == pic_stop
StopCleared == FALSE

MainRefound ==
  /\ MainMayRun /\ main = "refound"
  /\ pic_flag' = TRUE /\ main_flag' = FlagCleared
  /\ pic_stop' = StopCleared
  /\ main' = "loop"
  /\ main_ticked' = FALSE
  /\ UNCHANGED <<motion, is_pic, rest>>

MainThread ==
  \/ MainPoll \/ MainSettled \/ (\E found \in BOOLEAN : MainLook(found) \/ MainRelook(found))
  \/ MainSeen \/ MainFound \/ MainCheck \/ MainStill \/ MainAim \/ MainRefound

-----------------------------------------------------------------------------
\* servo_ctrl.  All its waits but the 5 ms of its loop last 15 ms or more, so
\* timer1 (10 ms) has run during each: ticked.
sless == <<world, main_ticked, motion, target_cnt, wheels, search, bar_flag, uart_flag, servo_flag, mainv,
           gui, route, clas, asked, frames>>

Sequence(flag) ==
  CASE flag \in 1 .. 3 -> "get" [] flag \in 4 .. 6 -> "drop" [] OTHER -> "clear"

ServoPoll ==
  /\ servo = "sleep" /\ servo_flag_ctrl
  /\ job' = servo_flag
  /\ servo' = Sequence(servo_flag)
  /\ ticked' = FALSE
  /\ UNCHANGED <<sless, load, put_flag, pick_flag, servo_flag_ctrl, drop_flag, drop_tail_flag>>

\* servo_get; pick_flag = 1.  The magnet takes the picture the car stands over.
ServoPick ==
  /\ servo = "get" /\ ticked
  /\ held' = IF here \in Pictures THEN {here} ELSE {}
  /\ pick_flag' = TRUE
  /\ servo' = "lift" /\ ticked' = FALSE
  /\ UNCHANGED <<sless, job, bins, delivered, put_flag, servo_flag_ctrl, drop_flag, drop_tail_flag>>

\* rt_thread_mdelay(250) and the lift take longer than one tick.  Mutant: no wait.
NoDelay == TRUE
LiftDelay == ticked

\* servo_reset, mdelay(250), servo_put_left/tail/right; then home, unless the last
\* place was reached meanwhile.
ServoPut ==
  /\ servo = "lift" /\ LiftDelay
  /\ bins' = [bins EXCEPT ![job] = @ \union held]
  /\ held' = {}
  /\ servo' = IF target_cnt < PicNum THEN "home" ELSE "tail"
  /\ ticked' = FALSE
  /\ UNCHANGED <<sless, job, delivered, put_flag, pick_flag, servo_flag_ctrl, drop_flag, drop_tail_flag>>

ServoHome ==
  /\ servo = "home" /\ ticked
  /\ put_flag' = TRUE
  /\ servo' = "clear"
  /\ UNCHANGED <<sless, job, load, ticked, pick_flag, servo_flag_ctrl, drop_flag, drop_tail_flag>>

ServoTail ==      \* after mdelay(15)
  /\ servo = "tail" /\ ticked
  /\ IF drop_tail_flag
       THEN servo' = "tailed" /\ UNCHANGED put_flag
       ELSE servo' = "clear" /\ put_flag' = TRUE
  /\ ticked' = FALSE
  /\ UNCHANGED <<sless, job, load, pick_flag, servo_flag_ctrl, drop_flag, drop_tail_flag>>

ServoTailed ==    \* after servo_rote_ctrl(DROP_TAIL)
  /\ servo = "tailed" /\ ticked
  /\ drop_tail_flag' = FALSE
  /\ put_flag' = TRUE
  /\ servo' = "clear"
  /\ UNCHANGED <<sless, job, load, ticked, pick_flag, servo_flag_ctrl, drop_flag>>

\* servo_drop_right (4), tail (5), left (6) empty the bins 3, 2, 1.
BinOf(flag) == CASE flag = 4 -> 3 [] flag = 5 -> 2 [] flag = 6 -> 1

\* Only the cases 4 and 5 turn the arm (servo_rote_ctrl) after drop_flag = 1.
ServoDrop ==
  /\ servo = "drop" /\ ticked
  /\ bins' = [bins EXCEPT ![BinOf(job)] = {}]
  /\ delivered' = [tag \in 0 .. 2 |->
       IF here = Depot(tag) THEN delivered[tag] \union bins[BinOf(job)] ELSE delivered[tag]]
  /\ drop_flag' = TRUE
  /\ servo' = IF job = 6 THEN "clear" ELSE "rote"
  /\ ticked' = FALSE
  /\ UNCHANGED <<sless, job, held, put_flag, pick_flag, servo_flag_ctrl, drop_tail_flag>>

ServoRote ==
  /\ servo = "rote" /\ ticked
  /\ servo' = "clear"
  /\ UNCHANGED <<sless, job, load, ticked, put_flag, pick_flag, servo_flag_ctrl, drop_flag, drop_tail_flag>>

ServoClear ==
  /\ servo = "clear"
  /\ servo_flag_ctrl' = FALSE
  /\ servo' = "sleep"
  /\ UNCHANGED <<sless, job, load, ticked, put_flag, pick_flag, drop_flag, drop_tail_flag>>

ServoThread ==
  \/ ServoPoll \/ ServoPick \/ ServoPut \/ ServoHome \/ ServoTail \/ ServoTailed
  \/ ServoDrop \/ ServoRote \/ ServoClear

-----------------------------------------------------------------------------
\* The OpenART cameras answer "3" with a '#' frame, the class of the picture the
\* car stands over, and "4" with a '%' frame, the way to the edge.
Frames ==
  IF asked = "class" THEN {[fn |-> "#", mark |-> m, tag |-> truth[here]] : m \in Layouts}
                     ELSE {[fn |-> "%", mark |-> "A", tag |-> 0]}
Answer ==
  /\ asked # "no"
  /\ asked = "class" => here \in Pictures
  /\ \E frame \in Frames : mail' = Append(mail, frame)
  /\ asked' = "no"
  /\ UNCHANGED <<world, motion, target_cnt, wheels, search, bar_flag, hand, servo_flag, mainv,
                 arm, times, gui, route, clas, lost, data, edge_flag, repeats>>

\* The answer, or the request, is lost: both are sent once, and nothing asks again.
Lose ==
  /\ MayLose /\ asked # "no"
  /\ asked' = "no" /\ lost' = TRUE
  /\ UNCHANGED <<world, motion, target_cnt, wheels, search, bar_flag, hand, servo_flag, mainv,
                 arm, times, gui, route, clas, mail, data, edge_flag, repeats>>

dless == <<world, motion, target_cnt, wheels, search, put_flag, pick_flag, servo_flag_ctrl,
           drop_flag, drop_tail_flag, mainv, arm, times, gui, asked, lost>>

\* A frame is taken for good, or will be acted on once more.
TakeFrame ==
  \/ mail' = Tail(mail) /\ UNCHANGED repeats
  \/ repeats < Repeats /\ repeats' = repeats + 1 /\ UNCHANGED mail

MorePictures == target_cnt < PicNum

\* '#', first part: clas[lsttt] if the frame has an 'A' there, and, with or without it,
\* the next picture while there is one.
ClassAfter(frame) ==
  IF frame.mark = "A" THEN [clas EXCEPT ![lsttt] = frame.tag] ELSE clas
DataClass ==
  /\ DataMayRun /\ data = "recv" /\ mail # << >> /\ Head(mail).fn = "#"
  /\ TakeFrame
  /\ clas' = ClassAfter(Head(mail))
  /\ IF MorePictures THEN ACO_to_next ELSE UNCHANGED route
  /\ data' = "route"
  /\ UNCHANGED <<dless, bar_flag, uart_flag, servo_flag, edge_flag>>

DataRoute ==
  /\ DataMayRun /\ data = "route"
  /\ IF target_cnt = PicNum THEN ACO_to_R ELSE UNCHANGED route
  /\ data' = "bin"
  /\ UNCHANGED <<dless, bar_flag, uart_flag, servo_flag, clas, mail, edge_flag, repeats>>

\* The place just visited.  Mutant: lsttt, which is the next one by now.
PlaceAhead == lsttt
PlaceClassified == lstttt

BinFlag(tag) == CASE tag = 0 -> 1 [] tag = 1 -> 3 [] tag = 2 -> 2
DataBin ==
  /\ DataMayRun /\ data = "bin"
  /\ servo_flag' = BinFlag(clas[PlaceClassified])
  /\ data' = "flag"
  /\ UNCHANGED <<dless, bar_flag, uart_flag, route, clas, mail, edge_flag, repeats>>

DataFlag ==
  /\ DataMayRun /\ data = "flag"
  /\ uart_flag' = TRUE
  /\ data' = "recv"
  /\ UNCHANGED <<dless, bar_flag, servo_flag, route, clas, mail, edge_flag, repeats>>

\* '%': the first one sets bar_flag to 1, a later one to 2.
DataEdge ==
  /\ DataMayRun /\ data = "recv" /\ mail # << >> /\ Head(mail).fn = "%"
  /\ TakeFrame
  /\ bar_flag' = IF edge_flag THEN 2 ELSE 1
  /\ edge_flag' = TRUE
  /\ UNCHANGED <<dless, uart_flag, servo_flag, route, clas, data>>

DataThread == DataClass \/ DataRoute \/ DataBin \/ DataFlag \/ DataEdge

-----------------------------------------------------------------------------
Next ==
  \/ motorControl_timer1 \/ MainThread \/ ServoThread \/ DataThread
  \/ GuiPlan \/ GuiStart \/ Answer \/ Lose

Spec == Init /\ [][Next]_vars

\* The steps by which timer1 brings a mission forward; the others only wait.
Proceeds ==
  \/ DriveEnds \/ ArriveDepot \/ ArrivePicture \/ ToEdgeAsked
  \/ to_pic_near \/ protect_back \/ wait_get \/ wait_drop
  \/ (to_edge /\ motion' = 10) \/ (go_in /\ motion' = 4)

\* timer1 runs every 10 ms, and servo and main block within a bounded time.  data
\* and gui run whenever those two sleep, which is again and again, not for ever.
\* Of the world: a drive gets there, a picture that lies there is seen in the end,
\* and the cameras answer.
Fairness ==
  /\ WF_vars(Proceeds) /\ WF_vars(motorControl_timer1)
  /\ WF_vars(MainThread) /\ WF_vars(ServoThread) /\ WF_vars(Answer \/ Lose)
  /\ SF_vars(MainLook(TRUE) \/ MainRelook(TRUE))
  /\ SF_vars(DataThread) /\ SF_vars(GuiPlan \/ GuiStart)

FairSpec == Spec /\ Fairness

-----------------------------------------------------------------------------
TypeOK ==
  /\ sequencer \in BOOLEAN /\ moving \in BOOLEAN /\ turning \in BOOLEAN
  /\ pic_flag \in BOOLEAN /\ is_pic \in BOOLEAN /\ pic_stop \in BOOLEAN
  /\ put_flag \in BOOLEAN /\ pick_flag \in BOOLEAN /\ uart_flag \in BOOLEAN
  /\ servo_flag_ctrl \in BOOLEAN /\ drop_flag \in BOOLEAN /\ drop_tail_flag \in BOOLEAN
  /\ main_flag \in BOOLEAN /\ ticked \in BOOLEAN /\ main_ticked \in BOOLEAN
  /\ edge_flag \in BOOLEAN /\ lost \in BOOLEAN
  /\ truth \in [Pictures -> 0 .. 2]
  /\ motion \in {0, 1, 3, 4, 5, 10, 11, 13, 14, 15} /\ target_cnt \in 0 .. PicNum + 3
  /\ here \in Places /\ bar_flag \in 0 .. 2 /\ servo_flag \in 0 .. 6 /\ job \in 0 .. 6
  /\ main \in {"loop", "settle", "grab", "seen", "found", "regrab", "check", "still", "aim", "refound"}
  /\ servo \in {"sleep", "get", "lift", "home", "tail", "tailed", "drop", "rote", "clear"}
  /\ data \in {"recv", "route", "bin", "flag"} /\ gui \in {"off", "planned", "done"}
  /\ held \in SUBSET Pictures /\ bins \in [1 .. 3 -> SUBSET Pictures]
  /\ delivered \in [0 .. 2 -> SUBSET Pictures]
  /\ path \in [0 .. PicNum -> 0 .. PicNum] /\ path_clk \in 1 .. PicNum + Repeats
  /\ lsttt \in Indices /\ lstttt \in Indices /\ n \in 0 .. PicNum + 3 + Repeats
  /\ px \in [Indices -> Places] /\ clas \in [Indices -> 0 .. 2]
  /\ asked \in {"no", "class", "edge"} /\ repeats \in 0 .. Repeats
  /\ mail \in Seq([fn : {"#", "%"}, mark : {"A", "X"}, tag : 0 .. 2]) /\ Len(mail) <= 1 + Repeats

\* "Based on the three big categories pictures were carried to three different
\* designated places" (README.md): whatever way '#' frame, data_t, timer1 and the
\* arm interleave, a picture is only ever dropped at the place of its class.  (If the
\* cameras mark a class with 'A': violated for the layout more_uart.c:169 documents,
\* whose class is not read while the route and the arm go on.)
DeliveredRight == \A tag \in 0 .. 2 : \A p \in delivered[tag] : truth[p] = tag

\* When the car leaves the last place, all pictures of its route are delivered:
\* none is skipped, left on the arm or in a bin.
OnRoute == {path[k] : k \in 1 .. PicNum} \ {Start}
AllDelivered == motion \in {10, 15} => UNION Range(delivered) = OnRoute

\* The arm goes down only on a car that stands, and still stands when it comes up;
\* a drop is made from a standing car.  (wait_drop leaves z alone, so the car may
\* still turn; and the left drop, which has no servo_rote_ctrl behind it, may be
\* asked for a second time when the car is already under way.)
StandsWhileHandling ==
  /\ servo = "get" => ~moving /\ ~turning
  /\ servo = "drop" /\ job # 6 => ~moving \/ motion = 14

\* Every flag is taken by timer1 before the arm ends the sequence that raised it
\* (again but for the left drop), so no later hand-over finds an old one, and the
\* turn to the tail is asked for only behind the last picture.
FlagsTaken ==
  /\ pick_flag => servo = "lift"
  /\ drop_flag /\ job # 6 => servo = "rote"
  /\ drop_tail_flag => target_cnt >= PicNum /\ servo \in {"lift", "tail", "tailed"}

\* No search starts with what the one before it left: outside a search both the
\* request to stop and main's static flag are back.
SearchReset == main = "loop" /\ motion # 11 => ~pic_stop /\ ~main_flag

\* The committed build stops after its 200 cm.  With the sequencer the car ends
\* its mission, if shuffle() left the start where it was in path[0] and no answer is lost.
MissionEnds == (~sequencer \/ path[0] = Start) ~> motion = 4 \/ lost

\* "3" and "4" are sent once.  When the answer is lost the car halts where it asked,
\* for ever, instead of going on with the class of another picture or without an edge.
LostHalts == lost => motion \in {13, 15} /\ ~moving /\ ~uart_flag /\ mail = << >>

\* What the flags, threads and interrupts add up to is the mission of MissionSpec:
\* whatever the interleaving, nothing is picked up twice, put down on the way or
\* before the last picture is on board, left behind, or brought to a wrong place.
OnBoard == held \union UNION Range(bins)
Collected == OnBoard \union UNION Range(delivered)
Promise == INSTANCE MissionSpec WITH
  class <- truth,
  planned <- gui # "off",
  field <- IF gui = "off" THEN Pictures ELSE OnRoute \ Collected,
  carried <- OnBoard,
  delivered <- delivered,
  over <- sequencer /\ motion \in {4, 10}
ImplementsPromise == Promise!Spec

\* Violated: shuffle() may move the start among the pictures, and one picture to
\* path[0][0], where the car never goes.
RouteCoversPictures == gui # "off" => OnRoute = Pictures
=============================================================================

--------------------------- MODULE MissionProofs ---------------------------
(***************************************************************************)
(* Mission for any number of pictures, of repeated frames, any classes and  *)
(* any order of the route: who owns the flags of the search, that questions *)
(* and answers stay in step, that pictures are dropped where they belong,   *)
(* and that all this implements MissionSpec.                                *)
(***************************************************************************)
EXTENDS Mission, TLAPS

\* Where main stands tells what motion and the two flags of the search are: main
\* owns them in "settle" .. "found", timer1 may raise pic_stop from "loop" to "aim"
\* while it runs protect_back.
SearchInv ==
  /\ main \in {"loop", "settle", "grab", "seen", "found", "regrab", "check", "still", "aim", "refound"}
  /\ gui # "done" => main = "loop" /\ motion = 0
  /\ motion = 11 => main \in {"loop", "regrab", "check", "still", "aim"} /\ main_flag
  /\ main = "loop" /\ motion # 11 => ~pic_stop /\ ~main_flag
  /\ main \in {"settle", "grab", "seen", "found"} => ~pic_stop
  /\ main \in {"grab", "seen"} => main_flag
  /\ main \in {"regrab", "check", "still", "aim"} => motion = 11

searchVars == <<main, main_flag, motion, pic_stop, gui>>

LEMMA InitSearch == Init => SearchInv
  BY DEF Init, SearchInv

\* timer1 takes the car out of no search, and into none.
LEMMA TimerSearch ==
  ASSUME SearchInv, motorControl_timer1
  PROVE  SearchInv'
<1> USE DEF SearchInv, threads, mainv, Tick, search
<1>1. CASE Drive             BY <1>1 DEF Drive
<1>2. CASE DriveEnds         BY <1>2 DEF DriveEnds
<1>3. CASE ArriveDepot       BY <1>3 DEF ArriveDepot, ArriveAt
<1>4. CASE ArrivePicture     BY <1>4 DEF ArrivePicture
<1>5. CASE ToEdgeAsked       BY <1>5 DEF ToEdgeAsked
<1>6. CASE Stopped           BY <1>6 DEF Stopped
<1>7. CASE to_pic_drive      BY <1>7 DEF to_pic_drive
<1>8. CASE to_pic_near       BY <1>8 DEF to_pic_near
<1>9. CASE protect_back      BY <1>9 DEF protect_back
<1>10. CASE wait_get         BY <1>10 DEF wait_get
<1>11. CASE wait_drop        BY <1>11 DEF wait_drop
<1>12. CASE to_edge          BY <1>12 DEF to_edge
<1>13. CASE go_in
  <2>1. motion = 10 /\ motion' \in {10, 4} /\ UNCHANGED <<main, main_flag, pic_stop, gui>>
    BY <1>13 DEF go_in, Turn, Wheels
  <2> QED
    BY <2>1
<1> QED
  BY <1>1, <1>2, <1>3, <1>4, <1>5, <1>6, <1>7, <1>8, <1>9, <1>10, <1>11, <1>12, <1>13,
     motorControl_timer1 DEF motorControl_timer1

LEMMA MainSearch ==
  ASSUME SearchInv, MainThread
  PROVE  SearchInv'
<1> USE DEF SearchInv, search, rest, FlagCleared, StopCleared
<1>1. CASE MainPoll          BY <1>1 DEF MainPoll
<1>2. CASE MainSettled       BY <1>2 DEF MainSettled
<1>3. CASE \E found \in BOOLEAN : MainLook(found) \/ MainRelook(found)
  BY <1>3 DEF MainLook, MainRelook
<1>4. CASE MainSeen          BY <1>4 DEF MainSeen
<1>5. CASE MainFound         BY <1>5 DEF MainFound
<1>6. CASE MainCheck         BY <1>6 DEF MainCheck
<1>7. CASE MainStill         BY <1>7 DEF MainStill
<1>8. CASE MainAim           BY <1>8 DEF MainAim
<1>9. CASE MainRefound       BY <1>9 DEF MainRefound
<1> QED
  BY <1>1, <1>2, <1>3, <1>4, <1>5, <1>6, <1>7, <1>8, <1>9, MainThread DEF MainThread

\* Neither servo, data nor the cameras touch the search.
LEMMA OthersSearch ==
  ASSUME ServoThread \/ DataThread \/ Answer \/ Lose
  PROVE  UNCHANGED searchVars
<1> USE DEF searchVars, mainv, search
<1>1. CASE ServoThread
  BY <1>1 DEF ServoThread, sless, ServoPoll, ServoPick, ServoPut, ServoHome, ServoTail,
              ServoTailed, ServoDrop, ServoRote, ServoClear
<1>2. CASE DataThread
  BY <1>2 DEF DataThread, dless, DataClass, DataRoute, DataBin, DataFlag, DataEdge
<1>3. CASE Answer
  BY <1>3 DEF Answer
<1>4. CASE Lose
  BY <1>4 DEF Lose
<1> QED
  BY <1>1, <1>2, <1>3, <1>4

LEMMA StepSearch == SearchInv /\ [Next]_vars => SearchInv'
<1> SUFFICES ASSUME SearchInv, [Next]_vars PROVE SearchInv'
  OBVIOUS
<1>1. CASE motorControl_timer1
  BY <1>1, TimerSearch
<1>2. CASE MainThread
  BY <1>2, MainSearch
<1>3. CASE ServoThread \/ DataThread \/ Answer \/ Lose
  BY <1>3, OthersSearch DEF SearchInv, searchVars
<1>4. CASE GuiPlan
  BY <1>4 DEF GuiPlan, SearchInv, mainv, search
<1>5. CASE GuiStart
  BY <1>5 DEF GuiStart, SearchInv, mainv, search
<1>6. CASE UNCHANGED vars
  BY <1>6 DEF vars, SearchInv, mainv, search
<1> QED
  BY <1>1, <1>2, <1>3, <1>4, <1>5, <1>6 DEF Next

\* No search starts with what the one before it left: outside a search car.pic_stop
\* and main's static flag are back, whenever timer1 ticks between main's statements.
THEOREM SearchAlwaysReset == Spec => []SearchReset
<1>1. SearchInv => SearchReset
  BY DEF SearchInv, SearchReset
<1> QED
  BY <1>1, InitSearch, StepSearch, PTL DEF Spec

-----------------------------------------------------------------------------
\* A question to the cameras is in one place at a time: asked, answered by a frame,
\* with data_t, or handed to timer1, or it is lost.  Meanwhile the car stands, in the
\* motion that waits for it.
Pending == asked # "no" \/ mail # << >> \/ data # "recv" \/ uart_flag \/ lost

OnePlace ==
  /\ asked # "no" => mail = << >> /\ data = "recv" /\ ~uart_flag /\ ~lost
  /\ mail # << >> => data = "recv" /\ ~uart_flag /\ ~lost
  /\ data # "recv" => ~uart_flag /\ ~lost
  /\ uart_flag => ~lost

Awaited ==
  /\ asked \in {"no", "class", "edge"}
  /\ asked = "class" => motion = 13
  /\ asked = "edge" => motion = 15
  /\ data # "recv" \/ uart_flag => motion = 13
  /\ mail # << >> => mail = << Head(mail) >> /\ Head(mail).fn \in {"#", "%"}
  /\ mail # << >> /\ Head(mail).fn = "#" => motion = 13
  /\ mail # << >> /\ Head(mail).fn = "%" => motion = 15
  /\ lost => motion \in {13, 15}

\* The edge is known only at the end, and the last drive begins on a standing car.
Stands ==
  /\ Pending => moving = FALSE /\ bar_flag = 0
  /\ bar_flag # 0 => motion \in {4, 10, 15}
  /\ motion \in {0, 3, 5, 11, 13} => target_cnt <= PicNum
  /\ target_cnt \in Nat /\ (sequencer \/ target_cnt = 0)
  /\ motion = 1 /\ target_cnt = PicNum + 3 => moving = FALSE
  /\ main \in {"settle", "grab", "seen"} => motion = 3

AnswerInv == OnePlace /\ Awaited /\ Stands /\ repeats \in Nat

answerVars == <<asked, mail, repeats, data, uart_flag, lost, motion, moving, bar_flag, target_cnt, main,
                sequencer>>

LEMMA InitAnswer == Init => AnswerInv
  BY MissionAssumption DEF Init, AnswerInv, OnePlace, Awaited, Stands, Pending

\* Elsewhere nothing is asked.
LEMMA Quiet ==
  ASSUME AnswerInv, motion \notin {13, 15}
  PROVE  asked = "no" /\ mail = << >> /\ data = "recv" /\ ~uart_flag /\ ~lost
BY DEF AnswerInv, Awaited, OnePlace

\* A step that begins and ends where nothing is asked has the drive to look after only.
LEMMA QuietStep ==
  ASSUME AnswerInv, motion \notin {13, 15},
         asked' = asked, mail' = mail, data' = data, uart_flag' = uart_flag, lost' = lost,
         repeats' = repeats,
         Stands'
  PROVE  AnswerInv'
<1>1. asked' = "no" /\ mail' = << >> /\ data' = "recv" /\ ~uart_flag' /\ ~lost'
  BY Quiet
<1>2. "no" # "class" /\ "no" # "edge"
  OBVIOUS
<1> QED
  BY <1>1, <1>2 DEF AnswerInv, OnePlace, Awaited

LEMMA TimerAnswer ==
  ASSUME AnswerInv, SearchInv, motorControl_timer1
  PROVE  AnswerInv'
<1> DEFINE same == /\ asked' = asked /\ mail' = mail /\ data' = data
                   /\ uart_flag' = uart_flag /\ lost' = lost /\ repeats' = repeats
           kept == /\ bar_flag' = bar_flag /\ target_cnt' = target_cnt /\ main' = main
                   /\ sequencer' = sequencer
<1> USE MissionAssumption DEF threads, frames, mainv, hand, wheels, world, Tick, Wheels
<1>0. Stands
  BY DEF AnswerInv
<1>1. CASE Drive
  <2>1. /\ motion = 1 /\ motion' = 1 /\ same /\ kept
        /\ sequencer => target_cnt < PicNum + 3
    BY <1>1 DEF Drive
  <2>2. Stands'
    BY <1>0, <2>1, Quiet DEF Stands, Pending
  <2> QED
    BY <2>1, <2>2, QuietStep
<1>2. CASE DriveEnds
  <2>1. motion = 1 /\ motion' = 4 /\ same /\ kept
    BY <1>2 DEF DriveEnds
  <2>2. Stands'
    BY <1>0, <2>1, Quiet DEF Stands, Pending
  <2> QED
    BY <2>1, <2>2, QuietStep
<1>3. CASE ArriveDepot
  <2>1. /\ motion = 1 /\ motion' = 14 /\ same /\ sequencer /\ target_cnt' = target_cnt + 1
        /\ bar_flag' = bar_flag /\ main' = main /\ sequencer' = sequencer
    BY <1>3 DEF ArriveDepot, ArriveAt
  <2>2. Stands'
    BY <1>0, <2>1, Quiet DEF Stands, Pending
  <2> QED
    BY <2>1, <2>2, QuietStep
<1>4. CASE ArrivePicture
  <2>1. /\ motion = 1 /\ motion' = 3 /\ same /\ sequencer /\ target_cnt' = target_cnt + 1
        /\ target_cnt < PicNum
        /\ bar_flag' = bar_flag /\ main' = main /\ sequencer' = sequencer
    BY <1>4 DEF ArrivePicture
  <2>2. Stands'
    BY <1>0, <2>1, Quiet DEF Stands, Pending
  <2> QED
    BY <2>1, <2>2, QuietStep
<1>5. CASE ToEdgeAsked
  <2>1. /\ motion = 1 /\ motion' = 15 /\ asked' = "edge" /\ kept
        /\ mail' = mail /\ data' = data /\ uart_flag' = uart_flag /\ lost' = lost
        /\ repeats' = repeats /\ moving' = moving /\ target_cnt = PicNum + 3
    BY <1>5 DEF ToEdgeAsked
  <2>2. mail = << >> /\ data = "recv" /\ ~uart_flag /\ ~lost /\ moving = FALSE /\ bar_flag = 0
    BY <1>0, <2>1, Quiet DEF Stands
  <2>3. Stands'
    BY <1>0, <2>1, <2>2 DEF Stands, Pending
  <2> QED
    BY <2>1, <2>2, <2>3 DEF AnswerInv, OnePlace, Awaited
<1>6. CASE Stopped \/ to_pic_drive \/ protect_back
  <2>1. motion \in {0, 3, 4, 5, 11} /\ motion' = motion /\ same /\ kept
    BY <1>6 DEF Stopped, to_pic_drive, protect_back
  <2>2. Stands'
    BY <1>0, <2>1, Quiet DEF Stands, Pending
  <2> QED
    BY <2>1, <2>2, QuietStep
<1>7. CASE to_pic_near
  <2>1. /\ motion = 5 /\ motion' = 13 /\ asked' = "class" /\ kept
        /\ mail' = mail /\ data' = data /\ uart_flag' = uart_flag /\ lost' = lost
        /\ repeats' = repeats /\ moving' = FALSE
    BY <1>7 DEF to_pic_near
  <2>2. mail = << >> /\ data = "recv" /\ ~uart_flag /\ ~lost /\ bar_flag = 0
    BY <1>0, <2>1, Quiet DEF Stands
  <2>3. Stands'
    BY <1>0, <2>1, <2>2 DEF Stands, Pending
  <2> QED
    BY <2>1, <2>2, <2>3 DEF AnswerInv, OnePlace, Awaited
<1>8. CASE wait_get
  BY <1>8 DEF wait_get, UartTaken, AnswerInv, OnePlace, Awaited, Stands, Pending
<1>9. CASE wait_drop
  BY <1>9 DEF wait_drop, AnswerInv, OnePlace, Awaited, Stands, Pending
<1>10. CASE to_edge
  BY <1>10 DEF to_edge, AnswerInv, OnePlace, Awaited, Stands, Pending
<1>11. CASE go_in
  <2>1. motion = 10 /\ motion' \in {10, 4} /\ same /\ kept
    BY <1>11 DEF go_in
  <2>2. Stands'
    BY <1>0, <2>1, Quiet DEF Stands, Pending
  <2> QED
    BY <2>1, <2>2, QuietStep
<1> QED
  BY <1>1, <1>2, <1>3, <1>4, <1>5, <1>6, <1>7, <1>8, <1>9, <1>10, <1>11,
     motorControl_timer1 DEF motorControl_timer1

LEMMA MainAnswer ==
  ASSUME AnswerInv, SearchInv, MainThread
  PROVE  AnswerInv'
<1> USE DEF AnswerInv, OnePlace, Awaited, Stands, Pending, SearchInv, world, rest, frames, hand, wheels
<1>1. CASE MainPoll          BY <1>1 DEF MainPoll, search
<1>2. CASE MainSettled       BY <1>2 DEF MainSettled, search
<1>3. CASE \E found \in BOOLEAN : MainLook(found) \/ MainRelook(found)
  BY <1>3 DEF MainLook, MainRelook
<1>4. CASE MainSeen          BY <1>4 DEF MainSeen, search
<1>5. CASE MainFound         BY <1>5 DEF MainFound
<1>6. CASE MainCheck         BY <1>6 DEF MainCheck, search
<1>7. CASE MainStill         BY <1>7 DEF MainStill
<1>8. CASE MainAim           BY <1>8 DEF MainAim, search
<1>9. CASE MainRefound       BY <1>9 DEF MainRefound
<1> QED
  BY <1>1, <1>2, <1>3, <1>4, <1>5, <1>6, <1>7, <1>8, <1>9 DEF MainThread

\* The arm has no part in it.
LEMMA ServoAnswer ==
  ASSUME ServoThread
  PROVE  UNCHANGED answerVars
BY DEF answerVars, ServoThread, sless, ServoPoll, ServoPick, ServoPut, ServoHome, ServoTail,
       ServoTailed, ServoDrop, ServoRote, ServoClear, mainv, wheels, frames, world

LEMMA DataAnswer ==
  ASSUME AnswerInv, Repeats = 0, DataThread
  PROVE  AnswerInv'
<1> USE DEF AnswerInv, OnePlace, Awaited, Stands, Pending, world, dless, mainv, wheels
<1>1. ASSUME TakeFrame, mail # << >> PROVE mail' = << >> /\ repeats' \in Nat
  <2>1. mail' = Tail(mail) /\ repeats' = repeats
    BY <1>1 DEF TakeFrame
  <2>2. mail = << Head(mail) >>
    BY <1>1
  <2> DEFINE h == Head(mail)
  <2>3. Tail(<< h >>) = << >>
    OBVIOUS
  <2> QED
    BY <2>1, <2>2, <2>3
<1>2. CASE DataClass         BY <1>1, <1>2 DEF DataClass
<1>3. CASE DataRoute         BY <1>3 DEF DataRoute
<1>4. CASE DataBin           BY <1>4 DEF DataBin
<1>5. CASE DataFlag          BY <1>5 DEF DataFlag
<1>6. CASE DataEdge          BY <1>1, <1>6 DEF DataEdge
<1> QED
  BY <1>2, <1>3, <1>4, <1>5, <1>6 DEF DataThread

LEMMA CameraAnswer ==
  ASSUME AnswerInv, Answer \/ Lose
  PROVE  AnswerInv'
<1> USE DEF AnswerInv, OnePlace, Awaited, Stands, Pending, world, mainv, wheels, hand
<1>1. CASE Answer
  <2>1. PICK frame \in Frames : mail' = << frame >> /\ asked' = "no" /\ mail = << >>
    BY <1>1 DEF Answer
  <2>2. Head(mail') = frame /\ mail' # << >>
    BY <2>1
  <2>3. frame.fn = IF asked = "class" THEN "#" ELSE "%"
    BY DEF Frames
  <2> QED
    BY <1>1, <2>1, <2>2, <2>3 DEF Answer
<1>2. CASE Lose
  BY <1>2 DEF Lose
<1> QED
  BY <1>1, <1>2

LEMMA StepAnswer == Repeats = 0 /\ SearchInv /\ AnswerInv /\ [Next]_vars => AnswerInv'
<1> SUFFICES ASSUME Repeats = 0, SearchInv, AnswerInv, [Next]_vars PROVE AnswerInv'
  OBVIOUS
<1> USE DEF AnswerInv, OnePlace, Awaited, Stands, Pending
<1>1. CASE motorControl_timer1
  BY <1>1, TimerAnswer
<1>2. CASE MainThread
  BY <1>2, MainAnswer
<1>3. CASE ServoThread
  BY <1>3, ServoAnswer DEF answerVars
<1>4. CASE DataThread \/ Answer \/ Lose
  BY <1>4, DataAnswer, CameraAnswer
<1>5. CASE GuiPlan
  BY <1>5 DEF GuiPlan, mainv, hand, wheels, frames, world
<1>6. CASE GuiStart
  BY <1>6, MissionAssumption DEF GuiStart, SearchInv, mainv, hand, wheels, frames, world
<1>7. CASE UNCHANGED vars
  BY <1>7 DEF vars, mainv, hand, wheels, frames, world
<1> QED
  BY <1>1, <1>2, <1>3, <1>4, <1>5, <1>6, <1>7 DEF Next

\* "3" and "4" are sent once: with any number of pictures, when an answer is lost the
\* car halts where it asked, and nothing that came before takes its place.  (A frame
\* that data_t acts on twice could: Repeats = 0.)
THEOREM LostCarHalts ==
  ASSUME Repeats = 0
  PROVE  Spec => []LostHalts
<1>1. AnswerInv => LostHalts
  BY DEF AnswerInv, OnePlace, Awaited, Stands, Pending, LostHalts
<1>2. SearchInv /\ AnswerInv /\ [Next]_vars => AnswerInv'
  BY StepAnswer
<1> QED
  BY <1>1, <1>2, InitSearch, StepSearch, InitAnswer, PTL DEF Spec

-----------------------------------------------------------------------------
\* The hand-over between timer1 and the arm: the arm goes down in motion 13 only, on
\* the bin it was told; timer1 takes pick_flag and drop_flag before the arm goes on;
\* and what the arm finds asked for when it wakes up is what the car stands at.
HandOver ==
  /\ servo = "get" => motion = 13 /\ uart_flag /\ put_flag /\ job = servo_flag
  /\ pick_flag => servo = "lift" /\ ~ticked /\ motion = 13 /\ uart_flag /\ put_flag
  /\ servo = "drop" => /\ put_flag /\ job = servo_flag /\ job \in 4 .. 6
                       /\ job # 6 => motion = 14 /\ ~drop_flag
                       /\ job = 6 => target_cnt = PicNum + 3
  /\ drop_flag => \/ servo = "rote" /\ ~ticked /\ motion = 14 /\ put_flag
                  \/ target_cnt = PicNum + 3
  /\ servo = "sleep" /\ servo_flag_ctrl =>
       /\ put_flag
       /\ (motion = 13 /\ uart_flag) \/ motion = 14 \/ target_cnt = PicNum + 3

\* The cameras mark a class as data_analysis wants it.
Marked == Layouts = {"A"}

\* The class on its way from the frame to servo_flag is that of the picture below; if it
\* is not marked, it still is one of the three.
Classified ==
  /\ mail # << >> /\ Head(mail).fn = "#" =>
       here \in Pictures /\ Head(mail).tag = truth[here] /\ Head(mail).mark \in Layouts
  /\ data # "recv" \/ uart_flag => here \in Pictures
  /\ Marked /\ data = "route" => truth[here] = clas[IF target_cnt = PicNum THEN lsttt ELSE lstttt]
  /\ Marked /\ data = "bin" => truth[here] = clas[lstttt]
  /\ data = "flag" \/ uart_flag => servo_flag \in 1 .. 3 /\ (Marked => servo_flag = BinFlag(truth[here]))

\* After the last picture px[lsttt] is the depot that is next.
Routed == motion \in {1, 14} \/ data \in {"bin", "flag"} \/ uart_flag
Headed ==
  /\ target_cnt \in PicNum .. PicNum + 2 /\ Routed => px[lsttt] = Depot(PicNum + 2 - target_cnt)
  /\ target_cnt < PicNum \/ (target_cnt = PicNum /\ ~Routed) => n <= PicNum
  /\ target_cnt \in PicNum .. PicNum + 2 /\ Routed => n <= target_cnt + 1

AtDepot ==
  /\ motion = 14 => /\ target_cnt \in PicNum + 1 .. PicNum + 3
                    /\ here = Depot(PicNum + 3 - target_cnt)
                    /\ servo_flag = DropFlag(PicNum + 3 - target_cnt)
  /\ target_cnt = PicNum + 3 => here = Depot(0) /\ servo_flag = 6 /\ motion \in {14, 1, 15, 10, 4}

Sorted ==
  /\ held \subseteq Pictures /\ (held # {} => servo = "lift")
  /\ servo = "lift" => job \in 1 .. 3 /\ (Marked => \A p \in held : BinFlag(truth[p]) = job)
  /\ bins \in [1 .. 3 -> SUBSET Pictures]
  /\ Marked => \A b \in 1 .. 3 : \A p \in bins[b] : BinFlag(truth[p]) = b
  /\ delivered \in [0 .. 2 -> SUBSET Pictures] /\ (Marked => DeliveredRight)

RouteOK ==
  /\ truth \in [Pictures -> 0 .. 2] /\ path \in [0 .. PicNum -> 0 .. PicNum]
  /\ path_clk \in Nat \ {0} /\ (gui # "done" => path_clk = 1 /\ target_cnt = 0)
  /\ lsttt \in Indices /\ lstttt \in Indices /\ n \in Nat
  /\ px \in [Indices -> Places] /\ clas \in [Indices -> 0 .. 2]

LoadInv == HandOver /\ Classified /\ Headed /\ AtDepot /\ Sorted /\ RouteOK

\* What each part depends on.
handVars == <<servo, job, ticked, motion, target_cnt, servo_flag, put_flag, pick_flag, uart_flag,
              servo_flag_ctrl, drop_flag>>
classVars == <<mail, data, uart_flag, here, truth, clas, target_cnt, lsttt, lstttt, servo_flag>>
headVars == <<motion, data, uart_flag, target_cnt, px, lsttt, n>>
depotVars == <<motion, target_cnt, here, servo_flag>>
sortVars == <<held, bins, delivered, servo, job, truth>>
routeVars == <<truth, path, path_clk, gui, target_cnt, lsttt, lstttt, n, px, clas>>

LEMMA HandSame == HandOver /\ UNCHANGED handVars => HandOver'
  BY DEF HandOver, handVars
LEMMA ClassSame == Classified /\ UNCHANGED classVars => Classified'
  BY DEF Classified, classVars
LEMMA HeadSame == Headed /\ UNCHANGED headVars => Headed'
  BY DEF Headed, Routed, headVars
LEMMA DepotSame == AtDepot /\ UNCHANGED depotVars => AtDepot'
  BY DEF AtDepot, depotVars
LEMMA SortSame == Sorted /\ UNCHANGED sortVars => Sorted'
  BY DEF Sorted, DeliveredRight, sortVars
LEMMA RouteSame == RouteOK /\ UNCHANGED routeVars => RouteOK'
  BY DEF RouteOK, routeVars

LEMMA InitLoad == Init => LoadInv
<1> SUFFICES ASSUME Init PROVE LoadInv
  OBVIOUS
<1> USE MissionAssumption
<1>1. HandOver /\ Classified /\ AtDepot
  BY DEF Init, HandOver, Classified, AtDepot
<1>2. Headed
  BY DEF Init, Headed, Routed
<1>3. Sorted
  BY DEF Init, Sorted, DeliveredRight
<1>4. RouteOK
  BY DEF Init, RouteOK, Indices, Places, Start, Road
<1> QED
  BY <1>1, <1>2, <1>3, <1>4 DEF LoadInv

\* The classes, the bins and the flags for them agree: 2 fruit, 1 traffic, 0 animals.
LEMMA BinFlagIs ==
  /\ BinFlag(0) = 1 /\ BinFlag(1) = 3 /\ BinFlag(2) = 2
  /\ BinOf(DropFlag(0)) = 1 /\ BinOf(DropFlag(1)) = 3 /\ BinOf(DropFlag(2)) = 2
  /\ DropFlag(0) = 6 /\ DropFlag(1) = 4 /\ DropFlag(2) = 5
BY DEF BinFlag, BinOf, DropFlag

\* The arm works on the bins and on its flags, and on nothing else.
LEMMA ServoLoad ==
  ASSUME LoadInv, AnswerInv, ServoThread
  PROVE  LoadInv'
<1> USE MissionAssumption
<1>0. HandOver /\ Classified /\ Headed /\ AtDepot /\ Sorted /\ RouteOK /\ Stands /\ OnePlace
  BY DEF LoadInv, AnswerInv
<1>1. UNCHANGED sless
  BY DEF ServoThread, ServoPoll, ServoPick, ServoPut, ServoHome, ServoTail, ServoTailed,
         ServoDrop, ServoRote, ServoClear
<1>2. /\ motion' = motion /\ target_cnt' = target_cnt /\ here' = here /\ uart_flag' = uart_flag
      /\ servo_flag' = servo_flag /\ truth' = truth
  BY <1>1 DEF sless, wheels, world
<1>3. UNCHANGED <<classVars, headVars, depotVars, routeVars>>
  BY <1>1 DEF sless, classVars, headVars, depotVars, routeVars, wheels, world, route, frames
<1>4. Classified' /\ Headed' /\ AtDepot' /\ RouteOK'
  BY <1>0, <1>3, ClassSame, HeadSame, DepotSame, RouteSame
<1>5. truth \in [Pictures -> 0 .. 2]
  BY <1>0 DEF RouteOK
<1>6. CASE ServoPoll
  <2>1. /\ servo = "sleep" /\ servo_flag_ctrl /\ job' = servo_flag /\ servo' = Sequence(servo_flag)
        /\ ticked' = FALSE /\ put_flag' = put_flag /\ pick_flag' = pick_flag
        /\ servo_flag_ctrl' = servo_flag_ctrl /\ drop_flag' = drop_flag
        /\ held' = held /\ bins' = bins /\ delivered' = delivered
    BY <1>6 DEF ServoPoll, load
  <2>2. ~pick_flag /\ put_flag
    BY <1>0, <2>1 DEF HandOver
  <2>3. CASE motion = 13 /\ uart_flag
    <3>2. servo_flag \in 1 .. 3
      BY <1>0, <2>3 DEF Classified
    <3>3. servo' = "get"
      BY <2>1, <3>2 DEF Sequence
    <3>4. target_cnt # PicNum + 3
      BY <1>0, <2>3 DEF Stands
    <3>5. ~drop_flag
      BY <1>0, <2>1, <3>4 DEF HandOver
    <3>6. HandOver'
      BY <1>2, <2>1, <2>2, <2>3, <3>3, <3>5 DEF HandOver
    <3>7. Sorted'
      BY <1>0, <1>2, <2>1, <3>3 DEF Sorted, DeliveredRight
    <3> QED
      BY <1>4, <3>6, <3>7 DEF LoadInv
  <2>4. CASE motion = 14 \/ target_cnt = PicNum + 3
    <3>1. /\ servo_flag \in 4 .. 6
          /\ servo_flag = 6 => target_cnt = PicNum + 3
          /\ servo_flag # 6 => motion = 14 /\ target_cnt # PicNum + 3
      BY <1>0, <2>4, BinFlagIs DEF AtDepot
    <3>2. servo' = "drop"
      BY <2>1, <3>1 DEF Sequence
    <3>3. HandOver'
      BY <1>0, <1>2, <2>1, <2>2, <3>1, <3>2 DEF HandOver
    <3>4. Sorted'
      BY <1>0, <1>2, <2>1, <3>2 DEF Sorted, DeliveredRight
    <3> QED
      BY <1>4, <3>3, <3>4 DEF LoadInv
  <2> QED
    BY <1>0, <2>1, <2>3, <2>4 DEF HandOver
<1>7. CASE ServoPick
  <2>1. /\ servo = "get" /\ held' = IF here \in Pictures THEN {here} ELSE {}
        /\ pick_flag' = TRUE /\ servo' = "lift" /\ ticked' = FALSE /\ job' = job
        /\ put_flag' = put_flag /\ servo_flag_ctrl' = servo_flag_ctrl /\ drop_flag' = drop_flag
        /\ bins' = bins /\ delivered' = delivered
    BY <1>7 DEF ServoPick
  <2>2. motion = 13 /\ uart_flag /\ put_flag /\ job = servo_flag /\ target_cnt # PicNum + 3
    BY <1>0, <2>1 DEF HandOver, Stands
  <2>3. here \in Pictures /\ job \in 1 .. 3 /\ (Marked => job = BinFlag(truth[here]))
    BY <1>0, <2>2 DEF Classified
  <2>5. ~drop_flag
    BY <1>0, <2>1, <2>2 DEF HandOver
  <2>6. HandOver'
    BY <1>2, <2>1, <2>2, <2>5 DEF HandOver
  <2>7. Sorted'
    BY <1>0, <1>2, <2>1, <2>3 DEF Sorted, DeliveredRight
  <2> QED
    BY <1>4, <2>6, <2>7 DEF LoadInv
<1>8. CASE ServoPut
  <2>1. /\ servo = "lift" /\ ticked /\ bins' = [bins EXCEPT ![job] = @ \union held] /\ held' = {}
        /\ servo' \in {"home", "tail"} /\ ticked' = FALSE /\ job' = job
        /\ put_flag' = put_flag /\ pick_flag' = pick_flag /\ servo_flag_ctrl' = servo_flag_ctrl
        /\ drop_flag' = drop_flag /\ delivered' = delivered
    BY <1>8 DEF ServoPut, LiftDelay
  <2>2. HandOver'
    BY <1>0, <1>2, <2>1 DEF HandOver
  <2>3. job \in 1 .. 3 /\ held \subseteq Pictures /\ bins \in [1 .. 3 -> SUBSET Pictures]
    BY <1>0, <2>1 DEF Sorted
  <2>4. /\ bins' \in [1 .. 3 -> SUBSET Pictures]
        /\ \A b \in 1 .. 3 : bins'[b] = IF b = job THEN bins[b] \union held ELSE bins[b]
    BY <2>1, <2>3
  <2>5. Marked => \A b \in 1 .. 3 : \A p \in bins'[b] : BinFlag(truth[p]) = b
    BY <1>0, <2>1, <2>4 DEF Sorted
  <2>6. Sorted'
    BY <1>0, <1>2, <2>1, <2>4, <2>5 DEF Sorted, DeliveredRight
  <2> QED
    BY <1>4, <2>2, <2>6 DEF LoadInv
<1>9. CASE ServoHome \/ ServoTail \/ ServoTailed
  <2>1. /\ servo \in {"home", "tail", "tailed"} /\ servo' \in {"tailed", "clear"}
        /\ put_flag' \in {put_flag, TRUE} /\ job' = job /\ pick_flag' = pick_flag
        /\ servo_flag_ctrl' = servo_flag_ctrl /\ drop_flag' = drop_flag
        /\ held' = held /\ bins' = bins /\ delivered' = delivered
    BY <1>9 DEF ServoHome, ServoTail, ServoTailed, load
  <2>2. ~pick_flag /\ (drop_flag => target_cnt = PicNum + 3)
    BY <1>0, <2>1 DEF HandOver
  <2>3. HandOver'
    BY <1>2, <2>1, <2>2 DEF HandOver
  <2>4. Sorted'
    BY <1>0, <1>2, <2>1 DEF Sorted, DeliveredRight
  <2> QED
    BY <1>4, <2>3, <2>4 DEF LoadInv
<1>10. CASE ServoDrop
  <2>1. /\ servo = "drop" /\ bins' = [bins EXCEPT ![BinOf(job)] = {}]
        /\ delivered' = [tag \in 0 .. 2 |->
             IF here = Depot(tag) THEN delivered[tag] \union bins[BinOf(job)] ELSE delivered[tag]]
        /\ drop_flag' = TRUE /\ servo' = (IF job = 6 THEN "clear" ELSE "rote")
        /\ ticked' = FALSE /\ job' = job /\ held' = held
        /\ put_flag' = put_flag /\ pick_flag' = pick_flag /\ servo_flag_ctrl' = servo_flag_ctrl
    BY <1>10 DEF ServoDrop
  <2>2. /\ put_flag /\ job = servo_flag /\ job \in 4 .. 6 /\ ~pick_flag
        /\ job # 6 => motion = 14
        /\ job = 6 => target_cnt = PicNum + 3
    BY <1>0, <2>1 DEF HandOver
  <2>3. HandOver'
    BY <1>2, <2>1, <2>2 DEF HandOver
  <2>4. PICK tag \in 0 .. 2 : here = Depot(tag) /\ job = DropFlag(tag)
    <3>1. CASE job = 6
      BY <1>0, <2>2, <3>1, BinFlagIs DEF AtDepot
    <3>2. CASE job # 6
      BY <1>0, <2>2, <3>2 DEF AtDepot
    <3> QED
      BY <3>1, <3>2
  <2>5. BinOf(job) \in 1 .. 3 /\ BinOf(job) = BinFlag(tag)
    BY <2>4, BinFlagIs
  <2>6. /\ bins \in [1 .. 3 -> SUBSET Pictures] /\ delivered \in [0 .. 2 -> SUBSET Pictures]
        /\ Marked => \A p \in bins[BinOf(job)] : truth[p] = tag
    BY <1>0, <1>5, <2>5, BinFlagIs DEF Sorted
  <2>7. /\ bins' \in [1 .. 3 -> SUBSET Pictures]
        /\ \A b \in 1 .. 3 : bins'[b] \subseteq bins[b]
    BY <2>1, <2>5, <2>6
  <2>8. \A t \in 0 .. 2 : here = Depot(t) => t = tag
    BY <2>4 DEF Depot
  <2>9. delivered' \in [0 .. 2 -> SUBSET Pictures]
    BY <2>1, <2>5, <2>6
  <2>10. Marked => \A t \in 0 .. 2 : \A p \in delivered'[t] : truth[p] = t
    BY <1>0, <2>1, <2>6, <2>8 DEF Sorted, DeliveredRight
  <2>11. Sorted'
    <3>1. held' = {} /\ servo' # "lift"
      BY <1>0, <2>1 DEF Sorted
    <3>2. Marked => \A b \in 1 .. 3 : \A p \in bins'[b] : BinFlag(truth[p]) = b
      BY <1>0, <2>7 DEF Sorted
    <3> QED
      BY <1>2, <2>7, <2>9, <2>10, <3>1, <3>2 DEF Sorted, DeliveredRight
  <2> QED
    BY <1>4, <2>3, <2>11 DEF LoadInv
<1>11. CASE ServoRote \/ ServoClear
  <2>1. \/ servo = "rote" /\ ticked /\ servo' = "clear" /\ servo_flag_ctrl' = servo_flag_ctrl
        \/ servo = "clear" /\ servo' = "sleep" /\ servo_flag_ctrl' = FALSE
    BY <1>11 DEF ServoRote, ServoClear
  <2>2. /\ put_flag' = put_flag /\ job' = job /\ pick_flag' = pick_flag /\ drop_flag' = drop_flag
        /\ held' = held /\ bins' = bins /\ delivered' = delivered
    BY <1>11 DEF ServoRote, ServoClear, load
  <2>3. ~pick_flag /\ (drop_flag => target_cnt = PicNum + 3)
    BY <1>0, <2>1 DEF HandOver
  <2>4. HandOver'
    BY <1>2, <2>1, <2>2, <2>3 DEF HandOver
  <2>5. Sorted'
    BY <1>0, <1>2, <2>1, <2>2 DEF Sorted, DeliveredRight
  <2> QED
    BY <1>4, <2>4, <2>5 DEF LoadInv
<1> QED
  BY <1>6, <1>7, <1>8, <1>9, <1>10, <1>11 DEF ServoThread

\* A tick in a motion other than 13 and 14 that stays away from 1 and 14: nothing is
\* handed over.
LEMMA IdleTick ==
  ASSUME LoadInv, AnswerInv, motion \notin {13, 14}, motion' \notin {1, 14},
         motion = 1 => target_cnt \in {0, PicNum + 3},
         target_cnt = PicNum + 3 => motion' \in {15, 10, 4},
         target_cnt' = target_cnt, here' = here, servo_flag' = servo_flag,
         mail' = mail, data' = data, UNCHANGED <<route, clas, truth, gui>>, UNCHANGED arm,
         UNCHANGED <<put_flag, pick_flag, uart_flag, servo_flag_ctrl, drop_flag>>
  PROVE  LoadInv'
<1> USE MissionAssumption
<1>0. HandOver /\ Classified /\ Headed /\ AtDepot /\ Sorted /\ RouteOK
  BY DEF LoadInv
<1>1. Classified' /\ Sorted' /\ RouteOK'
  <2>1. UNCHANGED <<classVars, sortVars, routeVars>>
    BY DEF classVars, sortVars, routeVars, route, arm, load
  <2> QED
    BY <1>0, <2>1, ClassSame, SortSame, RouteSame
<1>2. /\ servo' = servo /\ job' = job /\ ~pick_flag /\ servo # "get"
      /\ drop_flag => target_cnt = PicNum + 3
      /\ servo = "drop" => job = 6
      /\ servo = "sleep" /\ servo_flag_ctrl => target_cnt = PicNum + 3
  BY <1>0 DEF HandOver, arm
<1>3. HandOver'
  BY <1>0, <1>2 DEF HandOver
<1>4. AtDepot'
  BY <1>0 DEF AtDepot
<1>5. Headed'
  <2>1. px' = px /\ lsttt' = lsttt /\ n' = n
    BY DEF route
  <2>2. motion = 1 => target_cnt \notin PicNum .. PicNum + 2
    OBVIOUS
  <2>3. motion # 1 => (Routed' <=> Routed)
    BY DEF Routed
  <2>4. target_cnt \in Nat
    BY DEF AnswerInv, Stands
  <2>5. CASE motion = 1
    BY <1>0, <2>1, <2>2, <2>4, <2>5 DEF Headed
  <2>6. CASE motion # 1
    BY <1>0, <2>1, <2>3, <2>6 DEF Headed
  <2> QED
    BY <2>5, <2>6
<1> QED
  BY <1>0, <1>1, <1>3, <1>4, <1>5 DEF LoadInv

\* While the car drives, nothing is handed over either.
LEMMA Driving ==
  ASSUME LoadInv, AnswerInv, motion = 1
  PROVE  /\ mail = << >> /\ data = "recv" /\ ~uart_flag /\ ~pick_flag /\ servo # "get"
         /\ drop_flag => target_cnt = PicNum + 3
         /\ servo = "drop" => target_cnt = PicNum + 3
         /\ servo = "sleep" /\ servo_flag_ctrl => target_cnt = PicNum + 3
BY Quiet DEF LoadInv, HandOver

LEMMA TimerLoad ==
  ASSUME LoadInv, AnswerInv, SearchInv, motorControl_timer1
  PROVE  LoadInv'
<1> USE MissionAssumption
<1>0. HandOver /\ Classified /\ Headed /\ AtDepot /\ Sorted /\ RouteOK /\ Stands /\ OnePlace
  BY DEF LoadInv, AnswerInv
<1>1. UNCHANGED threads
  BY DEF motorControl_timer1, Drive, DriveEnds, ArriveDepot, ArriveAt, ArrivePicture, ToEdgeAsked,
         Stopped, to_pic_drive, to_pic_near, protect_back, wait_get, wait_drop, to_edge, go_in
<1>2. /\ truth' = truth /\ UNCHANGED arm /\ servo' = servo /\ job' = job /\ held' = held
      /\ bins' = bins /\ delivered' = delivered
      /\ gui' = gui /\ clas' = clas /\ mail' = mail /\ data' = data
  BY <1>1 DEF threads, world, arm, load, frames
<1>3. Sorted'
  BY <1>0, <1>2, SortSame DEF sortVars
<1>4. CASE DriveEnds \/ ToEdgeAsked \/ Stopped \/ to_pic_drive \/ to_pic_near \/ protect_back
             \/ to_edge \/ go_in
  <2>1. /\ motion \notin {13, 14} /\ motion' \notin {1, 14}
        /\ target_cnt' = target_cnt /\ here' = here /\ servo_flag' = servo_flag
        /\ UNCHANGED route
        /\ UNCHANGED <<put_flag, pick_flag, uart_flag, servo_flag_ctrl, drop_flag>>
    BY <1>4 DEF DriveEnds, ToEdgeAsked, Stopped, to_pic_drive, to_pic_near, protect_back,
                to_edge, go_in, Tick, Wheels, Turn, hand, wheels
  <2>2. motion = 1 => target_cnt \in {0, PicNum + 3}
    <3>1. motion = 1 => DriveEnds \/ ToEdgeAsked
      BY <1>4 DEF Stopped, to_pic_drive, to_pic_near, protect_back, to_edge, go_in, Tick
    <3> QED
      BY <1>0, <3>1 DEF DriveEnds, ToEdgeAsked, Stands
  <2>3. target_cnt = PicNum + 3 => motion \in {1, 15, 10, 4}
    BY <1>0, <2>1 DEF AtDepot
  <2>4. motion \in {1, 15, 10, 4} => motion' \in {15, 10, 4}
    <3>1. CASE to_edge
      BY <3>1 DEF to_edge, Tick
    <3>2. CASE go_in
      BY <3>2 DEF go_in, Tick
    <3>3. CASE DriveEnds \/ ToEdgeAsked \/ Stopped
      BY <3>3 DEF DriveEnds, ToEdgeAsked, Stopped, Tick
    <3>4. CASE to_pic_drive \/ to_pic_near \/ protect_back
      <4>1. motion \in {5, 11}
        BY <3>4 DEF to_pic_drive, to_pic_near, protect_back, Tick
      <4> QED
        BY <4>1
    <3> QED
      BY <1>4, <3>1, <3>2, <3>3, <3>4
  <2> QED
    BY <1>2, <2>1, <2>2, <2>3, <2>4, IdleTick
<1>5. CASE Drive
  <2>1. /\ motion = 1 /\ motion' = 1 /\ target_cnt' = target_cnt /\ here' = Road
        /\ servo_flag' = servo_flag /\ UNCHANGED route
        /\ UNCHANGED <<put_flag, pick_flag, uart_flag, servo_flag_ctrl, drop_flag>>
        /\ sequencer => target_cnt < PicNum + 3
    BY <1>5 DEF Drive, Tick, hand
  <2>2. target_cnt # PicNum + 3
    BY <1>0, <2>1 DEF Stands
  <2>3. HandOver' /\ Classified'
    BY <1>2, <2>1, <2>2, Driving DEF HandOver, Classified
  <2>4. Headed' /\ AtDepot' /\ RouteOK'
    <3>1. UNCHANGED <<headVars, routeVars>>
      BY <1>2, <2>1 DEF headVars, routeVars, route
    <3> QED
      BY <1>0, <2>1, <2>2, <3>1, HeadSame, RouteSame DEF AtDepot
  <2> QED
    BY <1>3, <2>3, <2>4 DEF LoadInv
<1>6. CASE ArrivePicture
  <2>1. /\ motion = 1 /\ motion' = 3 /\ target_cnt' = target_cnt + 1 /\ target_cnt < PicNum
        /\ servo_flag' = servo_flag /\ UNCHANGED route
        /\ UNCHANGED <<put_flag, pick_flag, uart_flag, servo_flag_ctrl, drop_flag>>
    BY <1>6 DEF ArrivePicture, Tick, hand
  <2>2. target_cnt \in Nat
    BY <1>0 DEF Stands
  <2>3. HandOver' /\ Classified' /\ AtDepot'
    BY <1>2, <2>1, <2>2, Driving DEF HandOver, Classified, AtDepot
  <2>4. Headed'
    BY <1>0, <1>2, <2>1, <2>2, Driving DEF Headed, Routed, route
  <2>5. gui = "done"
    BY <2>1 DEF SearchInv
  <2>6. RouteOK'
    BY <1>0, <1>2, <2>1, <2>5 DEF RouteOK, route
  <2> QED
    BY <1>3, <2>3, <2>4, <2>6 DEF LoadInv
<1>7. CASE ArriveDepot
  <2>1. PICK tag \in 0 .. 2 :
          /\ motion = 1 /\ sequencer /\ target_cnt = PicNum + 2 - tag
          /\ here' = px[lsttt] /\ target_cnt' = target_cnt + 1
          /\ servo_flag' = DropFlag(tag) /\ motion' = 14 /\ NextDepot(tag)
          /\ UNCHANGED <<put_flag, pick_flag, uart_flag, servo_flag_ctrl, drop_flag>>
    BY <1>7 DEF ArriveDepot, ArriveAt, Tick, hand
  <2>2. /\ target_cnt \in PicNum .. PicNum + 2 /\ target_cnt \in Nat /\ target_cnt # PicNum + 3
        /\ target_cnt' = PicNum + 3 - tag
    BY <2>1
  <2>3. /\ px[lsttt] = Depot(tag) /\ n <= target_cnt + 1 /\ n \in Nat
        /\ px \in [Indices -> Places] /\ lsttt \in Indices /\ lstttt \in Indices
    BY <1>0, <2>1, <2>2 DEF Headed, Routed, RouteOK
  <2>4. HandOver' /\ Classified'
    BY <1>2, <2>1, <2>2, Driving DEF HandOver, Classified
  <2>5. AtDepot'
    BY <2>1, <2>2, <2>3, BinFlagIs DEF AtDepot
  <2>6. gui = "done"
    BY <2>1 DEF SearchInv
  <2>7. CASE tag = 0
    <3>1. UNCHANGED route /\ target_cnt' = PicNum + 3
      BY <2>1, <2>2, <2>7 DEF NextDepot
    <3>2. Headed'
      BY <3>1 DEF Headed
    <3>3. RouteOK'
      BY <1>0, <1>2, <2>6, <3>1 DEF RouteOK, route
    <3> QED
      BY <1>3, <2>4, <2>5, <3>2, <3>3 DEF LoadInv
  <2>8. CASE tag \in {1, 2}
    <3>1. /\ px' = [px EXCEPT ![n] = Depot(tag - 1)] /\ lsttt' = n /\ n' = n + 1
          /\ path' = path /\ path_clk' = path_clk /\ lstttt' = lstttt
      <4>1. CASE tag = 1
        BY <2>1, <4>1 DEF NextDepot, ACO_to_L, ToDepot
      <4>2. CASE tag = 2
        BY <2>1, <4>2 DEF NextDepot, ACO_to_T, ToDepot
      <4> QED
        BY <2>8, <4>1, <4>2
    <3>2. n \in Indices /\ Depot(tag - 1) \in Places
      BY <2>1, <2>3, <2>8 DEF Indices, Depot, Places, Road
    <3>3. px'[lsttt'] = Depot(tag - 1) /\ px' \in [Indices -> Places]
      BY <2>3, <3>1, <3>2
    <3>4. /\ PicNum + 2 - target_cnt' = tag - 1 /\ target_cnt' \in Nat /\ target_cnt' > PicNum
          /\ n' <= target_cnt' + 1
      <4>1. CASE tag = 1
        BY <2>1, <2>2, <2>3, <3>1, <4>1
      <4>2. CASE tag = 2
        BY <2>1, <2>2, <2>3, <3>1, <4>2
      <4> QED
        BY <2>8, <4>1, <4>2
    <3>5. Headed'
      <4>1. px'[lsttt'] = Depot(PicNum + 2 - target_cnt')
        BY <3>3, <3>4
      <4> QED
        BY <3>4, <4>1 DEF Headed
    <3>6. RouteOK'
      <4>1. /\ truth' = truth /\ clas' = clas /\ gui' = gui /\ path' = path /\ path_clk' = path_clk
            /\ lstttt' = lstttt /\ lsttt' \in Indices /\ n' \in Nat
        BY <1>2, <2>3, <3>1, <3>2
      <4> QED
        BY <1>0, <2>6, <3>3, <4>1 DEF RouteOK
    <3> QED
      BY <1>3, <2>4, <2>5, <3>5, <3>6 DEF LoadInv
  <2> QED
    BY <2>7, <2>8
<1>8. CASE wait_get \/ wait_drop
  <2>1. /\ motion \in {13, 14} /\ target_cnt' = target_cnt /\ here' = here
        /\ servo_flag' = servo_flag /\ ticked' = TRUE /\ UNCHANGED route
    <3>1. CASE wait_get
      BY <3>1 DEF wait_get, Tick, wheels
    <3>2. CASE wait_drop
      BY <3>2 DEF wait_drop, Tick
    <3> QED
      BY <1>8, <3>1, <3>2
  <2>2. RouteOK'
    BY <1>0, <1>2, <2>1, RouteSame DEF routeVars, route
  <2>3. motion = 13 => target_cnt <= PicNum /\ target_cnt # PicNum + 3
    BY <1>0 DEF Stands
  <2>4. CASE wait_get
    <3>1. motion = 13 /\ drop_flag' = drop_flag /\ ~drop_flag
      BY <1>0, <2>3, <2>4 DEF wait_get, Tick, HandOver
    <3>2. CASE ~(uart_flag /\ put_flag)
      <4>1. /\ motion' = motion
            /\ UNCHANGED <<put_flag, pick_flag, uart_flag, servo_flag_ctrl>>
        BY <2>4, <3>2 DEF wait_get, Tick
      <4>2. ~pick_flag /\ servo # "drop" /\ servo # "get"
        BY <1>0, <2>3, <3>1, <3>2 DEF HandOver
      <4>3. HandOver'
        BY <1>0, <1>2, <2>1, <3>1, <4>1, <4>2 DEF HandOver
      <4>4. UNCHANGED <<classVars, headVars, depotVars>>
        BY <1>2, <2>1, <4>1 DEF classVars, headVars, depotVars, route
      <4> QED
        BY <1>0, <1>3, <2>2, <4>3, <4>4, ClassSame, HeadSame, DepotSame DEF LoadInv
    <3>3. CASE uart_flag /\ put_flag /\ ~pick_flag
      <4>1. /\ motion' = motion /\ servo_flag_ctrl' = TRUE
            /\ UNCHANGED <<put_flag, pick_flag, uart_flag>>
        BY <2>4, <3>3 DEF wait_get, Tick
      <4>2. HandOver'
        BY <1>0, <1>2, <2>1, <2>3, <3>1, <3>3, <4>1 DEF HandOver
      <4>3. UNCHANGED <<classVars, headVars, depotVars>>
        BY <1>2, <2>1, <4>1 DEF classVars, headVars, depotVars, route
      <4> QED
        BY <1>0, <1>3, <2>2, <4>2, <4>3, ClassSame, HeadSame, DepotSame DEF LoadInv
    <3>4. CASE uart_flag /\ put_flag /\ pick_flag
      <4>1. motion' = 1 /\ pick_flag' = FALSE /\ uart_flag' = FALSE /\ put_flag' = FALSE
        BY <2>4, <3>4 DEF wait_get, Tick, PickTaken, UartTaken
      <4>2. servo = "lift" /\ data = "recv"
        BY <1>0, <3>4 DEF HandOver, OnePlace
      <4>3. HandOver'
        BY <1>2, <2>1, <3>1, <4>1, <4>2 DEF HandOver
      <4>4. Classified'
        BY <1>0, <1>2, <2>1, <4>1, <4>2 DEF Classified
      <4>5. AtDepot'
        BY <1>0, <2>1, <2>3, <3>1, <4>1 DEF AtDepot
      <4>6. Headed'
        BY <1>0, <2>1, <3>4, <4>1 DEF Headed, Routed, route
      <4> QED
        BY <1>3, <2>2, <4>3, <4>4, <4>5, <4>6 DEF LoadInv
    <3> QED
      BY <3>2, <3>3, <3>4
  <2>5. CASE wait_drop
    <3>1. /\ motion = 14 /\ motion' \in {1, 14} /\ put_flag' = put_flag /\ pick_flag' = pick_flag
          /\ uart_flag' = uart_flag
          /\ IF put_flag
               THEN /\ servo_flag_ctrl' = TRUE /\ drop_flag' = FALSE
                    /\ motion' = IF drop_flag THEN 1 ELSE 14
               ELSE servo_flag_ctrl' = servo_flag_ctrl /\ drop_flag' = drop_flag /\ motion' = 14
      BY <2>5 DEF wait_drop, Tick
    <3>2. ~pick_flag /\ servo # "get" /\ ~uart_flag /\ data = "recv" /\ mail = << >>
      BY <1>0, <3>1, Quiet DEF HandOver
    <3>3. HandOver'
      BY <1>0, <1>2, <2>1, <3>1, <3>2 DEF HandOver
    <3>4. Classified'
      BY <1>2, <2>1, <3>1, <3>2 DEF Classified
    <3>5. AtDepot'
      BY <1>0, <2>1, <3>1 DEF AtDepot
    <3>6. Headed'
      BY <1>0, <1>2, <2>1, <3>1 DEF Headed, Routed, route
    <3> QED
      BY <1>3, <2>2, <3>3, <3>4, <3>5, <3>6 DEF LoadInv
  <2> QED
    BY <1>8, <2>4, <2>5
<1> QED
  BY <1>4, <1>5, <1>6, <1>7, <1>8, motorControl_timer1 DEF motorControl_timer1

\* data_t: frame to clas[], clas[] to servo_flag, then uart_flag.
LEMMA DataLoad ==
  ASSUME LoadInv, AnswerInv, SearchInv, Repeats = 0, DataThread
  PROVE  LoadInv'
<1> USE MissionAssumption
<1>0. /\ HandOver /\ Classified /\ Headed /\ AtDepot /\ Sorted /\ RouteOK
      /\ Stands /\ OnePlace /\ Awaited
  BY DEF LoadInv, AnswerInv
<1>1. /\ UNCHANGED dless
      /\ DataClass \/ DataRoute \/ DataBin \/ DataFlag \/ DataEdge
  BY DEF DataThread, DataClass, DataRoute, DataBin, DataFlag, DataEdge
<1>2. /\ truth' = truth /\ motion' = motion /\ target_cnt' = target_cnt /\ here' = here
      /\ UNCHANGED <<put_flag, pick_flag, servo_flag_ctrl, drop_flag>>
      /\ servo' = servo /\ job' = job /\ held' = held /\ bins' = bins /\ delivered' = delivered
      /\ ticked' = ticked /\ gui' = gui
  BY <1>1 DEF dless, world, wheels, arm, load, times
<1>3. Sorted'
  BY <1>0, <1>2, SortSame DEF sortVars
<1>4. TakeFrame => repeats' = repeats /\ mail' = Tail(mail)
  BY DEF TakeFrame, AnswerInv
<1>5. mail # << >> => mail = << Head(mail) >> /\ Tail(<< Head(mail) >>) = << >>
  BY <1>0 DEF Awaited
<1>6. CASE DataEdge
  <2>1. /\ mail # << >> /\ mail' = << >> /\ data = "recv" /\ data' = data
        /\ uart_flag' = uart_flag /\ servo_flag' = servo_flag /\ UNCHANGED <<route, clas>>
    BY <1>4, <1>5, <1>6 DEF DataEdge
  <2>2. UNCHANGED <<handVars, headVars, depotVars, routeVars>>
    BY <1>2, <2>1 DEF handVars, headVars, depotVars, routeVars, route
  <2>3. Classified'
    BY <1>0, <1>2, <2>1 DEF Classified
  <2> QED
    BY <1>0, <1>3, <2>2, <2>3, HandSame, HeadSame, DepotSame, RouteSame DEF LoadInv
<1>7. CASE DataClass \/ DataRoute \/ DataBin \/ DataFlag
  <2>1. motion = 13 /\ ~uart_flag /\ target_cnt <= PicNum /\ target_cnt \in Nat
    BY <1>0, <1>7 DEF DataClass, DataRoute, DataBin, DataFlag, OnePlace, Awaited, Stands
  <2>2. /\ servo # "get" /\ ~pick_flag /\ servo # "drop" /\ ~drop_flag
        /\ ~(servo = "sleep" /\ servo_flag_ctrl)
    BY <1>0, <2>1 DEF HandOver
  <2>3. HandOver'
    BY <1>2, <2>2 DEF HandOver
  <2>4. AtDepot'
    BY <1>2, <2>1 DEF AtDepot
  <2>5. gui = "done"
    BY <2>1 DEF SearchInv
  <2>6. CASE DataClass
    <3>1. /\ data = "recv" /\ mail # << >> /\ Head(mail).fn = "#" /\ mail' = << >> /\ data' = "route"
          /\ clas' = ClassAfter(Head(mail))
          /\ uart_flag' = uart_flag /\ servo_flag' = servo_flag
          /\ IF target_cnt < PicNum THEN ACO_to_next ELSE UNCHANGED route
      BY <1>4, <1>5, <2>6 DEF DataClass, MorePictures
    <3>2. /\ here \in Pictures /\ Head(mail).tag = truth[here] /\ truth[here] \in 0 .. 2
          /\ Marked => Head(mail).mark = "A"
          /\ lsttt \in Indices /\ lstttt \in Indices /\ clas \in [Indices -> 0 .. 2]
      BY <1>0, <3>1 DEF Classified, RouteOK, Marked
    <3>3. clas' \in [Indices -> 0 .. 2] /\ (Marked => clas'[lsttt] = truth[here])
      BY <3>1, <3>2 DEF ClassAfter
    <3>4. px' = px /\ n' = n /\ path' = path
      BY <3>1 DEF ACO_to_next, route
    <3>5. Headed'
      <4>1. ~Routed' /\ ~Routed
        BY <1>2, <2>1, <3>1 DEF Routed
      <4> QED
        BY <1>0, <1>2, <3>4, <4>1 DEF Headed
    <3>6. CASE target_cnt < PicNum
      <4>1. lstttt' = lsttt /\ path_clk' = path_clk + 1 /\ lsttt' = Entry(path_clk + 1)
        BY <3>1, <3>6 DEF ACO_to_next
      <4>2. lsttt' \in Indices
        BY <1>0, <4>1 DEF RouteOK, Entry, Indices
      <4>3. Classified'
        <5>1. (IF target_cnt' = PicNum THEN lsttt' ELSE lstttt') = lsttt
          BY <1>2, <2>1, <3>6, <4>1
        <5>2. /\ Marked => truth'[here'] = clas'[lsttt]
              /\ here' \in Pictures /\ mail' = << >>
              /\ data' = "route" /\ ~uart_flag'
          BY <1>2, <2>1, <3>1, <3>2, <3>3
        <5> QED
          BY <5>1, <5>2 DEF Classified
      <4>4. path_clk' \in Nat \ {0} /\ gui' = "done" /\ lstttt' \in Indices /\ n' \in Nat
        BY <1>0, <1>2, <2>5, <3>2, <3>4, <4>1 DEF RouteOK
      <4>5. RouteOK'
        BY <1>0, <1>2, <3>3, <3>4, <4>2, <4>4 DEF RouteOK
      <4> QED
        BY <1>3, <2>3, <2>4, <3>5, <4>3, <4>5 DEF LoadInv
    <3>7. CASE ~(target_cnt < PicNum)
      <4>1. lstttt' = lstttt /\ path_clk' = path_clk /\ lsttt' = lsttt /\ target_cnt = PicNum
        BY <2>1, <3>1, <3>7 DEF route
      <4>2. Classified'
        BY <1>2, <2>1, <3>1, <3>2, <3>3, <4>1 DEF Classified
      <4>3. RouteOK'
        BY <1>0, <1>2, <3>3, <3>4, <4>1 DEF RouteOK
      <4> QED
        BY <1>3, <2>3, <2>4, <3>5, <4>2, <4>3 DEF LoadInv
    <3> QED
      BY <3>6, <3>7
  <2>7. CASE DataRoute
    <3>1. /\ data = "route" /\ data' = "bin" /\ mail' = mail /\ clas' = clas
          /\ uart_flag' = uart_flag /\ servo_flag' = servo_flag
          /\ IF target_cnt = PicNum THEN ACO_to_R ELSE UNCHANGED route
      BY <2>7 DEF DataRoute
    <3>2. mail = << >> /\ here \in Pictures /\ ~Routed /\ Routed'
      BY <1>0, <2>1, <3>1 DEF OnePlace, Classified, Routed
    <3>3. CASE target_cnt = PicNum
      <4>1. /\ px' = [px EXCEPT ![n] = Depot(2)] /\ lsttt' = n /\ n' = n + 1 /\ lstttt' = lsttt
            /\ path' = path /\ path_clk' = path_clk
        BY <3>1, <3>3 DEF ACO_to_R, ToDepot
      <4>2. n \in Indices /\ n <= PicNum /\ Depot(2) \in Places
        BY <1>0, <3>2, <3>3 DEF Headed, RouteOK, Indices, Depot, Places, Road
      <4>3. px'[lsttt'] = Depot(2) /\ px' \in [Indices -> Places]
        BY <1>0, <4>1, <4>2 DEF RouteOK
      <4>4. Headed'
        BY <1>2, <3>2, <3>3, <4>1, <4>2, <4>3 DEF Headed, Indices
      <4>5. Classified'
        <5>1. Marked => truth[here] = clas[lsttt]
          BY <1>0, <3>1, <3>3 DEF Classified
        <5> QED
          BY <1>2, <2>1, <3>1, <3>2, <4>1, <5>1 DEF Classified
      <4>6. gui' = "done" /\ lsttt' \in Indices /\ lstttt' \in Indices /\ n' \in Nat
        BY <1>0, <1>2, <2>5, <4>1, <4>2 DEF RouteOK
      <4>7. RouteOK'
        BY <1>0, <1>2, <3>1, <4>1, <4>3, <4>6 DEF RouteOK
      <4> QED
        BY <1>3, <2>3, <2>4, <4>4, <4>5, <4>7 DEF LoadInv
    <3>4. CASE target_cnt # PicNum
      <4>1. UNCHANGED route
        BY <3>1, <3>4
      <4>2. Classified'
        BY <1>0, <1>2, <2>1, <3>1, <3>2, <3>4, <4>1 DEF Classified, route
      <4>3. Headed'
        BY <1>0, <1>2, <2>1, <3>4, <4>1 DEF Headed, route
      <4>4. RouteOK'
        BY <1>0, <1>2, <3>1, <4>1 DEF RouteOK, route
      <4> QED
        BY <1>3, <2>3, <2>4, <4>2, <4>3, <4>4 DEF LoadInv
    <3> QED
      BY <3>3, <3>4
  <2>8. CASE DataBin \/ DataFlag
    <3>1. /\ mail' = mail /\ clas' = clas /\ UNCHANGED route
          /\ \/ /\ data = "bin" /\ data' = "flag" /\ uart_flag' = uart_flag
                /\ servo_flag' = BinFlag(clas[lstttt])
             \/ data = "flag" /\ data' = "recv" /\ uart_flag' = TRUE /\ servo_flag' = servo_flag
      BY <2>8 DEF DataBin, DataFlag, PlaceClassified
    <3>2. mail = << >> /\ Routed /\ Routed'
      BY <1>0, <3>1 DEF OnePlace, Routed
    <3>3. Classified'
      <4>1. lstttt \in Indices /\ clas[lstttt] \in 0 .. 2 /\ (Marked /\ data = "bin" => clas[lstttt] = truth[here])
        BY <1>0 DEF RouteOK, Classified
      <4>2. BinFlag(clas[lstttt]) \in 1 .. 3
        BY <4>1, BinFlagIs
      <4> QED
        BY <1>0, <1>2, <2>1, <3>1, <3>2, <4>1, <4>2 DEF Classified, route
    <3>4. Headed'
      BY <1>0, <1>2, <3>1, <3>2 DEF Headed, route
    <3>5. RouteOK'
      BY <1>0, <1>2, <3>1 DEF RouteOK, route
    <3> QED
      BY <1>3, <2>3, <2>4, <3>3, <3>4, <3>5 DEF LoadInv
  <2> QED
    BY <1>7, <2>6, <2>7, <2>8
<1> QED
  BY <1>1, <1>6, <1>7

\* main changes motion only, from 3 or 11 to 5 or 11.
LEMMA MainMotion ==
  ASSUME SearchInv, AnswerInv, MainThread
  PROVE  /\ UNCHANGED rest
         /\ motion' = motion \/ (motion \in {3, 11} /\ motion' \in {5, 11})
BY DEF MainThread, MainPoll, MainSettled, MainLook, MainSeen, MainFound, MainRelook, MainCheck,
   MainStill, MainAim, MainRefound, SearchInv, AnswerInv, Stands

LEMMA MainLoad ==
  ASSUME LoadInv, AnswerInv, SearchInv, MainThread
  PROVE  LoadInv'
<1> USE MissionAssumption
<1>0. HandOver /\ Classified /\ Headed /\ AtDepot /\ Sorted /\ RouteOK
  BY DEF LoadInv
<1>1. /\ UNCHANGED rest
      /\ motion' = motion \/ (motion \in {3, 11} /\ motion' \in {5, 11})
  BY MainMotion
<1>2. /\ UNCHANGED <<target_cnt, here, servo_flag, uart_flag, put_flag, pick_flag, drop_flag,
                     servo_flag_ctrl>>
      /\ UNCHANGED <<classVars, sortVars, routeVars>> /\ UNCHANGED <<servo, job, ticked>>
      /\ UNCHANGED <<data, px, lsttt, n>>
  BY <1>1 DEF rest, world, wheels, hand, arm, load, route, frames, classVars, sortVars, routeVars
<1>3. Classified' /\ Sorted' /\ RouteOK'
  BY <1>0, <1>2, ClassSame, SortSame, RouteSame
<1>4. CASE motion' = motion
  BY <1>0, <1>2, <1>3, <1>4, HandSame, HeadSame, DepotSame DEF LoadInv, handVars, headVars, depotVars
<1>5. CASE motion \in {3, 11} /\ motion' \in {5, 11}
  <2>1. target_cnt # PicNum + 3
    BY <1>5 DEF AnswerInv, Stands
  <2>2. HandOver'
    BY <1>0, <1>2, <1>5, <2>1 DEF HandOver
  <2>3. AtDepot'
    BY <1>2, <1>5, <2>1 DEF AtDepot
  <2>4. Headed'
    BY <1>0, <1>2, <1>5 DEF Headed, Routed
  <2> QED
    BY <1>3, <2>2, <2>3, <2>4 DEF LoadInv
<1> QED
  BY <1>1, <1>4, <1>5

\* The cameras answer with the class of the picture below the car.
LEMMA CameraLoad ==
  ASSUME LoadInv, AnswerInv, Answer \/ Lose
  PROVE  LoadInv'
<1>0. HandOver /\ Classified /\ Headed /\ AtDepot /\ Sorted /\ RouteOK
  BY DEF LoadInv
<1>1. UNCHANGED <<handVars, headVars, depotVars, sortVars, routeVars>>
  BY DEF Answer, Lose, world, wheels, hand, arm, load, times, route, handVars, headVars, depotVars,
         sortVars, routeVars
<1>2. HandOver' /\ Headed' /\ AtDepot' /\ Sorted' /\ RouteOK'
  BY <1>0, <1>1, HandSame, HeadSame, DepotSame, SortSame, RouteSame
<1>3. CASE Answer
  <2>1. PICK frame \in Frames :
        /\ mail' = << frame >>
        /\ asked = "class" => here \in Pictures
        /\ mail = << >> /\ data = "recv" /\ ~uart_flag
        /\ data' = data /\ uart_flag' = uart_flag /\ here' = here /\ truth' = truth
    BY <1>3 DEF Answer, AnswerInv, OnePlace, world, wheels, hand
  <2>2. Head(mail') = frame
    BY <2>1
  <2>3. frame.fn = "#" => asked = "class" /\ frame.tag = truth[here] /\ frame.mark \in Layouts
    BY DEF Frames
  <2>4. Classified'
    BY <2>1, <2>2, <2>3 DEF Classified
  <2> QED
    BY <1>2, <2>4 DEF LoadInv
<1>4. CASE Lose
  <2>1. UNCHANGED classVars
    BY <1>4 DEF Lose, classVars, world, wheels, hand, route
  <2> QED
    BY <1>0, <1>2, <2>1, ClassSame DEF LoadInv
<1> QED
  BY <1>3, <1>4

\* The route is planned, and the mission started, before anything is asked.
LEMMA GuiLoad ==
  ASSUME LoadInv, AnswerInv, SearchInv, GuiPlan \/ GuiStart
  PROVE  LoadInv'
<1> USE MissionAssumption
<1>0. HandOver /\ Classified /\ Headed /\ AtDepot /\ Sorted /\ RouteOK
  BY DEF LoadInv
<1>1. /\ gui # "done" /\ motion = 0 /\ target_cnt = 0 /\ path_clk = 1
      /\ mail = << >> /\ data = "recv" /\ ~uart_flag
  BY Quiet DEF GuiPlan, GuiStart, SearchInv, LoadInv, RouteOK
<1>2. /\ UNCHANGED <<target_cnt, here, servo_flag, uart_flag, put_flag, pick_flag, drop_flag,
                     servo_flag_ctrl>>
      /\ UNCHANGED <<sortVars, mail, data, truth, clas, servo, job, ticked, path_clk>>
      /\ motion' \in {0, 1}
  BY <1>1 DEF GuiPlan, GuiStart, ACO_to_first, world, wheels, hand, arm, load, times, frames, route, sortVars
<1>3. ~pick_flag /\ servo # "get" /\ servo # "drop" /\ ~drop_flag /\ ~(servo = "sleep" /\ servo_flag_ctrl)
  BY <1>0, <1>1 DEF HandOver
<1>4. HandOver' /\ Classified' /\ Sorted'
  BY <1>0, <1>1, <1>2, <1>3, SortSame DEF HandOver, Classified
<1>5. AtDepot'
  BY <1>1, <1>2 DEF AtDepot
<1>6. CASE GuiPlan
  <2>1. /\ ACO_to_first /\ gui' = "planned" /\ motion' = motion
    BY <1>6 DEF GuiPlan
  <2>2. path' \in [0 .. PicNum -> 0 .. PicNum]
    BY <2>1 DEF ACO_to_first, Shuffled, Bijection, Injection, Surjection
  <2>3. /\ n' = PicNum /\ lstttt' = 0 /\ lsttt' = path'[1]
        /\ px' = [k \in Indices |-> IF k < PicNum THEN k ELSE Start]
    BY <1>1, <2>1 DEF ACO_to_first
  <2>4. px' \in [Indices -> Places] /\ lsttt' \in Indices /\ lstttt' \in Indices
    BY <2>2, <2>3 DEF Indices, Places, Start, Road
  <2>5. RouteOK'
    BY <1>0, <1>1, <1>2, <2>2, <2>3, <2>4 DEF RouteOK
  <2>6. Headed'
    BY <1>1, <1>2, <2>3 DEF Headed
  <2> QED
    BY <1>4, <1>5, <2>5, <2>6 DEF LoadInv
<1>7. CASE GuiStart
  <2>1. UNCHANGED route /\ gui' = "done"
    BY <1>7 DEF GuiStart
  <2>2. RouteOK' /\ Headed'
    BY <1>0, <1>1, <1>2, <2>1 DEF RouteOK, Headed, route
  <2> QED
    BY <1>4, <1>5, <2>2 DEF LoadInv
<1> QED
  BY <1>6, <1>7

LEMMA StepLoad ==
  Repeats = 0 /\ SearchInv /\ AnswerInv /\ LoadInv /\ [Next]_vars => LoadInv'
<1> SUFFICES ASSUME Repeats = 0, SearchInv, AnswerInv, LoadInv, [Next]_vars PROVE LoadInv'
  OBVIOUS
<1>1. CASE UNCHANGED vars
  <2>1. UNCHANGED <<handVars, classVars, headVars, depotVars, sortVars, routeVars>>
    BY <1>1 DEF vars, world, wheels, hand, arm, load, times, route, frames, handVars, classVars,
                headVars, depotVars, sortVars, routeVars
  <2> QED
    BY <2>1, HandSame, ClassSame, HeadSame, DepotSame, SortSame, RouteSame DEF LoadInv
<1> QED
  BY <1>1, TimerLoad, MainLoad, ServoLoad, DataLoad, CameraLoad, GuiLoad DEF Next

\* "Based on the three big categories pictures were carried to three different
\* designated places": with any number of pictures, whatever way the cameras' frames,
\* data_t, timer1 and the arm interleave, a picture is only dropped at the place of its
\* class.  (With frames that data_t acts on twice it may not be: Repeats = 0.  Nor with
\* frames that have no 'A' behind the '#', whose class data_analysis does not read.)
THEOREM DeliversRight ==
  ASSUME Repeats = 0, Layouts = {"A"}
  PROVE  Spec => []DeliveredRight
<1>1. SearchInv /\ AnswerInv /\ [Next]_vars => AnswerInv'
  BY StepAnswer
<1>2. SearchInv /\ AnswerInv /\ LoadInv /\ [Next]_vars => LoadInv'
  BY StepLoad
<1>3. LoadInv => DeliveredRight
  BY DEF LoadInv, Sorted, Marked
<1> QED
  BY <1>1, <1>2, <1>3, InitSearch, StepSearch, InitAnswer, InitLoad, PTL DEF Spec

-----------------------------------------------------------------------------
\* The car stands in all respects while it waits over a picture; a drop that has not
\* been taken is one whose arm is still turning, or the left one; the tail is asked for
\* while the last picture is lifted.
Halted == motion = 13 => moving = FALSE /\ turning = FALSE
DropTaken == drop_flag => job = 6 \/ (servo = "rote" /\ target_cnt # PicNum + 3)
TailTaken == drop_tail_flag => target_cnt >= PicNum /\ servo \in {"lift", "tail", "tailed"}
FlagInv == Halted /\ DropTaken /\ TailTaken

LEMMA InitFlags == Init => FlagInv
  BY DEF Init, FlagInv, Halted, DropTaken, TailTaken

LEMMA TimerFlags ==
  ASSUME FlagInv, LoadInv, AnswerInv, motorControl_timer1
  PROVE  FlagInv'
<1> USE MissionAssumption
<1>1. servo' = servo /\ job' = job
  BY DEF motorControl_timer1, Drive, DriveEnds, ArriveDepot, ArriveAt, ArrivePicture, ToEdgeAsked,
         Stopped, to_pic_drive, to_pic_near, protect_back, wait_get, wait_drop, to_edge, go_in,
         threads, arm, load
<1>2. /\ target_cnt \in Nat
      /\ target_cnt' = target_cnt
         \/ (motion = 1 /\ target_cnt # PicNum + 3 /\ target_cnt' = target_cnt + 1)
  <2>1. target_cnt \in Nat
    BY DEF AnswerInv, Stands
  <2>2. CASE ArriveDepot
    <3>1. PICK tag \in 0 .. 2 : ArriveAt(tag) /\ target_cnt' = target_cnt + 1
      BY <2>2 DEF ArriveDepot
    <3>2. motion = 1 /\ target_cnt = PicNum + 2 - tag
      BY <3>1 DEF ArriveAt, Tick
    <3> QED
      BY <2>1, <3>1, <3>2
  <2>3. CASE ArrivePicture
    <3>1. motion = 1 /\ target_cnt < PicNum /\ target_cnt' = target_cnt + 1
      BY <2>3 DEF ArrivePicture, Tick
    <3> QED
      BY <2>1, <3>1
  <2>4. CASE ~ArriveDepot /\ ~ArrivePicture
    <3>1. target_cnt' = target_cnt
      BY <2>4 DEF motorControl_timer1, Drive, DriveEnds, ToEdgeAsked, Stopped, to_pic_drive, to_pic_near,
         protect_back, wait_get, wait_drop, to_edge, go_in
    <3> QED
      BY <2>1, <3>1
  <2> QED
    BY <2>2, <2>3, <2>4
<1>3. Halted'
  <2>1. CASE to_pic_near
    BY <2>1 DEF to_pic_near, Wheels, Halted
  <2>2. CASE wait_get
    BY <2>2 DEF wait_get, wheels, Tick, FlagInv, Halted
  <2>3. CASE ArriveDepot
    <3>1. motion' = 14
      BY <2>3 DEF ArriveDepot
    <3> QED
      BY <3>1 DEF Halted
  <2>4. CASE Drive \/ DriveEnds \/ ArrivePicture \/ ToEdgeAsked
    <3>1. motion' \in {1, 4, 3, 15}
      BY <2>4 DEF Tick, Wheels, Turn, Drive, DriveEnds, ArrivePicture, ToEdgeAsked
    <3> QED
      BY <3>1 DEF Halted
  <2>5. CASE Stopped \/ to_pic_drive \/ protect_back
    <3>1. motion \in {0, 3, 4, 5, 11} /\ motion' = motion
      BY <2>5 DEF Tick, Wheels, Turn, Stopped, to_pic_drive, protect_back
    <3> QED
      BY <3>1 DEF Halted
  <2>6. CASE wait_drop
    <3>1. motion = 14 /\ motion' \in {1, 14}
      BY <2>6 DEF Tick, wait_drop
    <3> QED
      BY <3>1 DEF Halted
  <2>7. CASE to_edge \/ go_in
    <3>1. motion \in {10, 15} /\ motion' \in {4, 10, 15}
      BY <2>7 DEF Tick, Wheels, Turn, to_edge, go_in
    <3> QED
      BY <3>1 DEF Halted
  <2> QED
    BY <2>1, <2>2, <2>3, <2>4, <2>5, <2>6, <2>7 DEF motorControl_timer1
<1>4. drop_flag' => drop_flag
  BY DEF motorControl_timer1, hand, Drive, DriveEnds, ArriveDepot, ArriveAt, ArrivePicture, ToEdgeAsked,
         Stopped, to_pic_drive, to_pic_near, protect_back, wait_get, wait_drop, to_edge, go_in
<1>5. drop_tail_flag' => drop_tail_flag \/ (pick_flag /\ target_cnt = PicNum /\ target_cnt' = target_cnt)
  BY DEF motorControl_timer1, hand, Drive, DriveEnds, ArriveDepot, ArriveAt, ArrivePicture, ToEdgeAsked,
         Stopped, to_pic_drive, to_pic_near, protect_back, wait_get, wait_drop, to_edge, go_in
<1>6. pick_flag => servo = "lift"
  BY DEF LoadInv, HandOver
<1>7. drop_flag => target_cnt' = target_cnt
  BY <1>2 DEF LoadInv, HandOver
<1>8. DropTaken'
  BY <1>1, <1>4, <1>7 DEF FlagInv, DropTaken
<1>9. TailTaken'
  BY <1>1, <1>2, <1>5, <1>6 DEF FlagInv, TailTaken
<1> QED
  BY <1>3, <1>8, <1>9 DEF FlagInv

LEMMA ServoFlags ==
  ASSUME FlagInv, LoadInv, AnswerInv, ServoThread
  PROVE  FlagInv'
<1> USE MissionAssumption
<1>1. /\ motion' = motion /\ moving' = moving /\ turning' = turning /\ target_cnt' = target_cnt
      /\ target_cnt \in Nat
  BY DEF ServoThread, sless, wheels, ServoPoll, ServoPick, ServoPut, ServoHome, ServoTail, ServoTailed,
         ServoDrop, ServoRote, ServoClear, AnswerInv, Stands
<1>2. Halted'
  BY <1>1 DEF FlagInv, Halted
<1>3. DropTaken'
  <2>1. drop_flag /\ servo = "sleep" => job = 6
    BY DEF FlagInv, DropTaken
  <2>2. drop_flag /\ servo = "sleep" /\ servo_flag_ctrl => servo_flag = 6
    BY DEF LoadInv, HandOver, AtDepot
  <2>3. drop_flag /\ servo = "rote" /\ ticked => job = 6
    BY DEF LoadInv, HandOver, FlagInv, DropTaken
  <2>4. servo = "drop" /\ job # 6 => target_cnt # PicNum + 3
    BY DEF LoadInv, HandOver, AtDepot
  <2>5. CASE ServoPoll
    BY <1>1, <2>2, <2>5 DEF ServoPoll, DropTaken
  <2>6. CASE ServoDrop
    BY <1>1, <2>4, <2>6 DEF ServoDrop, DropTaken
  <2>7. CASE ServoRote
    BY <1>1, <2>3, <2>7 DEF ServoRote, DropTaken
  <2>8. CASE ServoPick \/ ServoPut \/ ServoHome \/ ServoTail \/ ServoTailed \/ ServoClear
    <3>1. drop_flag' = drop_flag /\ job' = job /\ servo # "rote"
      BY <2>8 DEF ServoPick, ServoPut, ServoHome, ServoTail, ServoTailed, ServoClear
    <3> QED
      BY <3>1 DEF FlagInv, DropTaken
  <2> QED
    BY <2>5, <2>6, <2>7, <2>8 DEF ServoThread
<1>4. TailTaken'
  <2>1. /\ drop_tail_flag' => drop_tail_flag
        /\ drop_tail_flag /\ servo = "lift" => servo' \in {"lift", "tail"} \/ target_cnt < PicNum
        /\ drop_tail_flag /\ servo = "tail" => servo' \in {"tail", "tailed"}
        /\ servo = "tailed" => ~drop_tail_flag' \/ servo' = servo
    BY DEF ServoThread, ServoPoll, ServoPick, ServoPut, ServoHome, ServoTail, ServoTailed, ServoDrop,
       ServoRote, ServoClear
  <2> QED
    BY <1>1, <2>1 DEF FlagInv, TailTaken
<1> QED
  BY <1>2, <1>3, <1>4 DEF FlagInv

\* main leaves the arm alone, and stands or creeps in other motions than 13.
LEMMA OtherFlags ==
  ASSUME FlagInv, AnswerInv,
         MainThread \/ DataThread \/ Answer \/ Lose \/ GuiPlan \/ GuiStart \/ UNCHANGED vars
  PROVE  FlagInv'
<1>1. /\ UNCHANGED <<moving, turning, drop_flag, job, servo, drop_tail_flag, target_cnt>>
      /\ motion' = 13 => motion = 13
  <2>1. CASE MainThread
    BY <2>1 DEF MainThread, MainPoll, MainSettled, MainLook, MainSeen, MainFound, MainRelook, MainCheck,
       MainStill, MainAim, MainRefound, rest, wheels, hand, arm
  <2>2. CASE DataThread
    BY <2>2 DEF DataThread, DataClass, DataRoute, DataBin, DataFlag, DataEdge, dless, wheels, arm
  <2>3. CASE Answer \/ Lose
    BY <2>3 DEF Answer, Lose, wheels, hand, arm
  <2>4. CASE GuiPlan \/ GuiStart
    BY <2>4 DEF GuiPlan, GuiStart, wheels, hand, arm
  <2>5. CASE UNCHANGED vars
    BY <2>5 DEF vars, wheels, hand, arm
  <2> QED
    BY <2>1, <2>2, <2>3, <2>4, <2>5
<1> QED
  BY <1>1 DEF FlagInv, Halted, DropTaken, TailTaken

LEMMA StepFlags == FlagInv /\ LoadInv /\ AnswerInv /\ [Next]_vars => FlagInv'
  BY TimerFlags, ServoFlags, OtherFlags DEF Next

LEMMA AlwaysFlags ==
  ASSUME Repeats = 0
  PROVE  Spec => [](LoadInv /\ AnswerInv /\ FlagInv)
<1>1. SearchInv /\ AnswerInv /\ [Next]_vars => AnswerInv'
  BY StepAnswer
<1>2. SearchInv /\ AnswerInv /\ LoadInv /\ [Next]_vars => LoadInv'
  BY StepLoad
<1> QED
  BY <1>1, <1>2, InitSearch, StepSearch, InitAnswer, InitLoad, InitFlags, StepFlags, PTL DEF Spec

\* The arm goes down only on a car that stands, and a drop is made from one that does
\* not drive, however late timer1, data_t and main are.
THEOREM ArmWorksOnStandingCar ==
  ASSUME Repeats = 0
  PROVE  Spec => []StandsWhileHandling
<1>1. LoadInv /\ AnswerInv /\ FlagInv => StandsWhileHandling
  BY DEF LoadInv, HandOver, FlagInv, Halted, StandsWhileHandling
<1> QED
  BY <1>1, AlwaysFlags, PTL

\* No flag of the hand-over outlives the sequence that raised it: pick_flag is taken
\* before the lift ends, drop_flag before the turn of the arm does, and the turn to the
\* tail is asked for only behind the last picture.
THEOREM FlagsAlwaysTaken ==
  ASSUME Repeats = 0
  PROVE  Spec => []FlagsTaken
<1>1. LoadInv /\ AnswerInv /\ FlagInv => FlagsTaken
  BY DEF LoadInv, HandOver, FlagInv, DropTaken, TailTaken, FlagsTaken
<1> QED
  BY <1>1, AlwaysFlags, PTL

-----------------------------------------------------------------------------
\* The refinement: what timer1, main, servo and data_t do together is the mission of
\* MissionSpec, if no frame is acted on twice, for any number of pictures, any classes and
\* any order of the route.  RouteInv adds how far the car is on its route and what it
\* therefore has on board.

\* Over a picture, or looking for it; its class has come.
Looking == motion \in {3, 5, 11, 13}
Known == data # "recv" \/ uart_flag

\* path_clk is the entry of path[0] the car is to go to, or stands at.
Ahead == IF target_cnt < PicNum /\ (~Looking \/ Known) THEN target_cnt + 1 ELSE target_cnt

OnRoad ==
  /\ gui # "off" => /\ \A i, j \in 0 .. PicNum : path[i] = path[j] => i = j
                    /\ \A k \in Pictures : px[k] = k
                    /\ n >= PicNum /\ (n = PicNum => px[PicNum] = Start)
  /\ gui = "done" \/ (target_cnt = 0 /\ motion = 0)
  /\ Looking => target_cnt >= 1
  /\ gui # "off" /\ target_cnt <= PicNum => path_clk = Ahead
  /\ gui # "off" /\ (target_cnt < PicNum \/ (target_cnt = PicNum /\ ~Routed)) => lsttt = path[path_clk]
  /\ Looking /\ here \in Pictures => here = path[target_cnt]

\* Every picture passed is on board or delivered, and no other.
Visited(k) == {path[j] : j \in 1 .. k}
Passed == IF target_cnt > PicNum THEN PicNum
          ELSE IF Looking /\ ~pick_flag THEN target_cnt - 1 ELSE target_cnt
Gathered == Collected = Visited(Passed)

\* The drops that were made, and the bins that are empty therefore.
Dropped == IF target_cnt <= PicNum THEN 0
           ELSE IF motion = 14 /\ ~drop_flag THEN target_cnt - PicNum - 1 ELSE target_cnt - PicNum
Unloaded ==
  /\ servo = "lift" => Dropped = 0
  /\ Dropped >= 1 => bins[2] = {}
  /\ Dropped >= 2 => bins[3] = {}
  /\ Dropped >= 3 => bins[1] = {}

AtEnd ==
  /\ target_cnt \in 0 .. PicNum + 3
  /\ motion \in {10, 15} \/ (sequencer /\ motion = 4) => target_cnt = PicNum + 3

RouteInv == OnRoad /\ Gathered /\ Unloaded /\ AtEnd

roadVars == <<motion, target_cnt, here, data, uart_flag, gui, path, path_clk, lsttt, n, px>>
LEMMA RoadSame == OnRoad /\ UNCHANGED roadVars => OnRoad'
  BY DEF OnRoad, roadVars, Looking, Known, Ahead, Routed
LEMMA GatheredSame ==
  Gathered /\ UNCHANGED <<held, bins, delivered, path>> /\ Passed' = Passed => Gathered'
  BY DEF Gathered, Collected, OnBoard, Visited
LEMMA UnloadedSame == Unloaded /\ UNCHANGED <<servo, bins>> /\ Dropped' = Dropped => Unloaded'
  BY DEF Unloaded

LEMMA InitRoute == Init => RouteInv
<1> SUFFICES ASSUME Init PROVE RouteInv
  OBVIOUS
<1> USE MissionAssumption
<1>1. OnRoad
  BY DEF Init, OnRoad, Looking
<1>2. Gathered
  <2>1. Collected = {}
    BY DEF Init, Collected, OnBoard, Range
  <2>2. Visited(Passed) = {}
    BY DEF Init, Visited, Passed, Looking
  <2> QED
    BY <2>1, <2>2 DEF Gathered
<1>3. Unloaded /\ AtEnd
  BY DEF Init, Unloaded, Dropped, AtEnd
<1> QED
  BY <1>1, <1>2, <1>3 DEF RouteInv

-----------------------------------------------------------------------------
\* A tick that leaves the places, the route and the flags alone and neither begins
\* nor ends a search: it may stop the car, or lead it to the edge.
LEMMA QuietTick ==
  ASSUME RouteInv, UNCHANGED <<target_cnt, here, data, uart_flag, gui, path, path_clk, lsttt, n, px>>,
         UNCHANGED <<held, bins, delivered, servo, pick_flag, drop_flag>>,
         Looking' <=> Looking, motion' # 14, motion # 14,
         target_cnt = PicNum => (Routed' <=> Routed),
         motion = 0 => motion' = 0, AtEnd'
  PROVE  RouteInv'
<1>1. OnRoad /\ Gathered /\ Unloaded /\ AtEnd
  BY DEF RouteInv
<1>2. Known' <=> Known
  BY DEF Known
<1>3. Ahead' = Ahead
  BY <1>2 DEF Ahead
<1>4. OnRoad'
  BY <1>1, <1>3, MissionAssumption DEF OnRoad, AtEnd
<1>5. Passed' = Passed /\ Dropped' = Dropped
  BY DEF Passed, Dropped
<1> QED
  BY <1>1, <1>4, <1>5, GatheredSame, UnloadedSame DEF RouteInv

\* One place further: to the next picture, or to the next of the three places.
LEMMA ArriveRoute ==
  ASSUME RouteInv, LoadInv, AnswerInv, ArriveDepot \/ ArrivePicture
  PROVE  RouteInv'
<1> USE MissionAssumption
<1>0. OnRoad /\ Gathered /\ Unloaded /\ AtEnd /\ Headed /\ RouteOK
  BY DEF RouteInv, LoadInv
<1>1. /\ motion = 1
      /\ UNCHANGED <<sequencer, held, bins, delivered, servo, data, gui, uart_flag, pick_flag, drop_flag>>
  BY DEF ArriveDepot, ArriveAt, ArrivePicture, Tick, threads, world, arm, load, frames, hand
<1>2. /\ data = "recv" /\ ~uart_flag /\ ~pick_flag
      /\ drop_flag => target_cnt = PicNum + 3
  BY <1>1, Driving
<1>3. gui = "done" /\ target_cnt \in Nat /\ PicNum \in Nat
  BY <1>0, <1>1 DEF OnRoad, AtEnd
<1>4. CASE ArriveDepot
  <2>1. PICK tag \in 0 .. 2 :
          /\ target_cnt = PicNum + 2 - tag /\ target_cnt' = target_cnt + 1 /\ motion' = 14
          /\ NextDepot(tag)
    BY <1>4 DEF ArriveDepot, ArriveAt
  <2>2. target_cnt \in PicNum .. PicNum + 2 /\ ~drop_flag
    BY <1>2, <1>3, <2>1
  <2>3. /\ path' = path
        /\ \/ px' = px /\ n' = n
           \/ n' = n + 1 /\ \E d \in Places : px' = [px EXCEPT ![n] = d]
    <3>1. Depot(0) \in Places /\ Depot(1) \in Places
      BY DEF Depot, Places, Road
    <3>2. CASE tag = 2
      BY <2>1, <3>1, <3>2 DEF NextDepot, ACO_to_T, ToDepot
    <3>3. CASE tag = 1
      BY <2>1, <3>1, <3>3 DEF NextDepot, ACO_to_L, ToDepot
    <3>4. CASE tag = 0
      BY <2>1, <3>4 DEF NextDepot, route
    <3> QED
      BY <3>2, <3>3, <3>4
  <2>4. \A k \in Pictures : k \in Indices /\ k # n
    BY <1>0, <1>3 DEF OnRoad, Pictures, Indices
  <2>5. \A k \in Pictures : px'[k] = k
    BY <1>0, <1>3, <2>3, <2>4 DEF OnRoad, RouteOK
  <2>6. n' >= PicNum /\ (n' = PicNum => px'[PicNum] = Start)
    BY <1>0, <1>3, <2>3 DEF OnRoad, RouteOK
  <2>7. OnRoad'
    BY <1>0, <1>1, <1>3, <2>1, <2>2, <2>3, <2>5, <2>6 DEF OnRoad, Looking
  <2>8. Passed' = Passed /\ Dropped' = Dropped
    BY <1>1, <1>3, <2>1, <2>2 DEF Passed, Dropped, Looking
  <2>9. AtEnd'
    BY <1>3, <2>1, <2>2 DEF AtEnd
  <2> QED
    BY <1>0, <1>1, <2>3, <2>7, <2>8, <2>9, GatheredSame, UnloadedSame DEF RouteInv
<1>5. CASE ArrivePicture
  <2>1. /\ target_cnt < PicNum /\ target_cnt' = target_cnt + 1 /\ motion' = 3
        /\ here' = px[lsttt] /\ UNCHANGED <<path, path_clk, lsttt, lstttt, n, px>>
    BY <1>5 DEF ArrivePicture, route
  <2>2. path_clk = target_cnt + 1 /\ lsttt = path[path_clk]
    BY <1>0, <1>1, <1>3, <2>1 DEF OnRoad, Ahead, Looking
  <2>3. n = PicNum /\ px[PicNum] = Start
    BY <1>0, <1>3, <2>1 DEF OnRoad, Headed, RouteOK
  <2>4. lsttt \in 0 .. PicNum
    BY <1>0, <1>3, <2>1, <2>2 DEF RouteOK
  <2>5. here' \in Pictures => here' = path[target_cnt']
    <3>1. CASE lsttt \in Pictures
      BY <1>0, <1>3, <2>1, <2>2, <3>1 DEF OnRoad
    <3>2. CASE lsttt \notin Pictures
      BY <1>3, <2>1, <2>3, <2>4, <3>2 DEF Pictures, Start
    <3> QED
      BY <3>1, <3>2
  <2>6. Looking' /\ ~Looking /\ ~Known' /\ Ahead' = target_cnt + 1
    BY <1>1, <1>2, <2>1 DEF Looking, Known, Ahead
  <2>7. OnRoad'
    BY <1>0, <1>1, <1>3, <2>1, <2>2, <2>5, <2>6 DEF OnRoad
  <2>8. Passed' = Passed /\ Dropped' = Dropped
    BY <1>1, <1>2, <1>3, <2>1, <2>6 DEF Passed, Dropped
  <2>9. AtEnd'
    BY <1>3, <2>1 DEF AtEnd
  <2> QED
    BY <1>0, <1>1, <2>1, <2>7, <2>8, <2>9, GatheredSame, UnloadedSame DEF RouteInv
<1> QED
  BY <1>4, <1>5

\* timer1 lets the car go on, with the picture on board or a bin emptied.
LEMMA HandedOver ==
  ASSUME RouteInv, LoadInv, AnswerInv, wait_get \/ wait_drop
  PROVE  RouteInv'
<1> USE MissionAssumption
<1>0. /\ OnRoad /\ Gathered /\ Unloaded /\ AtEnd /\ AtDepot /\ Stands
      /\ target_cnt \in Nat /\ PicNum \in Nat
  BY DEF RouteInv, LoadInv, AnswerInv, AtEnd
<1>1. UNCHANGED <<sequencer, held, bins, delivered, servo, data, gui, target_cnt, here, path, path_clk,
                  lsttt, n, px>>
  BY DEF wait_get, wait_drop, threads, world, wheels, arm, load, frames, route
<1>2. CASE wait_get
  <2>1. /\ motion = 13 /\ drop_flag' = drop_flag
        /\ \/ motion' = 13 /\ pick_flag' = pick_flag /\ uart_flag' = uart_flag
           \/ motion' = 1 /\ pick_flag /\ uart_flag
    BY <1>2 DEF wait_get, Tick
  <2>2. target_cnt <= PicNum /\ gui = "done"
    BY <1>0, <2>1 DEF Stands, OnRoad
  <2>3. CASE motion' = 13 /\ pick_flag' = pick_flag /\ uart_flag' = uart_flag
    <3>1. OnRoad'
      BY <1>0, <1>1, <2>1, <2>3, RoadSame DEF roadVars
    <3>2. Passed' = Passed /\ Dropped' = Dropped
      BY <1>1, <2>1, <2>3 DEF Passed, Dropped, Looking
    <3>3. AtEnd'
      BY <1>0, <1>1, <2>3 DEF AtEnd
    <3> QED
      BY <1>0, <1>1, <3>1, <3>2, <3>3, GatheredSame, UnloadedSame DEF RouteInv
  <2>4. CASE motion' = 1 /\ pick_flag /\ uart_flag
    <3>1. Looking /\ ~Looking' /\ Known /\ Routed /\ Routed'
      BY <2>1, <2>4 DEF Looking, Known, Routed
    <3>2. Ahead' = Ahead
      BY <1>1, <3>1 DEF Ahead
    <3>3. OnRoad'
      BY <1>0, <1>1, <2>2, <3>1, <3>2 DEF OnRoad
    <3>4. Passed' = Passed /\ Dropped' = Dropped
      BY <1>1, <2>2, <2>4, <3>1 DEF Passed, Dropped
    <3>5. AtEnd'
      BY <1>0, <1>1, <2>4 DEF AtEnd
    <3> QED
      BY <1>0, <1>1, <3>3, <3>4, <3>5, GatheredSame, UnloadedSame DEF RouteInv
  <2> QED
    BY <2>1, <2>3, <2>4
<1>3. CASE wait_drop
  <2>1. /\ motion = 14 /\ pick_flag' = pick_flag /\ uart_flag' = uart_flag
        /\ \/ motion' = 14 /\ (drop_flag' <=> drop_flag)
           \/ motion' = 1 /\ drop_flag
    BY <1>3 DEF wait_drop, Tick
  <2>2. target_cnt > PicNum /\ gui = "done"
    BY <1>0, <2>1 DEF AtDepot, OnRoad
  <2>3. ~Looking /\ ~Looking'
    BY <2>1 DEF Looking
  <2>4. OnRoad'
    BY <1>0, <1>1, <2>2, <2>3 DEF OnRoad
  <2>5. Passed' = Passed
    BY <1>1, <2>2 DEF Passed
  <2>6. Dropped' = Dropped
    BY <1>1, <2>1, <2>2 DEF Dropped
  <2>7. AtEnd'
    BY <1>0, <1>1, <2>1 DEF AtEnd
  <2> QED
    BY <1>0, <1>1, <2>4, <2>5, <2>6, <2>7, GatheredSame, UnloadedSame DEF RouteInv
<1> QED
  BY <1>2, <1>3

LEMMA TimerRoute ==
  ASSUME RouteInv, LoadInv, AnswerInv, motorControl_timer1
  PROVE  RouteInv'
<1> USE MissionAssumption
<1>0. OnRoad /\ AtEnd /\ Stands /\ target_cnt \in Nat /\ PicNum \in Nat
  BY DEF RouteInv, AnswerInv, AtEnd
<1>1. CASE Drive \/ DriveEnds \/ ToEdgeAsked
  <2>1. /\ motion = 1 /\ motion' \in {1, 4, 15}
        /\ UNCHANGED <<sequencer, target_cnt, data, uart_flag, gui, path, path_clk, lsttt, n, px>>
        /\ UNCHANGED <<held, bins, delivered, servo, pick_flag, drop_flag>>
    BY <1>1 DEF Drive, DriveEnds, ToEdgeAsked, Tick, threads, hand, world, arm, load, frames, route
  <2>2. gui = "done" /\ ~Looking /\ ~Looking'
    BY <1>0, <2>1 DEF OnRoad, Looking
  <2>3. target_cnt = PicNum => motion' = 1
    BY <1>0, <1>1, <2>1 DEF Drive, DriveEnds, ToEdgeAsked, Stands
  <2>4. target_cnt = PicNum => Routed /\ Routed'
    BY <2>1, <2>3 DEF Routed
  <2>5. Ahead' = Ahead
    BY <2>1, <2>2 DEF Ahead
  <2>6. OnRoad'
    BY <1>0, <2>1, <2>2, <2>4, <2>5 DEF OnRoad
  <2>7. Passed' = Passed /\ Dropped' = Dropped
    BY <2>1, <2>2 DEF Passed, Dropped
  <2>8. AtEnd'
    BY <1>0, <1>1, <2>1 DEF AtEnd, Drive, DriveEnds, ToEdgeAsked
  <2> QED
    BY <1>0, <2>1, <2>6, <2>7, <2>8, GatheredSame, UnloadedSame DEF RouteInv
<1>2. CASE ArriveDepot \/ ArrivePicture
  BY <1>2, ArriveRoute
<1>3. CASE wait_get \/ wait_drop
  BY <1>3, HandedOver
<1>4. CASE Stopped \/ to_pic_drive \/ to_pic_near \/ protect_back \/ to_edge \/ go_in
  <2>1. /\ UNCHANGED <<sequencer, target_cnt, here, data, uart_flag, gui, path, path_clk, lsttt, n, px>>
        /\ UNCHANGED <<held, bins, delivered, servo, pick_flag, drop_flag>>
    BY <1>4 DEF Stopped, to_pic_drive, to_pic_near, protect_back, to_edge, go_in, Wheels, Turn, wheels,
                threads, hand, world, arm, load, frames, route
  <2>2. CASE Stopped \/ to_pic_drive \/ protect_back
    <3>1. motion \in {0, 3, 4, 5, 11} /\ motion' = motion
      BY <2>2 DEF Tick, Wheels, Turn, Stopped, to_pic_drive, protect_back
    <3> QED
      BY <1>0, <2>1, <3>1, QuietTick DEF Looking, Routed, AtEnd
  <2>3. CASE to_pic_near
    <3>1. motion = 5 /\ motion' = 13
      BY <2>3 DEF to_pic_near, Tick
    <3> QED
      BY <1>0, <2>1, <3>1, QuietTick DEF Looking, Routed, AtEnd
  <2>4. CASE to_edge \/ go_in
    <3>1. motion \in {10, 15} /\ motion' \in {4, 10, 15}
      BY <2>4 DEF Tick, Wheels, Turn, to_edge, go_in
    <3>2. target_cnt = PicNum + 3
      BY <1>0, <3>1 DEF AtEnd
    <3> QED
      BY <1>0, <2>1, <3>1, <3>2, QuietTick DEF Looking, AtEnd
  <2> QED
    BY <1>4, <2>2, <2>3, <2>4
<1> QED
  BY <1>1, <1>2, <1>3, <1>4 DEF motorControl_timer1

-----------------------------------------------------------------------------
\* A drop empties the bin that is next, over the place of its class: all that is in it
\* moves from the car to there.
DropFacts(tag) ==
  /\ job = DropFlag(tag) /\ BinOf(job) = BinFlag(tag) /\ here = Depot(tag) /\ held = {}
  /\ bins' = [bins EXCEPT ![BinFlag(tag)] = {}] /\ held' = held
  /\ delivered' = [delivered EXCEPT ![tag] = @ \union bins[BinFlag(tag)]]
  /\ target_cnt > PicNum
  /\ IF motion = 14 THEN target_cnt = PicNum + 3 - tag ELSE tag = 0 /\ target_cnt = PicNum + 3

LEMMA DropIs ==
  ASSUME RouteInv, LoadInv, AnswerInv, ServoDrop
  PROVE  \E tag \in 0 .. 2 : DropFacts(tag)
<1> USE MissionAssumption
<1>0. HandOver /\ AtDepot /\ Sorted /\ AtEnd
  BY DEF RouteInv, LoadInv
<1>1. /\ servo = "drop" /\ bins' = [bins EXCEPT ![BinOf(job)] = {}] /\ held' = held
      /\ delivered' = [t \in 0 .. 2 |->
           IF here = Depot(t) THEN delivered[t] \union bins[BinOf(job)] ELSE delivered[t]]
  BY DEF ServoDrop
<1>2. job = servo_flag /\ held = {} /\ job \in 4 .. 6
  BY <1>0, <1>1 DEF HandOver, Sorted
<1>3. \E tag \in 0 .. 2 :
        /\ here = Depot(tag) /\ job = DropFlag(tag) /\ target_cnt > PicNum
        /\ IF motion = 14 THEN target_cnt = PicNum + 3 - tag ELSE tag = 0 /\ target_cnt = PicNum + 3
  <2>1. CASE motion = 14
    <3>1. /\ target_cnt \in PicNum + 1 .. PicNum + 3 /\ here = Depot(PicNum + 3 - target_cnt)
          /\ servo_flag = DropFlag(PicNum + 3 - target_cnt)
      BY <1>0, <2>1 DEF AtDepot
    <3>2. /\ PicNum + 3 - target_cnt \in 0 .. 2 /\ target_cnt = PicNum + 3 - (PicNum + 3 - target_cnt)
          /\ target_cnt > PicNum
      BY <3>1
    <3> QED
      BY <1>2, <2>1, <3>1, <3>2
  <2>2. CASE motion # 14
    <3>1. target_cnt = PicNum + 3
      BY <1>0, <1>1, <2>2 DEF HandOver
    <3>2. here = Depot(0) /\ servo_flag = 6
      BY <1>0, <3>1 DEF AtDepot
    <3>3. DropFlag(0) = 6 /\ PicNum + 3 > PicNum
      BY BinFlagIs
    <3> QED
      BY <1>2, <2>2, <3>1, <3>2, <3>3
  <2> QED
    BY <2>1, <2>2
<1>4. PICK tag \in 0 .. 2 :
        /\ here = Depot(tag) /\ job = DropFlag(tag) /\ target_cnt > PicNum
        /\ IF motion = 14 THEN target_cnt = PicNum + 3 - tag ELSE tag = 0 /\ target_cnt = PicNum + 3
  BY <1>3
<1>5. BinOf(job) = BinFlag(tag)
  BY <1>4, BinFlagIs
<1>6. \A t \in 0 .. 2 : here = Depot(t) <=> t = tag
  BY <1>4 DEF Depot
<1>7. delivered' = [delivered EXCEPT ![tag] = @ \union bins[BinFlag(tag)]]
  BY <1>0, <1>1, <1>5, <1>6 DEF Sorted
<1> QED
  BY <1>1, <1>2, <1>4, <1>5, <1>7 DEF DropFacts

\* What was on board or delivered still is.
LEMMA DropKeeps ==
  ASSUME Sorted, NEW tag \in 0 .. 2, DropFacts(tag)
  PROVE  /\ Collected' = Collected
         /\ OnBoard = UNION {bins[c] : c \in 1 .. 3} /\ OnBoard' = UNION {bins'[c] : c \in 1 .. 3}
<1> DEFINE b == BinFlag(tag)
<1>1. /\ b \in 1 .. 3 /\ bins \in [1 .. 3 -> SUBSET Pictures] /\ delivered \in [0 .. 2 -> SUBSET Pictures]
  BY BinFlagIs DEF Sorted
<1>2. /\ bins' \in [1 .. 3 -> SUBSET Pictures] /\ bins'[b] = {}
      /\ \A c \in 1 .. 3 : c # b => bins'[c] = bins[c]
  BY <1>1 DEF DropFacts
<1>3. /\ delivered' \in [0 .. 2 -> SUBSET Pictures] /\ delivered'[tag] = delivered[tag] \union bins[b]
      /\ \A t \in 0 .. 2 : t # tag => delivered'[t] = delivered[t]
  BY <1>1 DEF DropFacts
<1>4. /\ Range(bins) = {bins[c] : c \in 1 .. 3} /\ Range(bins') = {bins'[c] : c \in 1 .. 3}
      /\ Range(delivered) = {delivered[t] : t \in 0 .. 2}
      /\ Range(delivered') = {delivered'[t] : t \in 0 .. 2}
  BY <1>1, <1>2, <1>3 DEF Range
<1>5. OnBoard = UNION {bins[c] : c \in 1 .. 3} /\ OnBoard' = UNION {bins'[c] : c \in 1 .. 3}
  BY <1>4 DEF OnBoard, DropFacts
<1>6. OnBoard = OnBoard' \union bins[b]
  BY <1>1, <1>2, <1>5
<1>7. UNION Range(delivered') = (UNION Range(delivered)) \union bins[b]
  BY <1>1, <1>3, <1>4
<1>8. Collected' = Collected
  BY <1>6, <1>7 DEF Collected
<1> QED
  BY <1>5, <1>8

\* The bin that is emptied has the pictures of one class, if classes were marked.
LEMMA DropSorts ==
  ASSUME Marked, Sorted, RouteOK, NEW tag \in 0 .. 2, DropFacts(tag)
  PROVE  /\ OnBoard' = {p \in OnBoard : truth[p] # tag}
         /\ bins[BinFlag(tag)] = {p \in OnBoard : truth[p] = tag}
<1> DEFINE b == BinFlag(tag)
<1>1. /\ b \in 1 .. 3 /\ bins \in [1 .. 3 -> SUBSET Pictures]
      /\ \A t \in 0 .. 2 : BinFlag(t) = b => t = tag
  BY BinFlagIs DEF Sorted
<1>2. bins'[b] = {} /\ \A c \in 1 .. 3 : c # b => bins'[c] = bins[c]
  BY <1>1 DEF DropFacts
<1>3. OnBoard = UNION {bins[c] : c \in 1 .. 3} /\ OnBoard' = UNION {bins'[c] : c \in 1 .. 3}
  BY DropKeeps
<1>4. \A c \in 1 .. 3 : \A p \in bins[c] : truth[p] = tag <=> c = b
  <2> SUFFICES ASSUME NEW c \in 1 .. 3, NEW p \in bins[c] PROVE truth[p] = tag <=> c = b
    OBVIOUS
  <2>1. BinFlag(truth[p]) = c
    BY DEF Sorted
  <2>2. c = b => truth[p] = tag
    <3>1. truth[p] \in 0 .. 2
      BY <1>1 DEF RouteOK
    <3> QED
      BY <1>1, <2>1, <3>1
  <2>3. truth[p] = tag => c = b
    BY <2>1
  <2> QED
    BY <2>2, <2>3
<1>5. bins[b] = {p \in OnBoard : truth[p] = tag}
  BY <1>1, <1>3, <1>4
<1>6. OnBoard' = {p \in OnBoard : truth[p] # tag}
  BY <1>1, <1>2, <1>3, <1>4
<1> QED
  BY <1>5, <1>6

LEMMA DropRoute ==
  ASSUME RouteInv, LoadInv, AnswerInv, ServoDrop
  PROVE  RouteInv'
<1> USE MissionAssumption
<1>0. /\ OnRoad /\ Gathered /\ Unloaded /\ AtEnd /\ Sorted /\ RouteOK
      /\ target_cnt \in Nat /\ PicNum \in Nat
  BY DEF RouteInv, LoadInv, AtEnd
<1>1. PICK tag \in 0 .. 2 : DropFacts(tag)
  BY DropIs
<1>2. /\ UNCHANGED <<sequencer, motion, target_cnt, here, data, uart_flag, gui, path, path_clk, lsttt, n, px,
                     pick_flag>>
      /\ drop_flag' = TRUE /\ servo' # "lift"
  BY DEF ServoDrop, sless, world, wheels, route, frames
<1>3. OnRoad' /\ AtEnd'
  BY <1>0, <1>2, RoadSame DEF roadVars, AtEnd
<1>4. Passed' = Passed
  BY <1>2 DEF Passed, Looking
<1>5. Gathered'
  BY <1>0, <1>1, <1>2, <1>4, DropKeeps DEF Gathered, Visited
<1>6. /\ target_cnt > PicNum /\ Dropped' = target_cnt - PicNum
      /\ IF motion = 14 THEN target_cnt = PicNum + 3 - tag ELSE tag = 0 /\ target_cnt = PicNum + 3
      /\ Dropped \in Int /\ Dropped >= 2 - tag /\ (motion # 14 => Dropped = 3)
  BY <1>0, <1>1, <1>2 DEF Dropped, DropFacts
<1>7. Dropped' = 3 - tag
  BY <1>0, <1>6
<1>8. \A b \in 1 .. 3 : bins'[b] = (IF b = BinFlag(tag) THEN {} ELSE bins[b])
  BY <1>0, <1>1 DEF Sorted, DropFacts
<1>9. bins'[2] = {}
  <2>1. tag = 2 => 2 = BinFlag(tag)
    BY BinFlagIs
  <2>2. tag # 2 => Dropped >= 1
    BY <1>6
  <2> QED
    BY <1>0, <1>8, <2>1, <2>2 DEF Unloaded
<1>10. tag \in 0 .. 1 => bins'[3] = {}
  <2>1. tag = 1 => 3 = BinFlag(tag)
    BY BinFlagIs
  <2>2. tag = 0 => Dropped >= 2
    BY <1>6
  <2> QED
    BY <1>0, <1>8, <2>1, <2>2 DEF Unloaded
<1>11. tag = 0 => bins'[1] = {}
  BY <1>0, <1>6, <1>8, BinFlagIs DEF Unloaded
<1>12. Unloaded'
  BY <1>2, <1>7, <1>9, <1>10, <1>11 DEF Unloaded
<1> QED
  BY <1>3, <1>5, <1>12 DEF RouteInv

\* The arm moves pictures from the field to a bin, and from a bin to its place.
LEMMA ServoRoute ==
  ASSUME RouteInv, LoadInv, AnswerInv, ServoThread
  PROVE  RouteInv'
<1> USE MissionAssumption
<1>0. /\ OnRoad /\ Gathered /\ Unloaded /\ AtEnd /\ HandOver /\ AtDepot /\ Sorted /\ Stands /\ Classified
      /\ target_cnt \in Nat /\ PicNum \in Nat
  BY DEF RouteInv, LoadInv, AnswerInv, AtEnd
<1>1. UNCHANGED sless
  BY DEF ServoThread, ServoPoll, ServoPick, ServoPut, ServoHome, ServoTail, ServoTailed,
         ServoDrop, ServoRote, ServoClear
<1>2. UNCHANGED <<sequencer, motion, target_cnt, here, data, uart_flag, gui, path, path_clk, lsttt, n, px,
                  servo_flag>>
  BY <1>1 DEF sless, world, wheels, route, frames
<1>3. OnRoad' /\ AtEnd'
  BY <1>0, <1>2, RoadSame DEF roadVars, AtEnd
<1>4. CASE ServoPick
  <2>1. /\ servo = "get" /\ held' = (IF here \in Pictures THEN {here} ELSE {}) /\ pick_flag' = TRUE
        /\ bins' = bins /\ delivered' = delivered /\ drop_flag' = drop_flag
    BY <1>4 DEF ServoPick
  <2>2. motion = 13 /\ uart_flag /\ here \in Pictures /\ ~pick_flag /\ held = {}
    BY <1>0, <2>1 DEF HandOver, Classified, Sorted
  <2>3. target_cnt \in 1 .. PicNum /\ here = path[target_cnt] /\ Looking /\ Looking'
    BY <1>0, <1>2, <2>2 DEF OnRoad, Looking, Stands
  <2>4. Passed = target_cnt - 1 /\ Passed' = target_cnt
    BY <1>0, <1>2, <2>1, <2>2, <2>3 DEF Passed
  <2>5. Collected' = Collected \union {here}
    BY <2>1, <2>2 DEF Collected, OnBoard
  <2>6. Visited(Passed)' = Visited(Passed) \union {path[target_cnt]}
    <3>1. 1 .. target_cnt = (1 .. target_cnt - 1) \union {target_cnt}
      BY <2>3
    <3>2. Visited(Passed)' = {path[j] : j \in 1 .. target_cnt}
      BY <1>2, <2>4 DEF Visited
    <3>3. Visited(Passed) = {path[j] : j \in 1 .. target_cnt - 1}
      BY <2>4 DEF Visited
    <3> QED
      BY <3>1, <3>2, <3>3
  <2>7. Gathered'
    BY <1>0, <2>3, <2>5, <2>6 DEF Gathered
  <2>8. Dropped' = Dropped /\ Dropped = 0
    BY <1>0, <1>2, <2>1, <2>3 DEF Dropped
  <2>9. Unloaded'
    BY <2>8 DEF Unloaded
  <2> QED
    BY <1>3, <2>7, <2>9 DEF RouteInv
<1>5. CASE ServoPut
  <2>1. /\ servo = "lift" /\ bins' = [bins EXCEPT ![job] = @ \union held] /\ held' = {}
        /\ delivered' = delivered /\ pick_flag' = pick_flag /\ drop_flag' = drop_flag
        /\ servo' # "lift"
    BY <1>5 DEF ServoPut
  <2>2. job \in 1 .. 3 /\ bins \in [1 .. 3 -> SUBSET Pictures]
    BY <1>0, <2>1 DEF Sorted
  <2>3. OnBoard' = OnBoard
    <3>1. bins' \in [1 .. 3 -> SUBSET Pictures]
      BY <1>0, <2>1, <2>2 DEF Sorted
    <3>2. UNION Range(bins') = (UNION Range(bins)) \union held
      <4>1. \A b \in 1 .. 3 : b # job => bins'[b] = bins[b]
        BY <2>1, <2>2
      <4>2. bins'[job] = bins[job] \union held
        BY <2>1, <2>2
      <4>3. Range(bins) = {bins[b] : b \in 1 .. 3} /\ Range(bins') = {bins'[b] : b \in 1 .. 3}
        BY <2>2, <3>1 DEF Range
      <4> QED
        BY <2>2, <4>1, <4>2, <4>3
    <3> QED
      BY <2>1, <3>2 DEF OnBoard
  <2>4. Passed' = Passed /\ Dropped' = Dropped /\ Dropped = 0
    BY <1>0, <1>2, <2>1 DEF Passed, Dropped, Looking, Unloaded
  <2>5. Gathered'
    BY <1>0, <1>2, <2>1, <2>3, <2>4 DEF Gathered, Collected, Visited
  <2>6. Unloaded'
    BY <2>4 DEF Unloaded
  <2> QED
    BY <1>3, <2>5, <2>6 DEF RouteInv
<1>6. CASE ServoDrop
  BY <1>6, DropRoute
<1>7. CASE ServoPoll \/ ServoHome \/ ServoTail \/ ServoTailed \/ ServoRote \/ ServoClear
  <2>1. /\ UNCHANGED <<held, bins, delivered, pick_flag, drop_flag>> /\ servo' # "lift"
    BY <1>7 DEF ServoPoll, ServoHome, ServoTail, ServoTailed, ServoRote, ServoClear, Sequence, load
  <2>2. Passed' = Passed /\ Dropped' = Dropped
    BY <1>2, <2>1 DEF Passed, Dropped, Looking
  <2>3. Gathered'
    BY <1>0, <1>2, <2>1, <2>2, GatheredSame
  <2>4. Unloaded'
    BY <1>0, <2>1, <2>2 DEF Unloaded
  <2> QED
    BY <1>3, <2>3, <2>4 DEF RouteInv
<1> QED
  BY <1>4, <1>5, <1>6, <1>7 DEF ServoThread

-----------------------------------------------------------------------------
\* data_t moves the route on by one entry, once for each picture.
LEMMA DataRouteOn ==
  ASSUME Repeats = 0, RouteInv, LoadInv, AnswerInv, DataThread
  PROVE  RouteInv'
<1> USE MissionAssumption
<1>0. /\ OnRoad /\ Gathered /\ Unloaded /\ AtEnd /\ OnePlace /\ Awaited /\ Stands /\ RouteOK
      /\ target_cnt \in Nat /\ PicNum \in Nat
  BY DEF RouteInv, LoadInv, AnswerInv, AtEnd
<1>1. UNCHANGED dless
  BY DEF DataThread, DataClass, DataRoute, DataBin, DataFlag, DataEdge
<1>2. UNCHANGED <<sequencer, motion, target_cnt, here, gui, held, bins, delivered, servo, pick_flag, drop_flag>>
  BY <1>1 DEF dless, world, wheels, arm, load
<1>3. Passed' = Passed /\ Dropped' = Dropped /\ AtEnd' /\ Unloaded'
  BY <1>0, <1>2, UnloadedSame DEF Passed, Dropped, Looking, AtEnd
<1>4. CASE DataEdge
  <2>1. UNCHANGED <<data, uart_flag, route>>
    BY <1>4 DEF DataEdge
  <2>2. OnRoad'
    BY <1>0, <1>2, <2>1, RoadSame DEF roadVars, route
  <2> QED
    BY <1>0, <1>2, <1>3, <2>1, <2>2, GatheredSame DEF RouteInv, route
<1>5. CASE DataClass \/ DataRoute \/ DataBin \/ DataFlag
  <2>1. motion = 13 /\ ~uart_flag /\ target_cnt <= PicNum
    BY <1>0, <1>5 DEF DataClass, DataRoute, DataBin, DataFlag, OnePlace, Awaited, Stands
  <2>2. Looking /\ Looking' /\ gui = "done" /\ gui' = "done" /\ target_cnt >= 1 /\ motion' = 13
    BY <1>0, <1>2, <2>1 DEF Looking, OnRoad
  <2>3. CASE DataClass
    <3>1. /\ data = "recv" /\ data' = "route" /\ uart_flag' = uart_flag
          /\ IF target_cnt < PicNum THEN ACO_to_next ELSE UNCHANGED route
      BY <2>3 DEF DataClass, MorePictures
    <3>2. ~Known /\ Known' /\ ~Routed /\ ~Routed'
      BY <2>1, <2>2, <3>1 DEF Known, Routed
    <3>3. path_clk = target_cnt /\ Ahead' = IF target_cnt < PicNum THEN target_cnt + 1 ELSE target_cnt
      BY <1>0, <1>2, <2>1, <2>2, <3>2 DEF OnRoad, Ahead
    <3>4. path' = path /\ px' = px /\ n' = n
      BY <3>1 DEF ACO_to_next, route
    <3>5. path_clk' = Ahead' /\ lsttt' = path'[path_clk']
      <4>1. CASE target_cnt < PicNum
        BY <1>0, <3>1, <3>3, <3>4, <4>1 DEF ACO_to_next, Entry
      <4>2. CASE target_cnt = PicNum
        BY <1>0, <1>2, <2>1, <2>2, <3>1, <3>2, <3>3, <4>2 DEF OnRoad, route
      <4> QED
        BY <1>0, <2>1, <4>1, <4>2
    <3>6. OnRoad'
      BY <1>0, <1>2, <2>2, <3>4, <3>5 DEF OnRoad
    <3> QED
      BY <1>0, <1>2, <1>3, <3>4, <3>6, GatheredSame DEF RouteInv
  <2>4. CASE DataRoute
    <3>1. /\ data = "route" /\ data' = "bin" /\ uart_flag' = uart_flag
          /\ IF target_cnt = PicNum THEN ACO_to_R ELSE UNCHANGED route
      BY <2>4 DEF DataRoute
    <3>2. Known /\ Known' /\ Routed'
      BY <3>1 DEF Known, Routed
    <3>3. Ahead' = Ahead
      BY <1>2, <2>2, <3>2 DEF Ahead
    <3>4. CASE target_cnt = PicNum
      <4>1. px' = [px EXCEPT ![n] = Depot(2)] /\ n' = n + 1 /\ path' = path /\ path_clk' = path_clk
        BY <3>1, <3>4 DEF ACO_to_R, ToDepot
      <4>2. n >= PicNum /\ n \in Nat
        BY <1>0, <2>2 DEF OnRoad, RouteOK
      <4>3. \A k \in Pictures : k \in Indices /\ k # n
        BY <1>0, <4>2 DEF Pictures, Indices
      <4>4. \A k \in Pictures : px'[k] = k
        BY <1>0, <2>2, <4>1, <4>3 DEF OnRoad, RouteOK
      <4>5. OnRoad'
        BY <1>0, <1>2, <2>2, <3>2, <3>3, <3>4, <4>1, <4>2, <4>4 DEF OnRoad
      <4> QED
        BY <1>0, <1>2, <1>3, <4>1, <4>5, GatheredSame DEF RouteInv
    <3>5. CASE target_cnt # PicNum
      <4>1. UNCHANGED <<path, path_clk, lsttt, n, px>>
        BY <3>1, <3>5 DEF route
      <4>2. OnRoad'
        BY <1>0, <1>2, <2>1, <2>2, <3>2, <3>3, <3>5, <4>1 DEF OnRoad
      <4> QED
        BY <1>0, <1>2, <1>3, <4>1, <4>2, GatheredSame DEF RouteInv
    <3> QED
      BY <3>4, <3>5
  <2>5. CASE DataBin \/ DataFlag
    <3>1. /\ UNCHANGED <<path, path_clk, lsttt, n, px>>
          /\ Known /\ Known' /\ Routed /\ Routed'
      BY <2>5 DEF DataBin, DataFlag, route, Known, Routed
    <3>2. Ahead' = Ahead
      BY <1>2, <2>2, <3>1 DEF Ahead
    <3>3. OnRoad'
      BY <1>0, <1>2, <2>2, <3>1, <3>2 DEF OnRoad
    <3> QED
      BY <1>0, <1>2, <1>3, <3>1, <3>3, GatheredSame DEF RouteInv
  <2> QED
    BY <1>5, <2>3, <2>4, <2>5
<1> QED
  BY <1>4, <1>5 DEF DataThread

LEMMA MainRoute ==
  ASSUME RouteInv, SearchInv, AnswerInv, MainThread
  PROVE  RouteInv'
<1>0. OnRoad /\ Gathered /\ Unloaded /\ AtEnd
  BY DEF RouteInv
<1>1. /\ UNCHANGED rest
      /\ motion' = motion \/ (motion \in {3, 11} /\ motion' \in {5, 11})
  BY MainMotion
<1>2. /\ UNCHANGED <<sequencer, target_cnt, here, data, uart_flag, gui, path, path_clk, lsttt, n, px>>
      /\ UNCHANGED <<held, bins, delivered, servo, pick_flag, drop_flag>>
  BY <1>1 DEF rest, world, wheels, hand, arm, load, route, frames
<1>3. CASE motion' = motion
  <2>1. Passed' = Passed /\ Dropped' = Dropped
    BY <1>2, <1>3 DEF Passed, Dropped, Looking
  <2> QED
    BY <1>0, <1>2, <1>3, <2>1, RoadSame, GatheredSame, UnloadedSame DEF RouteInv, roadVars, AtEnd
<1>4. CASE motion \in {3, 11} /\ motion' \in {5, 11}
  <2>1. AtEnd'
    BY <1>0, <1>2, <1>4 DEF AtEnd
  <2> QED
    BY <1>2, <1>4, <2>1, QuietTick DEF Looking, Routed
<1> QED
  BY <1>1, <1>3, <1>4

LEMMA CameraRoute ==
  ASSUME RouteInv, Answer \/ Lose \/ UNCHANGED vars
  PROVE  RouteInv'
<1>1. /\ UNCHANGED <<sequencer, motion, target_cnt, here, data, uart_flag, gui, path, path_clk, lsttt, n, px>>
      /\ UNCHANGED <<held, bins, delivered, servo, pick_flag, drop_flag>>
  BY DEF Answer, Lose, vars, world, wheels, hand, arm, load, route, frames
<1>2. Passed' = Passed /\ Dropped' = Dropped
  BY <1>1 DEF Passed, Dropped, Looking
<1> QED
  BY <1>1, <1>2, RoadSame, GatheredSame, UnloadedSame DEF RouteInv, roadVars, AtEnd

\* The route is planned before any picture is on board.
LEMMA GuiRoute ==
  ASSUME RouteInv, LoadInv, GuiPlan \/ GuiStart
  PROVE  RouteInv'
<1> USE MissionAssumption
<1>0. /\ OnRoad /\ Gathered /\ Unloaded /\ AtEnd /\ target_cnt = 0 /\ motion = 0 /\ PicNum \in Nat \ {0}
  BY DEF RouteInv, OnRoad, GuiPlan, GuiStart
<1>1. UNCHANGED <<sequencer, target_cnt, here, data, uart_flag, held, bins, delivered, servo, pick_flag, drop_flag>>
  BY DEF GuiPlan, GuiStart, world, wheels, hand, arm, load, frames
<1>2. motion' \in {0, 1} /\ ~Looking /\ ~Looking' /\ Ahead = 1 /\ Ahead' = 1
  BY <1>0, <1>1 DEF GuiPlan, GuiStart, Looking, Ahead
<1>3. Passed' = Passed /\ Passed = 0 /\ Dropped' = Dropped
  BY <1>0, <1>1, <1>2 DEF Passed, Dropped
<1>4. Unloaded' /\ AtEnd'
  BY <1>0, <1>1, <1>2, <1>3, UnloadedSame DEF AtEnd
<1>5. Gathered'
  <2>1. Visited(Passed) = {} /\ Visited(Passed)' = {}
    BY <1>3 DEF Visited
  <2> QED
    BY <1>0, <1>1, <2>1 DEF Gathered, Collected, OnBoard
<1>6. CASE GuiPlan
  <2>1. ACO_to_first /\ gui' = "planned" /\ motion' = 0
    BY <1>0, <1>6 DEF GuiPlan
  <2>2. \A i, j \in 0 .. PicNum : path'[i] = path'[j] => i = j
    BY <2>1 DEF ACO_to_first, Shuffled, Bijection, Injection, IsInjective
  <2>3. /\ n' = PicNum /\ px' = [k \in Indices |-> IF k < PicNum THEN k ELSE Start]
        /\ path_clk' = path_clk /\ lsttt' = path'[path_clk]
    BY <2>1 DEF ACO_to_first
  <2>4. (\A k \in Pictures : px'[k] = k) /\ px'[PicNum] = Start
    BY <2>3 DEF Pictures, Indices
  <2>5. path_clk = 1
    BY <1>6 DEF GuiPlan, LoadInv, RouteOK
  <2>6. OnRoad'
    BY <1>0, <1>1, <1>2, <2>1, <2>2, <2>3, <2>4, <2>5 DEF OnRoad
  <2> QED
    BY <1>4, <1>5, <2>6 DEF RouteInv
<1>7. CASE GuiStart
  <2>1. gui = "planned" /\ gui' = "done" /\ UNCHANGED <<path, path_clk, lsttt, n, px>>
    BY <1>7 DEF GuiStart, route
  <2>2. OnRoad'
    BY <1>0, <1>1, <1>2, <2>1 DEF OnRoad
  <2> QED
    BY <1>4, <1>5, <2>2 DEF RouteInv
<1> QED
  BY <1>6, <1>7

LEMMA StepRoute ==
  Repeats = 0 /\ SearchInv /\ AnswerInv /\ LoadInv /\ RouteInv /\ [Next]_vars => RouteInv'
BY TimerRoute, MainRoute, ServoRoute, DataRouteOn, CameraRoute, GuiRoute DEF Next

Invariants == SearchInv /\ AnswerInv /\ LoadInv /\ RouteInv

LEMMA InitInvariants == Init => Invariants
BY InitSearch, InitAnswer, InitLoad, InitRoute DEF Invariants

LEMMA StepInvariants == Repeats = 0 /\ Invariants /\ [Next]_vars => Invariants'
<1> SUFFICES ASSUME Repeats = 0, Invariants, [Next]_vars PROVE Invariants'
  OBVIOUS
<1>1. SearchInv /\ AnswerInv /\ LoadInv /\ RouteInv
  BY DEF Invariants
<1> QED
  BY <1>1, StepSearch, StepAnswer, StepLoad, StepRoute DEF Invariants

\* What lies behind the car when it has passed all of its route.
LEMMA AllCollected ==
  ASSUME Invariants, target_cnt >= PicNum, ~Looking \/ pick_flag
  PROVE  Collected = OnRoute /\ OnRoute \subseteq Pictures
<1> USE MissionAssumption
<1>1. Gathered /\ Sorted /\ AtEnd
  BY DEF Invariants, RouteInv, LoadInv
<1>2. Passed = PicNum
  BY <1>1 DEF Passed, AtEnd
<1>3. Collected = {path[k] : k \in 1 .. PicNum}
  BY <1>1, <1>2 DEF Gathered, Visited
<1>4. Collected \subseteq Pictures
  BY <1>1 DEF Sorted, Collected, OnBoard, Range
<1>5. Start \notin Collected
  BY <1>4 DEF Pictures, Start
<1> QED
  BY <1>3, <1>4, <1>5 DEF OnRoute

\* Nothing is left on the arm or in a bin when the last drop is made.
LEMMA AllUnloaded ==
  ASSUME Invariants, target_cnt = PicNum + 3, motion # 14
  PROVE  OnBoard = {}
<1> USE MissionAssumption
<1>1. Unloaded /\ Sorted /\ PicNum \in Nat
  BY DEF Invariants, RouteInv, LoadInv
<1>2. Dropped = 3
  BY <1>1 DEF Dropped
<1>3. held = {} /\ bins[1] = {} /\ bins[2] = {} /\ bins[3] = {}
  BY <1>1, <1>2 DEF Unloaded, Sorted
<1>4. Range(bins) = {bins[b] : b \in 1 .. 3}
  BY <1>1 DEF Sorted, Range
<1> QED
  BY <1>3, <1>4 DEF OnBoard

\* "Based on the three big categories pictures were carried to three different
\* designated places": with any number of pictures and any interleaving, a car that leaves
\* for the edge of the field has delivered every picture of its route; none was skipped,
\* forgotten on the arm or left in a bin.
THEOREM DeliversAll ==
  ASSUME Repeats = 0
  PROVE  Spec => []AllDelivered
<1>1. Invariants => AllDelivered
  <2> SUFFICES ASSUME Invariants, motion \in {10, 15} PROVE UNION Range(delivered) = OnRoute
    BY DEF AllDelivered
  <2>1. target_cnt = PicNum + 3
    BY DEF Invariants, RouteInv, AtEnd
  <2>2. Collected = OnRoute
    BY <2>1, AllCollected, MissionAssumption DEF Looking
  <2>3. OnBoard = {}
    BY <2>1, AllUnloaded
  <2> QED
    BY <2>2, <2>3 DEF Collected
<1> QED
  BY <1>1, InitInvariants, StepInvariants, PTL DEF Spec

-----------------------------------------------------------------------------
\* What the threads and timer1 do is the mission of MissionSpec.
over == sequencer /\ motion \in {4, 10}

LEMMA PlanRefines ==
  ASSUME Invariants, GuiPlan
  PROVE  Promise!Plan
<1> USE MissionAssumption
<1>0. OnRoad /\ Gathered /\ Sorted /\ target_cnt = 0 /\ motion = 0 /\ gui = "off" /\ PicNum \in Nat \ {0}
  BY DEF Invariants, RouteInv, LoadInv, OnRoad, GuiPlan
<1>1. /\ UNCHANGED <<truth, held, bins, delivered, sequencer>> /\ gui' = "planned" /\ motion' = 0
      /\ \E t \in Tours : path' \in Shuffled(t)
  BY <1>0 DEF GuiPlan, ACO_to_first, world, arm, load
<1>2. Collected = {}
  <2>1. Passed = 0
    BY <1>0 DEF Passed, Looking
  <2> QED
    BY <1>0, <2>1 DEF Gathered, Visited
<1>3. OnBoard' = OnBoard /\ Collected' = {}
  BY <1>1, <1>2 DEF OnBoard, Collected
<1>4. path' \in Bijection(0 .. PicNum, 0 .. PicNum)
  BY <1>1 DEF Shuffled
<1>5. /\ path' \in [0 .. PicNum -> 0 .. PicNum]
      /\ \A p \in 0 .. PicNum : \E k \in 0 .. PicNum : path'[k] = p
  BY <1>4 DEF Bijection, Injection, Surjection, IsInjective
<1>6. OnRoute' = {path'[k] : k \in 1 .. PicNum} \ {PicNum}
  BY DEF OnRoute, Start
<1>7. OnRoute' \subseteq Pictures
  <2> SUFFICES ASSUME NEW k \in 1 .. PicNum, path'[k] # PicNum PROVE path'[k] \in Pictures
    BY <1>6
  <2>1. path'[k] \in 0 .. PicNum
    BY <1>0, <1>5
  <2> QED
    BY <1>0, <2>1 DEF Pictures
<1> DEFINE missed == Pictures \ OnRoute'
<1>8. missed \subseteq {path'[0]}
  <2> SUFFICES ASSUME NEW p \in Pictures, p \notin OnRoute' PROVE p = path'[0]
    OBVIOUS
  <2>1. PICK k \in 0 .. PicNum : path'[k] = p
    BY <1>0, <1>5 DEF Pictures
  <2>2. k \notin 1 .. PicNum
    BY <1>0, <1>6, <2>1 DEF Pictures
  <2> QED
    BY <2>1, <2>2
<1>9. \A p, q \in missed : p = q
  BY <1>8
<1>10. (OnRoute \ Collected)' = Pictures \ missed
  BY <1>3, <1>7
<1> HIDE DEF missed
<1>11. missed \in SUBSET Pictures
  BY DEF missed
<1>12. (IF gui = "off" THEN Pictures ELSE OnRoute \ Collected)' = Pictures \ missed
  BY <1>1, <1>10
<1>13. delivered' = delivered /\ truth' = truth /\ gui = "off" /\ gui' # "off"
  BY <1>0, <1>1
<1>14. (sequencer /\ motion \in {4, 10})' = (sequencer /\ motion \in {4, 10})
  BY <1>0, <1>1
<1> QED
  BY <1>3, <1>9, <1>11, <1>12, <1>13, <1>14 DEF Promise!Plan

LEMMA PickRefines ==
  ASSUME Invariants, ServoPick
  PROVE  \E p \in Pictures : Promise!Collect(p)
<1> USE MissionAssumption
<1>0. /\ OnRoad /\ Gathered /\ AtEnd /\ HandOver /\ Sorted /\ Stands /\ Classified
      /\ target_cnt \in Nat /\ PicNum \in Nat
  BY DEF Invariants, RouteInv, LoadInv, AnswerInv, AtEnd
<1>1. /\ servo = "get" /\ held' = (IF here \in Pictures THEN {here} ELSE {})
      /\ UNCHANGED <<bins, delivered, truth, sequencer, motion, gui, path>>
  BY DEF ServoPick, sless, world, route
<1>2. motion = 13 /\ uart_flag /\ here \in Pictures /\ ~pick_flag /\ held = {}
  BY <1>0, <1>1 DEF HandOver, Classified, Sorted
<1>3. target_cnt \in 1 .. PicNum /\ here = path[target_cnt] /\ Looking /\ gui = "done"
  BY <1>0, <1>2 DEF OnRoad, Looking, Stands
<1>4. Passed = target_cnt - 1
  BY <1>0, <1>2, <1>3 DEF Passed
<1>5. here \notin Collected
  <2> SUFFICES ASSUME NEW j \in 1 .. target_cnt - 1, path[j] = here PROVE FALSE
    BY <1>0, <1>4 DEF Gathered, Visited
  <2>1. j \in 0 .. PicNum /\ target_cnt \in 0 .. PicNum /\ j # target_cnt
    BY <1>3
  <2> QED
    BY <1>0, <1>3, <2>1 DEF OnRoad
<1>6. here \in OnRoute
  BY <1>2, <1>3 DEF OnRoute, Start, Pictures
<1>7. OnBoard' = OnBoard \union {here}
  BY <1>1, <1>2 DEF OnBoard
<1>8. Collected' = Collected \union {here} /\ OnRoute' = OnRoute
  BY <1>1, <1>7 DEF Collected, OnRoute
<1>9. Promise!Collect(here)
  BY <1>1, <1>2, <1>3, <1>5, <1>6, <1>7, <1>8 DEF Promise!Collect
<1> QED
  BY <1>2, <1>9

LEMMA DropRefines ==
  ASSUME Marked, Invariants, ServoDrop
  PROVE  [Promise!Next]_(Promise!vars)
<1> USE MissionAssumption
<1>0. /\ OnRoad /\ Unloaded /\ AtEnd /\ Sorted /\ RouteOK
      /\ RouteInv /\ LoadInv /\ AnswerInv /\ target_cnt \in Nat /\ PicNum \in Nat
  BY DEF Invariants, RouteInv, LoadInv, AtEnd
<1>1. PICK tag \in 0 .. 2 : DropFacts(tag)
  BY <1>0, DropIs
<1>2. UNCHANGED <<truth, sequencer, motion, gui, path>>
  BY DEF ServoDrop, sless, world, route
<1>3. /\ Collected' = Collected
      /\ OnBoard' = {p \in OnBoard : truth[p] # tag}
      /\ bins[BinFlag(tag)] = {p \in OnBoard : truth[p] = tag}
  BY <1>0, <1>1, DropKeeps, DropSorts
<1>4. OnRoute' = OnRoute
  BY <1>2 DEF OnRoute
<1>5. /\ target_cnt > PicNum /\ held = {} /\ gui = "done"
      /\ delivered' = [delivered EXCEPT ![tag] = @ \union bins[BinFlag(tag)]]
  BY <1>0, <1>1 DEF DropFacts, OnRoad
<1>6. CASE motion = 14
  <2>1. target_cnt = PicNum + 3 - tag /\ Dropped >= 2 - tag
    BY <1>0, <1>1, <1>6 DEF DropFacts, Dropped
  <2>9. Dropped \in Int
    BY <1>0 DEF Dropped
  <2>2. tag < 2 => bins[BinFlag(2)] = {}
    BY <1>0, <2>1, <2>9, BinFlagIs DEF Unloaded
  <2>3. tag < 1 => bins[BinFlag(1)] = {}
    BY <1>0, <2>1, <2>9, BinFlagIs DEF Unloaded
  <2>4. \A p \in OnBoard : p \in Pictures /\ p \in bins[BinFlag(truth[p])]
    <3> SUFFICES ASSUME NEW p \in OnBoard PROVE p \in Pictures /\ p \in bins[BinFlag(truth[p])]
      OBVIOUS
    <3>1. PICK b \in 1 .. 3 : p \in bins[b]
      BY <1>0, <1>5 DEF OnBoard, Range, Sorted
    <3> QED
      BY <1>0, <3>1 DEF Sorted
  <2>5. \A p \in OnBoard : truth[p] <= tag
    <3> SUFFICES ASSUME NEW p \in OnBoard PROVE truth[p] <= tag
      OBVIOUS
    <3>1. truth[p] \in 0 .. 2 /\ bins[BinFlag(truth[p])] # {}
      BY <1>0, <2>4 DEF RouteOK
    <3>2. truth[p] = 2 => tag = 2
      BY <2>2, <3>1
    <3>3. truth[p] = 1 => tag \in 1 .. 2
      BY <2>3, <3>1
    <3> QED
      BY <3>1, <3>2, <3>3
  <2>6. OnRoute \ Collected = {}
    <3>1. target_cnt >= PicNum /\ ~Looking
      BY <1>0, <1>5, <1>6 DEF Looking
    <3> QED
      BY <3>1, AllCollected
  <2>7. OnBoard' = OnBoard \ {p \in OnBoard : truth[p] = tag}
    BY <1>3
  <2>8. Promise!Deliver(tag)
    BY <1>2, <1>3, <1>4, <1>5, <1>6, <2>5, <2>6, <2>7 DEF Promise!Deliver
  <2> QED
    BY <2>8 DEF Promise!Next
<1>7. CASE motion # 14
  <2>1. tag = 0 /\ Dropped = 3
    BY <1>0, <1>1, <1>7 DEF DropFacts, Dropped
  <2>2. bins[BinFlag(tag)] = {}
    BY <1>0, <2>1, BinFlagIs DEF Unloaded
  <2>3. OnBoard' = OnBoard
    BY <1>3, <2>2
  <2>4. delivered' = delivered
    BY <1>0, <1>5, <2>2 DEF Sorted
  <2> QED
    BY <1>2, <1>3, <1>4, <2>3, <2>4 DEF Promise!vars
<1> QED
  BY <1>6, <1>7

LEMMA EdgeRefines ==
  ASSUME Invariants, to_edge, motion' = 10
  PROVE  [Promise!Next]_(Promise!vars)
<1>1. /\ motion = 15 /\ UNCHANGED <<truth, held, bins, delivered, sequencer, gui, path>>
  BY DEF to_edge, Tick, threads, world, arm, load, route
<1>2. /\ OnBoard' = OnBoard /\ Collected' = Collected /\ OnRoute' = OnRoute
  BY <1>1 DEF OnBoard, Collected, OnRoute
<1>3. target_cnt = PicNum + 3 /\ gui = "done" /\ Stands
  BY <1>1 DEF Invariants, RouteInv, AtEnd, OnRoad, AnswerInv
<1>4. OnRoute \ Collected = {} /\ OnBoard = {}
  BY <1>1, <1>3, AllCollected, AllUnloaded, MissionAssumption DEF Looking
<1>5. CASE sequencer
  <2>1. Promise!Finish
    BY <1>1, <1>2, <1>3, <1>4, <1>5 DEF Promise!Finish
  <2> QED
    BY <2>1 DEF Promise!Next
<1>6. CASE ~sequencer
  BY <1>1, <1>2, <1>6 DEF Promise!vars
<1> QED
  BY <1>5, <1>6

\* A step of the car or of a flag is none of the mission.
LEMMA Unseen ==
  ASSUME UNCHANGED <<truth, sequencer, held, bins, delivered, path>>,
         gui' = gui \/ (gui = "planned" /\ gui' = "done"),
         over' <=> over
  PROVE  UNCHANGED Promise!vars
<1>1. OnBoard' = OnBoard /\ Collected' = Collected /\ OnRoute' = OnRoute
  BY DEF OnBoard, Collected, OnRoute
<1> QED
  BY <1>1 DEF Promise!vars, over

LEMMA TimerRefines ==
  ASSUME Invariants, motorControl_timer1, ~(to_edge /\ motion' = 10)
  PROVE  UNCHANGED Promise!vars
<1>1. UNCHANGED <<truth, sequencer, held, bins, delivered, gui>>
  BY DEF motorControl_timer1, Drive, DriveEnds, ArriveDepot, ArrivePicture, ToEdgeAsked, Stopped, to_pic_drive,
         to_pic_near, protect_back, wait_get, wait_drop, to_edge, go_in, threads, world, arm, load
<1>2. path' = path
  <2>1. CASE ArriveDepot
    <3>1. PICK tag \in 0 .. 2 : NextDepot(tag)
      BY <2>1 DEF ArriveDepot
    <3>2. CASE tag = 2
      BY <3>1, <3>2 DEF NextDepot, ACO_to_T, ToDepot
    <3>3. CASE tag = 1
      BY <3>1, <3>3 DEF NextDepot, ACO_to_L, ToDepot
    <3>4. CASE tag = 0
      BY <3>1, <3>4 DEF NextDepot, route
    <3> QED
      BY <3>2, <3>3, <3>4
  <2>2. CASE ~ArriveDepot
    BY <2>2 DEF motorControl_timer1, Drive, DriveEnds, ArrivePicture, ToEdgeAsked, Stopped, to_pic_drive,
       to_pic_near, protect_back, wait_get, wait_drop, to_edge, go_in, route
  <2> QED
    BY <2>1, <2>2
<1>3. over' <=> over
  <2>1. CASE Drive \/ DriveEnds \/ ArriveDepot \/ ArrivePicture \/ ToEdgeAsked
    <3>1. motion = 1 /\ (motion' \in {1, 3, 14, 15} \/ ~sequencer)
      BY <2>1 DEF Drive, DriveEnds, ArriveDepot, ArriveAt, ArrivePicture, ToEdgeAsked, Tick
    <3> QED
      BY <1>1, <3>1 DEF over
  <2>2. CASE Stopped \/ to_pic_drive \/ to_pic_near \/ protect_back \/ wait_get \/ wait_drop
    <3>1. motion' = motion \/ (motion \in {5, 13, 14} /\ motion' \in {1, 13, 14})
      BY <2>2 DEF Stopped, to_pic_drive, to_pic_near, protect_back, wait_get, wait_drop, Tick
    <3> QED
      BY <1>1, <3>1 DEF over
  <2>3. CASE to_edge \/ go_in
    <3>1. motion' = motion \/ (motion = 10 /\ motion' = 4)
      BY <2>3 DEF to_edge, go_in, Tick
    <3> QED
      BY <1>1, <3>1 DEF over
  <2> QED
    BY <2>1, <2>2, <2>3 DEF motorControl_timer1
<1> QED
  BY <1>1, <1>2, <1>3, Unseen

LEMMA ThreadsRefine ==
  ASSUME Invariants,
         MainThread \/ DataThread \/ GuiStart \/ Answer \/ Lose \/ UNCHANGED vars
         \/ (ServoThread /\ ~ServoPick /\ ~ServoDrop)
  PROVE  UNCHANGED Promise!vars
<1>1. CASE MainThread
  <2>1. UNCHANGED rest /\ (motion' = motion \/ (motion \in {3, 11} /\ motion' \in {5, 11}))
    BY <1>1, MainMotion DEF Invariants
  <2> QED
    BY <2>1, Unseen DEF rest, world, arm, load, route, over
<1>2. CASE DataThread
  <2>1. UNCHANGED dless
    BY <1>2 DEF DataThread, DataClass, DataRoute, DataBin, DataFlag, DataEdge
  <2>2. path' = path
    BY <1>2 DEF DataThread, DataClass, DataRoute, DataBin, DataFlag, DataEdge, route, ACO_to_next, ACO_to_R, ToDepot
  <2> QED
    BY <2>1, <2>2, Unseen DEF dless, world, arm, load, over
<1>3. CASE GuiStart \/ Answer \/ Lose \/ UNCHANGED vars
  <2>1. UNCHANGED <<truth, sequencer, held, bins, delivered, path>>
    BY <1>3 DEF GuiStart, Answer, Lose, vars, world, arm, load, route
  <2>2. /\ gui' = gui \/ (gui = "planned" /\ gui' = "done")
        /\ motion' = motion \/ (motion = 0 /\ motion' = 1)
    BY <1>3 DEF GuiStart, Answer, Lose, vars, Invariants, RouteInv, OnRoad
  <2> QED
    BY <2>1, <2>2, Unseen DEF over
<1>4. CASE ServoThread /\ ~ServoPick /\ ~ServoDrop
  <2>1. UNCHANGED sless
    BY <1>4 DEF ServoThread, ServoPoll, ServoPut, ServoHome, ServoTail, ServoTailed, ServoRote, ServoClear
  <2>2. UNCHANGED <<truth, sequencer, motion, gui, path>>
    BY <2>1 DEF sless, world, route
  <2>3. CASE ServoPut
    <3>1. Sorted /\ servo = "lift" /\ bins' = [bins EXCEPT ![job] = @ \union held] /\ held' = {}
          /\ delivered' = delivered
      BY <2>3 DEF ServoPut, Invariants, LoadInv
    <3>2. job \in 1 .. 3 /\ bins \in [1 .. 3 -> SUBSET Pictures] /\ bins' \in [1 .. 3 -> SUBSET Pictures]
      BY <3>1 DEF Sorted
    <3>3. /\ \A b \in 1 .. 3 : b # job => bins'[b] = bins[b]
          /\ bins'[job] = bins[job] \union held
      BY <3>1, <3>2
    <3>4. Range(bins) = {bins[b] : b \in 1 .. 3} /\ Range(bins') = {bins'[b] : b \in 1 .. 3}
      BY <3>2 DEF Range
    <3>5. OnBoard' = OnBoard
      <4>1. UNION Range(bins') = UNION {bins'[b] : b \in 1 .. 3}
        BY <3>4
      <4>2. UNION Range(bins) = UNION {bins[b] : b \in 1 .. 3}
        BY <3>4
      <4>3. UNION {bins'[b] : b \in 1 .. 3} = held \union UNION {bins[b] : b \in 1 .. 3}
        <5>1. ASSUME NEW p \in UNION {bins'[b] : b \in 1 .. 3}
              PROVE  p \in held \union UNION {bins[b] : b \in 1 .. 3}
          BY <3>2, <3>3
        <5>2. ASSUME NEW p \in held PROVE p \in UNION {bins'[b] : b \in 1 .. 3}
          BY <3>2, <3>3
        <5>3. ASSUME NEW p \in UNION {bins[b] : b \in 1 .. 3}
              PROVE  p \in UNION {bins'[b] : b \in 1 .. 3}
          BY <3>2, <3>3
        <5> QED
          BY <5>1, <5>2, <5>3
      <4> QED
        BY <3>1, <4>1, <4>2, <4>3 DEF OnBoard
    <3>6. Collected' = Collected /\ OnRoute' = OnRoute
      BY <2>2, <3>1, <3>5 DEF Collected, OnRoute
    <3> QED
      BY <2>2, <3>1, <3>5, <3>6 DEF Promise!vars
  <2>4. CASE ~ServoPut
    <3>1. UNCHANGED <<held, bins, delivered>>
      BY <1>4, <2>4 DEF ServoThread, ServoPoll, ServoHome, ServoTail, ServoTailed, ServoRote, ServoClear, load
    <3> QED
      BY <2>2, <3>1, Unseen DEF over
  <2> QED
    BY <2>3, <2>4
<1> QED
  BY <1>1, <1>2, <1>3, <1>4

LEMMA StepRefines == Marked /\ Invariants /\ [Next]_vars => [Promise!Next]_(Promise!vars)
<1> SUFFICES ASSUME Marked, Invariants, [Next]_vars PROVE [Promise!Next]_(Promise!vars)
  OBVIOUS
<1>1. CASE GuiPlan
  BY <1>1, PlanRefines DEF Promise!Next
<1>2. CASE ServoPick
  BY <1>2, PickRefines DEF Promise!Next
<1>3. CASE ServoDrop
  BY <1>3, DropRefines
<1>4. CASE to_edge /\ motion' = 10
  BY <1>4, EdgeRefines
<1>5. CASE motorControl_timer1 /\ ~(to_edge /\ motion' = 10)
  BY <1>5, TimerRefines
<1>6. CASE MainThread \/ DataThread \/ GuiStart \/ Answer \/ Lose \/ UNCHANGED vars
           \/ (ServoThread /\ ~ServoPick /\ ~ServoDrop)
  BY <1>6, ThreadsRefine
<1> QED
  BY <1>1, <1>2, <1>3, <1>4, <1>5, <1>6 DEF Next

LEMMA InitRefinesPromise == Init => Promise!Init
<1> SUFFICES ASSUME Init PROVE Promise!Init
  OBVIOUS
<1>1. OnBoard = {}
  BY DEF Init, OnBoard, Range
<1> QED
  BY <1>1 DEF Init, Promise!Init

\* Eight flags of car, timer1, three threads and the camera's answers amount to the
\* mission a reader expects: with any number of pictures, every picture of the route is
\* picked up once and before the first drop, the drops follow in the order fruit, traffic,
\* animals, and the mission ends with an empty car.
THEOREM MissionKeepsPromise ==
  ASSUME Repeats = 0, Layouts = {"A"}
  PROVE  Spec => ImplementsPromise
<1>1. Invariants /\ [Next]_vars => [Promise!Next]_(Promise!vars)
  BY StepRefines DEF Marked
<1> QED
  BY <1>1, InitRefinesPromise, InitInvariants, StepInvariants, PTL DEF Spec, ImplementsPromise, Promise!Spec

-----------------------------------------------------------------------------
\* Types, without the assumption on Repeats: flags, places in the code, what is on the
\* line, and how far path_clk and n can count.
FlagsTyped ==
  /\ sequencer \in BOOLEAN /\ moving \in BOOLEAN /\ turning \in BOOLEAN
  /\ pic_flag \in BOOLEAN /\ is_pic \in BOOLEAN /\ pic_stop \in BOOLEAN
  /\ put_flag \in BOOLEAN /\ pick_flag \in BOOLEAN /\ uart_flag \in BOOLEAN
  /\ servo_flag_ctrl \in BOOLEAN /\ drop_flag \in BOOLEAN /\ drop_tail_flag \in BOOLEAN
  /\ main_flag \in BOOLEAN /\ ticked \in BOOLEAN /\ main_ticked \in BOOLEAN
  /\ edge_flag \in BOOLEAN /\ lost \in BOOLEAN
PlacesTyped ==
  /\ motion \in {0, 1, 3, 4, 5, 10, 11, 13, 14, 15} /\ here \in Places
  /\ bar_flag \in 0 .. 2 /\ servo_flag \in 0 .. 6 /\ job \in 0 .. 6
  /\ main \in {"loop", "settle", "grab", "seen", "found", "regrab", "check", "still", "aim", "refound"}
  /\ servo \in {"sleep", "get", "lift", "home", "tail", "tailed", "drop", "rote", "clear"}
  /\ data \in {"recv", "route", "bin", "flag"} /\ gui \in {"off", "planned", "done"}
FrameType == [fn : {"#", "%"}, mark : {"A", "X"}, tag : 0 .. 2]

\* What the arm carries and has put down.
StoreOK ==
  /\ held \in SUBSET Pictures /\ bins \in [1 .. 3 -> SUBSET Pictures]
  /\ delivered \in [0 .. 2 -> SUBSET Pictures]
  /\ servo = "drop" => job \in 4 .. 6

\* Questions on the line, frames waiting, the one data_t is at and the one it has told
\* timer1 of: one at a time, while the car waits for it, and one for each frame that was
\* acted on again.  So path_clk and n, which such a frame moves on once more, stay behind
\* target_cnt but for as many.
Bit(b) == IF b THEN 1 ELSE 0
Asking == Bit(asked # "no")
Told == Bit(uart_flag = TRUE)
Parsing == Bit(data # "recv")
Routing == Bit(data = "route")
Awaiting == Bit(motion \in {4, 10, 13, 15})
NotAsked == Bit(motion \in {3, 5, 11})
Waiting == Len(mail) + Asking
LineOK ==
  /\ mail \in Seq(FrameType) /\ asked \in {"no", "class", "edge"} /\ repeats \in 0 .. Repeats
  /\ Waiting + Told + Parsing <= Awaiting + repeats
  /\ gui # "done" => mail = << >> /\ asked = "no" /\ data = "recv"
  /\ main \in {"settle", "grab", "seen"} => motion = 3
CountOK ==
  /\ target_cnt \in 0 .. PicNum + 3
  /\ path_clk <= PicNum + repeats
  /\ target_cnt <= PicNum => path_clk + Waiting + NotAsked <= target_cnt + 1 + repeats
  /\ target_cnt < PicNum => n <= PicNum
  /\ target_cnt = PicNum => n + Routing + Waiting + NotAsked <= PicNum + 1 + repeats
  /\ target_cnt > PicNum => n <= target_cnt + 1 + repeats
  /\ n <= PicNum + 3 + repeats

Typed == FlagsTyped /\ PlacesTyped /\ StoreOK /\ RouteOK /\ LineOK /\ CountOK

flagTypeVars == <<sequencer, wheels, search, hand, main_flag, times, edge_flag, lost>>

LEMMA FlagsTypedInit == Init => FlagsTyped
  BY Zenon DEF Init, FlagsTyped

LEMMA TimerFlagsTyped == FlagsTyped /\ motorControl_timer1 => FlagsTyped'
<1> SUFFICES ASSUME FlagsTyped, motorControl_timer1 PROVE FlagsTyped'
  OBVIOUS
<1> USE DEF motorControl_timer1, Drive, DriveEnds, ArriveDepot, ArrivePicture, ToEdgeAsked, Stopped,
            to_pic_drive, to_pic_near, protect_back, wait_get, wait_drop, to_edge, go_in
<1>1. UNCHANGED <<sequencer, main_flag, edge_flag, lost, is_pic>>
  BY DEF threads, world, mainv, frames, search
<1>2. ticked' = TRUE /\ main_ticked' = TRUE
  BY DEF Tick, ArriveAt
<1>3. turning' \in BOOLEAN \/ turning' = turning \/ turning' = FALSE
  BY DEF Wheels, Turn, wheels
<1>4. turning' \in BOOLEAN
  BY <1>3, Zenon DEF FlagsTyped
<1>5. moving' \in {moving, TRUE, FALSE, ~is_pic}
  BY DEF Wheels, wheels
<1>6. moving' \in BOOLEAN
  BY <1>5, Zenon DEF FlagsTyped
<1>7. pic_flag' \in {pic_flag, FALSE} /\ pic_stop' \in {pic_stop, pic_stop \/ is_pic}
  BY DEF search
<1>8. pic_flag' \in BOOLEAN /\ pic_stop' \in BOOLEAN
  BY <1>7, Zenon DEF FlagsTyped
<1>9. /\ put_flag' \in {put_flag, FALSE} /\ pick_flag' \in {pick_flag, FALSE}
      /\ uart_flag' \in {uart_flag, FALSE}
  BY DEF hand, PickTaken, UartTaken
<1>10. /\ put_flag' \in BOOLEAN /\ pick_flag' \in BOOLEAN /\ uart_flag' \in BOOLEAN
  BY <1>9, Zenon DEF FlagsTyped
<1>11. servo_flag_ctrl' \in {servo_flag_ctrl, TRUE} /\ drop_flag' \in {drop_flag, FALSE}
  BY DEF hand
<1>12. servo_flag_ctrl' \in BOOLEAN /\ drop_flag' \in BOOLEAN
  BY <1>11, Zenon DEF FlagsTyped
<1>13. drop_tail_flag' \in {drop_tail_flag, drop_tail_flag \/ target_cnt = PicNum}
  <2>1. ~wait_get => drop_tail_flag' = drop_tail_flag
    BY DEF hand
  <2>2. wait_get => drop_tail_flag' = drop_tail_flag \/ drop_tail_flag' = (drop_tail_flag \/ target_cnt = PicNum)
    BY Zenon DEF wait_get
  <2> QED
    BY <2>1, <2>2, Zenon
<1>14. drop_tail_flag' \in BOOLEAN
  BY <1>13, Zenon DEF FlagsTyped
<1> QED
  BY <1>1, <1>2, <1>6, <1>4, <1>8, <1>10, <1>12, <1>14, Zenon DEF FlagsTyped

LEMMA ThreadsFlagsTyped ==
  ASSUME FlagsTyped, MainThread \/ ServoThread \/ DataThread
  PROVE  FlagsTyped'
<1>1. CASE MainThread
  <2> USE DEF MainThread, MainPoll, MainSettled, MainLook, MainSeen, MainFound, MainRelook,
              MainCheck, MainStill, MainAim, MainRefound
  <2>1. /\ UNCHANGED <<sequencer, moving, turning, put_flag, pick_flag, uart_flag, servo_flag_ctrl>>
        /\ UNCHANGED <<drop_flag, drop_tail_flag, ticked, edge_flag, lost>>
    BY <1>1 DEF rest, world, wheels, hand, frames
  <2>2. main_ticked' \in {main_ticked, FALSE} /\ main_flag' \in {main_flag, TRUE, FALSE}
    BY <1>1 DEF FlagCleared
  <2>3. pic_flag' \in {pic_flag, TRUE} /\ pic_stop' \in {pic_stop, FALSE}
    BY <1>1 DEF search, StopCleared
  <2>4. is_pic' \in {is_pic, FALSE, Visible}
    BY <1>1 DEF search, get_pic
  <2>5. Visible \in BOOLEAN
    BY DEF Visible
  <2>6. /\ main_ticked' \in BOOLEAN /\ main_flag' \in BOOLEAN /\ pic_flag' \in BOOLEAN
        /\ pic_stop' \in BOOLEAN /\ is_pic' \in BOOLEAN
    BY <2>2, <2>3, <2>4, <2>5, Zenon DEF FlagsTyped
  <2> QED
    BY <2>1, <2>6, Zenon DEF FlagsTyped
<1>2. CASE ServoThread
  <2> USE DEF ServoThread, ServoPoll, ServoPick, ServoPut, ServoHome, ServoTail, ServoTailed,
              ServoDrop, ServoRote, ServoClear
  <2>1. /\ UNCHANGED <<sequencer, moving, turning, pic_flag, is_pic, pic_stop, uart_flag>>
        /\ UNCHANGED <<main_flag, main_ticked, edge_flag, lost>>
    BY <1>2 DEF sless, world, wheels, search, mainv, frames
  <2>2. put_flag' \in {put_flag, TRUE} /\ pick_flag' \in {pick_flag, TRUE}
    BY <1>2
  <2>3. servo_flag_ctrl' \in {servo_flag_ctrl, FALSE} /\ drop_flag' \in {drop_flag, TRUE}
    BY <1>2
  <2>4. drop_tail_flag' \in {drop_tail_flag, FALSE} /\ ticked' \in {ticked, FALSE}
    BY <1>2
  <2>5. /\ put_flag' \in BOOLEAN /\ pick_flag' \in BOOLEAN /\ servo_flag_ctrl' \in BOOLEAN
        /\ drop_flag' \in BOOLEAN /\ drop_tail_flag' \in BOOLEAN /\ ticked' \in BOOLEAN
    BY <2>2, <2>3, <2>4, Zenon DEF FlagsTyped
  <2> QED
    BY <2>1, <2>5, Zenon DEF FlagsTyped
<1>3. CASE DataThread
  <2> USE DEF DataThread, DataClass, DataRoute, DataBin, DataFlag, DataEdge
  <2>1. /\ UNCHANGED <<sequencer, moving, turning, pic_flag, is_pic, pic_stop, put_flag, pick_flag>>
        /\ UNCHANGED <<servo_flag_ctrl, drop_flag, drop_tail_flag, main_flag, ticked, main_ticked, lost>>
    BY <1>3 DEF dless, world, wheels, search, mainv, times
  <2>2. uart_flag' \in {uart_flag, TRUE} /\ edge_flag' \in {edge_flag, TRUE}
    BY <1>3
  <2>3. uart_flag' \in BOOLEAN /\ edge_flag' \in BOOLEAN
    BY <2>2, Zenon DEF FlagsTyped
  <2> QED
    BY <2>1, <2>3, SMT DEF FlagsTyped
<1> QED
  BY <1>1, <1>2, <1>3

LEMMA StepFlagsTyped == FlagsTyped /\ [Next]_vars => FlagsTyped'
<1> SUFFICES ASSUME FlagsTyped, [Next]_vars PROVE FlagsTyped'
  OBVIOUS
<1>1. CASE GuiPlan \/ GuiStart \/ Answer \/ UNCHANGED vars
  <2>1. UNCHANGED flagTypeVars
    BY <1>1 DEF GuiPlan, GuiStart, Answer, vars, flagTypeVars, world, mainv, frames
  <2> QED
    BY <2>1 DEF FlagsTyped, flagTypeVars, wheels, search, hand, times
<1>2. CASE Lose
  <2>1. /\ UNCHANGED <<sequencer, moving, turning, pic_flag, is_pic, pic_stop, put_flag, pick_flag>>
        /\ UNCHANGED <<uart_flag, servo_flag_ctrl, drop_flag, drop_tail_flag, main_flag, ticked>>
        /\ UNCHANGED <<main_ticked, edge_flag>> /\ lost' = TRUE
    BY <1>2 DEF Lose, world, wheels, search, hand, mainv, times
  <2> QED
    BY <2>1 DEF FlagsTyped
<1> QED
  BY <1>1, <1>2, TimerFlagsTyped, ThreadsFlagsTyped DEF Next

LEMMA TimerPlacesTyped == PlacesTyped /\ RouteOK /\ motorControl_timer1 => PlacesTyped'
<1> SUFFICES ASSUME PlacesTyped, RouteOK, motorControl_timer1 PROVE PlacesTyped'
  OBVIOUS
<1>1. UNCHANGED <<job, main, servo, data, gui, bar_flag>>
  BY DEF motorControl_timer1, Drive, DriveEnds, ArriveDepot, ArrivePicture, ToEdgeAsked, Stopped,
     to_pic_drive, to_pic_near, protect_back, wait_get, wait_drop, to_edge, go_in, threads, arm,
     mainv, frames
<1>2. px[lsttt] \in Places
  BY DEF RouteOK
<1>3. Road \in Places
  BY MissionAssumption DEF Road, Places
<1>4. here' \in Places
  BY <1>2, <1>3 DEF PlacesTyped, motorControl_timer1, Drive, DriveEnds, ArriveDepot, ArrivePicture,
     ToEdgeAsked, Stopped, to_pic_drive, to_pic_near, protect_back, wait_get, wait_drop, to_edge,
     go_in, wheels
<1>5. servo_flag' \in {servo_flag, 4, 5, 6}
  <2>1. CASE ArriveDepot
    <3>1. PICK tag \in 0 .. 2 : servo_flag' = DropFlag(tag)
      BY <2>1 DEF ArriveDepot
    <3> QED
      BY <3>1 DEF DropFlag
  <2>2. ~ArriveDepot => servo_flag' = servo_flag
    BY DEF motorControl_timer1, Drive, DriveEnds, ArrivePicture, ToEdgeAsked, Stopped,
       to_pic_drive, to_pic_near, protect_back, wait_get, wait_drop, to_edge, go_in
  <2> QED
    BY <2>1, <2>2
<1>6. motion' \in {0, 1, 3, 4, 5, 10, 11, 13, 14, 15}
  BY DEF PlacesTyped, motorControl_timer1, Drive, DriveEnds, ArriveDepot, ArrivePicture,
     ToEdgeAsked, Stopped, to_pic_drive, to_pic_near, protect_back, wait_get, wait_drop, to_edge,
     go_in
<1> QED
  BY <1>1, <1>4, <1>5, <1>6 DEF PlacesTyped

LEMMA ThreadsPlacesTyped ==
  ASSUME PlacesTyped, RouteOK, MainThread \/ ServoThread \/ DataThread
  PROVE  PlacesTyped'
<1>1. CASE MainThread
  <2>1. UNCHANGED <<here, bar_flag, servo_flag, job, servo, data, gui>>
    BY <1>1 DEF MainThread, MainPoll, MainSettled, MainLook, MainSeen, MainFound, MainRelook,
       MainCheck, MainStill, MainAim, MainRefound, rest, wheels, frames, arm
  <2>2. /\ motion' \in {motion, 5, 11}
        /\ main' \in {"loop", "settle", "grab", "seen", "found", "regrab", "check", "still", "aim", "refound"}
    BY <1>1 DEF MainThread, MainPoll, MainSettled, MainLook, MainSeen, MainFound, MainRelook,
       MainCheck, MainStill, MainAim, MainRefound
  <2> QED
    BY <2>1, <2>2 DEF PlacesTyped
<1>2. CASE ServoThread
  <2>1. UNCHANGED <<motion, here, bar_flag, servo_flag, main, data, gui>>
    BY <1>2 DEF ServoThread, ServoPoll, ServoPick, ServoPut, ServoHome, ServoTail, ServoTailed,
       ServoDrop, ServoRote, ServoClear, sless, wheels, frames, mainv
  <2>2. job' \in {job, servo_flag}
    BY <1>2 DEF ServoThread, ServoPoll, ServoPick, ServoPut, ServoHome, ServoTail, ServoTailed,
       ServoDrop, ServoRote, ServoClear
  <2>3. servo' \in {"sleep", "get", "lift", "home", "tail", "tailed", "drop", "rote", "clear"}
    BY <1>2 DEF ServoThread, ServoPoll, ServoPick, ServoPut, ServoHome, ServoTail, ServoTailed,
       ServoDrop, ServoRote, ServoClear, Sequence
  <2> QED
    BY <2>1, <2>2, <2>3 DEF PlacesTyped
<1>3. CASE DataThread
  <2>1. UNCHANGED <<motion, here, job, main, servo, gui>>
    BY <1>3 DEF DataThread, DataClass, DataRoute, DataBin, DataFlag, DataEdge, dless, wheels, mainv, arm
  <2>2. bar_flag' \in {bar_flag, 1, 2} /\ data' \in {data, "recv", "route", "bin", "flag"}
    BY <1>3 DEF DataThread, DataClass, DataRoute, DataBin, DataFlag, DataEdge
  <2>3. clas[lstttt] \in 0 .. 2
    BY DEF RouteOK
  <2>4. servo_flag' \in 0 .. 6
    BY <1>3, <2>3 DEF DataThread, DataClass, DataRoute, DataBin, DataFlag, DataEdge, PlacesTyped,
       BinFlag, PlaceClassified
  <2> QED
    BY <2>1, <2>2, <2>4 DEF PlacesTyped
<1> QED
  BY <1>1, <1>2, <1>3

LEMMA StepPlacesTyped == PlacesTyped /\ RouteOK /\ [Next]_vars => PlacesTyped'
<1> SUFFICES ASSUME PlacesTyped, RouteOK, [Next]_vars PROVE PlacesTyped'
  OBVIOUS
<1>1. CASE GuiPlan \/ GuiStart \/ Answer \/ Lose \/ UNCHANGED vars
  <2>1. UNCHANGED <<here, bar_flag, servo_flag, job, main, servo, data>>
    BY <1>1 DEF GuiPlan, GuiStart, Answer, Lose, vars, wheels, arm, mainv, frames
  <2>2. motion' \in {motion, 1} /\ gui' \in {gui, "planned", "done"}
    BY <1>1 DEF GuiPlan, GuiStart, Answer, Lose, vars
  <2> QED
    BY <2>1, <2>2 DEF PlacesTyped
<1> QED
  BY <1>1, TimerPlacesTyped, ThreadsPlacesTyped DEF Next

\* What timer1 does to the counts: most ticks nothing, and one thing at a time.
countVars == <<asked, uart_flag, target_cnt, path, path_clk, n, px, lsttt, lstttt>>
TickOnly ==
  /\ UNCHANGED countVars
  /\ \/ motion' = motion
     \/ motion = 1 /\ motion' = 4
     \/ motion = 14 /\ motion' = 1
     \/ motion = 15 /\ motion' = 10
     \/ motion = 10 /\ motion' = 4
AtPicture ==
  /\ motion = 1 /\ motion' = 3 /\ target_cnt < PicNum /\ target_cnt' = target_cnt + 1
  /\ UNCHANGED <<asked, uart_flag>> /\ UNCHANGED route
AsksClass ==
  /\ motion = 5 /\ motion' = 13 /\ asked' = "class"
  /\ UNCHANGED <<uart_flag, target_cnt, route>>
AsksEdge ==
  /\ motion = 1 /\ motion' = 15 /\ asked' = "edge" /\ target_cnt = PicNum + 3
  /\ UNCHANGED <<uart_flag, target_cnt, route>>
Departs ==
  /\ motion = 13 /\ motion' = 1 /\ uart_flag /\ uart_flag' = FALSE
  /\ UNCHANGED <<asked, target_cnt, route>>
AtDepotNow(tag) ==
  /\ motion = 1 /\ motion' = 14 /\ target_cnt = PicNum + 2 - tag /\ target_cnt' = target_cnt + 1
  /\ NextDepot(tag) /\ UNCHANGED <<asked, uart_flag>>

tickRest == <<mail, repeats, data, gui, main, truth, clas, servo, job, held, bins, delivered>>

LEMMA TimerIs ==
  ASSUME motorControl_timer1
  PROVE  /\ UNCHANGED tickRest
         /\ \/ TickOnly \/ AtPicture \/ AsksClass \/ AsksEdge \/ Departs
            \/ \E tag \in 0 .. 2 : AtDepotNow(tag)
<1> USE DEF threads, world, frames, mainv, arm, load, tickRest, countVars, hand, route, Tick, ArriveAt
<1>1. UNCHANGED tickRest
  BY DEF motorControl_timer1, Drive, DriveEnds, ArriveDepot, ArrivePicture, ToEdgeAsked, Stopped,
     to_pic_drive, to_pic_near, protect_back, wait_get, wait_drop, to_edge, go_in
<1>2. Drive \/ DriveEnds \/ Stopped \/ to_pic_drive \/ protect_back \/ wait_drop \/ go_in => TickOnly
  BY DEF TickOnly, Drive, DriveEnds, Stopped, to_pic_drive, protect_back, wait_drop, go_in
<1>3. to_edge => TickOnly
  BY DEF TickOnly, to_edge
<1>4. ArrivePicture => AtPicture
  BY DEF AtPicture, ArrivePicture
<1>5. to_pic_near => AsksClass
  BY DEF AsksClass, to_pic_near
<1>6. ToEdgeAsked => AsksEdge
  BY DEF AsksEdge, ToEdgeAsked
<1>7. wait_get => TickOnly \/ Departs
  BY DEF TickOnly, Departs, wait_get, UartTaken
<1>8. ArriveDepot => \E tag \in 0 .. 2 : AtDepotNow(tag)
  BY DEF AtDepotNow, ArriveDepot
<1> QED
  BY <1>1, <1>2, <1>3, <1>4, <1>5, <1>6, <1>7, <1>8 DEF motorControl_timer1

\* Each is 0 or 1, before a step and after it.
LEMMA Bits ==
  /\ Asking \in 0 .. 1 /\ Told \in 0 .. 1 /\ Parsing \in 0 .. 1 /\ Routing \in 0 .. 1
  /\ Awaiting \in 0 .. 1 /\ NotAsked \in 0 .. 1
  /\ Asking' \in 0 .. 1 /\ Told' \in 0 .. 1 /\ Parsing' \in 0 .. 1 /\ Routing' \in 0 .. 1
  /\ Awaiting' \in 0 .. 1 /\ NotAsked' \in 0 .. 1
BY DEF Bit, Asking, Told, Parsing, Routing, Awaiting, NotAsked

\* The numbers as numbers.
LEMMA Numbers ==
  ASSUME LineOK, CountOK, RouteOK
  PROVE  /\ PicNum \in Nat /\ PicNum > 0 /\ Repeats \in Nat /\ Len(mail) \in Nat
         /\ repeats \in Nat /\ target_cnt \in Nat /\ path_clk \in Nat /\ path_clk > 0 /\ n \in Nat
BY MissionAssumption DEF LineOK, CountOK, RouteOK

LEMMA TimerLine ==
  ASSUME LineOK, CountOK, RouteOK, SearchInv, motorControl_timer1
  PROVE  LineOK'
<1>0. /\ Len(mail) \in Nat /\ repeats \in Nat /\ Len(mail) + Asking + Told + Parsing <= Awaiting + repeats
  BY Numbers DEF LineOK, Waiting
<1>1. /\ mail' = mail /\ repeats' = repeats /\ data' = data /\ gui' = gui /\ main' = main
  BY TimerIs DEF tickRest
<1>2. /\ gui # "done" => motion = 0 /\ asked = "no"
      /\ main \in {"settle", "grab", "seen"} => motion = 3
      /\ asked \in {"no", "class", "edge"}
  BY DEF LineOK, SearchInv
<1>3. motion = 3 => motion' = 3
  BY TimerIs DEF TickOnly, AtPicture, AsksClass, AsksEdge, Departs, AtDepotNow
<1>4. asked' = asked \/ (asked' \in {"class", "edge"} /\ motion \in {1, 5})
  BY TimerIs DEF TickOnly, AtPicture, AsksClass, AsksEdge, Departs, AtDepotNow, countVars
<1>5. Parsing' = Parsing
  BY <1>1 DEF Parsing
<1>6. Len(mail) + Asking' + Told' + Parsing <= Awaiting' + repeats
  <2>1. CASE TickOnly
    <3>1. Asking' = Asking /\ Told' = Told
      BY <2>1 DEF TickOnly, countVars, Asking, Told
    <3>2. Awaiting = 1 => Awaiting' = 1
      BY <2>1 DEF TickOnly, Awaiting, Bit
    <3> QED BY <1>0, <3>1, <3>2, Bits
  <2>2. CASE AtPicture \/ (\E tag \in 0 .. 2 : AtDepotNow(tag))
    <3>1. Asking' = Asking /\ Told' = Told /\ Awaiting = 0
      BY <2>2 DEF AtPicture, AtDepotNow, Asking, Told, Awaiting, Bit
    <3> QED BY <1>0, <3>1, Bits
  <2>3. CASE AsksClass \/ AsksEdge
    <3>1. Told' = Told /\ Awaiting = 0 /\ Awaiting' = 1
      BY <2>3 DEF AsksClass, AsksEdge, Awaiting, Told, Bit
    <3> QED BY <1>0, <3>1, Bits
  <2>4. CASE Departs
    <3>1. asked' = asked /\ uart_flag /\ uart_flag' = FALSE
      BY <2>4 DEF Departs
    <3>2. Asking' = Asking /\ Told' = 0
      BY <3>1 DEF Asking, Told, Bit
    <3>3. Told = 1
      BY <2>4, Zenon DEF Departs, Told, Bit
    <3> QED BY <1>0, <3>2, <3>3, Bits
  <2> QED BY <2>1, <2>2, <2>3, <2>4, TimerIs
<1>7. (Waiting + Told + Parsing <= Awaiting + repeats)'
  BY <1>1, <1>5, <1>6 DEF Waiting
<1> QED
  BY <1>1, <1>2, <1>3, <1>4, <1>7 DEF LineOK

LEMMA NextDepotIs ==
  ASSUME NEW tag \in 0 .. 2, NextDepot(tag)
  PROVE  /\ UNCHANGED <<path, path_clk, lstttt>>
         /\ tag = 0 => UNCHANGED <<n, px, lsttt>>
         /\ tag # 0 => /\ n' = n + 1 /\ lsttt' = n
                       /\ \E d \in 0 .. 2 : px' = [px EXCEPT ![n] = Depot(d)]
<1>1. CASE tag = 0  BY <1>1 DEF NextDepot, route
<1>2. CASE tag = 1  BY <1>2 DEF NextDepot, ACO_to_L, ToDepot
<1>3. CASE tag = 2  BY <1>3 DEF NextDepot, ACO_to_T, ToDepot
<1> QED BY <1>1, <1>2, <1>3

LEMMA TimerCount ==
  ASSUME LineOK, CountOK, RouteOK, motorControl_timer1
  PROVE  CountOK'
<1>0. /\ PicNum \in Nat /\ PicNum > 0 /\ Len(mail) \in Nat /\ repeats \in Nat /\ target_cnt \in Nat
      /\ path_clk \in Nat /\ path_clk > 0 /\ n \in Nat
  BY Numbers
<1>1. mail' = mail /\ repeats' = repeats /\ Routing' = Routing
  BY TimerIs DEF tickRest, Routing
<1>2. /\ target_cnt \in 0 .. PicNum + 3
      /\ path_clk <= PicNum + repeats
      /\ target_cnt <= PicNum => path_clk + (Len(mail) + Asking) + NotAsked <= target_cnt + 1 + repeats
      /\ target_cnt < PicNum => n <= PicNum
      /\ target_cnt = PicNum => n + Routing + (Len(mail) + Asking) + NotAsked <= PicNum + 1 + repeats
      /\ target_cnt > PicNum => n <= target_cnt + 1 + repeats
      /\ n <= PicNum + 3 + repeats
  BY DEF CountOK, Waiting
<1>3. motion = 1 => Len(mail) + Asking + Routing <= repeats
  <2>1. Len(mail) + Asking + Told + Parsing <= Awaiting + repeats
    BY DEF LineOK, Waiting
  <2>2. Routing <= Parsing
    BY DEF Routing, Parsing, Bit
  <2>3. motion = 1 => Awaiting = 0
    BY DEF Awaiting, Bit
  <2> QED BY <1>0, <2>1, <2>2, <2>3, Bits
<1>d. motion' \in {1, 4, 10, 13, 14, 15} => NotAsked' = 0
  BY DEF NotAsked, Bit
<1> SUFFICES
      /\ target_cnt' \in 0 .. PicNum + 3
      /\ path_clk' <= PicNum + repeats
      /\ target_cnt' <= PicNum => path_clk' + (Len(mail) + Asking') + NotAsked' <= target_cnt' + 1 + repeats
      /\ target_cnt' < PicNum => n' <= PicNum
      /\ target_cnt' = PicNum => n' + Routing + (Len(mail) + Asking') + NotAsked' <= PicNum + 1 + repeats
      /\ target_cnt' > PicNum => n' <= target_cnt' + 1 + repeats
      /\ n' <= PicNum + 3 + repeats
  BY <1>1 DEF CountOK, Waiting
<1>4. CASE TickOnly
  <2>1. /\ asked' = asked /\ target_cnt' = target_cnt /\ path_clk' = path_clk /\ n' = n
        /\ motion' = motion \/ motion' \in {1, 4, 10}
    BY <1>4 DEF TickOnly, countVars
  <2>2. Asking' = Asking /\ (NotAsked' = NotAsked \/ NotAsked' = 0)
    BY <1>d, <2>1 DEF Asking, NotAsked
  <2>3. (Len(mail) + Asking') + NotAsked' <= (Len(mail) + Asking) + NotAsked
    BY <1>0, <2>2, Bits
  <2> QED BY <1>0, <1>2, <2>1, <2>3, Bits
<1>5. CASE AtPicture
  <2>1. /\ Asking' = Asking /\ target_cnt < PicNum /\ target_cnt' = target_cnt + 1
        /\ path_clk' = path_clk /\ n' = n /\ motion = 1 /\ NotAsked = 0
    BY <1>5 DEF AtPicture, route, Asking, NotAsked, Bit
  <2>2. (Len(mail) + Asking') + NotAsked' <= repeats + 1 - Routing
    BY <1>0, <1>3, <2>1, Bits
  <2> QED BY <1>0, <1>2, <2>1, <2>2, Bits
<1>6. CASE AsksClass
  <2>1. /\ target_cnt' = target_cnt /\ path_clk' = path_clk /\ n' = n
        /\ NotAsked = 1 /\ NotAsked' = 0
    BY <1>6 DEF AsksClass, route, NotAsked, Bit
  <2>2. (Len(mail) + Asking') + NotAsked' <= (Len(mail) + Asking) + NotAsked
    BY <1>0, <2>1, Bits
  <2> QED BY <1>0, <1>2, <2>1, <2>2, Bits
<1>7. CASE AsksEdge
  <2>1. target_cnt' = target_cnt /\ target_cnt = PicNum + 3 /\ path_clk' = path_clk /\ n' = n
    BY <1>7 DEF AsksEdge, route
  <2> QED BY <1>0, <1>2, <2>1
<1>8. CASE Departs
  <2>1. /\ Asking' = Asking /\ target_cnt' = target_cnt /\ path_clk' = path_clk /\ n' = n
        /\ NotAsked' = 0
    BY <1>8 DEF Departs, route, Asking, NotAsked, Bit
  <2> QED BY <1>0, <1>2, <2>1, Bits
<1>9. ASSUME NEW tag \in 0 .. 2, AtDepotNow(tag)
      PROVE  /\ target_cnt' \in PicNum + 1 .. PicNum + 3
             /\ path_clk' <= PicNum + repeats /\ n' <= target_cnt' + 1 + repeats
             /\ n' <= PicNum + 3 + repeats
  <2>1. target_cnt = PicNum + 2 - tag /\ target_cnt' = target_cnt + 1 /\ tag \in {0, 1, 2}
    BY <1>9 DEF AtDepotNow
  <2>2. path_clk' = path_clk /\ n' \in {n, n + 1} /\ (tag = 0 => n' = n)
    BY <1>9, NextDepotIs DEF AtDepotNow
  <2>3. n <= PicNum + 1 + repeats \/ target_cnt # PicNum
    BY <1>0, <1>2, Bits
  <2> QED BY <1>0, <1>2, <2>1, <2>2, <2>3
<1>10. CASE \E tag \in 0 .. 2 : AtDepotNow(tag)
  <2>1. /\ target_cnt' \in PicNum + 1 .. PicNum + 3
        /\ path_clk' <= PicNum + repeats /\ n' <= target_cnt' + 1 + repeats
        /\ n' <= PicNum + 3 + repeats
    BY <1>9, <1>10
  <2> QED BY <1>0, <2>1
<1> QED BY <1>4, <1>5, <1>6, <1>7, <1>8, <1>10, TimerIs

\* ToDepot appends at px[n], behind all that is in use.
LEMMA TimerRoad ==
  ASSUME LineOK, CountOK, RouteOK, motorControl_timer1,
         gui # "done" => motion = 0
  PROVE  RouteOK'
<1>0. /\ PicNum \in Nat /\ PicNum > 0 /\ Repeats \in Nat /\ repeats \in Nat /\ n \in Nat
      /\ repeats <= Repeats /\ target_cnt \in Nat /\ Len(mail) \in Nat
  BY Numbers DEF LineOK
<1>1. UNCHANGED <<truth, gui, clas>>
  BY TimerIs DEF tickRest
<1>2. CASE UNCHANGED route
  <2>1. target_cnt' = target_cnt \/ motion = 1
    BY TimerIs DEF TickOnly, AtPicture, AsksClass, AsksEdge, Departs, AtDepotNow, countVars
  <2> QED BY <1>1, <1>2, <2>1 DEF RouteOK, route
<1>3. ASSUME NEW tag \in 0 .. 2, AtDepotNow(tag) PROVE RouteOK'
  <2>1. /\ UNCHANGED <<path, path_clk, lstttt>> /\ target_cnt = PicNum + 2 - tag /\ motion = 1
        /\ tag = 0 => UNCHANGED <<n, px, lsttt>>
        /\ tag # 0 => /\ n' = n + 1 /\ lsttt' = n
                      /\ \E d \in 0 .. 2 : px' = [px EXCEPT ![n] = Depot(d)]
    BY <1>3, NextDepotIs DEF AtDepotNow
  <2>2. CASE tag = 0
    BY <1>1, <2>1, <2>2 DEF RouteOK
  <2>3. CASE tag # 0
    <3>1. target_cnt = PicNum \/ target_cnt = PicNum + 1
      BY <1>0, <2>1, <2>3
    <3>2. n <= PicNum + 2 + repeats
      BY <1>0, <3>1, Bits DEF CountOK, Waiting
    <3>3. n \in Indices
      BY <1>0, <3>2 DEF Indices
    <3>4. PICK d \in 0 .. 2 : px' = [px EXCEPT ![n] = Depot(d)]
      BY <2>1, <2>3
    <3>5. Depot(d) \in Places
      BY <1>0 DEF Depot, Places, Road
    <3>6. px' \in [Indices -> Places]
      BY <3>4, <3>5 DEF RouteOK
    <3>7. n' \in Nat /\ lsttt' \in Indices /\ lstttt' \in Indices
      BY <1>0, <2>1, <2>3, <3>3 DEF RouteOK
    <3>8. gui' = "done"
      BY <1>1, <2>1
    <3> QED
      BY <1>1, <2>1, <3>6, <3>7, <3>8 DEF RouteOK
  <2> QED BY <2>2, <2>3
<1>4. UNCHANGED route \/ \E tag \in 0 .. 2 : AtDepotNow(tag)
  <2>1. TickOnly => UNCHANGED route
    BY DEF TickOnly, countVars, route
  <2> QED BY <2>1, TimerIs DEF AtPicture, AsksClass, AsksEdge, Departs
<1> QED BY <1>2, <1>3, <1>4

\* Nothing on the line moves, and neither do the counts.
LEMMA LineSame ==
  ASSUME LineOK, UNCHANGED <<asked, mail, repeats, gui, uart_flag, data>>,
         Awaiting' = Awaiting, main' \in {"settle", "grab", "seen"} => motion' = 3
  PROVE  LineOK'
BY DEF LineOK, Waiting, Asking, Told, Parsing

LEMMA CountSame ==
  ASSUME LineOK, CountOK, RouteOK, UNCHANGED <<target_cnt, path_clk, n, mail, asked, repeats, data>>,
         NotAsked' = NotAsked
  PROVE  CountOK'
BY DEF CountOK, Waiting, Asking, Routing

LEMMA RoadStays ==
  ASSUME RouteOK, UNCHANGED <<truth, route, clas, gui, target_cnt>>
  PROVE  RouteOK'
BY DEF RouteOK, route

LEMMA StoreSame == StoreOK /\ UNCHANGED arm => StoreOK'
BY DEF StoreOK, arm, load

LEMMA MainTypes ==
  ASSUME LineOK, CountOK, RouteOK, StoreOK, SearchInv, MainThread
  PROVE  LineOK' /\ CountOK' /\ RouteOK' /\ StoreOK'
<1> USE DEF MainThread, MainPoll, MainSettled, MainLook, MainSeen, MainFound, MainRelook,
            MainCheck, MainStill, MainAim, MainRefound
<1>1. /\ UNCHANGED <<asked, mail, repeats, gui, uart_flag, data, target_cnt, path_clk, n>>
      /\ UNCHANGED <<truth, route, clas, arm>>
  BY DEF rest, world, frames, hand, route
<1>2. motion' = motion \/ (motion \in {3, 11} /\ motion' \in {5, 11})
  BY DEF LineOK, SearchInv
<1>3. Awaiting' = Awaiting /\ NotAsked' = NotAsked
  BY <1>2 DEF Awaiting, NotAsked, Bit
<1>4. main' \in {"settle", "grab", "seen"} => motion' = 3
  <2>1. CASE MainPoll
    BY <2>1 DEF SearchInv
  <2>2. CASE ~MainPoll
    <3>1. main' \in {"settle", "grab", "seen"} =>
            /\ main \in {"settle", "grab", "seen"} /\ motion' = motion
      BY <2>2
    <3> QED BY <3>1 DEF LineOK
  <2> QED BY <2>1, <2>2
<1> QED
  BY <1>1, <1>3, <1>4, LineSame, CountSame, RoadStays, StoreSame

LEMMA ServoTypes ==
  ASSUME LineOK, CountOK, RouteOK, StoreOK, ServoThread
  PROVE  LineOK' /\ CountOK' /\ RouteOK' /\ StoreOK'
<1> USE DEF ServoThread, ServoPoll, ServoPick, ServoPut, ServoHome, ServoTail, ServoTailed,
            ServoDrop, ServoRote, ServoClear
<1>1. /\ UNCHANGED <<asked, mail, repeats, gui, uart_flag, data, target_cnt, path_clk, n>>
      /\ UNCHANGED <<truth, route, clas, main, motion>>
  BY DEF sless, world, frames, mainv, route
<1>2. LineOK' /\ CountOK' /\ RouteOK'
  BY <1>1, LineSame, CountSame, RoadStays DEF Awaiting, NotAsked, LineOK
<1>3. StoreOK'
  <2>1. CASE ServoPoll
    BY <2>1 DEF StoreOK, load, Sequence
  <2>2. CASE ServoPick
    BY <2>2 DEF StoreOK
  <2>3. CASE ServoPut
    <3>1. held \in SUBSET Pictures /\ bins \in [1 .. 3 -> SUBSET Pictures]
      BY DEF StoreOK
    <3>2. bins' \in [1 .. 3 -> SUBSET Pictures]
      BY <2>3, <3>1
    <3> QED BY <2>3, <3>2 DEF StoreOK
  <2>4. CASE ServoDrop
    <3>1. BinOf(job) \in 1 .. 3
      BY <2>4 DEF StoreOK, BinOf
    <3>2. bins[BinOf(job)] \in SUBSET Pictures
      BY <3>1 DEF StoreOK
    <3>3. bins' \in [1 .. 3 -> SUBSET Pictures]
      BY <2>4 DEF StoreOK
    <3>4. delivered' \in [0 .. 2 -> SUBSET Pictures]
      <4>1. \A tag \in 0 .. 2 :
              (IF here = Depot(tag) THEN delivered[tag] \union bins[BinOf(job)] ELSE delivered[tag])
                \in SUBSET Pictures
        BY <3>2 DEF StoreOK
      <4> QED BY <2>4, <4>1
    <3>5. held' = held /\ servo' # "drop"
      BY <2>4
    <3> QED BY <3>3, <3>4, <3>5 DEF StoreOK
  <2>5. CASE ServoHome \/ ServoTail \/ ServoTailed \/ ServoRote \/ ServoClear
    <3>1. UNCHANGED load /\ servo' # "drop"
      BY <2>5
    <3> QED BY <3>1 DEF StoreOK, load
  <2> QED BY <2>1, <2>2, <2>3, <2>4, <2>5
<1> QED BY <1>2, <1>3

LEMMA CameraTypes ==
  ASSUME LineOK, CountOK, RouteOK, StoreOK, Answer \/ Lose
  PROVE  LineOK' /\ CountOK' /\ RouteOK' /\ StoreOK'
<1> USE DEF Answer, Lose
<1>1. /\ UNCHANGED <<motion, repeats, gui, uart_flag, data, target_cnt, path_clk, n>>
      /\ UNCHANGED <<truth, route, clas, arm, main>> /\ asked # "no" /\ asked' = "no"
  BY DEF world, mainv, route, hand
<1>2. RouteOK' /\ StoreOK'
  BY <1>1, RoadStays, StoreSame
<1>3. mail' \in Seq(FrameType) /\ Len(mail') \in {Len(mail), Len(mail) + 1} /\ Len(mail) \in Nat
  <2>1. mail \in Seq(FrameType)
    BY DEF LineOK
  <2>2. CASE Answer
    <3>1. asked = "class" => truth[here] \in 0 .. 2
      BY <2>2 DEF RouteOK
    <3>2. Frames \subseteq FrameType
      BY <3>1, MissionAssumption DEF Frames, FrameType
    <3>3. PICK f \in Frames : mail' = Append(mail, f)
      BY <2>2
    <3> QED BY <2>1, <3>2, <3>3
  <2>3. CASE Lose
    BY <2>1, <2>3
  <2> QED BY <2>2, <2>3
<1>4. /\ Asking = 1 /\ Asking' = 0 /\ Told' = Told /\ Parsing' = Parsing /\ Routing' = Routing
      /\ Awaiting' = Awaiting /\ NotAsked' = NotAsked
  BY <1>1 DEF Asking, Told, Parsing, Routing, Awaiting, NotAsked, Bit
<1>5. Len(mail') + Asking' <= Len(mail) + Asking /\ Len(mail') \in Nat
  BY <1>3, <1>4
<1>6. (Waiting + Told + Parsing <= Awaiting + repeats)'
  BY <1>1, <1>3, <1>4, <1>5, Numbers, Bits DEF LineOK, Waiting
<1>7. LineOK'
  BY <1>1, <1>3, <1>6 DEF LineOK
<1>8. CountOK'
  <2>1. /\ PicNum \in Nat /\ repeats \in Nat /\ target_cnt \in Nat /\ path_clk \in Nat /\ n \in Nat
        /\ Asking \in 0 .. 1 /\ NotAsked \in 0 .. 1 /\ Routing \in 0 .. 1
    BY Numbers, Bits
  <2>2. /\ target_cnt <= PicNum => path_clk + (Len(mail) + Asking) + NotAsked <= target_cnt + 1 + repeats
        /\ target_cnt = PicNum => n + Routing + (Len(mail) + Asking) + NotAsked <= PicNum + 1 + repeats
    BY DEF CountOK, Waiting
  <2>3. Len(mail') + Asking' = Len(mail') /\ Len(mail') <= Len(mail) + 1 /\ Asking = 1
    BY <1>3, <1>4
  <2>4. /\ target_cnt <= PicNum => path_clk + (Len(mail') + Asking') + NotAsked <= target_cnt + 1 + repeats
        /\ target_cnt = PicNum => n + Routing + (Len(mail') + Asking') + NotAsked <= PicNum + 1 + repeats
    BY <1>3, <1>5, <2>1, <2>2, <2>3
  <2> QED BY <1>1, <1>4, <2>4 DEF CountOK, Waiting
<1> QED BY <1>2, <1>7, <1>8

LEMMA GuiTypes ==
  ASSUME LineOK, CountOK, RouteOK, StoreOK, SearchInv, GuiPlan \/ GuiStart
  PROVE  LineOK' /\ CountOK' /\ RouteOK' /\ StoreOK'
<1> USE DEF GuiPlan, GuiStart
<1>1. /\ UNCHANGED <<asked, mail, repeats, uart_flag, data, target_cnt, path_clk>>
      /\ UNCHANGED <<truth, clas, arm, main>>
      /\ gui \in {"off", "planned"}
  BY DEF world, mainv, hand, frames, ACO_to_first, route
<1>2. motion = 0 /\ main = "loop" /\ motion' \in {0, 1} /\ target_cnt = 0 /\ path_clk = 1
      /\ mail = << >> /\ asked = "no" /\ data = "recv"
  BY <1>1 DEF SearchInv, LineOK, RouteOK
<1>3. /\ Asking' = Asking /\ Told' = Told /\ Parsing' = Parsing /\ Routing' = Routing
      /\ Awaiting' = Awaiting /\ NotAsked' = NotAsked /\ Waiting' = Waiting
  BY <1>1, <1>2 DEF Asking, Told, Parsing, Routing, Awaiting, NotAsked, Bit, Waiting
<1>4. LineOK'
  BY <1>1, <1>2, <1>3 DEF LineOK
<1>5. n' = n \/ n' = PicNum
  BY DEF ACO_to_first, route
<1>6. CountOK'
  BY <1>1, <1>2, <1>3, <1>5, Numbers DEF CountOK
<1>7. RouteOK'
  <2>1. CASE GuiPlan
    <3>1. path' \in [0 .. PicNum -> 0 .. PicNum]
      BY <2>1 DEF ACO_to_first, Shuffled, Bijection, Injection, Surjection
    <3>2. PicNum \in Nat /\ PicNum > 0 /\ Repeats \in Nat
      BY Numbers
    <3>3. lsttt' \in Indices /\ lstttt' \in Indices /\ n' \in Nat
      BY <1>2, <2>1, <3>1, <3>2 DEF ACO_to_first, Indices
    <3>4. px' \in [Indices -> Places]
      BY <2>1, <3>2 DEF ACO_to_first, Indices, Places, Road, Start
    <3> QED BY <1>1, <1>2, <3>1, <3>3, <3>4 DEF RouteOK
  <2>2. CASE GuiStart
    BY <1>1, <1>2, <2>2 DEF RouteOK, route
  <2> QED BY <2>1, <2>2
<1>8. StoreOK'
  BY <1>1, StoreSame
<1> QED BY <1>4, <1>6, <1>7, <1>8

LEMMA Shift == \A a, b, c, d \in Nat : a <= b + c /\ c <= d => a <= b + d
  OBVIOUS

\* A frame leaves the line, or one more repetition is used up.
LEMMA TakeIs ==
  ASSUME LineOK, mail # << >>, TakeFrame
  PROVE  /\ mail' \in Seq(FrameType) /\ Head(mail) \in FrameType /\ repeats' \in 0 .. Repeats
         /\ gui = "done" /\ Len(mail) \in Nat /\ Len(mail) > 0 /\ Len(mail') \in Nat /\ repeats' \in Nat
         /\ \/ Len(mail') = Len(mail) - 1 /\ repeats' = repeats
            \/ Len(mail') = Len(mail) /\ repeats' = repeats + 1
<1>1. mail \in Seq(FrameType) /\ repeats \in 0 .. Repeats /\ Repeats \in Nat /\ gui = "done"
  BY MissionAssumption DEF LineOK
<1>2. Len(mail) \in Nat /\ Len(mail) > 0 /\ Head(mail) \in FrameType
      /\ Tail(mail) \in Seq(FrameType) /\ Len(Tail(mail)) = Len(mail) - 1
  BY <1>1
<1>3. CASE mail' = Tail(mail) /\ repeats' = repeats
  <2>1. Len(mail') = Len(mail) - 1 /\ mail' \in Seq(FrameType)
    BY <1>2, <1>3
  <2>2. repeats' \in 0 .. Repeats /\ repeats' \in Nat
    BY <1>1, <1>3
  <2>3. Len(mail') \in Nat
    BY <1>2, <2>1
  <2> QED BY <1>1, <1>2, <1>3, <2>1, <2>2, <2>3
<1>4. CASE repeats < Repeats /\ repeats' = repeats + 1 /\ mail' = mail
  BY <1>1, <1>2, <1>4
<1> QED BY <1>3, <1>4 DEF TakeFrame

LEMMA DataEdgeTypes ==
  ASSUME LineOK, CountOK, RouteOK, DataEdge
  PROVE  LineOK' /\ CountOK' /\ RouteOK'
<1>0. mail # << >> /\ TakeFrame
  BY DEF DataEdge
<1>1. /\ UNCHANGED <<motion, gui, uart_flag, data, target_cnt, path_clk, n, asked>>
      /\ UNCHANGED <<truth, route, clas, main>>
  BY DEF DataEdge, dless, world, mainv, route
<1>2. /\ Asking' = Asking /\ Told' = Told /\ Parsing' = Parsing /\ Routing' = Routing
      /\ Awaiting' = Awaiting /\ NotAsked' = NotAsked
  BY <1>1 DEF Asking, Told, Parsing, Routing, Awaiting, NotAsked
<1>3. Waiting + Told + Parsing <= Awaiting + repeats
  BY DEF LineOK
<1>4. (Waiting + Told + Parsing <= Awaiting + repeats)'
  BY <1>0, <1>1, <1>2, <1>3, TakeIs, Numbers, Bits DEF Waiting
<1>5. LineOK'
  BY <1>0, <1>1, <1>4, TakeIs DEF LineOK
<1>6. RouteOK'
  BY <1>1, RoadStays
<1>7. CountOK'
  <2>1. /\ PicNum \in Nat /\ repeats \in Nat /\ target_cnt \in Nat /\ path_clk \in Nat /\ n \in Nat
        /\ Asking \in 0 .. 1 /\ NotAsked \in 0 .. 1 /\ Routing \in 0 .. 1
    BY Numbers, Bits
  <2>2. /\ path_clk <= PicNum + repeats
        /\ target_cnt <= PicNum => path_clk + (Len(mail) + Asking) + NotAsked <= target_cnt + 1 + repeats
        /\ target_cnt = PicNum => n + Routing + (Len(mail) + Asking) + NotAsked <= PicNum + 1 + repeats
        /\ target_cnt > PicNum => n <= target_cnt + 1 + repeats
    BY DEF CountOK, Waiting
  <2>3. /\ path_clk <= PicNum + repeats'
        /\ target_cnt <= PicNum => path_clk + (Len(mail') + Asking) + NotAsked <= target_cnt + 1 + repeats'
        /\ target_cnt = PicNum => n + Routing + (Len(mail') + Asking) + NotAsked <= PicNum + 1 + repeats'
        /\ target_cnt > PicNum => n <= target_cnt + 1 + repeats'
    BY <1>0, TakeIs, <2>1, <2>2
  <2>4. n <= PicNum + 3 + repeats'
    <3>1. PicNum + 3 \in Nat /\ n <= (PicNum + 3) + repeats
      BY <2>1 DEF CountOK
    <3>2. repeats <= repeats' /\ repeats' \in Nat
      BY <1>0, <2>1, TakeIs
    <3> QED BY <2>1, <3>1, <3>2, Shift
  <2> QED BY <1>1, <1>2, <2>3, <2>4 DEF CountOK, Waiting
<1> QED BY <1>5, <1>6, <1>7

LEMMA DataClassTypes ==
  ASSUME LineOK, CountOK, RouteOK, DataClass
  PROVE  LineOK' /\ CountOK' /\ RouteOK'
<1>0. mail # << >> /\ TakeFrame /\ gui = "done"
  BY TakeIs DEF DataClass
<1>1. /\ UNCHANGED <<motion, gui, uart_flag, target_cnt, asked, truth, main>>
      /\ data = "recv" /\ data' = "route"
      /\ clas' = ClassAfter(Head(mail))
  BY DEF DataClass, dless, world, mainv
<1>2. /\ Asking' = Asking /\ Told' = Told /\ Parsing = 0 /\ Parsing' = 1 /\ Routing = 0 /\ Routing' = 1
      /\ Awaiting' = Awaiting /\ NotAsked' = NotAsked
  BY <1>1 DEF Asking, Told, Parsing, Routing, Awaiting, NotAsked, Bit
<1>3. Waiting + Told + Parsing <= Awaiting + repeats
  BY DEF LineOK
<1>4. (Waiting + Told + Parsing <= Awaiting + repeats)'
  BY <1>0, <1>1, <1>2, <1>3, TakeIs, Numbers, Bits DEF Waiting
<1>5. LineOK'
  BY <1>0, <1>1, <1>4, TakeIs DEF LineOK
<1>6. /\ n' = n /\ px' = px /\ path' = path
      /\ \/ UNCHANGED <<path_clk, lsttt, lstttt>>
         \/ /\ target_cnt < PicNum /\ path_clk' = path_clk + 1
            /\ lsttt' = Entry(path_clk + 1) /\ lstttt' = lsttt
  BY DEF DataClass, ACO_to_next, route, MorePictures
<1>7. /\ PicNum \in Nat /\ PicNum > 0 /\ Repeats \in Nat /\ repeats \in Nat /\ target_cnt \in Nat
      /\ path_clk \in Nat /\ n \in Nat
      /\ Asking \in 0 .. 1 /\ NotAsked \in 0 .. 1
  BY Numbers, Bits
<1>8. RouteOK'
  <2>1. Head(mail).tag \in 0 .. 2
    BY <1>0, TakeIs DEF FrameType
  <2>2. clas' \in [Indices -> 0 .. 2]
    BY <1>1, <2>1 DEF RouteOK, ClassAfter
  <2>3. Entry(path_clk + 1) \in Indices
    BY <1>7 DEF Entry, RouteOK, Indices
  <2>4. path_clk' \in Nat \ {0} /\ lsttt' \in Indices /\ lstttt' \in Indices
    BY <1>6, <2>3 DEF RouteOK
  <2>5. /\ truth' \in [Pictures -> 0 .. 2] /\ path' \in [0 .. PicNum -> 0 .. PicNum]
        /\ n' \in Nat /\ px' \in [Indices -> Places]
    BY <1>1, <1>6 DEF RouteOK
  <2> QED BY <1>0, <1>1, <2>2, <2>4, <2>5 DEF RouteOK
<1>9. CountOK'
  <2>2. /\ path_clk <= PicNum + repeats
        /\ target_cnt <= PicNum => path_clk + (Len(mail) + Asking) + NotAsked <= target_cnt + 1 + repeats
        /\ target_cnt = PicNum => n + (Len(mail) + Asking) + NotAsked <= PicNum + 1 + repeats
        /\ target_cnt > PicNum => n <= target_cnt + 1 + repeats
        /\ target_cnt < PicNum => n <= PicNum
    BY <1>2, <1>7, TakeIs, <1>0 DEF CountOK, Waiting
  <2>3. /\ path_clk' <= PicNum + repeats'
        /\ target_cnt <= PicNum => path_clk' + (Len(mail') + Asking) + NotAsked <= target_cnt + 1 + repeats'
        /\ target_cnt = PicNum => n + 1 + (Len(mail') + Asking) + NotAsked <= PicNum + 1 + repeats'
        /\ target_cnt > PicNum => n <= target_cnt + 1 + repeats'
    <3>1. path_clk' \in Nat /\ Len(mail) \in Nat /\ Len(mail) > 0 /\ Len(mail') \in Nat /\ repeats' \in Nat
      BY <1>0, <1>6, <1>7, TakeIs
    <3>2. Len(mail') + 1 + repeats = Len(mail) + repeats'
      BY <1>0, <1>7, TakeIs
    <3>8. repeats <= repeats' /\ repeats \in Nat /\ repeats' \in Nat
      BY <1>0, <1>7, TakeIs
    <3>3. path_clk' = path_clk \/ (target_cnt < PicNum /\ path_clk' = path_clk + 1)
      BY <1>6
    <3>4. path_clk' <= PicNum + repeats'
      <4>1. path_clk <= PicNum + repeats'
        BY <1>7, <2>2, <3>8, Shift
      <4>2. CASE path_clk' = path_clk
        BY <4>1, <4>2
      <4>3. CASE target_cnt < PicNum /\ path_clk' = path_clk + 1
        <5>1. path_clk + 1 <= target_cnt + 1 + repeats
          BY <1>7, <2>2, <3>1, <4>3
        <5>2. path_clk + 1 <= PicNum + repeats /\ path_clk + 1 \in Nat
          BY <1>7, <4>3, <5>1
        <5>3. path_clk + 1 <= PicNum + repeats'
          BY <1>7, <3>8, <5>2, Shift
        <5> QED BY <4>3, <5>3
      <4> QED BY <3>3, <4>2, <4>3
    <3>5. target_cnt <= PicNum => path_clk' + (Len(mail') + Asking) + NotAsked <= target_cnt + 1 + repeats'
      BY <1>7, <2>2, <3>1, <3>2, <3>3
    <3>6. target_cnt = PicNum => n + 1 + (Len(mail') + Asking) + NotAsked <= PicNum + 1 + repeats'
      BY <1>7, <2>2, <3>1, <3>2
    <3>7. ASSUME target_cnt > PicNum PROVE n <= target_cnt + 1 + repeats'
      <4>1. n <= target_cnt + 1 + repeats
        BY <2>2, <3>7
      <4>2. target_cnt + 1 \in Nat
        BY <1>7
      <4> QED BY <1>7, <3>8, <4>1, <4>2, Shift
    <3> QED BY <3>4, <3>5, <3>6, <3>7
  <2>4. n <= PicNum + 3 + repeats'
    <3>1. PicNum + 3 \in Nat /\ n <= (PicNum + 3) + repeats
      BY <1>7 DEF CountOK
    <3>2. repeats <= repeats' /\ repeats' \in Nat
      BY <1>0, <1>7, TakeIs
    <3> QED BY <1>7, <3>1, <3>2, Shift
  <2> QED BY <1>1, <1>2, <1>6, <2>2, <2>3, <2>4 DEF CountOK, Waiting
<1> QED BY <1>5, <1>8, <1>9

LEMMA DataRouteTypes ==
  ASSUME LineOK, CountOK, RouteOK, DataRoute
  PROVE  LineOK' /\ CountOK' /\ RouteOK'
<1>1. /\ UNCHANGED <<motion, gui, uart_flag, target_cnt, asked, truth, main, mail, repeats, clas>>
      /\ data = "route" /\ data' = "bin"
  BY DEF DataRoute, dless, world, mainv
<1>2. /\ Asking' = Asking /\ Told' = Told /\ Parsing = 1 /\ Parsing' = 1 /\ Routing = 1 /\ Routing' = 0
      /\ Awaiting' = Awaiting /\ NotAsked' = NotAsked
  BY <1>1 DEF Asking, Told, Parsing, Routing, Awaiting, NotAsked, Bit
<1>3. gui = "done"
  BY <1>1 DEF LineOK
<1>4. LineOK'
  BY <1>1, <1>2, <1>3 DEF LineOK, Waiting
<1>5. \/ UNCHANGED route
      \/ /\ target_cnt = PicNum
         /\ px' = [px EXCEPT ![n] = Depot(2)] /\ lsttt' = n /\ n' = n + 1
         /\ path' = path /\ path_clk' = path_clk /\ lstttt' = lsttt
  BY DEF DataRoute, ACO_to_R, ToDepot
<1>6. /\ PicNum \in Nat /\ PicNum > 0 /\ Repeats \in Nat /\ repeats \in Nat /\ target_cnt \in Nat
      /\ path_clk \in Nat /\ n \in Nat /\ Len(mail) \in Nat
      /\ Asking \in 0 .. 1 /\ NotAsked \in 0 .. 1 /\ repeats <= Repeats
  BY Numbers, Bits DEF LineOK
<1>7. target_cnt = PicNum => n + (Len(mail) + Asking) + NotAsked <= PicNum + repeats
  BY <1>2, <1>6 DEF CountOK, Waiting
<1>8. CASE UNCHANGED route
  <2>1. RouteOK'
    BY <1>1, <1>8, RoadStays
  <2>2. CountOK'
    BY <1>1, <1>2, <1>6, <1>7, <1>8 DEF CountOK, Waiting, route
  <2> QED BY <1>4, <2>1, <2>2
<1>9. CASE target_cnt = PicNum /\ n' = n + 1 /\ px' = [px EXCEPT ![n] = Depot(2)]
           /\ lsttt' = n /\ path' = path /\ path_clk' = path_clk /\ lstttt' = lsttt
  <2>1. n \in Indices
    BY <1>6, <1>7, <1>9 DEF Indices
  <2>2. Depot(2) \in Places
    BY <1>6 DEF Depot, Places, Road
  <2>3. RouteOK'
    <3>1. px' \in [Indices -> Places] /\ lsttt' \in Indices /\ lstttt' \in Indices
      BY <1>9, <2>1, <2>2 DEF RouteOK
    <3>2. path_clk' \in Nat \ {0} /\ n' \in Nat
      BY <1>6, <1>9 DEF RouteOK
    <3> QED BY <1>1, <1>3, <1>9, <3>1, <3>2 DEF RouteOK
  <2>4. n + 1 + (Len(mail) + Asking) + NotAsked <= PicNum + 1 + repeats /\ n + 1 <= PicNum + 3 + repeats
    BY <1>6, <1>7, <1>9
  <2>5. CountOK'
    BY <1>1, <1>2, <1>6, <1>9, <2>4 DEF CountOK, Waiting
  <2> QED BY <1>4, <2>3, <2>5
<1> QED BY <1>5, <1>8, <1>9

LEMMA DataEndTypes ==
  ASSUME LineOK, CountOK, RouteOK, DataBin \/ DataFlag
  PROVE  LineOK' /\ CountOK' /\ RouteOK'
<1>1. /\ UNCHANGED <<motion, gui, target_cnt, asked, truth, main, mail, repeats, clas, route>>
      /\ \/ data = "bin" /\ data' = "flag" /\ uart_flag' = uart_flag
         \/ data = "flag" /\ data' = "recv" /\ uart_flag' = TRUE
  BY DEF DataBin, DataFlag, dless, world, mainv
<1>2. /\ Asking' = Asking /\ Awaiting' = Awaiting /\ NotAsked' = NotAsked
      /\ Parsing = 1 /\ Routing = 0 /\ Routing' = 0
      /\ \/ Parsing' = 1 /\ Told' = Told
         \/ Parsing' = 0 /\ Told' = 1
  BY <1>1 DEF Asking, Told, Parsing, Routing, Awaiting, NotAsked, Bit
<1>3. Told' + Parsing' <= Told + Parsing
  <2>1. CASE Parsing' = 1 /\ Told' = Told
    <3>1. Told + 1 \in 1 .. 2
      BY Bits
    <3>2. Told' + Parsing' = Told + 1 /\ Told + Parsing = Told + 1
      BY <1>2, <2>1
    <3> QED BY <3>1, <3>2
  <2>2. CASE Parsing' = 0 /\ Told' = 1
    <3>1. Told + Parsing \in 1 .. 2
      BY <1>2, Bits
    <3> QED BY <2>2, <3>1
  <2> QED BY <1>2, <2>1, <2>2
<1>4. LineOK'
  <2>1. Waiting + Told + Parsing <= Awaiting + repeats
    BY DEF LineOK
  <2>2. (Waiting + Told + Parsing <= Awaiting + repeats)'
    BY <1>1, <1>2, <1>3, <2>1, Numbers, Bits DEF Waiting
  <2> QED BY <1>1, <2>2 DEF LineOK
<1>5. CountOK'
  BY <1>1, <1>2 DEF CountOK, Waiting, route
<1>6. RouteOK'
  BY <1>1, RoadStays
<1> QED BY <1>4, <1>5, <1>6

LEMMA DataTypes ==
  ASSUME LineOK, CountOK, RouteOK, StoreOK, DataThread
  PROVE  LineOK' /\ CountOK' /\ RouteOK' /\ StoreOK'
<1>1. StoreOK'
  <2>1. UNCHANGED arm
    BY DEF DataThread, DataClass, DataRoute, DataBin, DataFlag, DataEdge, dless
  <2> QED BY <2>1, StoreSame
<1> QED BY <1>1, DataClassTypes, DataRouteTypes, DataEndTypes, DataEdgeTypes DEF DataThread

LEMMA TimerTypes ==
  ASSUME LineOK, CountOK, RouteOK, StoreOK, SearchInv, motorControl_timer1
  PROVE  LineOK' /\ CountOK' /\ RouteOK' /\ StoreOK'
<1>1. StoreOK'
  BY TimerIs DEF tickRest, StoreOK
<1> QED BY <1>1, TimerLine, TimerCount, TimerRoad DEF SearchInv

LEMMA StepTyped == SearchInv /\ Typed /\ [Next]_vars => Typed'
<1> SUFFICES ASSUME SearchInv, Typed, [Next]_vars PROVE Typed'
  OBVIOUS
<1>0. FlagsTyped /\ PlacesTyped /\ StoreOK /\ RouteOK /\ LineOK /\ CountOK
  BY DEF Typed
<1>1. FlagsTyped' /\ PlacesTyped'
  BY <1>0, StepFlagsTyped, StepPlacesTyped
<1>2. LineOK' /\ CountOK' /\ RouteOK' /\ StoreOK'
  <2>1. CASE UNCHANGED vars
    <3>1. /\ UNCHANGED <<asked, mail, repeats, gui, uart_flag, data, target_cnt, path_clk, n>>
          /\ UNCHANGED <<truth, route, clas, main, motion, arm>>
      BY <2>1 DEF vars, world, frames, mainv, route, hand
    <3>2. Awaiting' = Awaiting /\ NotAsked' = NotAsked
      BY <3>1 DEF Awaiting, NotAsked
    <3> QED BY <1>0, <3>1, <3>2, LineSame, CountSame, RoadStays, StoreSame DEF LineOK
  <2> QED BY <1>0, <2>1, TimerTypes, MainTypes, ServoTypes, DataTypes, GuiTypes, CameraTypes DEF Next
<1> QED BY <1>1, <1>2 DEF Typed

LEMMA InitTyped == Init => Typed
<1> SUFFICES ASSUME Init PROVE Typed
  OBVIOUS
<1> USE MissionAssumption
<1>1. FlagsTyped
  BY FlagsTypedInit
<1>2. PlacesTyped
  BY DEF Init, PlacesTyped, Places, Road
<1>3. StoreOK
  BY DEF Init, StoreOK
<1>4. RouteOK
  BY DEF Init, RouteOK, Indices, Places, Road, Start
<1>5. /\ Len(mail) = 0 /\ repeats = 0 /\ target_cnt = 0 /\ path_clk = 1 /\ n = 0
      /\ Asking = 0 /\ Told = 0 /\ Parsing = 0 /\ Routing = 0 /\ Awaiting = 0 /\ NotAsked = 0
  BY DEF Init, Asking, Told, Parsing, Routing, Awaiting, NotAsked, Bit
<1>6. LineOK
  BY <1>5 DEF Init, LineOK, Waiting
<1>7. CountOK
  BY <1>5 DEF CountOK, Waiting
<1> QED BY <1>1, <1>2, <1>3, <1>4, <1>6, <1>7 DEF Typed

LEMMA TypedIs == Typed => TypeOK
<1> SUFFICES ASSUME Typed PROVE TypeOK
  OBVIOUS
<1>0. FlagsTyped /\ PlacesTyped /\ StoreOK /\ RouteOK /\ LineOK /\ CountOK
  BY DEF Typed
<1>1. /\ PicNum \in Nat /\ Repeats \in Nat /\ repeats \in Nat /\ repeats <= Repeats
      /\ path_clk \in Nat /\ path_clk > 0 /\ n \in Nat /\ Len(mail) \in Nat
  BY <1>0, Numbers DEF LineOK
<1>2. path_clk \in 1 .. PicNum + Repeats /\ n \in 0 .. PicNum + 3 + Repeats
  BY <1>0, <1>1 DEF CountOK
<1>3. Len(mail) <= 1 + Repeats
  BY <1>0, <1>1, Bits DEF LineOK, Waiting
<1>4. /\ mail \in Seq([fn : {"#", "%"}, mark : {"A", "X"}, tag : 0 .. 2]) /\ asked \in {"no", "class", "edge"}
      /\ repeats \in 0 .. Repeats /\ target_cnt \in 0 .. PicNum + 3
  BY <1>0 DEF LineOK, FrameType, CountOK
<1> HIDE DEF Typed
<1> QED
  BY <1>0, <1>2, <1>3, <1>4, ZenonT(60) DEF TypeOK, FlagsTyped, PlacesTyped, StoreOK, RouteOK

\* Every variable keeps its type, for any number of pictures, and however many frames
\* data_t acts on once more: the indices of the route stay in px[] and clas[], which
\* need one entry more for each of them, and so do the frames that wait.
THEOREM MissionTyped == Spec => []TypeOK
<1>1. SearchInv /\ [Next]_vars => SearchInv'
  BY StepSearch
<1> QED
  BY InitSearch, InitTyped, StepTyped, TypedIs, <1>1, PTL DEF Spec
=============================================================================

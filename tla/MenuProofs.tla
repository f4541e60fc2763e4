----------------------------- MODULE MenuProofs -----------------------------
(***************************************************************************)
(* Saved parameters survive power failures, and the controllers follow the  *)
(* display, for any number of parameters, values and failures.              *)
(***************************************************************************)
EXTENDS Menu, TLAPS

\* SaveSurvives is not inductive: at the end of a save the flash holds float_buff
\* only if it was blank before, and float_buff is what was asked to be saved.
SaveInv ==
  /\ flash \in Page /\ float_buff \in Page /\ saved \in Page
  /\ gui \in {"check", "erase", "program"} => saved = float_buff
  /\ gui = "program" => flash = Erased
  /\ gui = "stuck" => failed
  /\ SaveSurvives

LEMMA InitSave == Init => SaveInv
<1> SUFFICES ASSUME Init PROVE SaveInv
  OBVIOUS
<1>1. flash \in Page
  <2>1. 0 \in Word /\ Blank \in Word
    BY MenuAssumption DEF Word
  <2> QED
    BY <2>1 DEF Init, Page
<1> QED
  BY <1>1 DEF Init, SaveInv, SaveSurvives

LEMMA StepType == \A w \in Word : \A key \in Keys : Step(w, key) \in Word
<1> SUFFICES ASSUME NEW w \in Word, NEW key \in Keys PROVE Step(w, key) \in Word
  OBVIOUS
<1>1. CASE w \in Nat
  <2> DEFINE d == IF key = "PREVIOUS" THEN 1 ELSE Values - 1
  <2>1. w + d \in Nat /\ Values \in Nat /\ Values > 0
    BY <1>1, MenuAssumption
  <2>2. (w + d) % Values \in 0 .. Values - 1
    BY <2>1
  <2> QED
    BY <1>1, <2>2 DEF Step, Word
<1>2. CASE w \notin Nat
  BY <1>2 DEF Step
<1> QED
  BY <1>1, <1>2

\* The functions of the pages leave flash alone, and only one starts to save.
LEMMA TurnSave ==
  ASSUME SaveInv, NEW key \in Keys,
         \/ child1_change(key) \/ child1_UI(key) \/ Main_menu_UI(key)
         \/ child2_find_coor_UI(key) \/ child3_UI(key) \/ Draw(key)
  PROVE  SaveInv'
<1>1. CASE child1_change(key)
  <2>1. float_buff' \in Page
    BY <1>1, StepType DEF child1_change, SaveInv, Page
  <2> QED
    BY <1>1, <2>1 DEF child1_change, Turn, SaveInv, SaveSurvives, history
<1>2. CASE child1_UI(key)
  BY <1>2 DEF child1_UI, Turn, SaveInv, SaveSurvives, history
<1>3. CASE Main_menu_UI(key)
  BY <1>3 DEF Main_menu_UI, Turn, SaveInv, SaveSurvives
<1>4. CASE child2_find_coor_UI(key)
  BY <1>4 DEF child2_find_coor_UI, Turn, SaveInv, SaveSurvives, history
<1>5. CASE child3_UI(key)
  BY <1>5 DEF child3_UI, Turn, SaveInv, SaveSurvives, history
<1>6. CASE Draw(key)
  BY <1>6 DEF Draw, Turn, SaveInv, SaveSurvives, history
<1> QED
  BY <1>1, <1>2, <1>3, <1>4, <1>5, <1>6

LEMMA FlashSave ==
  ASSUME SaveInv,
         flash_check \/ flash_erase_sector \/ EraseFails \/ flash_page_program \/ PowerFails
  PROVE  SaveInv'
<1>1. CASE flash_check
  <2>1. ~FlashUsed => flash = Erased
    BY DEF FlashUsed, Erased, SaveInv, Page
  <2> QED
    BY <1>1, <2>1 DEF flash_check, SaveInv, SaveSurvives, Erased, history
<1>2. CASE flash_erase_sector
  <2>1. Erased \in Page
    BY DEF Erased, Page, Word
  <2> QED
    BY <1>2, <2>1 DEF flash_erase_sector, SaveInv, SaveSurvives, Erased, history
<1>3. CASE EraseFails
  BY <1>3 DEF EraseFails, SaveInv, SaveSurvives, CutShort
<1>4. CASE flash_page_program
  <2>1. flash = Erased /\ saved = float_buff
    BY <1>4 DEF flash_page_program, SaveInv
  <2>2. Programmed = float_buff
    BY <2>1 DEF Programmed, Erased, SaveInv, Page
  <2> QED
    BY <1>4, <2>1, <2>2 DEF flash_page_program, SaveInv, SaveSurvives, CutShort
<1>5. CASE PowerFails
  <2>1. flash' \in Page
    BY <1>5 DEF PowerFails, CutShort, SaveInv
  <2>2. flash' = flash \/ failed'
    BY <1>5 DEF PowerFails
  <2>3. float_buff' \in Page /\ saved' = saved /\ gui' = "recv"
    BY <1>5, <2>1 DEF PowerFails
  <2>4. ~failed' => ~failed /\ gui \notin {"check", "erase", "program"}
    BY <1>5 DEF PowerFails
  <2> QED
    BY <2>1, <2>2, <2>3, <2>4 DEF SaveInv, SaveSurvives
<1> QED
  BY <1>1, <1>2, <1>3, <1>4, <1>5

LEMMA NextSave == SaveInv /\ [Next]_vars => SaveInv'
<1> SUFFICES ASSUME SaveInv, [Next]_vars PROVE SaveInv'
  OBVIOUS
<1>1. CASE Gui
  <2>1. CASE MissionStart
    BY <2>1 DEF MissionStart, SaveInv, SaveSurvives, history
  <2>2. CASE RunDone
    BY <2>2 DEF RunDone, SaveInv, SaveSurvives, history
  <2> QED
    BY <1>1, <2>1, <2>2, TurnSave, FlashSave DEF Gui
<1>2. ASSUME NEW key \in Keys, GUI_refresh_timer2(key) PROVE SaveInv'
  BY <1>2 DEF GUI_refresh_timer2, SaveInv, SaveSurvives, history
<1>3. CASE PowerFails
  BY <1>3, FlashSave
<1>4. CASE UNCHANGED vars
  BY <1>4 DEF vars, SaveInv, SaveSurvives, history
<1> QED
  BY <1>1, <1>2, <1>3, <1>4 DEF Next

\* A save that ended is not lost, however often the power fails later and whatever
\* an earlier failure left in the page.
THEOREM SavesSurvive == Spec => []SaveSurvives
<1>1. SaveInv => SaveSurvives
  BY DEF SaveInv
<1> QED
  BY <1>1, InitSave, NextSave, PTL DEF Spec

-----------------------------------------------------------------------------
\* Only BACK leaves the page of a parameter, and it leads to the list.
GainsInv == cur_index \in Pages /\ GainsAsShown

LEMMA InitGains == Init => GainsInv
BY DEF Init, GainsInv, GainsAsShown, Pages, FindCoor

LEMMA ParameterStays ==
  ASSUME NEW k \in Para, NEW key \in Keys \ {"BACK"}
  PROVE  table(Parameter(k), key) = Parameter(k)
BY DEF table, Keys, Parameter, PreviousPage, NextPage, Enter, Lines, Main, PathOption, Run, SpeedOption

LEMMA ParameterBack ==
  ASSUME NEW k \in Para
  PROVE  table(Parameter(k), "BACK") = ParameterOption(k)
BY DEF table, Parameter, Back, ParameterLeft, ParameterOption, PathOption, FindCoor, Ant

\* The rows of table[] name pages of the menu.
LEMMA TableType == \A p \in Pages, key \in Keys : table(p, key) \in Pages
<1> SUFFICES ASSUME NEW p \in Pages, NEW key \in Keys PROVE table(p, key) \in Pages
  OBVIOUS
<1> USE DEF Main, Option, ParameterOption, Parameter, PathOption, FindCoor, Ant, SpeedOption, Speed
<1>1. PARA_LEN \in Nat \ {0}
  BY MenuAssumption
<1>2. NextPage(p) \in Pages
  BY <1>1 DEF Pages, Para, NextPage, Lines, Down
<1>3. PreviousPage(p) \in Pages
  BY <1>1 DEF Pages, Para, PreviousPage, Lines, Up
<1>4. Enter(p) \in Pages
  BY <1>1 DEF Pages, Para, Enter, Run
<1>5. Back(p) \in Pages
  BY <1>1 DEF Pages, Para, Back, ParameterLeft
<1> QED
  BY <1>2, <1>3, <1>4, <1>5 DEF table, Keys

LEMMA TurnGains ==
  ASSUME GainsInv, NEW key \in Keys,
         \/ child1_change(key) \/ child1_UI(key) \/ Main_menu_UI(key)
         \/ child2_find_coor_UI(key) \/ child3_UI(key) \/ Draw(key)
  PROVE  GainsInv'
<1>1. cur_index' = table(cur_index, key)
  BY DEF child1_change, child1_UI, Main_menu_UI, child2_find_coor_UI, child3_UI, Draw, Turn
<1>2. cur_index' \in Pages
  BY <1>1, TableType DEF GainsInv
<1>3. CASE cur_index'[1] = "parameter"
  BY <1>2, <1>3 DEF GainsInv, GainsAsShown
<1>4. CASE cur_index'[1] # "parameter" /\ cur_index[1] = "parameter"
  <2>1. PICK k \in Para : cur_index = Parameter(k)
    BY <1>4 DEF GainsInv, Pages, Main, Option, ParameterOption, PathOption, FindCoor, Ant, SpeedOption, Speed
  <2>2. key = "BACK"
    BY <1>1, <1>4, <2>1, ParameterStays DEF Parameter
  <2>3. cur_index' = ParameterOption(k)
    BY <1>1, <2>1, <2>2, ParameterBack
  <2>4. child1_UI(key)
    BY <2>3 DEF ParameterOption, child1_change, Main_menu_UI, child2_find_coor_UI, FindCoor, child3_UI, Draw
  <2> QED
    BY <1>2, <2>2, <2>4 DEF child1_UI, ApplyKey, GainsInv, GainsAsShown
<1>5. CASE cur_index'[1] # "parameter" /\ cur_index[1] # "parameter"
  <2>1. gains \in {BuiltIn, float_buff}
    BY <1>5 DEF GainsInv, GainsAsShown
  <2>2. float_buff' = float_buff /\ gains' \in {gains, float_buff}
    BY <1>5 DEF child1_change, child1_UI, Main_menu_UI, child2_find_coor_UI, child3_UI, Draw
  <2> QED
    BY <1>2, <2>1, <2>2 DEF GainsInv, GainsAsShown
<1> QED
  BY <1>3, <1>4, <1>5

LEMMA NextGains == GainsInv /\ [Next]_vars => GainsInv'
<1> SUFFICES ASSUME GainsInv, [Next]_vars PROVE GainsInv'
  OBVIOUS
<1> USE DEF GainsInv, GainsAsShown, ui
<1>1. CASE PowerFails
  BY <1>1 DEF PowerFails, Pages
<1>2. CASE MissionStart \/ RunDone \/ flash_check \/ flash_erase_sector \/ EraseFails \/ flash_page_program
  BY <1>2 DEF MissionStart, RunDone, flash_check, flash_erase_sector, EraseFails, flash_page_program
<1>3. ASSUME NEW key \in Keys, GUI_refresh_timer2(key) PROVE GainsInv'
  BY <1>3 DEF GUI_refresh_timer2
<1>4. CASE UNCHANGED vars
  BY <1>4 DEF vars
<1> QED
  BY <1>1, <1>2, <1>3, <1>4, TurnGains DEF Next, Gui

\* The controllers never run with a mixture of old and new parameters, nor with one
\* that is still being changed.
THEOREM GainsFollow == Spec => []GainsAsShown
<1>1. GainsInv => GainsAsShown
  BY DEF GainsInv
<1> QED
  BY <1>1, InitGains, NextGains, PTL DEF Spec

-----------------------------------------------------------------------------
\* Whatever the page, the list it belongs to and the number of its lines.
LEMMA DownUp ==
  ASSUME NEW last \in Nat \ {0}, NEW k \in 1 .. last
  PROVE  /\ Up(Down(k, last), last) = k /\ Down(Up(k, last), last) = k
         /\ Down(k, last) \in 1 .. last /\ Up(k, last) \in 1 .. last
BY DEF Down, Up

LEMMA RoundTrip ==
  ASSUME NEW p \in Pages
  PROVE  /\ Enter(p) # p => Back(Enter(p)) = p
         /\ PreviousPage(NextPage(p)) = p
         /\ NextPage(PreviousPage(p)) = p
<1> USE DEF Main, Option, ParameterOption, Parameter, PathOption, FindCoor, Ant, SpeedOption, Speed
<1>1. CASE p \in {Main, PathOption, FindCoor, Ant}
  <2>1. PreviousPage(p) = p /\ NextPage(p) = p
    BY <1>1 DEF NextPage, PreviousPage, Lines
  <2>2. CASE p = Main
    BY <2>1, <2>2 DEF Enter, Back
  <2>3. CASE p = PathOption
    BY <2>1, <2>3 DEF Enter, Back
  <2>4. CASE p \in {FindCoor, Ant}
    BY <2>1, <2>4 DEF Enter, Run
  <2> QED
    BY <1>1, <2>2, <2>3, <2>4
<1>2. ASSUME NEW k \in 1 .. 3, p = Option(k)
      PROVE  /\ Enter(p) # p => Back(Enter(p)) = p
             /\ PreviousPage(NextPage(p)) = p /\ NextPage(PreviousPage(p)) = p
  <2>1. PreviousPage(NextPage(p)) = p /\ NextPage(PreviousPage(p)) = p
    BY <1>2, DownUp DEF NextPage, PreviousPage, Lines
  <2>2. Enter(p) = << ParameterOption(1), PathOption, SpeedOption(1) >>[k]
    BY <1>2 DEF Enter
  <2>3. CASE k = 1
    BY <1>2, <2>1, <2>2, <2>3 DEF Back
  <2>4. CASE k = 2
    BY <1>2, <2>1, <2>2, <2>4 DEF Back
  <2>5. CASE k = 3
    BY <1>2, <2>1, <2>2, <2>5 DEF Back
  <2> QED
    BY <2>3, <2>4, <2>5
<1>3. ASSUME NEW k \in Para, p = ParameterOption(k)
      PROVE  /\ Enter(p) # p => Back(Enter(p)) = p
             /\ PreviousPage(NextPage(p)) = p /\ NextPage(PreviousPage(p)) = p
  <2>1. /\ Up(Down(k, PARA_LEN), PARA_LEN) = k /\ Down(Up(k, PARA_LEN), PARA_LEN) = k
    BY MenuAssumption, DownUp DEF Para
  <2> QED
    BY <1>3, <2>1 DEF Enter, Back, NextPage, PreviousPage, Lines, ParameterLeft
<1>4. ASSUME NEW k \in Para, p = Parameter(k)
      PROVE  /\ Enter(p) # p => Back(Enter(p)) = p
             /\ PreviousPage(NextPage(p)) = p /\ NextPage(PreviousPage(p)) = p
  BY <1>4 DEF Enter, NextPage, PreviousPage, Lines, Run
<1>5. ASSUME NEW k \in 1 .. 4, p = SpeedOption(k)
      PROVE  /\ Enter(p) # p => Back(Enter(p)) = p
             /\ PreviousPage(NextPage(p)) = p /\ NextPage(PreviousPage(p)) = p
  BY <1>5 DEF Enter, Back, NextPage, PreviousPage, Lines, Run, Down, Up
<1>6. ASSUME NEW k \in 1 .. 3, p = Speed(k)
      PROVE  /\ Enter(p) # p => Back(Enter(p)) = p
             /\ PreviousPage(NextPage(p)) = p /\ NextPage(PreviousPage(p)) = p
  BY <1>6 DEF Enter, NextPage, PreviousPage, Lines, Run
<1> QED
  BY <1>1, <1>2, <1>3, <1>4, <1>5, <1>6 DEF Pages

\* "describes how the menus are above and below each other": with any number of
\* parameters, ENTER is undone by BACK and NEXT by PREVIOUS wherever the user gets.
THEOREM TableIsInverse == Spec => []TableInverse
<1>1. GainsInv => TableInverse
  BY RoundTrip DEF GainsInv, TableInverse, table
<1> QED
  BY <1>1, InitGains, NextGains, PTL DEF Spec

-----------------------------------------------------------------------------
\* The static flag is set as soon as a start is planned.
StartInv ==
  /\ starts \in {0, 1} /\ flag \in BOOLEAN
  /\ starts = 1 \/ gui = "plan" => flag
  /\ starts = 1 => gui # "plan"

LEMMA InitStart == Init => StartInv
<1> SUFFICES ASSUME Init PROVE StartInv
  OBVIOUS
<1>1. starts = 0 /\ starts # 1 /\ flag = FALSE /\ gui # "plan"
  BY DEF Init
<1> QED
  BY <1>1 DEF StartInv

LEMMA NextStart == StartInv /\ [Next]_vars => StartInv'
<1> SUFFICES ASSUME StartInv, [Next]_vars PROVE StartInv'
  OBVIOUS
<1> USE DEF StartInv
<1>1. ASSUME NEW key \in Keys,
             \/ child1_change(key) \/ child1_UI(key) \/ Main_menu_UI(key)
             \/ child3_UI(key) \/ Draw(key)
      PROVE  StartInv'
  BY <1>1 DEF child1_change, child1_UI, Main_menu_UI, child3_UI, Draw, Turn
<1>2. ASSUME NEW key \in Keys, child2_find_coor_UI(key) PROVE StartInv'
  BY <1>2 DEF child2_find_coor_UI, Turn, FlagSet
<1>3. CASE MissionStart
  BY <1>3 DEF MissionStart
<1>4. CASE RunDone \/ flash_check \/ flash_erase_sector \/ EraseFails \/ flash_page_program
  BY <1>4 DEF RunDone, flash_check, flash_erase_sector, EraseFails, flash_page_program
<1>5. ASSUME NEW key \in Keys, GUI_refresh_timer2(key) PROVE StartInv'
  <2>1. starts' = starts /\ flag' = flag /\ gui' = gui
    BY <1>5 DEF GUI_refresh_timer2
  <2> QED
    BY <2>1
<1>6. CASE PowerFails
  <2>1. starts' = 0 /\ starts' # 1 /\ flag' = FALSE /\ gui' # "plan"
    BY <1>6 DEF PowerFails
  <2> QED
    BY <2>1
<1>7. CASE UNCHANGED vars
  BY <1>7 DEF vars
<1> QED
  BY <1>1, <1>2, <1>3, <1>4, <1>5, <1>6, <1>7 DEF Next, Gui

\* Whatever keys are pressed, a mission is planned and started once for each time
\* the power comes on.
THEOREM MissionStartsOnce == Spec => []StartsOnce
<1>1. Init => StartInv
  BY InitStart
<1>2. StartInv => StartsOnce
  BY DEF StartInv, StartsOnce
<1> QED
  BY <1>1, <1>2, NextStart, PTL DEF Spec

-----------------------------------------------------------------------------
\* What is left of the types.
RestInv ==
  /\ ips_mb \in {<< >>} \union {<<key>> : key \in Keys}
  /\ gui \in {"recv", "plan", "run", "check", "erase", "program", "stuck"}
  /\ gains \in Page \union {BuiltIn}
  /\ offs \in 0 .. MaxOffs /\ failed \in BOOLEAN

LEMMA NextRest == SaveInv /\ RestInv /\ [Next]_vars => RestInv'
<1> SUFFICES ASSUME SaveInv, RestInv, [Next]_vars PROVE RestInv'
  OBVIOUS
<1> USE DEF RestInv, history
<1>1. ASSUME NEW key \in Keys,
             \/ child1_change(key) \/ child1_UI(key) \/ Main_menu_UI(key)
             \/ child2_find_coor_UI(key) \/ child3_UI(key) \/ Draw(key)
      PROVE  RestInv'
  BY <1>1 DEF child1_change, child1_UI, Main_menu_UI, child2_find_coor_UI, child3_UI, Draw, Turn, SaveInv
<1>2. CASE MissionStart \/ RunDone \/ flash_check \/ flash_erase_sector \/ EraseFails \/ flash_page_program
  BY <1>2 DEF MissionStart, RunDone, flash_check, flash_erase_sector, EraseFails, flash_page_program, ui
<1>3. ASSUME NEW key \in Keys, GUI_refresh_timer2(key) PROVE RestInv'
  BY <1>3 DEF GUI_refresh_timer2
<1>4. CASE PowerFails
  BY <1>4, MenuAssumption DEF PowerFails
<1>5. CASE UNCHANGED vars
  BY <1>5 DEF vars, ui
<1> QED
  BY <1>1, <1>2, <1>3, <1>4, <1>5 DEF Next, Gui

\* The menu's state stays in its types: float_buff, flash and the controllers' gains
\* hold whole pages of parameters, and the page shown is one of the menu.
THEOREM MenuTyped == Spec => []TypeOK
<1>1. Init => RestInv
  <2>1. 0 \in 0 .. MaxOffs
    BY MenuAssumption
  <2> QED
    BY <2>1 DEF Init, RestInv
<1>2. SaveInv /\ GainsInv /\ StartInv /\ RestInv => TypeOK
  BY DEF SaveInv, GainsInv, StartInv, RestInv, TypeOK
<1> QED
  BY <1>1, <1>2, InitSave, NextSave, InitGains, NextGains, InitStart, NextStart, NextRest, PTL DEF Spec
=============================================================================

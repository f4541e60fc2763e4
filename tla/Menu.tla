-------------------------------- MODULE Menu --------------------------------
(***************************************************************************)
(* The menu on the display and the parameters it keeps in flash             *)
(* (ips_refresh.c, zf_flash.c).  timer2 mails the key that is pressed; the  *)
(* GUI thread looks the next page up in table[] and calls the page's        *)
(* function.  Leaving a submenu saves float_buff: check, erase, program.    *)
(* The power may fail at any time; then IPS_INIT starts over from flash.    *)
(*                                                                          *)
(* A page is <<kind, number>>.  A parameter is known modulo Values, which   *)
(* keeps equal values equal; the cursor and what is drawn are left out, as  *)
(* are the speeds of child3, which Run! hands to timer1.                    *)
(***************************************************************************)
EXTENDS Naturals, Sequences

CONSTANTS
  PARA_LEN,      \* parameters, 8 in ips_refresh.h
  Values,        \* bound: values a parameter goes through in steps of 0.2
  MaxOffs,       \* bound: power failures
  Blank,         \* a word of erased flash, 0xFFFFFFFF; as a float, not a number
  Torn           \* a word whose erasing or programming was cut short

ASSUME MenuAssumption ==
  /\ PARA_LEN \in Nat \ {0} /\ Values \in Nat \ {0} /\ MaxOffs \in Nat
  /\ Blank \notin Nat /\ Torn \notin Nat /\ Blank # Torn

Para == 1 .. PARA_LEN
Word == 0 .. Values - 1 \union {Blank, Torn}
Page == [Para -> Word]             \* page 0 of the last sector
BuiltIn == << >>                   \* p = 45 and i = 13 for all four wheels

VARIABLES
  cur_index, ips_mb, gui,          \* the GUI thread: its page, mail and step
  float_buff, gains,               \* parameters shown; pid1 .. pid4
  flash,
  starts,                          \* child2_find_coor_UI set car.motion to 1
  flag,                            \* its static flag
  offs, saved, failed              \* history: last save asked for, cut short?

ui == <<cur_index, ips_mb>>
history == <<offs, saved, failed>>
vars == <<ui, gui, float_buff, gains, flash, starts, flag, history>>

Keys == {"PREVIOUS", "ENTER", "NEXT", "BACK"}

-----------------------------------------------------------------------------
\* table[]: the main page, the main menu of three lines, the parameters and their
\* change, the three pages of the mission, the speeds (x, y, z, run) and their change.
Down(k, last) == IF k = last THEN 1 ELSE k + 1
Up(k, last) == IF k = 1 THEN last ELSE k - 1

Main == <<"Main_menu", 1>>
Option(k) == <<"option", k>>
ParameterOption(k) == <<"parameter_option", k>>
Parameter(k) == <<"parameter", k>>
ParameterLeft(k) == ParameterOption(k)
PathOption == <<"path_option", 1>>
FindCoor == <<"find_coor", 1>>
Ant == <<"ant", 1>>
SpeedOption(k) == <<"speed_option", k>>
Run == SpeedOption(4)
Speed(k) == <<"speed", k>>

Pages == {Main, PathOption, FindCoor, Ant} \union {Option(k) : k \in 1 .. 3}
           \union {ParameterOption(k) : k \in Para} \union {Parameter(k) : k \in Para}
           \union {SpeedOption(k) : k \in 1 .. 4} \union {Speed(k) : k \in 1 .. 3}

Lines == [option |-> 3, parameter_option |-> PARA_LEN, speed_option |-> 4]
NextPage(p) == IF p[1] \in DOMAIN Lines THEN <<p[1], Down(p[2], Lines[p[1]])>> ELSE p
PreviousPage(p) == IF p[1] \in DOMAIN Lines THEN <<p[1], Up(p[2], Lines[p[1]])>> ELSE p

Enter(p) ==
  CASE p = Main                     -> Option(1)
    [] p[1] = "option"              -> <<ParameterOption(1), PathOption, SpeedOption(1)>>[p[2]]
    [] p[1] = "parameter_option"    -> Parameter(p[2])
    [] p = PathOption               -> FindCoor
    [] p[1] = "speed_option" /\ p # Run -> Speed(p[2])
    [] OTHER                        -> p

Back(p) ==
  CASE p[1] = "parameter_option"    -> Option(1)
    [] p = PathOption               -> Option(2)
    [] p[1] = "speed_option"        -> Option(3)
    [] p[1] = "parameter"           -> ParameterLeft(p[2])
    [] p = FindCoor                 -> PathOption
    [] p = Ant                      -> FindCoor
    [] p[1] = "speed"               -> SpeedOption(p[2])
    [] OTHER                        -> Main

table(p, key) ==
  CASE key = "PREVIOUS" -> PreviousPage(p) [] key = "NEXT" -> NextPage(p)
    [] key = "ENTER" -> Enter(p)       [] key = "BACK" -> Back(p)

-----------------------------------------------------------------------------
\* After IPS_INIT: the parameters are read back, but the controllers start with the
\* built-in gains.
Init ==
  /\ flash \in [Para -> {0, Blank}]
  /\ cur_index = FindCoor /\ ips_mb = << >> /\ gui = "recv"
  /\ float_buff = flash /\ gains = BuiltIn
  /\ starts = 0 /\ flag = FALSE
  /\ offs = 0 /\ saved = flash /\ failed = FALSE

\* GUI_refresh_timer2, every 180 ms while a key is down; of several keys down the
\* last test wins.  The mailbox holds one mail, a further one is dropped.
GUI_refresh_timer2(key) ==
  /\ ips_mb' = IF ips_mb = << >> THEN <<key>> ELSE ips_mb
  /\ UNCHANGED <<cur_index, gui, float_buff, gains, flash, starts, flag, history>>

\* ips_mb_recv: the mail is taken and the page changed; then the page's function.
Turn(key) ==
  /\ gui = "recv" /\ ips_mb = <<key>>
  /\ ips_mb' = << >>
  /\ cur_index' = table(cur_index, key)

\* child1_change: PREVIOUS adds, NEXT subtracts.
Step(w, key) ==
  IF w \in Nat THEN (w + (IF key = "PREVIOUS" THEN 1 ELSE Values - 1)) % Values ELSE w
child1_change(key) ==
  /\ Turn(key) /\ cur_index'[1] = "parameter" /\ key \in {"PREVIOUS", "NEXT"}
  /\ float_buff' = [float_buff EXCEPT ![cur_index[2]] = Step(@, key)]
  /\ UNCHANGED <<gui, gains, flash, starts, flag, history>>

\* child1_UI: coming back from a parameter hands all of them to the controllers.
\* Mutant: going into the list does.
ApplyOnEnter == "ENTER"
ApplyKey == "BACK"
child1_UI(key) ==
  /\ Turn(key) /\ cur_index'[1] = "parameter_option"
  /\ gains' = IF key = ApplyKey THEN float_buff ELSE gains
  /\ UNCHANGED <<gui, float_buff, flash, starts, flag, history>>

\* Main_menu_UI: coming back from a submenu starts to save float_buff.
Main_menu_UI(key) ==
  /\ Turn(key) /\ cur_index'[1] = "option"
  /\ IF key = "BACK"
       THEN gui' = "check" /\ saved' = float_buff
       ELSE UNCHANGED <<gui, saved>>
  /\ UNCHANGED <<float_buff, gains, flash, starts, flag, offs, failed>>

\* child2_find_coor_UI: the first time, ACO_to_first and 300 ms.  Mutant: flag stays 0.
FlagNotSet == FALSE
FlagSet == TRUE
child2_find_coor_UI(key) ==
  /\ Turn(key) /\ cur_index' = FindCoor
  /\ flag' = (flag \/ FlagSet)
  /\ gui' = IF flag THEN "recv" ELSE "plan"
  /\ UNCHANGED <<float_buff, gains, flash, starts, history>>

\* car.motion = 1
MissionStart ==
  /\ gui = "plan"
  /\ starts' = starts + 1 /\ gui' = "recv"
  /\ UNCHANGED <<ui, float_buff, gains, flash, flag, history>>

\* child3_UI: Run! waits 500 ms, then sets x, y and z.
child3_UI(key) ==
  /\ Turn(key) /\ cur_index'[1] = "speed_option"
  /\ gui' = IF cur_index' = Run /\ key = "ENTER" THEN "run" ELSE "recv"
  /\ UNCHANGED <<float_buff, gains, flash, starts, flag, history>>
RunDone ==
  /\ gui = "run" /\ gui' = "recv"
  /\ UNCHANGED <<ui, float_buff, gains, flash, starts, flag, history>>

\* Functions that only draw: Main_UI, child2_showimg, child2_ant_UI, child3_change,
\* and child1_change on entering.
Draw(key) ==
  /\ Turn(key)
  /\ \/ cur_index'[1] \in {"Main_menu", "path_option", "ant", "speed"}
     \/ cur_index'[1] = "parameter" /\ key \in {"ENTER", "BACK"}
  /\ UNCHANGED <<gui, float_buff, gains, flash, starts, flag, history>>

-----------------------------------------------------------------------------
\* flash_check reads the 64 words of the page.  Mutant: only the first.
FirstWordUsed == flash[1] # Blank
FlashUsed == \E k \in Para : flash[k] # Blank

flash_check ==
  /\ gui = "check"
  /\ gui' = IF FlashUsed THEN "erase" ELSE "program"
  /\ UNCHANGED <<ui, float_buff, gains, flash, starts, flag, history>>

\* Programming only clears bits: over another value it leaves neither.
Programmed ==
  [k \in Para |-> IF flash[k] \in {Blank, float_buff[k]} THEN float_buff[k] ELSE Torn]

\* What an erase or a programming cut short leaves of each word.
CutShort(done) == {page \in Page : \A k \in Para : page[k] \in {flash[k], done[k], Torn}}
Erased == [k \in Para |-> Blank]

flash_erase_sector ==
  /\ gui = "erase"
  /\ flash' = Erased /\ gui' = "program"
  /\ UNCHANGED <<ui, float_buff, gains, starts, flag, history>>

\* The driver reports a failure: while (1);
EraseFails ==
  /\ gui = "erase"
  /\ flash' \in CutShort(Erased) /\ gui' = "stuck" /\ failed' = TRUE
  /\ UNCHANGED <<ui, float_buff, gains, starts, flag, offs, saved>>

\* flash_page_program; a failure is printed on the console only.
flash_page_program ==
  /\ gui = "program" /\ gui' = "recv"
  /\ \/ flash' = Programmed /\ failed' = FALSE
     \/ flash' \in CutShort(Programmed) /\ failed' = TRUE
  /\ UNCHANGED <<ui, float_buff, gains, starts, flag, offs, saved>>

\* The power fails, and comes back.
PowerFails ==
  /\ offs < MaxOffs /\ offs' = offs + 1
  /\ flash' \in CASE gui = "erase" -> CutShort(Erased)
                  [] gui = "program" -> CutShort(Programmed)
                  [] OTHER -> {flash}
  /\ cur_index' = FindCoor /\ ips_mb' = << >> /\ gui' = "recv"
  /\ float_buff' = flash' /\ gains' = BuiltIn
  /\ starts' = 0 /\ flag' = FALSE
  /\ failed' = (failed \/ gui \in {"check", "erase", "program"})
  /\ UNCHANGED saved

Gui ==
  \/ \E key \in Keys : \/ child1_change(key) \/ child1_UI(key) \/ Main_menu_UI(key)
                       \/ child2_find_coor_UI(key) \/ child3_UI(key) \/ Draw(key)
  \/ MissionStart \/ RunDone \/ flash_check \/ flash_erase_sector \/ EraseFails
  \/ flash_page_program

Next == Gui \/ (\E key \in Keys : GUI_refresh_timer2(key)) \/ PowerFails

Spec == Init /\ [][Next]_vars

-----------------------------------------------------------------------------
TypeOK ==
  /\ cur_index \in Pages
  /\ ips_mb \in {<< >>} \union {<<key>> : key \in Keys}
  /\ gui \in {"recv", "plan", "run", "check", "erase", "program", "stuck"}
  /\ float_buff \in Page /\ flash \in Page /\ saved \in Page
  /\ gains \in Page \union {BuiltIn}
  /\ starts \in Nat /\ flag \in BOOLEAN
  /\ offs \in 0 .. MaxOffs /\ failed \in BOOLEAN

\* What was saved last survives power failures, unless the save itself was cut
\* short; and a page left torn by an earlier failure does not spoil a later save.
SaveSurvives ==
  gui \notin {"check", "erase", "program", "stuck"} /\ ~failed => flash = saved

\* The controllers work with the built-in gains or with exactly the parameters the
\* display shows, except while one of them is being changed.
GainsAsShown == cur_index[1] # "parameter" => gains \in {BuiltIn, float_buff}

\* Keys pressed during a mission do not plan it anew.
StartsOnce == starts + (IF gui = "plan" THEN 1 ELSE 0) <= 1

\* "describes how the menus are above and below each other" (ips_refresh.c:34):
\* wherever the user gets, ENTER is undone by BACK, and NEXT by PREVIOUS.
TableInverse ==
  /\ table(cur_index, "ENTER") # cur_index
       => table(table(cur_index, "ENTER"), "BACK") = cur_index
  /\ table(table(cur_index, "NEXT"), "PREVIOUS") = cur_index
  /\ table(table(cur_index, "PREVIOUS"), "NEXT") = cur_index
=============================================================================

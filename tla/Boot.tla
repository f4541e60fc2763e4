-------------------------------- MODULE Boot --------------------------------
(***************************************************************************)
(* How the program comes up: what main() does before its loop, in order,    *)
(* with the interrupts, timers and threads that are already there in        *)
(* between.  A step of Script is what main does between two points at which *)
(* something else could see the difference.                                 *)
(*                                                                          *)
(* main has priority 10.  Threads below it run only while it sleeps: in     *)
(* rt_thread_mdelay, never in the busy waiting of the camera's handshake.   *)
(* servo_t runs above main but only looks at a flag that is 0 till then.    *)
(* The camera that classifies is a board of its own: it may send at any     *)
(* time, also while the chip restarts after the watchdog's reset.           *)
(***************************************************************************)
EXTENDS Naturals, Sequences, SequencesExt

CONSTANTS
  Window,      \* 2 * PACK_LEN
  Fifo         \* bytes the LPUART holds, 4

ASSUME BootAssumption == Window \in Nat /\ Fifo \in 1 .. Window - 1

VARIABLES
  done,        \* how many steps of Script main has taken
  gains,       \* who set those of pid1 .. pid4 last
  motion, flag,                   \* car.motion; child2_find_coor_UI's static flag
  fifo, rie, rxDataSize,          \* LPUART8: bytes, receive interrupt enabled, the handle
  key, uart8_mail, data_mail,     \* mails in the three mailboxes, of one slot each
  used,                           \* history: what an interrupt or a thread has used
  hung                            \* rt_assert_handler spins in an interrupt

uart == <<fifo, rie, rxDataSize>>
mails == <<key, uart8_mail, data_mail>>
bootVars == <<done, gains, motion, flag, uart, mails, used, hung>>

-----------------------------------------------------------------------------
\* main() and what it calls.
InOrder ==
  << "mdelay_200", "ICM_INIT", "pid_init", "mdelay_1000",
     "gains", "ips_mb", "gui_t", "timer2", "camera_sem",                  \* IPS_INIT
     "handshake", "csi_start",                                            \* mt9v03x_csi_init
     "uart_init", "uart_rx_irq", "CreateHandle", "rxDataSize",            \* uart8_init
     "uart8_mb", "uart8_t", "data_mb", "data_t",
     "timer1", "servo_t", "flag_init", "servo_init", "Wdog_init", "loop" >>

\* Mutants: the camera before the menu, pid_init after it, the watchdog first.
Later(step, other) ==
  LET rest == Remove(InOrder, step)
  IN InsertAt(rest, SelectInSeq(rest, LAMBDA s : s = other) + 1, step)
CameraFirst == Later("camera_sem", "csi_start")
PidInitLate == Later("pid_init", "csi_start")
WatchdogFirst == Later("Wdog_init", "mdelay_200")
Script == InOrder

Step == Script[done + 1]                     \* the one main is at
Done(step) == \E i \in 1 .. done : Script[i] = step

\* Where main waits in rt_thread_mdelay.
Delays == {"mdelay_200", "ICM_INIT", "mdelay_1000", "loop"}

\* A thread below main.
CanRun(thread) == ~hung /\ Done(thread) /\ Step \in Delays

\* A mail for a mailbox of one slot.
Post(mail) == IF mail < 1 THEN mail + 1 ELSE mail

-----------------------------------------------------------------------------
BootInit ==
  /\ done = 0 /\ gains = "none" /\ motion = 0 /\ flag = FALSE
  /\ fifo = 0 /\ rie = FALSE /\ rxDataSize = 0
  /\ key = 0 /\ uart8_mail = 0 /\ data_mail = 0
  /\ used = {} /\ hung = FALSE

\* LPUART_TransferCreateHandle clears the handle and enables the interrupt in the NVIC;
\* the size of the first transfer is set after it.
MainStep ==
  /\ ~hung /\ Step # "loop"
  /\ done' = done + 1
  /\ gains' = CASE Step = "pid_init" -> "pid_init" [] Step = "gains" -> "IPS_INIT" [] OTHER -> gains
  /\ motion' = IF Step = "flag_init" THEN 0 ELSE motion
  /\ rie' = IF Step = "uart_rx_irq" THEN TRUE ELSE rie
  /\ rxDataSize' = CASE Step = "CreateHandle" -> 0 [] Step = "rxDataSize" -> 1 [] OTHER -> rxDataSize
  /\ UNCHANGED <<flag, fifo, mails, used, hung>>

-----------------------------------------------------------------------------
\* The receiver is enabled in uart_init.
ByteArrives ==
  /\ Done("uart_init") /\ fifo < Fifo
  /\ fifo' = fifo + 1
  /\ UNCHANGED <<done, gains, motion, flag, rie, rxDataSize, mails, used, hung>>

\* LPUART_TransferHandleIRQ with uart8_callback: a transfer that is complete is mailed and
\* the next begun; with none begun the receive interrupt is disabled.
uart8_interrupt ==
  /\ ~hung /\ Done("CreateHandle") /\ rie /\ fifo > 0
  /\ IF rxDataSize = 0
       THEN rie' = FALSE /\ UNCHANGED <<fifo, rxDataSize, uart8_mail, used, hung>>
       ELSE /\ fifo' = 0 /\ UNCHANGED rie
            /\ IF fifo < rxDataSize
                 THEN rxDataSize' = rxDataSize - fifo /\ UNCHANGED <<uart8_mail, used, hung>>
                 ELSE /\ rxDataSize' = Window - (fifo - rxDataSize)
                      /\ hung' = ~Done("uart8_mb")         \* RT_ASSERT(mb != RT_NULL)
                      /\ uart8_mail' = IF hung' THEN uart8_mail ELSE Post(uart8_mail)
                      /\ used' = used \union {"uart8_mb"}
  /\ UNCHANGED <<done, gains, motion, flag, key, data_mail>>

\* GUI_refresh_timer2, and csi_isr.
KeyPressed ==
  /\ ~hung /\ Done("timer2")
  /\ key' = Post(key)
  /\ used' = used \union {"ips_mb"}
  /\ UNCHANGED <<done, gains, motion, flag, uart, uart8_mail, data_mail, hung>>

csi_isr ==
  /\ ~hung /\ Done("csi_start")
  /\ used' = used \union {"camera_sem"}
  /\ UNCHANGED <<done, gains, motion, flag, uart, mails, hung>>

\* motorControl_timer1 uses the gains.
motorControl_timer1 ==
  /\ ~hung /\ Done("timer1")
  /\ used' = used \union {"gains"}
  /\ UNCHANGED <<done, gains, motion, flag, uart, mails, hung>>

\* The threads: ips_mb_recv, which starts the mission once, uart8_mb_recv, data_analysis.
ips_mb_recv ==
  /\ CanRun("gui_t") /\ key > 0 /\ key' = key - 1
  /\ \/ ~flag /\ flag' = TRUE /\ motion' = 1
     \/ UNCHANGED <<flag, motion>>
  /\ UNCHANGED <<done, gains, uart, uart8_mail, data_mail, used, hung>>

uart8_mb_recv ==
  /\ CanRun("uart8_t") /\ uart8_mail > 0 /\ uart8_mail' = uart8_mail - 1
  /\ data_mail' = Post(data_mail)
  /\ used' = used \union {"data_mb"}
  /\ UNCHANGED <<done, gains, motion, flag, uart, key, hung>>

data_analysis ==
  /\ CanRun("data_t") /\ data_mail > 0 /\ data_mail' = data_mail - 1
  /\ UNCHANGED <<done, gains, motion, flag, uart, key, uart8_mail, used, hung>>

\* Only timer1 refreshes the watchdog.  Without it a delay of main is longer than the half
\* second, and in rt_assert_handler the program stays for ever.
Starved == Done("Wdog_init") /\ (hung \/ (~Done("timer1") /\ Step \in Delays))
\* timer1 does not refresh it either while a wheel is held (Control).
WheelHeld == Step = "loop"
WatchdogResets ==
  /\ Starved \/ WheelHeld
  /\ done' = 0 /\ gains' = "none" /\ motion' = 0 /\ flag' = FALSE
  /\ fifo' = 0 /\ rie' = FALSE /\ rxDataSize' = 0
  /\ key' = 0 /\ uart8_mail' = 0 /\ data_mail' = 0
  /\ used' = {} /\ hung' = FALSE

Interrupt == uart8_interrupt \/ KeyPressed \/ csi_isr \/ motorControl_timer1
ThreadBelow == ips_mb_recv \/ uart8_mb_recv \/ data_analysis
MainGoesOn == ~Starved /\ MainStep

BootNext == MainGoesOn \/ WatchdogResets \/ ByteArrives \/ Interrupt \/ ThreadBelow

BootSpec == BootInit /\ [][BootNext]_bootVars

\* main has nobody above it but servo_t and interrupts, which do not last; nobody refreshes
\* the watchdog of a starved chip.
FairBootSpec == BootSpec /\ WF_bootVars(MainGoesOn) /\ WF_bootVars(Starved /\ WatchdogResets)

-----------------------------------------------------------------------------
\* No interrupt, timer or thread uses a mailbox, the semaphore or the gains before main has
\* made them, though some are started first: uart8_t before data_mb, on the priorities
\* alone.  (uart8_mb is the exception: a byte that comes before rt_mb_create is mailed to no
\* mailbox, and the interrupt hangs in RT_ASSERT.)
UsesExist == \A it \in used \ {"uart8_mb"} : Done(it)

\* What is set up is not set back by a later step of main: the gains of IPS_INIT, which "need
\* to be put behind of pid_init()", and a mission that the user starts, which flag_init would
\* undo, though the GUI thread and the keys are there long before it.
NothingUndone ==
  /\ "gains" \in used => gains = "IPS_INIT"
  /\ flag => motion = 1

\* main reaches its loop, unless the assertion stops it: no reset of the watchdog keeps it
\* from there.
Boots == []<>(hung \/ Step = "loop")
=============================================================================

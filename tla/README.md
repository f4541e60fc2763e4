# Classification-and-Handling-Robot: TLA+ models, checks and proofs

The firmware under `src/Software` drives a four-wheel car (i.MX RT1064, RT-Thread). The car visits pictures
that lie on a field, looks for each of them with its own camera, asks an OpenART camera for the picture's
class, picks it up with a magnet arm, stores it in one of three bins, and at the end drops every bin at the
place of its class and drives to the edge of the field. `src/Software/Project/CODE` and
`src/Software/Project/USER/src/main.c` are the program; `src/Software/Libraries` is vendored (NXP SDK,
RT-Thread, Seekfree), and `src/Hardware` and the pictures are not software.

All paths below are relative to `src/Software/Project/CODE` unless they start with `src/`; `ipc.c` is
`src/Software/Libraries/rttherad_libraries/src/ipc.c`, and `fsl_lpuart.c` is in
`src/Software/Libraries/nxp_libraries/drives`.

## 1. Inventory

### Who runs

| context | code | priority | period |
|---|---|---|---|
| LPUART8 interrupt | `LPUART_TransferHandleIRQ`, `uart8_callback` | interrupt | a byte |
| CSI interrupt | `csi_isr` | interrupt | a camera frame |
| tick interrupt | `motorControl_timer1` 10 ms, `icm_read_timer3`, `GUI_refresh_timer2` | interrupt (hard timers) | 10 ms and others |
| `servo` | `servo_ctrl` in motor.c | 9 | 5 ms while idle |
| `main` | main.c | 10 | 10 ms and a camera frame |
| `uart8_t` | `uart8_mb_recv` | 15 | a mail |
| `data_t` | `data_analysis` | 26 | a mail |
| GUI thread | `ips_mb_recv` | 31 | a mail |

There are no mutexes. The contexts share the global record `car`, the arrays of aco.c (`path`, `px`, `clas`,
`lsttt`, `lstttt`, `n`), `uart_buff`, and three mailboxes. Interrupts preempt everything; a thread runs only
while every thread above it waits.

### Components

**Mailbox (ipc.c).** State: ring `msg_pool`, `entry`, `in_offset`, `out_offset`, the list of suspended
receivers. Operations: create, send (never blocks in this program), receive (waits for ever). Hard: senders
in interrupts, a receiver preempted between being resumed and looking again, another receiver taking "its"
mail, two offsets that wrap on their own. Correct when it is a bounded FIFO and nobody sleeps over a mail.

**LPUART8 receive path (more_uart.c, fsl_lpuart.c).** State: the driver's handle (`rxData`, `rxDataSize`),
`uart8_rx_buffer` of two frame lengths, `uart_buff`, `car.uart`, the mailboxes `uart8` and `data`.
Operations: a byte, an overrun, the window's mail; `uart8_t` scans the window for a frame and copies it;
`data_t` parses `uart_buff` in place; timer3 takes `car.uart` back. Hard: none of the buffers has a lock,
and the mail's value is read again from `car.uart` after the copy. Correct when each frame that arrived
whole is found, the newest one found is parsed whole in the end, and a frame is not acted on without bound.

**Motion dispatch (motor.c, motionPlanning.c).** State: `car.motion`, `target_cnt`, the wheels' targets, the
hand-over flags. Operations: one handler per value of `car.motion`, in the tick interrupt. Hard: it hands
over to three threads by flags each of which is set by one and cleared by another. Correct when no flag is
lost, taken twice or left over.

**Arm (`servo_ctrl`, servo.c).** State: where it is in its sequence, what the magnet holds, what lies in the
bins, `put_flag`, `pick_flag`, `drop_flag`, `drop_tail_flag`, `servo_flag_ctrl`. Operations: three pick-ups
and three drops. Hard: only its delays order it against timer1. Correct when it works on a standing car and
what it drops is dropped in the right place.

**Picture search (main.c).** State: the static `flag`, `car.pic_flag`, `car.is_pic`, `car.pic_stop`.
Operations: settle, look, creep back (motion 11) and look again, stop, look a third time. Hard: main and
timer1 write `motion` and the flags in turns, with delays in between. Correct when every search starts from
a clean state and leaves to the picture.

**Frame actions (`data_analysis`).** `#`: the class of the picture; it moves the route on, chooses the bin
and releases `wait_get`. `%`: the way to the edge. `&`, `@`: coordinates. Hard: `#` is not idempotent.

**Route (aco.c).** `ant()` orders the places by an ant-colony search, `shuffle` perturbs the order,
`ACO_to_*` hand out the next place. Correct when each picture is visited once and then the three places in
order. A* (`astar`, with `push` and `pop`) finds ways around the pictures; nothing calls it in the committed
build. Hard: a heap that one operation leaves out of order shows it much later.

**Menu and flash (ips_refresh.c, zf_flash.c).** A table-driven menu, key events by timer2 and mail,
parameters saved to a flash page, copied into the four controllers. Hard: power lost between erase and
program, flash failures, keys pressed during the mission, three copies of each parameter. Correct when a
save that was finished survives, the gains are those shown, and the mission is planned once.

**Camera (SEEKFREE_MT9V03X_CSI.c, fsl_csi.c).** Two frame buffers, a driver queue, `camera_sem`. Hard: the
filled buffer is queued again before main has read it, the semaphore counts frames nobody took, and the
interrupt may come late. Correct when no buffer is lost, the transfer never stops, and main finds a whole
and current image.

**Wheels, watchdog (motor.c, pid.c, watchDog.c).** State: x, y, z asked of the car, one speed controller per
wheel, the age of the watchdog. Operations: timer1's tick (odometry, handler, targets, the four controllers,
refresh unless a wheel is at its limit), the menu's Run!, which writes x, y and z from the lowest thread.
Hard: a sum without a limit of its own, a limit above the refresh's, x, y and z written one after the other
while the tick reads them; handlers that leave some of them alone. Correct when a held wheel ends in a reset
and not in a wound-up sum, and a car that a handler has stopped stands until somebody asks it to move.

**Heading and course (icm.c, motionPlanning.c).** State: `theta`, the gyro's filter, z; `pid_yaw` and
`go_point`'s static filter of x and y. Operations: timer3 adds up the gyro, timer1's handlers turn back to 0
and steer for the goal. Hard: angles that wrap in three places with three conventions, a derivative over the
wrap, a controller and a filter that keep what the drive before has left in them, z kept by the handlers
that do not set it. Correct when the car looks ahead again and steers for where the goal is.

**Kernel (scheduler.c, timer.c, thread.c, clock.c, ipc.c).** State: ready lists, the list of timers,
`rt_tick`, time slices, the semaphore. Hard: interrupts between suspending and rescheduling, a tick counter
that overflows, equals that share the processor. Correct when no thread is lost, the highest runs, a delay
ends on its tick and a periodic timer never stops: what the models above assume of time and priorities.

**Start-up (main.c before its loop).** State: how far main is, what it has created. Hard: interrupts and
threads are started before all they use exists, and the other boards are running already. Correct when
whatever is started early finds what it uses, nothing set early is undone, and main reaches its loop.

**Image processing (coor_pick.c, pic_pick.c), telemetry.** Computation on images; printing.

`PROJECT.json` lists all of them with what is and is not modelled, and under "hazards" the places in the
code where they can go wrong.

## 2. Modules

| module | models | composed with |
|---|---|---|
| `MailboxSpec` | what a mailbox promises: a bounded FIFO that accepts, refuses when full, delivers | |
| `Mailbox` | ipc.c: the ring, the waiters, one action per section with interrupts disabled | implements `MailboxSpec` |
| `MailboxProofs` | theorems about `Mailbox` | |
| `Uart8`, `Uart8Proofs` | the receive path, one action per access to a shared buffer; theorems | its two mailboxes are the FIFO `Mailbox` is proved to implement, with size 1 |
| `MissionSpec` | what a mission promises: collect one by one, put down class by class, end empty | |
| `Mission` | timer1, main, servo, data_t, the start of the mission by the GUI thread, the OpenART cameras | implements `MissionSpec`; frames are those `Uart8` delivers; `Repeats` is the freedom `Uart8!AtMostTwice` leaves; its delays are `Kernel!TimerRanMeanwhile` |
| `MissionProofs` | theorems about `Mission`, among them that it implements `MissionSpec` | |
| `Tour` | `ant()`: every walk the ants can take, what is kept of them | `Mission!Tours` is what it returns (`ToursComplete`) |
| `Heap` | A*'s priority queue, one step per turn of a loop | |
| `RouteProofs` | theorems about `Heap`, `Tour`, `Steering` and `Heading`, all of which it extends | |
| `Control`, `ControlProofs` | the tick's way from x, y, z to four duties, the watchdog, Run!; theorems | its ticks are `Kernel!TimersFire` |
| `Heading` | theta, `get_Theta`, what the handlers and Run! do to z | the same two timers |
| `Steering` | `go_point`: the goal's yaw, `pid_yaw`, the filter of x and y | what `Control` takes as a demand |
| `Angles` | a turn and its parts, for `Heading` and `Steering` | |
| `Kernel`, `KernelProofs` | `rt_schedule`, timers, the tick interrupt, delays, the semaphore; theorems, also about `Boot` | what `Mission`, `Control` and `Heading` assume of time |
| `Boot` | main before its loop and what is alive already | ends in the `Init` of the others |
| `Camera`, `CameraProofs` | the CSI peripheral, the queue of fsl_csi.c, `csi_isr`, `camera_sem`, main's copy; theorems | main is the loop whose picture search `Mission` models |
| `Menu`, `MenuProofs` | the pages and keys, the parameters in RAM, in the controllers and in flash, the start of the mission; theorems | `MissionStart` is `Mission!GuiStart` |
| `MC*` | the instances TLC checks | |

`Heap`, `Tour`, `Steering`, `Heading` and `Boot` put their own name into those of their initial predicate, next-state
relation and specification (`TourInit`, `TourSpec`, ...), so that one module of proofs can extend several.

### Mailbox

`SendFull` and `SendOk` are `rt_mb_send_wait` with timeout 0 (all that `rt_mb_send` is), `RecvCall`,
`RecvSuspend` and `RecvTake` are `rt_mb_recv` with `RT_WAITING_FOREVER`. The code disables interrupts around
each of them, so each is one step. `thread[r]` says where a receiver is; between "recv" and `RecvTake` it
can be preempted, and another receiver can take the mail it was resumed for. The branch for `mb->entry ==
RT_MB_ENTRY_MAX` (ipc.c:1611-1620) cannot be reached, because the size is 16 bits wide and a full mailbox is
refused first. `rt_mb_send_wait` with a timeout, `rt_mb_detach` and `rt_mb_control` are not used by the
program and not modelled. A receiver that returns from rt_mb_recv keeps the mail in `value`.

### Uart8

`RxByte` is one pass of the driver's loop over the FIFO: it stores a byte at `rxData`, counts `rxDataSize`
down, and at the end of a window calls `uart8_callback` with kStatus_LPUART_RxIdle, which sends the mail and
restores data pointer and size. `RxOverrun` is the interrupt's overrun branch: `uart8_callback`, called with
another status, restores the window and sends no mail; then the bytes the FIFO still holds are stored. The
idle-line interrupt is not enabled by `uart_set_handle`, so its branch is not modelled. `Uart8Recv` ...
`Uart8Notify` are the loop of `uart8_mb_recv`: one action for the test of the header and one for that of the
tail, one for each byte copied, one for the mail. The value mailed is `car.uart`; a compiler may keep
`SP_OK` in a register or load the field again, and both are allowed. `DataRecv`, `DataRead` and `DataDone`
are `data_analysis` up to what it does with a frame.

`prompt`, chosen by Init, says whether `uart8_t` finishes with a window before the next byte comes. What
holds only then has it as a premise; the delayed case gets fewer bytes (`LateBytes`), because it has many
more interleavings.

A byte is modelled as its frame's number and its place in the frame; a byte of a field is never taken for
'$' or '\n'. That is an assumption about the stream: the code has no escape and no checksum, and a field may
well hold the value 0x24.

### Mission

Every action is one handler of timer1 or a piece of a thread that ends where the thread touches a flag
timer1 touches, or waits.

| code | actions |
|---|---|
| `motionControl`, motion 1 | `Drive`, `DriveEnds`, `ArrivePicture`, `ArriveDepot`, `ToEdgeAsked` |
| `to_pic` (5) | `to_pic_drive`, `to_pic_near` |
| `protect_back` (11), `wait_get` (13), `wait_drop` (14), `to_edge` (15), `go_in` (10) | of the same name |
| stop (4), nothing (0, 3) | `Stopped` |
| main.c's loop | `MainPoll` ... `MainRefound` |
| `servo_ctrl` | `ServoPoll` ... `ServoClear` |
| `data_analysis` | `DataClass`, `DataRoute`, `DataBin`, `DataFlag` ('#'), `DataEdge` ('%') |
| `child2_find_coor_UI` | `GuiPlan`, `GuiStart` |
| OpenART (not under src/Software/Project) | `Answer`; `Lose` when the question or the answer is lost |

*Two builds.* The committed motionPlanning.c has the sequencer of the mission (lines 37 to 72) commented out
and drives 200 cm instead (line 34). `sequencer` is chosen by Init: FALSE is the committed build, TRUE the
build with the block. Every property is checked for both; the committed build satisfies the mission's
invariants because it never leaves motion 1 except to stop, so what these invariants show concerns the other
build.

*Time.* timer1 runs every 10 ms. A wait of `servo` of 15 ms or more, and the 10 ms wait of main's loop,
therefore contain a run of timer1: `ticked` and `main_ticked` say that it came. `ServoPut` and the other
steps after a wait have them in their guard. Without it the hand-over is wrong (the mutant `NoDelay`), so
this is the one place where the mission's correctness rests on time; `Kernel` shows that the kernel keeps
that promise.

*Priorities.* `MainMayRun`, `DataMayRun` and `GuiMayRun` say that all threads above wait. timer1 has no
guard of this kind.

*History.* `here` is the place the car stands at, `held`, `bins` and `delivered` say where the pictures are.
The program does not have these variables; the properties need them.

*Losses and repetitions.* Both questions to the cameras are sent once. With `MayLose`, `Lose` takes a
question or its answer away, at most once in a mission, as nothing asks again. `Repeats` is how many frames
`data_t` acts on a second time; it is 0 in the runs and in most proofs, see "What the runs found".

*The frame with the class.* `data_analysis` takes the class from a `#` frame only if the byte behind the `#`
is an 'A' (more_uart.c:239); the route, the bin and `uart_flag` go on in any case (`ClassAfter`, `DataClass`).
`Layouts` says which bytes the other board may send there. Class numbers are those of the three big
categories, 1 to 15; of another one the code would leave `servo_flag` as it was (more_uart.c:264), and such a
frame is assumed not to be sent.

*Refinement.* `Promise` maps the mission to `MissionSpec`: `planned` is the GUI's having called
`ACO_to_first`, `field` what is left of the route, `carried` what the magnet or a bin holds, `over` the last
drive. `ServoPick` is `Collect`, `ServoDrop` is `Deliver`, the end of `to_edge` is `Finish`; everything
else, every tick and every flag, is a stutter.

*Abstractions.* A drive ends at its place (`ArrivePicture`), whatever the wheels do; angles and lengths are
"there or not". `get_pic` may see the picture or not, and only where one lies. `ant()` gives any order that
begins with the start. Handlers of motions 2, 6 to 9 and 12 (`to_pic2`, `drop_it`, `go_out`, `to_bar`, ...)
are not modelled: nothing assigns these values once the mission has started. The GUI thread cannot run
before flag_init: it has the lowest priority, and main does not wait between IPS_INIT and the call.

### Tour

`Move` draws the next place of ant `i` at move `j`, `IterationEnds` keeps the shortest walk of an iteration,
`Returns` the shortest of those with its way to the depot. The pheromone only weighs the draws, so a draw
may give any place not visited, and the loops over ants and iterations are the code's. Distances are
numbers, not coordinates. Two places on one spot make a weight infinite and the rate not a number; then the
roulette may draw nothing and the place stays 0. The proofs are for places apart.

### Control

`motorControl_timer1(e, d, s)` is a whole tick: the odometry, what the handler does to x, y and z (`Handler`
with effect `e`), the four targets, the four calls of `pid_cal`, and `WDOG_Refresh` unless a wheel is at its
limit. The effects:

| effect | x, y, z | code |
|---|---|---|
| `drive` | as the handler asks | `go_point`, `to_pic`, `protect_back`, `to_edge` while `bar_flag` is 0 or 1, `go_in` |
| `halt` | 0, 0, 0 | motion 4, the ends of `to_pic`, `go_in` and `motionControl` |
| `hold` | 0, 0, kept | `wait_drop` |
| `back` | kept, 0, as asked | `protect_back` on the tick on which it turns round (motor.c:487-488) |
| `keep` | kept | motions 0 and 3, `wait_get`, `to_edge` after a second `%`, `motionControl` when all is visited |

`child3_Run` and `child3_Set` are Run! of the menu, with the tick between any two of its three assignments;
`data_analysis` is the one assignment of data_t, y = 0. `stands` is history: a handler (or a reset) has
stopped the car, with Run! not half-way through, and since then no handler has driven and Run! was not
pressed.
Numbers are integers where the code has floats; the order of the limits (10000, 9999, 9900) is what the
properties rest on.

### Heading

A turn has `Full` parts. `icm_read_timer3` and timer1's handlers take turns, because both are hard timers of
10 ms; a handler is told apart by what it does to z (`phase`). Run! may write z at any time (`child3_UI`).
What the gyro says of a driving car is a turn against z, by a part of it that is not 0: that is an assumption
about the car.

### Steering

A step is a tick of `go_point` with a goal in any direction. `Atan`, the three corrections of its quadrant
and the special case of dy = 0 are as in the code, and so is the derivative of `pid_yaw`, whose `last_e` stays
from drive to drive. `last_x` and `last_y` are the static variables of the filter 0.6 * old + 0.4 * new
(motionPlanning.c:194-196), of which x and y are constant parts; sine and cosine are tables, any at all in
the proofs. The code has floats; here what remains of the difference is rounded towards 0 (`Shrink`). `lag`
is history: the most the filter can still be off its course. What else a handler does to x, y and z when it
arrives is in `Control`.

### Kernel

A function that runs with interrupts disabled is one step. `rt_thread_sleep` is two, with interrupts
between; the tick interrupt is one for `rt_tick_increase` and one for each turn of `rt_timer_check`'s loop.
`left` and `missed` are history: what a delay still has to last, and which timers have not fired during it.
Threads and timers are any finite sets. The periodic timers may be started in any order before the first
tick, so `Init` takes any list of them that is sorted. Lists are sequences; `rt_schedule_remove_thread` takes
the thread's one node out of its ready list.

### Boot

`Script` is main before its loop, one entry for each point at which something else could see a difference;
the other actions are what is alive by then. A byte that comes between `uart_set_handle` and `rt_mb_create`
hangs the interrupt in `RT_ASSERT` (`hung`), and the watchdog, if it runs already, resets the chip. It may
also reset it while main is in its loop, when a wheel is held (`WheelHeld`, which `Control` explains).

### Camera

`WriteRow` and `FrameDone` are the peripheral: it writes rows of the current frame, latches the buffer's
address at the frame's first data (fsl_csi.c:613-619), sets a flag when the frame ends and goes on with the
other register. `OneFrame` and `BothFrames` are the two branches of `CSI_TransferHandleIRQ`; the first one
calls `csi_isr`. The functions of the driver are operators on the handle, a record with the fields of
`csi_handle_t` and the two address registers `FB`. `late` counts frames that ended since the interrupt was
served last. Threads run only while no flag is set (`MainRuns`). `MainCopies` is one pixel of get_pic's
copy; `mt9v03x_csi_image` is a plain global, so a compiler may read it once or for each pixel, and both are
allowed. A pixel is the number of the frame it belongs to. `newest`, `complete`, `seen`, `taken` and `ended`
are history.

### Menu

A page of `table[]` is a pair of its kind and number; `Enter`, `Back`, `Down` and `Up` are the columns of
the table. Each action but the last ones is `ips_mb_recv`'s turn (`Turn`) with the function of the page it
leads to. `check`, `erase` and `program` are the steps of a save; between any two of them, and within
`erase` and `program`, the power may fail (`PowerFails`), which leaves each word of the page as it was, as
it was to become, or torn. Programming clears bits only, so a word that is not blank is torn by it
(`Programmed`), which is why `flash_check` decides about the erase. A parameter moves through `Values`
values; whether two copies of it are equal is all the properties ask. `offs`, `saved` and `failed` are
history.

### Heap

`push` and `pop` begin an operation, `PushUp` and `PopDown` are turns of their loops, `PushEnd` and `PopEnd`
write the moving element `x` into the hole `now`. `content` counts, as history, what was pushed and not
popped. Coordinates and G of a node take no part and are left out.

## 3. Runs

| run | instance | states | question and answer |
|---|---|---|---|
| `mailbox` | 2 mails, 2 receivers, size 3 | 6 thousand | ring = bounded FIFO (`ImplementsFifo`); no sleeping receiver while a mail has no ready receiver (`NoLostWakeup`); a full mailbox is drained (`FullDrains`). |
| `uart8` | frames of 4 bytes, 28 bytes, overruns of up to 2 bytes; 17 bytes when `uart8_t` may be late | 395 thousand | each full window yields a whole frame, wherever the stream starts (`ScanFinds`, `WholeFrames`); while no byte was lost and `uart8_t` is in time, a parse that mixes two frames is followed by another (`MixedIsReparsed`); no frame is acted on three times while `uart8_t` is in time (`AtMostTwice`); the newest frame `uart8_t` found is parsed whole in the end, or is replaced, or its mail was voided by timer3 (`LatestFrameParsed`). |
| `mission` | 3 pictures of any classes, any order, answers lost | 155 thousand | the interleaving of timer1, main, servo, data_t and GUI is the mission `MissionSpec` promises (`ImplementsPromise`); the arm works on a standing car (`StandsWhileHandling`); no flag is left over (`FlagsTaken`, `SearchReset`); a lost answer leaves the car standing (`LostHalts`); every other mission ends (`MissionEnds`). |
| `mission_route` | 3 pictures | | `RouteCoversPictures`: violated, see below. |
| `mission_layout` | 3 pictures, `#` frames with an 'X' | | `DeliveredRight`: violated, see below. |
| `route` | heap: 5 places, 3 values of F, 2 of H; tour: 3 pictures, 2 ants, 2 iterations; course: a turn of 16 parts, 10 directions of a goal, speed 10 | 1.2 million | the array is in heap order between operations (`FOrdered`), pop takes the least F (`LeastF`); what `ant()` returns is a tour (`ToursComplete`) and the shortest of those it compares (`ShortestKept`); the car steers for where the goal is, from every direction to every other, and the filter follows (`SteersForGoal`). |
| `control` | one wheel that may not turn as asked, 2 demands | 60 thousand | the watchdog bounds the sums (`WindupBounded`); a car that a handler has stopped is asked for nothing until Run! is pressed or a handler drives (`StandsUntilRun`); a held wheel ends in a reset (`BlockedResets`). |
| `heading` | a turn of 24 parts, 4 of them in 10 ms | 19 thousand | however the car was turned, it looks ahead again (`LooksAheadAgain`). |
| `kernel` | 4 threads, two of them equals, a timer of 2 ticks, ticks of 3 bits | 95 thousand | no thread is lost, the highest runs, delays end on their tick, a timer runs during a delay that spans it, equals take turns, everything keeps firing. |
| `boot` | a window of 3 bytes, a FIFO of 2 | 2 thousand | what is started early finds what it uses (`UsesExist`), nothing is undone (`NothingUndone`), main reaches its loop (`Boots`). |
| `camera` | image of 2 x 2, 8 frames, interrupt late by up to 2 frames, semaphore up to 2 | 129 thousand | buffers are neither lost nor queued twice and lie in the registers in turn (`BuffersConserved`); a thread finds a whole, current image (`NewestShown`); the copy is fresh, and whole unless a frame ends meanwhile (`FreshCopy`, `WholeCopy`). |
| `menu` | 2 parameters of 2 values, power failures and flash failures | 199 thousand | a finished save survives (`SaveSurvives`); the controllers have the gains shown (`GainsAsShown`); one start (`StartsOnce`). |

All hold but the two named. `route` has three machines in one module that share nothing: `MCRoute` lets each
move while the other two rest where they start, so its states are their sum and not their product.

*Bounds.* Two receivers are what stealing a mail needs; three slots make full, empty and wrapped differ. A
frame of four bytes has a header, a function, a field and a tail, and a window of two of them can start at
each of its places; 28 bytes are three windows and a shifted start, 17 are two windows and one byte, so that
the second is copied over while the first is parsed. The program has one window of 42 bytes; nothing in the
code depends on the frame's length but `PACK_LEN`. Three pictures give a first, a middle and a last one
(`target_cnt == pic_num` is treated differently in three places), two bins with one and a bin with two
pictures, and the start shuffled to each place. Since the route may have the pictures in any order, they are
interchangeable, and the run takes their classes sorted (`SortedInit`): 10 cases stand for 27. The runs of
`Mission` have no repeated frame: with one, see below.

Two rows let a frame be half written and two columns let a copy be torn; eight frames let the indices of a
queue of three entries wrap twice with a reset in between. Two parameters let one word of flash be spoiled
and the other not. Five nodes make three levels of a heap, with a father of one child. Two ants and two
iterations are a best walk that is the first's, the second's, this iteration's or the last's; the distances
are such that the shortest walk is not the one with the shortest way to the depot. Ticks of three bits
overflow every eight; the timer's period of two is spanned by one of the two delays. The limits of `control`
keep the order of the real ones, and its two ticks of timeout let a sum grow beyond the refresh's limit for
one tick and be cut off at the second. 16 parts of a turn have two directions between the axes in each
quadrant at least where the formula changes, and the wrap on both sides; a speed of 10 has seven different
lags.

*Deadlock* is checked but where the program or its world stops: the mission in motion 4, the stream of
`Uart8`, the last frame of `Camera`, `ant()` when it returns, a failed assertion in `Boot`.

*Fairness.* Mailbox: a ready receiver runs. Uart8: `uart8_t` and `data_t` run, because servo and main wait
in each pass of their loops; the line owes nothing. Mission: weak fairness for timer1 and for those of its
steps that bring the mission forward, for servo and main; strong for data_t and the GUI, which can run only
in the pauses of the threads above, but those come again and again; and of the world, which the code cannot
enforce, a drive arrives, a picture that lies there is seen in the end, a question is answered or lost.
Kernel: the tick comes (`FairSpec` says
`[]<><<TickStep>>_vars`; as `TickStep` is possible whenever no interrupt is being served, and the handler
ends by itself, this is what weak fairness of the tick and of the handler's turns would give). Control and Heading: timer1 (and timer3) run, which is `Kernel!TimersFire`, and a
starved watchdog bites. Boot: main goes on, as nothing above it runs for ever, and a starved watchdog bites.

## 4. What the runs found

*The shuffled route* (one of the two findings in `PROJECT.json`). `ACO_to_first` calls `shuffle(path[0], 13)`
(aco.c:766), which permutes `path[0][0]` to `path[0][12]`. Entry 0 is the start, and `ACO_to_first` and
`ACO_to_next` go to entries 1, 2, ... . Whenever the shuffle moves the start, a picture gets to entry 0 and
is never visited, and the car is sent to look for a picture at the start, where it creeps back for ever
(which is why `MissionEnds` has its premise). aco.h:28 and the project's README.md:21 say otherwise.

*The frame with the class* (the other finding). The comment of `data_analysis` (more_uart.c:170-175) has the
`#` frame as `$#X001.0AAAAAAAAAAAA\n`, with the number of the category from the fourth byte on. The code
takes the number from there, but only if the third byte is an 'A' and not an 'X' (more_uart.c:239), and does
all the rest whatever that byte is. If the other board sends what the comment has, `clas` stays 0, and TLC
finds `DeliveredRight` violated: a picture of another class is stored in the bin of class 0 and dropped at
its place. What the board really sends is not in the repository; with the 'A' the mission is right
(`ImplementsPromise`). The handing over of flags does not depend on it: `StandsWhileHandling`, `FlagsTaken`,
`LostHalts`, `AllDelivered` and `SearchReset` are proved for both layouts.

Observations which no document contradicts, and which are therefore not findings:

- *Frames acted on twice.* `data_t` may take the mail of an older frame, parse the newer one that has
  meanwhile been copied, and then take the newer one's own mail. The `#` handler counts places: acting twice
  writes the class under the next picture and skips a place of the route, and with `Repeats = 1` TLC finds
  `DeliveredRight`, `AllDelivered`, `StandsWhileHandling`, `FlagsTaken` and `LostHalts` violated: the second
  pass may write `servo_flag` after `timer1` has written a depot's into it, and raise `uart_flag` for a
  picture that is on board already. What stays true is proved for every `Repeats`: a search starts clean
  (`SearchAlwaysReset`), and the indices grow by at most one for each such frame (`MissionTyped`), so
  with 13 pictures up to 14 of them stay inside the 30 entries of `px` and `clas` (aco.c:8, 15). When
  `uart8_t` is late, a third parse is possible too.
- *Lost answers.* A lost answer to "3" or "4" leaves the car in motion 13 or 15 for good; nothing asks
  again. `LostHalts` says that it at least stands, with nothing stale to go on with.
- *Start-up.* A byte that arrives between `uart_set_handle` (more_uart.c:22) and `rt_mb_create`
  (more_uart.c:41) is mailed to a null mailbox: `RT_ASSERT` (ipc.c:1519) spins in the interrupt, before the
  watchdog runs. A byte already waiting when the interrupt is enabled in the NVIC (more_uart.c:17) finds no
  transfer and disables the receive interrupt, for good. The camera's board is not reset with this one and
  may be sending.
- *A full queue is not seen.* `CSI_TransferGetQueueDelta` (fsl_csi.c:148) computes start + 3 - end where end
  + 3 - start is meant; once the indices have wrapped, the delta of a full queue is 4 and not 2. `csi_isr`
  submits only what it has just taken, so the program does not come to harm.
- *Ties in the heap.* The comment of `push` (aco.c:468) orders nodes by F, then H. `pop` stops at a child
  with F equal to x.F before it looks at H (aco.c:488-489), so a node of the least F, but not of the least
  H, can be popped. A* stays correct and may expand more nodes.
- *Held wheels.* The sum of a held wheel is kept while its target is 0, and the wheel may be pushed for
  ever: `BlockedResets` needs a target that is not 0.
- *Run! during a mission.* The menu stays alive. In motions 0, 3 and 13, and in 15 after a second `%`, no
  handler writes x, y and z, so Run! drives the car, in 13 under the working arm, and in 14 it turns it; when
  a tick comes between its assignments, it does so for that tick with some of the three numbers. `Mission`
  has no Run!: what it says of a standing car is for a mission in which nobody presses it.
- `wait_drop` sets x and y to 0 but not z: the car keeps turning by its last heading correction, and looks
  ahead again on the next drive.
- `get_Theta(tar, cur)` tries both ways against the global `theta` and is right for `tar` = 0 only, the one
  value it is called with.
- `pid_yaw` keeps `last_e` of the drive before, and `go_point` its `last_x` and `last_y`: the first tick of
  a drive steers beyond the goal by the angle between the two goals, and x and y have a part of that, and of
  the speed before the stop, for some ticks more: 0.6 of it after the next tick, 0.36 after the one after.
- For the left drop (`servo_flag` 6) nothing waits between `drop_flag = 1` and `servo_flag_ctrl = 0`, so
  timer1 may raise `servo_flag_ctrl` again as it leaves motion 14, and the arm drops a second time from an
  empty bin under way. `StandsWhileHandling` and `FlagsTaken` except it.
- A second `%` frame sets `bar_flag` to 2, for which `to_edge` has no case.
- The result of main's third look (main.c:55) is not tested.
- A frame whose mail timer3 voided is lost.
- A copy of the image during which a frame ends may mix two frames, and main does nothing to begin one at
  the start of a frame: `camera_sem` has counted frames while the car drove. If the interrupt came three
  frames late (`MaxLate` = 3) the image shown would be torn until the next frame; nothing in the code
  disables interrupts for that long.
- Two places on one spot make a tour incomplete; those of the committed build are apart.
- A save that is cut short loses all parameters, as there is no second copy. Words erased are read back as
  NaN, and leaving a parameter page hands them to the controllers.
- The gains read from flash at boot are overwritten with 45 and 13 (ips_refresh.c:109); the saved ones take
  effect only once somebody leaves a parameter page.
- The page `child2_ant` cannot be reached from any other page.
- `flash_read_page` indexes words by `page_num*FLASH_PAGE_SIZE+i`, `flash_check` by
  `page_num*FLASH_PAGE_SIZE/4+i`; they agree for page 0, the only one used.

## 5. Proofs

Machine-checked for every value of the constants, under the assumptions named in the modules.

| theorem | statement | argument |
|---|---|---|
| `MailboxProofs!TypeCorrect`, `OffsetsCorrect` | `[]TypeOK`, `[]OffsetsAgree` | `RingInv == TypeOK /\ OffsetsAgree` is inductive; one lemma per action. `SlotFacts` (distinct places have distinct slots) is what a send needs: it must not overwrite a waiting mail. |
| `MailboxProofs!WakeupCorrect`, `WaitersCorrect` | `[]NoLostWakeup`, `[]WaitersAgree` | Not inductive alone: that resuming the head of the list adds a *new* ready receiver needs that the list and the states agree, so `WakeInv` joins both. Cardinalities by FiniteSetTheorems, for any finite set of receivers. |
| `MailboxProofs!RefinesFifo` | `Spec => ImplementsFifo` | mapping `queue`: the `entry` slots from `out_offset` on. Each step maps to Accept, Refuse, Deliver or a stutter, given `RingInv`. |
| `MissionProofs!SearchAlwaysReset` | `[]SearchReset` | `SearchInv` says for each place of main what `motion`, `flag` and `pic_stop` are; `SearchReset` alone is not inductive, because main and timer1 write in turns. |
| `MissionProofs!LostCarHalts` | `[]LostHalts` | `AnswerInv`: a question is in one place at a time - asked, on the line, with data_t, handed to timer1, or lost - and until it is taken the car stands in the motion that waits for it. |
| `MissionProofs!DeliversRight` | `[]DeliveredRight`, for `Layouts = {"A"}` | `LoadInv`: the class on its way from the frame to `servo_flag` is that of the picture below the car, the next place of the route is the depot that is due, and so every bin holds one class. |
| `MissionProofs!ArmWorksOnStandingCar`, `FlagsAlwaysTaken` | `[]StandsWhileHandling`, `[]FlagsTaken` | `FlagInv` on top of these: while the arm works the car halts, and timer1 has taken each flag before the arm's next wait ends. |
| `MissionProofs!DeliversAll` | `[]AllDelivered` | `RouteInv`: how far the car is on its route (`OnRoad`), that what it has gathered is exactly what it passed (`Gathered`), and which bins are empty (`Unloaded`). |
| `MissionProofs!MissionKeepsPromise` | `Spec => ImplementsPromise`, for `Layouts = {"A"}` | from all of these: one lemma for each step that is not a stutter (`PlanRefines`, `PickRefines`, `DropRefines`, `EdgeRefines`), two for those that are. |
| `MissionProofs!MissionTyped` | `[]TypeOK` | For any `Repeats`. `LineOK`: questions, frames, the frame in work and the one reported are together no more than the car waits for, and one for each frame acted on again. `CountOK`: so `path_clk` and `n` run ahead of `target_cnt` by no more than that. |
| `RouteProofs!ToursCorrect`, `ShortestCorrect`, `TourTyped` | `[]ToursComplete`, `[]ShortestKept`, `[]TypeOK` of `Tour` where `Apart` | `RoutesGrow`: the ants before `i` are one place ahead of the others, and no walk has a place twice; a walk of all places without repetition is a bijection. |
| `RouteProofs!HeapIsOrdered` | `[]FOrdered` | `OrderInv`: order holds where the hole takes no part; the hole's father is no larger than the hole's children; going up, x is no larger than these; going down, x is no smaller than the hole's father. |
| `RouteProofs!PopTakesLeast`, `HeapTyped` | `[]LeastF`, `[]TypeOK` | the root is least: of the places with a smaller F the least has a father with one too (`LeastOf`, the least-number principle from WellFoundedInduction). `CountInv` says that the array holds what was pushed and not popped. |
| `RouteProofs!SteeringCorrect`, `SteeringTyped` | `[]SteersForGoal`, `[]TypeOK` of `Steering` | `YawIsDirection`: in each quadrant and on the axes the corrections make of the arc tangent where the goal is; so `SteerInv`: `last_e` is the direction of the goal before, and what the derivative adds is the lead but for whole turns (`SwingLeads`). `FilterInv`: x and y are within the lag of the course, because a tick leaves 0.6 of the difference at most (`FilterNears`) and a new course is no further off than twice the speed (`Furthest`). |
| `RouteProofs!TurnsTheShorterWay` | `[][Drive => ...]` (`TurnsBack`) of `Heading` | `ThetaInv`: theta stays in 0 .. 360, for which the side that `get_Theta` finds by trying is the right one. |
| `ControlProofs!WindupCorrect`, `OdometryCorrect`, `TypeCorrect` | `[]WindupBounded`, `[]OdometryAgrees`, `[]TypeOK` | of one wheel: a tick that refreshes the watchdog shows that the controller asked for less than the limit, which bounds the sum whatever it was; any other tick adds at most `EMax` and one to the age. |
| `ControlProofs!StandingStays` | `[]StandsUntilRun` | not inductive alone: what the handlers keep must be nothing, and Run! must have nothing left to write (`AtRest`). |
| `CameraProofs!BuffersStayInTurn`, `TransferGoesOn` | `[]BuffersConserved`, `[]NeverStops` | `HandleOK`: between two interrupts both buffers are queued and loaded, the register due next holding the first of the two. Each branch of the interrupt takes such a handle to such a handle. No bound on the lateness is needed. |
| `CameraProofs!ImageIsWhole` | `[]NewestShown`, for `MaxLate <= 2` | `ShownInv` says, for each number of frames that ended since the interrupt was served, which register the CSI is in and which buffer is whole. |
| `CameraProofs!CopyIsFresh`, `CopyIsWhole`, `CameraTyped` | `[]FreshCopy`, `[]WholeCopy` for `MaxLate <= 2`, `[]TypeOK` (two buffers, images of any size) | what a thread reads is whole and no older than `newest`, which does not change in a copy during which no frame ends. |
| `MenuProofs!SavesSurvive` | `[]SaveSurvives` | strengthened by what flash is in the middle of a save: the programming step finds a blank page, because `flash_check` sent all others through the erase. |
| `MenuProofs!GainsFollow`, `MissionStartsOnce`, `TableIsInverse`, `MenuTyped` | `[]GainsAsShown`, `[]StartsOnce`, `TableInverse`, `[]TypeOK` | the parameters change on a parameter's page only, and the sole ways out of it lead to `child1_UI` by BACK or to itself; the static flag is set before the mission starts. |
| `Uart8Proofs!CopiesWholeFrames`, `ScansFind` | `[]WholeFrames`, `Spec => ScanFinds` | `OrderInv`: the cells of the window and of `uart_buff` hold bytes in the order of the stream, however many were lost. `CleanInv`: in a window that lost none each cell's byte is known from the first, so a header and the tail that follows it are of one frame, and of any `PACK_LEN` bytes in a row one is a header (`HeaderExists`). |
| `Uart8Proofs!ParsedAtMostTwice`, `MixedParsesRepeat` | `[]AtMostTwice`, `[]MixedIsReparsed` | `CountInv`: for the frame in `uart_buff`, its parses, the one going on and the mails waiting are two together at most; a frame gone from it gets no parse but the one going on; one not yet there has none. `MixInv`, while no byte was lost and `uart8_t` is in time: a parse that has read two frames was overtaken by a copy whose mail is still to come or waits. |
| `Uart8Proofs!Uart8Typed` | `[]TypeOK` | `SizeInv` has the bounds of the scan's index; `dataSize` is one length or the other. |
| `KernelProofs!ThreadsKept`, `PrioritiesKept` | `[]NoThreadLost`, `[]HighestRuns` | `SchedInv`: the ready lists hold the ready threads (`SchedOK`), a current thread that is RUNNING has none of higher priority ready (`Serves`; `NoThreadLost` alone does not say so), and one that has fallen asleep calls `rt_schedule` next. `ScheduleOK` takes `rt_schedule` from any such state, with or without `RT_THREAD_STAT_YIELD`, to such a state. |
| `KernelProofs!DelaysExact` | `[]SleepsExactly` | `TimerInv`, `SleepInv`: the list is sorted by the ticks left *modulo* the counter (`Rem`), each less than half its range, and a sleep lasts as long as its timer has left. `StartIs` says that `rt_timer_start` keeps the order, whatever has overflowed; `OneLess`, that a tick takes one from all. |
| `KernelProofs!TimersFirst` | `[]TimerRanMeanwhile` | the periodic timers a sleeper has missed stand before its own timer in the list, so they fire first. |
| `KernelProofs!TurnsTaken` | `[]EqualsTakeTurns` | `TurnInv`: the times a thread was overtaken and its place in its ready list add up to the number of its equals at most; needs that lists lose one thread at a time and grow at the end only (`KeepsPlaces`). |
| `KernelProofs!MadeBeforeUse`, `SetupStays` | `[]UsesExist`, `[]NothingUndone` of `Boot` | `BootInv` bounds what is used by how far main is. No step comes twice (`NoStepTwice`), so what is done follows from `done` (`DoneIs`), and a thread below main that exists has main in its loop (`LoopBelow`): after `gui_t` main sleeps nowhere else. |

Assumptions: `SizeAssumption` (a size that fits 16 bits), `MailboxAssumption` (finitely many receivers,
`NoMsg` is no mail); `Uart8Assumption` (a frame has a header, a tail and one byte of its own; the bounds are
numbers that let a frame through); `MissionAssumption` (at least one picture, and `#` frames of one layout or the other or both); `TourAssumption`, with places
apart (`Apart`) in the theorems; `AnglesAssumption` (a turn that can be quartered), `HeadingAssumption` (a
rate of a turn in 10 ms at most), `SteeringAssumption` (goals within the turn, tables of sine and cosine no
larger than the speed); the proofs about `Boot` use none; `HeapAssumption` (keys are numbers);
`ControlAssumption` (the order of the limits, and a speed that can be reached); `CameraAssumption` (sizes and
bounds are numbers; the lateness is assumed in the theorems that need it); `MenuAssumption` (`Blank` and
`Torn` are no values); `KernelAssumption` (finitely many threads and timers, idle of the lowest priority,
periods and delays of less than half the counter's range, which is the `RT_ASSERT` of `rt_timer_start`,
timer.c:341). The theorems of `Mission` on answers, load, arm, flags and route assume `Repeats = 0`: no frame
is acted on twice, without which they are false (see "What the runs found"); `MissionTyped` and
`SearchAlwaysReset` do not. `DeliversRight` and `MissionKeepsPromise` also assume `Layouts = {"A"}`.

Type invariants: those of Mailbox, Uart8, Mission, Tour, Heap, Steering, Control, Camera, Menu and (as a part
of `NoThreadLost`) Kernel are proved; the state of `Boot` and `Heading` is constrained by the invariants of
their proofs (`BootInv`, `ThetaInv`).

Only model-checked: everything temporal under fairness (`FullDrains`, `LatestFrameParsed`, `MissionEnds`,
`TimersFire`, `BlockedResets`, `Boots`, `LooksAheadAgain`), which the prover does not do. Every invariant of
a passing run is a theorem, and so is every property without fairness (`ScanFinds`, `ImplementsFifo`,
`ImplementsPromise`).

## 6. Not modelled

- *Image processing* (coor_pick.c, pic_pick.c): Sobel, template matching, thresholds and corners are pure
  computation on images of 188 x 120 pixels. No state survives a picture, and what the mission sees of it is
  a sighting.
- *The vendored code* (`src/Software/Libraries`), but for the mailbox, the semaphore, the scheduler and
  timers, the UART's receive path, the camera's transfer and the menu's flash functions. The repository has
  451,849 lines in its C files, of which the program itself (`src/Software/Project`) is about 4,400; the
  rest is the NXP SDK, FatFs, CMSIS, a USB stack and RT-Thread, most of it never called. The share of the
  repository's lines that the models can cover is therefore small whatever is modelled.
- Lengths, wheel slip and image coordinates; the contents of `&` and `@`; the display; the speeds of the
  menu's demo as such; telemetry.
- Code without a live caller in the committed build: the grid of A* and `make_path`, the branch of `ant()`
  for `run_twice`, `find_pic`, `fhan` and `adrc_filter`, `to_pic2`, `pic_mag`, `drop_it`, `go_out` and
  `to_bar`, the `*_test` code.

## 7. Plan

Done: the mailbox, the receive path, the mission with its abstract specification, the tour, the camera, the
menu with its flash page, A*'s heap, the wheels with their watchdog, the heading, the kernel, the start-up.
Proved: every invariant of a passing run and every property that needs no fairness.
Next, in this order:

1. What of the load and the route holds when frames are acted on twice: how many places are skipped, and
   that no picture is taken twice, as functions of `Repeats`.
2. Safety lemmas on the way of the properties that need fairness: what a step may never undo, for
   `MissionEnds` and `LatestFrameParsed`.
3. `Mission` with the age of the image `Camera` gives its search.

------------------------------- MODULE Uart8 -------------------------------
(***************************************************************************)
(* The receive path of LPUART8, on which the OpenART cameras talk to the   *)
(* car (more_uart.c).  The interrupt handler fills uart8_rx_buffer without  *)
(* any lock; uart8_t (priority 15) looks for a frame in it and copies the   *)
(* frame to uart_buff; data_t (priority 26) parses uart_buff in place.      *)
(* Steps are single accesses to the two shared buffers.                     *)
(*                                                                          *)
(* Scheduling: the interrupts preempt everything; data_t runs only while    *)
(* uart8_t waits for mail; servo (9) and main (10) may hold uart8_t off for *)
(* any time, which is a uart8_t that takes no step.                         *)
(***************************************************************************)
EXTENDS Naturals, Sequences

CONSTANTS
  PACK_LEN,     \* length of a frame, 21 in more_uart.h
  RxFifo,       \* bytes an overrun leaves in the receive FIFO
  MaxBytes,     \* bound: bytes of the stream
  MaxLost,      \* bound: bytes one overrun loses
  LateBytes     \* bound: bytes of a stream for which uart8_t may be late

ASSUME Uart8Assumption ==
  /\ PACK_LEN \in Nat /\ PACK_LEN > 3
  /\ RxFifo \in 1 .. PACK_LEN
  /\ MaxBytes \in Nat /\ MaxBytes >= PACK_LEN
  /\ MaxLost \in Nat /\ LateBytes \in 0 .. MaxBytes

VARIABLES
  next, clean, prompt,      \* the line: next byte, no byte lost yet, is uart8_t always in time
  uart8_rx_buffer, rxData, rxDataSize, windows,   \* LPUART handle, RxIdle count
  uart8_mb,                 \* mails waiting in the mailbox "uart8"
  pc8, i, cnt, uart_buff,   \* uart8_t
  car_uart,                 \* car.uart
  data_mb, voided,          \* mailbox "data"; TRUE: its last mail says SP_WAIT
  pcD, rd, got,             \* data_t: next byte to parse, frames parsed from
  parses                    \* parses[f]: how often frame f was parsed whole

isr  == <<next, clean, prompt, uart8_rx_buffer, rxData, rxDataSize, windows>>
thr8 == <<pc8, i, cnt, uart_buff>>
thrD == <<pcD, rd, got, parses>>
vars == <<isr, uart8_mb, thr8, car_uart, data_mb, voided, thrD>>

-----------------------------------------------------------------------------
\* The line carries frames back to back.  A byte is known by its frame and its
\* place there: place 0 holds '$', place 1 the function, the last place '\n'.
Byte(k) == [frame |-> k \div PACK_LEN + 1, pos |-> k % PACK_LEN]
Zero == [frame |-> 0, pos |-> PACK_LEN]
Frames == 1 .. MaxBytes \div PACK_LEN + 1
Frame(f) == [k \in 0 .. PACK_LEN - 1 |-> [frame |-> f, pos |-> k]]
Blank == [k \in 0 .. PACK_LEN - 1 |-> Zero]

dataSize == 2 * PACK_LEN

\* handle->rxDataSize after uart8_callback.  Mutant: it is not restored.
SizeNotRestored == 0
SizeRestored == dataSize

\* Mutant: mailboxes of two mails.
rt_mb_send_two(mb, mail) == IF Len(mb) < 2 THEN Append(mb, mail) ELSE mb

\* Both mailboxes hold one mail: rt_mb_create(.., 1, RT_IPC_FLAG_FIFO).  They are
\* the FIFO of MailboxSpec, which module Mailbox is proved to implement.
rt_mb_send(mb, mail) == IF mb = << >> THEN <<mail>> ELSE mb

Init ==
  /\ next \in 0 .. PACK_LEN - 1        \* a camera may already be sending
  /\ clean = TRUE /\ prompt \in BOOLEAN
  /\ uart8_rx_buffer = [k \in 0 .. dataSize - 1 |-> Zero]
  /\ rxData = 0 /\ rxDataSize = 1      \* uart_set_handle(.., 1)
  /\ windows = 0
  /\ uart8_mb = << >> /\ data_mb = << >> /\ voided = FALSE
  /\ pc8 = "recv" /\ i = 0 /\ cnt = 0 /\ uart_buff = Blank
  /\ car_uart = "SP_WAIT"
  /\ pcD = "recv" /\ rd = 1 /\ got = {}
  /\ parses = [f \in Frames |-> 0]

Uart8Blocked == pc8 = "recv" /\ uart8_mb = << >>

\* n bytes more may come: when uart8_t is prompt only after it has finished.
Arrives(n) ==
  /\ next + n <= (IF prompt THEN MaxBytes ELSE LateBytes)
  /\ prompt => Uart8Blocked

-----------------------------------------------------------------------------
\* LPUART_TransferHandleIRQ stores a byte; the last one of a window reports
\* kStatus_LPUART_RxIdle to uart8_callback, which mails the buffer's address
\* and points the handle at its start again.
RxByte ==
  /\ Arrives(1)
  /\ uart8_rx_buffer' = [uart8_rx_buffer EXCEPT ![rxData] = Byte(next)]
  /\ next' = next + 1
  /\ \/ /\ rxDataSize > 1
        /\ rxData' = rxData + 1
        /\ rxDataSize' = rxDataSize - 1
        /\ UNCHANGED <<uart8_mb, windows>>
     \/ /\ rxDataSize = 1
        /\ uart8_mb' = rt_mb_send(uart8_mb, "uart8_rx_buffer")
        /\ rxData' = 0
        /\ rxDataSize' = SizeRestored
        /\ windows' = IF windows < 2 THEN windows + 1 ELSE windows
  /\ UNCHANGED <<clean, prompt, thr8, car_uart, data_mb, voided, thrD>>

\* The FIFO overflowed: uart8_callback (not RxIdle) restarts the window without
\* a mail, then the bytes left in the FIFO are stored.
RxOverrun ==
  \E lost \in 1 .. MaxLost :
    /\ Arrives(RxFifo + lost)
    /\ uart8_rx_buffer' = [k \in DOMAIN uart8_rx_buffer |->
         IF k < RxFifo THEN Byte(next + k) ELSE uart8_rx_buffer[k]]
    /\ rxData' = RxFifo
    /\ rxDataSize' = SizeRestored - RxFifo
    /\ next' = next + RxFifo + lost
    /\ clean' = FALSE
    /\ UNCHANGED <<prompt, windows, uart8_mb, thr8, car_uart, data_mb, voided, thrD>>

\* icm_read_timer3, in the tick interrupt, takes SP_OK back.
icm_read_timer3 ==
  /\ car_uart = "SP_OK"
  /\ car_uart' = "SP_WAIT"
  /\ UNCHANGED <<isr, uart8_mb, thr8, data_mb, voided, thrD>>

-----------------------------------------------------------------------------
Uart8Recv ==
  /\ pc8 = "recv" /\ uart8_mb # << >>
  /\ uart8_mb' = Tail(uart8_mb)
  /\ pc8' = "header" /\ i' = 0
  /\ UNCHANGED <<isr, cnt, uart_buff, car_uart, data_mb, voided, thrD>>

\* The last place the scan looks at.  Mutant: one place short of a whole window.
LastPlaceShort == PACK_LEN - 2
LastPlace == PACK_LEN

\* data[i] == '$' and data[i + PACK_LEN - 1] == '\n'.  Mutant: any tail will do.
HeaderAt(k) == uart8_rx_buffer[k].pos = 0
TailAnything(k) == TRUE
TailAt(k) == uart8_rx_buffer[k + PACK_LEN - 1].pos = PACK_LEN - 1

NextPlace ==   \* ++i in the scan, and its end
  IF i < LastPlace
    THEN pc8' = "header" /\ i' = i + 1 /\ UNCHANGED car_uart
    ELSE pc8' = "recv" /\ i' = i + 1 /\ car_uart' = "SP_HEADER_ERR"

Uart8Header ==
  /\ pc8 = "header"
  /\ IF HeaderAt(i)
       THEN pc8' = "tail" /\ UNCHANGED <<i, car_uart>>
       ELSE NextPlace
  /\ UNCHANGED <<isr, uart8_mb, cnt, uart_buff, data_mb, voided, thrD>>

Uart8Tail ==
  /\ pc8 = "tail"
  /\ IF TailAt(i)
       THEN pc8' = "copy" /\ cnt' = 0 /\ UNCHANGED <<i, car_uart>>
       ELSE NextPlace /\ UNCHANGED cnt
  /\ UNCHANGED <<isr, uart8_mb, uart_buff, data_mb, voided, thrD>>

\* uart_buff[cnt] = data[cnt + i]; after the last byte car.uart = SP_OK.
Uart8Copy ==
  /\ pc8 = "copy"
  /\ uart_buff' = [uart_buff EXCEPT ![cnt] = uart8_rx_buffer[cnt + i]]
  /\ cnt' = cnt + 1
  /\ IF cnt' = PACK_LEN
       THEN pc8' = "notify" /\ car_uart' = "SP_OK"
       ELSE UNCHANGED <<pc8, car_uart>>
  /\ UNCHANGED <<isr, uart8_mb, i, data_mb, voided, thrD>>

\* Mutant: no mail while data_t is busy with an earlier one.
DataMailIfIdle(mail) == IF pcD = "parse" THEN data_mb ELSE rt_mb_send(data_mb, mail)
DataMail(mail) == rt_mb_send(data_mb, mail)

\* rt_mb_send(data_mb, car.uart): a build either loads car.uart again, after the
\* timer interrupt may have cleared it, or still has SP_OK in a register.
Uart8Notify ==
  /\ pc8 = "notify"
  /\ \E mail \in {car_uart, "SP_OK"} :
       /\ data_mb' = DataMail(mail)
       /\ voided' = IF data_mb = << >> THEN mail = "SP_WAIT" ELSE voided
  /\ pc8' = "recv"
  /\ UNCHANGED <<isr, uart8_mb, i, cnt, uart_buff, car_uart, thrD>>

-----------------------------------------------------------------------------
\* data_t has the lower priority: it runs only while uart8_t waits for mail.
DataMayRun == Uart8Blocked

\* if (flag): a mail that says SP_WAIT (0) is dropped.
DataRecv ==
  /\ DataMayRun
  /\ pcD = "recv" /\ data_mb # << >>
  /\ data_mb' = Tail(data_mb)
  /\ pcD' = IF Head(data_mb) = "SP_OK" THEN "parse" ELSE "recv"
  /\ rd' = 1 /\ got' = {}
  /\ UNCHANGED <<isr, uart8_mb, thr8, car_uart, voided, parses>>

\* The function byte and the fields are read from uart_buff one by one.
DataRead ==
  /\ DataMayRun
  /\ pcD = "parse" /\ rd < PACK_LEN - 1
  /\ got' = got \union {uart_buff[rd].frame}
  /\ rd' = rd + 1
  /\ UNCHANGED <<isr, uart8_mb, thr8, car_uart, data_mb, voided, pcD, parses>>

\* The frame has been acted on; car.uart = SP_WAIT.
DataDone ==
  /\ DataMayRun
  /\ pcD = "parse" /\ rd = PACK_LEN - 1
  /\ parses' = [f \in Frames |-> IF got = {f} THEN parses[f] + 1 ELSE parses[f]]
  /\ car_uart' = "SP_WAIT"
  /\ pcD' = "recv"
  /\ UNCHANGED <<isr, uart8_mb, thr8, data_mb, voided, rd, got>>

Uart8Thread == Uart8Recv \/ Uart8Header \/ Uart8Tail \/ Uart8Copy \/ Uart8Notify
DataThread == DataRecv \/ DataRead \/ DataDone

Next == RxByte \/ RxOverrun \/ icm_read_timer3 \/ Uart8Thread \/ DataThread

Spec == Init /\ [][Next]_vars

\* Both threads get the processor in the end: servo and main block in
\* rt_thread_mdelay on every pass of their loops.  The line owes no byte.
FairSpec == Spec /\ WF_vars(Uart8Thread) /\ WF_vars(DataThread)

-----------------------------------------------------------------------------
Bytes == [frame : Frames, pos : 0 .. PACK_LEN - 1] \union {Zero}

TypeOK ==
  /\ next \in 0 .. MaxBytes
  /\ uart8_rx_buffer \in [0 .. dataSize - 1 -> Bytes]
  /\ rxData \in 0 .. dataSize - 1
  /\ rxDataSize \in 1 .. dataSize
  /\ i \in 0 .. PACK_LEN + 1
  /\ cnt \in 0 .. PACK_LEN
  /\ uart_buff \in [0 .. PACK_LEN - 1 -> Bytes]
  /\ pc8 \in {"recv", "header", "tail", "copy", "notify"}
  /\ pcD \in {"recv", "parse"}
  /\ rd \in 1 .. PACK_LEN - 1
  /\ car_uart \in {"SP_WAIT", "SP_OK", "SP_HEADER_ERR"}
  /\ uart8_mb \in {<< >>, <<"uart8_rx_buffer">>}
  /\ data_mb \in {<< >>, <<"SP_OK">>, <<"SP_WAIT">>}

\* "get 2 times of the pack length data for data stability" (more_uart.c:19): wherever
\* the stream starts, a window that lost no byte and is scanned in time holds a whole
\* frame, so once the window of one byte is over no scan ends with SP_HEADER_ERR ...
ScanFinds ==
  [][clean /\ prompt /\ windows >= 2 /\ pc8 # "recv" /\ pc8' = "recv" => pc8 = "notify"]_vars

\* ... and what uart8_t copied is that frame, not pieces of two.
WholeFrames ==
  clean /\ prompt /\ Uart8Blocked => uart_buff \in {Blank} \union {Frame(f) : f \in Frames}

\* However late uart8_t and data_t run, every window uart8_t found a frame in
\* whose mail was not voided by the timer interrupt (car.uart cleared between
\* its assignment and rt_mb_send) is parsed whole, or a newer frame replaces it:
\* no parse that was overtaken by a copy is the last one.
LatestFrameParsed ==
  \A f \in Frames :
    (uart_buff = Frame(f) /\ pc8 = "recv")
      ~> (parses[f] > 0 \/ uart_buff # Frame(f) \/ voided)

\* While uart8_t is in time a frame is acted on at most twice: once for a mail data_t took
\* before the frame replaced its predecessor in uart_buff, once for the frame's own mail.
\* (If it is late a window may hold the same frame again, and there is a third time.)
AtMostTwice == prompt => \A f \in Frames : parses[f] <= 2

\* With uart8_t in time a parse mixes two frames only if it was overtaken, and then a
\* mail for the newer frame is still waiting: a mixed parse is followed by another one,
\* unless the timer interrupt voided that mail.
MixedIsReparsed ==
  clean /\ prompt /\ pcD = "parse" /\ Uart8Blocked /\ (\E f \in got : f # uart_buff[1].frame)
    => data_mb = <<"SP_OK">> \/ voided
=============================================================================

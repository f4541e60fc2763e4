---------------------------- MODULE Uart8Proofs ----------------------------
(***************************************************************************)
(* Uart8 for frames of any length, streams of any length and overruns that  *)
(* lose any number of bytes.  Two things carry the proofs.  While uart8_t   *)
(* is in time (prompt), the bytes of a window, and those of the frame       *)
(* copied before it, are in the order of the stream, however many were      *)
(* lost: a frame is copied once.  If none was lost (clean), the place of    *)
(* each byte of the window in the stream is known.                          *)
(***************************************************************************)
EXTENDS Uart8, TLAPS

Cells == 0 .. dataSize - 1
Places == 0 .. PACK_LEN - 1

\* The order of the stream.
Before(a, b) == a.frame < b.frame \/ (a.frame = b.frame /\ a.pos < b.pos)

\* uart8_t has a frame in uart_buff, or is copying it, of which data_t has not heard.
Copying == pc8 \in {"copy", "notify"}

-----------------------------------------------------------------------------
\* The variables' types, and how far the transfer and the scan can be.
SizeInv ==
  /\ TypeOK
  /\ windows \in 0 .. 2 /\ clean \in BOOLEAN /\ prompt \in BOOLEAN
  /\ rxData + rxDataSize = dataSize \/ (rxData = 0 /\ rxDataSize = 1)
  /\ pc8 \in {"header", "tail", "copy"} => i <= PACK_LEN
  /\ pc8 = "copy" => cnt < PACK_LEN
  /\ pc8 = "notify" => car_uart # "SP_HEADER_ERR"
  /\ data_mb = <<"SP_WAIT">> => voided
  /\ parses \in [Frames -> Nat] /\ got \subseteq Nat

\* uart8_t waits and a window is filled, behind the bytes of uart_buff.
Filling ==
  /\ \A k, l \in Cells : k < l /\ l < rxData => Before(uart8_rx_buffer[k], uart8_rx_buffer[l])
  /\ \A k \in Cells : k < rxData =>
       /\ Before(uart8_rx_buffer[k], Byte(next))
       /\ \A m \in Places : Before(uart_buff[m], uart8_rx_buffer[k])
  /\ rxData + rxDataSize = dataSize \/ (\A k \in Cells : uart8_rx_buffer[k] = Zero)

\* uart8_t looks at a full window: at that of one byte, with which the program begins, or
\* at one in the order of the stream.
OneByte == \A k \in Cells \ {0} : uart8_rx_buffer[k] = Zero
Ordered == \A k, l \in Cells : k < l => Before(uart8_rx_buffer[k], uart8_rx_buffer[l])

Scanning ==
  /\ rxData = 0 /\ rxDataSize = dataSize
  /\ pc8 # "recv" => uart8_mb = << >>
  /\ \A k \in Cells : Before(uart8_rx_buffer[k], Byte(next))
  /\ \/ OneByte /\ ~Copying
     \/ /\ Ordered
        /\ pc8 \notin {"copy", "notify"} =>
             \A m \in Places : \A k \in Cells : Before(uart_buff[m], uart8_rx_buffer[k])
  /\ pc8 = "tail" => HeaderAt(i)
  /\ pc8 = "copy" =>
       /\ HeaderAt(i)
       /\ \A m \in Places :
            IF m < cnt THEN uart_buff[m] = uart8_rx_buffer[i + m]
                       ELSE \A k \in Cells : Before(uart_buff[m], uart8_rx_buffer[k])

OrderInv ==
  prompt =>
    /\ IF Uart8Blocked THEN Filling ELSE Scanning
    /\ \A m \in Places : Before(uart_buff[m], Byte(next))
    /\ pc8 # "copy" => \A m \in Places \ {0} : uart_buff[1].frame <= uart_buff[m].frame

\* No byte was lost: each is where the length of the windows says.
CleanInv ==
  clean /\ prompt =>
    /\ windows = 0 => Uart8Blocked /\ rxData = 0 /\ rxDataSize = 1
    /\ windows > 0 =>
         /\ rxData + rxDataSize = dataSize /\ rxData <= next
         /\ \A k \in Cells : k < rxData => uart8_rx_buffer[k] = Byte(next - rxData + k)
    /\ windows = 1 => \A k \in Cells \ {0} : k >= rxData => uart8_rx_buffer[k] = Zero
    /\ windows = 1 => ~Copying
    /\ windows = 2 /\ ~Uart8Blocked =>
         /\ dataSize <= next
         /\ \A k \in Cells : uart8_rx_buffer[k] = Byte(next - dataSize + k)
    /\ windows = 2 /\ pc8 \in {"header", "tail"} => \A k \in Cells : k < i => ~HeaderAt(k)
    /\ pc8 # "copy" => uart_buff \in {Blank} \union {Frame(f) : f \in Frames}

\* How often a frame has been and can still be parsed whole: for the frame in uart_buff,
\* the parse under way and the mail that waits count, for an older one only a parse that
\* has read nothing else.
Current == uart_buff[1].frame
Replaced == pc8 = "notify" \/ (pc8 = "copy" /\ cnt > 1)
Pending(cond) == IF pcD = "parse" /\ cond THEN 1 ELSE 0

CountInv ==
  prompt =>
    /\ pcD = "parse" /\ rd > 1 => \E g \in got : g <= Current
    /\ \A f \in Frames :
         /\ f > Current => parses[f] = 0
         /\ f < Current => parses[f] + Pending(got = {f}) <= 2
         /\ f = Current => IF Replaced THEN parses[f] = 0
                           ELSE parses[f] + Pending(got \subseteq {f}) + Len(data_mb) <= 2

\* A parse that has read an older frame has a mail behind it.
MixInv ==
  clean /\ prompt /\ pcD = "parse" /\ ~Copying => got \subseteq {Current} \/ data_mb # << >>

Uart8Inv == SizeInv /\ OrderInv /\ CleanInv /\ CountInv /\ MixInv

-----------------------------------------------------------------------------
LEMMA Lengths ==
  /\ PACK_LEN \in Nat /\ PACK_LEN >= 4 /\ PACK_LEN \in Nat \ {0} /\ RxFifo \in 1 .. PACK_LEN
  /\ MaxBytes \in Nat /\ LateBytes \in 0 .. MaxBytes /\ PACK_LEN <= MaxBytes /\ MaxLost \in Nat
BY Uart8Assumption, SMT

\* Quotients and remainders by a length that is not known.
LEMMA DivMod ==
  ASSUME NEW p \in Nat \ {0}, NEW k \in Nat
  PROVE  k \div p \in Nat /\ k % p \in 0 .. p - 1
BY SMT

LEMMA DivModOrder ==
  ASSUME NEW p \in Nat \ {0}, NEW j \in Nat, NEW k \in Nat, j < k
  PROVE  j \div p < k \div p \/ (j \div p = k \div p /\ j % p < k % p)
BY SMT

LEMMA DivOrder ==
  ASSUME NEW p \in Nat \ {0}, NEW j \in Nat, NEW k \in Nat, j <= k
  PROVE  j \div p <= k \div p
BY SMT

LEMMA DivModShift ==
  ASSUME NEW p \in Nat \ {0}, NEW k \in Nat, NEW c \in 0 .. p - 1, k % p = 0
  PROVE  (k + c) % p = c /\ (k + c) \div p = k \div p
<1>1. (k + c) \div p = k \div p
  BY SMTT(20)
<1>2. (k + c) % p = c
  BY <1>1, SMTT(20)
<1> QED BY <1>1, <1>2

LEMMA NextMultiple ==
  ASSUME NEW p \in Nat \ {0}, NEW k \in Nat
  PROVE  \E c \in 0 .. p - 1 : (k + c) % p = 0
<1>1. k % p \in 0 .. p - 1
  BY DivMod
<1>2. CASE k % p = 0
  BY <1>2, SMT
<1>3. CASE k % p # 0
  <2> DEFINE c == p - (k % p)
  <2>1. c \in 0 .. p - 1 /\ k + c = k - (k % p) + p
    BY <1>1, <1>3, SMT
  <2>2. (k - (k % p) + p) % p = 0
    BY SMTT(20)
  <2> HIDE DEF c
  <2>3. (k + c) % p = 0
    BY <2>1, <2>2
  <2> QED BY <2>1, <2>3
<1> QED BY <1>2, <1>3

-----------------------------------------------------------------------------
\* Bytes, and their order.
LEMMA BytesTyped ==
  /\ Zero \in Bytes /\ Zero.frame = 0 /\ Zero.pos = PACK_LEN
  /\ \A b \in Bytes : b.frame \in Nat /\ b.pos \in Nat
<1>1. Zero \in Bytes /\ Zero.frame = 0 /\ Zero.pos = PACK_LEN
  BY DEF Zero, Bytes
<1>2. ASSUME NEW b \in Bytes PROVE b.frame \in Nat /\ b.pos \in Nat
  <2>1. CASE b = Zero
    BY <2>1, <1>1, Lengths, SMT
  <2>2. CASE b \in [frame : Frames, pos : 0 .. PACK_LEN - 1]
    <3>1. b.frame \in Frames /\ b.pos \in 0 .. PACK_LEN - 1
      BY <2>2
    <3> QED BY <3>1, Lengths, SMT DEF Frames
  <2> QED BY <2>1, <2>2 DEF Bytes
<1> QED BY <1>1, <1>2

LEMMA ByteIs ==
  ASSUME NEW k \in Nat
  PROVE  /\ Byte(k).frame = k \div PACK_LEN + 1 /\ Byte(k).pos = k % PACK_LEN
         /\ Byte(k).frame \in Nat \ {0} /\ Byte(k).pos \in 0 .. PACK_LEN - 1
<1>1. k \div PACK_LEN \in Nat /\ k % PACK_LEN \in 0 .. PACK_LEN - 1
  BY Lengths, DivMod
<1>2. Byte(k).frame = k \div PACK_LEN + 1 /\ Byte(k).pos = k % PACK_LEN
  BY DEF Byte
<1> QED BY <1>1, <1>2, SMT

LEMMA ByteTyped ==
  ASSUME NEW k \in Nat, k < MaxBytes
  PROVE  Byte(k) \in Bytes
<1>1. k \div PACK_LEN <= MaxBytes \div PACK_LEN /\ MaxBytes \div PACK_LEN \in Nat
  BY Lengths, DivMod, DivOrder, SMT
<1>2. k \div PACK_LEN \in Nat /\ k % PACK_LEN \in 0 .. PACK_LEN - 1
  BY Lengths, DivMod
<1>3. k \div PACK_LEN + 1 \in Frames
  BY <1>1, <1>2, SMT DEF Frames
<1> QED BY <1>2, <1>3 DEF Byte, Bytes

LEMMA ByteOrder ==
  ASSUME NEW j \in Nat, NEW k \in Nat, j < k
  PROVE  Before(Byte(j), Byte(k))
<1>1. \/ j \div PACK_LEN < k \div PACK_LEN
      \/ j \div PACK_LEN = k \div PACK_LEN /\ j % PACK_LEN < k % PACK_LEN
  BY Lengths, DivModOrder
<1>2. j \div PACK_LEN \in Nat /\ k \div PACK_LEN \in Nat
  BY Lengths, DivMod
<1>3. j \div PACK_LEN < k \div PACK_LEN => j \div PACK_LEN + 1 < k \div PACK_LEN + 1
  BY <1>2, SMT
<1> QED BY <1>1, <1>3, ByteIs DEF Before

LEMMA ZeroFirst ==
  ASSUME NEW k \in Nat
  PROVE  Before(Zero, Byte(k))
<1>1. 0 < Byte(k).frame
  BY ByteIs, SMT
<1> QED BY <1>1, BytesTyped DEF Before

LEMMA BeforeTransitive ==
  ASSUME NEW a, NEW b, NEW c, a.frame \in Nat, b.frame \in Nat, c.frame \in Nat,
         a.pos \in Nat, b.pos \in Nat, c.pos \in Nat, Before(a, b), Before(b, c)
  PROVE  Before(a, c)
BY SMT DEF Before

-----------------------------------------------------------------------------
LEMMA OneMail ==
  ASSUME NEW x
  PROVE  /\ Tail(<<x>>) = << >> /\ Head(<<x>>) = x /\ Append(<< >>, x) = <<x>>
         /\ Len(<<x>>) = 1 /\ <<x>> # << >>
BY SMT

LEMMA SizeInit == Init => SizeInv
<1> SUFFICES ASSUME Init PROVE SizeInv
  OBVIOUS
<1> USE Lengths, BytesTyped
<1>1. TypeOK
  <2>1. next \in 0 .. MaxBytes
    BY SMT DEF Init
  <2>2. uart8_rx_buffer \in [0 .. dataSize - 1 -> Bytes] /\ uart_buff \in [0 .. PACK_LEN - 1 -> Bytes]
    BY DEF Init, Blank
  <2> QED BY <2>1, <2>2, SMT DEF Init, TypeOK, dataSize
<1>2. parses \in [Frames -> Nat]
  BY DEF Init
<1> QED BY <1>1, <1>2, SMT DEF Init, SizeInv

LEMMA SizeRxByte ==
  ASSUME SizeInv, RxByte
  PROVE  SizeInv'
<1> USE Lengths
<1>1. next \in Nat /\ next + 1 <= MaxBytes
  BY SMT DEF SizeInv, TypeOK, RxByte, Arrives
<1>2. Byte(next) \in Bytes
  BY <1>1, ByteTyped, SMT
<1>3. uart8_rx_buffer' \in [0 .. dataSize - 1 -> Bytes]
  BY <1>2 DEF SizeInv, TypeOK, RxByte
<1>4. next' \in 0 .. MaxBytes
  BY <1>1, SMT DEF RxByte
<1>5. /\ rxData' \in 0 .. dataSize - 1 /\ rxDataSize' \in 1 .. dataSize /\ windows' \in 0 .. 2
      /\ rxData' + rxDataSize' = dataSize \/ (rxData' = 0 /\ rxDataSize' = 1)
  <2>1. /\ rxData \in 0 .. dataSize - 1 /\ rxDataSize \in 1 .. dataSize /\ windows \in 0 .. 2
        /\ rxData + rxDataSize = dataSize \/ (rxData = 0 /\ rxDataSize = 1)
    BY DEF SizeInv, TypeOK
  <2>2. CASE rxDataSize > 1 /\ rxData' = rxData + 1 /\ rxDataSize' = rxDataSize - 1 /\ windows' = windows
    BY <2>1, <2>2, SMT DEF dataSize
  <2>3. CASE rxData' = 0 /\ rxDataSize' = dataSize /\ windows' = IF windows < 2 THEN windows + 1 ELSE windows
    BY <2>1, <2>3, SMT DEF dataSize
  <2> QED BY <2>2, <2>3 DEF RxByte, SizeRestored
<1>6. uart8_mb' \in {<< >>, <<"uart8_rx_buffer">>}
  BY DEF SizeInv, TypeOK, RxByte, rt_mb_send
<1>7. UNCHANGED <<clean, prompt, thr8, car_uart, data_mb, voided, thrD>>
  BY DEF RxByte
<1> QED BY <1>3, <1>4, <1>5, <1>6, <1>7 DEF SizeInv, TypeOK, thr8, thrD, dataSize

LEMMA SizeRxOverrun ==
  ASSUME SizeInv, RxOverrun
  PROVE  SizeInv'
<1> USE Lengths
<1>1. PICK lost \in 1 .. MaxLost :
        /\ next + RxFifo + lost <= MaxBytes
        /\ uart8_rx_buffer' = [k \in DOMAIN uart8_rx_buffer |->
             IF k < RxFifo THEN Byte(next + k) ELSE uart8_rx_buffer[k]]
        /\ rxData' = RxFifo /\ rxDataSize' = SizeRestored - RxFifo
        /\ next' = next + RxFifo + lost
  BY SMT DEF RxOverrun, Arrives, SizeInv, TypeOK
<1>2. next \in Nat /\ RxFifo \in Nat /\ lost \in Nat
  BY SMT DEF SizeInv, TypeOK
<1>3. uart8_rx_buffer \in [0 .. dataSize - 1 -> Bytes]
  BY DEF SizeInv, TypeOK
<1>4. ASSUME NEW k \in 0 .. dataSize - 1 PROVE uart8_rx_buffer'[k] \in Bytes
  <2>1. CASE k < RxFifo
    <3>1. next + k \in Nat /\ next + k < MaxBytes
      BY <1>1, <1>2, <2>1, SMT
    <3> QED BY <3>1, ByteTyped, <1>1, <1>3, <2>1
  <2>2. CASE ~(k < RxFifo)
    BY <1>1, <1>3, <2>2
  <2> QED BY <2>1, <2>2
<1>5. uart8_rx_buffer' \in [0 .. dataSize - 1 -> Bytes]
  BY <1>1, <1>3, <1>4
<1>6. next' \in 0 .. MaxBytes
  BY <1>1, <1>2, SMT
<1>7. /\ rxData' \in 0 .. dataSize - 1 /\ rxDataSize' \in 1 .. dataSize
      /\ rxData' + rxDataSize' = dataSize
  BY <1>1, SMT DEF dataSize, SizeRestored
<1>8. /\ UNCHANGED <<prompt, windows, uart8_mb, thr8, car_uart, data_mb, voided, thrD>>
      /\ clean' \in BOOLEAN
  BY DEF RxOverrun
<1> QED BY <1>5, <1>6, <1>7, <1>8 DEF SizeInv, TypeOK, thr8, thrD, dataSize

LEMMA SizeThread8 ==
  ASSUME SizeInv, Uart8Thread
  PROVE  SizeInv'
<1> USE Lengths
<1>1. CASE Uart8Recv
  <2>1. uart8_mb' \in {<< >>, <<"uart8_rx_buffer">>}
    BY <1>1, OneMail DEF SizeInv, TypeOK, Uart8Recv
  <2> QED BY <1>1, <2>1, SMT DEF SizeInv, TypeOK, Uart8Recv, isr, thrD
<1>2. CASE Uart8Header
  BY <1>2, SMT DEF SizeInv, TypeOK, Uart8Header, NextPlace, LastPlace, isr, thrD
<1>3. CASE Uart8Tail
  BY <1>3, SMT DEF SizeInv, TypeOK, Uart8Tail, NextPlace, LastPlace, isr, thrD
<1>4. CASE Uart8Copy
  <2>1. cnt \in 0 .. PACK_LEN - 1 /\ cnt + i \in 0 .. dataSize - 1 /\ cnt + 1 \in 0 .. PACK_LEN
    BY <1>4, SMT DEF SizeInv, TypeOK, Uart8Copy, dataSize
  <2>2. uart_buff' \in [0 .. PACK_LEN - 1 -> Bytes]
    BY <1>4, <2>1 DEF SizeInv, TypeOK, Uart8Copy
  <2>3. pc8' = "copy" => cnt' < PACK_LEN
    BY <1>4, <2>1, SMT DEF Uart8Copy
  <2> QED BY <1>4, <2>1, <2>2, <2>3 DEF SizeInv, TypeOK, Uart8Copy, isr, thrD
<1>5. CASE Uart8Notify
  <2>1. PICK mail \in {car_uart, "SP_OK"} :
          /\ data_mb' = DataMail(mail)
          /\ voided' = IF data_mb = << >> THEN mail = "SP_WAIT" ELSE voided
    BY <1>5 DEF Uart8Notify
  <2>2. mail \in {"SP_OK", "SP_WAIT"}
    BY <1>5, <2>1 DEF Uart8Notify, SizeInv, TypeOK
  <2>3. data_mb' \in {<< >>, <<"SP_OK">>, <<"SP_WAIT">>} /\ (data_mb' = <<"SP_WAIT">> => voided')
    <3>1. CASE data_mb = << >>
      <4>1. data_mb' = <<mail>> /\ (voided' <=> mail = "SP_WAIT")
        BY <2>1, <3>1, OneMail DEF DataMail, rt_mb_send
      <4>2. <<mail>> = <<"SP_WAIT">> => mail = "SP_WAIT"
        BY OneMail
      <4> QED BY <4>1, <4>2, <2>2
    <3>2. CASE data_mb # << >>
      BY <2>1, <3>2 DEF DataMail, rt_mb_send, SizeInv, TypeOK
    <3> QED BY <3>1, <3>2
  <2> QED BY <1>5, <2>3 DEF SizeInv, TypeOK, Uart8Notify, isr, thrD
<1> QED BY <1>1, <1>2, <1>3, <1>4, <1>5 DEF Uart8Thread

LEMMA SizeThreadD ==
  ASSUME SizeInv, DataThread
  PROVE  SizeInv'
<1> USE Lengths
<1>1. CASE DataRecv
  <2>1. data_mb' = << >>
    BY <1>1, OneMail DEF SizeInv, TypeOK, DataRecv
  <2>2. rd' \in 1 .. PACK_LEN - 1
    BY <1>1, SMT DEF DataRecv
  <2>3. data_mb' # <<"SP_WAIT">>
    BY <2>1, OneMail
  <2> QED BY <1>1, <2>1, <2>2, <2>3 DEF SizeInv, TypeOK, DataRecv, isr, thr8
<1>2. CASE DataRead
  <2>1. rd \in 0 .. PACK_LEN - 1 /\ rd + 1 \in 1 .. PACK_LEN - 1
    BY <1>2, SMT DEF SizeInv, TypeOK, DataRead
  <2>2. uart_buff[rd].frame \in Nat
    BY <2>1, BytesTyped DEF SizeInv, TypeOK
  <2> QED BY <1>2, <2>1, <2>2 DEF SizeInv, TypeOK, DataRead, isr, thr8
<1>3. CASE DataDone
  <2>1. parses' \in [Frames -> Nat]
    <3>1. \A f \in Frames : (IF got = {f} THEN parses[f] + 1 ELSE parses[f]) \in Nat
      BY SMT DEF SizeInv
    <3> QED BY <1>3, <3>1 DEF DataDone
  <2>2. pc8' # "notify"
    BY <1>3 DEF DataDone, DataMayRun, Uart8Blocked, thr8
  <2> QED BY <1>3, <2>1, <2>2 DEF SizeInv, TypeOK, DataDone, isr, thr8
<1> QED BY <1>1, <1>2, <1>3 DEF DataThread

LEMMA SizeStep ==
  ASSUME SizeInv, [Next]_vars
  PROVE  SizeInv'
<1>1. CASE icm_read_timer3
  BY <1>1 DEF SizeInv, TypeOK, icm_read_timer3, isr, thr8, thrD
<1>2. CASE UNCHANGED vars
  BY <1>2 DEF SizeInv, TypeOK, vars, isr, thr8, thrD
<1> QED BY <1>1, <1>2, SizeRxByte, SizeRxOverrun, SizeThread8, SizeThreadD DEF Next

-----------------------------------------------------------------------------
\* The order of the stream.
LEMMA Before3 ==
  ASSUME NEW a, NEW b, NEW c,
         a \in Bytes \/ (\E k \in Nat : a = Byte(k)), b \in Bytes \/ (\E k \in Nat : b = Byte(k)),
         c \in Bytes \/ (\E k \in Nat : c = Byte(k)), Before(a, b), Before(b, c)
  PROVE  Before(a, c)
<1>1. ASSUME NEW d, d \in Bytes \/ (\E k \in Nat : d = Byte(k))
      PROVE  d.frame \in Nat /\ d.pos \in Nat
  <2>1. CASE d \in Bytes
    BY <2>1, BytesTyped
  <2>2. ASSUME NEW k \in Nat, d = Byte(k) PROVE d.frame \in Nat /\ d.pos \in Nat
    BY <2>2, ByteIs, Lengths, SMT
  <2> QED BY <1>1, <2>1, <2>2
<1> QED BY <1>1, BeforeTransitive

LEMMA Typed ==
  ASSUME SizeInv
  PROVE  /\ next \in Nat
         /\ \A k \in Cells : uart8_rx_buffer[k] \in Bytes
         /\ \A m \in Places : uart_buff[m] \in Bytes
         /\ rxData \in Cells /\ rxDataSize \in 1 .. dataSize
         /\ uart8_mb # << >> => uart8_mb = <<"uart8_rx_buffer">>
BY Lengths, SMT DEF SizeInv, TypeOK, Cells, Places

LEMMA OrderInit == Init => OrderInv
<1> SUFFICES ASSUME Init PROVE OrderInv
  OBVIOUS
<1>1. Uart8Blocked
  BY DEF Init, Uart8Blocked
<1>2. /\ \A k \in Cells : uart8_rx_buffer[k] = Zero
      /\ \A m \in Places : uart_buff[m] = Zero
  BY DEF Init, Cells, Places, Blank
<1>3. rxData = 0 /\ \A k \in Cells : ~(k < rxData)
  BY SMT DEF Init, Cells
<1>4. next \in Nat /\ 1 \in Places
  BY Lengths, SMT DEF Init, Places
<1>5. Filling
  BY <1>2, <1>3 DEF Filling
<1>6. \A m \in Places \ {0} : uart_buff[1].frame <= uart_buff[m].frame
  BY <1>2, <1>4, BytesTyped, SMT
<1> QED BY <1>1, <1>2, <1>4, <1>5, <1>6, ZeroFirst DEF OrderInv

LEMMA OrderKept ==
  ASSUME OrderInv, UNCHANGED <<isr, uart8_mb, thr8>>
  PROVE  OrderInv'
BY Zenon DEF OrderInv, Filling, Scanning, Uart8Blocked, Copying, OneByte, Ordered, HeaderAt, Byte,
             isr, thr8

LEMMA OrderRxByte ==
  ASSUME SizeInv, OrderInv, RxByte
  PROVE  OrderInv'
<1> USE Lengths
<1> SUFFICES ASSUME prompt PROVE OrderInv'
  BY DEF RxByte, OrderInv
<1>1. Uart8Blocked /\ Filling /\ pc8 = "recv" /\ UNCHANGED <<pc8, i, cnt, uart_buff, prompt>>
  BY DEF RxByte, Arrives, OrderInv, Uart8Blocked, thr8
<1>2. /\ next \in Nat /\ next + 1 \in Nat /\ next' = next + 1
      /\ \A k \in Cells : uart8_rx_buffer[k] \in Bytes
      /\ \A m \in Places : uart_buff[m] \in Bytes
      /\ rxData \in Cells /\ rxDataSize \in 1 .. dataSize
  BY Typed, SMT DEF RxByte
<1>3. \A k \in Cells : uart8_rx_buffer'[k] = IF k = rxData THEN Byte(next) ELSE uart8_rx_buffer[k]
  BY <1>2 DEF RxByte, SizeInv, TypeOK, Cells
<1>4. Before(Byte(next), Byte(next + 1))
  BY <1>2, ByteOrder, SMT
<1>5. \A m \in Places : Before(uart_buff[m], Byte(next)) /\ Before(uart_buff[m], Byte(next + 1))
  <2> SUFFICES ASSUME NEW m \in Places
               PROVE  Before(uart_buff[m], Byte(next)) /\ Before(uart_buff[m], Byte(next + 1))
    OBVIOUS
  <2>1. Before(uart_buff[m], Byte(next))
    BY DEF OrderInv
  <2> QED BY <2>1, <1>2, <1>4, Before3
<1>6. \A k \in Cells : k < rxData => Before(uart8_rx_buffer[k], Byte(next))
  BY <1>1 DEF Filling
<1>7. \A k \in Cells : k < rxData \/ k = rxData =>
        /\ Before(uart8_rx_buffer'[k], Byte(next + 1))
        /\ \A m \in Places : Before(uart_buff[m], uart8_rx_buffer'[k])
  <2> SUFFICES ASSUME NEW k \in Cells, k < rxData \/ k = rxData
               PROVE  /\ Before(uart8_rx_buffer'[k], Byte(next + 1))
                      /\ \A m \in Places : Before(uart_buff[m], uart8_rx_buffer'[k])
    OBVIOUS
  <2>1. CASE k = rxData
    BY <2>1, <1>3, <1>4, <1>5
  <2>2. CASE k # rxData
    <3>1. uart8_rx_buffer'[k] = uart8_rx_buffer[k] /\ Before(uart8_rx_buffer[k], Byte(next))
      BY <2>2, <1>3, <1>6
    <3>2. Before(uart8_rx_buffer[k], Byte(next + 1))
      BY <3>1, <1>2, <1>4, Before3
    <3> QED BY <2>2, <3>1, <3>2, <1>1 DEF Filling
  <2> QED BY <2>1, <2>2
<1>8. \A k, l \in Cells : k < l /\ (l < rxData \/ l = rxData) =>
        Before(uart8_rx_buffer'[k], uart8_rx_buffer'[l])
  <2> SUFFICES ASSUME NEW k \in Cells, NEW l \in Cells, k < l, l < rxData \/ l = rxData
               PROVE  Before(uart8_rx_buffer'[k], uart8_rx_buffer'[l])
    OBVIOUS
  <2>1. k < rxData /\ k # rxData
    BY <1>2, SMT DEF Cells
  <2>2. CASE l = rxData
    BY <2>1, <2>2, <1>3, <1>6
  <2>3. CASE l # rxData
    BY <2>1, <2>3, <1>3, <1>1 DEF Filling
  <2> QED BY <2>2, <2>3
<1>9. /\ \A m \in Places : Before(uart_buff'[m], Byte(next)')
      /\ pc8' # "copy" => \A m \in Places \ {0} : uart_buff'[1].frame <= uart_buff'[m].frame
  BY <1>1, <1>2, <1>5 DEF OrderInv, Byte
<1>10. CASE rxDataSize > 1 /\ rxData' = rxData + 1 /\ rxDataSize' = rxDataSize - 1 /\ uart8_mb' = uart8_mb
  <2>1. Uart8Blocked'
    BY <1>1, <1>10 DEF Uart8Blocked
  <2>2. \A k \in Cells : k < rxData' <=> (k < rxData \/ k = rxData)
    BY <1>2, <1>10, SMT DEF Cells
  <2>3. rxData' + rxDataSize' = dataSize
    <3>1. rxData + rxDataSize = dataSize
      BY <1>10 DEF SizeInv
    <3> QED BY <3>1, <1>2, <1>10, SMT DEF Cells, dataSize
  <2>4. Byte(next)' = Byte(next + 1)
    BY <1>2 DEF Byte
  <2>5. Filling'
    BY <2>2, <2>3, <2>4, <1>1, <1>7, <1>8 DEF Filling, Cells, Places, dataSize
  <2> QED BY <2>1, <2>5, <1>9 DEF OrderInv, Cells, Places
<1>11. CASE rxDataSize = 1 /\ rxData' = 0 /\ rxDataSize' = dataSize /\ uart8_mb' # << >>
  <2>1. ~Uart8Blocked' /\ pc8' = "recv" /\ ~Copying'
    BY <1>1, <1>11 DEF Uart8Blocked, Copying
  <2>2. Byte(next)' = Byte(next + 1)
    BY <1>2 DEF Byte
  <2>3. CASE rxData + rxDataSize = dataSize
    <3>1. \A k \in Cells : k < rxData \/ k = rxData
      BY <2>3, <1>2, <1>11, SMT DEF Cells
    <3>2. Ordered' /\ \A m \in Places : \A k \in Cells : Before(uart_buff'[m], uart8_rx_buffer'[k])
      BY <3>1, <1>1, <1>7, <1>8 DEF Ordered, Cells, dataSize
    <3>3. \A k \in Cells : Before(uart8_rx_buffer'[k], Byte(next)')
      BY <3>1, <2>2, <1>7
    <3>4. Scanning'
      BY <2>1, <1>11, <3>2, <3>3 DEF Scanning, Cells, Places, dataSize
    <3> QED BY <3>4, <2>1, <1>9 DEF OrderInv, Places
  <2>4. CASE rxData + rxDataSize # dataSize
    <3>1. rxData = 0 /\ \A k \in Cells : uart8_rx_buffer[k] = Zero
      BY <2>4, <1>1 DEF SizeInv, Filling
    <3>2. OneByte'
      BY <3>1, <1>3 DEF OneByte, Cells, dataSize
    <3>3. \A k \in Cells : Before(uart8_rx_buffer'[k], Byte(next + 1))
      BY <3>1, <1>2, <1>3, <1>4, ZeroFirst
    <3>4. Scanning'
      BY <2>1, <2>2, <1>11, <3>2, <3>3 DEF Scanning, Cells, dataSize
    <3> QED BY <3>4, <2>1, <1>9 DEF OrderInv, Places
  <2> QED BY <2>3, <2>4
<1>12. \/ rxDataSize > 1 /\ rxData' = rxData + 1 /\ rxDataSize' = rxDataSize - 1 /\ uart8_mb' = uart8_mb
       \/ rxDataSize = 1 /\ rxData' = 0 /\ rxDataSize' = dataSize /\ uart8_mb' # << >>
  BY OneMail DEF RxByte, SizeRestored, rt_mb_send
<1> QED BY <1>10, <1>11, <1>12

LEMMA OrderRxOverrun ==
  ASSUME SizeInv, OrderInv, RxOverrun
  PROVE  OrderInv'
<1> USE Lengths
<1> SUFFICES ASSUME prompt PROVE OrderInv'
  BY DEF RxOverrun, OrderInv
<1>1. PICK lost \in 1 .. MaxLost :
        /\ Arrives(RxFifo + lost)
        /\ uart8_rx_buffer' = [k \in DOMAIN uart8_rx_buffer |->
             IF k < RxFifo THEN Byte(next + k) ELSE uart8_rx_buffer[k]]
        /\ rxData' = RxFifo /\ rxDataSize' = SizeRestored - RxFifo
        /\ next' = next + RxFifo + lost
        /\ UNCHANGED <<prompt, windows, uart8_mb, thr8, car_uart, data_mb, voided, thrD>>
  BY DEF RxOverrun
<1>2. Uart8Blocked /\ Uart8Blocked' /\ UNCHANGED <<pc8, i, cnt, uart_buff, prompt>>
  BY <1>1 DEF Arrives, Uart8Blocked, thr8
<1>3. next \in Nat /\ next' \in Nat /\ RxFifo \in Nat /\ next < next' /\ rxData' + rxDataSize' = dataSize
  BY <1>1, Typed, SMT DEF SizeRestored, dataSize
<1>4. \A k \in Cells : k < RxFifo => uart8_rx_buffer'[k] = Byte(next + k)
  BY <1>1, SMT DEF SizeInv, TypeOK, Cells
<1>5. \A m \in Places : uart_buff[m] \in Bytes /\ Before(uart_buff[m], Byte(next))
  BY Typed DEF OrderInv
<1>6. \A m \in Places, k \in Nat : next <= k => Before(uart_buff[m], Byte(k))
  <2> SUFFICES ASSUME NEW m \in Places, NEW k \in Nat, next <= k PROVE Before(uart_buff[m], Byte(k))
    OBVIOUS
  <2>1. CASE k = next
    BY <2>1, <1>5
  <2>2. CASE k # next
    <3>1. Before(Byte(next), Byte(k))
      BY <2>2, <1>3, ByteOrder, SMT
    <3> QED BY <3>1, <1>3, <1>5, Before3
  <2> QED BY <2>1, <2>2
<1>7. \A k \in Cells : k < RxFifo => k \in Nat /\ next + k \in Nat /\ next <= next + k /\ next + k < next'
  BY <1>1, <1>3, SMT DEF Cells
<1>8. \A k, l \in Cells : k < l /\ l < RxFifo => k < RxFifo /\ next + k < next + l
  BY <1>3, SMT DEF Cells
<1>9. Filling'
  <2>1. \A k, l \in Cells : k < l /\ l < RxFifo => Before(uart8_rx_buffer'[k], uart8_rx_buffer'[l])
    BY <1>4, <1>7, <1>8, ByteOrder
  <2>2. \A k \in Cells : k < RxFifo =>
          /\ Before(uart8_rx_buffer'[k], Byte(next'))
          /\ \A m \in Places : Before(uart_buff[m], uart8_rx_buffer'[k])
    BY <1>3, <1>4, <1>6, <1>7, ByteOrder
  <2>3. Byte(next)' = Byte(next')
    BY DEF Byte
  <2> QED BY <2>1, <2>2, <2>3, <1>1, <1>2, <1>3 DEF Filling, Cells, Places, dataSize
<1>10. /\ \A m \in Places : Before(uart_buff'[m], Byte(next)')
       /\ pc8' # "copy" => \A m \in Places \ {0} : uart_buff'[1].frame <= uart_buff'[m].frame
  <2>1. Byte(next)' = Byte(next') /\ next <= next'
    BY <1>3, SMT DEF Byte
  <2> QED BY <2>1, <1>2, <1>3, <1>6 DEF OrderInv
<1> QED BY <1>2, <1>9, <1>10 DEF OrderInv, Places


LEMMA OrderRecv ==
  ASSUME SizeInv, OrderInv, Uart8Recv
  PROVE  OrderInv'
<1> SUFFICES ASSUME prompt PROVE OrderInv'
  BY DEF Uart8Recv, OrderInv, isr
<1>1. Scanning /\ pc8 = "recv" /\ pc8' = "header" /\ uart8_mb' = << >>
  BY Typed, OneMail DEF Uart8Recv, OrderInv, Uart8Blocked
<1>2. UNCHANGED <<isr, uart_buff>>
  BY DEF Uart8Recv
<1>3. ~Uart8Blocked' /\ ~Copying /\ ~Copying'
  BY <1>1 DEF Uart8Blocked, Copying
<1>4. Scanning'
  BY <1>1, <1>2, <1>3 DEF Scanning, Copying, OneByte, Ordered, Byte, isr
<1> QED BY <1>1, <1>2, <1>3, <1>4 DEF OrderInv, Byte, isr

\* The first byte of a frame before a place 0 belongs to an earlier frame.
LEMMA HeaderSeparates ==
  ASSUME NEW a \in Bytes, NEW b \in Bytes, Before(a, b), b.pos = 0
  PROVE  a.frame < b.frame
BY BytesTyped, SMT DEF Before

LEMMA OrderScan ==
  ASSUME SizeInv, OrderInv, Uart8Header \/ Uart8Tail
  PROVE  OrderInv'
<1> USE Lengths
<1> SUFFICES ASSUME prompt PROVE OrderInv'
  BY DEF Uart8Header, Uart8Tail, OrderInv, isr
<1>1. Scanning /\ pc8 \in {"header", "tail"} /\ uart8_mb = << >> /\ ~Copying
  BY DEF Uart8Header, Uart8Tail, OrderInv, Uart8Blocked, Scanning, Copying
<1>2. UNCHANGED <<isr, uart8_mb, uart_buff>>
  BY DEF Uart8Header, Uart8Tail
<1>3. /\ \A m \in Places : Before(uart_buff'[m], Byte(next)')
      /\ \A m \in Places \ {0} : uart_buff'[1].frame <= uart_buff'[m].frame
  BY <1>1, <1>2 DEF OrderInv, Byte, isr, Copying
<1>4. CASE NextPlace
  <2>1. CASE pc8' = "header"
    <3>1. ~Uart8Blocked' /\ ~Copying'
      BY <2>1 DEF Uart8Blocked, Copying
    <3>2. Scanning'
      BY <1>1, <1>2, <2>1, <3>1 DEF Scanning, Copying, OneByte, Ordered, Byte, isr
    <3> QED BY <3>1, <3>2, <1>3 DEF OrderInv
  <2>2. CASE pc8' = "recv"
    <3>1. Uart8Blocked' /\ rxData' = 0 /\ rxDataSize' = dataSize
      BY <1>1, <1>2, <2>2 DEF Uart8Blocked, Scanning, isr
    <3>2. Filling'
      <4>1. \A k \in Cells : ~(k < rxData')
        BY <3>1, SMT DEF Cells
      <4>2. rxData' + rxDataSize' = dataSize
        BY <3>1, SMT DEF dataSize
      <4> QED BY <4>1, <4>2 DEF Filling, Cells, dataSize
    <3> QED BY <3>1, <3>2, <1>3 DEF OrderInv
  <2> QED BY <2>1, <2>2, <1>4 DEF NextPlace
<1>5. CASE Uart8Header /\ HeaderAt(i) /\ pc8' = "tail" /\ i' = i
  <2>1. ~Uart8Blocked' /\ ~Copying' /\ HeaderAt(i)'
    BY <1>2, <1>5 DEF Uart8Blocked, Copying, HeaderAt, isr
  <2>2. Scanning'
    BY <1>1, <1>2, <1>5, <2>1 DEF Scanning, Copying, OneByte, Ordered, Byte, isr
  <2> QED BY <2>1, <2>2, <1>3 DEF OrderInv
<1>6. CASE Uart8Tail /\ TailAt(i) /\ pc8' = "copy" /\ cnt' = 0 /\ i' = i
  <2>1. i \in 0 .. PACK_LEN /\ pc8 = "tail"
    BY <1>6 DEF SizeInv, TypeOK, Uart8Tail
  <2>2. ~OneByte
    <3>1. i + PACK_LEN - 1 \in Cells \ {0}
      BY <2>1, SMT DEF Cells, dataSize
    <3>2. uart8_rx_buffer[i + PACK_LEN - 1] # Zero
      <4>1. PACK_LEN - 1 # PACK_LEN
        BY SMT
      <4> QED BY <4>1, <1>6, BytesTyped DEF TailAt
    <3> QED BY <3>1, <3>2 DEF OneByte
  <2>3. ~Uart8Blocked' /\ HeaderAt(i)'
    BY <1>1, <1>2, <1>6, <2>1 DEF Uart8Blocked, Scanning, HeaderAt, isr
  <2>4. Ordered' /\ \A m \in Places : \A k \in Cells : Before(uart_buff'[m], uart8_rx_buffer'[k])
    BY <1>1, <1>2, <2>2 DEF Scanning, Ordered, Copying, isr
  <2>5. \A m \in Places : ~(m < cnt')
    BY <1>6, SMT DEF Places
  <2>6. Scanning'
    BY <1>1, <1>2, <1>6, <2>3, <2>4, <2>5 DEF Scanning, Byte, isr
  <2> QED BY <2>3, <2>6, <1>3 DEF OrderInv
<1> QED BY <1>4, <1>5, <1>6 DEF Uart8Header, Uart8Tail

LEMMA OrderCopy ==
  ASSUME SizeInv, OrderInv, Uart8Copy
  PROVE  OrderInv'
<1> USE Lengths
<1> SUFFICES ASSUME prompt PROVE OrderInv'
  BY DEF Uart8Copy, OrderInv, isr
<1>1. /\ Scanning /\ pc8 = "copy" /\ Copying /\ uart8_mb = << >> /\ Ordered
      /\ cnt \in Places /\ i \in 0 .. PACK_LEN /\ next \in Nat
  <2>1. Scanning /\ pc8 = "copy" /\ Copying
    BY DEF Uart8Copy, OrderInv, Uart8Blocked, Copying
  <2>2. cnt \in 0 .. PACK_LEN /\ cnt < PACK_LEN /\ i \in 0 .. PACK_LEN + 1 /\ i <= PACK_LEN
    BY <2>1 DEF SizeInv, TypeOK
  <2> QED BY <2>1, <2>2, Typed, SMT DEF Scanning, Places
<1>2. /\ UNCHANGED <<isr, uart8_mb, i>> /\ cnt' = cnt + 1
      /\ pc8' = IF cnt' = PACK_LEN THEN "notify" ELSE "copy"
  BY <1>1 DEF Uart8Copy
<1>3. \A m \in Places : uart_buff'[m] = IF m = cnt THEN uart8_rx_buffer[i + m] ELSE uart_buff[m]
  <2>1. cnt + i = i + cnt
    BY <1>1, SMT DEF Places
  <2> QED BY <1>1, <2>1 DEF Uart8Copy, SizeInv, TypeOK, Places
<1>4. \A m \in Places : i + m \in Cells
  BY <1>1, SMT DEF Places, Cells, dataSize
<1>5. \A m \in Places : m < cnt' <=> (m < cnt \/ m = cnt)
  BY <1>1, <1>2, SMT DEF Places
<1>6. \A m \in Places : m < cnt' => uart_buff'[m] = uart8_rx_buffer[i + m]
  BY <1>1, <1>3, <1>5 DEF Scanning
<1>7. \A m \in Places : ~(m < cnt') => \A k \in Cells : Before(uart_buff'[m], uart8_rx_buffer[k])
  BY <1>1, <1>3, <1>5 DEF Scanning
<1>8. \A m \in Places : Before(uart_buff'[m], Byte(next))
  BY <1>1, <1>3, <1>4 DEF Scanning, OrderInv
<1>9. ~Uart8Blocked' /\ Byte(next)' = Byte(next) /\ HeaderAt(i)'
  BY <1>1, <1>2 DEF Uart8Blocked, Byte, HeaderAt, Scanning, isr
<1>10. Scanning'
  <2>1. Copying' /\ Ordered'
    BY <1>1, <1>2 DEF Copying, Ordered, isr
  <2> QED BY <1>1, <1>2, <1>6, <1>7, <1>9, <2>1 DEF Scanning, isr, Copying
<1>11. CASE pc8' = "copy"
  BY <1>8, <1>9, <1>10, <1>11, <1>2 DEF OrderInv, isr
<1>12. CASE pc8' = "notify"
  <2>1. \A m \in Places : m < cnt'
    BY <1>2, <1>12, SMT DEF Places
  <2>2. \A m \in Places \ {0} : uart_buff'[1].frame <= uart_buff'[m].frame
    <3> SUFFICES ASSUME NEW m \in Places \ {0} PROVE uart_buff'[1].frame <= uart_buff'[m].frame
      OBVIOUS
    <3>1. 1 \in Places /\ uart_buff'[1] = uart8_rx_buffer[i + 1] /\ uart_buff'[m] = uart8_rx_buffer[i + m]
      BY <1>6, <2>1, SMT DEF Places
    <3>2. i + 1 \in Cells /\ i + m \in Cells
      BY <1>4, <3>1
    <3>3. uart8_rx_buffer[i + 1] \in Bytes /\ uart8_rx_buffer[i + m] \in Bytes
      BY <3>2, Typed
    <3>4. CASE m = 1
      BY <3>1, <3>3, <3>4, BytesTyped, SMT
    <3>5. CASE m # 1
      <4>1. i + 1 < i + m
        BY <1>1, <3>5, SMT DEF Places
      <4>2. Before(uart8_rx_buffer[i + 1], uart8_rx_buffer[i + m])
        BY <1>1, <3>2, <4>1 DEF Ordered
      <4> QED BY <3>1, <3>3, <4>2, BytesTyped, SMT DEF Before
    <3> QED BY <3>4, <3>5
  <2> QED BY <1>8, <1>9, <1>10, <1>12, <2>2, <1>2 DEF OrderInv, isr
<1> QED BY <1>2, <1>11, <1>12

LEMMA OrderNotify ==
  ASSUME SizeInv, OrderInv, Uart8Notify
  PROVE  OrderInv'
<1> SUFFICES ASSUME prompt PROVE OrderInv'
  BY DEF Uart8Notify, OrderInv, isr
<1>1. Scanning /\ pc8 = "notify" /\ uart8_mb = << >>
  BY DEF Uart8Notify, OrderInv, Uart8Blocked, Scanning
<1>2. UNCHANGED <<isr, uart8_mb, uart_buff>> /\ pc8' = "recv"
  BY DEF Uart8Notify
<1>3. Uart8Blocked' /\ rxData' = 0 /\ rxDataSize' = dataSize
  BY <1>1, <1>2 DEF Uart8Blocked, Scanning, isr
<1>4. Filling'
  <2>1. \A k \in Cells : ~(k < rxData')
    BY <1>3, SMT DEF Cells
  <2>2. rxData' + rxDataSize' = dataSize
    BY <1>3, Lengths, SMT DEF dataSize
  <2> QED BY <2>1, <2>2 DEF Filling, Cells, dataSize
<1> QED BY <1>1, <1>2, <1>3, <1>4 DEF OrderInv, Byte, isr

LEMMA OrderStep ==
  ASSUME SizeInv, OrderInv, [Next]_vars
  PROVE  OrderInv'
<1>1. CASE icm_read_timer3 \/ DataThread \/ UNCHANGED vars
  <2>1. UNCHANGED <<isr, uart8_mb, thr8>>
    BY <1>1 DEF icm_read_timer3, DataThread, DataRecv, DataRead, DataDone, vars, isr, thr8
  <2> QED BY <2>1, OrderKept
<1> QED BY <1>1, OrderRxByte, OrderRxOverrun, OrderRecv, OrderScan, OrderCopy, OrderNotify
    DEF Next, Uart8Thread

-----------------------------------------------------------------------------
\* Where no byte was lost.
LEMMA CleanInit == Init => CleanInv
<1> SUFFICES ASSUME Init PROVE CleanInv
  OBVIOUS
<1>1. windows = 0 /\ windows # 1 /\ windows # 2 /\ ~(windows > 0)
  BY SMT DEF Init
<1> QED BY <1>1 DEF Init, CleanInv, Uart8Blocked

LEMMA CleanKept ==
  ASSUME CleanInv, UNCHANGED <<isr, uart8_mb, thr8>>
  PROVE  CleanInv'
BY Zenon DEF CleanInv, Uart8Blocked, Copying, HeaderAt, isr, thr8

LEMMA CleanRxByte ==
  ASSUME SizeInv, OrderInv, CleanInv, RxByte
  PROVE  CleanInv'
<1> USE Lengths
<1> SUFFICES ASSUME clean, prompt PROVE CleanInv'
  BY DEF RxByte, CleanInv
<1>1. Uart8Blocked /\ Filling /\ pc8 = "recv" /\ UNCHANGED <<pc8, i, cnt, uart_buff, clean, prompt>>
  BY DEF RxByte, Arrives, OrderInv, Uart8Blocked, thr8
<1>2. /\ next \in Nat /\ next' = next + 1
      /\ rxData \in Cells /\ rxDataSize \in 1 .. dataSize /\ windows \in 0 .. 2
  BY Typed, SMT DEF RxByte, SizeInv
<1>3. \A k \in Cells : uart8_rx_buffer'[k] = IF k = rxData THEN Byte(next) ELSE uart8_rx_buffer[k]
  BY <1>2 DEF RxByte, SizeInv, TypeOK, Cells
<1>4. uart_buff' \in {Blank} \union {Frame(f) : f \in Frames} /\ ~Copying' /\ pc8' = "recv"
  BY <1>1 DEF CleanInv, Copying
<1>5. CASE windows = 0
  <2>1. rxData = 0 /\ rxDataSize = 1
    BY <1>5 DEF CleanInv
  <2>2. rxData + rxDataSize # dataSize
    BY <2>1, SMT DEF dataSize
  <2>3. \A k \in Cells : uart8_rx_buffer[k] = Zero
    BY <1>1, <2>2 DEF Filling
  <2>4. rxData' = 0 /\ rxDataSize' = dataSize /\ windows' = 1
    BY <1>5, <2>1, SMT DEF RxByte, SizeRestored
  <2>5. \A k \in Cells \ {0} : uart8_rx_buffer'[k] = Zero
    BY <1>3, <2>1, <2>3
  <2>6. /\ windows' # 0 /\ windows' # 2 /\ rxData' + rxDataSize' = dataSize /\ rxData' <= next'
        /\ \A k \in Cells : ~(k < rxData')
    BY <1>2, <2>4, SMT DEF Cells, dataSize
  <2> QED BY <2>5, <2>6, <1>4 DEF CleanInv, Cells, dataSize
<1>6. CASE windows # 0
  <2>1. /\ rxData + rxDataSize = dataSize /\ rxData <= next
        /\ \A k \in Cells : k < rxData => uart8_rx_buffer[k] = Byte(next - rxData + k)
    <3>1. windows > 0
      BY <1>2, <1>6, SMT
    <3> QED BY <3>1 DEF CleanInv
  <2>2. \A k \in Cells : k < rxData \/ k = rxData => uart8_rx_buffer'[k] = Byte(next' - (rxData + 1) + k)
    <3> SUFFICES ASSUME NEW k \in Cells, k < rxData \/ k = rxData
                 PROVE  uart8_rx_buffer'[k] = Byte(next' - (rxData + 1) + k)
      OBVIOUS
    <3>1. CASE k = rxData
      <4>1. next' - (rxData + 1) + k = next
        BY <3>1, <1>2, SMT DEF Cells
      <4> QED BY <3>1, <4>1, <1>3
    <3>2. CASE k # rxData
      <4>1. next' - (rxData + 1) + k = next - rxData + k
        BY <1>2, SMT DEF Cells
      <4> QED BY <3>2, <4>1, <1>3, <2>1
    <3> QED BY <3>1, <3>2
  <2>3. CASE rxDataSize > 1 /\ rxData' = rxData + 1 /\ rxDataSize' = rxDataSize - 1
             /\ UNCHANGED <<uart8_mb, windows>>
    <3>1. /\ rxData' + rxDataSize' = dataSize /\ rxData' <= next'
          /\ \A k \in Cells : k < rxData' <=> (k < rxData \/ k = rxData)
          /\ \A k \in Cells : k >= rxData' => k >= rxData /\ k # rxData
      BY <1>2, <2>1, <2>3, SMT DEF Cells, dataSize
    <3>2. \A k \in Cells : k < rxData' => uart8_rx_buffer'[k] = Byte(next' - rxData' + k)
      BY <3>1, <2>2, <2>3
    <3>3. windows' = 1 => \A k \in Cells \ {0} : k >= rxData' => uart8_rx_buffer'[k] = Zero
      BY <3>1, <1>3, <2>3 DEF CleanInv
    <3>4. Uart8Blocked' /\ windows' # 0
      BY <1>1, <1>6, <2>3 DEF Uart8Blocked
    <3>5. \A k : Byte(k)' = Byte(k)
      BY DEF Byte
    <3> QED BY <3>1, <3>2, <3>3, <3>4, <3>5, <1>4 DEF CleanInv, Cells, dataSize, Byte
  <2>4. CASE rxDataSize = 1 /\ rxData' = 0 /\ rxDataSize' = dataSize /\ windows' = 2
    <3>1. /\ rxData' + rxDataSize' = dataSize /\ rxData' <= next' /\ dataSize <= next'
          /\ rxData + 1 = dataSize
          /\ \A k \in Cells : k < rxData \/ k = rxData
          /\ \A k \in Cells : ~(k < rxData')
      BY <1>2, <2>1, <2>4, SMT DEF Cells, dataSize
    <3>2. \A k \in Cells : uart8_rx_buffer'[k] = Byte(next' - dataSize + k)
      BY <3>1, <2>2
    <3>3. windows' # 0 /\ windows' # 1
      BY <2>4, SMT
    <3> QED BY <3>1, <3>2, <3>3, <1>4 DEF CleanInv, Cells, dataSize, Byte
  <2>5. (IF windows < 2 THEN windows + 1 ELSE windows) = 2
    BY <1>2, <1>6, SMT
  <2> QED BY <2>3, <2>4, <2>5 DEF RxByte, SizeRestored
<1> QED BY <1>5, <1>6

LEMMA CleanRecv ==
  ASSUME SizeInv, CleanInv, Uart8Recv
  PROVE  CleanInv'
<1> SUFFICES ASSUME clean, prompt PROVE CleanInv'
  BY DEF Uart8Recv, CleanInv, isr
<1>1. /\ pc8 = "recv" /\ pc8' = "header" /\ i' = 0 /\ UNCHANGED <<isr, uart_buff>>
      /\ ~Uart8Blocked /\ ~Uart8Blocked' /\ ~Copying'
  BY DEF Uart8Recv, Uart8Blocked, Copying
<1>2. \A k \in Cells : ~(k < i')
  BY <1>1, SMT DEF Cells
<1> QED BY <1>1, <1>2 DEF CleanInv, Byte, isr, Cells, dataSize

\* In a window of the stream a header is followed by its tail, and there is one.
LEMMA TailFollows ==
  ASSUME SizeInv, CleanInv, clean, prompt, windows = 2, ~Uart8Blocked,
         NEW k \in 0 .. PACK_LEN, HeaderAt(k)
  PROVE  \A m \in Places : uart8_rx_buffer[k + m] = [frame |-> Byte(next - dataSize + k).frame, pos |-> m]
<1> USE Lengths
<1> SUFFICES ASSUME NEW m \in Places
             PROVE  uart8_rx_buffer[k + m] = [frame |-> Byte(next - dataSize + k).frame, pos |-> m]
  OBVIOUS
<1> DEFINE b == next - dataSize + k
<1>1. dataSize <= next /\ \A l \in Cells : uart8_rx_buffer[l] = Byte(next - dataSize + l)
  BY DEF CleanInv
<1>2. k \in Cells /\ k + m \in Cells /\ b \in Nat /\ next - dataSize + (k + m) = b + m
      /\ m \in 0 .. PACK_LEN - 1
  BY <1>1, Typed, SMT DEF Cells, Places, dataSize
<1>3. Byte(b).pos = 0
  BY <1>1, <1>2 DEF HeaderAt
<1> HIDE DEF b
<1>4. b % PACK_LEN = 0
  BY <1>2, <1>3, ByteIs
<1>5. (b + m) % PACK_LEN = m /\ (b + m) \div PACK_LEN = b \div PACK_LEN
  BY <1>2, <1>4, DivModShift
<1>6. Byte(b + m) = [frame |-> Byte(b).frame, pos |-> m]
  BY <1>5 DEF Byte
<1>7. uart8_rx_buffer[k + m] = Byte(b + m)
  BY <1>1, <1>2
<1> QED BY <1>6, <1>7 DEF b

LEMMA HeaderExists ==
  ASSUME SizeInv, CleanInv, clean, prompt, windows = 2, ~Uart8Blocked
  PROVE  \E k \in Places : HeaderAt(k)
<1> USE Lengths
<1>1. dataSize <= next /\ \A l \in Cells : uart8_rx_buffer[l] = Byte(next - dataSize + l)
  BY DEF CleanInv
<1> DEFINE b == next - dataSize
<1>2. b \in Nat
  BY <1>1, Typed, SMT DEF dataSize
<1> HIDE DEF b
<1>3. PICK k \in 0 .. PACK_LEN - 1 : (b + k) % PACK_LEN = 0
  BY <1>2, NextMultiple
<1>4. k \in Places /\ k \in Cells /\ b + k \in Nat
  BY <1>2, SMT DEF Places, Cells, dataSize
<1>5. Byte(b + k).pos = 0
  BY <1>3, <1>4, ByteIs
<1> QED BY <1>1, <1>4, <1>5 DEF HeaderAt, b

LEMMA CleanScan ==
  ASSUME SizeInv, OrderInv, CleanInv, Uart8Header \/ Uart8Tail
  PROVE  CleanInv'
<1> USE Lengths
<1> SUFFICES ASSUME clean, prompt PROVE CleanInv'
  BY DEF Uart8Header, Uart8Tail, CleanInv, isr
<1>1. Scanning /\ pc8 \in {"header", "tail"} /\ uart8_mb = << >> /\ ~Copying /\ ~Uart8Blocked
  BY DEF Uart8Header, Uart8Tail, OrderInv, Uart8Blocked, Scanning, Copying
<1>2. UNCHANGED <<isr, uart8_mb, uart_buff>> /\ uart_buff \in {Blank} \union {Frame(f) : f \in Frames}
      /\ i \in 0 .. PACK_LEN
  <2>1. UNCHANGED <<isr, uart8_mb, uart_buff>>
    BY DEF Uart8Header, Uart8Tail
  <2>2. i \in 0 .. PACK_LEN + 1 /\ i <= PACK_LEN
    BY <1>1 DEF SizeInv, TypeOK
  <2>3. uart_buff \in {Blank} \union {Frame(f) : f \in Frames}
    BY <1>1 DEF CleanInv
  <2> QED BY <2>1, <2>2, <2>3, SMT
<1>3. windows = 2 /\ HeaderAt(i) => TailAt(i)
  <2> SUFFICES ASSUME windows = 2, HeaderAt(i) PROVE TailAt(i)
    OBVIOUS
  <2>1. PACK_LEN - 1 \in Places
    BY SMT DEF Places
  <2>2. uart8_rx_buffer[i + (PACK_LEN - 1)].pos = PACK_LEN - 1
    <3>1. uart8_rx_buffer[i + (PACK_LEN - 1)]
            = [frame |-> Byte(next - dataSize + i).frame, pos |-> PACK_LEN - 1]
      BY <2>1, <1>1, <1>2, TailFollows
    <3> QED BY <3>1
  <2>3. i + (PACK_LEN - 1) = i + PACK_LEN - 1
    BY <1>2, SMT
  <2> QED BY <2>2, <2>3 DEF TailAt
<1>4. CASE NextPlace /\ (windows = 2 => ~HeaderAt(i))
  <2>1. CASE pc8' = "header" /\ i' = i + 1
    <3>1. \A k \in Cells : k < i' <=> (k < i \/ k = i)
      BY <1>2, <2>1, SMT DEF Cells
    <3>2. windows' = 2 => \A k \in Cells : k < i' => ~HeaderAt(k)'
      BY <3>1, <1>1, <1>2, <1>4 DEF CleanInv, HeaderAt, isr
    <3>3. ~Copying' /\ ~Uart8Blocked'
      BY <2>1 DEF Copying, Uart8Blocked
    <3> QED BY <3>2, <3>3, <1>1, <1>2 DEF CleanInv, Byte, isr, Cells, dataSize
  <2>2. CASE pc8' = "recv"
    <3>1. Uart8Blocked' /\ ~Copying'
      BY <1>1, <1>2, <2>2 DEF Uart8Blocked, Copying
    <3> QED BY <3>1, <2>2, <1>1, <1>2 DEF CleanInv, Byte, isr, Cells, dataSize
  <2> QED BY <2>1, <2>2, <1>4 DEF NextPlace
<1>5. CASE pc8' = "tail" /\ i' = i
  <2>1. ~Copying' /\ ~Uart8Blocked'
    BY <1>5 DEF Copying, Uart8Blocked
  <2> QED BY <2>1, <1>1, <1>2, <1>5 DEF CleanInv, HeaderAt, Byte, isr, Cells, dataSize
<1>6. CASE TailAt(i) /\ pc8' = "copy" /\ i' = i
  <2>1. ~Uart8Blocked'
    BY <1>6 DEF Uart8Blocked
  <2>2. windows # 1
    <3> SUFFICES ASSUME windows = 1 PROVE FALSE
      OBVIOUS
    <3>1. i + PACK_LEN - 1 \in Cells \ {0} /\ rxData = 0 /\ i + PACK_LEN - 1 >= 0
      BY <1>1, <1>2, SMT DEF Cells, dataSize, Scanning
    <3>2. uart8_rx_buffer[i + PACK_LEN - 1] = Zero
      BY <3>1 DEF CleanInv
    <3>3. PACK_LEN - 1 # PACK_LEN
      BY SMT
    <3> QED BY <3>2, <3>3, <1>6, BytesTyped DEF TailAt
  <2> QED BY <2>1, <2>2, <1>1, <1>2, <1>6 DEF CleanInv, Byte, isr, Cells, dataSize
<1>7. \/ NextPlace /\ (~HeaderAt(i) \/ (pc8 = "tail" /\ ~TailAt(i)))
      \/ pc8' = "tail" /\ i' = i
      \/ TailAt(i) /\ pc8' = "copy" /\ i' = i
  BY DEF Uart8Header, Uart8Tail
<1>8. ~TailAt(i) => (windows = 2 => ~HeaderAt(i))
  BY <1>3
<1> QED BY <1>4, <1>5, <1>6, <1>7, <1>8

LEMMA FrameIs ==
  ASSUME NEW k \in Nat, k < MaxBytes
  PROVE  Byte(k).frame \in Frames
<1>1. k \div PACK_LEN <= MaxBytes \div PACK_LEN /\ MaxBytes \div PACK_LEN \in Nat /\ k \div PACK_LEN \in Nat
  BY Lengths, DivMod, DivOrder, SMT
<1> QED BY <1>1, ByteIs, SMT DEF Frames

LEMMA CleanCopy ==
  ASSUME SizeInv, OrderInv, CleanInv, Uart8Copy
  PROVE  CleanInv'
<1> USE Lengths
<1> SUFFICES ASSUME clean, prompt PROVE CleanInv'
  BY DEF Uart8Copy, CleanInv, isr
<1>1. /\ Scanning /\ pc8 = "copy" /\ ~Uart8Blocked /\ HeaderAt(i) /\ windows = 2
      /\ cnt \in Places /\ i \in 0 .. PACK_LEN /\ next \in 0 .. MaxBytes /\ dataSize <= next
  <2>1. Scanning /\ pc8 = "copy" /\ Copying /\ ~Uart8Blocked
    BY DEF Uart8Copy, OrderInv, Uart8Blocked, Copying
  <2>2. cnt \in 0 .. PACK_LEN /\ cnt < PACK_LEN /\ i \in 0 .. PACK_LEN + 1 /\ i <= PACK_LEN
        /\ windows \in 0 .. 2 /\ next \in 0 .. MaxBytes
    BY <2>1 DEF SizeInv, TypeOK
  <2>3. windows # 0 /\ windows # 1
    BY <2>1 DEF CleanInv
  <2>4. windows = 2
    BY <2>2, <2>3, SMT
  <2>5. dataSize <= next /\ HeaderAt(i)
    BY <2>1, <2>4 DEF CleanInv, Scanning
  <2> QED BY <2>1, <2>2, <2>4, <2>5, SMT DEF Places
<1>2. /\ UNCHANGED <<isr, uart8_mb, i>> /\ cnt' = cnt + 1
      /\ pc8' = IF cnt' = PACK_LEN THEN "notify" ELSE "copy"
  BY <1>1 DEF Uart8Copy
<1>3. ~Uart8Blocked' /\ pc8' \notin {"header", "tail"}
  BY <1>2 DEF Uart8Blocked
<1>4. ASSUME pc8' = "notify" PROVE uart_buff' \in {Blank} \union {Frame(f) : f \in Frames}
  <2> DEFINE f == Byte(next - dataSize + i).frame
  <2>1. next - dataSize + i \in Nat /\ next - dataSize + i < MaxBytes
    BY <1>1, SMT DEF dataSize
  <2>2. f \in Frames
    BY <2>1, FrameIs
  <2>3. \A m \in Places : uart8_rx_buffer[i + m] = [frame |-> f, pos |-> m]
    BY <1>1, TailFollows
  <2> HIDE DEF f
  <2>4. uart_buff' = [uart_buff EXCEPT ![cnt] = uart8_rx_buffer[i + cnt]]
    <3>1. cnt + i = i + cnt
      BY <1>1, SMT DEF Places
    <3> QED BY <3>1 DEF Uart8Copy
  <2>5. \A m \in Places : m < cnt \/ m = cnt
    <3>1. cnt + 1 = PACK_LEN
      BY <1>2, <1>4
    <3> QED BY <1>1, <3>1, SMT DEF Places
  <2>6. \A m \in Places : uart_buff'[m] = [frame |-> f, pos |-> m]
    BY <2>3, <2>4, <2>5, <1>1 DEF Scanning, SizeInv, TypeOK, Places
  <2>7. uart_buff' = [m \in Places |-> uart_buff'[m]]
    BY <2>4 DEF SizeInv, TypeOK, Places
  <2>8. uart_buff' = Frame(f)
    BY <2>6, <2>7 DEF Frame, Places
  <2> QED BY <2>2, <2>8
<1>5. windows' # 0 /\ windows' # 1
  BY <1>1, <1>2, SMT DEF isr
<1> QED BY <1>1, <1>2, <1>3, <1>4, <1>5 DEF CleanInv, Byte, isr, Cells, dataSize

LEMMA CleanNotify ==
  ASSUME SizeInv, OrderInv, CleanInv, Uart8Notify
  PROVE  CleanInv'
<1> SUFFICES ASSUME clean, prompt PROVE CleanInv'
  BY DEF Uart8Notify, CleanInv, isr
<1>1. Scanning /\ pc8 = "notify" /\ uart8_mb = << >> /\ ~Uart8Blocked
  BY DEF Uart8Notify, OrderInv, Uart8Blocked, Scanning
<1>2. UNCHANGED <<isr, uart8_mb, uart_buff>> /\ pc8' = "recv"
  BY DEF Uart8Notify
<1>3. Uart8Blocked' /\ ~Copying'
  BY <1>1, <1>2 DEF Uart8Blocked, Copying
<1> QED BY <1>1, <1>2, <1>3 DEF CleanInv, Byte, isr, Cells, dataSize

LEMMA CleanStep ==
  ASSUME SizeInv, OrderInv, CleanInv, [Next]_vars
  PROVE  CleanInv'
<1>1. CASE icm_read_timer3 \/ DataThread \/ UNCHANGED vars
  <2>1. UNCHANGED <<isr, uart8_mb, thr8>>
    BY <1>1 DEF icm_read_timer3, DataThread, DataRecv, DataRead, DataDone, vars, isr, thr8
  <2> QED BY <2>1, CleanKept
<1>2. CASE RxOverrun
  BY <1>2 DEF RxOverrun, CleanInv
<1> QED BY <1>1, <1>2, CleanRxByte, CleanRecv, CleanScan, CleanCopy, CleanNotify
    DEF Next, Uart8Thread

-----------------------------------------------------------------------------
\* How often a frame is parsed.
LEMMA CountTyped ==
  ASSUME SizeInv
  PROVE  /\ Current \in Nat /\ \A f \in Frames : f \in Nat /\ parses[f] \in Nat
         /\ Len(data_mb) \in 0 .. 1 /\ (data_mb = << >> <=> Len(data_mb) = 0)
         /\ \A cond : Pending(cond) \in 0 .. 1
<1> USE Lengths
<1>1. Current \in Nat
  <2>1. 1 \in Places
    BY SMT DEF Places
  <2> QED BY <2>1, Typed, BytesTyped DEF Current
<1>2. \A f \in Frames : f \in Nat /\ parses[f] \in Nat
  BY SMT DEF SizeInv, Frames
<1>3. Len(data_mb) \in 0 .. 1 /\ (data_mb = << >> <=> Len(data_mb) = 0)
  <2>1. data_mb = << >> \/ data_mb = <<"SP_OK">> \/ data_mb = <<"SP_WAIT">>
    BY DEF SizeInv, TypeOK
  <2>2. Len(<< >>) = 0
    BY SMT
  <2>3. 0 \in 0 .. 1 /\ 1 \in 0 .. 1 /\ 1 # 0
    BY SMT
  <2> QED BY <2>1, <2>2, <2>3, OneMail
<1>4. \A cond : Pending(cond) \in 0 .. 1
  BY SMT DEF Pending
<1> QED BY <1>1, <1>2, <1>3, <1>4

LEMMA CountInit == Init => CountInv /\ MixInv
<1> SUFFICES ASSUME Init PROVE CountInv /\ MixInv
  OBVIOUS
<1>1. SizeInv /\ ~(pcD = "parse") /\ data_mb = << >> /\ pc8 = "recv"
  BY SizeInit DEF Init
<1>2. \A f \in Frames : parses[f] = 0
  BY DEF Init
<1>3. \A cond : Pending(cond) = 0
  BY <1>1 DEF Pending
<1>4. Len(data_mb) = 0 /\ 0 + 0 <= 2 /\ 0 + 0 + 0 <= 2
  BY <1>1, SMT
<1>5. CountInv
  BY <1>1, <1>2, <1>3, <1>4 DEF CountInv, Replaced
<1> QED BY <1>1, <1>5 DEF MixInv

LEMMA CountKept ==
  ASSUME CountInv, UNCHANGED <<prompt, uart_buff, data_mb, thrD>>, Replaced' = Replaced
  PROVE  CountInv'
<1>1. Current' = Current
  BY DEF Current
<1> QED BY <1>1, Zenon DEF CountInv, Pending, Current, thrD

LEMMA CountCopy ==
  ASSUME SizeInv, OrderInv, CountInv, Uart8Copy
  PROVE  CountInv'
<1> USE Lengths
<1>1. pc8 = "copy" /\ UNCHANGED <<isr, i, data_mb, thrD>> /\ cnt' = cnt + 1
      /\ cnt \in 0 .. PACK_LEN - 1
  <2>1. cnt \in 0 .. PACK_LEN /\ cnt < PACK_LEN
    BY DEF Uart8Copy, SizeInv, TypeOK
  <2> QED BY <2>1, SMT DEF Uart8Copy
<1>2. \A m \in Places : m # cnt => uart_buff'[m] = uart_buff[m]
  BY <1>1 DEF Uart8Copy, SizeInv, TypeOK, Places
<1>3. 1 \in Places /\ (cnt' = PACK_LEN => cnt' > 1)
  BY SMT DEF Places
<1>4. (Replaced <=> cnt > 1) /\ (Replaced' <=> cnt' > 1)
  BY <1>1, <1>3 DEF Replaced, Uart8Copy
<1>5. CASE cnt # 1
  <2>1. Replaced' = Replaced
    <3>1. cnt > 1 <=> cnt' > 1
      BY <1>1, <1>5, SMT
    <3> QED BY <3>1, <1>4 DEF Replaced
  <2>2. Current' = Current
    BY <1>2, <1>3, <1>5 DEF Current
  <2> QED BY <2>1, <2>2, <1>1, Zenon DEF CountInv, Pending, thrD, isr
<1>6. CASE cnt = 1
  <2> SUFFICES ASSUME prompt PROVE CountInv'
    BY <1>1 DEF CountInv, isr
  <2>1. /\ Scanning /\ Ordered /\ HeaderAt(i)
        /\ \A k \in Cells : Before(uart_buff[1], uart8_rx_buffer[k])
    <3>1. Scanning /\ Copying
      BY <1>1 DEF OrderInv, Uart8Blocked, Copying
    <3>2. ~(1 < cnt)
      BY <1>6, SMT
    <3> QED BY <3>1, <3>2, <1>1, <1>3 DEF Scanning
  <2>2. i \in 0 .. PACK_LEN
    <3>1. i \in 0 .. PACK_LEN + 1 /\ i <= PACK_LEN
      BY <1>1 DEF SizeInv, TypeOK
    <3> QED BY <3>1, SMT
  <2>3. i \in Cells /\ i + 1 \in Cells /\ i < i + 1 /\ 1 + i = i + 1
    BY <2>2, SMT DEF Cells, dataSize
  <2>4. uart_buff'[1] = uart8_rx_buffer[i + 1]
    BY <1>3, <1>6, <2>3 DEF Uart8Copy, SizeInv, TypeOK, Places
  <2>5. /\ uart_buff[1] \in Bytes /\ uart8_rx_buffer[i] \in Bytes /\ uart8_rx_buffer[i + 1] \in Bytes
        /\ uart8_rx_buffer[i].pos = 0
    BY <2>1, <2>3, <1>3, Typed DEF HeaderAt
  <2>6. uart_buff[1].frame < uart8_rx_buffer[i].frame
    BY <2>1, <2>3, <2>5, HeaderSeparates
  <2>7. Before(uart8_rx_buffer[i], uart8_rx_buffer[i + 1])
    BY <2>1, <2>3 DEF Ordered
  <2>8. Current < Current' /\ Current' \in Nat
    BY <2>4, <2>5, <2>6, <2>7, BytesTyped, SMT DEF Before, Current
  <2>9. ~Replaced /\ Replaced'
    BY <1>1, <1>4, <1>6, SMT
  <2>10. \A cond : Pending(cond)' = Pending(cond) /\ Pending(cond) \in 0 .. 1
    BY CountTyped, <1>1 DEF Pending, thrD
  <2>11. pcD' = "parse" /\ rd' > 1 => \E g \in got' : g <= Current'
    <3> SUFFICES ASSUME pcD = "parse", rd > 1 PROVE \E g \in got : g <= Current'
      BY <1>1 DEF thrD
    <3>1. PICK g \in got : g <= Current
      BY DEF CountInv
    <3>2. g \in Nat
      BY DEF SizeInv
    <3> QED BY <3>1, <3>2, <2>8, CountTyped, SMT
  <2>12. ASSUME NEW f \in Frames
         PROVE  /\ f > Current' => parses[f] = 0
                /\ f < Current' => parses[f] + Pending(got = {f}) <= 2
                /\ f = Current' => parses[f] = 0
    <3> DEFINE P1 == Pending(got = {f})
               P2 == Pending(got \subseteq {f})
               L == Len(data_mb)
    <3>1. P1 <= P2 /\ P1 \in 0 .. 1 /\ P2 \in 0 .. 1
      <4>1. got = {f} => got \subseteq {f}
        OBVIOUS
      <4> QED BY <4>1, SMT DEF Pending
    <3>2. f \in Nat /\ parses[f] \in Nat /\ L \in 0 .. 1 /\ Current \in Nat
      BY CountTyped
    <3>3. /\ f > Current => parses[f] = 0
          /\ f < Current => parses[f] + P1 <= 2
          /\ f = Current => parses[f] + P2 + L <= 2
      BY <2>9 DEF CountInv
    <3> HIDE DEF P1, P2, L
    <3>4. /\ f > Current' => parses[f] = 0
          /\ f < Current' => parses[f] + P1 <= 2
          /\ f = Current' => parses[f] = 0
      BY <3>1, <3>2, <3>3, <2>8, SMT
    <3> QED BY <3>4 DEF P1
  <2> QED BY <2>9, <2>10, <2>11, <2>12, <1>1 DEF CountInv, thrD, Pending
<1> QED BY <1>5, <1>6

LEMMA CountNotify ==
  ASSUME SizeInv, SizeInv', CountInv, Uart8Notify
  PROVE  CountInv'
<1>1. /\ UNCHANGED <<prompt, uart_buff, thrD>> /\ Replaced /\ ~Replaced' /\ Current' = Current
      /\ \A cond : Pending(cond)' = Pending(cond) /\ Pending(cond) \in 0 .. 1
      /\ Len(data_mb') \in 0 .. 1
  <2>1. UNCHANGED <<prompt, uart_buff, thrD>> /\ Replaced /\ ~Replaced' /\ Current' = Current
    BY DEF Uart8Notify, Replaced, Current, isr
  <2>2. Len(data_mb') \in 0 .. 1
    <3>1. data_mb' = << >> \/ data_mb' = <<"SP_OK">> \/ data_mb' = <<"SP_WAIT">>
      BY DEF SizeInv, TypeOK
    <3>2. Len(<< >>) \in 0 .. 1 /\ 1 \in 0 .. 1
      BY SMT
    <3> QED BY <3>1, <3>2, OneMail
  <2> QED BY <2>1, <2>2, CountTyped DEF Pending, thrD
<1>2. \A p \in 0 .. 1, l \in 0 .. 1 : 0 + p + l <= 2
  BY SMT
<1> QED BY <1>1, <1>2 DEF CountInv, thrD, Pending

LEMMA CountData ==
  ASSUME SizeInv, OrderInv, CountInv, DataThread
  PROVE  CountInv'
<1> USE Lengths
<1> SUFFICES ASSUME prompt PROVE CountInv'
  BY DEF DataThread, DataRecv, DataRead, DataDone, CountInv, isr
<1>1. /\ UNCHANGED <<uart_buff, pc8, cnt, prompt>> /\ ~Replaced /\ ~Replaced' /\ Current' = Current
      /\ pc8 # "copy" /\ Current \in Nat
  BY CountTyped DEF DataThread, DataRecv, DataRead, DataDone, DataMayRun, Uart8Blocked, Replaced, Current,
     thr8, isr
<1>2. CASE DataRecv
  <2>1. pcD = "recv" /\ data_mb # << >> /\ rd' = 1 /\ got' = {} /\ UNCHANGED parses /\ data_mb' = Tail(data_mb)
    BY <1>2 DEF DataRecv
  <2>2. Len(data_mb) = 1 /\ Len(data_mb') = 0
    <3>1. data_mb = <<"SP_OK">> \/ data_mb = <<"SP_WAIT">>
      BY <2>1 DEF SizeInv, TypeOK
    <3>2. Len(<< >>) = 0
      BY SMT
    <3> QED BY <2>1, <3>1, <3>2, OneMail
  <2>3. \A f : ~(got' = {f})
    BY <2>1
  <2>4. ~(rd' > 1)
    BY <2>1, SMT
  <2>5. ASSUME NEW f \in Frames
        PROVE  /\ f > Current => parses[f] = 0
               /\ f < Current => parses[f] + Pending(got = {f})' <= 2
               /\ f = Current => parses[f] + Pending(got \subseteq {f})' + Len(data_mb') <= 2
    <3> DEFINE P == Pending(got = {f})
               P1 == Pending(got \subseteq {f})
               L == Len(data_mb)
    <3>1. P = 0 /\ P1 = 0 /\ Pending(got = {f})' = 0 /\ Pending(got \subseteq {f})' \in 0 .. 1
      BY <2>1, <2>3, SMT DEF Pending
    <3>2. f \in Nat /\ parses[f] \in Nat /\ L = 1 /\ Len(data_mb') = 0
      BY CountTyped, <2>2
    <3>3. /\ f > Current => parses[f] = 0
          /\ f < Current => parses[f] + P <= 2
          /\ f = Current => parses[f] + P1 + L <= 2
      BY <1>1 DEF CountInv
    <3> HIDE DEF P, P1, L
    <3> QED BY <3>1, <3>2, <3>3, SMT
  <2> QED BY <1>1, <2>1, <2>4, <2>5 DEF CountInv
<1>3. CASE DataRead
  <2>1. /\ pcD = "parse" /\ pcD' = pcD /\ rd < PACK_LEN - 1 /\ rd' = rd + 1 /\ UNCHANGED <<parses, data_mb>>
        /\ got' = got \union {uart_buff[rd].frame} /\ rd \in 1 .. PACK_LEN - 1
    BY <1>3 DEF DataRead, SizeInv, TypeOK
  <2>2. rd \in Places \ {0} /\ 1 \in Places
    BY <2>1, SMT DEF Places
  <2>3. Current <= uart_buff[rd].frame /\ uart_buff[rd].frame \in Nat
    <3>1. uart_buff[rd] \in Bytes
      BY <2>2, Typed
    <3> QED BY <3>1, <2>2, <1>1, BytesTyped DEF OrderInv, Current
  <2>4. \E g \in got' : g <= Current
    <3>1. CASE rd = 1
      <4>1. Current \in got' /\ Current <= Current
        BY <2>1, <3>1, <1>1, SMT DEF Current
      <4> QED BY <4>1
    <3>2. CASE rd # 1
      <4>1. rd > 1
        BY <2>1, <3>2, SMT
      <4> QED BY <4>1, <2>1 DEF CountInv
    <3> QED BY <3>1, <3>2
  <2>5. ASSUME NEW f \in Frames
        PROVE  /\ f > Current => parses[f] = 0
               /\ f < Current => parses[f] + Pending(got = {f})' <= 2
               /\ f = Current => parses[f] + Pending(got \subseteq {f})' + Len(data_mb) <= 2
    <3> DEFINE P == Pending(got = {f})
               P1 == Pending(got \subseteq {f})
               L == Len(data_mb)
    <3>1. f \in Nat /\ parses[f] \in Nat /\ P \in 0 .. 1 /\ P1 \in 0 .. 1 /\ L \in 0 .. 1
      BY CountTyped
    <3>2. f < Current => Pending(got = {f})' = 0
      <4> SUFFICES ASSUME f < Current, got' = {f} PROVE FALSE
        BY DEF Pending
      <4>1. uart_buff[rd].frame = f
        BY <2>1
      <4> QED BY <4>1, <2>3, <3>1, <1>1, SMT
    <3>3. Pending(got \subseteq {f})' = 0 \/ Pending(got \subseteq {f})' = P1
      <4>1. got' \subseteq {f} => got \subseteq {f}
        BY <2>1
      <4> QED BY <4>1, <2>1 DEF Pending
    <3>4. /\ f > Current => parses[f] = 0
          /\ f < Current => parses[f] + P <= 2
          /\ f = Current => parses[f] + P1 + L <= 2
      BY <1>1 DEF CountInv
    <3> HIDE DEF P, P1, L
    <3>5. /\ f > Current => parses[f] = 0
          /\ f < Current => parses[f] + Pending(got = {f})' <= 2
          /\ f = Current => parses[f] + Pending(got \subseteq {f})' + L <= 2
      BY <3>1, <3>2, <3>3, <3>4, <1>1, SMT
    <3> QED BY <3>5 DEF L
  <2> QED BY <1>1, <2>1, <2>4, <2>5 DEF CountInv
<1>4. CASE DataDone
  <2>1. pcD = "parse" /\ pcD' = "recv" /\ rd = PACK_LEN - 1 /\ UNCHANGED <<data_mb, got>>
        /\ \A f \in Frames : parses'[f] = IF got = {f} THEN parses[f] + 1 ELSE parses[f]
    BY <1>4 DEF DataDone
  <2>2. PICK g \in got : g <= Current
    <3>1. rd > 1
      BY <2>1, SMT
    <3> QED BY <3>1, <2>1 DEF CountInv
  <2>3. g \in Nat
    BY DEF SizeInv
  <2>4. \A cond : Pending(cond)' = 0
    BY <2>1 DEF Pending
  <2>5. ASSUME NEW f \in Frames
        PROVE  /\ f > Current => parses'[f] = 0
               /\ f < Current => parses'[f] + 0 <= 2
               /\ f = Current => parses'[f] + 0 + Len(data_mb) <= 2
    <3> DEFINE P == Pending(got = {f})
               P1 == Pending(got \subseteq {f})
               L == Len(data_mb)
    <3>1. f \in Nat /\ parses[f] \in Nat /\ P \in 0 .. 1 /\ P1 \in 0 .. 1 /\ L \in 0 .. 1
      BY CountTyped
    <3>2. got = {f} => f = g /\ P = 1 /\ P1 = 1
      BY <2>1, <2>2 DEF Pending
    <3>3. /\ f > Current => parses[f] = 0
          /\ f < Current => parses[f] + P <= 2
          /\ f = Current => parses[f] + P1 + L <= 2
      BY <1>1 DEF CountInv
    <3> HIDE DEF P, P1, L
    <3>4. CASE got = {f}
      <4>1. parses'[f] = parses[f] + 1
        BY <2>1, <3>4
      <4>2. /\ f > Current => parses'[f] = 0
            /\ f < Current => parses'[f] + 0 <= 2
            /\ f = Current => parses'[f] + 0 + L <= 2
        BY <4>1, <3>1, <3>2, <3>3, <3>4, <2>2, <2>3, <1>1, SMT
      <4> QED BY <4>2 DEF L
    <3>5. CASE got # {f}
      <4>1. parses'[f] = parses[f]
        BY <2>1, <3>5
      <4>2. /\ f > Current => parses'[f] = 0
            /\ f < Current => parses'[f] + 0 <= 2
            /\ f = Current => parses'[f] + 0 + L <= 2
        BY <4>1, <3>1, <3>3, <1>1, SMT
      <4> QED BY <4>2 DEF L
    <3> QED BY <3>4, <3>5
  <2> QED BY <1>1, <2>1, <2>4, <2>5 DEF CountInv
<1> QED BY <1>2, <1>3, <1>4 DEF DataThread

LEMMA CountStep ==
  ASSUME SizeInv, SizeInv', OrderInv, CountInv, [Next]_vars
  PROVE  CountInv'
<1>1. CASE RxByte \/ RxOverrun \/ icm_read_timer3 \/ UNCHANGED vars
  <2>1. UNCHANGED <<prompt, uart_buff, data_mb, thrD>> /\ Replaced' = Replaced
    BY <1>1 DEF RxByte, RxOverrun, icm_read_timer3, vars, isr, thr8, Replaced
  <2> QED BY <2>1, CountKept
<1>2. CASE Uart8Recv \/ Uart8Header \/ Uart8Tail
  <2>1. UNCHANGED <<prompt, uart_buff, data_mb, thrD>>
    BY <1>2 DEF Uart8Recv, Uart8Header, Uart8Tail, isr
  <2>2. ~Replaced
    BY <1>2 DEF Uart8Recv, Uart8Header, Uart8Tail, Replaced
  <2>3. ~Replaced'
    <3>1. ~(0 > 1)
      BY SMT
    <3> QED BY <3>1, <1>2 DEF Uart8Recv, Uart8Header, Uart8Tail, NextPlace, Replaced
  <2> QED BY <2>1, <2>2, <2>3, CountKept DEF Replaced
<1> QED BY <1>1, <1>2, CountCopy, CountNotify, CountData DEF Next, Uart8Thread

\* A parse that was overtaken.
LEMMA MixStep ==
  ASSUME SizeInv, CleanInv, MixInv, [Next]_vars
  PROVE  MixInv'
<1>1. CASE RxByte \/ RxOverrun \/ icm_read_timer3 \/ UNCHANGED vars
  <2>1. UNCHANGED <<prompt, uart_buff, pc8, data_mb, thrD>> /\ (clean' => clean)
    BY <1>1 DEF RxByte, RxOverrun, icm_read_timer3, vars, isr, thr8
  <2> QED BY <2>1 DEF MixInv, Copying, Current, thrD
<1>2. CASE Uart8Recv \/ Uart8Header \/ Uart8Tail
  <2>1. UNCHANGED <<prompt, clean, uart_buff, data_mb, thrD>> /\ ~Copying
    BY <1>2 DEF Uart8Recv, Uart8Header, Uart8Tail, isr, Copying
  <2> QED BY <2>1 DEF MixInv, Current, thrD
<1>3. CASE Uart8Copy
  BY <1>3 DEF Uart8Copy, MixInv, Copying
<1>4. CASE Uart8Notify
  <2>1. data_mb' # << >>
    BY <1>4, OneMail DEF Uart8Notify, DataMail, rt_mb_send
  <2> QED BY <2>1 DEF MixInv
<1>5. CASE DataRecv
  BY <1>5 DEF DataRecv, MixInv
<1>6. CASE DataRead
  <2> SUFFICES ASSUME clean, prompt PROVE MixInv'
    BY <1>6 DEF DataRead, MixInv, isr
  <2>1. /\ pcD = "parse" /\ pc8 = "recv" /\ ~Copying /\ UNCHANGED <<uart_buff, data_mb>>
        /\ got' = got \union {uart_buff[rd].frame} /\ rd \in 1 .. PACK_LEN - 1
    BY <1>6 DEF DataRead, DataMayRun, Uart8Blocked, Copying, thr8, SizeInv, TypeOK
  <2>2. rd \in 0 .. PACK_LEN - 1 /\ 1 \in 0 .. PACK_LEN - 1
    BY <2>1, Lengths, SMT
  <2>3. uart_buff[rd].frame = uart_buff[1].frame
    <3>1. CASE uart_buff = Blank
      BY <3>1, <2>2 DEF Blank
    <3>2. ASSUME NEW f \in Frames, uart_buff = Frame(f)
          PROVE  uart_buff[rd].frame = uart_buff[1].frame
      BY <3>2, <2>2 DEF Frame
    <3> QED BY <3>1, <3>2, <2>1 DEF CleanInv
  <2> QED BY <2>1, <2>3 DEF MixInv, Current
<1>7. CASE DataDone
  BY <1>7 DEF DataDone, MixInv
<1> QED BY <1>1, <1>2, <1>3, <1>4, <1>5, <1>6, <1>7 DEF Next, Uart8Thread, DataThread

-----------------------------------------------------------------------------
LEMMA Uart8InvHolds == Spec => []Uart8Inv
<1>1. Init => Uart8Inv
  BY SizeInit, OrderInit, CleanInit, CountInit DEF Uart8Inv
<1>2. Uart8Inv /\ [Next]_vars => Uart8Inv'
  BY SizeStep, OrderStep, CleanStep, CountStep, MixStep DEF Uart8Inv
<1> QED BY <1>1, <1>2, PTL DEF Spec

\* No index of uart8_t leaves uart8_rx_buffer or uart_buff and no mail says SP_HEADER_ERR,
\* also when uart8_callback's window moves under the scan, for any PACK_LEN.
THEOREM Uart8Typed == Spec => []TypeOK
<1>1. Uart8Inv => TypeOK
  BY DEF Uart8Inv, SizeInv
<1> QED BY <1>1, Uart8InvHolds, PTL

\* Wherever the stream starts, what uart8_t copies of a window of 2 * PACK_LEN bytes is one
\* whole frame, if no byte is lost and it is in time (uart8_mb_recv, more_uart.c).
THEOREM CopiesWholeFrames == Spec => []WholeFrames
<1>1. Uart8Inv => WholeFrames
  BY DEF Uart8Inv, CleanInv, WholeFrames, Uart8Blocked
<1> QED BY <1>1, Uart8InvHolds, PTL

\* However many bytes overruns lose and whenever data_t runs, it acts on no frame more than
\* twice while uart8_t is in time (data_analysis).
THEOREM ParsedAtMostTwice == Spec => []AtMostTwice
<1>1. Uart8Inv => AtMostTwice
  <2> SUFFICES ASSUME Uart8Inv, prompt, NEW f \in Frames PROVE parses[f] <= 2
    BY DEF AtMostTwice
  <2>1. /\ f \in Nat /\ parses[f] \in Nat /\ Current \in Nat /\ Len(data_mb) \in 0 .. 1
        /\ Pending(got = {f}) \in 0 .. 1 /\ Pending(got \subseteq {f}) \in 0 .. 1
    BY CountTyped DEF Uart8Inv
  <2>2. /\ f > Current => parses[f] = 0
        /\ f < Current => parses[f] + Pending(got = {f}) <= 2
        /\ f = Current => \/ parses[f] = 0
                          \/ parses[f] + Pending(got \subseteq {f}) + Len(data_mb) <= 2
    BY DEF Uart8Inv, CountInv
  <2>3. ASSUME NEW c \in Nat, NEW n \in Nat, NEW p \in 0 .. 1, NEW q \in 0 .. 1, NEW l \in 0 .. 1,
               f > c => n = 0, f < c => n + p <= 2, f = c => n = 0 \/ n + q + l <= 2
        PROVE  n <= 2
    BY <2>1, <2>3, SMT
  <2> QED BY <2>1, <2>2, <2>3
<1> QED BY <1>1, Uart8InvHolds, PTL

\* A parse of uart_buff that uart8_t's copy overtook has a mail behind it that repeats it,
\* unless timer3 voided that mail (icm_read_timer3, data_analysis).
THEOREM MixedParsesRepeat == Spec => []MixedIsReparsed
<1>1. Uart8Inv => MixedIsReparsed
  <2> SUFFICES ASSUME Uart8Inv, clean, prompt, pcD = "parse", Uart8Blocked,
                      NEW f \in got, f # uart_buff[1].frame
               PROVE  data_mb = <<"SP_OK">> \/ voided
    BY DEF MixedIsReparsed
  <2>1. data_mb # << >>
    BY DEF Uart8Inv, MixInv, Uart8Blocked, Copying, Current
  <2> QED BY <2>1 DEF Uart8Inv, SizeInv, TypeOK
<1> QED BY <1>1, Uart8InvHolds, PTL

\* Once the window of one byte is over no scan of a window that lost no byte ends with
\* SP_HEADER_ERR: two frame lengths always hold a header with its tail (more_uart.c:19).
THEOREM ScansFind == Spec => ScanFinds
<1>1. Uart8Inv /\ [Next]_vars
        => [clean /\ prompt /\ windows >= 2 /\ pc8 # "recv" /\ pc8' = "recv" => pc8 = "notify"]_vars
  <2> SUFFICES ASSUME Uart8Inv, Next, clean, prompt, windows >= 2, pc8 # "recv", pc8' = "recv",
                      pc8 # "notify"
               PROVE  FALSE
    OBVIOUS
  <2>1. NextPlace /\ ~(i < LastPlace) /\ pc8 \in {"header", "tail"}
        /\ (~HeaderAt(i) \/ (pc8 = "tail" /\ ~TailAt(i)))
    BY DEF Next, Uart8Thread, DataThread, RxByte, RxOverrun, icm_read_timer3, Uart8Recv, Uart8Header,
       Uart8Tail, Uart8Copy, Uart8Notify, DataRecv, DataRead, DataDone, NextPlace, thr8
  <2>2. windows = 2 /\ ~Uart8Blocked /\ SizeInv /\ CleanInv
    <3>1. windows \in 0 .. 2
      BY DEF Uart8Inv, SizeInv
    <3> QED BY <3>1, SMT DEF Uart8Inv, Uart8Blocked
  <2>3. PICK k \in Places : HeaderAt(k)
    BY <2>2, HeaderExists
  <2>4. i \in 0 .. PACK_LEN + 1
    BY <2>2 DEF SizeInv, TypeOK
  <2>5. k \in Cells /\ k < i
    BY <2>1, <2>4, Lengths, SMT DEF Places, Cells, dataSize, LastPlace
  <2>6. ~HeaderAt(k)
    BY <2>1, <2>2, <2>5 DEF CleanInv
  <2> QED BY <2>3, <2>6
<1> QED BY <1>1, Uart8InvHolds, PTL DEF Spec, ScanFinds
=============================================================================

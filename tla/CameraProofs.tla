---------------------------- MODULE CameraProofs ----------------------------
(***************************************************************************)
(* For images of any size, any number of frames and any bound of camera_sem: *)
(* the two buffers stay in turn, and as long as the interrupt is held up for  *)
(* at most two frames, main is shown whole frames and copies none older than  *)
(* the one handed over when it began.                                         *)
(***************************************************************************)
EXTENDS Camera, FiniteSetTheorems, TLAPS

\* The handle between two interrupts: both buffers queued and loaded.
HandleOK(h) ==
  /\ h \in HandleType
  /\ h.queueUserReadIdx = h.queueDrvWriteIdx
  /\ h.queueUserWriteIdx = IncreaseQueueIdx(IncreaseQueueIdx(h.queueDrvWriteIdx))
  /\ h.queueDrvReadIdx = h.queueUserWriteIdx
  /\ h.activeBufferNum = 2 /\ h.transferStarted = TRUE /\ h.transferOnGoing = TRUE
  /\ h.FB[h.nextBufferIdx] = h.frameBufferQueue[h.queueDrvWriteIdx]
  /\ h.FB[1 - h.nextBufferIdx] = h.frameBufferQueue[IncreaseQueueIdx(h.queueDrvWriteIdx)]
  /\ {h.FB[0], h.FB[1]} = Buffers

USE DEF QueueIdx, CSI_DRIVER_ACTUAL_QUEUE_SIZE, CSI_DRIVER_QUEUE_SIZE

\* The queue's indices stay in range, and three steps lead round.
LEMMA IndexTurns ==
  ASSUME NEW i \in QueueIdx
  PROVE  /\ IncreaseQueueIdx(i) \in QueueIdx
         /\ IncreaseQueueIdx(IncreaseQueueIdx(IncreaseQueueIdx(i))) = i
         /\ IncreaseQueueIdx(i) # i
         /\ IncreaseQueueIdx(IncreaseQueueIdx(i)) # i
  BY DEF IncreaseQueueIdx

\* Queueing writes one entry and moves one index.
LEMMA QueuedFields ==
  ASSUME NEW h \in HandleType, NEW b \in Buffers
  PROVE  LET q == Queued(h, b)
         IN /\ q \in HandleType
            /\ q.frameBufferQueue = [h.frameBufferQueue EXCEPT ![h.queueUserWriteIdx] = b]
            /\ q.queueUserWriteIdx = IncreaseQueueIdx(h.queueUserWriteIdx)
            /\ q.queueUserReadIdx = h.queueUserReadIdx
            /\ q.queueDrvReadIdx = h.queueDrvReadIdx /\ q.queueDrvWriteIdx = h.queueDrvWriteIdx
            /\ q.activeBufferNum = h.activeBufferNum /\ q.nextBufferIdx = h.nextBufferIdx
            /\ q.transferStarted = h.transferStarted
            /\ q.transferOnGoing = h.transferOnGoing /\ q.FB = h.FB
<1>1. [h.frameBufferQueue EXCEPT ![h.queueUserWriteIdx] = b]
        \in [QueueIdx -> Buffers \union {None}]
  BY DEF HandleType
<1>2. IncreaseQueueIdx(h.queueUserWriteIdx) \in QueueIdx
  BY DEF HandleType, IncreaseQueueIdx
<1>3. Queued(h, b) \in HandleType
  BY <1>1, <1>2 DEF Queued, HandleType
<1> QED
  BY <1>3 DEF Queued, HandleType

\* Loading fills one register and moves on both sides.
LEMMA LoadedFields ==
  ASSUME NEW h \in HandleType, h.activeBufferNum < 2
  PROVE  LET l == LoadBufferToDevice(h)
         IN /\ l \in HandleType
            /\ l.FB = [h.FB EXCEPT ![h.nextBufferIdx] = h.frameBufferQueue[h.queueDrvReadIdx]]
            /\ l.queueDrvReadIdx = IncreaseQueueIdx(h.queueDrvReadIdx)
            /\ l.activeBufferNum = h.activeBufferNum + 1
            /\ l.nextBufferIdx = 1 - h.nextBufferIdx
            /\ l.frameBufferQueue = h.frameBufferQueue
            /\ l.queueUserReadIdx = h.queueUserReadIdx
            /\ l.queueUserWriteIdx = h.queueUserWriteIdx
            /\ l.queueDrvWriteIdx = h.queueDrvWriteIdx
            /\ l.transferStarted = h.transferStarted
            /\ l.transferOnGoing = h.transferOnGoing
<1>1. [h.FB EXCEPT ![h.nextBufferIdx] = h.frameBufferQueue[h.queueDrvReadIdx]]
        \in [{0, 1} -> Buffers \union {None}]
  BY DEF HandleType
<1>2. /\ IncreaseQueueIdx(h.queueDrvReadIdx) \in QueueIdx
      /\ h.activeBufferNum + 1 \in 0 .. 2 /\ OtherRegister(h.nextBufferIdx) \in {0, 1}
  BY DEF HandleType, IncreaseQueueIdx, OtherRegister
<1>3. LoadBufferToDevice(h) \in HandleType
  BY <1>1, <1>2 DEF LoadBufferToDevice, HandleType
<1> QED
  BY <1>3 DEF LoadBufferToDevice, HandleType, OtherRegister

\* The handle that csi_init, two submissions and csi_start leave.
LEMMA StartedOK ==
  ASSUME NEW h, h = CSI_TransferStart(CSI_TransferSubmitEmptyBuffer(
                      CSI_TransferSubmitEmptyBuffer(Created, 1), 2))
  PROVE  HandleOK(h) /\ h.nextBufferIdx = 0 /\ h.FB[0] = 1
<1> DEFINE h1 == Queued(Created, 1)
           h2 == Queued(h1, 2)
           r == [[h2 EXCEPT !.activeBufferNum = 0, !.transferStarted = TRUE]
                   EXCEPT !.nextBufferIdx = 0, !.transferOnGoing = TRUE]
           l == LoadBufferToDevice(r)
<1>1. Created \in HandleType
  BY DEF Created, HandleType, None
<1>c. /\ Created.queueUserWriteIdx = 0 /\ Created.queueUserReadIdx = 0
      /\ Created.queueDrvReadIdx = 0 /\ Created.queueDrvWriteIdx = 0
      /\ Created.activeBufferNum = 0 /\ Created.transferStarted = FALSE
      /\ Created.frameBufferQueue \in [QueueIdx -> Buffers \union {None}]
  BY DEF Created
<1>a. IncreaseQueueIdx(0) = 1 /\ IncreaseQueueIdx(1) = 2
  BY DEF IncreaseQueueIdx
<1>b. 1 \in Buffers /\ 2 \in Buffers
  BY DEF Buffers
<1>2. /\ h1 \in HandleType /\ h1.queueUserWriteIdx = 1 /\ h1.queueUserReadIdx = 0
      /\ h1.queueDrvReadIdx = 0 /\ h1.queueDrvWriteIdx = 0 /\ h1.activeBufferNum = 0
      /\ h1.transferStarted = FALSE /\ h1.frameBufferQueue[0] = 1
  <2>1. /\ h1 \in HandleType /\ h1.queueUserWriteIdx = 1 /\ h1.queueUserReadIdx = 0
        /\ h1.queueDrvReadIdx = 0 /\ h1.queueDrvWriteIdx = 0 /\ h1.activeBufferNum = 0
        /\ h1.transferStarted = FALSE
        /\ h1.frameBufferQueue = [Created.frameBufferQueue EXCEPT ![0] = 1]
    BY <1>1, <1>a, <1>b, <1>c, QueuedFields
  <2>2. [Created.frameBufferQueue EXCEPT ![0] = 1][0] = 1
    BY <1>c
  <2> QED
    BY <2>1, <2>2
<1>3. CSI_TransferSubmitEmptyBuffer(Created, 1) = h1
  BY <1>2, <1>c DEF CSI_TransferSubmitEmptyBuffer, GetQueueDelta
<1> HIDE DEF h1
<1>4. /\ h2 \in HandleType /\ h2.queueUserWriteIdx = 2 /\ h2.queueUserReadIdx = 0
      /\ h2.queueDrvReadIdx = 0 /\ h2.queueDrvWriteIdx = 0 /\ h2.activeBufferNum = 0
      /\ h2.transferStarted = FALSE
      /\ h2.frameBufferQueue[0] = 1 /\ h2.frameBufferQueue[1] = 2
  <2>1. 2 \in Buffers /\ h1 \in HandleType
    BY <1>2, <1>b
  <2>2. h2.frameBufferQueue = [h1.frameBufferQueue EXCEPT ![1] = 2]
    BY <1>2, <2>1, QueuedFields
  <2>3. h1.frameBufferQueue \in [QueueIdx -> Buffers \union {None}]
    BY <1>2 DEF HandleType
  <2>4. h2.frameBufferQueue[0] = 1 /\ h2.frameBufferQueue[1] = 2
    BY <1>2, <2>2, <2>3
  <2> QED
    BY <1>2, <1>a, <2>1, <2>4, QueuedFields
<1>5. CSI_TransferSubmitEmptyBuffer(h1, 2) = h2
  BY <1>2, <1>4 DEF CSI_TransferSubmitEmptyBuffer, GetQueueDelta
<1> HIDE DEF h2
<1>6. h = LoadBufferToDevice(l)
  <2>1. GetEmptyBufferCount(h2) = 2
    BY <1>4 DEF GetEmptyBufferCount, GetQueueDelta
  <2>2. h = Restarted([h2 EXCEPT !.activeBufferNum = 0, !.transferStarted = TRUE])
    <3>1. h = CSI_TransferStart(h2)
      BY <1>3, <1>5
    <3> QED
      BY <2>1, <3>1 DEF CSI_TransferStart
  <2>3. h = LoadBufferToDevice(LoadBufferToDevice(
              [[h2 EXCEPT !.activeBufferNum = 0, !.transferStarted = TRUE]
                 EXCEPT !.nextBufferIdx = 0, !.transferOnGoing = TRUE]))
    BY <2>2 DEF Restarted
  <2> QED
    BY <2>3
<1>7. /\ r \in HandleType /\ r.queueUserWriteIdx = 2 /\ r.queueUserReadIdx = 0
      /\ r.queueDrvReadIdx = 0 /\ r.queueDrvWriteIdx = 0 /\ r.activeBufferNum = 0
      /\ r.transferStarted = TRUE /\ r.transferOnGoing = TRUE /\ r.nextBufferIdx = 0
      /\ r.frameBufferQueue = h2.frameBufferQueue
  BY <1>4 DEF HandleType
<1> HIDE DEF r
<1>8. /\ l \in HandleType /\ l.queueUserWriteIdx = 2 /\ l.queueUserReadIdx = 0
      /\ l.queueDrvReadIdx = 1 /\ l.queueDrvWriteIdx = 0 /\ l.activeBufferNum = 1
      /\ l.transferStarted = TRUE /\ l.transferOnGoing = TRUE /\ l.nextBufferIdx = 1
      /\ l.frameBufferQueue = h2.frameBufferQueue /\ l.FB = [r.FB EXCEPT ![0] = 1]
  BY <1>4, <1>7, <1>a, LoadedFields
<1>9. l.FB[0] = 1
  BY <1>7, <1>8 DEF HandleType
<1> HIDE DEF l
<1>10. /\ h \in HandleType /\ h.queueUserWriteIdx = 2 /\ h.queueUserReadIdx = 0
       /\ h.queueDrvReadIdx = 2 /\ h.queueDrvWriteIdx = 0 /\ h.activeBufferNum = 2
       /\ h.transferStarted = TRUE /\ h.transferOnGoing = TRUE /\ h.nextBufferIdx = 0
       /\ h.frameBufferQueue = h2.frameBufferQueue /\ h.FB = [l.FB EXCEPT ![1] = 2]
  BY <1>4, <1>6, <1>8, <1>a, LoadedFields
<1>11. h.FB[0] = 1 /\ h.FB[1] = 2
  BY <1>8, <1>9, <1>10 DEF HandleType
<1> QED
  BY <1>4, <1>10, <1>11 DEF HandleOK, IncreaseQueueIdx, Buffers

\* An interrupt with one flag gives back the buffer it takes out: the registers keep
\* their buffers and the next one is due.
LEMMA ReceivedOK ==
  ASSUME NEW h, HandleOK(h)
  PROVE  LET f == FrameReceived(h)
             n == Continued(AfterIsr(f))
         IN /\ HasFullBuffer(f)
            /\ FullBuffer(f) = h.FB[h.nextBufferIdx]
            /\ HandleOK(n)
            /\ n.FB = h.FB
            /\ n.nextBufferIdx = 1 - h.nextBufferIdx
<1> DEFINE w == h.queueDrvWriteIdx
           i == h.nextBufferIdx
           b == h.FB[h.nextBufferIdx]
           f == FrameReceived(h)
           t == FullBufferTaken(f)
           q == Queued(t, b)
           n == LoadBufferToDevice(q)
<1>1. /\ h \in HandleType /\ w \in QueueIdx /\ IncreaseQueueIdx(w) \in QueueIdx
      /\ i \in {0, 1} /\ h.FB \in [{0, 1} -> Buffers \union {None}]
      /\ h.frameBufferQueue \in [QueueIdx -> Buffers \union {None}]
  BY IndexTurns DEF HandleOK, HandleType
<1>2. b \in Buffers
  BY <1>1 DEF HandleOK, Buffers
<1>3. /\ f \in HandleType /\ f.queueDrvWriteIdx = IncreaseQueueIdx(w) /\ f.activeBufferNum = 1
      /\ f.queueUserReadIdx = w /\ f.queueUserWriteIdx = h.queueUserWriteIdx
      /\ f.queueDrvReadIdx = h.queueUserWriteIdx /\ f.nextBufferIdx = i
      /\ f.transferStarted = TRUE /\ f.transferOnGoing = TRUE /\ f.FB = h.FB
      /\ f.frameBufferQueue = h.frameBufferQueue
  <2>1. h.activeBufferNum - 1 = 1 /\ 1 \in 0 .. 2
    BY DEF HandleOK
  <2>2. f = [h EXCEPT !.queueDrvWriteIdx = IncreaseQueueIdx(w), !.activeBufferNum = 1]
    BY <2>1 DEF FrameReceived
  <2>3. f \in HandleType
    BY <1>1, <2>1, <2>2 DEF HandleType
  <2>4. /\ f.queueDrvWriteIdx = IncreaseQueueIdx(w) /\ f.activeBufferNum = 1
        /\ f.queueUserReadIdx = h.queueUserReadIdx
        /\ f.queueUserWriteIdx = h.queueUserWriteIdx
        /\ f.queueDrvReadIdx = h.queueDrvReadIdx /\ f.nextBufferIdx = i
        /\ f.transferStarted = h.transferStarted /\ f.transferOnGoing = h.transferOnGoing
        /\ f.FB = h.FB /\ f.frameBufferQueue = h.frameBufferQueue
    BY <1>1, <2>2 DEF HandleType
  <2> QED
    BY <2>3, <2>4 DEF HandleOK
<1>4. HasFullBuffer(f) /\ FullBuffer(f) = b
  BY <1>1, <1>3, IndexTurns DEF HasFullBuffer, FullBuffer, HandleOK
<1> HIDE DEF f
<1>5. /\ t \in HandleType /\ t.queueDrvWriteIdx = IncreaseQueueIdx(w) /\ t.activeBufferNum = 1
      /\ t.queueUserReadIdx = IncreaseQueueIdx(w) /\ t.queueUserWriteIdx = h.queueUserWriteIdx
      /\ t.queueDrvReadIdx = h.queueUserWriteIdx /\ t.nextBufferIdx = i
      /\ t.transferStarted = TRUE /\ t.transferOnGoing = TRUE /\ t.FB = h.FB
      /\ t.frameBufferQueue = h.frameBufferQueue
  BY <1>1, <1>3 DEF FullBufferTaken, HandleType
<1> HIDE DEF t
<1>6. GetQueueDelta(t.queueUserReadIdx, t.queueUserWriteIdx) # CSI_DRIVER_QUEUE_SIZE
  BY <1>1, <1>5 DEF GetQueueDelta, IncreaseQueueIdx, HandleOK
<1>7. /\ q \in HandleType /\ q.queueDrvWriteIdx = IncreaseQueueIdx(w) /\ q.activeBufferNum = 1
      /\ q.queueUserReadIdx = IncreaseQueueIdx(w)
      /\ q.queueUserWriteIdx = IncreaseQueueIdx(h.queueUserWriteIdx)
      /\ q.queueDrvReadIdx = h.queueUserWriteIdx /\ q.nextBufferIdx = i
      /\ q.transferStarted = TRUE /\ q.transferOnGoing = TRUE /\ q.FB = h.FB
      /\ q.frameBufferQueue = [h.frameBufferQueue EXCEPT ![h.queueUserWriteIdx] = b]
  BY <1>2, <1>5, QueuedFields
<1>8. AfterIsr(f) = q
  BY <1>4, <1>6, <1>7 DEF AfterIsr, Resubmitted, CSI_TransferSubmitEmptyBuffer, t
<1> HIDE DEF q
<1>9. IncreaseQueueIdx(h.queueUserWriteIdx) = w
  BY <1>1, IndexTurns DEF HandleOK
<1>10. GetEmptyBufferCount(q) # 0
  BY <1>1, <1>7, <1>9 DEF GetEmptyBufferCount, GetQueueDelta, IncreaseQueueIdx, HandleOK
<1>11. Continued(AfterIsr(f)) = n
  BY <1>7, <1>8, <1>10 DEF Continued
<1>12. /\ n \in HandleType /\ n.queueDrvWriteIdx = IncreaseQueueIdx(w) /\ n.activeBufferNum = 2
       /\ n.queueUserReadIdx = IncreaseQueueIdx(w) /\ n.queueUserWriteIdx = w
       /\ n.queueDrvReadIdx = w /\ n.nextBufferIdx = 1 - i
       /\ n.transferStarted = TRUE /\ n.transferOnGoing = TRUE
       /\ n.FB = [h.FB EXCEPT ![i] = q.frameBufferQueue[h.queueUserWriteIdx]]
       /\ n.frameBufferQueue = q.frameBufferQueue
  <2>1. q \in HandleType /\ q.activeBufferNum < 2 /\ 1 + 1 = 2
    BY <1>7
  <2>2. /\ n \in HandleType
        /\ n.FB = [q.FB EXCEPT ![q.nextBufferIdx] = q.frameBufferQueue[q.queueDrvReadIdx]]
        /\ n.queueDrvReadIdx = IncreaseQueueIdx(q.queueDrvReadIdx)
        /\ n.activeBufferNum = q.activeBufferNum + 1 /\ n.nextBufferIdx = 1 - q.nextBufferIdx
        /\ n.frameBufferQueue = q.frameBufferQueue
        /\ n.queueUserReadIdx = q.queueUserReadIdx
        /\ n.queueUserWriteIdx = q.queueUserWriteIdx
        /\ n.queueDrvWriteIdx = q.queueDrvWriteIdx
        /\ n.transferStarted = q.transferStarted /\ n.transferOnGoing = q.transferOnGoing
    BY <2>1, LoadedFields
  <2> HIDE DEF n
  <2> QED
    BY <1>7, <1>9, <2>1, <2>2
<1> HIDE DEF n
<1>13. h.queueUserWriteIdx \in QueueIdx
  BY <1>1 DEF HandleType
<1>14. /\ q.frameBufferQueue[h.queueUserWriteIdx] = b
       /\ q.frameBufferQueue[IncreaseQueueIdx(w)] = h.FB[1 - i]
  BY <1>1, <1>7, <1>13, IndexTurns DEF HandleOK
<1>15. n.FB = h.FB
  BY <1>1, <1>12, <1>14
<1>16. /\ n.FB[n.nextBufferIdx] = n.frameBufferQueue[n.queueDrvWriteIdx]
       /\ n.FB[1 - n.nextBufferIdx] = n.frameBufferQueue[IncreaseQueueIdx(n.queueDrvWriteIdx)]
  BY <1>1, <1>12, <1>14, <1>15 DEF HandleOK
<1>17. HandleOK(n)
  BY <1>1, <1>9, <1>12, <1>15, <1>16 DEF HandleOK
<1> QED
  BY <1>4, <1>11, <1>12, <1>15, <1>17 DEF f

\* The restart puts the buffer that is due into register 0, the other into register 1.
LEMMA ResetOK ==
  ASSUME NEW h, HandleOK(h)
  PROVE  /\ HandleOK(Reset(h))
         /\ Reset(h).nextBufferIdx = 0
         /\ Reset(h).FB[0] = h.FB[h.nextBufferIdx]
         /\ Reset(h).FB[1] = h.FB[1 - h.nextBufferIdx]
<1> DEFINE w == h.queueDrvWriteIdx
           FB == [h.FB EXCEPT ![0] = h.frameBufferQueue[w],
                              ![1] = h.frameBufferQueue[IncreaseQueueIdx(w)]]
           r == [h EXCEPT !.FB = FB, !.nextBufferIdx = 0]
<1>1. /\ h \in HandleType /\ w \in QueueIdx /\ IncreaseQueueIdx(w) \in QueueIdx
      /\ h.FB \in [{0, 1} -> Buffers \union {None}] /\ h.nextBufferIdx \in {0, 1}
      /\ h.frameBufferQueue \in [QueueIdx -> Buffers \union {None}]
  BY IndexTurns DEF HandleOK, HandleType
<1>2. Reset(h) = r
  BY <1>1 DEF Reset, RestartsAt, HandleOK
<1>3. FB \in [{0, 1} -> Buffers \union {None}]
  BY <1>1
<1>4. FB[0] = h.FB[h.nextBufferIdx] /\ FB[1] = h.FB[1 - h.nextBufferIdx]
  BY <1>1 DEF HandleOK
<1> HIDE DEF FB
<1>5. /\ r \in HandleType /\ r.FB = FB /\ r.nextBufferIdx = 0
      /\ r.frameBufferQueue = h.frameBufferQueue
      /\ r.queueUserReadIdx = h.queueUserReadIdx /\ r.queueUserWriteIdx = h.queueUserWriteIdx
      /\ r.queueDrvReadIdx = h.queueDrvReadIdx /\ r.queueDrvWriteIdx = w
      /\ r.activeBufferNum = 2 /\ r.transferStarted = TRUE /\ r.transferOnGoing = TRUE
  BY <1>1, <1>3 DEF HandleOK, HandleType
<1> HIDE DEF r
<1>6. {FB[0], FB[1]} = Buffers
  BY <1>1, <1>4 DEF HandleOK
<1> QED
  BY <1>1, <1>2, <1>4, <1>5, <1>6 DEF HandleOK
-----------------------------------------------------------------------------
HandleInv == HandleOK(csi_handle)

\* Every step keeps both buffers in turn: the two interrupts by the lemmas above, the
\* others do not touch the handle.
LEMMA HandleInvariant == Spec => []HandleInv
<1>1. Init => HandleInv
  BY StartedOK DEF Init, HandleInv
<1>2. HandleInv /\ [Next]_vars => HandleInv'
  <2> SUFFICES ASSUME HandleInv, [Next]_vars PROVE HandleInv'
    OBVIOUS
  <2>1. CASE OneFrame
    BY <2>1, ReceivedOK DEF OneFrame, HandleInv
  <2>2. CASE BothFrames
    BY <2>2, ResetOK DEF BothFrames, HandleInv
  <2>3. CASE Csi
    BY <2>3 DEF Csi, WriteRow, FrameDone, HandleInv
  <2>4. CASE Main
    BY <2>4 DEF Main, MainTakes, MainBegins, MainCopies, HandleInv
  <2>5. CASE UNCHANGED vars
    BY <2>5 DEF vars, HandleInv
  <2> QED
    BY <2>1, <2>2, <2>3, <2>4, <2>5 DEF Next, CSI_TransferHandleIRQ
<1> QED
  BY <1>1, <1>2, PTL DEF Spec

\* No buffer is lost or queued twice, however late the interrupts are.
THEOREM BuffersStayInTurn == Spec => []BuffersConserved
<1>1. HandleInv => BuffersConserved
  <2> SUFFICES ASSUME HandleInv PROVE BuffersConserved
    OBVIOUS
  <2> DEFINE h == csi_handle
  <2>1. h.queueDrvWriteIdx \in QueueIdx
    BY DEF HandleInv, HandleOK, HandleType
  <2>2. Entries(h.queueDrvWriteIdx, IncreaseQueueIdx(IncreaseQueueIdx(h.queueDrvWriteIdx))) = 2
    BY <2>1 DEF Entries, IncreaseQueueIdx
  <2> QED
    BY <2>1, <2>2 DEF HandleInv, HandleOK, BuffersConserved
<1> QED
  BY <1>1, HandleInvariant, PTL

\* The transfer never stops, so the only thing main can wait for is the sensor.
THEOREM TransferGoesOn == Spec => []NeverStops
<1>1. HandleInv => NeverStops
  BY DEF HandleInv, HandleOK, NeverStops
<1> QED
  BY <1>1, HandleInvariant, PTL

-----------------------------------------------------------------------------
due == csi_handle.FB[csi_handle.nextBufferIdx]
other == csi_handle.FB[1 - csi_handle.nextBufferIdx]

NumbersOK ==
  /\ row \in 0 .. Rows /\ at \in Nat
  /\ frame \in Nat /\ complete \in Nat /\ newest \in Nat /\ taken \in Nat
  /\ complete < frame /\ newest <= complete /\ taken <= newest
  /\ buffer \in [Buffers -> [1 .. Rows -> Nat]]
  /\ mt9v03x_csi_image \in Buffers

\* Which register the CSI is in follows from the frames the interrupt has missed.
PhaseOK ==
  \/ late = 0 /\ done = {} /\ hw = csi_handle.nextBufferIdx
  \/ late = 1 /\ done = {csi_handle.nextBufferIdx} /\ hw = 1 - csi_handle.nextBufferIdx
  \/ late = 2 /\ done = {0, 1} /\ hw = csi_handle.nextBufferIdx

\* The buffer being filled; the one that is whole; the one main is shown.
FillingOK ==
  /\ row > 0 => into = csi_handle.FB[hw]
  /\ \A r \in 1 .. row : buffer[csi_handle.FB[hw]][r] = frame
WholeOK ==
  /\ newest > 0 => mt9v03x_csi_image = other
  /\ late = 0 /\ newest > 0 =>
       \A r \in 1 .. Rows : buffer[other][r] = buffer[other][1] /\ buffer[other][r] >= newest
  /\ late = 1 => \A r \in 1 .. Rows : buffer[due][r] = complete
  /\ late = 2 => \A r \in 1 .. Rows : buffer[other][r] = complete

CopyOK ==
  /\ seen \subseteq Nat /\ \A f \in seen : f >= taken
  /\ pc = "copy" => base \in Buffers /\ \A r \in 1 .. Rows : buffer[base][r] >= taken

ShownInv == HandleInv /\ NumbersOK /\ PhaseOK /\ FillingOK /\ WholeOK /\ CopyOK

\* The two registers hold the two buffers.
LEMMA Registers ==
  ASSUME HandleInv
  PROVE  /\ csi_handle.nextBufferIdx \in {0, 1}
         /\ due \in Buffers /\ other \in Buffers /\ due # other
         /\ csi_handle.FB[0] \in Buffers /\ csi_handle.FB[1] \in Buffers
  BY DEF HandleInv, HandleOK, HandleType, Buffers, due, other

LEMMA ShownInit == Init => ShownInv
<1> SUFFICES ASSUME Init PROVE ShownInv
  OBVIOUS
<1>1. HandleInv /\ csi_handle.nextBufferIdx = 0
  BY StartedOK DEF Init, HandleInv
<1>2. NumbersOK
  BY CameraAssumption DEF Init, NumbersOK, Buffers
<1> QED
  BY <1>1, <1>2 DEF Init, ShownInv, PhaseOK, FillingOK, WholeOK, CopyOK

LEMMA ShownWriteRow == ShownInv /\ WriteRow => ShownInv'
<1> SUFFICES ASSUME ShownInv, WriteRow PROVE ShownInv'
  OBVIOUS
<1> DEFINE b == csi_handle.FB[hw]
<1>1. /\ UNCHANGED <<csi_handle, hw, done, late, frame, complete, newest,
                     mt9v03x_csi_image, at, base, seen, taken, pc, due, other>>
      /\ row < Rows /\ row' = row + 1 /\ row' \in 0 .. Rows
      /\ into' = b /\ buffer' = [buffer EXCEPT ![b] = [@ EXCEPT ![row + 1] = frame]]
  <2>1. into' = b
    BY DEF WriteRow, ShownInv, NumbersOK, FillingOK
  <2>2. UNCHANGED csi_handle /\ UNCHANGED <<due, other>>
    BY DEF WriteRow, due, other
  <2>3. row' \in 0 .. Rows
    BY CameraAssumption DEF WriteRow, ShownInv, NumbersOK
  <2> QED
    BY <2>1, <2>2, <2>3 DEF WriteRow, main
<1>2. /\ b \in Buffers
      /\ late \in {0, 2} => b = due
      /\ late = 1 => b = other
  BY Registers DEF ShownInv, PhaseOK, due, other
<1>3. HandleInv'
  BY <1>1 DEF ShownInv, HandleInv
<1>4. NumbersOK'
  BY <1>1, <1>2, CameraAssumption DEF ShownInv, NumbersOK
<1>5. \A c \in Buffers \ {b} : buffer'[c] = buffer[c]
  BY <1>1, <1>2 DEF ShownInv, NumbersOK
<1>6. \A r \in 1 .. Rows : buffer'[b][r] = IF r = row + 1 THEN frame ELSE buffer[b][r]
  BY <1>1, <1>2 DEF ShownInv, NumbersOK
<1>7. PhaseOK'
  BY <1>1 DEF ShownInv, PhaseOK
<1>8. FillingOK'
  BY <1>1, <1>6, CameraAssumption DEF ShownInv, FillingOK, NumbersOK
<1>9. WholeOK'
  BY <1>1, <1>2, <1>5, Registers DEF ShownInv, WholeOK, PhaseOK
<1>10. CopyOK'
  <2>1. frame >= taken
    BY DEF ShownInv, NumbersOK
  <2> QED
    BY <1>1, <1>5, <1>6, <2>1 DEF ShownInv, CopyOK
<1> QED
  BY <1>3, <1>4, <1>7, <1>8, <1>9, <1>10 DEF ShownInv

LEMMA ShownFrameDone ==
  ASSUME MaxLate <= 2
  PROVE  ShownInv /\ FrameDone => ShownInv'
<1> SUFFICES ASSUME ShownInv, FrameDone PROVE ShownInv'
  OBVIOUS
<1> DEFINE n == csi_handle.nextBufferIdx
<1>1. /\ UNCHANGED <<csi_handle, newest, mt9v03x_csi_image, buffer, at, base, seen, taken,
                     pc, due, other>>
      /\ row = Rows /\ row' = 0 /\ complete' = frame /\ frame' = frame + 1
      /\ done' = done \union {hw} /\ hw' = 1 - hw /\ late' = late + 1 /\ late < MaxLate
  BY DEF FrameDone, due, other
<1>2. late \in {0, 1}
  BY <1>1, CameraAssumption DEF ShownInv, PhaseOK
<1>3. n \in {0, 1}
  BY Registers DEF ShownInv
<1>4. HandleInv'
  BY <1>1 DEF ShownInv, HandleInv
<1>5. NumbersOK'
  BY <1>1, CameraAssumption DEF ShownInv, NumbersOK
<1>6. PhaseOK'
  BY <1>1, <1>2, <1>3 DEF ShownInv, PhaseOK
<1>7. FillingOK'
  BY <1>1 DEF FillingOK
<1>8. \A r \in 1 .. Rows : buffer[csi_handle.FB[hw]][r] = frame
  BY <1>1 DEF ShownInv, FillingOK
<1>9. WholeOK'
  BY <1>1, <1>2, <1>8 DEF ShownInv, PhaseOK, WholeOK, due, other
<1>10. CopyOK'
  BY <1>1 DEF ShownInv, CopyOK
<1> QED
  BY <1>4, <1>5, <1>6, <1>7, <1>9, <1>10 DEF ShownInv

LEMMA ShownOneFrame == ShownInv /\ OneFrame => ShownInv'
<1> SUFFICES ASSUME ShownInv, OneFrame PROVE ShownInv'
  OBVIOUS
<1> DEFINE n == csi_handle.nextBufferIdx
<1>1. n \in {0, 1} /\ HandleOK(csi_handle)
  BY Registers DEF ShownInv, HandleInv
<1>2. /\ HandleOK(csi_handle') /\ csi_handle'.FB = csi_handle.FB
      /\ csi_handle'.nextBufferIdx = 1 - n
      /\ HasFullBuffer(FrameReceived(csi_handle))
      /\ FullBuffer(FrameReceived(csi_handle)) = due
  BY <1>1, ReceivedOK DEF OneFrame, due
<1>3. /\ mt9v03x_csi_image' = due /\ newest' = complete
      /\ pc' = "copy" <=> pc = "copy"
  BY <1>2 DEF OneFrame, csi_isr, Shown
<1>4. /\ UNCHANGED <<hw, row, into, frame, complete, buffer, at, base, seen, taken>>
      /\ done' = {} /\ late' = 0
  BY DEF OneFrame
<1>5. late = 1 /\ hw = 1 - n
  <2>1. Cardinality(done) = 1
    BY DEF OneFrame
  <2>2. done # {}
    BY <2>1, FS_EmptySet
  <2>3. Cardinality({0, 1}) = 2
    <3>1. IsFiniteSet({0}) /\ Cardinality({0}) = 1 /\ 1 \notin {0}
      BY FS_Singleton
    <3>2. {0, 1} = {0} \union {1}
      OBVIOUS
    <3> QED
      BY <3>1, <3>2, FS_AddElement
  <2> QED
    BY <2>1, <2>2, <2>3 DEF ShownInv, PhaseOK
<1>6. due' = other /\ other' = due
  BY <1>1, <1>2 DEF due, other
<1>7. HandleInv'
  BY <1>2 DEF HandleInv
<1>8. NumbersOK'
  BY <1>1, <1>3, <1>4, Registers DEF ShownInv, NumbersOK
<1>9. PhaseOK'
  BY <1>2, <1>4, <1>5 DEF PhaseOK
<1>10. FillingOK'
  BY <1>2, <1>4 DEF ShownInv, FillingOK
<1>11. WholeOK'
  BY <1>3, <1>4, <1>5, <1>6, CameraAssumption DEF ShownInv, WholeOK, NumbersOK
<1>12. CopyOK'
  BY <1>3, <1>4 DEF ShownInv, CopyOK
<1> QED
  BY <1>7, <1>8, <1>9, <1>10, <1>11, <1>12 DEF ShownInv

LEMMA ShownBothFrames == ShownInv /\ BothFrames => ShownInv'
<1> SUFFICES ASSUME ShownInv, BothFrames PROVE ShownInv'
  OBVIOUS
<1> DEFINE n == csi_handle.nextBufferIdx
<1>1. n \in {0, 1} /\ HandleOK(csi_handle)
  BY Registers DEF ShownInv, HandleInv
<1>2. /\ HandleOK(csi_handle') /\ csi_handle'.nextBufferIdx = 0
      /\ due' = due /\ other' = other
  BY <1>1, ResetOK DEF BothFrames, due, other
<1>3. /\ UNCHANGED <<into, complete, newest, buffer, mt9v03x_csi_image, pc, at, base, seen, taken>>
      /\ hw' = 0 /\ row' = 0 /\ done' = {} /\ late' = 0 /\ frame' \in {frame, frame + 1}
  BY DEF BothFrames, main
<1>4. late = 2
  <2>1. Cardinality(done) = 2
    BY DEF BothFrames
  <2>2. Cardinality({}) = 0 /\ Cardinality({n}) = 1
    BY FS_EmptySet, FS_Singleton
  <2>3. done # {} /\ done # {n}
    BY <2>1, <2>2
  <2> QED
    BY <2>3 DEF ShownInv, PhaseOK
<1>5. HandleInv'
  BY <1>2 DEF HandleInv
<1>6. NumbersOK'
  BY <1>3, CameraAssumption DEF ShownInv, NumbersOK
<1>7. PhaseOK' /\ FillingOK'
  BY <1>2, <1>3 DEF PhaseOK, FillingOK
<1>8. WholeOK'
  BY <1>2, <1>3, <1>4, CameraAssumption DEF ShownInv, WholeOK, NumbersOK
<1>9. CopyOK'
  BY <1>3 DEF ShownInv, CopyOK
<1> QED
  BY <1>5, <1>6, <1>7, <1>8, <1>9 DEF ShownInv

\* What main is shown when it runs, from the invariant.
LEMMA ShownIsFresh ==
  ASSUME ShownInv, MainRuns
  PROVE  \A r \in 1 .. Rows : buffer[mt9v03x_csi_image][r] >= newest
<1>1. late = 0
  BY DEF MainRuns, ShownInv, PhaseOK
<1>2. \A r \in 1 .. Rows : buffer[mt9v03x_csi_image][r] \in Nat
  BY DEF ShownInv, NumbersOK
<1> QED
  BY <1>1, <1>2 DEF ShownInv, WholeOK, NumbersOK

LEMMA ShownMain == ShownInv /\ Main => ShownInv'
<1> SUFFICES ASSUME ShownInv, Main PROVE ShownInv'
  OBVIOUS
<1>1. /\ UNCHANGED <<csi_handle, csi, newest, mt9v03x_csi_image>> /\ MainRuns
  BY DEF Main, MainTakes, MainBegins, MainCopies
<1>2. HandleInv' /\ PhaseOK' /\ FillingOK' /\ WholeOK'
  BY <1>1 DEF csi, ShownInv, HandleInv, PhaseOK, FillingOK, WholeOK, due, other
<1>3. \A r \in 1 .. Rows : buffer[mt9v03x_csi_image][r] >= newest
  BY <1>1, ShownIsFresh
<1>4. NumbersOK'
  <2>1. at' \in Nat /\ taken' \in Nat /\ taken' <= newest
    BY DEF Main, MainTakes, MainBegins, MainCopies, ShownInv, NumbersOK
  <2> QED
    BY <1>1, <2>1 DEF csi, ShownInv, NumbersOK
<1>5. CopyOK'
  <2>1. CASE MainTakes
    BY <2>1, <1>1 DEF MainTakes, csi, ShownInv, CopyOK
  <2>2. CASE MainBegins
    BY <2>2, <1>1, <1>3 DEF MainBegins, csi, ShownInv, NumbersOK, CopyOK
  <2>3. CASE MainCopies
    <3>1. PICK b \in {base, mt9v03x_csi_image} :
            seen' = seen \union {buffer[b][Rows - (at % Rows)]}
      BY <2>3 DEF MainCopies
    <3>2. Rows - (at % Rows) \in 1 .. Rows
      <4>1. at % Rows \in 0 .. Rows - 1
        BY CameraAssumption DEF ShownInv, NumbersOK
      <4> QED
        BY <4>1, CameraAssumption
    <3>3. b \in Buffers /\ \A r \in 1 .. Rows : buffer[b][r] >= taken
      <4>1. \A r \in 1 .. Rows : buffer[mt9v03x_csi_image][r] \in Nat
        BY DEF ShownInv, NumbersOK
      <4>2. \A r \in 1 .. Rows : buffer[mt9v03x_csi_image][r] >= taken
        BY <1>3, <4>1 DEF ShownInv, NumbersOK
      <4> QED
        BY <2>3, <4>2 DEF MainCopies, ShownInv, NumbersOK, CopyOK
    <3>4. buffer[b][Rows - (at % Rows)] \in Nat
      BY <3>2, <3>3 DEF ShownInv, NumbersOK
    <3> QED
      BY <2>3, <1>1, <3>1, <3>2, <3>3, <3>4 DEF MainCopies, csi, ShownInv, CopyOK
  <2> QED
    BY <2>1, <2>2, <2>3 DEF Main
<1> QED
  BY <1>2, <1>4, <1>5 DEF ShownInv

LEMMA ShownInvariant ==
  ASSUME MaxLate <= 2
  PROVE  Spec => []ShownInv
<1>1. ShownInv /\ [Next]_vars => ShownInv'
  <2>1. ShownInv /\ UNCHANGED vars => ShownInv'
    BY DEF vars, csi, main, ShownInv, HandleInv, NumbersOK, PhaseOK, FillingOK, WholeOK,
           CopyOK, due, other
  <2> QED
    BY <2>1, ShownWriteRow, ShownFrameDone, ShownOneFrame, ShownBothFrames, ShownMain
       DEF Next, Csi, CSI_TransferHandleIRQ
<1> QED
  BY <1>1, ShownInit, PTL DEF Spec

\* Main is shown whole frames, out of the CSI's way, if the interrupt misses no more
\* than two of them.
THEOREM ImageIsWhole ==
  ASSUME MaxLate <= 2
  PROVE  Spec => []NewestShown
<1>1. ShownInv => NewestShown
  <2> SUFFICES ASSUME ShownInv, MainRuns, newest > 0
               PROVE  /\ \A r \in 1 .. Rows :
                           /\ buffer[mt9v03x_csi_image][r] = buffer[mt9v03x_csi_image][1]
                           /\ buffer[mt9v03x_csi_image][r] >= newest
                      /\ row > 0 => into # mt9v03x_csi_image
    BY DEF NewestShown
  <2>1. late = 0 /\ hw = csi_handle.nextBufferIdx
    BY DEF MainRuns, ShownInv, PhaseOK
  <2> QED
    BY <2>1, Registers DEF ShownInv, WholeOK, FillingOK, due, other
<1> QED
  BY <1>1, ShownInvariant, PTL

\* And copies nothing older than the newest frame when it began.
THEOREM CopyIsFresh ==
  ASSUME MaxLate <= 2
  PROVE  Spec => []FreshCopy
<1>1. ShownInv => FreshCopy
  BY DEF ShownInv, CopyOK, FreshCopy
<1> QED
  BY <1>1, ShownInvariant, PTL
-----------------------------------------------------------------------------
\* Until a frame ends, a copy has no interrupt, one buffer and one frame.
CountOK ==
  /\ camera_sem \in Nat
  /\ camera_sem > 0 \/ pc \in {"resumed", "copy"} => newest > 0
  /\ late > 0 => complete > 0
OneCopyOK ==
  /\ pc = "copy" /\ ~ended =>
       /\ late = 0 /\ base = mt9v03x_csi_image
       /\ seen \subseteq {buffer[mt9v03x_csi_image][1]}
  /\ ~ended => \E f : seen \subseteq {f}
WholeInv == ShownInv /\ CountOK /\ OneCopyOK

LEMMA WholeStep ==
  ASSUME WholeInv, ShownInv', [Next]_vars
  PROVE  WholeInv'
<1> USE CameraAssumption
<1>0. ShownInv /\ CountOK /\ OneCopyOK
  BY DEF WholeInv
<1>1. CASE WriteRow
  <2>1. UNCHANGED <<mt9v03x_csi_image, camera_sem, late, complete, newest, pc, base, seen, ended>>
    BY <1>1 DEF WriteRow, main
  <2>2. pc = "copy" /\ ~ended => buffer'[mt9v03x_csi_image] = buffer[mt9v03x_csi_image]
    <3> SUFFICES ASSUME pc = "copy", ~ended
                 PROVE  buffer'[mt9v03x_csi_image] = buffer[mt9v03x_csi_image]
      OBVIOUS
    <3>1. mt9v03x_csi_image = other /\ hw = csi_handle.nextBufferIdx
      BY <1>0 DEF CountOK, OneCopyOK, ShownInv, WholeOK, PhaseOK
    <3>2. into' = due
      BY <1>0, <1>1, <3>1 DEF WriteRow, ShownInv, FillingOK, NumbersOK, due
    <3>3. mt9v03x_csi_image # into' /\ mt9v03x_csi_image \in Buffers
      BY <1>0, <3>1, <3>2, Registers DEF ShownInv
    <3> QED
      BY <1>0, <1>1, <3>3 DEF WriteRow, ShownInv, NumbersOK
  <2> QED
    BY <1>0, <2>1, <2>2 DEF WholeInv, CountOK, OneCopyOK
<1>2. CASE FrameDone
  <2>1. UNCHANGED <<mt9v03x_csi_image, camera_sem, newest, pc, seen>>
    BY <1>2 DEF FrameDone
  <2>2. complete' > 0
    BY <1>0, <1>2 DEF FrameDone, ShownInv, NumbersOK
  <2>3. ended' = (ended \/ pc = "copy")
    BY <1>2 DEF FrameDone
  <2> QED
    BY <1>0, <2>1, <2>2, <2>3 DEF WholeInv, CountOK, OneCopyOK
<1>3. CASE OneFrame
  <2>1. done # {}
    BY <1>3, FS_EmptySet DEF OneFrame
  <2>2. late > 0 /\ late # 0
    BY <1>0, <2>1 DEF ShownInv, PhaseOK
  <2>3. /\ HasFullBuffer(FrameReceived(csi_handle))
        /\ UNCHANGED <<complete, seen, ended>> /\ late' = 0
    BY <1>0, <1>3, ReceivedOK DEF OneFrame, ShownInv, HandleInv
  <2>4. newest' = complete /\ camera_sem' = Released /\ (pc' = "copy" => pc = "copy")
    BY <1>3, <2>3 DEF OneFrame, csi_isr
  <2>5. camera_sem' \in Nat
    BY <1>0, <2>4 DEF Released, CountOK
  <2> QED
    BY <1>0, <2>2, <2>3, <2>4, <2>5 DEF WholeInv, CountOK, OneCopyOK
<1>4. CASE BothFrames
  <2>1. done # {}
    BY <1>4, FS_EmptySet DEF BothFrames
  <2>2. late # 0
    BY <1>0, <2>1 DEF ShownInv, PhaseOK
  <2>3. UNCHANGED <<complete, newest, camera_sem, pc, seen, ended>> /\ late' = 0
    BY <1>4 DEF BothFrames, main
  <2> QED
    BY <1>0, <2>2, <2>3 DEF WholeInv, CountOK, OneCopyOK
<1>5. CASE MainTakes
  <2>1. UNCHANGED <<complete, newest, late, seen, ended, buffer, mt9v03x_csi_image>>
    BY <1>5 DEF MainTakes, csi
  <2>2. camera_sem' \in Nat /\ pc' # "copy"
        /\ (camera_sem' > 0 \/ pc' = "resumed" => camera_sem > 0)
    BY <1>0, <1>5 DEF MainTakes, CountOK
  <2> QED
    BY <1>0, <2>1, <2>2 DEF WholeInv, CountOK, OneCopyOK
<1>6. CASE MainBegins
  <2>1. late = 0
    BY <1>0, <1>6 DEF MainBegins, MainRuns, ShownInv, PhaseOK
  <2>2. seen' = {} /\ base' = mt9v03x_csi_image'
    BY <1>6 DEF MainBegins
  <2> QED
    BY <1>0, <1>6, <2>1, <2>2 DEF MainBegins, csi, WholeInv, CountOK, OneCopyOK
<1>7. CASE MainCopies
  <2>1. /\ UNCHANGED <<complete, newest, late, ended, buffer, mt9v03x_csi_image, camera_sem, base>>
        /\ pc = "copy"
    BY <1>7 DEF MainCopies, csi
  <2>2. ~ended => seen' \subseteq {buffer[mt9v03x_csi_image][1]}
    <3> SUFFICES ASSUME ~ended PROVE seen' \subseteq {buffer[mt9v03x_csi_image][1]}
      OBVIOUS
    <3>1. seen' = seen \union {buffer[mt9v03x_csi_image][Rows - (at % Rows)]}
      BY <1>0, <1>7 DEF MainCopies, OneCopyOK
    <3>2. Rows - (at % Rows) \in 1 .. Rows
      <4>1. at % Rows \in 0 .. Rows - 1
        BY <1>0 DEF ShownInv, NumbersOK
      <4> QED
        BY <4>1
    <3>3. buffer[mt9v03x_csi_image][Rows - (at % Rows)] = buffer[mt9v03x_csi_image][1]
      BY <1>0, <2>1, <3>2 DEF CountOK, OneCopyOK, ShownInv, WholeOK
    <3> QED
      BY <1>0, <2>1, <3>1, <3>3 DEF OneCopyOK
  <2> QED
    BY <1>0, <2>1, <2>2 DEF WholeInv, CountOK, OneCopyOK
<1>8. CASE UNCHANGED vars
  BY <1>0, <1>8 DEF vars, csi, main, WholeInv, CountOK, OneCopyOK
<1> QED
  BY <1>1, <1>2, <1>3, <1>4, <1>5, <1>6, <1>7, <1>8 DEF Next, Csi, CSI_TransferHandleIRQ, Main

\* A copy during which no frame ends is of one frame.
THEOREM CopyIsWhole ==
  ASSUME MaxLate <= 2
  PROVE  Spec => []WholeCopy
<1>1. Init => WholeInv
  BY ShownInit DEF Init, WholeInv, CountOK, OneCopyOK
<1>2. WholeInv /\ ShownInv' /\ [Next]_vars => WholeInv'
  BY WholeStep
<1>3. WholeInv => WholeCopy
  <2> SUFFICES ASSUME WholeInv, ~ended PROVE Cardinality(seen) <= 1
    BY DEF WholeCopy
  <2>1. PICK f : seen \subseteq {f}
    BY DEF WholeInv, OneCopyOK
  <2>2. seen = {} \/ seen = {f}
    BY <2>1
  <2>3. Cardinality({}) = 0 /\ Cardinality({f}) = 1
    BY FS_EmptySet, FS_Singleton
  <2> QED
    BY <2>2, <2>3
<1> QED
  BY <1>1, <1>2, <1>3, ShownInvariant, PTL DEF Spec

-----------------------------------------------------------------------------
\* What the CSI and main may hold besides the handle: a row is written only while frames
\* come, and a copy has a pixel to go.
CsiTyped ==
  /\ hw \in {0, 1} /\ row \in 0 .. Rows /\ into \in Buffers \union {None}
  /\ row > 0 => into \in Buffers /\ frame <= MaxFrames
  /\ done \subseteq {0, 1} /\ late \in 0 .. MaxLate
  /\ frame \in 1 .. MaxFrames + 1 /\ complete \in 0 .. MaxFrames /\ newest \in 0 .. MaxFrames
  /\ buffer \in [Buffers -> [1 .. Rows -> 0 .. MaxFrames]]
Pixels == Rows * Cols
MainTyped ==
  /\ mt9v03x_csi_image \in Buffers /\ camera_sem \in 0 .. RT_SEM_VALUE_MAX
  /\ pc \in {"drive", "wait", "resumed", "copy"} /\ at \in 0 .. Pixels
  /\ base \in Buffers \union {None} /\ (pc = "copy" => base \in Buffers /\ at < Pixels)
  /\ seen \subseteq 0 .. MaxFrames /\ taken \in 0 .. MaxFrames /\ ended \in BOOLEAN
Typed == HandleInv /\ CsiTyped /\ MainTyped

LEMMA PixelsType == Pixels \in Nat \ {0}
<1>1. Rows \in Nat \ {0} /\ Cols \in Nat \ {0}
  BY CameraAssumption
<1> QED
  BY <1>1 DEF Pixels

LEMMA TypedInit == Init => Typed
<1> SUFFICES ASSUME Init PROVE Typed
  OBVIOUS
<1>1. HandleInv
  BY StartedOK DEF Init, HandleInv
<1>2. CsiTyped
  BY CameraAssumption DEF Init, CsiTyped, Buffers, None
<1>3. MainTyped
  <2>1. /\ mt9v03x_csi_image = 1 /\ camera_sem = 0 /\ pc = "drive" /\ at = 0
        /\ base = 0 /\ seen = {} /\ taken = 0 /\ ended = FALSE
    BY DEF Init, None
  <2>2. /\ 1 \in Buffers /\ base \in Buffers \union {None}
        /\ 0 \in 0 .. RT_SEM_VALUE_MAX /\ 0 \in 0 .. Pixels /\ 0 \in 0 .. MaxFrames
    BY <2>1, CameraAssumption, PixelsType DEF Buffers, None
  <2> QED
    BY <2>1, <2>2 DEF MainTyped
<1> QED
  BY <1>1, <1>2, <1>3 DEF Typed

LEMMA TypedCsi == Typed /\ Csi => Typed'
<1> SUFFICES ASSUME Typed, Csi PROVE Typed'
  OBVIOUS
<1>1. HandleInv /\ CsiTyped /\ MainTyped
  BY DEF Typed
<1>2. CASE WriteRow
  <2>1. csi_handle.FB[hw] \in Buffers
    <3>1. csi_handle.FB[0] \in Buffers /\ csi_handle.FB[1] \in Buffers
      BY <1>1, Registers
    <3> QED
      BY <1>1, <3>1 DEF CsiTyped
  <2>2. /\ into' \in Buffers /\ row < Rows /\ row' = row + 1 /\ frame <= MaxFrames
        /\ buffer' = [buffer EXCEPT ![into'] = [@ EXCEPT ![row + 1] = frame]]
        /\ UNCHANGED <<csi_handle, hw, done, late, frame, complete, newest,
                       mt9v03x_csi_image, camera_sem, pc, at, base, seen, taken, ended>>
    BY <1>1, <1>2, <2>1 DEF WriteRow, main, CsiTyped
  <2>3. row' \in 1 .. Rows
    BY <1>1, <2>2, CameraAssumption DEF CsiTyped
  <2>4. buffer' \in [Buffers -> [1 .. Rows -> 0 .. MaxFrames]]
    <3>1. frame \in 0 .. MaxFrames /\ buffer[into'] \in [1 .. Rows -> 0 .. MaxFrames]
      BY <1>1, <2>2, CameraAssumption DEF CsiTyped
    <3>2. [buffer[into'] EXCEPT ![row + 1] = frame] \in [1 .. Rows -> 0 .. MaxFrames]
      BY <3>1
    <3> QED
      BY <1>1, <2>2, <3>2 DEF CsiTyped
  <2>5. CsiTyped'
    BY <1>1, <2>2, <2>3, <2>4 DEF CsiTyped
  <2>6. HandleInv' /\ MainTyped'
    BY <1>1, <2>2 DEF HandleInv, MainTyped
  <2> QED
    BY <2>5, <2>6 DEF Typed
<1>3. CASE FrameDone
  <2>1. /\ row = Rows /\ late < MaxLate /\ done' = done \union {hw} /\ late' = late + 1
        /\ hw' = 1 - hw /\ row' = 0 /\ complete' = frame /\ frame' = frame + 1
        /\ ended' = (ended \/ pc = "copy")
        /\ UNCHANGED <<csi_handle, into, newest, buffer, mt9v03x_csi_image, camera_sem,
                       pc, at, base, seen, taken>>
    BY <1>3 DEF FrameDone
  <2>2. frame \in 1 .. MaxFrames
    BY <1>1, <2>1, CameraAssumption DEF CsiTyped
  <2>3. CsiTyped'
    BY <1>1, <2>1, <2>2, CameraAssumption DEF CsiTyped
  <2>4. HandleInv' /\ MainTyped'
    BY <1>1, <2>1 DEF HandleInv, MainTyped
  <2> QED
    BY <2>3, <2>4 DEF Typed
<1> QED
  BY <1>2, <1>3 DEF Csi

LEMMA TypedIrq == Typed /\ CSI_TransferHandleIRQ => Typed'
<1> SUFFICES ASSUME Typed, CSI_TransferHandleIRQ PROVE Typed'
  OBVIOUS
<1>1. HandleInv /\ CsiTyped /\ MainTyped
  BY DEF Typed
<1>2. CASE OneFrame
  <2>1. /\ HandleInv' /\ HasFullBuffer(FrameReceived(csi_handle))
        /\ FullBuffer(FrameReceived(csi_handle)) \in Buffers
    <3>1. /\ HandleOK(csi_handle')
          /\ HasFullBuffer(FrameReceived(csi_handle))
          /\ FullBuffer(FrameReceived(csi_handle)) = due
      BY <1>1, <1>2, ReceivedOK DEF OneFrame, HandleInv, due
    <3> QED
      BY <1>1, <3>1, Registers DEF HandleInv
  <2>2. /\ mt9v03x_csi_image' \in Buffers /\ newest' = complete
        /\ pc' = pc \/ (pc = "wait" /\ pc' = "resumed")
        /\ camera_sem' = Released
        /\ UNCHANGED <<hw, row, into, frame, complete, buffer, at, base, seen, taken, ended>>
        /\ done' = {} /\ late' = 0
    BY <1>2, <2>1 DEF OneFrame, csi_isr, Shown
  <2>3. camera_sem' \in 0 .. RT_SEM_VALUE_MAX
    BY <1>1, <2>2, CameraAssumption DEF Released, MainTyped
  <2>4. CsiTyped'
    BY <1>1, <2>2, CameraAssumption DEF CsiTyped
  <2>5. MainTyped'
    BY <1>1, <2>2, <2>3 DEF MainTyped
  <2> QED
    BY <2>1, <2>4, <2>5 DEF Typed
<1>3. CASE BothFrames
  <2>1. /\ csi_handle' = Reset(csi_handle) /\ hw' = 0 /\ row' = 0
        /\ frame' = IF row = 0 THEN frame ELSE frame + 1
        /\ done' = {} /\ late' = 0
        /\ UNCHANGED <<into, complete, newest, buffer, mt9v03x_csi_image, camera_sem,
                       pc, at, base, seen, taken, ended>>
    BY <1>3 DEF BothFrames, main
  <2>2. HandleInv'
    BY <1>1, <2>1, ResetOK DEF HandleInv
  <2>3. CsiTyped'
    BY <1>1, <2>1, CameraAssumption DEF CsiTyped
  <2>4. MainTyped'
    BY <1>1, <2>1 DEF MainTyped
  <2> QED
    BY <2>2, <2>3, <2>4 DEF Typed
<1> QED
  BY <1>2, <1>3 DEF CSI_TransferHandleIRQ

LEMMA TypedMain == Typed /\ Main => Typed'
<1> SUFFICES ASSUME Typed, Main PROVE Typed'
  OBVIOUS
<1>1. HandleInv /\ CsiTyped /\ MainTyped
  BY DEF Typed
<1>2. UNCHANGED <<csi_handle, hw, row, into, done, late, frame, complete, buffer, newest, mt9v03x_csi_image>>
  BY DEF Main, MainTakes, MainBegins, MainCopies, csi
<1>3. HandleInv' /\ CsiTyped'
  BY <1>1, <1>2 DEF HandleInv, CsiTyped
<1>4. CASE MainTakes
  <2>1. /\ UNCHANGED <<mt9v03x_csi_image, at, base, seen, taken, ended>>
        /\ pc' \in {"resumed", "wait"}
    BY <1>4 DEF MainTakes
  <2>2. camera_sem' \in 0 .. RT_SEM_VALUE_MAX
    BY <1>1, <1>4, CameraAssumption DEF MainTakes, MainTyped
  <2>3. MainTyped'
    BY <1>1, <2>1, <2>2 DEF MainTyped
  <2> QED
    BY <1>3, <2>3 DEF Typed
<1>5. CASE MainBegins
  <2>1. newest \in 0 .. MaxFrames /\ 0 \in 0 .. Pixels /\ 0 < Pixels
    BY <1>1, PixelsType DEF CsiTyped
  <2>2. /\ pc' = "copy" /\ at' = 0 /\ base' = mt9v03x_csi_image
        /\ seen' = {} /\ taken' = newest /\ ended' = FALSE
        /\ UNCHANGED <<mt9v03x_csi_image, camera_sem>>
    BY <1>5 DEF MainBegins
  <2>3. MainTyped'
    BY <1>1, <2>1, <2>2 DEF MainTyped
  <2> QED
    BY <1>3, <2>3 DEF Typed
<1>6. CASE MainCopies
  <2>1. PICK b \in {base, mt9v03x_csi_image} :
          seen' = seen \union {buffer[b][Rows - (at % Rows)]}
    BY <1>6 DEF MainCopies
  <2>2. /\ pc = "copy" /\ at' = at + 1
        /\ pc' = IF at' = Pixels THEN "drive" ELSE "copy"
        /\ UNCHANGED <<mt9v03x_csi_image, camera_sem, base, taken, ended>>
    BY <1>6 DEF MainCopies, Pixels
  <2>3. at \in 0 .. Pixels - 1 /\ Pixels \in Nat
    BY <1>1, <2>2, PixelsType DEF MainTyped
  <2>4. Rows - (at % Rows) \in 1 .. Rows
    BY <2>3, CameraAssumption
  <2>5. buffer[b][Rows - (at % Rows)] \in 0 .. MaxFrames
    BY <1>1, <2>2, <2>4 DEF MainTyped, CsiTyped
  <2>6. /\ at' \in 0 .. Pixels /\ pc' \in {"drive", "copy"}
        /\ pc' = "copy" => at' < Pixels
    BY <2>2, <2>3
  <2>7. seen' \subseteq 0 .. MaxFrames
    BY <1>1, <2>1, <2>5 DEF MainTyped
  <2>8. MainTyped'
    BY <1>1, <2>2, <2>6, <2>7 DEF MainTyped
  <2> QED
    BY <1>3, <2>8 DEF Typed
<1> QED
  BY <1>3, <1>4, <1>5, <1>6 DEF Main, Typed

\* Every field of the handle, the registers of the CSI and main's variables keep their types,
\* however late the interrupt is.
THEOREM CameraTyped == Spec => []TypeOK
<1>1. Typed /\ [Next]_vars => Typed'
  <2>1. Typed /\ UNCHANGED vars => Typed'
    BY DEF vars, csi, main, Typed, HandleInv, CsiTyped, MainTyped
  <2> QED
    BY <2>1, TypedCsi, TypedIrq, TypedMain DEF Next
<1>2. Typed => TypeOK
  BY DEF Typed, HandleInv, HandleOK, CsiTyped, MainTyped, TypeOK, Pixels
<1> QED
  BY <1>1, <1>2, TypedInit, PTL DEF Spec
=============================================================================

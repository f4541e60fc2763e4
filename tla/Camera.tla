------------------------------- MODULE Camera -------------------------------
(***************************************************************************)
(* The camera: fsl_csi.c's queue of frame buffers, the two buffers of       *)
(* SEEKFREE_MT9V03X_CSI.c, csi_isr with camera_sem, and main, which takes    *)
(* the semaphore and copies the image (get_pic).  The CSI writes rows into   *)
(* the buffers by DMA whatever the program does; the interrupt may be held   *)
(* up for MaxLate frames, and no thread runs before it has been served.      *)
(*                                                                          *)
(* A buffer is a row of frame numbers: pixels are told apart by the frame    *)
(* they were taken from.                                                    *)
(***************************************************************************)
EXTENDS Naturals, FiniteSets

CONSTANTS
  Rows, Cols,          \* the image, 120 x 188 in the code
  MaxFrames,           \* bound: frames the sensor delivers
  MaxLate,             \* bound: frames that end before the interrupt is served
  RT_SEM_VALUE_MAX     \* camera_sem counts no further (65535)

ASSUME CameraAssumption ==
  /\ Rows \in Nat \ {0} /\ Cols \in Nat \ {0}
  /\ MaxFrames \in Nat /\ MaxLate \in Nat /\ RT_SEM_VALUE_MAX \in Nat \ {0}

CSI_DRIVER_QUEUE_SIZE == 2
CSI_DRIVER_ACTUAL_QUEUE_SIZE == 3
QueueIdx == 0 .. CSI_DRIVER_ACTUAL_QUEUE_SIZE - 1

Buffers == {1, 2}                  \* mt9v03x_csi1_image, mt9v03x_csi2_image
None == 0

VARIABLES
  csi_handle,                      \* the driver's handle and its two registers FB
  hw, row, into, done, late,       \* the CSI: register in use, rows written, into
                                   \* which buffer, FB_DMA_DONE flags
  frame, complete, newest,         \* frame received, last one ended, last handed over
  buffer,
  mt9v03x_csi_image, camera_sem,
  pc, at, base,                    \* main: what it does, pixel, image when it began
  seen, taken, ended               \* frames copied; newest and FrameDone since then

csi == <<hw, row, into, done, late, frame, complete, buffer>>
main == <<pc, at, base, seen, taken, ended>>
vars == <<csi_handle, csi, newest, mt9v03x_csi_image, camera_sem, main>>

-----------------------------------------------------------------------------
\* The driver's queue.
IncreaseQueueIdx(idx) == IF idx + 1 >= CSI_DRIVER_ACTUAL_QUEUE_SIZE THEN 0 ELSE idx + 1

GetQueueDelta(startIdx, endIdx) ==
  IF endIdx >= startIdx THEN endIdx - startIdx
  ELSE startIdx + CSI_DRIVER_ACTUAL_QUEUE_SIZE - endIdx

GetEmptyBufferCount(h) == GetQueueDelta(h.queueDrvReadIdx, h.queueUserWriteIdx)

\* nextBufferIdx ^= 1.
OtherRegister(i) == 1 - i

LoadBufferToDevice(h) ==
  [h EXCEPT !.FB = [@ EXCEPT ![h.nextBufferIdx] = h.frameBufferQueue[h.queueDrvReadIdx]],
            !.queueDrvReadIdx = IncreaseQueueIdx(@),
            !.activeBufferNum = @ + 1,
            !.nextBufferIdx = OtherRegister(@)]

\* Loading two buffers, in TransferStart and when a stopped transfer goes on.
Restarted(h) ==
  LoadBufferToDevice(LoadBufferToDevice([h EXCEPT !.nextBufferIdx = 0, !.transferOnGoing = TRUE]))

CSI_TransferStart(h) ==
  IF GetEmptyBufferCount(h) < 2 THEN h
  ELSE Restarted([h EXCEPT !.activeBufferNum = 0, !.transferStarted = TRUE])

Queued(h, b) ==
  [h EXCEPT !.frameBufferQueue = [@ EXCEPT ![h.queueUserWriteIdx] = b],
            !.queueUserWriteIdx = IncreaseQueueIdx(@)]
CSI_TransferSubmitEmptyBuffer(h, b) ==
  IF CSI_DRIVER_QUEUE_SIZE = GetQueueDelta(h.queueUserReadIdx, h.queueUserWriteIdx) THEN h
  ELSE LET q == Queued(h, b)
       IN IF q.transferStarted /\ ~q.transferOnGoing /\ GetEmptyBufferCount(q) >= 2
            THEN Restarted(q) ELSE q

HasFullBuffer(h) == h.queueUserReadIdx # h.queueDrvWriteIdx
FullBuffer(h) == h.frameBufferQueue[h.queueUserReadIdx]
FullBufferTaken(h) == [h EXCEPT !.queueUserReadIdx = IncreaseQueueIdx(@)]

\* CSI_TransferCreateHandle clears the handle.
Created ==
  [frameBufferQueue |-> [i \in QueueIdx |-> None], queueUserReadIdx |-> 0,
   queueUserWriteIdx |-> 0, queueDrvReadIdx |-> 0, queueDrvWriteIdx |-> 0,
   activeBufferNum |-> 0, nextBufferIdx |-> 0, transferStarted |-> FALSE,
   transferOnGoing |-> FALSE, FB |-> [i \in {0, 1} |-> None]]

\* After mt9v03x_csi_init.
Init ==
  /\ csi_handle = CSI_TransferStart(CSI_TransferSubmitEmptyBuffer(
                    CSI_TransferSubmitEmptyBuffer(Created, 1), 2))
  /\ hw = 0 /\ row = 0 /\ into = None /\ done = {} /\ late = 0
  /\ frame = 1 /\ complete = 0 /\ newest = 0
  /\ buffer = [b \in Buffers |-> [r \in 1 .. Rows |-> 0]]
  /\ mt9v03x_csi_image = 1 /\ camera_sem = 0
  /\ pc = "drive" /\ at = 0 /\ base = None /\ seen = {} /\ taken = 0 /\ ended = FALSE

-----------------------------------------------------------------------------
\* The CSI.  The base address is latched at the first data of a frame
\* (BASEADDR_SWITCH_SEL in CSI_TransferStart).
WriteRow ==
  /\ csi_handle.transferOnGoing /\ frame <= MaxFrames /\ row < Rows
  /\ into' = IF row = 0 THEN csi_handle.FB[hw] ELSE into
  /\ buffer' = [buffer EXCEPT ![into'] = [@ EXCEPT ![row + 1] = frame]]
  /\ row' = row + 1
  /\ UNCHANGED <<csi_handle, hw, done, late, frame, complete, newest,
                 mt9v03x_csi_image, camera_sem, main>>

\* The frame ends: its flag is set, and the CSI goes on with the other register.
FrameDone ==
  /\ row = Rows /\ late < MaxLate
  /\ done' = done \union {hw} /\ late' = late + 1
  /\ hw' = 1 - hw /\ row' = 0
  /\ complete' = frame /\ frame' = frame + 1
  /\ ended' = (ended \/ pc = "copy")
  /\ UNCHANGED <<csi_handle, into, newest, buffer, mt9v03x_csi_image, camera_sem,
                 pc, at, base, seen, taken>>

-----------------------------------------------------------------------------
\* rt_sem_release: a suspended thread is resumed instead of counting.
Released == IF pc = "wait" THEN camera_sem
            ELSE IF camera_sem < RT_SEM_VALUE_MAX THEN camera_sem + 1 ELSE camera_sem

\* csi_isr, called back by the driver: the full buffer is queued again at once, and
\* shown.  Mutants: it is not queued again; the two addresses are mixed up.
NotResubmitted(h, b) == h
Resubmitted(h, b) == CSI_TransferSubmitEmptyBuffer(h, b)
ShownSwapped(b) == 3 - b
Shown(b) == b
AfterIsr(h) == IF HasFullBuffer(h) THEN Resubmitted(FullBufferTaken(h), FullBuffer(h)) ELSE h
csi_isr(h) ==
  IF HasFullBuffer(h)
    THEN /\ mt9v03x_csi_image' = Shown(FullBuffer(h))
         /\ camera_sem' = Released /\ newest' = complete
         /\ IF pc = "wait" THEN pc' = "resumed" ELSE UNCHANGED pc
    ELSE UNCHANGED <<mt9v03x_csi_image, camera_sem, newest, pc>>

\* CSI_TransferHandleIRQ with one flag set.
FrameReceived(h) ==
  [h EXCEPT !.queueDrvWriteIdx = IncreaseQueueIdx(@), !.activeBufferNum = @ - 1]
Continued(h) ==
  IF h.activeBufferNum = 0 THEN [h EXCEPT !.transferOnGoing = FALSE]
  ELSE IF GetEmptyBufferCount(h) # 0 THEN LoadBufferToDevice(h) ELSE h
OneFrame ==
  /\ Cardinality(done) = 1
  /\ csi_handle' = Continued(AfterIsr(FrameReceived(csi_handle)))
  /\ csi_isr(FrameReceived(csi_handle))
  /\ done' = {} /\ late' = 0
  /\ UNCHANGED <<hw, row, into, frame, complete, buffer, at, base, seen, taken, ended>>

\* With both: the driver cannot tell which one came first, stops the CSI and starts it
\* again with register 0; no frame is handed over.  Mutant: it starts from the read index.
RestartsAtRead(h) == h.queueDrvReadIdx
RestartsAt(h) == h.queueDrvWriteIdx
Reset(h) ==
  CASE h.activeBufferNum = 2 ->
         [h EXCEPT !.FB = [@ EXCEPT ![0] = h.frameBufferQueue[RestartsAt(h)],
                                    ![1] = h.frameBufferQueue[IncreaseQueueIdx(RestartsAt(h))]],
                   !.nextBufferIdx = 0]
    [] h.activeBufferNum = 1 ->
         [h EXCEPT !.FB = [@ EXCEPT ![0] = h.frameBufferQueue[RestartsAt(h)]], !.nextBufferIdx = 1]
    [] OTHER -> h
BothFrames ==
  /\ Cardinality(done) = 2
  /\ csi_handle' = Reset(csi_handle)
  /\ hw' = 0 /\ row' = 0
  /\ frame' = IF row = 0 THEN frame ELSE frame + 1
  /\ done' = {} /\ late' = 0
  /\ UNCHANGED <<into, complete, newest, buffer, mt9v03x_csi_image, camera_sem, main>>

-----------------------------------------------------------------------------
\* main: rt_sem_take, then get_pic copies the image column by column, from the last
\* row.  The compiler may read mt9v03x_csi_image once or every time.
MainRuns == done = {}
MainTakes ==
  /\ MainRuns /\ pc = "drive"
  /\ IF camera_sem > 0
       THEN pc' = "resumed" /\ camera_sem' = camera_sem - 1
       ELSE pc' = "wait" /\ UNCHANGED camera_sem
  /\ UNCHANGED <<csi_handle, csi, newest, mt9v03x_csi_image, at, base, seen, taken, ended>>
MainBegins ==
  /\ MainRuns /\ pc = "resumed"
  /\ pc' = "copy" /\ at' = 0 /\ base' = mt9v03x_csi_image
  /\ seen' = {} /\ taken' = newest /\ ended' = FALSE
  /\ UNCHANGED <<csi_handle, csi, newest, mt9v03x_csi_image, camera_sem>>
MainCopies ==
  /\ MainRuns /\ pc = "copy"
  /\ \E b \in {base, mt9v03x_csi_image} :
       seen' = seen \union {buffer[b][Rows - (at % Rows)]}
  /\ at' = at + 1
  /\ pc' = IF at' = Rows * Cols THEN "drive" ELSE "copy"
  /\ UNCHANGED <<csi_handle, csi, newest, mt9v03x_csi_image, camera_sem, base, taken, ended>>

Csi == WriteRow \/ FrameDone
CSI_TransferHandleIRQ == OneFrame \/ BothFrames
Main == MainTakes \/ MainBegins \/ MainCopies
Next == Csi \/ CSI_TransferHandleIRQ \/ Main

Spec == Init /\ [][Next]_vars

-----------------------------------------------------------------------------
HandleType ==
  [frameBufferQueue : [QueueIdx -> Buffers \union {None}],
   queueUserReadIdx : QueueIdx, queueUserWriteIdx : QueueIdx,
   queueDrvReadIdx : QueueIdx, queueDrvWriteIdx : QueueIdx,
   activeBufferNum : 0 .. 2, nextBufferIdx : {0, 1}, transferStarted : BOOLEAN,
   transferOnGoing : BOOLEAN, FB : [{0, 1} -> Buffers \union {None}]]

TypeOK ==
  /\ csi_handle \in HandleType
  /\ hw \in {0, 1} /\ row \in 0 .. Rows /\ into \in Buffers \union {None}
  /\ done \subseteq {0, 1} /\ late \in 0 .. MaxLate
  /\ frame \in 1 .. MaxFrames + 1 /\ complete \in 0 .. MaxFrames /\ newest \in 0 .. MaxFrames
  /\ buffer \in [Buffers -> [1 .. Rows -> 0 .. MaxFrames]]
  /\ mt9v03x_csi_image \in Buffers /\ camera_sem \in 0 .. RT_SEM_VALUE_MAX
  /\ pc \in {"drive", "wait", "resumed", "copy"} /\ at \in 0 .. Rows * Cols
  /\ base \in Buffers \union {None}
  /\ seen \subseteq 0 .. MaxFrames /\ taken \in 0 .. MaxFrames /\ ended \in BOOLEAN

Entries(from, to) == (to + CSI_DRIVER_ACTUAL_QUEUE_SIZE - from) % CSI_DRIVER_ACTUAL_QUEUE_SIZE

\* csi_isr gives back the buffer it shows, so none may be lost or queued twice, and the
\* CSI always has the two of them in its registers, the one to be full next in turn.
BuffersConserved ==
  LET h == csi_handle
  IN /\ h.queueUserReadIdx = h.queueDrvWriteIdx
     /\ Entries(h.queueUserReadIdx, h.queueUserWriteIdx) = 2
     /\ {h.FB[0], h.FB[1]} = Buffers
     /\ h.FB[h.nextBufferIdx] = h.frameBufferQueue[h.queueDrvWriteIdx]
     /\ h.FB[1 - h.nextBufferIdx] = h.frameBufferQueue[IncreaseQueueIdx(h.queueDrvWriteIdx)]
     /\ h.activeBufferNum = Entries(h.queueDrvWriteIdx, h.queueDrvReadIdx)

\* The transfer never stops for want of an empty buffer: nobody would start it again
\* while main waits for camera_sem.
NeverStops == csi_handle.transferOnGoing /\ csi_handle.activeBufferNum = 2

\* Whenever a thread can run, mt9v03x_csi_image points to a whole frame, no older than
\* the one handed over last, and not to the buffer that is being written.
NewestShown ==
  MainRuns /\ newest > 0 =>
    LET image == buffer[mt9v03x_csi_image]
    IN /\ \A r \in 1 .. Rows : image[r] = image[1] /\ image[r] >= newest
       /\ row > 0 => into # mt9v03x_csi_image

\* camera_sem may count frames that are long gone, yet what main copies is never older
\* than the frame handed over last when it began.
FreshCopy == \A f \in seen : f >= taken

\* A copy during which no frame ends is of one frame; others may mix frames.
WholeCopy == ~ended => Cardinality(seen) <= 1

=============================================================================

--------------------------- MODULE MailboxProofs ---------------------------
(***************************************************************************)
(* Proofs about Mailbox for every capacity, set of mails and finite set of *)
(* receivers.  Two inductive invariants: RingInv, about the buffer, ties   *)
(* mb->entry to the two offsets; WakeInv, about the waiting receivers,     *)
(* adds that the waiters' list and the threads' states agree, without      *)
(* which a resume might wake nobody.                                       *)
(***************************************************************************)
EXTENDS Mailbox, FiniteSetTheorems, SequenceTheorems, TLAPS

RingInv == TypeOK /\ OffsetsAgree

-----------------------------------------------------------------------------
\* All the proofs use of the size.
LEMMA SizeType == Size \in Nat \ {0}
BY SizeAssumption

\* Offsets stay inside the pool.
LEMMA WrapType == \A offset \in 0 .. Size : Wrap(offset) \in Index
BY SizeType DEF Wrap, Index

\* Slots of the waiting mails lie inside the pool and differ from each other and
\* from the slot the next mail goes to.
LEMMA SlotFacts ==
  ASSUME TypeOK
  PROVE  /\ \A i \in 0 .. Size - 1 : Slot(i) \in Index
         /\ \A i, j \in 0 .. Size - 1 : Slot(i) = Slot(j) => i = j
<1>1. Size \in Nat \ {0} /\ out_offset \in 0 .. Size - 1
  BY SizeType DEF TypeOK, Index
<1>2. ASSUME NEW i \in 0 .. Size - 1 PROVE Slot(i) \in Index
  BY <1>1 DEF Slot, Index
<1>3. ASSUME NEW i \in 0 .. Size - 1, NEW j \in 0 .. Size - 1, Slot(i) = Slot(j)
      PROVE  i = j
  BY <1>1, <1>3 DEF Slot
<1> QED
  BY <1>2, <1>3

LEMMA InitRing == Init => RingInv
<1> SUFFICES ASSUME Init PROVE RingInv
  OBVIOUS
<1>1. TypeOK
  <2>1. 0 \in Index /\ entry \in 0 .. Size /\ in_offset = 0 /\ out_offset = 0
    BY SizeType DEF Init, rt_mb_create, Index
  <2>2. msg_pool \in [Index -> Msg \union {NoMsg}] /\ suspend_thread \in Seq(Receivers)
    BY DEF Init, rt_mb_create
  <2>3. /\ thread \in [Receivers -> ThreadState]
        /\ value \in [Receivers -> Msg \union {NoMsg}]
        /\ err \in {"RT_EOK", "RT_EFULL"}
    BY DEF Init, ThreadState
  <2> QED
    BY <2>1, <2>2, <2>3 DEF TypeOK
<1>2. OffsetsAgree
  <2>1. Size \in Nat \ {0} /\ entry = 0 /\ in_offset = 0 /\ out_offset = 0
    BY SizeType DEF Init, rt_mb_create
  <2>2. 0 .. entry - 1 = {}
    BY <2>1
  <2> QED
    BY <2>1, <2>2 DEF OffsetsAgree, Slot
<1> QED
  BY <1>1, <1>2 DEF RingInv

LEMMA SendFullRing == RingInv /\ SendFull => RingInv'
BY DEF RingInv, TypeOK, OffsetsAgree, SendFull, Full, mailbox, Slot

LEMMA SendOkRing ==
  ASSUME NEW m \in Msg, RingInv, SendOk(m)
  PROVE  RingInv'
<1>1. TypeOK'
  <2>1. in_offset' \in Index /\ entry' \in 0 .. Size
    BY WrapType, SizeType DEF RingInv, TypeOK, SendOk, Full, Index
  <2>2. msg_pool' \in [Index -> Msg \union {NoMsg}]
    BY DEF RingInv, TypeOK, SendOk, Full
  <2>3. suspend_thread' \in Seq(Receivers) /\ thread' \in [Receivers -> ThreadState]
    <3>1. /\ suspend_thread \in Seq(Receivers) /\ thread \in [Receivers -> ThreadState]
          /\ ResumeFirst
      BY DEF RingInv, TypeOK, SendOk
    <3>2. CASE suspend_thread = << >>
      BY <3>1, <3>2 DEF ResumeFirst
    <3>3. CASE suspend_thread # << >>
      <4>1. Tail(suspend_thread) \in Seq(Receivers)
        BY <3>1, <3>3
      <4>2. [thread EXCEPT ![Head(suspend_thread)] = "recv"] \in [Receivers -> ThreadState]
        BY <3>1 DEF ThreadState
      <4> QED
        BY <3>1, <3>3, <4>1, <4>2 DEF ResumeFirst
    <3> QED
      BY <3>2, <3>3
  <2> QED
    BY <2>1, <2>2, <2>3 DEF RingInv, TypeOK, SendOk, Full
<1>2. OffsetsAgree'
  <2>1. in_offset = Slot(entry) /\ entry \in 0 .. Size - 1
    <3>1. entry # Size /\ entry \in 0 .. Size
      BY DEF RingInv, TypeOK, SendOk, Full
    <3> QED
      BY <3>1, SizeType DEF RingInv, OffsetsAgree
  <2>2. out_offset' = out_offset /\ entry' = entry + 1
    BY DEF SendOk, Full
  <2>3. in_offset' = (IF entry = Size THEN out_offset ELSE Slot(entry))'
    BY <2>1, <2>2, SizeType DEF RingInv, TypeOK, SendOk, Full, Slot, Wrap, Index
  <2>4. ASSUME NEW i \in 0 .. entry' - 1
        PROVE  msg_pool'[Slot(i)'] \in Msg
    <3>1. Slot(i)' = Slot(i)
      BY <2>2 DEF Slot
    <3>2. i \in 0 .. Size - 1 /\ (i = entry \/ i \in 0 .. entry - 1)
      BY <2>1, <2>2, SizeType DEF RingInv, TypeOK
    <3>3. CASE i = entry
      BY <3>1, <3>3, <2>1 DEF RingInv, TypeOK, SendOk, Full
    <3>4. CASE i \in 0 .. entry - 1
      <4>1. Slot(i) # in_offset /\ Slot(i) \in Index
        BY <3>2, <3>4, <2>1, SlotFacts, SizeType DEF RingInv, TypeOK
      <4> QED
        BY <4>1, <3>1, <3>4 DEF RingInv, TypeOK, OffsetsAgree, SendOk, Full
    <3> QED
      BY <3>2, <3>3, <3>4
  <2> QED
    BY <2>3, <2>4 DEF OffsetsAgree
<1> QED
  BY <1>1, <1>2 DEF RingInv

LEMMA RecvCallRing ==
  ASSUME NEW r \in Receivers, RingInv, RecvCall(r)
  PROVE  RingInv'
BY DEF RingInv, TypeOK, OffsetsAgree, RecvCall, mailbox, Slot, ThreadState

LEMMA RecvSuspendRing ==
  ASSUME NEW r \in Receivers, RingInv, RecvSuspend(r)
  PROVE  RingInv'
BY DEF RingInv, TypeOK, OffsetsAgree, RecvSuspend, mailbox, Slot, ThreadState

LEMMA RecvTakeRing ==
  ASSUME NEW r \in Receivers, RingInv, RecvTake(r)
  PROVE  RingInv'
<1>1. TypeOK'
  <2>1. out_offset' \in Index /\ entry' \in 0 .. Size
    BY WrapType, SizeType DEF RingInv, TypeOK, RecvTake, Index
  <2>2. value' \in [Receivers -> Msg \union {NoMsg}]
    BY DEF RingInv, TypeOK, RecvTake
  <2> QED
    BY <2>1, <2>2 DEF RingInv, TypeOK, RecvTake, ThreadState
<1>2. OffsetsAgree'
  <2>1. entry \in 1 .. Size /\ entry' = entry - 1 /\ out_offset' = Wrap(out_offset + 1)
    BY SizeType DEF RingInv, TypeOK, RecvTake
  <2>2. \A i \in 0 .. Size - 2 : Slot(i)' = Slot(i + 1)
    BY <2>1, SizeType DEF RingInv, TypeOK, Slot, Wrap, Index
  <2>3. in_offset' = (IF entry = Size THEN out_offset ELSE Slot(entry))'
    <3>1. in_offset' = in_offset /\ entry' # Size /\ out_offset \in 0 .. Size - 1
      <4>1. in_offset' = in_offset
        BY DEF RecvTake
      <4>2. out_offset \in 0 .. Size - 1
        BY DEF RingInv, TypeOK, Index
      <4>3. entry' # Size
        BY <2>1, SizeType
      <4> QED
        BY <4>1, <4>2, <4>3
    <3>2. in_offset = (IF entry = Size THEN out_offset ELSE Slot(entry))
      BY DEF RingInv, OffsetsAgree
    <3>3. Size \in Nat \ {0}
      BY SizeType
    <3> QED
      BY <2>1, <3>1, <3>2, <3>3 DEF Slot, Wrap
  <2>4. ASSUME NEW i \in 0 .. entry' - 1
        PROVE  msg_pool'[Slot(i)'] \in Msg
    <3>1. i + 1 \in 0 .. entry - 1 /\ i \in 0 .. Size - 2
      BY <2>1, SizeType
    <3>2. msg_pool' = msg_pool /\ Slot(i)' = Slot(i + 1)
      BY <2>2, <3>1 DEF RecvTake
    <3> QED
      BY <3>1, <3>2 DEF RingInv, OffsetsAgree
  <2> QED
    BY <2>3, <2>4 DEF OffsetsAgree
<1> QED
  BY <1>1, <1>2 DEF RingInv

LEMMA NextRing == RingInv /\ [Next]_vars => RingInv'
<1> SUFFICES ASSUME RingInv, [Next]_vars PROVE RingInv'
  OBVIOUS
<1>1. CASE Next
  BY <1>1, SendFullRing, SendOkRing, RecvCallRing, RecvSuspendRing, RecvTakeRing DEF Next
<1>2. CASE UNCHANGED vars
  BY <1>2 DEF RingInv, TypeOK, OffsetsAgree, Slot, vars, mailbox
<1> QED
  BY <1>1, <1>2

\* Every field of struct rt_mailbox stays in its range.
THEOREM TypeCorrect == Spec => []TypeOK
<1>1. RingInv => TypeOK
  BY DEF RingInv
<1> QED
  BY <1>1, InitRing, NextRing, PTL DEF Spec

\* rt_mb_send and rt_mb_recv keep the offsets and mb->entry consistent.
THEOREM OffsetsCorrect == Spec => []OffsetsAgree
<1>1. RingInv => OffsetsAgree
  BY DEF RingInv
<1> QED
  BY <1>1, InitRing, NextRing, PTL DEF Spec

-----------------------------------------------------------------------------
WakeInv == TypeOK /\ WaitersAgree /\ NoLostWakeup

LEMMA ReadyFinite == IsFiniteSet(Ready) /\ Cardinality(Ready) \in Nat
<1>1. IsFiniteSet(Ready)
  BY MailboxAssumption, FS_Subset DEF Ready
<1> QED
  BY <1>1, FS_CardinalityType

LEMMA InitWake == Init => WakeInv
<1> SUFFICES ASSUME Init PROVE WakeInv
  OBVIOUS
<1>1. TypeOK
  BY InitRing DEF RingInv
<1>2. suspend_thread = << >> /\ \A r \in Receivers : thread[r] = "busy"
  BY DEF Init, rt_mb_create
<1> QED
  BY <1>1, <1>2 DEF WakeInv, WaitersAgree, NoLostWakeup

LEMMA SendOkWake ==
  ASSUME NEW m \in Msg, WakeInv, TypeOK', SendOk(m)
  PROVE  WakeInv'
<1>1. CASE suspend_thread = << >>
  BY <1>1 DEF WakeInv, WaitersAgree, NoLostWakeup, SendOk, Full, ResumeFirst
<1>2. CASE suspend_thread # << >>
  <2> DEFINE w == Head(suspend_thread)
  <2>1. suspend_thread \in Seq(Receivers) /\ thread \in [Receivers -> ThreadState]
    BY DEF WakeInv, TypeOK
  <2>2. /\ w \in Receivers /\ w = suspend_thread[1] /\ Len(suspend_thread) \in Nat \ {0}
        /\ DOMAIN suspend_thread = 1 .. Len(suspend_thread)
        /\ DOMAIN Tail(suspend_thread) = 1 .. Len(suspend_thread) - 1
        /\ \A i \in DOMAIN Tail(suspend_thread) :
             Tail(suspend_thread)[i] = suspend_thread[i + 1]
    BY <1>2, <2>1, HeadTailProperties, EmptySeq, LenProperties
  <2>3. /\ suspend_thread' = Tail(suspend_thread)
        /\ thread' = [thread EXCEPT ![w] = "recv"]
        /\ entry' = entry + 1
    BY <1>2 DEF SendOk, Full, ResumeFirst
  <2>4. thread[w] = "suspended"
    BY <2>2 DEF WakeInv, WaitersAgree
  <2>5. WaitersAgree'
    <3>1. ASSUME NEW i \in DOMAIN suspend_thread', NEW j \in DOMAIN suspend_thread',
                 suspend_thread'[i] = suspend_thread'[j]
          PROVE  i = j
      <4>1. /\ i \in Nat /\ j \in Nat
            /\ i + 1 \in DOMAIN suspend_thread /\ j + 1 \in DOMAIN suspend_thread
        BY <2>2, <2>3
      <4>2. suspend_thread[i + 1] = suspend_thread[j + 1]
        BY <2>2, <2>3, <3>1
      <4> QED
        BY <4>1, <4>2 DEF WakeInv, WaitersAgree
    <3>2. ASSUME NEW r \in Receivers
          PROVE  thread'[r] = "suspended" <=>
                   \E i \in DOMAIN suspend_thread' : suspend_thread'[i] = r
      <4>1. CASE r = w
        <5>1. thread'[r] # "suspended"
          BY <4>1, <2>1, <2>3
        <5>2. ASSUME NEW i \in DOMAIN suspend_thread' PROVE suspend_thread'[i] # r
          <6>1. i \in Nat /\ i + 1 # 1 /\ i + 1 \in DOMAIN suspend_thread /\ 1 \in DOMAIN suspend_thread
            BY <2>2, <2>3
          <6>2. suspend_thread[i + 1] # suspend_thread[1]
            BY <6>1 DEF WakeInv, WaitersAgree
          <6> QED
            BY <6>2, <4>1, <2>2, <2>3
        <5> QED
          BY <5>1, <5>2
      <4>2. CASE r # w
        <5>1. thread'[r] = thread[r]
          BY <4>2, <2>1, <2>3
        <5>2. ASSUME NEW i \in DOMAIN suspend_thread, suspend_thread[i] = r
              PROVE  \E k \in DOMAIN suspend_thread' : suspend_thread'[k] = r
          <6>1. i # 1
            BY <4>2, <5>2, <2>2
          <6>2. i - 1 \in DOMAIN Tail(suspend_thread) /\ (i - 1) + 1 = i
            BY <6>1, <2>2
          <6>3. Tail(suspend_thread)[i - 1] = r
            BY <6>2, <5>2, <2>2
          <6> QED
            BY <6>2, <6>3, <2>3
        <5>3. ASSUME NEW k \in DOMAIN suspend_thread', suspend_thread'[k] = r
              PROVE  \E i \in DOMAIN suspend_thread : suspend_thread[i] = r
          <6>1. k + 1 \in DOMAIN suspend_thread /\ suspend_thread[k + 1] = r
            BY <5>3, <2>2, <2>3
          <6> QED
            BY <6>1
        <5>4. thread[r] = "suspended" <=> \E i \in DOMAIN suspend_thread : suspend_thread[i] = r
          BY DEF WakeInv, WaitersAgree
        <5> QED
          BY <5>1, <5>2, <5>3, <5>4
      <4> QED
        BY <4>1, <4>2
    <3> QED
      BY <3>1, <3>2 DEF WaitersAgree
  <2>6. Cardinality(Ready') = Cardinality(Ready) + 1
    <3>1. w \notin Ready /\ Ready' = Ready \union {w}
      BY <2>1, <2>2, <2>3, <2>4 DEF Ready
    <3> QED
      BY <3>1, ReadyFinite, FS_AddElement
  <2>7. entry <= Cardinality(Ready) /\ entry \in Nat
    BY <1>2, SizeType DEF WakeInv, NoLostWakeup, TypeOK
  <2>8. NoLostWakeup'
    BY <2>3, <2>6, <2>7, ReadyFinite DEF NoLostWakeup
  <2> QED
    BY <2>5, <2>8 DEF WakeInv
<1> QED
  BY <1>1, <1>2

LEMMA RecvCallWake ==
  ASSUME NEW r \in Receivers, WakeInv, TypeOK', RecvCall(r)
  PROVE  WakeInv'
<1>1. /\ thread' = [thread EXCEPT ![r] = "recv"] /\ thread[r] = "busy"
      /\ suspend_thread' = suspend_thread /\ entry' = entry
      /\ thread \in [Receivers -> ThreadState]
  BY DEF RecvCall, mailbox, WakeInv, TypeOK
<1>2. WaitersAgree'
  BY <1>1 DEF WakeInv, WaitersAgree
<1>3. Cardinality(Ready') = Cardinality(Ready) + 1
  <2>1. r \notin Ready /\ Ready' = Ready \union {r}
    BY <1>1 DEF Ready
  <2> QED
    BY <2>1, ReadyFinite, FS_AddElement
<1>4. entry \in Nat
  BY SizeType DEF WakeInv, TypeOK
<1>5. NoLostWakeup'
  BY <1>1, <1>3, <1>4, ReadyFinite DEF WakeInv, NoLostWakeup
<1> QED
  BY <1>2, <1>5 DEF WakeInv

LEMMA RecvSuspendWake ==
  ASSUME NEW r \in Receivers, WakeInv, TypeOK', RecvSuspend(r)
  PROVE  WakeInv'
<1>1. /\ thread' = [thread EXCEPT ![r] = "suspended"] /\ thread[r] = "recv"
      /\ suspend_thread' = Append(suspend_thread, r) /\ entry' = 0
      /\ thread \in [Receivers -> ThreadState] /\ suspend_thread \in Seq(Receivers)
  BY DEF RecvSuspend, mailbox, WakeInv, TypeOK
<1>2. /\ Len(suspend_thread) \in Nat
      /\ DOMAIN suspend_thread = 1 .. Len(suspend_thread)
      /\ DOMAIN suspend_thread' = 1 .. Len(suspend_thread) + 1
      /\ \A i \in DOMAIN suspend_thread : suspend_thread'[i] = suspend_thread[i]
      /\ suspend_thread'[Len(suspend_thread) + 1] = r
  BY <1>1
<1>3. \A i \in DOMAIN suspend_thread : suspend_thread[i] # r
  BY <1>1 DEF WakeInv, WaitersAgree
<1>4. \A i \in DOMAIN suspend_thread' :
        i \in DOMAIN suspend_thread \/ i = Len(suspend_thread) + 1
  BY <1>2
<1>5. WaitersAgree'
  <2>1. \A i, j \in DOMAIN suspend_thread' :
          suspend_thread'[i] = suspend_thread'[j] => i = j
    BY <1>2, <1>3, <1>4 DEF WakeInv, WaitersAgree
  <2>2. ASSUME NEW s \in Receivers
        PROVE  thread'[s] = "suspended" <=>
                 \E i \in DOMAIN suspend_thread' : suspend_thread'[i] = s
    <3>1. thread[s] = "suspended" <=> \E i \in DOMAIN suspend_thread : suspend_thread[i] = s
      BY DEF WakeInv, WaitersAgree
    <3>2. thread'[s] = "suspended" <=> s = r \/ thread[s] = "suspended"
      BY <1>1
    <3>3. (\E i \in DOMAIN suspend_thread' : suspend_thread'[i] = s)
            <=> s = r \/ \E i \in DOMAIN suspend_thread : suspend_thread[i] = s
      <4>1. Len(suspend_thread) + 1 \in DOMAIN suspend_thread'
        BY <1>2
      <4>2. DOMAIN suspend_thread \subseteq DOMAIN suspend_thread'
        BY <1>2
      <4> QED
        BY <4>1, <4>2, <1>2, <1>4
    <3> QED
      BY <3>1, <3>2, <3>3
  <2> QED
    BY <2>1, <2>2 DEF WaitersAgree
<1>6. NoLostWakeup'
  <2>1. Ready' = Ready \ {r}
    BY <1>1 DEF Ready
  <2>2. Cardinality(Ready') \in Nat
    BY <2>1, ReadyFinite, FS_RemoveElement, FS_CardinalityType
  <2> QED
    BY <1>1, <2>2 DEF NoLostWakeup
<1> QED
  BY <1>5, <1>6 DEF WakeInv

LEMMA RecvTakeWake ==
  ASSUME NEW r \in Receivers, WakeInv, TypeOK', RecvTake(r)
  PROVE  WakeInv'
<1>1. /\ thread' = [thread EXCEPT ![r] = "busy"] /\ thread[r] = "recv"
      /\ suspend_thread' = suspend_thread /\ entry' = entry - 1
      /\ thread \in [Receivers -> ThreadState]
  BY DEF RecvTake, WakeInv, TypeOK
<1>2. WaitersAgree'
  BY <1>1 DEF WakeInv, WaitersAgree
<1>3. Cardinality(Ready') = Cardinality(Ready) - 1
  <2>1. r \in Ready /\ Ready' = Ready \ {r}
    BY <1>1 DEF Ready, ThreadState
  <2> QED
    BY <2>1, ReadyFinite, FS_RemoveElement
<1>4. entry \in Nat
  BY SizeType DEF WakeInv, TypeOK
<1>5. NoLostWakeup'
  BY <1>1, <1>3, <1>4, ReadyFinite DEF WakeInv, NoLostWakeup
<1> QED
  BY <1>2, <1>5 DEF WakeInv

LEMMA NextWake == WakeInv /\ TypeOK' /\ [Next]_vars => WakeInv'
<1> SUFFICES ASSUME WakeInv, TypeOK', [Next]_vars PROVE WakeInv'
  OBVIOUS
<1>1. CASE SendFull \/ UNCHANGED vars
  <2>1. entry' = entry /\ suspend_thread' = suspend_thread /\ thread' = thread
    BY <1>1 DEF SendFull, Full, vars, mailbox
  <2>2. Ready' = Ready /\ WaitersAgree'
    BY <2>1 DEF Ready, WakeInv, WaitersAgree
  <2> QED
    BY <2>1, <2>2 DEF WakeInv, NoLostWakeup
<1>2. CASE \E m \in Msg : SendOk(m)
  BY <1>2, SendOkWake
<1>3. CASE \E r \in Receivers : RecvCall(r) \/ RecvSuspend(r) \/ RecvTake(r)
  BY <1>3, RecvCallWake, RecvSuspendWake, RecvTakeWake
<1> QED
  BY <1>1, <1>2, <1>3 DEF Next

\* No receiver sleeps while a mail nobody is coming for waits in the mailbox.
THEOREM WakeupCorrect == Spec => []NoLostWakeup
<1>1. WakeInv => NoLostWakeup
  BY DEF WakeInv
<1> QED
  BY <1>1, InitWake, NextWake, TypeCorrect, PTL DEF Spec

\* The list of waiters and the states of the receivers agree: a receiver is on the list
\* once and only while it sleeps, so resuming the head resumes a sleeper.
THEOREM WaitersCorrect == Spec => []WaitersAgree
<1>1. WakeInv => WaitersAgree
  BY DEF WakeInv
<1> QED
  BY <1>1, InitWake, NextWake, TypeCorrect, PTL DEF Spec

-----------------------------------------------------------------------------
(***************************************************************************)
(* The ring buffer of ipc.c implements the bounded FIFO of MailboxSpec, for *)
(* every capacity: each step of rt_mb_send or rt_mb_recv is one step of     *)
(* the FIFO, or leaves it unchanged (calls, suspensions).                   *)
(***************************************************************************)
\* The waiting mails read off the ring form a sequence of entry mails.
QueueReadsRing ==
  /\ queue \in Seq(Msg)
  /\ Len(queue) = entry
  /\ \A i \in 1 .. entry : queue[i] = msg_pool[Slot(i - 1)]

LEMMA QueueIsSeq == RingInv => QueueReadsRing
<1> SUFFICES ASSUME RingInv PROVE QueueReadsRing
  OBVIOUS
<1>1. entry \in Nat
  BY SizeType DEF RingInv, TypeOK
<1>2. \A i \in 1 .. entry : msg_pool[Slot(i - 1)] \in Msg
  BY <1>1 DEF RingInv, OffsetsAgree
<1>3. queue \in [1 .. entry -> Msg]
  BY <1>2 DEF queue
<1> QED
  BY <1>1, <1>3 DEF queue, QueueReadsRing

LEMMA InitRefines == Init => Fifo!Init
<1> SUFFICES ASSUME Init PROVE Fifo!Init
  OBVIOUS
<1>1. entry = 0
  BY DEF Init, rt_mb_create
<1>2. queue = << >>
  BY <1>1, InitRing, QueueIsSeq, EmptySeq DEF QueueReadsRing
<1> QED
  BY <1>2 DEF Init, Fifo!Init

\* A step that leaves the ring alone leaves the FIFO alone.
LEMMA QueueUnchanged == UNCHANGED mailbox => UNCHANGED queue
BY DEF mailbox, queue, Slot

LEMMA SendFullRefines == RingInv /\ SendFull => Fifo!Refuse
BY QueueIsSeq, QueueUnchanged DEF SendFull, Full, Fifo!Refuse, QueueReadsRing

LEMMA SendOkRefines ==
  ASSUME NEW m \in Msg, RingInv, SendOk(m)
  PROVE  Fifo!Accept(m)
<1>1. RingInv'
  BY SendOkRing
<1>2. entry \in 0 .. Size - 1 /\ entry' = entry + 1 /\ out_offset' = out_offset
  BY SizeType DEF RingInv, TypeOK, SendOk, Full
<1>3. Len(queue) < Size
  <2>1. Len(queue) = entry
    BY QueueIsSeq DEF QueueReadsRing
  <2> QED
    BY <1>2, <2>1, SizeType
<1>4. queue' = Append(queue, m)
  <2>1. /\ queue' \in Seq(Msg)
        /\ Len(queue') = entry + 1
        /\ \A i \in 1 .. entry + 1 : queue'[i] = msg_pool'[Slot(i - 1)]
    <3>1. \A i \in 1 .. entry + 1 : Slot(i - 1)' = Slot(i - 1)
      BY <1>2 DEF Slot
    <3>2. /\ queue' \in Seq(Msg)
          /\ Len(queue') = entry'
          /\ \A i \in 1 .. entry' : queue'[i] = msg_pool'[Slot(i - 1)']
      <4>1. QueueReadsRing'
        BY <1>1, QueueIsSeq, PTL
      <4> QED
        BY <4>1 DEF QueueReadsRing
    <3> QED
      BY <1>2, <3>1, <3>2
  <2>2. queue \in Seq(Msg) /\ Len(queue) = entry
    BY QueueIsSeq DEF QueueReadsRing
  <2>3. ASSUME NEW i \in 1 .. entry PROVE queue'[i] = queue[i]
    <3>1. Slot(i - 1) # in_offset
      <4>1. in_offset = Slot(entry)
        BY <1>2, SizeType DEF RingInv, OffsetsAgree
      <4> QED
        BY <1>2, <4>1, SlotFacts, SizeType DEF RingInv
    <3>2. msg_pool'[Slot(i - 1)] = msg_pool[Slot(i - 1)]
      BY <3>1 DEF SendOk, Full, RingInv, TypeOK
    <3> QED
      <4>1. queue[i] = msg_pool[Slot(i - 1)]
        BY <1>2, QueueIsSeq DEF QueueReadsRing
      <4> QED
        BY <1>2, <2>1, <3>2, <4>1
  <2>4. queue'[entry + 1] = m
    <3>1. Slot(entry) = in_offset /\ in_offset \in Index
      BY <1>2, SizeType DEF RingInv, TypeOK, OffsetsAgree
    <3> QED
      BY <1>2, <2>1, <3>1 DEF SendOk, Full, RingInv, TypeOK
  <2>5. /\ Append(queue, m) \in Seq(Msg)
        /\ Len(Append(queue, m)) = entry + 1
        /\ \A i \in 1 .. entry : Append(queue, m)[i] = queue[i]
        /\ Append(queue, m)[entry + 1] = m
    BY <1>2, <2>2
  <2>6. \A i \in 1 .. Len(queue') : queue'[i] = Append(queue, m)[i]
    BY <1>2, <2>1, <2>3, <2>4, <2>5
  <2> QED
    BY <2>1, <2>5, <2>6, SeqEqual
<1> QED
  BY <1>3, <1>4 DEF SendOk, Full, Fifo!Accept

LEMMA RecvTakeRefines ==
  ASSUME NEW r \in Receivers, RingInv, RecvTake(r)
  PROVE  Fifo!Deliver(r)
<1>1. RingInv'
  BY RecvTakeRing
<1>2. /\ entry \in 1 .. Size /\ entry' = entry - 1
      /\ msg_pool' = msg_pool /\ out_offset' = Wrap(out_offset + 1)
  BY SizeType DEF RingInv, TypeOK, RecvTake
<1>3. queue \in Seq(Msg) /\ Len(queue) = entry
  BY QueueIsSeq DEF QueueReadsRing
<1>4. queue # << >>
  BY <1>2, <1>3, EmptySeq
<1>5. Head(queue) = msg_pool[out_offset]
  <2>1. Slot(0) = out_offset
    BY SizeType DEF RingInv, TypeOK, Slot, Index
  <2>2. queue[1] = msg_pool[Slot(1 - 1)]
    BY <1>2, QueueIsSeq DEF QueueReadsRing
  <2> QED
    BY <1>2, <1>3, <2>1, <2>2
<1>6. queue' = Tail(queue)
  <2>1. \A i \in 1 .. entry - 1 : Slot(i - 1)' = Slot(i)
    BY <1>2, SizeType DEF RingInv, TypeOK, Slot, Wrap, Index
  <2>2. /\ queue' \in Seq(Msg)
        /\ Len(queue') = entry'
        /\ \A i \in 1 .. entry' : queue'[i] = msg_pool'[Slot(i - 1)']
    <3>1. QueueReadsRing'
      BY <1>1, QueueIsSeq, PTL
    <3> QED
      BY <3>1 DEF QueueReadsRing
  <2>3. ASSUME NEW i \in 1 .. entry - 1 PROVE queue'[i] = queue[i + 1]
    <3>1. queue'[i] = msg_pool[Slot(i)]
      BY <1>2, <2>1, <2>2
    <3>2. i + 1 \in 1 .. entry /\ (i + 1) - 1 = i
      BY <1>2
    <3>3. queue[i + 1] = msg_pool[Slot((i + 1) - 1)]
      BY <3>2, QueueIsSeq DEF QueueReadsRing
    <3> QED
      BY <3>1, <3>2, <3>3
  <2>4. /\ Tail(queue) \in Seq(Msg)
        /\ Len(Tail(queue)) = entry - 1
        /\ \A i \in 1 .. entry - 1 : Tail(queue)[i] = queue[i + 1]
    BY <1>3, <1>4, HeadTailProperties
  <2>5. \A i \in 1 .. Len(queue') : queue'[i] = Tail(queue)[i]
    BY <1>2, <2>2, <2>3, <2>4
  <2> QED
    BY <1>2, <2>2, <2>4, <2>5, SeqEqual
<1> QED
  BY <1>4, <1>5, <1>6 DEF RecvTake, Fifo!Deliver

LEMMA NextRefines == RingInv /\ [Next]_vars => [Fifo!Next]_(Fifo!vars)
<1> SUFFICES ASSUME RingInv, [Next]_vars PROVE [Fifo!Next]_(Fifo!vars)
  OBVIOUS
<1>1. CASE SendFull
  BY <1>1, SendFullRefines DEF Fifo!Next
<1>2. ASSUME NEW m \in Msg, SendOk(m) PROVE [Fifo!Next]_(Fifo!vars)
  BY <1>2, SendOkRefines DEF Fifo!Next
<1>3. ASSUME NEW r \in Receivers, RecvCall(r) PROVE [Fifo!Next]_(Fifo!vars)
  BY <1>3, QueueUnchanged DEF RecvCall, Fifo!vars
<1>4. ASSUME NEW r \in Receivers, RecvSuspend(r) PROVE [Fifo!Next]_(Fifo!vars)
  BY <1>4, QueueUnchanged DEF RecvSuspend, Fifo!vars
<1>5. ASSUME NEW r \in Receivers, RecvTake(r) PROVE [Fifo!Next]_(Fifo!vars)
  BY <1>5, RecvTakeRefines DEF Fifo!Next
<1>6. CASE UNCHANGED vars
  BY <1>6, QueueUnchanged DEF vars, Fifo!vars
<1> QED
  BY <1>1, <1>2, <1>3, <1>4, <1>5, <1>6 DEF Next

\* The mailbox of ipc.c is a bounded FIFO: no accepted mail is lost, duplicated
\* or overtaken, whatever its capacity and whoever sends and receives.
THEOREM RefinesFifo == Spec => ImplementsFifo
<1> QED
  BY InitRefines, InitRing, NextRing, NextRefines, PTL DEF Spec, ImplementsFifo, Fifo!Spec
=============================================================================

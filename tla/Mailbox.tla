------------------------------ MODULE Mailbox ------------------------------
(***************************************************************************)
(* The mailbox of rt-thread (ipc.c) as this firmware uses it: any context, *)
(* interrupt handlers included, calls rt_mb_send (never blocking); threads *)
(* call rt_mb_recv(.., RT_WAITING_FOREVER).  Every section the kernel runs *)
(* with interrupts disabled is one action; a receiver can be preempted     *)
(* between being resumed and looking at the mailbox again.                 *)
(***************************************************************************)
EXTENDS Naturals, Sequences, FiniteSets

CONSTANTS Msg, Receivers, Size, NoMsg

ASSUME SizeAssumption == Size \in 1 .. 65535   \* mb->size, mb->entry: 16 bits
ASSUME MailboxAssumption == IsFiniteSet(Receivers) /\ NoMsg \notin Msg

VARIABLES
  msg_pool, entry, in_offset, out_offset,   \* struct rt_mailbox
  suspend_thread,                           \* receivers waiting, first come first
  thread,                                   \* thread[r]: where r is
  value, err

mailbox == <<msg_pool, entry, in_offset, out_offset>>
vars == <<mailbox, suspend_thread, thread, value, err>>

Index == 0 .. Size - 1

\* busy: handling a mail;  recv: in rt_mb_recv, about to test mb->entry;
\* suspended: on mb->parent.suspend_thread.
ThreadState == {"busy", "recv", "suspended"}

\* The wrap both offsets make after an increment.
Wrap(offset) == IF offset >= Size THEN 0 ELSE offset

rt_mb_create ==
  /\ msg_pool \in [Index -> {NoMsg}]
  /\ entry = 0 /\ in_offset = 0 /\ out_offset = 0
  /\ suspend_thread = << >>

Init ==
  /\ rt_mb_create
  /\ thread = [r \in Receivers |-> "busy"]
  /\ value = [r \in Receivers |-> NoMsg]
  /\ err = "RT_EOK"

-----------------------------------------------------------------------------
\* mb->entry == mb->size.  Mutant: off by one.
FullOffByOne == entry > Size
Full == entry = Size

\* rt_mb_send = rt_mb_send_wait with timeout 0: refused when full.
SendFull ==
  /\ Full
  /\ err' = "RT_EFULL"
  /\ UNCHANGED <<mailbox, suspend_thread, thread, value>>

\* Mutants of the resume below: nobody is made ready; only the first mail of an
\* empty mailbox makes somebody ready.
ResumeNobody == UNCHANGED <<suspend_thread, thread>>
ResumeIfWasEmpty ==
  IF suspend_thread = << >> \/ entry > 0
    THEN UNCHANGED <<suspend_thread, thread>>
    ELSE /\ thread' = [thread EXCEPT ![Head(suspend_thread)] = "recv"]
         /\ suspend_thread' = Tail(suspend_thread)

\* rt_list_isempty / rt_ipc_list_resume: make the first waiting receiver ready.
ResumeFirst ==
  IF suspend_thread = << >>
    THEN UNCHANGED <<suspend_thread, thread>>
    ELSE /\ thread' = [thread EXCEPT ![Head(suspend_thread)] = "recv"]
         /\ suspend_thread' = Tail(suspend_thread)

SendOk(m) ==
  /\ ~ Full
  /\ msg_pool' = [msg_pool EXCEPT ![in_offset] = m]
  /\ in_offset' = Wrap(in_offset + 1)
  /\ entry' = entry + 1
  /\ ResumeFirst
  /\ err' = "RT_EOK"
  /\ UNCHANGED <<out_offset, value>>

\* A receiver that has handled its mail calls rt_mb_recv again.
RecvCall(r) ==
  /\ thread[r] = "busy"
  /\ thread' = [thread EXCEPT ![r] = "recv"]
  /\ UNCHANGED <<mailbox, suspend_thread, value, err>>

\* while (mb->entry == 0): join the waiters; resumed, test again.
RecvSuspend(r) ==
  /\ thread[r] = "recv"
  /\ entry = 0
  /\ thread' = [thread EXCEPT ![r] = "suspended"]
  /\ suspend_thread' = Append(suspend_thread, r)
  /\ UNCHANGED <<mailbox, value, err>>

RecvTake(r) ==
  /\ thread[r] = "recv"
  /\ entry # 0
  /\ value' = [value EXCEPT ![r] = msg_pool[out_offset]]
  /\ out_offset' = Wrap(out_offset + 1)
  /\ entry' = entry - 1
  /\ thread' = [thread EXCEPT ![r] = "busy"]
  /\ UNCHANGED <<msg_pool, in_offset, suspend_thread, err>>

Next ==
  \/ SendFull
  \/ \E m \in Msg : SendOk(m)
  \/ \E r \in Receivers : RecvCall(r) \/ RecvSuspend(r) \/ RecvTake(r)

\* A ready receiver runs in the end: the handlers loop back to rt_mb_recv.
Fairness ==
  \A r \in Receivers : WF_vars(RecvCall(r) \/ RecvSuspend(r) \/ RecvTake(r))

Spec == Init /\ [][Next]_vars
FairSpec == Spec /\ Fairness

-----------------------------------------------------------------------------
TypeOK ==
  /\ msg_pool \in [Index -> Msg \union {NoMsg}]
  /\ entry \in 0 .. Size
  /\ in_offset \in Index
  /\ out_offset \in Index
  /\ suspend_thread \in Seq(Receivers)
  /\ thread \in [Receivers -> ThreadState]
  /\ value \in [Receivers -> Msg \union {NoMsg}]
  /\ err \in {"RT_EOK", "RT_EFULL"}

\* The slot i places after the oldest mail.
Slot(i) == IF out_offset + i < Size THEN out_offset + i ELSE out_offset + i - Size

Ready == {r \in Receivers : thread[r] = "recv"}

\* The next mail is stored behind the last accepted one, and the occupied slots
\* hold mails: rt_mb_send and rt_mb_recv advance their offsets independently and
\* only mb->entry ties them together.
OffsetsAgree ==
  /\ in_offset = (IF entry = Size THEN out_offset ELSE Slot(entry))
  /\ \A i \in 0 .. entry - 1 : msg_pool[Slot(i)] \in Msg

\* No lost wake-up: while a receiver sleeps on the mailbox every mail in it has a
\* ready receiver of its own, because rt_mb_send resumes one thread per mail.
NoLostWakeup ==
  suspend_thread # << >> => entry <= Cardinality(Ready)

\* The waiters' list and the threads' states agree: a thread is on
\* suspend_thread once exactly when it is suspended.
WaitersAgree ==
  /\ \A i, j \in DOMAIN suspend_thread :
       suspend_thread[i] = suspend_thread[j] => i = j
  /\ \A r \in Receivers :
       thread[r] = "suspended" <=> \E i \in DOMAIN suspend_thread : suspend_thread[i] = r

\* The ring buffer behaves as the bounded FIFO of MailboxSpec: no mail is lost,
\* duplicated or overtaken once rt_mb_send returned RT_EOK, and -RT_EFULL is
\* returned exactly when Size mails are waiting.
queue == [i \in 1 .. entry |-> msg_pool[Slot(i - 1)]]
Fifo == INSTANCE MailboxSpec WITH queue <- queue, value <- value, err <- err
ImplementsFifo == Fifo!Spec

\* A full mailbox is drained: a mail never stays behind a sleeping receiver.
FullDrains == (entry = Size) ~> (entry < Size)
=============================================================================

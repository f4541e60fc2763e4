---------------------------- MODULE MailboxSpec ----------------------------
(***************************************************************************)
(* What a mailbox of the RT-Thread kernel promises the car's threads: a    *)
(* bounded first-in first-out queue of mails.  A send never waits: it is   *)
(* refused with -RT_EFULL, and the refused mail is the new one, when the   *)
(* queue holds Size mails.  A receive hands over the oldest mail.          *)
(***************************************************************************)
EXTENDS Naturals, Sequences

CONSTANTS
  Msg,        \* the mails
  Receivers,  \* the threads that call rt_mb_recv
  Size,       \* capacity, the second argument of rt_mb_create
  NoMsg       \* content of a variable no mail was received into yet

VARIABLES
  queue,      \* accepted mails nobody has received, oldest first
  value,      \* value[r]: what r's last rt_mb_recv stored through its pointer
  err         \* what the last rt_mb_send returned

vars == <<queue, value, err>>

Init ==
  /\ queue = << >>
  /\ value = [r \in Receivers |-> NoMsg]
  /\ err = "RT_EOK"

Accept(m) ==
  /\ Len(queue) < Size
  /\ queue' = Append(queue, m)
  /\ err' = "RT_EOK"
  /\ UNCHANGED value

Refuse ==
  /\ Len(queue) = Size
  /\ err' = "RT_EFULL"
  /\ UNCHANGED <<queue, value>>

Deliver(r) ==
  /\ queue # << >>
  /\ value' = [value EXCEPT ![r] = Head(queue)]
  /\ queue' = Tail(queue)
  /\ UNCHANGED err

Next ==
  \/ \E m \in Msg : Accept(m)
  \/ Refuse
  \/ \E r \in Receivers : Deliver(r)

Spec == Init /\ [][Next]_vars
=============================================================================

----------------------------- MODULE MCMailbox -----------------------------
(* Two mails, two receivers and a mailbox of three: the offsets wrap at     *)
(* different times and a receiver can steal the mail another was woken for. *)
EXTENDS Mailbox, TLC

CONSTANTS m1, m2, r1, r2
MCMsg == {m1, m2}
MCReceivers == {r1, r2}
=============================================================================

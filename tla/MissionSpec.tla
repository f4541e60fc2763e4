---------------------------- MODULE MissionSpec ----------------------------
(***************************************************************************)
(* What the mission promises, without car, arm, threads or flags: pictures  *)
(* are collected one by one, nothing is put down before the last one is on  *)
(* board, then everything of one class is put down at its place, classes in *)
(* the order 2 (fruit), 1 (traffic), 0 (animals), and the mission is over   *)
(* with an empty car.  The plan may leave one picture out (shuffle()).      *)
(***************************************************************************)
EXTENDS Naturals

CONSTANT Pictures

VARIABLES
  class,      \* what each picture shows
  planned,    \* the route has been computed
  field,      \* the pictures that still have to be collected
  carried,    \* on the arm or in a bin
  delivered,  \* put down at the place of each class
  over

vars == <<class, planned, field, carried, delivered, over>>

Init ==
  /\ class \in [Pictures -> 0 .. 2]
  /\ planned = FALSE
  /\ field = Pictures
  /\ carried = {}
  /\ delivered = [tag \in 0 .. 2 |-> {}]
  /\ over = FALSE

Plan ==
  /\ ~planned /\ planned' = TRUE
  /\ \E missed \in SUBSET Pictures : (\A p, q \in missed : p = q) /\ field' = Pictures \ missed
  /\ UNCHANGED <<class, carried, delivered, over>>

Collect(p) ==
  /\ planned /\ p \in field
  /\ field' = field \ {p}
  /\ carried' = carried \union {p}
  /\ UNCHANGED <<class, planned, delivered, over>>

Deliver(tag) ==
  /\ planned /\ field = {} /\ ~over
  /\ \A p \in carried : class[p] <= tag
  /\ LET load == {p \in carried : class[p] = tag}
     IN /\ carried' = carried \ load
        /\ delivered' = [delivered EXCEPT ![tag] = @ \union load]
  /\ UNCHANGED <<class, planned, field, over>>

Finish ==
  /\ planned /\ field = {} /\ carried = {}
  /\ over' = TRUE
  /\ UNCHANGED <<class, planned, field, carried, delivered>>

Next == Plan \/ Finish \/ (\E p \in Pictures : Collect(p)) \/ (\E tag \in 0 .. 2 : Deliver(tag))

Spec == Init /\ [][Next]_vars
=============================================================================

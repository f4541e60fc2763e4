------------------------------ MODULE MCRoute ------------------------------
(* Three computations on the way from the order of the places to x and y, each *)
(* explored while the others rest: they share nothing.                         *)
EXTENDS Heap, Tour, Steering

\* Where the places lie; the walk with the shortest way is not the one with the
\* shortest way to the depot.
MCdis == [a \in 0 .. 3 |-> [b \in 0 .. 3 |->
  << << 0, 3, 5, 4 >>, << 3, 0, 2, 6 >>, << 5, 2, 0, 7 >>, << 4, 6, 7, 0 >> >>[a + 1][b + 1]]]
MCToDepot == [a \in 0 .. 3 |-> << 1, 5, 9, 8 >>[a + 1]]

\* A turn of 16 parts; goals on the axes, between them, on both sides of straight ahead,
\* and here.
Goals == {0, 1, 4, 6, 8, 9, 12, 13, 15, Here}
Cosines == << 10, 9, 7, 4, 0, -4, -7, -9, -10, -9, -7, -4, 0, 4, 7, 9 >>
MCcos == [k \in 0 .. 15 |-> Cosines[k + 1]]
MCsin == [k \in 0 .. 15 |-> Cosines[((k + 12) % 16) + 1]]

MCInit == HeapInit /\ TourInit /\ SteeringInit

Queue == HeapNext /\ TourInit /\ SteeringInit /\ UNCHANGED <<tourVars, steeringVars>>
Ant == TourNext /\ HeapInit /\ SteeringInit /\ UNCHANGED <<heapVars, steeringVars>>
Course == SteeringNext /\ HeapInit /\ TourInit /\ UNCHANGED <<heapVars, tourVars>>
MCNext == Queue \/ Ant \/ Course

MCSpec == MCInit /\ [][MCNext]_<<heapVars, tourVars, steeringVars>>
=============================================================================

----------------------------- MODULE MCMission -----------------------------
(* Pictures are interchangeable, because the route may have them in any order: *)
(* without loss their classes are sorted, 10 cases instead of 27.              *)
EXTENDS Mission

SortedInit == Init /\ \A p, q \in Pictures : p <= q => truth[p] <= truth[q]
SortedSpec == SortedInit /\ [][Next]_vars /\ Fairness
=============================================================================

-------------------------------- MODULE Tour --------------------------------
(***************************************************************************)
(* ant() of aco.c: the order in which the places are visited, as           *)
(* ACO_to_first calls it (tag 0, back_st 1).  In every iteration each ant   *)
(* walks from the start through all places; the shortest of its walks is    *)
(* kept, and in the end the shortest of those with the way to the depot.    *)
(*                                                                          *)
(* The pheromone decides how likely a place is drawn and not which can be,  *)
(* as long as every weight is positive and finite: the rate is below the    *)
(* sum of the weights, so the roulette stops at some place.                 *)
(***************************************************************************)
EXTENDS Naturals, Sequences, Functions, SequencesExt

CONSTANTS
  PicNum,      \* pic_num: the places are the pictures and the start, n of them
  Ants,        \* m, 50 in ACO_to_first
  TotIter,     \* tot_iter, 100 in ACO_to_first
  dis,         \* dis[a][b], whole centimetres
  ToDepot      \* calc_dis from a place to the right-hand depot

n == PicNum + 1
Places == 0 .. PicNum
StPoint == PicNum                  \* st_point = n - 1
AntIds == 1 .. Ants

ASSUME TourAssumption ==
  /\ PicNum \in Nat \ {0} /\ Ants \in Nat \ {0} /\ TotIter \in Nat \ {0}
  /\ dis \in [Places -> [Places -> Nat]]
  /\ ToDepot \in [Places -> Nat]

\* No two places on one spot.
Apart == \A a, b \in Places : a # b => dis[a][b] > 0

VARIABLES
  move, ant,   \* the loops' j and i: the move that is due, and the ant whose it is
  routes,      \* [ant -> places so far]
  path_best,   \* the best walk of each iteration
  path,        \* path[0], << >> until ant() has returned
  walked       \* history: for each iteration the walks of its ants

tourVars == <<move, ant, routes, path_best, path, walked>>

-----------------------------------------------------------------------------
Length(t) == FoldLeft(LAMBDA len, k : len + dis[t[k]][t[k + 1]], 0, [k \in 1 .. Len(t) - 1 |-> k])
WithEnd(t) == Length(t) + ToDepot[Last(t)]

\* The index of the least of some costs, the first if there are several (chkmin is strict).
\* Mutant: the search begins with the second, as in the branch for run_twice1.
SecondOn(costs, k) == k > 1 /\ \A l \in DOMAIN costs \ {1} : costs[k] <= costs[l]
FirstLeast(costs, k) ==
  \A l \in DOMAIN costs : costs[k] <= costs[l] /\ (l < k => costs[k] < costs[l])
Chosen(costs, k) == FirstLeast(costs, k)

\* been[], unvis[].  Mutant: only the last place counts as visited.
NotLast(route) == Places \ {Last(route)}
NotBeen(route) == Places \ Range(route)
Unvisited(route) == NotBeen(route)

\* idis is 100 / dis: two places on one spot have an infinite weight, the rate is infinite
\* or not a number, the loop over unvis ends without a place, and routes[i][j] stays 0.
CanDraw(route) == \A k \in Unvisited(route) : dis[Last(route)][k] > 0
Drawn(route) == IF CanDraw(route) THEN Unvisited(route) ELSE {0}

-----------------------------------------------------------------------------
Lengths == [a \in AntIds |-> Length(routes[a])]
LengthsWithEnd == [k \in DOMAIN path_best |-> WithEnd(path_best[k])]

\* The next ant moves; after the last the first, one move further.
NextAnt == IF ant < Ants THEN ant + 1 ELSE 1

AtStart == [a \in AntIds |-> << StPoint >>]

TourInit ==
  /\ move = 1 /\ ant = 1 /\ routes = AtStart
  /\ path_best = << >> /\ path = << >> /\ walked = << >>

Move ==
  /\ move < n /\ Len(path_best) < TotIter
  /\ \E place \in Drawn(routes[ant]) : routes' = [routes EXCEPT ![ant] = Append(@, place)]
  /\ ant' = NextAnt
  /\ move' = IF ant < Ants THEN move ELSE move + 1
  /\ UNCHANGED <<path_best, path, walked>>

IterationEnds ==
  /\ move = n /\ Len(path_best) < TotIter
  /\ \E a \in AntIds : Chosen(Lengths, a) /\ path_best' = Append(path_best, routes[a])
  /\ walked' = Append(walked, routes)
  /\ routes' = AtStart /\ ant' = 1 /\ move' = 1
  /\ UNCHANGED path

Returns ==
  /\ Len(path_best) = TotIter /\ path = << >>
  /\ \E k \in DOMAIN path_best : Chosen(LengthsWithEnd, k) /\ path' = path_best[k]
  /\ UNCHANGED <<move, ant, routes, path_best, walked>>

TourNext == Move \/ IterationEnds \/ Returns

TourSpec == TourInit /\ [][TourNext]_tourVars

-----------------------------------------------------------------------------
IsTour(t) == t \in [1 .. n -> Places] /\ IsInjective(t) /\ t[1] = StPoint

TourTypeOK ==
  /\ move \in 1 .. n /\ ant \in AntIds
  /\ routes \in [AntIds -> Seq(Places)]
  /\ path_best \in Seq(Seq(Places)) /\ Len(path_best) <= TotIter
  /\ path \in Seq(Places)
  /\ walked \in Seq([AntIds -> Seq(Places)]) /\ Len(walked) = Len(path_best)

\* What ACO_to_first and the mission count on: path[0] begins at the start and has every
\* place once, and so has each walk it was chosen from.
ToursComplete ==
  /\ \A k \in DOMAIN path_best : IsTour(path_best[k])
  /\ path # << >> => IsTour(path)

\* "minimize the tot_distance" (aco.h), as far as it goes: no ant of an iteration walked
\* less than the one kept, and no walk kept is shorter with its end than path[0].
ShortestKept ==
  /\ \A k \in DOMAIN walked : \A a \in AntIds : Length(path_best[k]) <= Length(walked[k][a])
  /\ path # << >> => \A k \in DOMAIN path_best : WithEnd(path) <= WithEnd(path_best[k])
=============================================================================

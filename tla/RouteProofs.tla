---------------------------- MODULE RouteProofs ----------------------------
(***************************************************************************)
(* From the order of the places to the way there.                           *)
(*                                                                          *)
(* The queue of A* (aco.c), for an array of any length and any keys: push   *)
(* and pop leave every father no larger in F than its children, and pop     *)
(* takes a node of the least F.                                             *)
(*                                                                          *)
(* The tour of ant() (aco.c), for every number of pictures, ants and        *)
(* iterations and every matrix of distances.  That a walk is a tour when it *)
(* is complete needs that it never has a place twice on the way, and that   *)
(* the ants before the one that moves are one place ahead of the others:    *)
(* the strengthening is RoutesGrow.                                         *)
(*                                                                          *)
(* The steering of go_point and get_Theta (motionPlanning.c), for any       *)
(* division of the turn, any goals, any speed and any rate of turn.         *)
(***************************************************************************)
EXTENDS Heap, Tour, Steering, Heading, FiniteSetTheorems, WellFoundedInduction, TLAPS

Elements == 1 .. sz - 1

\* The elements outside the hole are nodes, and so is the one that will fill it.
NodesOK ==
  /\ heap \in [Index -> Node \union {Garbage}]
  /\ sz \in 0 .. MAX_N /\ op \in {"none", "push", "pop"}
  /\ op # "none" => /\ x \in Node /\ now \in Nat
                    /\ now < sz \/ (op = "pop" /\ now = 0 /\ sz = 0 /\ MAX_N > 0)
  /\ op = "push" => now < sz
  /\ \A i \in 0 .. sz - 1 : (op = "none" \/ i # now) => heap[i] \in Node

\* Order where the hole does not take part.
OrderedElsewhere ==
  \A i \in Elements : (op = "none" \/ (i # now /\ Father(i) # now))
                        => heap[Father(i)].F <= heap[i].F

\* The father of the hole is no larger than the children of the hole; on the way up
\* x is no larger than these, on the way down no smaller than the father.
OrderedAroundHole ==
  op # "none" =>
    /\ \A i \in Elements : Father(i) = now =>
         /\ now > 0 => heap[Father(now)].F <= heap[i].F
         /\ op = "push" => x.F <= heap[i].F
    /\ op = "pop" /\ now > 0 => heap[Father(now)].F <= x.F

OrderInv == NodesOK /\ OrderedElsewhere /\ OrderedAroundHole

\* Fathers come before their children; i has at most the two children Left and Right.
LEMMA FatherBefore ==
  ASSUME NEW i \in Nat, i > 0
  PROVE  Father(i) \in Nat /\ Father(i) < i
  BY DEF Father

LEMMA Children ==
  ASSUME NEW i \in Nat, NEW j \in Nat, j > 0
  PROVE  Father(j) = i <=> j = Left(i) \/ j = Right(i)
  BY DEF Father, Left, Right

\* The keys are numbers.
LEMMA NodeF == \A nd \in Node : nd.F \in Nat
  BY HeapAssumption DEF Node

LEMMA OrderInit == HeapInit => OrderInv
  BY HeapAssumption DEF HeapInit, OrderInv, NodesOK, OrderedElsewhere, OrderedAroundHole, Elements

LEMMA OrderPush ==
  ASSUME NEW ps \in Node, OrderInv, push(ps)
  PROVE  OrderInv'
<1>1. /\ op = "none" /\ op' = "push" /\ now' = sz /\ sz' = sz + 1 /\ x' = ps /\ heap' = heap
      /\ sz \in Nat /\ sz < MAX_N /\ MAX_N \in Nat
  BY HeapAssumption DEF push, OrderInv, NodesOK
<1>2. NodesOK'
  BY <1>1 DEF OrderInv, NodesOK
<1>3. OrderedElsewhere'
  BY <1>1 DEF OrderInv, OrderedElsewhere, Elements
<1>4. OrderedAroundHole'
  BY <1>1, FatherBefore DEF OrderedAroundHole, Elements
<1> QED
  BY <1>2, <1>3, <1>4 DEF OrderInv

LEMMA OrderPushUp ==
  ASSUME OrderInv, PushUp
  PROVE  OrderInv'
<1> DEFINE f == Father(now)
<1>1. /\ op = "push" /\ op' = op /\ sz' = sz /\ x' = x /\ now' = f
      /\ heap' = [heap EXCEPT ![now] = heap[f]]
      /\ now \in Nat /\ now > 0 /\ now < sz /\ sz <= MAX_N /\ sz \in Nat /\ MAX_N \in Nat
  BY HeapAssumption DEF PushUp, OrderInv, NodesOK
<1>2. f \in Nat /\ f < now
  BY <1>1, FatherBefore
<1>3. /\ heap[f] \in Node /\ x \in Node
      /\ \A i \in 0 .. sz - 1 : i # now => heap[i] \in Node
  BY <1>1, <1>2 DEF OrderInv, NodesOK
<1>4. heap'[now] = heap[f] /\ \A i \in Index \ {now} : heap'[i] = heap[i]
  BY <1>1 DEF OrderInv, NodesOK, Index
<1>5. x.F <= heap[f].F /\ x.F \in Nat /\ \A i \in 0 .. sz - 1 : i # now => heap[i].F \in Nat
  BY <1>1, <1>3, HeapAssumption DEF PushUp, NotBelow, Node
<1>6. NodesOK'
  BY <1>1, <1>2, <1>3, <1>4 DEF OrderInv, NodesOK, Index
<1>7. \A i \in Elements : Father(i) \in Nat /\ Father(i) < i /\ Father(i) \in Index /\ i \in Index
  BY <1>1, FatherBefore DEF Elements, Index
<1>8. OrderedElsewhere'
  <2> SUFFICES ASSUME NEW i \in Elements, i # f, Father(i) # f
               PROVE  heap'[Father(i)].F <= heap'[i].F
    BY <1>1 DEF OrderedElsewhere, Elements
  <2>1. i # now
    OBVIOUS
  <2>2. CASE Father(i) = now
    BY <1>1, <1>4, <1>7, <2>1, <2>2 DEF OrderInv, OrderedAroundHole
  <2>3. CASE Father(i) # now
    BY <1>1, <1>4, <1>7, <2>1, <2>3 DEF OrderInv, OrderedElsewhere
  <2> QED
    BY <2>2, <2>3
<1>9. OrderedAroundHole'
  <2> SUFFICES ASSUME NEW i \in Elements, Father(i) = f
               PROVE  /\ f > 0 => heap'[Father(f)].F <= heap'[i].F
                      /\ x.F <= heap'[i].F
    BY <1>1 DEF OrderedAroundHole, Elements
  <2>1. i \in 0 .. sz - 1 /\ f \in 0 .. sz - 1
    BY <1>1, <1>2 DEF Elements
  <2>2. i # now => heap[f].F <= heap[i].F
    BY <1>1, <1>2 DEF OrderInv, OrderedElsewhere
  <2>3. f > 0 => /\ f \in Elements /\ Father(f) \in Nat /\ Father(f) < f
                 /\ heap[Father(f)].F <= heap[f].F
    BY <1>1, <1>2, FatherBefore DEF OrderInv, OrderedElsewhere, Elements
  <2>4. x.F <= heap'[i].F
    BY <1>2, <1>4, <1>5, <1>7, <2>1, <2>2
  <2>5. ASSUME f > 0 PROVE heap'[Father(f)].F <= heap'[i].F
    <3>1. heap'[Father(f)] = heap[Father(f)] /\ heap[Father(f)].F \in Nat /\ heap[f].F \in Nat
      BY <1>1, <1>2, <1>4, <1>5, <2>3, <2>5 DEF Index
    <3>2. heap'[i].F = heap[f].F \/ (i # now /\ heap'[i].F = heap[i].F /\ heap[i].F \in Nat)
      BY <1>4, <1>5, <1>7, <2>1
    <3> QED
      BY <2>2, <2>3, <2>5, <3>1, <3>2
  <2> QED
    BY <2>4, <2>5
<1> QED
  BY <1>6, <1>8, <1>9 DEF OrderInv

LEMMA OrderPushEnd ==
  ASSUME OrderInv, PushEnd
  PROVE  OrderInv'
<1>1. /\ op = "push" /\ op' = "none" /\ sz' = sz /\ x' = x /\ now' = now
      /\ heap' = [heap EXCEPT ![now] = x]
      /\ now \in Nat /\ now < sz /\ sz <= MAX_N /\ sz \in Nat /\ MAX_N \in Nat
      /\ now > 0 => NotBelow(x, heap[Father(now)])
  BY HeapAssumption DEF PushEnd, OrderInv, NodesOK
<1>2. x \in Node /\ \A i \in 0 .. sz - 1 : i # now => heap[i] \in Node
  BY <1>1 DEF OrderInv, NodesOK
<1>3. heap'[now] = x /\ \A i \in Index \ {now} : heap'[i] = heap[i]
  BY <1>1 DEF OrderInv, NodesOK, Index
<1>4. NodesOK'
  BY <1>1, <1>2, <1>3 DEF OrderInv, NodesOK, Index
<1>5. \A i \in Elements : Father(i) \in Nat /\ Father(i) < i /\ Father(i) \in Index /\ i \in Index
  BY <1>1, FatherBefore DEF Elements, Index
<1>6. OrderedElsewhere'
  <2> SUFFICES ASSUME NEW i \in Elements PROVE heap'[Father(i)].F <= heap'[i].F
    BY <1>1 DEF OrderedElsewhere, Elements
  <2>1. CASE i = now
    <3>1. NotBelow(x, heap[Father(now)]) /\ heap[Father(now)] \in Node
      BY <1>1, <1>2, <1>5, <2>1 DEF Elements
    <3>2. heap[Father(now)].F \in Nat /\ x.F \in Nat
      BY <1>2, <3>1, NodeF
    <3>3. heap[Father(now)].F <= x.F
      BY <3>1, <3>2 DEF NotBelow
    <3>4. heap'[Father(i)] = heap[Father(now)] /\ heap'[i] = x
      BY <1>3, <1>5, <2>1
    <3> QED
      BY <3>3, <3>4
  <2>2. CASE i # now /\ Father(i) = now
    BY <1>1, <1>3, <1>5, <2>2 DEF OrderInv, OrderedAroundHole
  <2>3. CASE i # now /\ Father(i) # now
    BY <1>1, <1>3, <1>5, <2>3 DEF OrderInv, OrderedElsewhere
  <2> QED
    BY <2>1, <2>2, <2>3
<1>7. OrderedAroundHole'
  BY <1>1 DEF OrderedAroundHole
<1> QED
  BY <1>4, <1>6, <1>7 DEF OrderInv

LEMMA OrderPop ==
  ASSUME OrderInv, pop
  PROVE  OrderInv'
<1>1. /\ op = "none" /\ op' = "pop" /\ now' = 0 /\ sz' = sz - 1 /\ heap' = heap
      /\ x' = heap[sz - 1] /\ sz \in Nat /\ sz > 0 /\ sz <= MAX_N /\ MAX_N \in Nat
  BY HeapAssumption DEF pop, LastOne, OrderInv, NodesOK
<1>2. NodesOK'
  BY <1>1 DEF OrderInv, NodesOK
<1>3. OrderedElsewhere'
  BY <1>1 DEF OrderInv, OrderedElsewhere, Elements
<1>4. OrderedAroundHole'
  BY <1>1 DEF OrderedAroundHole
<1> QED
  BY <1>2, <1>3, <1>4 DEF OrderInv

\* The child that goes up is no larger than the other one.
LEMMA SmallerIsLeast ==
  ASSUME OrderInv, op = "pop", HasChild(now)
  PROVE  /\ SmallerChild(now) \in Elements /\ Father(SmallerChild(now)) = now
         /\ SmallerChild(now) > now
         /\ \A i \in Elements : Father(i) = now => heap[SmallerChild(now)].F <= heap[i].F
<1>1. /\ now \in Nat /\ Left(now) < sz /\ sz \in Nat /\ now < sz
      /\ Left(now) \in Elements /\ Left(now) > now
      /\ Right(now) \in Nat /\ Right(now) > now
  BY HeapAssumption DEF OrderInv, NodesOK, HasChild, Left, Right, Elements
<1>2. \A i \in Elements : i # now => heap[i].F \in Nat
  <2> SUFFICES ASSUME NEW i \in Elements, i # now PROVE heap[i].F \in Nat
    OBVIOUS
  <2>1. heap[i] \in Node
    BY <1>1 DEF OrderInv, NodesOK, Elements
  <2> QED
    BY <2>1, NodeF
<1>3. \A i \in Elements : Father(i) = now <=> i = Left(now) \/ i = Right(now)
  BY <1>1, Children DEF Elements
<1>4. SmallerChild(now) = Left(now)
        \/ (SmallerChild(now) = Right(now) /\ Right(now) < sz
              /\ heap[Right(now)].F <= heap[Left(now)].F)
  <2>1. Right(now) < sz => Right(now) \in Elements
    BY <1>1 DEF Elements
  <2> QED
    BY <1>1, <1>2, <2>1 DEF SmallerChild
<1>5. SmallerChild(now) = Left(now) /\ Right(now) < sz => heap[Left(now)].F <= heap[Right(now)].F
  <2>1. Right(now) # Left(now)
    BY <1>1 DEF Left, Right
  <2>2. Right(now) < sz => Right(now) \in Elements
    BY <1>1 DEF Elements
  <2> QED
    BY <1>1, <1>2, <2>1, <2>2 DEF SmallerChild
<1> QED
  BY <1>1, <1>2, <1>3, <1>4, <1>5 DEF Elements

LEMMA OrderPopDown ==
  ASSUME OrderInv, PopDown
  PROVE  OrderInv'
<1> DEFINE c == SmallerChild(now)
<1>1. /\ op = "pop" /\ op' = op /\ sz' = sz /\ x' = x /\ now' = c /\ HasChild(now)
      /\ heap' = [heap EXCEPT ![now] = heap[c]] /\ ~Stays(heap[c])
      /\ now \in Nat /\ sz <= MAX_N /\ sz \in Nat /\ MAX_N \in Nat
  BY HeapAssumption DEF PopDown, OrderInv, NodesOK
<1>2. /\ c \in Elements /\ Father(c) = now /\ c > now
      /\ \A i \in Elements : Father(i) = now => heap[c].F <= heap[i].F
  BY <1>1, SmallerIsLeast
<1> HIDE DEF c
<1>3. now < sz /\ c \in Nat /\ c < sz /\ c > 0
  BY <1>1, <1>2 DEF Elements
<1>4. x \in Node /\ \A i \in 0 .. sz - 1 : i # now => heap[i] \in Node
  BY <1>1 DEF OrderInv, NodesOK
<1>5. heap[c] \in Node /\ heap[c].F <= x.F /\ heap[c].F \in Nat /\ x.F \in Nat
  BY <1>1, <1>2, <1>3, <1>4, HeapAssumption DEF Stays, Node
<1>6. heap'[now] = heap[c] /\ \A i \in Index \ {now} : heap'[i] = heap[i]
  BY <1>1, <1>3 DEF OrderInv, NodesOK, Index
<1>7. NodesOK'
  BY <1>1, <1>3, <1>4, <1>5, <1>6 DEF OrderInv, NodesOK, Index
<1>8. \A i \in Elements : Father(i) \in Nat /\ Father(i) < i /\ Father(i) \in Index /\ i \in Index
  BY <1>1, FatherBefore DEF Elements, Index
<1>9. OrderedElsewhere'
  <2> SUFFICES ASSUME NEW i \in Elements, i # c, Father(i) # c
               PROVE  heap'[Father(i)].F <= heap'[i].F
    BY <1>1 DEF OrderedElsewhere, Elements
  <2>1. CASE i = now
    <3>1. now > 0 /\ Father(now) # now /\ Father(now) \in Index
      BY <1>8, <2>1 DEF Elements
    <3>2. heap[Father(now)].F <= heap[c].F
      BY <1>1, <1>2, <3>1 DEF OrderInv, OrderedAroundHole
    <3> QED
      BY <1>6, <2>1, <3>1, <3>2
  <2>2. CASE i # now /\ Father(i) = now
    BY <1>2, <1>6, <1>8, <2>2
  <2>3. CASE i # now /\ Father(i) # now
    BY <1>1, <1>6, <1>8, <2>3 DEF OrderInv, OrderedElsewhere
  <2> QED
    BY <2>1, <2>2, <2>3
<1>10. OrderedAroundHole'
  <2>1. heap'[Father(c)].F = heap[c].F
    BY <1>2, <1>6
  <2>2. \A i \in Elements : Father(i) = c => heap[c].F <= heap'[i].F
    <3> SUFFICES ASSUME NEW i \in Elements, Father(i) = c PROVE heap[c].F <= heap'[i].F
      OBVIOUS
    <3>1. i # now /\ Father(i) # now
      BY <1>2, <1>3, <1>8
    <3> QED
      BY <1>1, <1>6, <1>8, <3>1 DEF OrderInv, OrderedElsewhere
  <2> QED
    BY <1>1, <1>5, <2>1, <2>2 DEF OrderedAroundHole, Elements
<1> QED
  BY <1>7, <1>9, <1>10 DEF OrderInv

LEMMA OrderPopEnd ==
  ASSUME OrderInv, PopEnd
  PROVE  OrderInv'
<1>1. /\ op = "pop" /\ op' = "none" /\ sz' = sz /\ x' = x
      /\ heap' = [heap EXCEPT ![now] = x]
      /\ HasChild(now) => Stays(heap[SmallerChild(now)])
      /\ now \in Nat /\ now < MAX_N /\ sz <= MAX_N /\ sz \in Nat /\ MAX_N \in Nat
  BY HeapAssumption DEF PopEnd, OrderInv, NodesOK
<1>2. x \in Node /\ \A i \in 0 .. sz - 1 : i # now => heap[i] \in Node
  BY <1>1 DEF OrderInv, NodesOK
<1>3. heap'[now] = x /\ \A i \in Index \ {now} : heap'[i] = heap[i]
  BY <1>1 DEF OrderInv, NodesOK, Index
<1>4. NodesOK'
  BY <1>1, <1>2, <1>3 DEF OrderInv, NodesOK, Index
<1>5. \A i \in Elements : Father(i) \in Nat /\ Father(i) < i /\ Father(i) \in Index /\ i \in Index
  BY <1>1, FatherBefore DEF Elements, Index
<1>6. \A i \in Elements : Father(i) = now => x.F <= heap[i].F
  <2> SUFFICES ASSUME NEW i \in Elements, Father(i) = now PROVE x.F <= heap[i].F
    OBVIOUS
  <2>1. HasChild(now)
    BY <1>1, Children DEF HasChild, Left, Right, Elements
  <2>2. /\ SmallerChild(now) \in 0 .. sz - 1 /\ SmallerChild(now) # now /\ i # now
        /\ i \in 0 .. sz - 1 /\ heap[SmallerChild(now)].F <= heap[i].F
    BY <1>1, <1>5, <2>1, SmallerIsLeast DEF Elements
  <2>3. heap[SmallerChild(now)] \in Node /\ heap[i] \in Node
    BY <1>2, <2>2
  <2>4. heap[SmallerChild(now)].F \in Nat /\ heap[i].F \in Nat /\ x.F \in Nat
    BY <1>2, <2>3, NodeF
  <2>5. x.F <= heap[SmallerChild(now)].F
    BY <1>1, <2>1, <2>4 DEF Stays
  <2> QED
    BY <2>2, <2>4, <2>5
<1>7. OrderedElsewhere'
  <2> SUFFICES ASSUME NEW i \in Elements PROVE heap'[Father(i)].F <= heap'[i].F
    BY <1>1 DEF OrderedElsewhere, Elements
  <2>1. CASE i = now
    <3>1. now > 0 /\ Father(now) # now /\ Father(now) \in Index
      BY <1>5, <2>1 DEF Elements
    <3> QED
      BY <1>1, <1>3, <2>1, <3>1 DEF OrderInv, OrderedAroundHole
  <2>2. CASE i # now /\ Father(i) = now
    BY <1>3, <1>5, <1>6, <2>2
  <2>3. CASE i # now /\ Father(i) # now
    BY <1>1, <1>3, <1>5, <2>3 DEF OrderInv, OrderedElsewhere
  <2> QED
    BY <2>1, <2>2, <2>3
<1>8. OrderedAroundHole'
  BY <1>1 DEF OrderedAroundHole
<1> QED
  BY <1>4, <1>7, <1>8 DEF OrderInv

LEMMA HeapInvariant == HeapSpec => []OrderInv
<1>1. OrderInv /\ [HeapNext]_heapVars => OrderInv'
  <2>1. OrderInv /\ UNCHANGED heapVars => OrderInv'
    BY DEF heapVars, OrderInv, NodesOK, OrderedElsewhere, OrderedAroundHole, Elements
  <2> QED
    BY <2>1, OrderPush, OrderPushUp, OrderPushEnd, OrderPop, OrderPopDown, OrderPopEnd DEF HeapNext
<1> QED
  BY <1>1, OrderInit, PTL DEF HeapSpec

\* The heap is in order of F whenever no push or pop is under way.
THEOREM HeapIsOrdered == HeapSpec => []FOrdered
<1>1. OrderInv => FOrdered
  BY DEF OrderInv, OrderedElsewhere, Elements, FOrdered
<1> QED
  BY <1>1, HeapInvariant, PTL

-----------------------------------------------------------------------------
\* A set of naturals that is not empty has a least member.
LEMMA LeastOf ==
  ASSUME NEW T, T \subseteq Nat, T # {}
  PROVE  \E m \in T : \A k \in T : ~ (k < m)
<1> DEFINE R == {p \in Nat \X Nat : p[1] < p[2]}
<1>1. \A a, b \in Nat : a < b => <<a, b>> \in R
  OBVIOUS
<1>2. IsWellFoundedOn(R, Nat)
  BY NatLessThanWellFounded DEF OpToRel
<1> HIDE DEF R
<1>3. PICK m \in T : \A k \in T : ~ (<<k, m>> \in R)
  BY <1>2, WFMin
<1> QED
  BY <1>1, <1>3

\* The first element is of the least F: the first one with a smaller F would have a
\* father, before it, that is no larger.
LEMMA RootIsLeast ==
  ASSUME OrderInv, op = "none", NEW i \in 0 .. sz - 1
  PROVE  heap[0].F <= heap[i].F
<1> DEFINE Smaller == {k \in 0 .. sz - 1 : ~(heap[0].F <= heap[k].F)}
<1>1. sz \in Nat /\ \A k \in 0 .. sz - 1 : heap[k] \in Node /\ heap[k].F \in Nat
  BY NodeF DEF OrderInv, NodesOK
<1>2. SUFFICES ASSUME Smaller # {} PROVE FALSE
  OBVIOUS
<1>3. PICK m \in Smaller : \A k \in Smaller : ~(k < m)
  <2>1. Smaller \subseteq Nat
    BY <1>1
  <2> HIDE DEF Smaller
  <2> QED
    BY <1>2, <2>1, LeastOf
<1>4. m \in Nat /\ m > 0 /\ m < sz
  BY <1>1, <1>3
<1>5. Father(m) \in 0 .. sz - 1 /\ Father(m) < m
  BY <1>1, <1>4, FatherBefore
<1>6. heap[0].F <= heap[Father(m)].F
  BY <1>3, <1>5
<1>7. heap[Father(m)].F <= heap[m].F
  BY <1>2, <1>4 DEF OrderInv, OrderedElsewhere, Elements
<1> QED
  BY <1>1, <1>3, <1>4, <1>5, <1>6, <1>7

\* How often a node is among the first s elements of an array.
Slots(h, s, nd) == {i \in 0 .. s - 1 : h[i] = nd}
Occurrences(h, s, nd) == Cardinality(Slots(h, s, nd))

LEMMA SlotsFinite ==
  ASSUME NEW h, NEW s \in Nat, NEW nd
  PROVE  IsFiniteSet(Slots(h, s, nd)) /\ Occurrences(h, s, nd) \in Nat
<1>1. IsFiniteSet(0 .. s - 1)
  BY FS_Interval
<1> QED
  BY <1>1, FS_Subset, FS_CardinalityType DEF Slots, Occurrences

\* One more element.
LEMMA OneMore ==
  ASSUME NEW h, NEW s \in Nat, NEW nd
  PROVE  Occurrences(h, s + 1, nd) = Occurrences(h, s, nd) + (IF h[s] = nd THEN 1 ELSE 0)
<1>1. Slots(h, s + 1, nd) = IF h[s] = nd THEN Slots(h, s, nd) \union {s} ELSE Slots(h, s, nd)
  BY DEF Slots
<1>2. s \notin Slots(h, s, nd)
  BY DEF Slots
<1> QED
  BY <1>1, <1>2, SlotsFinite, FS_AddElement DEF Occurrences

\* Two elements change places.
LEMMA Exchanged ==
  ASSUME NEW h, NEW g, NEW s \in Nat, NEW nd, NEW a \in 0 .. s - 1, NEW b \in 0 .. s - 1,
         g[a] = h[b], g[b] = h[a], \A i \in 0 .. s - 1 : i # a /\ i # b => g[i] = h[i]
  PROVE  Occurrences(g, s, nd) = Occurrences(h, s, nd)
<1>1. CASE (h[a] = nd) <=> (h[b] = nd)
  <2>1. Slots(g, s, nd) = Slots(h, s, nd)
    BY <1>1 DEF Slots
  <2> QED
    BY <2>1 DEF Occurrences
<1>2. ASSUME NEW u \in {a, b}, NEW v \in {a, b}, u # v, h[u] = nd, h[v] # nd
      PROVE  Occurrences(g, s, nd) = Occurrences(h, s, nd)
  <2>1. Slots(g, s, nd) = (Slots(h, s, nd) \ {u}) \union {v}
    BY <1>2 DEF Slots
  <2>2. u \in Slots(h, s, nd) /\ v \notin Slots(h, s, nd) \ {u}
    BY <1>2 DEF Slots
  <2>3. IsFiniteSet(Slots(h, s, nd)) /\ Cardinality(Slots(h, s, nd)) \in Nat
    BY SlotsFinite DEF Occurrences
  <2>4. /\ IsFiniteSet(Slots(h, s, nd) \ {u})
        /\ Cardinality(Slots(h, s, nd) \ {u}) = Cardinality(Slots(h, s, nd)) - 1
    BY <2>2, <2>3, FS_RemoveElement
  <2>5. Cardinality((Slots(h, s, nd) \ {u}) \union {v}) = Cardinality(Slots(h, s, nd) \ {u}) + 1
    BY <2>2, <2>4, FS_AddElement
  <2> QED
    BY <2>1, <2>3, <2>4, <2>5 DEF Occurrences
<1>3. CASE h[a] = nd /\ h[b] # nd
  BY <1>2, <1>3
<1>4. CASE h[b] = nd /\ h[a] # nd
  BY <1>2, <1>4
<1> QED
  BY <1>1, <1>3, <1>4

\* The array as it will be when the hole is filled has each node as often as it was
\* pushed and not popped.
Filled == IF op = "none" THEN heap ELSE [heap EXCEPT ![now] = x]
CountInv == \A nd \in Node : content[nd] = Occurrences(Filled, sz, nd)
LeastInv == CountInv /\ content \in [Node -> Int] /\ LeastF

LEMMA CountInit == HeapInit => LeastInv
<1> SUFFICES ASSUME HeapInit PROVE LeastInv
  OBVIOUS
<1>1. \A nd \in Node : Slots(Filled, sz, nd) = {}
  BY DEF HeapInit, Slots
<1> QED
  BY <1>1, FS_EmptySet DEF HeapInit, LeastInv, CountInv, LeastF, Occurrences

LEMMA CountPush ==
  ASSUME NEW ps \in Node, OrderInv, LeastInv, push(ps)
  PROVE  LeastInv'
<1>1. /\ op = "none" /\ op' = "push" /\ now' = sz /\ sz' = sz + 1 /\ x' = ps /\ heap' = heap
      /\ content' = [content EXCEPT ![ps] = @ + 1]
      /\ sz \in Nat /\ sz < MAX_N /\ MAX_N \in Nat /\ heap \in [Index -> Node \union {Garbage}]
  BY HeapAssumption DEF push, OrderInv, NodesOK
<1>2. ASSUME NEW nd \in Node PROVE content'[nd] = Occurrences(Filled', sz', nd)
  <2>1. Filled'[sz] = ps
    BY <1>1 DEF Filled, Index
  <2>2. Slots(Filled', sz, nd) = Slots(Filled, sz, nd)
    BY <1>1 DEF Filled, Slots, Index
  <2>3. Occurrences(Filled', sz', nd) = Occurrences(Filled, sz, nd) + (IF ps = nd THEN 1 ELSE 0)
    BY <1>1, <2>1, <2>2, OneMore DEF Occurrences
  <2>4. content[nd] = Occurrences(Filled, sz, nd) /\ content[nd] \in Int
    BY DEF LeastInv, CountInv
  <2> QED
    BY <1>1, <2>3, <2>4 DEF LeastInv
<1> QED
  BY <1>1, <1>2 DEF LeastInv, CountInv, LeastF

\* The hole and the element that fills it change places.
LEMMA CountMove ==
  ASSUME OrderInv, LeastInv, NEW to \in 0 .. sz - 1, op \in {"push", "pop"}, now < sz,
         heap' = [heap EXCEPT ![now] = heap[to]], now' = to, UNCHANGED <<sz, op, x, res, content>>
  PROVE  LeastInv'
<1>1. /\ sz \in Nat /\ sz <= MAX_N /\ MAX_N \in Nat /\ now \in 0 .. sz - 1
      /\ heap \in [Index -> Node \union {Garbage}]
  BY HeapAssumption DEF OrderInv, NodesOK
<1>2. /\ Filled' = [[heap EXCEPT ![now] = heap[to]] EXCEPT ![to] = x]
      /\ Filled = [heap EXCEPT ![now] = x]
  BY DEF Filled
<1>3. /\ Filled'[now] = Filled[to] /\ Filled'[to] = Filled[now]
      /\ \A i \in 0 .. sz - 1 : i # now /\ i # to => Filled'[i] = Filled[i]
  BY <1>1, <1>2 DEF Index
<1>4. \A nd : Occurrences(Filled', sz, nd) = Occurrences(Filled, sz, nd)
  BY <1>1, <1>3, Exchanged
<1> QED
  BY <1>4 DEF LeastInv, CountInv, LeastF

\* The last element takes the place of the first, which is taken.
LEMMA CountPop ==
  ASSUME OrderInv, LeastInv, pop
  PROVE  LeastInv'
<1>1. /\ op = "none" /\ sz > 0 /\ op' = "pop" /\ now' = 0 /\ sz' = sz - 1
      /\ res' = heap[0] /\ x' = heap[sz - 1] /\ heap' = heap
      /\ content' = [content EXCEPT ![heap[0]] = @ - 1]
      /\ sz \in Nat /\ sz <= MAX_N /\ MAX_N \in Nat /\ heap \in [Index -> Node \union {Garbage}]
      /\ heap[0] \in Node
  BY HeapAssumption DEF pop, LastOne, OrderInv, NodesOK
<1> DEFINE g == [[heap EXCEPT ![0] = heap[sz - 1]] EXCEPT ![sz - 1] = heap[0]]
<1>2. ASSUME NEW nd \in Node PROVE content'[nd] = Occurrences(Filled', sz', nd)
  <2>1. /\ g[0] = heap[sz - 1] /\ g[sz - 1] = heap[0]
        /\ \A i \in 0 .. sz - 1 : i # 0 /\ i # sz - 1 => g[i] = heap[i]
    BY <1>1 DEF Index
  <2>2. Occurrences(g, sz, nd) = Occurrences(heap, sz, nd)
    <3> HIDE DEF g
    <3> QED
      BY <1>1, <2>1, Exchanged
  <2>3. Slots(Filled', sz - 1, nd) = Slots(g, sz - 1, nd)
    BY <1>1, <2>1 DEF Filled, Slots, Index
  <2>4. Occurrences(g, sz, nd) = Occurrences(g, sz - 1, nd) + (IF heap[0] = nd THEN 1 ELSE 0)
    <3> HIDE DEF g
    <3>1. sz - 1 \in Nat /\ (sz - 1) + 1 = sz
      BY <1>1
    <3> QED
      BY <2>1, <3>1, OneMore
  <2>5. content[nd] = Occurrences(heap, sz, nd) /\ content[nd] \in Int
    BY <1>1 DEF LeastInv, CountInv, Filled
  <2>6. Occurrences(g, sz - 1, nd) \in Nat
    BY <1>1, SlotsFinite
  <2>7. Occurrences(Filled', sz', nd) = Occurrences(g, sz - 1, nd)
    BY <1>1, <2>3 DEF Occurrences
  <2> HIDE DEF g
  <2> QED
    BY <1>1, <2>2, <2>4, <2>5, <2>6, <2>7 DEF LeastInv
<1>3. ASSUME NEW nd \in Node, content'[nd] > 0 PROVE res'.F <= nd.F
  <2>1. content[nd] > 0 /\ content[nd] = Occurrences(heap, sz, nd)
    BY <1>1, <1>3 DEF LeastInv, CountInv, Filled
  <2>2. Slots(heap, sz, nd) # {}
    BY <2>1, FS_EmptySet DEF Occurrences
  <2>3. PICK i \in 0 .. sz - 1 : heap[i] = nd
    BY <2>2 DEF Slots
  <2> QED
    BY <1>1, <2>3, RootIsLeast
<1>4. content' \in [Node -> Int]
  BY <1>1 DEF LeastInv
<1> QED
  BY <1>2, <1>3, <1>4 DEF LeastInv, CountInv, LeastF

\* pop takes a node of the least F.
THEOREM PopTakesLeast == HeapSpec => []LeastF
<1>1. OrderInv /\ LeastInv /\ [HeapNext]_heapVars => LeastInv'
  <2> SUFFICES ASSUME OrderInv, LeastInv, [HeapNext]_heapVars PROVE LeastInv'
    OBVIOUS
  <2>0. sz \in Nat
    BY DEF OrderInv, NodesOK
  <2>1. ASSUME NEW ps \in Node, push(ps) PROVE LeastInv'
    BY <2>1, CountPush
  <2>2. CASE PushUp
    <3>1. now \in Nat /\ now > 0 /\ now < sz
      BY <2>2 DEF PushUp, OrderInv, NodesOK
    <3>2. Father(now) \in 0 .. sz - 1
      BY <2>0, <3>1, FatherBefore
    <3> QED
      BY <2>2, <3>1, <3>2, CountMove DEF PushUp
  <2>3. CASE PushEnd \/ PopEnd
    BY <2>3 DEF PushEnd, PopEnd, LeastInv, CountInv, LeastF, Filled
  <2>4. CASE pop
    BY <2>4, CountPop
  <2>5. CASE PopDown
    <3>1. now \in Nat /\ now < sz /\ SmallerChild(now) \in 0 .. sz - 1
      BY <2>0, <2>5 DEF PopDown, OrderInv, NodesOK, HasChild, SmallerChild, Left, Right
    <3> QED
      BY <2>5, <3>1, CountMove DEF PopDown
  <2>6. CASE UNCHANGED heapVars
    BY <2>6 DEF heapVars, LeastInv, CountInv, LeastF, Filled
  <2> QED
    BY <2>1, <2>2, <2>3, <2>4, <2>5, <2>6 DEF HeapNext
<1>2. LeastInv => LeastF
  BY DEF LeastInv
<1> QED
  BY <1>1, <1>2, CountInit, HeapInvariant, PTL DEF HeapSpec

\* The array, the variables of push and pop and the counts keep their types.
THEOREM HeapTyped == HeapSpec => []HeapTypeOK
<1> DEFINE Typed == /\ now \in Index /\ {x, res} \subseteq Node \union {Garbage}
                    /\ content \in [Node -> Int]
<1>1. HeapInit => Typed
  BY HeapAssumption DEF HeapInit, Index
<1>2. OrderInv /\ Typed /\ [HeapNext]_heapVars => Typed'
  <2> SUFFICES ASSUME OrderInv, Typed, [HeapNext]_heapVars PROVE Typed'
    OBVIOUS
  <2>0. sz \in 0 .. MAX_N /\ MAX_N \in Nat \ {0} /\ heap \in [Index -> Node \union {Garbage}]
    BY HeapAssumption DEF OrderInv, NodesOK
  <2>1. ASSUME NEW ps \in Node, push(ps) PROVE Typed'
    BY <2>0, <2>1 DEF push, Index
  <2>2. CASE PushUp
    <3>1. now \in Nat /\ now > 0 /\ now < sz
      BY <2>2 DEF PushUp, OrderInv, NodesOK
    <3>2. now' \in Index
      BY <2>0, <2>2, <3>1, FatherBefore DEF PushUp, Index
    <3> QED
      BY <2>2, <3>2 DEF PushUp
  <2>3. CASE PushEnd \/ PopEnd
    BY <2>3 DEF PushEnd, PopEnd
  <2>4. CASE pop
    <3>1. heap[0] \in Node /\ heap[sz - 1] \in Node \union {Garbage} /\ 0 \in Index
      BY <2>0, <2>4 DEF pop, OrderInv, NodesOK, Index
    <3> QED
      BY <2>4, <3>1 DEF pop, LastOne
  <2>5. CASE PopDown
    <3>1. now' \in Index
      BY <2>0, <2>5 DEF PopDown, HasChild, SmallerChild, Left, Right, Index
    <3> QED
      BY <2>5, <3>1 DEF PopDown
  <2>6. CASE UNCHANGED heapVars
    BY <2>6 DEF heapVars
  <2> QED
    BY <2>1, <2>2, <2>3, <2>4, <2>5, <2>6 DEF HeapNext
<1>3. OrderInv /\ Typed => HeapTypeOK
  BY SMTT(30) DEF OrderInv, NodesOK, HeapTypeOK
<1> QED
  BY <1>1, <1>2, <1>3, HeapInvariant, PTL DEF HeapSpec

-----------------------------------------------------------------------------
\* ant().
LoopInv ==
  /\ move \in 1 .. n /\ ant \in AntIds
  /\ move = n => ant = 1

\* A walk that has come to its len-th place.
Begun(t, len) ==
  t \in Seq(Places) /\ Len(t) = len /\ IsInjective(t) /\ t[1] = StPoint

RoutesGrow ==
  /\ routes \in [AntIds -> Seq(Places)]
  /\ \A a \in AntIds : Begun(routes[a], IF a < ant THEN move + 1 ELSE move)

KeptTours ==
  /\ path_best \in Seq(Seq(Places))
  /\ \A k \in DOMAIN path_best : IsTour(path_best[k])
  /\ path # << >> => IsTour(path)

TourInv == LoopInv /\ RoutesGrow /\ KeptTours

LEMMA Sizes ==
  /\ n \in Nat /\ n > 1 /\ Ants \in Nat /\ Ants > 0
  /\ StPoint \in Places
<1>1. PicNum \in Nat /\ PicNum # 0 /\ Ants \in Nat /\ Ants # 0
  BY TourAssumption
<1> QED BY <1>1, SMT DEF n, StPoint, Places

\* One more place that was not there: what a walk gains by a move.
LEMMA MoveGrows ==
  ASSUME NEW t, NEW len \in Nat \ {0}, Begun(t, len), NEW place \in Unvisited(t)
  PROVE  Begun(Append(t, place), len + 1)
<1>1. t \in Seq(Places) /\ Len(t) = len /\ place \in Places
  BY DEF Begun, Unvisited, NotBeen
<1>2. Append(t, place) \in Seq(Places) /\ Len(Append(t, place)) = len + 1
  BY <1>1, SMT
<1>3. /\ \A k \in 1 .. len : Append(t, place)[k] = t[k] /\ t[k] # place
      /\ Append(t, place)[len + 1] = place
  <2>1. \A k \in 1 .. len : t[k] # place
    BY <1>1, SMT DEF Unvisited, NotBeen, Range
  <2> QED BY <1>1, <2>1, SMT
<1>4. \A a, b \in 1 .. len : t[a] = t[b] => a = b
  BY <1>1, SMT DEF Begun, IsInjective
<1>5. \A a, b \in 1 .. len + 1 : Append(t, place)[a] = Append(t, place)[b] => a = b
  <2> SUFFICES ASSUME NEW a \in 1 .. len + 1, NEW b \in 1 .. len + 1,
                      Append(t, place)[a] = Append(t, place)[b]
               PROVE  a = b
    OBVIOUS
  <2>1. CASE a \in 1 .. len /\ b \in 1 .. len
    BY <2>1, <1>3, <1>4
  <2>2. CASE a = len + 1 /\ b = len + 1
    BY <2>2
  <2>3. CASE a = len + 1 /\ b \in 1 .. len
    BY <2>3, <1>3
  <2>4. CASE a \in 1 .. len /\ b = len + 1
    BY <2>4, <1>3
  <2> QED BY <2>1, <2>2, <2>3, <2>4, SMT
<1>6. DOMAIN Append(t, place) = 1 .. len + 1
  BY <1>1, <1>2, SMT
<1>7. IsInjective(Append(t, place))
  BY <1>5, <1>6 DEF IsInjective
<1>8. Append(t, place)[1] = StPoint
  BY <1>3, SMT DEF Begun
<1> QED BY <1>2, <1>7, <1>8 DEF Begun

\* Where all places are apart, the roulette stops at one not visited.
LEMMA DrawsUnvisited ==
  ASSUME Apart, NEW t, NEW len \in Nat \ {0}, Begun(t, len)
  PROVE  Drawn(t) = Unvisited(t)
<1>1. t \in Seq(Places) /\ Len(t) = len
  BY DEF Begun
<1>2. Last(t) \in Places /\ Last(t) \in Range(t)
  BY <1>1, SMT DEF Last, Range
<1>3. \A k \in Unvisited(t) : k \in Places /\ k # Last(t)
  BY <1>2 DEF Unvisited, NotBeen
<1>4. CanDraw(t)
  BY <1>2, <1>3 DEF CanDraw, Apart
<1> QED BY <1>4 DEF Drawn

LEMMA CompleteIsTour ==
  ASSUME NEW t, Begun(t, n)
  PROVE  IsTour(t)
<1>1. t \in [1 .. n -> Places]
  BY Sizes, SMT DEF Begun
<1> QED BY <1>1 DEF Begun, IsTour

LEMMA StartBegun ==
  Begun(<< StPoint >>, 1)
<1>1. /\ << StPoint >> \in Seq(Places)
      /\ Len(<< StPoint >>) = 1 /\ << StPoint >>[1] = StPoint
  BY Sizes, SMT
<1>2. IsInjective(<< StPoint >>)
  BY SMT DEF IsInjective
<1> QED BY <1>1, <1>2 DEF Begun

LEMMA AtStartGrows ==
  /\ AtStart \in [AntIds -> Seq(Places)]
  /\ \A a \in AntIds : Begun(AtStart[a], 1)
BY StartBegun DEF AtStart, Begun

LEMMA TourBegins ==
  ASSUME TourInit
  PROVE  TourInv
<1>1. LoopInv
  BY Sizes, SMT DEF TourInit, LoopInv, AntIds
<1>2. RoutesGrow
  BY AtStartGrows, SMT DEF TourInit, RoutesGrow, AntIds
<1>3. KeptTours
  BY SMT DEF TourInit, KeptTours
<1> QED BY <1>1, <1>2, <1>3 DEF TourInv

LEMMA TourStep ==
  ASSUME Apart, TourInv, [TourNext]_tourVars
  PROVE  TourInv'
<1> USE DEF TourInv
<1>1. CASE Move
  <2>1. PICK place \in Drawn(routes[ant]) : routes' = [routes EXCEPT ![ant] = Append(@, place)]
    BY <1>1 DEF Move
  <2>2. ant \in AntIds /\ move \in Nat \ {0} /\ move < n
    BY <1>1, Sizes, SMT DEF Move, LoopInv, AntIds
  <2>3. Begun(routes[ant], move)
    BY <2>2, SMT DEF RoutesGrow, AntIds
  <2>4. place \in Unvisited(routes[ant])
    BY <2>1, <2>2, <2>3, DrawsUnvisited
  <2>5. Begun(Append(routes[ant], place), move + 1)
    BY <2>2, <2>3, <2>4, MoveGrows
  <2>6. routes' \in [AntIds -> Seq(Places)]
    BY <2>1, <2>2, <2>5 DEF RoutesGrow, Begun
  <2>7. ASSUME NEW a \in AntIds
        PROVE  Begun(routes'[a], IF a < ant' THEN move' + 1 ELSE move')
    <3>1. routes'[a] = IF a = ant THEN Append(routes[ant], place) ELSE routes[a]
      BY <2>1, <2>2 DEF RoutesGrow
    <3>2. Begun(routes[a], IF a < ant THEN move + 1 ELSE move)
      BY DEF RoutesGrow
    <3>3. Begun(routes'[a], IF a < ant \/ a = ant THEN move + 1 ELSE move)
      BY <3>1, <3>2, <2>5
    <3>4. (IF a < ant \/ a = ant THEN move + 1 ELSE move) = (IF a < ant' THEN move' + 1 ELSE move')
      BY <1>1, <2>2, Sizes, SMT DEF Move, NextAnt, AntIds
    <3> QED BY <3>3, <3>4
  <2>8. LoopInv'
    BY <1>1, <2>2, Sizes, SMT DEF Move, LoopInv, NextAnt, AntIds
  <2>9. KeptTours'
    BY <1>1 DEF Move, KeptTours
  <2> QED BY <2>6, <2>7, <2>8, <2>9 DEF RoutesGrow
<1>2. CASE IterationEnds
  <2>1. PICK a \in AntIds : path_best' = Append(path_best, routes[a])
    BY <1>2 DEF IterationEnds
  <2>2. Begun(routes[a], n)
    BY <1>2, <2>1, Sizes, SMT DEF IterationEnds, RoutesGrow, LoopInv, AntIds
  <2>3. IsTour(routes[a]) /\ routes[a] \in Seq(Places)
    BY <2>2, CompleteIsTour DEF Begun
  <2>4. /\ path_best \in Seq(Seq(Places))
        /\ \A k \in 1 .. Len(path_best) : IsTour(path_best[k])
    BY SMT DEF KeptTours
  <2>5. /\ path_best' \in Seq(Seq(Places))
        /\ \A k \in DOMAIN path_best' : IsTour(path_best'[k])
    <3>1. path_best' \in Seq(Seq(Places)) /\ DOMAIN path_best' = 1 .. Len(path_best) + 1
      BY <2>1, <2>3, <2>4, SMT
    <3>2. \A k \in 1 .. Len(path_best) : path_best'[k] = path_best[k]
      BY <2>1, <2>4, SMT
    <3>3. path_best'[Len(path_best) + 1] = routes[a]
      BY <2>1, <2>4, SMT
    <3>4. \A k \in 1 .. Len(path_best) + 1 : k \in 1 .. Len(path_best) \/ k = Len(path_best) + 1
      BY <2>4, SMT
    <3> QED BY <3>1, <3>2, <3>3, <3>4, <2>3, <2>4
  <2>6. KeptTours'
    BY <1>2, <2>5 DEF IterationEnds, KeptTours
  <2>7. LoopInv'
    BY <1>2, Sizes, SMT DEF IterationEnds, LoopInv, AntIds
  <2>8. RoutesGrow'
    <3>1. routes' = AtStart /\ ant' = 1 /\ move' = 1
      BY <1>2 DEF IterationEnds
    <3>2. \A b \in AntIds : (IF b < 1 THEN 1 + 1 ELSE 1) = 1
      BY Sizes, SMT DEF AntIds
    <3> QED BY <3>1, <3>2, AtStartGrows DEF RoutesGrow
  <2> QED BY <2>6, <2>7, <2>8
<1>3. CASE Returns
  <2>1. KeptTours'
    BY <1>3 DEF Returns, KeptTours
  <2> QED BY <1>3, <2>1 DEF Returns, LoopInv, RoutesGrow
<1>4. CASE UNCHANGED tourVars
  BY <1>4 DEF tourVars, LoopInv, RoutesGrow, KeptTours
<1> QED BY <1>1, <1>2, <1>3, <1>4 DEF TourNext

KeptShortest ==
  /\ path_best \in Seq(Seq(Places)) /\ Len(walked) = Len(path_best)
  /\ walked \in Seq([AntIds -> Seq(Places)])
  /\ Len(path_best) <= TotIter /\ (path # << >> => Len(path_best) = TotIter)
  /\ ShortestKept

\* The first of the least costs is one of the least.
LEMMA ChosenIsLeast ==
  ASSUME NEW costs, NEW k, Chosen(costs, k)
  PROVE  \A l \in DOMAIN costs : costs[k] <= costs[l]
BY DEF Chosen, FirstLeast

LEMMA ShortestInit ==
  ASSUME TourInit
  PROVE  KeptShortest
BY TourAssumption, SMT DEF TourInit, KeptShortest, ShortestKept

LEMMA ShortestStep ==
  ASSUME TourInv, KeptShortest, [TourNext]_tourVars
  PROVE  KeptShortest'
<1>1. CASE Move
  BY <1>1 DEF Move, KeptShortest, ShortestKept
<1>2. CASE IterationEnds
  <2>1. PICK a \in AntIds :
          Chosen(Lengths, a) /\ path_best' = Append(path_best, routes[a])
    BY <1>2 DEF IterationEnds
  <2>2. \A b \in AntIds : Length(routes[a]) <= Length(routes[b])
    <3>1. \A b \in AntIds : Lengths[a] <= Lengths[b]
      BY <2>1, ChosenIsLeast DEF Lengths
    <3> QED BY <3>1 DEF Lengths
  <2>3. /\ routes \in [AntIds -> Seq(Places)] /\ routes[a] \in Seq(Places)
        /\ walked' = Append(walked, routes)
    BY <1>2 DEF IterationEnds, TourInv, RoutesGrow
  <2>4. /\ path_best \in Seq(Seq(Places)) /\ walked \in Seq([AntIds -> Seq(Places)])
        /\ Len(walked) = Len(path_best)
    BY DEF KeptShortest
  <2>5. /\ path_best' \in Seq(Seq(Places))
        /\ walked' \in Seq([AntIds -> Seq(Places)])
        /\ Len(walked') = Len(path_best') /\ DOMAIN walked' = 1 .. Len(path_best) + 1
        /\ Len(path_best') <= TotIter
    <3>1. Len(path_best) < TotIter /\ TotIter \in Nat
      BY <1>2, TourAssumption DEF IterationEnds
    <3> QED BY <2>1, <2>3, <2>4, <3>1, SMT
  <2>6. ASSUME NEW k \in DOMAIN walked', NEW b \in AntIds
        PROVE  Length(path_best'[k]) <= Length(walked'[k][b])
    <3>1. CASE k \in 1 .. Len(path_best)
      <4>1. path_best'[k] = path_best[k] /\ walked'[k] = walked[k] /\ k \in DOMAIN walked
        BY <2>1, <2>3, <2>4, <3>1, SMT
      <4> QED BY <4>1 DEF KeptShortest, ShortestKept
    <3>2. CASE k = Len(path_best) + 1
      <4>1. path_best'[k] = routes[a]
        BY <2>1, <2>3, <2>4, <3>2, SMT
      <4>2. walked'[k] = routes
        <5>1. Len(walked) + 1 = k /\ walked \in Seq([AntIds -> Seq(Places)])
          BY <2>4, <3>2
        <5> QED BY <2>3, <5>1, SMT
      <4> QED BY <4>1, <4>2, <2>2
    <3>3. k \in 1 .. Len(path_best) \/ k = Len(path_best) + 1
      BY <2>4, <2>5, SMT
    <3> QED BY <3>1, <3>2, <3>3
  <2>7. path' = path /\ path = << >>
    BY <1>2, <2>4, SMT DEF IterationEnds, KeptShortest
  <2> QED BY <2>5, <2>6, <2>7 DEF KeptShortest, ShortestKept
<1>3. CASE Returns
  <2>1. PICK k \in DOMAIN path_best : Chosen(LengthsWithEnd, k) /\ path' = path_best[k]
    BY <1>3 DEF Returns
  <2>2. \A l \in DOMAIN path_best : LengthsWithEnd[k] <= LengthsWithEnd[l]
    BY <2>1, ChosenIsLeast DEF LengthsWithEnd
  <2>3. \A l \in DOMAIN path_best : WithEnd(path') <= WithEnd(path_best[l])
    BY <2>1, <2>2 DEF LengthsWithEnd
  <2> QED BY <1>3, <2>3 DEF Returns, KeptShortest, ShortestKept
<1>4. CASE UNCHANGED tourVars
  BY <1>4 DEF tourVars, KeptShortest, ShortestKept
<1> QED BY <1>1, <1>2, <1>3, <1>4 DEF TourNext

\* Every walk ant() keeps, and the one it returns, begins at the start and has every place
\* once, for any pictures no two of which lie on one spot (aco.c:199-218, 261).
THEOREM ToursCorrect == ASSUME Apart PROVE TourSpec => []ToursComplete
<1>1. TourInit => TourInv
  BY TourBegins
<1>2. TourInv /\ [TourNext]_tourVars => TourInv'
  BY TourStep
<1>3. TourInv => ToursComplete
  BY DEF TourInv, KeptTours, ToursComplete
<1> QED BY <1>1, <1>2, <1>3, PTL DEF TourSpec

\* No ant of an iteration walked less than the one kept, and no walk kept is shorter with
\* its end than the one ant() returns (chkmin, aco.c:226-233, 255-262).
THEOREM ShortestCorrect ==
  ASSUME Apart
  PROVE  TourSpec => []ShortestKept
<1>1. TourInit => TourInv /\ KeptShortest
  BY TourBegins, ShortestInit
<1>2. TourInv /\ KeptShortest /\ [TourNext]_tourVars => TourInv' /\ KeptShortest'
  BY TourStep, ShortestStep
<1>3. KeptShortest => ShortestKept
  BY DEF KeptShortest
<1> QED BY <1>1, <1>2, <1>3, PTL DEF TourSpec

\* The loops' indices and the arrays stay in range, for any places apart.
THEOREM TourTyped ==
  ASSUME Apart
  PROVE  TourSpec => []TourTypeOK
<1>1. TourInit => TourInv /\ KeptShortest
  BY TourBegins, ShortestInit
<1>2. TourInv /\ KeptShortest /\ [TourNext]_tourVars => TourInv' /\ KeptShortest'
  BY TourStep, ShortestStep
<1>3. TourInv /\ KeptShortest => TourTypeOK
  <2> SUFFICES ASSUME TourInv, KeptShortest PROVE TourTypeOK
    OBVIOUS
  <2>1. path \in Seq(Places)
    <3>1. CASE path = << >>
      BY <3>1, SMT
    <3>2. CASE path # << >>
      <4>1. path \in [1 .. n -> Places]
        BY <3>2 DEF TourInv, KeptTours, IsTour
      <4> QED BY <4>1, Sizes, SMT
    <3> QED BY <3>1, <3>2
  <2> QED BY <2>1 DEF TourInv, LoopInv, RoutesGrow, KeptShortest, TourTypeOK
<1> QED BY <1>1, <1>2, <1>3, PTL DEF TourSpec

-----------------------------------------------------------------------------
\* go_point and get_Theta.  What atan and its corrections make of a goal is where it lies;
\* so pid_yaw's last_e is always the direction of the goal before, and the derivative what
\* the goal has moved since, but for a whole turn.
Speeds == -target_v .. target_v

FilterInv ==
  /\ last_x \in Speeds /\ last_y \in Speeds /\ lag \in 0 .. 2 * target_v
  /\ Magnitude(last_x - arm_cos[out % Full]) <= lag
  /\ Magnitude(last_y - arm_sin[out % Full]) <= lag

SteerInv ==
  /\ bearing \in 0 .. Full /\ last_e = Direction(bearing)
  /\ out \in -Full .. 2 * Full /\ lead \in -Half .. Half
  /\ (out - (Direction(bearing) + lead)) % Full = 0
  /\ FilterInv

LEMMA Parts == Quarter \in Nat \ {0} /\ Half = 2 * Quarter /\ Full = 4 * Quarter
  BY AnglesAssumption, SMT DEF Quarter, Half

\* The remainder of what is no more than a turn off.
LEMMA NearRemainder ==
  ASSUME NEW p \in Nat \ {0}, NEW a \in -p .. 2 * p - 1
  PROVE  a % p = IF a < 0 THEN a + p ELSE IF a < p THEN a ELSE a - p
<1>1. CASE a < 0
  <2>1. a = -p \/ a + p \in 1 .. p - 1
    BY <1>1, SMT
  <2> QED BY <1>1, <2>1, SMT
<1>2. CASE a \in 0 .. p - 1
  BY <1>2, SMT
<1>3. CASE a \in p .. 2 * p - 1
  BY <1>3, SMT
<1> QED BY <1>1, <1>2, <1>3, SMT

\* atan(dx / dy) with its corrections, in each quadrant and on the axes.
LEMMA YawIsDirection ==
  ASSUME NEW b \in 0 .. Full
  PROVE  Yaw(b) = Direction(b) /\ Direction(b) \in 0 .. Full
<1> DEFINE q == Quarter
<1>0. q \in Nat \ {0} /\ Half = 2 * q /\ Full = 4 * q /\ b \in Nat
  BY Parts
<1> USE DEF Yaw, Direction, Here, dyIsZero, dxPositive, dxNegative, dyPositive, Corrections, Atan
<1>1. CASE b < Half
  <2>1. b % Half = b
    BY <1>0, <1>1, NearRemainder, SMT
  <2> QED BY <1>0, <1>1, <2>1, SMT
<1>2. CASE b >= Half /\ b < Full
  <2>1. b \in -Half .. 2 * Half - 1 /\ ~(b < 0) /\ ~(b < Half) /\ Half \in Nat \ {0}
    BY <1>0, <1>2, SMT
  <2>2. b % Half = b - Half
    BY <2>1, NearRemainder
  <2> QED BY <1>0, <1>2, <2>2, SMT
<1>3. CASE b = Full
  BY <1>0, <1>3, SMT
<1> QED BY <1>0, <1>1, <1>2, <1>3, SMT

\* Swing goes from one direction to the other, but for a whole turn.
LEMMA SwingLeads ==
  ASSUME NEW from \in 0 .. Full, NEW to \in 0 .. Full
  PROVE  /\ Swing(from, to) \in Int /\ Swing(from, to) \in -Half .. Half
         /\ (to - from - Swing(from, to)) % Full = 0
<1> DEFINE a == to - from + Half
<1>1. /\ Full \in Nat \ {0} /\ Half \in Nat /\ 2 * Half = Full
      /\ a \in -Full .. 2 * Full - 1 /\ a \in Int
  BY Parts, SMT
<1>2. a % Full = IF a < 0 THEN a + Full ELSE IF a < Full THEN a ELSE a - Full
  BY <1>1, NearRemainder
<1> HIDE DEF a
<1>3. a - (a % Full) \in {-Full, 0, Full} /\ a % Full \in Int
  BY <1>1, <1>2, SMT
<1>4. (-Full) % Full = 0 /\ 0 % Full = 0 /\ Full % Full = 0
  BY <1>1, NearRemainder, SMT
<1>5. to - from - ((a % Full) - Half) = a - (a % Full)
  BY <1>1, <1>3, SMT DEF a
<1>6. (a % Full) - Half \in -Half .. Half
  <2>1. a % Full \in 0 .. Full - 1
    BY <1>1, SMT
  <2> QED BY <1>1, <2>1, SMT
<1> QED BY <1>3, <1>4, <1>5, <1>6, <1>1, SMT DEF Swing, a

\* What the filter leaves of a difference.
LEMMA ShrinkBounds ==
  ASSUME NEW d \in Int, NEW m \in Nat, Magnitude(d) <= m
  PROVE  /\ Shrink(d) \in Int /\ Magnitude(Shrink(d)) <= Shrink(m)
         /\ Shrink(m) \in 0 .. m /\ Magnitude(Shrink(d)) <= Magnitude(d)
         /\ (d >= 0 => Shrink(d) \in 0 .. d) /\ (d <= 0 => Shrink(d) \in d .. 0)
<1>1. CASE d >= 0
  <2>1. d \in Nat /\ d <= m
    BY <1>1, SMT DEF Magnitude
  <2>2. /\ (3 * d) \div 5 \in 0 .. d /\ (3 * m) \div 5 \in 0 .. m
        /\ (3 * d) \div 5 <= (3 * m) \div 5
    BY <2>1, SMT
  <2> QED BY <1>1, <2>1, <2>2, SMT DEF Shrink, Magnitude
<1>2. CASE d < 0
  <2> DEFINE a == -d
  <2>1. a \in Nat /\ a <= m /\ d = -a /\ a > 0
    BY <1>2, SMT DEF Magnitude
  <2>2. /\ (3 * a) \div 5 \in 0 .. a /\ (3 * m) \div 5 \in 0 .. m
        /\ (3 * a) \div 5 <= (3 * m) \div 5
    <3> HIDE DEF a
    <3> QED BY <2>1, SMT
  <2>3. Shrink(d) = -((3 * a) \div 5) /\ Shrink(m) = (3 * m) \div 5
    BY <1>2, SMT DEF Shrink
  <2> HIDE DEF a
  <2> QED BY <1>2, <2>1, <2>2, <2>3, SMT DEF Magnitude
<1> QED BY <1>1, <1>2, SMT

\* One tick of the filter towards u: it stays within the speeds and nears u.
LEMMA FilterNears ==
  ASSUME NEW v \in Speeds, NEW u \in Speeds, NEW m \in Nat, Magnitude(v - u) <= m
  PROVE  LowPass(v, u) \in Speeds /\ Magnitude(LowPass(v, u) - u) <= Shrink(m)
<1> DEFINE d == v - u
<1>1. target_v \in Nat /\ d \in Int /\ v \in Int /\ u \in Int /\ v = u + d
  BY SteeringAssumption, SMT DEF Speeds
<1>2. /\ Shrink(d) \in Int /\ Magnitude(Shrink(d)) <= Shrink(m)
      /\ (d >= 0 => Shrink(d) \in 0 .. d) /\ (d <= 0 => Shrink(d) \in d .. 0)
  BY <1>1, ShrinkBounds
<1>3. LowPass(v, u) = u + Shrink(d)
  BY DEF LowPass
<1> DEFINE t == Shrink(d)
<1>4. t \in Int /\ (d >= 0 => t \in 0 .. d) /\ (d <= 0 => t \in d .. 0)
  BY <1>2
<1> HIDE DEF d, t
<1>5. u + t \in Speeds
  BY <1>1, <1>4, SMT DEF Speeds
<1>6. (u + t) - u = t
  BY <1>1, <1>4, SMT
<1> QED BY <1>2, <1>3, <1>5, <1>6 DEF t

\* Two speeds are no further apart than twice the speed.
LEMMA Furthest ==
  ASSUME NEW v \in Speeds, NEW u \in Speeds
  PROVE  2 * target_v \in Nat /\ Magnitude(v - u) <= 2 * target_v
  BY SteeringAssumption, SMT DEF Speeds, Magnitude

LEMMA CourseInTable ==
  ASSUME NEW o \in Int
  PROVE  arm_cos[o % Full] \in Speeds /\ arm_sin[o % Full] \in Speeds
<1>1. o % Full \in 0 .. Full - 1
  BY AnglesAssumption, SMT
<1> QED BY <1>1, SteeringAssumption DEF Speeds

LEMMA FilterKeeps ==
  ASSUME SteerInv, NEW b \in Bearings, go_point(b), out' \in Int
  PROVE  FilterInv'
<1> DEFINE c == arm_cos[out' % Full]
           s == arm_sin[out' % Full]
           m == IF out' % Full = out % Full THEN lag ELSE 2 * target_v
<1>1. c \in Speeds /\ s \in Speeds /\ last_x \in Speeds /\ last_y \in Speeds
  BY CourseInTable DEF SteerInv, FilterInv
<1>2. m \in Nat /\ m <= 2 * target_v /\ Magnitude(last_x - c) <= m /\ Magnitude(last_y - s) <= m
  <2>1. 2 * target_v \in Nat /\ lag \in 0 .. 2 * target_v
    BY SteeringAssumption, SMT DEF SteerInv, FilterInv
  <2>2. CASE out' % Full = out % Full
    BY <2>1, <2>2, SMT DEF SteerInv, FilterInv
  <2>3. CASE out' % Full # out % Full
    BY <1>1, <2>1, <2>3, Furthest
  <2> QED BY <2>2, <2>3
<1>3. last_x' = LowPass(last_x, c) /\ last_y' = LowPass(last_y, s) /\ lag' = Shrink(m)
  BY DEF go_point
<1> HIDE DEF c, s, m
<1>4. /\ last_x' \in Speeds /\ Magnitude(last_x' - c) <= lag'
      /\ last_y' \in Speeds /\ Magnitude(last_y' - s) <= lag'
  BY <1>1, <1>2, <1>3, FilterNears
<1>5. lag' \in 0 .. m
  BY <1>2, <1>3, ShrinkBounds, SMT DEF Magnitude
<1>6. lag' \in 0 .. 2 * target_v
  BY <1>2, <1>5, SteeringAssumption, SMT
<1> QED BY <1>4, <1>6 DEF FilterInv, c, s, Speeds

LEMMA SteerKeeps == SteerInv /\ [SteeringNext]_steeringVars => SteerInv'
<1> SUFFICES ASSUME SteerInv, [SteeringNext]_steeringVars PROVE SteerInv'
  OBVIOUS
<1>1. CASE SteeringNext
  <2>1. PICK b \in Bearings : go_point(b)
    BY <1>1 DEF SteeringNext
  <2>2. b \in 0 .. Full
    BY SteeringAssumption
  <2> DEFINE old == Direction(bearing)
             new == Direction(b)
             swing == Swing(old, new)
  <2>3. /\ Yaw(b) = new /\ new \in 0 .. Full /\ old \in 0 .. Full
        /\ last_e = old /\ Full \in Nat
    BY <2>2, YawIsDirection, Parts DEF SteerInv
  <2>4. swing \in Int /\ swing \in -Half .. Half /\ (new - old - swing) % Full = 0
    BY <2>3, SwingLeads
  <2>5. /\ out' = new + (new - old) /\ last_e' = new /\ lead' = swing /\ bearing' = b
        /\ Direction(bearing') = new
    BY <2>1, <2>3 DEF go_point
  <2>6. FilterInv'
    <3>1. out' \in Int
      BY <2>3, <2>5, SMT
    <3> QED BY <2>1, <3>1, FilterKeeps
  <2> HIDE DEF old, new, swing
  <2>7. out' - (new + lead') = new - old - swing
    BY <2>3, <2>4, <2>5, SMT
  <2>8. out' \in -Full .. 2 * Full
    BY <2>3, <2>5, SMT
  <2> QED BY <2>2, <2>4, <2>5, <2>6, <2>7, <2>8 DEF SteerInv
<1>2. CASE UNCHANGED steeringVars
  BY <1>2 DEF steeringVars, SteerInv, FilterInv
<1> QED BY <1>1, <1>2

LEMMA SteerBegins == SteeringInit => SteerInv
<1> SUFFICES ASSUME SteeringInit PROVE SteerInv
  OBVIOUS
<1>1. Full \in Nat \ {0} /\ Half \in Nat /\ Quarter \in Nat /\ target_v \in Nat
  BY Parts, SteeringAssumption, SMT
<1>2. Direction(0) = 0 /\ 0 % Full = 0
  BY <1>1, NearRemainder, SMT DEF Direction, Here
<1>3. 0 \in Speeds /\ 2 * target_v \in 0 .. 2 * target_v
  BY <1>1, SMT DEF Speeds
<1>4. FilterInv
  BY <1>3, CourseInTable, Furthest DEF SteeringInit, FilterInv
<1>5. bearing \in 0 .. Full /\ out \in -Full .. 2 * Full /\ lead \in -Half .. Half
  BY <1>1, SMT DEF SteeringInit
<1>6. (out - (Direction(bearing) + lead)) % Full = 0
  BY <1>2, SMT DEF SteeringInit
<1> QED BY <1>2, <1>4, <1>5, <1>6 DEF SteeringInit, SteerInv

\* A goal that stands still is steered for straight wherever it lies, and one that moved is
\* led by as much: atan's corrections and the derivative's jump at 0 and 360 degrees change
\* no more than whole turns.  x and y follow through the filter, and what it has left of the
\* course before shrinks with every tick (go_point, motionPlanning.c:180-198).
THEOREM SteeringCorrect == SteeringSpec => []SteersForGoal
<1>1. SteerInv => SteersForGoal
  BY DEF SteerInv, FilterInv, SteersForGoal
<1> QED BY <1>1, SteerBegins, SteerKeeps, PTL DEF SteeringSpec

\* pid_yaw, the filter and the histories stay in range, whatever the goals.
THEOREM SteeringTyped == SteeringSpec => []SteeringTypeOK
<1>1. SteerInv => SteeringTypeOK
  BY YawIsDirection DEF SteerInv, FilterInv, SteeringTypeOK, Speeds
<1> QED BY <1>1, SteerBegins, SteerKeeps, PTL DEF SteeringSpec

-----------------------------------------------------------------------------
\* When timer1 corrects, it turns the car by what theta is off, the shorter way round.
TurnsBack ==
  [][Drive => z' \in -Half .. Half /\ (z' - theta) % Full = 0]_headingVars

ThetaInv ==
  /\ theta \in 0 .. Full
  /\ last_gryo_z \in -MaxRate .. MaxRate

LEMMA ThetaKept == ThetaInv /\ [HeadingNext]_headingVars => ThetaInv'
<1> SUFFICES ASSUME ThetaInv, [HeadingNext]_headingVars PROVE ThetaInv'
  OBVIOUS
<1>1. CASE icm_read_timer3
  <2>1. last_gryo_z' \in -MaxRate .. MaxRate /\ theta' = Wrapped(theta + last_gryo_z')
    BY <1>1 DEF icm_read_timer3, Filtered
  <2>2. MaxRate \in 0 .. Full /\ Full \in Nat
    BY AnglesAssumption, HeadingAssumption
  <2>3. ASSUME NEW g \in -MaxRate .. MaxRate, NEW t \in 0 .. Full PROVE Wrapped(t + g) \in 0 .. Full
    BY <2>2, <2>3, SMT DEF Wrapped
  <2> QED BY <2>1, <2>3 DEF ThetaInv
<1>2. CASE UNCHANGED <<theta, last_gryo_z>>
  BY <1>2 DEF ThetaInv
<1>3. icm_read_timer3 \/ UNCHANGED <<theta, last_gryo_z>>
  BY DEF HeadingNext, headingVars, motorControl_timer1, Threads, child3_UI, Drive, DriveArrives,
     DriveOver, Hold, Idle, End, Timer1
<1> QED BY <1>1, <1>2, <1>3

\* The side get_Theta finds by trying one is the right one for every theta, 0 and 360 degrees
\* among them, and the way is the shorter (get_Theta, motionPlanning.c:101-109).
THEOREM TurnsTheShorterWay == HeadingSpec => TurnsBack
<1>1. HeadingInit => ThetaInv
  BY Parts, HeadingAssumption, SMT DEF HeadingInit, ThetaInv
<1>2. ThetaInv => [Drive => z' \in -Half .. Half /\ (z' - theta) % Full = 0]_headingVars
  <2> SUFFICES ASSUME ThetaInv, Drive PROVE z' \in -Half .. Half /\ (z' - theta) % Full = 0
    OBVIOUS
  <2>1. z' = get_Theta(0, theta) /\ theta \in 0 .. Full
    BY DEF Drive, ThetaInv
  <2>2. Full \in Nat \ {0} /\ Half \in Nat /\ 2 * Half = Full
    BY Parts, SMT
  <2>3. z' = IF theta <= Half THEN theta ELSE theta - Full
    BY <2>1, <2>2, SMT DEF get_Theta, Shorter, Least, Magnitude, restrict_theta
  <2>4. 0 % Full = 0 /\ (-Full) % Full = 0
    BY <2>2, NearRemainder, SMT
  <2> QED BY <2>1, <2>2, <2>3, <2>4, SMT
<1> QED BY <1>1, <1>2, ThetaKept, PTL DEF HeadingSpec, TurnsBack
=============================================================================

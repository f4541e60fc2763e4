-------------------------------- MODULE Heap --------------------------------
(***************************************************************************)
(* The priority queue of A* (push and pop in aco.c): a binary heap of nodes  *)
(* in an array, "key1: F, key2: H".  One step is one turn of a loop: the     *)
(* element now is a hole that x, the node on its way, will fill.            *)
(***************************************************************************)
EXTENDS Integers, FiniteSets

CONSTANTS
  MAX_N,         \* length of the array, 1000 in the code
  FKeys, HKeys,  \* values of F and of H
  Garbage        \* an element never written

ASSUME HeapAssumption ==
  MAX_N \in Nat \ {0} /\ FKeys \subseteq Nat /\ HKeys \subseteq Nat /\ Garbage \notin [F : FKeys, H : HKeys]

Node == [F : FKeys, H : HKeys]
Index == 0 .. MAX_N - 1

VARIABLES heap, sz, op, now, x, res,
          content          \* history: how many of each node were pushed and not popped

heapVars == <<heap, sz, op, now, x, res, content>>

Father(i) == (i - 1) \div 2
Left(i) == 2 * i + 1
Right(i) == 2 * i + 2

HeapInit ==
  /\ heap = [i \in Index |-> Garbage] /\ sz = 0
  /\ op = "none" /\ now = 0 /\ x = Garbage /\ res = Garbage
  /\ content = [nd \in Node |-> 0]

\* The code does not compare sz with MAX_N.
push(ps) ==
  /\ op = "none" /\ sz < MAX_N
  /\ op' = "push" /\ now' = sz /\ sz' = sz + 1 /\ x' = ps
  /\ content' = [content EXCEPT ![ps] = @ + 1]
  /\ UNCHANGED <<heap, res>>

\* The father goes down unless it is the smaller one.  Mutant: without key1.
NotBelowByH(ps, fa) == fa.H < ps.H
NotBelow(ps, fa) == fa.F < ps.F \/ (fa.F = ps.F /\ fa.H < ps.H)
PushUp ==
  /\ op = "push" /\ now > 0 /\ ~NotBelow(x, heap[Father(now)])
  /\ heap' = [heap EXCEPT ![now] = heap[Father(now)]]
  /\ now' = Father(now)
  /\ UNCHANGED <<sz, op, x, res, content>>
PushEnd ==
  /\ op = "push" /\ (now > 0 => NotBelow(x, heap[Father(now)]))
  /\ heap' = [heap EXCEPT ![now] = x] /\ op' = "none"
  /\ UNCHANGED <<sz, now, x, res, content>>

\* x is the last element, heap[-- sz].
LastOne == sz - 1

\* astar pops only while (sz).
pop ==
  /\ op = "none" /\ sz > 0
  /\ op' = "pop" /\ now' = 0 /\ sz' = sz - 1
  /\ res' = heap[0] /\ x' = heap[LastOne]
  /\ content' = [content EXCEPT ![heap[0]] = @ - 1]
  /\ UNCHANGED heap

\* The smaller child, by both keys.  Mutant: always the left one.
Leftmost(i) == Left(i)
SmallerChild(i) ==
  IF Right(i) < sz /\ (\/ heap[Right(i)].F < heap[Left(i)].F
                       \/ heap[Right(i)].F = heap[Left(i)].F
                          /\ heap[Right(i)].H < heap[Left(i)].H)
    THEN Right(i) ELSE Left(i)
HasChild(i) == Left(i) < sz

\* Of the two tests before a break, the first covers the second.
Stays(child) == child.F >= x.F \/ (child.F = x.F /\ child.H > x.H)
PopDown ==
  /\ op = "pop" /\ HasChild(now) /\ ~Stays(heap[SmallerChild(now)])
  /\ heap' = [heap EXCEPT ![now] = heap[SmallerChild(now)]]
  /\ now' = SmallerChild(now)
  /\ UNCHANGED <<sz, op, x, res, content>>
PopEnd ==
  /\ op = "pop" /\ (HasChild(now) => Stays(heap[SmallerChild(now)]))
  /\ heap' = [heap EXCEPT ![now] = x] /\ op' = "none"
  /\ UNCHANGED <<sz, now, x, res, content>>

HeapNext == (\E ps \in Node : push(ps)) \/ PushUp \/ PushEnd \/ pop \/ PopDown \/ PopEnd

HeapSpec == HeapInit /\ [][HeapNext]_heapVars

-----------------------------------------------------------------------------
HeapTypeOK ==
  /\ heap \in [Index -> Node \union {Garbage}]
  /\ sz \in 0 .. MAX_N
  /\ op \in {"none", "push", "pop"} /\ now \in Index /\ x \in Node \union {Garbage}
  /\ res \in Node \union {Garbage}
  /\ content \in [Node -> Int]
  /\ \A i \in 0 .. sz - 1 : (op = "none" \/ i # now) => heap[i] \in Node

\* Between two operations no father is larger than its children.
FOrdered ==
  \A i \in 1 .. sz - 1 : op = "none" => heap[Father(i)].F <= heap[i].F

\* pop takes a node of the least F.
LeastF == op = "pop" => \A nd \in Node : content[nd] > 0 => res.F <= nd.F

=============================================================================

---------------------------- MODULE KernelProofs ----------------------------
(***************************************************************************)
(* Kernel for any finite set of threads with any priorities and slices, any *)
(* periodic timers and delays, and any width of rt_tick.                    *)
(*                                                                          *)
(* The strengthening says of the scheduler's record that each ready list    *)
(* holds the ready threads of its level once (SchedOK); of the list of      *)
(* timers that it is sorted by the time each has left, though the ticks in  *)
(* it overflow (TimerInv); and of a thread's place in its ready list that   *)
(* it makes up for the times it was overtaken (TurnInv).                    *)
(*                                                                          *)
(* Boot, the program's start on this kernel, for any window and FIFO: what  *)
(* has been used is bounded by how far main is in its script (BootInv).     *)
(***************************************************************************)
EXTENDS Kernel, Boot, FiniteSetTheorems, WellFoundedInduction, TLAPS

Stats == {"ready", "running", "suspend"}
Equals(level) == {t \in Threads : Prio[t] = level}

\* A list of the members of a set, each of them once.
Lists(list, S) ==
  /\ list \in Seq(S) /\ IsInjective(list)
  /\ \A e \in S : \E k \in 1 .. Len(list) : list[k] = e

-----------------------------------------------------------------------------
\* Lists that change by one element.
LEMMA ListsEmpty ==
  ASSUME NEW list, NEW S, Lists(list, S)
  PROVE  (list = << >> <=> S = {}) /\ list \in Seq(S) /\ DOMAIN list = 1 .. Len(list) /\ Len(list) \in Nat
<1>1. list \in Seq(S) /\ \A e \in S : \E k \in 1 .. Len(list) : list[k] = e
  BY DEF Lists
<1>2. Len(list) \in Nat /\ DOMAIN list = 1 .. Len(list) /\ \A k \in 1 .. Len(list) : list[k] \in S
  BY <1>1, SMT
<1>3. CASE list = << >>
  BY <1>1, <1>2, <1>3, SMT
<1>4. CASE list # << >>
  <2>1. 1 \in 1 .. Len(list)
    BY <1>1, <1>4, SMT
  <2> QED BY <1>1, <1>2, <1>4, <2>1
<1> QED BY <1>1, <1>2, <1>3, <1>4

LEMMA ListsAppend ==
  ASSUME NEW list, NEW S, NEW e, Lists(list, S), e \notin S
  PROVE  /\ Lists(Append(list, e), S \union {e})
         /\ Len(Append(list, e)) = Len(list) + 1
         /\ \A k \in 1 .. Len(list) : Append(list, e)[k] = list[k]
         /\ Append(list, e)[Len(list) + 1] = e
<1> DEFINE T == S \union {e}
           new == Append(list, e)
<1>1. list \in Seq(S) /\ list \in Seq(T) /\ Len(list) \in Nat /\ e \in T
  BY SMT DEF Lists
<1>2. /\ new \in Seq(T) /\ Len(new) = Len(list) + 1
      /\ \A k \in 1 .. Len(list) : new[k] = list[k]
      /\ new[Len(list) + 1] = e
      /\ DOMAIN new = 1 .. Len(list) + 1
  BY <1>1, SMT
<1>3. \A k \in 1 .. Len(list) : list[k] \in S
  BY <1>1, SMT
<1>4. IsInjective(new)
  <2>1. \A a, b \in 1 .. Len(list) : list[a] = list[b] => a = b
    BY <1>1, SMT DEF Lists, IsInjective
  <2> SUFFICES ASSUME NEW a \in 1 .. Len(list) + 1, NEW b \in 1 .. Len(list) + 1, new[a] = new[b]
               PROVE  a = b
    BY <1>2 DEF IsInjective
  <2>2. CASE a \in 1 .. Len(list) /\ b \in 1 .. Len(list)
    BY <2>1, <2>2, <1>2
  <2>3. CASE a = Len(list) + 1 /\ b \in 1 .. Len(list)
    BY <2>3, <1>2, <1>3
  <2>4. CASE b = Len(list) + 1 /\ a \in 1 .. Len(list)
    BY <2>4, <1>2, <1>3
  <2>5. CASE a = Len(list) + 1 /\ b = Len(list) + 1
    BY <2>5
  <2>6. (a \in 1 .. Len(list) \/ a = Len(list) + 1) /\ (b \in 1 .. Len(list) \/ b = Len(list) + 1)
    BY <1>1, SMT
  <2> QED BY <2>2, <2>3, <2>4, <2>5, <2>6
<1>5. \A x \in T : \E k \in 1 .. Len(new) : new[k] = x
  <2> SUFFICES ASSUME NEW x \in T PROVE \E k \in 1 .. Len(list) + 1 : new[k] = x
    BY <1>2
  <2>1. CASE x \in S
    <3>1. PICK k \in 1 .. Len(list) : list[k] = x
      BY <2>1 DEF Lists
    <3>2. k \in 1 .. Len(list) + 1 /\ new[k] = x
      BY <3>1, <1>1, <1>2, SMT
    <3> QED BY <3>2
  <2>2. CASE x = e
    <3>1. Len(list) + 1 \in 1 .. Len(list) + 1
      BY <1>1, SMT
    <3> QED BY <2>2, <3>1, <1>2
  <2> QED BY <2>1, <2>2
<1> HIDE DEF new, T
<1>6. Lists(new, T)
  BY <1>2, <1>4, <1>5 DEF Lists
<1> QED BY <1>2, <1>6 DEF new, T

LEMMA ListsTail ==
  ASSUME NEW list, NEW S, Lists(list, S), list # << >>
  PROVE  /\ Head(list) \in S /\ Head(list) = list[1]
         /\ Lists(Tail(list), S \ {Head(list)})
         /\ Len(Tail(list)) = Len(list) - 1
         /\ \A k \in 1 .. Len(list) - 1 : Tail(list)[k] = list[k + 1]
<1> DEFINE T == S \ {Head(list)}
           new == Tail(list)
<1>0. \A x \in S : \E k \in 1 .. Len(list) : list[k] = x
  BY Zenon DEF Lists
<1>1. /\ list \in Seq(S) /\ DOMAIN list = 1 .. Len(list) /\ Len(list) \in Nat /\ Len(list) > 0
      /\ Head(list) \in S /\ Head(list) = list[1]
      /\ \A k \in 1 .. Len(list) : list[k] \in S
  BY SMT DEF Lists
<1>2. /\ new \in Seq(S) /\ Len(new) = Len(list) - 1
      /\ \A k \in 1 .. Len(list) - 1 : new[k] = list[k + 1]
      /\ DOMAIN new = 1 .. Len(list) - 1
  BY <1>1, SMT
<1>3. \A a, b \in 1 .. Len(list) : list[a] = list[b] => a = b
  BY <1>1, Zenon DEF Lists, IsInjective
<1>4. \A k \in 1 .. Len(list) - 1 : new[k] \in T
  <2> SUFFICES ASSUME NEW k \in 1 .. Len(list) - 1 PROVE new[k] \in T
    OBVIOUS
  <2>1. k + 1 \in 1 .. Len(list) /\ 1 \in 1 .. Len(list) /\ k + 1 # 1
    BY <1>1, SMT
  <2>2. list[k + 1] # list[1]
    BY <2>1, <1>3
  <2> QED BY <2>1, <2>2, <1>1, <1>2
<1>5. new \in Seq(T)
  <2>1. \A k \in 1 .. Len(new) : new[k] \in T
    BY <1>2, <1>4
  <2> HIDE DEF T, new
  <2>2. Len(new) \in Nat /\ new = [k \in 1 .. Len(new) |-> new[k]]
    BY <1>1, <1>2, SMT
  <2> QED BY <2>1, <2>2, SMT
<1>6. IsInjective(new)
  <2> SUFFICES ASSUME NEW a \in 1 .. Len(list) - 1, NEW b \in 1 .. Len(list) - 1, new[a] = new[b]
               PROVE  a = b
    BY <1>2 DEF IsInjective
  <2>1. a + 1 \in 1 .. Len(list) /\ b + 1 \in 1 .. Len(list)
    BY <1>1, SMT
  <2>2. a + 1 = b + 1
    BY <2>1, <1>2, <1>3
  <2> QED BY <2>2, SMT
<1>7. \A x \in T : \E k \in 1 .. Len(new) : new[k] = x
  <2> SUFFICES ASSUME NEW x \in T PROVE \E k \in 1 .. Len(list) - 1 : new[k] = x
    BY <1>2
  <2>1. x \in S /\ x # list[1]
    BY <1>1
  <2>5. \E k \in 1 .. Len(list) : list[k] = x
    BY <2>1, <1>0
  <2>6. PICK k \in 1 .. Len(list) : list[k] = x
    BY <2>5
  <2>2. k # 1
    BY <2>1, <2>6
  <2>3. k - 1 \in 1 .. Len(list) - 1 /\ (k - 1) + 1 = k
    BY <2>2, <1>1, SMT
  <2>4. new[k - 1] = x
    BY <2>6, <2>3, <1>2
  <2> QED BY <2>3, <2>4
<1> HIDE DEF new, T
<1>8. Lists(new, T)
  BY <1>5, <1>6, <1>7 DEF Lists
<1> QED BY <1>1, <1>2, <1>8 DEF new, T

LEMMA LeastNumber ==
  ASSUME NEW S \in SUBSET Nat, S # {}
  PROVE  Min(S) \in S /\ \A m \in S : Min(S) <= m
<1> DEFINE R == {p \in Nat \X Nat : p[1] < p[2]}
<1>1. \A a, b \in Nat : a < b => <<a, b>> \in R
  OBVIOUS
<1>2. IsWellFoundedOn(R, Nat)
  BY NatLessThanWellFounded DEF OpToRel
<1> HIDE DEF R
<1>3. PICK l \in S : \A m \in S : ~ (<<m, l>> \in R)
  BY <1>2, WFMin
<1>4. \A m \in S : l <= m
  <2>1. \A m \in S : ~ (m < l)
    BY <1>1, <1>3
  <2> QED BY <2>1, SMT
<1> QED BY <1>4, Zenon DEF Min

\* What rt_list_remove does to a list the thread is not on, and to one it heads.
LEMMA RemoveOther ==
  ASSUME NEW list, NEW S, NEW e, Lists(list, S), e \notin S
  PROVE  RemoveFirst(list, e) = list
<1>1. \A k \in 1 .. Len(list) : list[k] \in S
  BY SMT DEF Lists
<1>2. ~ \E k \in 1 .. Len(list) : list[k] = e
  BY <1>1
<1> QED BY <1>2, Zenon DEF RemoveFirst

LEMMA RemoveHead ==
  ASSUME NEW list, NEW S, Lists(list, S), list # << >>
  PROVE  RemoveFirst(list, Head(list)) = Tail(list)
<1> DEFINE e == Head(list)
           I == {k \in 1 .. Len(list) : list[k] = e}
<1>1. list \in Seq(S) /\ Len(list) \in Nat /\ Len(list) > 0 /\ e = list[1]
  BY SMT DEF Lists
<1>2. 1 \in I /\ I \in SUBSET Nat /\ \A k \in I : 1 <= k
  BY <1>1
<1>3. Min(I) = 1
  <2>1. Min(I) \in I /\ Min(I) <= 1
    BY <1>2, LeastNumber
  <2> QED BY <1>2, <2>1, SMT
<1>4. SelectInSeq(list, LAMBDA v : v = e) = 1
  BY <1>2, <1>3 DEF SelectInSeq
<1>5. \E k \in 1 .. Len(list) : list[k] = e
  BY <1>2
<1>6. RemoveFirst(list, e) = RemoveAt(list, 1)
  BY <1>4, <1>5 DEF RemoveFirst
<1>7. RemoveAt(list, 1) = SubSeq(list, 1, 0) \o SubSeq(list, 2, Len(list))
  BY SMT DEF RemoveAt
<1>8. SubSeq(list, 1, 0) = << >>
  BY <1>1, SMT
<1>9. SubSeq(list, 2, Len(list)) = Tail(list)
  BY <1>1, SMT
<1>10. << >> \o Tail(list) = Tail(list)
  BY <1>1, SMT
<1> QED BY <1>6, <1>7, <1>8, <1>9, <1>10

-----------------------------------------------------------------------------
\* The scheduler's record.
Scheduler ==
  [stat : [Threads -> Stats], yield : SUBSET Threads, table : [Levels -> Seq(Threads)],
   group : SUBSET Levels, current : Threads]

Waiting(s, level) == {t \in Threads : s.stat[t] = "ready" /\ Prio[t] = level}

Queued(s) ==
  \A level \in Levels :
    /\ Lists(s.table[level], Waiting(s, level))
    /\ level \in s.group <=> Waiting(s, level) # {}

OneRuns(s) ==
  /\ s.stat[Idle] # "suspend" /\ s.stat[s.current] # "ready"
  /\ \A t \in Threads : s.stat[t] = "running" => t = s.current

SchedOK(s) == s \in Scheduler /\ Queued(s) /\ OneRuns(s)

\* What rt_schedule is for.
Serves(s) ==
  /\ s.stat[s.current] = "running"
  /\ \A t \in Threads : s.stat[t] = "ready" => Prio[s.current] <= Prio[t]

Suspended(s) == {t \in Threads : s.stat[t] = "suspend"}

\* From s to r a ready thread keeps its place in its list, or moves up by one if an equal
\* is given the processor.
Overtakes(s, r, level) == r.current # s.current /\ Prio[r.current] = level
Place(s, r, level, k) == IF Overtakes(s, r, level) THEN k + 1 ELSE k
MovesUp(s, r) ==
  \A level \in Levels : \A k \in 1 .. Len(r.table[level]) :
    s.stat[r.table[level][k]] = "ready" =>
      /\ Place(s, r, level, k) \in 1 .. Len(s.table[level])
      /\ s.table[level][Place(s, r, level, k)] = r.table[level][k]

LEMMA Constants ==
  /\ Idle \in Threads /\ Prio \in [Threads -> Nat] /\ Levels \subseteq Nat
  /\ \A t \in Threads : Prio[t] \in Levels /\ Prio[t] \in Nat
  /\ IsFiniteSet(Threads)
BY KernelAssumption DEF Levels

\* A waking thread that is not the current one.
LEMMA InsertIs ==
  ASSUME NEW s \in Scheduler, NEW t \in Threads, t # s.current
  PROVE  /\ rt_schedule_insert_thread(s, t) =
              [stat |-> [s.stat EXCEPT ![t] = "ready"], yield |-> s.yield,
               table |-> [s.table EXCEPT ![Prio[t]] = Append(s.table[Prio[t]], t)],
               group |-> s.group \union {Prio[t]}, current |-> s.current]
         /\ rt_schedule_insert_thread(s, t) \in Scheduler
<1> DEFINE r == [s EXCEPT !.stat[t] = "ready", !.table[Prio[t]] = Append(@, t), !.group = @ \union {Prio[t]}]
<1>1. rt_schedule_insert_thread(s, t) = r
  BY DEF rt_schedule_insert_thread, Behind
<1>2. r \in [stat : {[s.stat EXCEPT ![t] = "ready"]}, yield : {s.yield},
             table : {[s.table EXCEPT ![Prio[t]] = Append(s.table[Prio[t]], t)]},
             group : {s.group \union {Prio[t]}}, current : {s.current}]
  BY DEF Scheduler
<1> HIDE DEF r
<1>3. r = [stat |-> [s.stat EXCEPT ![t] = "ready"], yield |-> s.yield,
           table |-> [s.table EXCEPT ![Prio[t]] = Append(s.table[Prio[t]], t)],
           group |-> s.group \union {Prio[t]}, current |-> s.current]
  BY <1>2
<1>4. [s.stat EXCEPT ![t] = "ready"] \in [Threads -> Stats]
  BY SMT DEF Scheduler, Stats
<1>5. [s.table EXCEPT ![Prio[t]] = Append(s.table[Prio[t]], t)] \in [Levels -> Seq(Threads)]
  <2>1. s.table \in [Levels -> Seq(Threads)] /\ Prio[t] \in Levels
    BY Constants DEF Scheduler
  <2>2. Append(s.table[Prio[t]], t) \in Seq(Threads)
    BY <2>1, SMT
  <2> QED BY <2>1, <2>2
<1>6. s.yield \in SUBSET Threads /\ s.group \union {Prio[t]} \in SUBSET Levels /\ s.current \in Threads
  BY Constants, SMT DEF Scheduler
<1>7. r \in Scheduler
  BY <1>3, <1>4, <1>5, <1>6, Zenon DEF Scheduler
<1> QED BY <1>1, <1>3, <1>7

\* Everyone ready keeps the place in its list.
KeepsPlaces(s, r) ==
  \A level \in Levels : \A k \in 1 .. Len(r.table[level]) :
    s.stat[r.table[level][k]] = "ready" =>
      k \in 1 .. Len(s.table[level]) /\ s.table[level][k] = r.table[level][k]

LEMMA InsertQueued ==
  ASSUME NEW s \in Scheduler, Queued(s), NEW t \in Threads, s.stat[t] # "ready", t # s.current
  PROVE  LET r == rt_schedule_insert_thread(s, t)
         IN /\ Queued(r) /\ KeepsPlaces(s, r)
            /\ r.stat = [s.stat EXCEPT ![t] = "ready"]
            /\ r.current = s.current /\ r.yield = s.yield /\ r \in Scheduler
            /\ \A level \in Levels : s.table[level] # << >> =>
                 r.table[level] # << >> /\ Head(r.table[level]) = Head(s.table[level])
<1> DEFINE r == rt_schedule_insert_thread(s, t)
<1>1. s.stat \in [Threads -> Stats]
      /\ s.table \in [Levels -> Seq(Threads)] /\ s.current \in Threads /\ Prio[t] \in Levels
  BY Constants, SMT DEF Scheduler
<1>2. /\ r \in Scheduler
      /\ r.stat = [s.stat EXCEPT ![t] = "ready"]
      /\ r.table = [s.table EXCEPT ![Prio[t]] = Append(s.table[Prio[t]], t)]
      /\ r.group = s.group \union {Prio[t]}
      /\ r.current = s.current /\ r.yield = s.yield
  <2>2. r = [stat |-> [s.stat EXCEPT ![t] = "ready"], yield |-> s.yield,
             table |-> [s.table EXCEPT ![Prio[t]] = Append(s.table[Prio[t]], t)],
             group |-> s.group \union {Prio[t]}, current |-> s.current]
        /\ r \in Scheduler
    BY InsertIs
  <2> HIDE DEF r
  <2> QED BY <2>2
<1> HIDE DEF r
<1>3. \A level \in Levels :
        Waiting(r, level) = IF level = Prio[t] THEN Waiting(s, level) \union {t} ELSE Waiting(s, level)
  BY <1>1, <1>2 DEF Waiting
<1>4. t \notin Waiting(s, Prio[t])
  BY DEF Waiting
<1>5. Queued(r)
  <2> SUFFICES ASSUME NEW level \in Levels
               PROVE  /\ Lists(r.table[level], Waiting(r, level))
                      /\ level \in r.group <=> Waiting(r, level) # {}
    BY DEF Queued
  <2>1. CASE level = Prio[t]
    <3>1. r.table[level] = Append(s.table[level], t)
      BY <2>1, <1>1, <1>2
    <3>2. Lists(s.table[level], Waiting(s, level))
      BY <1>1 DEF Queued
    <3>3. Lists(Append(s.table[level], t), Waiting(s, level) \union {t})
      BY <3>2, <2>1, <1>4, ListsAppend
    <3> QED BY <2>1, <3>1, <3>3, <1>2, <1>3
  <2>2. CASE level # Prio[t]
    BY <2>2, <1>1, <1>2, <1>3 DEF Queued
  <2> QED BY <2>1, <2>2
<1>6. ASSUME NEW level \in Levels
      PROVE  \/ r.table[level] = s.table[level]
             \/ r.table[level] = Append(s.table[level], t) /\ s.table[level] \in Seq(Threads)
  BY <1>1, <1>2
<1>7. KeepsPlaces(s, r)
  <2> SUFFICES ASSUME NEW level \in Levels, NEW k \in 1 .. Len(r.table[level]),
                      s.stat[r.table[level][k]] = "ready"
               PROVE  k \in 1 .. Len(s.table[level]) /\ s.table[level][k] = r.table[level][k]
    BY DEF KeepsPlaces
  <2>1. CASE r.table[level] = Append(s.table[level], t) /\ s.table[level] \in Seq(Threads)
    <3>2. CASE k = Len(s.table[level]) + 1
      <4>1. r.table[level][k] = t
        BY <2>1, <3>2, SMT
      <4> QED BY <4>1
    <3>3. CASE k \in 1 .. Len(s.table[level])
      BY <2>1, <3>3, SMT
    <3>4. k \in 1 .. Len(s.table[level]) + 1
      BY <2>1, SMT
    <3> QED BY <2>1, <3>2, <3>3, <3>4, SMT
  <2>2. CASE r.table[level] = s.table[level]
    BY <2>2
  <2> QED BY <2>1, <2>2, <1>6
<1>8. ASSUME NEW level \in Levels, s.table[level] # << >>
      PROVE  r.table[level] # << >> /\ Head(r.table[level]) = Head(s.table[level])
  <2>1. CASE r.table[level] = Append(s.table[level], t) /\ s.table[level] \in Seq(Threads)
    BY <2>1, <1>8, SMT
  <2>2. CASE r.table[level] = s.table[level]
    BY <2>2, <1>8
  <2> QED BY <2>1, <2>2, <1>6
<1> QED BY <1>2, <1>5, <1>7, <1>8 DEF r

\* Making a waiting thread ready.
LEMMA InsertOK ==
  ASSUME NEW s, SchedOK(s), NEW t \in Threads, s.stat[t] = "suspend", t # s.current
  PROVE  LET r == rt_schedule_insert_thread(s, t)
         IN /\ SchedOK(r) /\ Suspended(r) = Suspended(s) \ {t}
            /\ r.current = s.current /\ r.stat[s.current] = s.stat[s.current]
            /\ KeepsPlaces(s, r) /\ \A x \in Threads : s.stat[x] = "ready" => r.stat[x] = "ready"
<1> DEFINE r == rt_schedule_insert_thread(s, t)
<1>1. s \in Scheduler /\ Queued(s) /\ OneRuns(s) /\ s.stat \in [Threads -> Stats] /\ s.current \in Threads
  BY SMT DEF SchedOK, Scheduler
<1>2. /\ Queued(r) /\ KeepsPlaces(s, r) /\ r.stat = [s.stat EXCEPT ![t] = "ready"]
      /\ r.current = s.current /\ r \in Scheduler
  BY <1>1, InsertQueued
<1> HIDE DEF r
<1>3. OneRuns(r)
  BY <1>1, <1>2, KernelAssumption DEF OneRuns
<1>4. Suspended(r) = Suspended(s) \ {t}
  BY <1>1, <1>2 DEF Suspended
<1>5. /\ r.stat[s.current] = s.stat[s.current]
      /\ \A x \in Threads : s.stat[x] = "ready" => r.stat[x] = "ready"
  BY <1>1, <1>2
<1> QED BY <1>2, <1>3, <1>4, <1>5 DEF SchedOK, r

\* A thread that is waked before it has left the processor.
LEMMA InsertCurrent ==
  ASSUME NEW s, SchedOK(s), s.stat[s.current] = "suspend"
  PROVE  LET r == rt_schedule_insert_thread(s, s.current)
         IN /\ SchedOK(r) /\ Suspended(r) = Suspended(s) \ {s.current}
            /\ r.current = s.current /\ r.stat[s.current] = "running"
            /\ KeepsPlaces(s, r) /\ \A x \in Threads : s.stat[x] = "ready" => r.stat[x] = "ready"
<1> DEFINE r == [s EXCEPT !.stat[s.current] = "running"]
<1>1. rt_schedule_insert_thread(s, s.current) = r
  BY DEF rt_schedule_insert_thread
<1>2. s \in Scheduler /\ Queued(s) /\ OneRuns(s) /\ s.stat \in [Threads -> Stats] /\ s.current \in Threads
  BY SMT DEF SchedOK, Scheduler
<1>3. r \in [stat : {[s.stat EXCEPT ![s.current] = "running"]}, yield : {s.yield}, table : {s.table},
             group : {s.group}, current : {s.current}]
  BY <1>2 DEF Scheduler
<1>4. r \in Scheduler
  BY <1>2 DEF Scheduler, Stats
<1> HIDE DEF r
<1>5. /\ r.stat = [s.stat EXCEPT ![s.current] = "running"]
      /\ r.table = s.table /\ r.group = s.group /\ r.current = s.current
  BY <1>3
<1>6. \A level \in Levels : Waiting(r, level) = Waiting(s, level)
  BY <1>2, <1>5 DEF Waiting
<1>7. Queued(r)
  BY <1>2, <1>5, <1>6 DEF Queued
<1>8. OneRuns(r)
  BY <1>2, <1>5, KernelAssumption DEF OneRuns
<1>9. Suspended(r) = Suspended(s) \ {s.current}
  BY <1>2, <1>5 DEF Suspended
<1>10. KeepsPlaces(s, r)
  BY <1>5 DEF KeepsPlaces
<1> QED BY <1>1, <1>2, <1>4, <1>5, <1>7, <1>8, <1>9, <1>10 DEF SchedOK

\* Removing a thread that is in no list changes nothing.
LEMMA RemoveNobody ==
  ASSUME NEW s \in Scheduler, Queued(s), NEW t \in Threads, s.stat[t] # "ready"
  PROVE  rt_schedule_remove_thread(s, t) = s
<1> DEFINE list == s.table[Prio[t]]
<1>1. Prio[t] \in Levels /\ s.table \in [Levels -> Seq(Threads)]
  BY Constants DEF Scheduler
<1>2. Lists(list, Waiting(s, Prio[t])) /\ (Prio[t] \in s.group <=> Waiting(s, Prio[t]) # {})
  BY <1>1 DEF Queued
<1>3. t \notin Waiting(s, Prio[t])
  BY DEF Waiting
<1>4. RemoveFirst(list, t) = list
  BY <1>2, <1>3, RemoveOther
<1>5. GroupAfter(s.group, Prio[t], list) = s.group
  <2>1. list = << >> <=> Waiting(s, Prio[t]) = {}
    BY <1>2, ListsEmpty
  <2> QED BY <1>2, <2>1, Zenon DEF GroupAfter
<1>6. rt_schedule_remove_thread(s, t)
        = [s EXCEPT !.table[Prio[t]] = list, !.group = GroupAfter(s.group, Prio[t], list)]
  BY <1>4, Zenon DEF rt_schedule_remove_thread
<1>7. @ = [s EXCEPT !.table[Prio[t]] = list, !.group = s.group]
  BY <1>5
<1>8. @ \in [stat : {s.stat}, yield : {s.yield}, table : {s.table}, group : {s.group}, current : {s.current}]
  BY <1>1 DEF Scheduler
<1>9. s \in [stat : {s.stat}, yield : {s.yield}, table : {s.table}, group : {s.group}, current : {s.current}]
  BY DEF Scheduler
<1> QED BY <1>6, <1>7, <1>8, <1>9

\* The running thread falls asleep.
LEMMA SuspendOK ==
  ASSUME NEW s, SchedOK(s), s.stat[s.current] = "running", s.current # Idle
  PROVE  LET r == rt_thread_suspend(s, s.current)
         IN /\ SchedOK(r) /\ Suspended(r) = Suspended(s) \union {s.current}
            /\ r.current = s.current /\ r.stat[s.current] = "suspend"
            /\ KeepsPlaces(s, r)
<1> DEFINE r == [s EXCEPT !.stat[s.current] = "suspend"]
<1>1. s \in Scheduler /\ Queued(s) /\ OneRuns(s) /\ s.stat \in [Threads -> Stats] /\ s.current \in Threads
  BY SMT DEF SchedOK, Scheduler
<1>2. rt_thread_suspend(s, s.current) = r
  BY <1>1, RemoveNobody DEF rt_thread_suspend
<1>3. r \in [stat : {[s.stat EXCEPT ![s.current] = "suspend"]}, yield : {s.yield}, table : {s.table},
             group : {s.group}, current : {s.current}]
  BY <1>1 DEF Scheduler
<1>4. r \in Scheduler
  BY <1>1 DEF Scheduler, Stats
<1> HIDE DEF r
<1>5. /\ r.stat = [s.stat EXCEPT ![s.current] = "suspend"]
      /\ r.table = s.table /\ r.group = s.group /\ r.current = s.current
  BY <1>3
<1>6. \A level \in Levels : Waiting(r, level) = Waiting(s, level)
  BY <1>1, <1>5 DEF Waiting
<1>7. Queued(r)
  BY <1>1, <1>5, <1>6 DEF Queued
<1>8. OneRuns(r)
  BY <1>1, <1>5, KernelAssumption DEF OneRuns
<1>9. Suspended(r) = Suspended(s) \union {s.current}
  BY <1>1, <1>5 DEF Suspended
<1>10. KeepsPlaces(s, r)
  BY <1>5 DEF KeepsPlaces
<1> QED BY <1>1, <1>2, <1>4, <1>5, <1>7, <1>8, <1>9, <1>10 DEF SchedOK

\* The head of the highest list gets the processor.
LEMMA SwitchOK ==
  ASSUME NEW s \in Scheduler, Queued(s), NEW level \in Levels, s.table[level] # << >>,
         s.current = Head(s.table[level]), s.stat[Idle] # "suspend",
         \A t \in Threads : s.stat[t] # "running",
         \A t \in Threads : s.stat[t] = "ready" => level <= Prio[t]
  PROVE  LET to == s.current
             r == [rt_schedule_remove_thread(s, to) EXCEPT !.stat[to] = "running"]
         IN /\ SchedOK(r) /\ Serves(r) /\ Suspended(r) = Suspended(s) /\ r.current = to
            /\ Prio[to] = level
            /\ \A l \in Levels : \A k \in 1 .. Len(r.table[l]) :
                 LET m == IF l = level THEN k + 1 ELSE k
                 IN m \in 1 .. Len(s.table[l]) /\ s.table[l][m] = r.table[l][k]
<1> DEFINE to == s.current
           list == s.table[level]
           r == [rt_schedule_remove_thread(s, to) EXCEPT !.stat[to] = "running"]
           u == [s EXCEPT !.table[level] = Tail(list),
                          !.group = GroupAfter(s.group, level, Tail(list))]
           v == [u EXCEPT !.stat[to] = "running"]
<1>1. s.stat \in [Threads -> Stats] /\ s.table \in [Levels -> Seq(Threads)] /\ to \in Threads
      /\ s.group \in SUBSET Levels /\ list \in Seq(Threads)
  BY DEF Scheduler
<1>2. Lists(list, Waiting(s, level))
  BY DEF Queued
<1>3. /\ to \in Waiting(s, level) /\ to = list[1]
      /\ Lists(Tail(list), Waiting(s, level) \ {to})
      /\ Len(Tail(list)) = Len(list) - 1 /\ Len(list) \in Nat
      /\ \A k \in 1 .. Len(list) - 1 : Tail(list)[k] = list[k + 1]
  BY <1>1, <1>2, ListsTail, ListsEmpty
<1>4. Prio[to] = level /\ s.stat[to] = "ready" /\ RemoveFirst(list, to) = Tail(list)
  BY <1>2, <1>3, RemoveHead DEF Waiting
<1>5. rt_schedule_remove_thread(s, to) = u
  BY <1>4, Zenon DEF rt_schedule_remove_thread
<1>6. r = v
  BY <1>5
<1>7. v \in [stat : {[s.stat EXCEPT ![to] = "running"]}, yield : {s.yield},
             table : {[s.table EXCEPT ![level] = Tail(list)]},
             group : {GroupAfter(s.group, level, Tail(list))}, current : {to}]
  BY DEF Scheduler
<1> HIDE DEF v, u
<1>8. /\ v.stat = [s.stat EXCEPT ![to] = "running"] /\ v.table = [s.table EXCEPT ![level] = Tail(list)]
      /\ v.group = GroupAfter(s.group, level, Tail(list)) /\ v.current = to /\ v.yield = s.yield
      /\ v = [stat |-> v.stat, yield |-> v.yield, table |-> v.table, group |-> v.group, current |-> v.current]
  BY <1>7
<1>9. v \in Scheduler
  <2>1. v.stat \in [Threads -> Stats]
    BY <1>1, <1>8 DEF Stats
  <2>2. Tail(list) \in Seq(Threads)
    BY <1>1, SMT
  <2>3. v.table \in [Levels -> Seq(Threads)]
    BY <1>1, <1>8, <2>2
  <2>4. v.group \in SUBSET Levels /\ v.current \in Threads /\ v.yield \in SUBSET Threads
    BY <1>1, <1>8 DEF GroupAfter, Scheduler
  <2> QED BY <1>8, <2>1, <2>3, <2>4, Zenon DEF Scheduler
<1>10. \A l \in Levels : Waiting(v, l) = IF l = level THEN Waiting(s, l) \ {to} ELSE Waiting(s, l)
  BY <1>1, <1>4, <1>8 DEF Waiting
<1>11. Queued(v)
  <2> SUFFICES ASSUME NEW l \in Levels
               PROVE  Lists(v.table[l], Waiting(v, l)) /\ (l \in v.group <=> Waiting(v, l) # {})
    BY DEF Queued
  <2>1. CASE l = level
    <3>1. v.table[l] = Tail(list) /\ Waiting(v, l) = Waiting(s, level) \ {to}
      BY <2>1, <1>1, <1>8, <1>10
    <3>2. Tail(list) = << >> <=> Waiting(v, l) = {}
      BY <1>3, <3>1, ListsEmpty
    <3>3. level \in s.group
      BY <1>3 DEF Queued
    <3> QED BY <2>1, <1>3, <1>8, <3>1, <3>2, <3>3, Zenon DEF GroupAfter
  <2>2. CASE l # level
    <3>1. v.table[l] = s.table[l] /\ Waiting(v, l) = Waiting(s, l) /\ (l \in v.group <=> l \in s.group)
      BY <2>2, <1>1, <1>8, <1>10 DEF GroupAfter
    <3> QED BY <3>1 DEF Queued
  <2> QED BY <2>1, <2>2
<1>12. OneRuns(v)
  BY <1>1, <1>4, <1>8, KernelAssumption DEF OneRuns
<1>13. Serves(v)
  BY <1>1, <1>4, <1>8 DEF Serves
<1>14. Suspended(v) = Suspended(s)
  BY <1>1, <1>4, <1>8 DEF Suspended
<1>15. ASSUME NEW l \in Levels, NEW k \in 1 .. Len(v.table[l])
       PROVE  LET m == IF l = level THEN k + 1 ELSE k
              IN m \in 1 .. Len(s.table[l]) /\ s.table[l][m] = v.table[l][k]
  <2>1. CASE l = level
    <3>1. v.table[l] = Tail(list)
      BY <2>1, <1>1, <1>8
    <3>2. k \in 1 .. Len(list) - 1 /\ k + 1 \in 1 .. Len(list)
      BY <3>1, <1>3, SMT
    <3> QED BY <2>1, <3>1, <3>2, <1>3
  <2>2. CASE l # level
    BY <2>2, <1>1, <1>8
  <2> QED BY <2>1, <2>2
<1>16. SchedOK(v)
  BY <1>9, <1>11, <1>12 DEF SchedOK
<1> HIDE DEF r
<1>17. /\ SchedOK(r) /\ Serves(r) /\ Suspended(r) = Suspended(s) /\ r.current = to
       /\ Prio[to] = level
       /\ \A l \in Levels : \A k \in 1 .. Len(r.table[l]) :
            LET m == IF l = level THEN k + 1 ELSE k
            IN m \in 1 .. Len(s.table[l]) /\ s.table[l][m] = r.table[l][k]
  BY <1>4, <1>6, <1>8, <1>13, <1>14, <1>15, <1>16, Zenon
<1> QED BY <1>17, Zenon DEF r

\* The head of the list of the highest level, and whether the scheduler switches to it.
LEMMA HighestIs ==
  ASSUME NEW s, SchedOK(s), s.group # {}
  PROVE  LET level == Highest(s.group)
             to == Head(s.table[level])
         IN /\ level \in Levels /\ s.table[level] # << >> /\ to \in Threads
            /\ s.stat[to] = "ready" /\ Prio[to] = level /\ to # s.current
            /\ \A t \in Threads : s.stat[t] = "ready" => level <= Prio[t]
<1> DEFINE level == Highest(s.group)
           to == Head(s.table[level])
<1>1. s \in Scheduler /\ Queued(s) /\ OneRuns(s) /\ s.group \in SUBSET Levels
  BY DEF SchedOK, Scheduler
<1>2. s.group \in SUBSET Nat
  BY <1>1, Constants
<1>3. level \in s.group /\ \A m \in s.group : level <= m
  BY <1>2, LeastNumber DEF Highest
<1> HIDE DEF level
<1>4. level \in Levels /\ Lists(s.table[level], Waiting(s, level)) /\ Waiting(s, level) # {}
  BY <1>1, <1>3 DEF Queued
<1>5. s.table[level] # << >> /\ to \in Waiting(s, level)
  BY <1>4, ListsEmpty, ListsTail
<1>6. ASSUME NEW t \in Threads, s.stat[t] = "ready" PROVE level <= Prio[t]
  <2>1. t \in Waiting(s, Prio[t]) /\ Prio[t] \in Levels
    BY <1>6, Constants DEF Waiting
  <2>2. Prio[t] \in s.group
    BY <1>1, <2>1 DEF Queued
  <2> QED BY <1>3, <2>2
<1>7. to \in Threads /\ s.stat[to] = "ready" /\ Prio[to] = level
  BY <1>5 DEF Waiting
<1>8. to # s.current
  BY <1>1, <1>7 DEF OneRuns
<1> QED BY <1>4, <1>5, <1>6, <1>7, <1>8 DEF level

\* The three ways through rt_schedule.
LEMMA NobodyReady ==
  ASSUME NEW s, SchedOK(s), s.group = {}
  PROVE  Serves(s)
<1>1. s \in Scheduler /\ Queued(s) /\ OneRuns(s) /\ s.stat \in [Threads -> Stats]
  BY DEF SchedOK, Scheduler
<1>2. ASSUME NEW t \in Threads PROVE s.stat[t] # "ready"
  <2>1. Prio[t] \in Levels
    BY Constants
  <2>2. t \notin Waiting(s, Prio[t])
    BY <1>1, <2>1 DEF Queued
  <2> QED BY <2>2 DEF Waiting
<1>3. s.stat[Idle] = "running"
  BY <1>1, <1>2, Constants DEF OneRuns, Stats
<1> QED BY <1>1, <1>2, <1>3, Constants DEF OneRuns, Serves

LEMMA GoesOnOK ==
  ASSUME NEW s, SchedOK(s), s.group # {}, GoesOn(s, Highest(s.group))
  PROVE  LET r == rt_schedule(s)
         IN /\ SchedOK(r) /\ Suspended(r) = Suspended(s) /\ Serves(r) /\ MovesUp(s, r)
<1> DEFINE level == Highest(s.group)
           from == s.current
           w == [stat |-> s.stat, yield |-> s.yield \ {from}, table |-> s.table,
                 group |-> s.group, current |-> from]
           s2 == [[s EXCEPT !.yield = @ \ {from}] EXCEPT !.current = from]
<1>1. s \in Scheduler /\ Queued(s) /\ OneRuns(s) /\ from \in Threads
      /\ s.stat \in [Threads -> Stats] /\ s.yield \in SUBSET Threads
      /\ s.table \in [Levels -> Seq(Threads)] /\ s.group \in SUBSET Levels
  BY DEF SchedOK, Scheduler
<1>2. s.stat[from] = "running"
  BY DEF GoesOn
<1>3. w \in Scheduler
  BY <1>1 DEF Scheduler
<1>4. s2 = w
  <2>1. s2 \in [stat : {s.stat}, yield : {s.yield \ {from}}, table : {s.table},
                group : {s.group}, current : {from}]
    BY <1>1 DEF Scheduler
  <2> HIDE DEF s2
  <2> QED BY <2>1
<1>5. /\ w.stat = s.stat /\ w.table = s.table /\ w.group = s.group /\ w.current = from
      /\ [w EXCEPT !.stat[from] = "running"] = w
  <2>1. [s.stat EXCEPT ![from] = "running"] = s.stat
    BY <1>1, <1>2
  <2> QED BY <2>1
<1>6. rt_schedule(s) = [rt_schedule_remove_thread(s2, from) EXCEPT !.stat[from] = "running"]
  BY <1>2 DEF rt_schedule
<1> HIDE DEF w, s2, level
<1>7. \A l \in Levels : Waiting(w, l) = Waiting(s, l)
  BY <1>5 DEF Waiting
<1>8. Queued(w)
  BY <1>1, <1>5, <1>7 DEF Queued
<1>9. rt_schedule_remove_thread(w, from) = w
  BY <1>1, <1>2, <1>3, <1>5, <1>8, RemoveNobody
<1>10. rt_schedule(s) = w
  BY <1>4, <1>5, <1>6, <1>9
<1>11. SchedOK(w) /\ Suspended(w) = Suspended(s)
  BY <1>1, <1>3, <1>5, <1>8 DEF SchedOK, OneRuns, Suspended
<1>12. Serves(w)
  <2>0. level \in Nat /\ Prio[from] \in Nat
    BY <1>1, HighestIs, Constants DEF level
  <2>4. Prio[from] < level \/ Prio[from] = level
    BY Zenon DEF GoesOn, level
  <2>1. level \in Nat /\ Prio[from] \in Nat /\ Prio[from] <= level
    BY <2>0, <2>4, SMT
  <2>2. \A t \in Threads : s.stat[t] = "ready" => level <= Prio[t]
    BY HighestIs DEF level
  <2>3. ASSUME NEW t \in Threads, s.stat[t] = "ready" PROVE Prio[from] <= Prio[t]
    <3>1. Prio[t] \in Nat /\ level <= Prio[t]
      BY <2>2, <2>3, Constants
    <3> QED BY <2>1, <3>1, SMT
  <2> QED BY <1>2, <1>5, <2>3 DEF Serves
<1>13. MovesUp(s, w)
  BY <1>5 DEF MovesUp, Place, Overtakes
<1> QED BY <1>10, <1>11, <1>12, <1>13


LEMMA GivesWayOK ==
  ASSUME NEW s, SchedOK(s), s.group # {}, ~GoesOn(s, Highest(s.group)), s.stat[s.current] = "running"
  PROVE  LET r == rt_schedule(s)
         IN /\ SchedOK(r) /\ Suspended(r) = Suspended(s) /\ Serves(r) /\ MovesUp(s, r)
<1> DEFINE level == Highest(s.group)
           from == s.current
           to == Head(s.table[level])
           s2 == [[s EXCEPT !.yield = @ \ {from}] EXCEPT !.current = to]
           s3 == rt_schedule_insert_thread(s2, from)
           r == [rt_schedule_remove_thread(s3, to) EXCEPT !.stat[to] = "running"]
<1>1. s \in Scheduler /\ Queued(s) /\ OneRuns(s) /\ from \in Threads
      /\ s.stat \in [Threads -> Stats] /\ s.yield \in SUBSET Threads
      /\ s.table \in [Levels -> Seq(Threads)] /\ s.group \in SUBSET Levels
  BY DEF SchedOK, Scheduler
<1>2. /\ level \in Levels /\ s.table[level] # << >> /\ to \in Threads
      /\ s.stat[to] = "ready" /\ Prio[to] = level /\ to # from
      /\ \A t \in Threads : s.stat[t] = "ready" => level <= Prio[t]
  BY HighestIs
<1>3. rt_schedule(s) = r
  BY <1>2, Zenon DEF rt_schedule
<1>4. level <= Prio[from]
  <2>1. level \in Nat /\ Prio[from] \in Nat
    BY <1>1, <1>2, Constants
  <2>2. ~ (Prio[from] < level)
    BY Zenon DEF GoesOn
  <2> QED BY <2>1, <2>2, SMT
<1> HIDE DEF level, to
<1>5. s2 \in [stat : {s.stat}, yield : {s.yield \ {from}}, table : {s.table},
              group : {s.group}, current : {to}]
  BY <1>1 DEF Scheduler
<1> HIDE DEF s2, r
<1>6. /\ s2.stat = s.stat /\ s2.table = s.table /\ s2.group = s.group /\ s2.current = to
      /\ s2.yield = s.yield \ {from}
      /\ s2 = [stat |-> s2.stat, yield |-> s2.yield, table |-> s2.table, group |-> s2.group,
               current |-> s2.current]
  BY <1>5
<1>7. s2 \in Scheduler
  <2>1. s.yield \ {from} \in SUBSET Threads
    BY <1>1
  <2> QED BY <1>1, <1>2, <1>6, <2>1, Zenon DEF Scheduler
<1>8. Queued(s2)
  <2>1. \A l \in Levels : Waiting(s2, l) = Waiting(s, l)
    BY <1>6 DEF Waiting
  <2> QED BY <1>1, <1>6, <2>1 DEF Queued
<1>9. /\ Queued(s3) /\ KeepsPlaces(s2, s3) /\ s3.stat = [s.stat EXCEPT ![from] = "ready"]
      /\ s3.current = to /\ s3 \in Scheduler /\ s3.table[level] # << >> /\ Head(s3.table[level]) = to
  <2>1. s2.stat[from] # "ready" /\ from # s2.current
    BY <1>2, <1>6
  <2>2. /\ Queued(s3) /\ KeepsPlaces(s2, s3)
        /\ s3.stat = [s2.stat EXCEPT ![from] = "ready"]
        /\ s3.current = s2.current /\ s3 \in Scheduler
        /\ \A l \in Levels : s2.table[l] # << >> =>
             s3.table[l] # << >> /\ Head(s3.table[l]) = Head(s2.table[l])
    BY <1>1, <1>7, <1>8, <2>1, InsertQueued
  <2> HIDE DEF s3
  <2> QED BY <2>2, <1>2, <1>6 DEF to
<1> HIDE DEF s3
<1>10. /\ s3.stat[Idle] # "suspend" /\ \A t \in Threads : s3.stat[t] # "running"
       /\ \A t \in Threads : s3.stat[t] = "ready" => level <= Prio[t]
       /\ Suspended(s3) = Suspended(s)
  BY <1>1, <1>2, <1>4, <1>9, Constants DEF OneRuns, Suspended
<1>11. /\ SchedOK(r) /\ Serves(r) /\ Suspended(r) = Suspended(s3) /\ r.current = to
       /\ \A l \in Levels : \A k \in 1 .. Len(r.table[l]) :
            LET m == IF l = level THEN k + 1 ELSE k
            IN m \in 1 .. Len(s3.table[l]) /\ s3.table[l][m] = r.table[l][k]
  <2> DEFINE q == [rt_schedule_remove_thread(s3, s3.current) EXCEPT !.stat[s3.current] = "running"]
  <2>1. s3.current = Head(s3.table[level])
    BY <1>9
  <2>2. /\ SchedOK(q) /\ Serves(q) /\ Suspended(q) = Suspended(s3) /\ q.current = s3.current
        /\ \A l \in Levels : \A k \in 1 .. Len(q.table[l]) :
             LET m == IF l = level THEN k + 1 ELSE k
             IN m \in 1 .. Len(s3.table[l]) /\ s3.table[l][m] = q.table[l][k]
    <3>1. /\ s3 \in Scheduler /\ Queued(s3) /\ level \in Levels /\ s3.table[level] # << >>
          /\ s3.stat[Idle] # "suspend"
      BY <1>2, <1>9, <1>10, Zenon
    <3>2. (\A t \in Threads : s3.stat[t] # "running")
          /\ \A t \in Threads : s3.stat[t] = "ready" => level <= Prio[t]
      BY <1>10, Zenon
    <3> QED BY <2>1, <3>1, <3>2, SwitchOK, Zenon
  <2>3. r = q
    BY <1>9, Zenon DEF r
  <2> HIDE DEF q
  <2> QED BY <1>9, <2>2, <2>3, Zenon
<1>12. MovesUp(s, r)
  <2> SUFFICES ASSUME NEW l \in Levels, NEW k \in 1 .. Len(r.table[l]), s.stat[r.table[l][k]] = "ready"
               PROVE  /\ Place(s, r, l, k) \in 1 .. Len(s.table[l])
                      /\ s.table[l][Place(s, r, l, k)] = r.table[l][k]
    BY Zenon DEF MovesUp
  <2> DEFINE m == IF l = level THEN k + 1 ELSE k
  <2>1. m \in 1 .. Len(s3.table[l]) /\ s3.table[l][m] = r.table[l][k]
    BY <1>11, Zenon
  <2>2. Place(s, r, l, k) = m
    <3>1. Overtakes(s, r, l) <=> l = level
      BY <1>2, <1>11, Zenon DEF Overtakes
    <3> QED BY <3>1, Zenon DEF Place
  <2> HIDE DEF m
  <2>3. m \in 1 .. Len(s2.table[l]) /\ s2.table[l][m] = s3.table[l][m]
    BY <1>6, <1>9, <2>1, Zenon DEF KeepsPlaces
  <2> QED BY <1>6, <2>1, <2>2, <2>3, Zenon
<1> QED BY <1>3, <1>10, <1>11, <1>12

LEMMA TakesOverOK ==
  ASSUME NEW s, SchedOK(s), s.group # {}, s.stat[s.current] # "running"
  PROVE  LET r == rt_schedule(s)
         IN /\ SchedOK(r) /\ Suspended(r) = Suspended(s) /\ Serves(r) /\ MovesUp(s, r)
<1> DEFINE level == Highest(s.group)
           to == Head(s.table[level])
           s2 == [s EXCEPT !.current = to]
           r == [rt_schedule_remove_thread(s2, to) EXCEPT !.stat[to] = "running"]
<1>1. s \in Scheduler /\ Queued(s) /\ OneRuns(s) /\ s.stat \in [Threads -> Stats]
      /\ s.table \in [Levels -> Seq(Threads)] /\ s.group \in SUBSET Levels
  BY DEF SchedOK, Scheduler
<1>2. /\ level \in Levels /\ s.table[level] # << >> /\ to \in Threads
      /\ s.stat[to] = "ready" /\ Prio[to] = level /\ to # s.current
      /\ \A t \in Threads : s.stat[t] = "ready" => level <= Prio[t]
  BY HighestIs
<1>3. rt_schedule(s) = r
  BY Zenon DEF rt_schedule, GoesOn
<1> HIDE DEF level, to
<1>5. s2 \in [stat : {s.stat}, yield : {s.yield}, table : {s.table}, group : {s.group}, current : {to}]
  BY <1>1 DEF Scheduler
<1> HIDE DEF s2, r
<1>6. /\ s2.stat = s.stat /\ s2.table = s.table /\ s2.group = s.group /\ s2.current = to
      /\ s2.yield = s.yield
      /\ s2 = [stat |-> s2.stat, yield |-> s2.yield, table |-> s2.table, group |-> s2.group,
               current |-> s2.current]
  BY <1>5
<1>7. s2 \in Scheduler
  <2>1. s.yield \in SUBSET Threads
    BY <1>1 DEF Scheduler
  <2> QED BY <1>1, <1>2, <1>6, <2>1, Zenon DEF Scheduler
<1>8. Queued(s2)
  <2>1. \A l \in Levels : Waiting(s2, l) = Waiting(s, l)
    BY <1>6 DEF Waiting
  <2> QED BY <1>1, <1>6, <2>1 DEF Queued
<1>10. /\ s2.stat[Idle] # "suspend" /\ \A t \in Threads : s2.stat[t] # "running"
       /\ \A t \in Threads : s2.stat[t] = "ready" => level <= Prio[t]
       /\ Suspended(s2) = Suspended(s)
  BY <1>1, <1>2, <1>6 DEF OneRuns, Suspended
<1>11. /\ SchedOK(r) /\ Serves(r) /\ Suspended(r) = Suspended(s2) /\ r.current = to
       /\ \A l \in Levels : \A k \in 1 .. Len(r.table[l]) :
            LET m == IF l = level THEN k + 1 ELSE k
            IN m \in 1 .. Len(s2.table[l]) /\ s2.table[l][m] = r.table[l][k]
  <2> DEFINE q == [rt_schedule_remove_thread(s2, s2.current) EXCEPT !.stat[s2.current] = "running"]
  <2>1. s2.current = Head(s2.table[level]) /\ s2.table[level] # << >>
    BY <1>2, <1>6 DEF to
  <2>2. /\ SchedOK(q) /\ Serves(q) /\ Suspended(q) = Suspended(s2) /\ q.current = s2.current
        /\ \A l \in Levels : \A k \in 1 .. Len(q.table[l]) :
             LET m == IF l = level THEN k + 1 ELSE k
             IN m \in 1 .. Len(s2.table[l]) /\ s2.table[l][m] = q.table[l][k]
    BY <1>2, <1>7, <1>8, <1>10, <2>1, SwitchOK
  <2>3. r = q
    BY <1>6, Zenon DEF r
  <2> HIDE DEF q
  <2> QED BY <1>6, <2>2, <2>3, Zenon
<1>12. MovesUp(s, r)
  <2> SUFFICES ASSUME NEW l \in Levels, NEW k \in 1 .. Len(r.table[l]), s.stat[r.table[l][k]] = "ready"
               PROVE  /\ Place(s, r, l, k) \in 1 .. Len(s.table[l])
                      /\ s.table[l][Place(s, r, l, k)] = r.table[l][k]
    BY Zenon DEF MovesUp
  <2> DEFINE m == IF l = level THEN k + 1 ELSE k
  <2>1. m \in 1 .. Len(s2.table[l]) /\ s2.table[l][m] = r.table[l][k]
    BY <1>11, Zenon
  <2>2. Place(s, r, l, k) = m
    <3>1. Overtakes(s, r, l) <=> l = level
      BY <1>2, <1>11, Zenon DEF Overtakes
    <3> QED BY <3>1, Zenon DEF Place
  <2> HIDE DEF m
  <2> QED BY <1>6, <2>1, <2>2, Zenon
<1> QED BY <1>3, <1>10, <1>11, <1>12

LEMMA ScheduleOK ==
  ASSUME NEW s, SchedOK(s)
  PROVE  LET r == rt_schedule(s)
         IN /\ SchedOK(r) /\ Suspended(r) = Suspended(s) /\ Serves(r) /\ MovesUp(s, r)
<1>1. CASE s.group = {}
  <2>1. rt_schedule(s) = s
    BY <1>1, Zenon DEF rt_schedule
  <2>2. MovesUp(s, s)
    BY Zenon DEF MovesUp, Place, Overtakes
  <2> QED BY <1>1, <2>1, <2>2, NobodyReady, Zenon
<1>2. CASE s.group # {} /\ GoesOn(s, Highest(s.group))
  BY <1>2, GoesOnOK, Zenon
<1>3. CASE s.group # {} /\ ~GoesOn(s, Highest(s.group)) /\ s.stat[s.current] = "running"
  BY <1>3, GivesWayOK, Zenon
<1>4. CASE s.group # {} /\ s.stat[s.current] # "running"
  BY <1>4, TakesOverOK, Zenon
<1> QED BY <1>1, <1>2, <1>3, <1>4

LEMMA WakeOK ==
  ASSUME NEW s, SchedOK(s), NEW t \in Threads, s.stat[t] = "suspend"
  PROVE  LET r == rt_schedule(rt_schedule_insert_thread(s, t))
         IN /\ SchedOK(r) /\ Suspended(r) = Suspended(s) \ {t} /\ Serves(r) /\ MovesUp(s, r)
<1> DEFINE q == rt_schedule_insert_thread(s, t)
           r == rt_schedule(q)
<1>1. /\ SchedOK(q) /\ Suspended(q) = Suspended(s) \ {t} /\ q.current = s.current
      /\ KeepsPlaces(s, q) /\ \A x \in Threads : s.stat[x] = "ready" => q.stat[x] = "ready"
  <2>1. CASE t = s.current
    BY <2>1, InsertCurrent, Zenon
  <2>2. CASE t # s.current
    BY <2>2, InsertOK, Zenon
  <2> QED BY <2>1, <2>2, Zenon
<1> HIDE DEF q
<1>2. SchedOK(r) /\ Suspended(r) = Suspended(q) /\ Serves(r) /\ MovesUp(q, r)
  BY <1>1, ScheduleOK, Zenon
<1>3. r.table \in [Levels -> Seq(Threads)]
  BY <1>2 DEF SchedOK, Scheduler
<1> HIDE DEF r
<1>4. MovesUp(s, r)
  <2> SUFFICES ASSUME NEW l \in Levels, NEW k \in 1 .. Len(r.table[l]), s.stat[r.table[l][k]] = "ready"
               PROVE  /\ Place(s, r, l, k) \in 1 .. Len(s.table[l])
                      /\ s.table[l][Place(s, r, l, k)] = r.table[l][k]
    BY Zenon DEF MovesUp
  <2>1. r.table[l][k] \in Threads
    <3>1. r.table[l] \in Seq(Threads)
      BY <1>3
    <3> QED BY <3>1, SMT
  <2>2. Place(q, r, l, k) \in 1 .. Len(q.table[l]) /\ q.table[l][Place(q, r, l, k)] = r.table[l][k]
    BY <1>1, <1>2, <2>1, Zenon DEF MovesUp
  <2>3. Place(s, r, l, k) = Place(q, r, l, k)
    BY <1>1, Zenon DEF Place, Overtakes
  <2> QED BY <1>1, <2>2, <2>3, Zenon DEF KeepsPlaces
<1> QED BY <1>1, <1>2, <1>4, Zenon DEF q, r

\* A list of some of a finite set, each once, is not longer than the set.
LEMMA ListsLength ==
  ASSUME NEW list, NEW S, NEW T, IsFiniteSet(T), S \subseteq T, Lists(list, S)
  PROVE  Len(list) <= Cardinality(T)
<1>1. list \in Seq(S) /\ Len(list) \in Nat /\ DOMAIN list = 1 .. Len(list)
  BY ListsEmpty
<1>2. list \in [1 .. Len(list) -> T]
  BY <1>1, SMT
<1>3. \A a, b \in 1 .. Len(list) : list[a] = list[b] => a = b
  BY <1>1, Zenon DEF Lists, IsInjective
<1>4. list \in Injection(1 .. Len(list), T)
  BY <1>2, <1>3 DEF Injection, IsInjective
<1>5. Cardinality(1 .. Len(list)) <= Cardinality(T)
  BY <1>4, FS_Injection
<1>6. Cardinality(1 .. Len(list)) = Len(list)
  BY <1>1, FS_Interval, SMT
<1> QED BY <1>5, <1>6

-----------------------------------------------------------------------------
\* The inductive invariant.  The scheduler: nobody of higher priority waits while the
\* current thread runs, and a thread that has fallen asleep calls rt_schedule next.
SchedInv ==
  /\ SchedOK(Sched) /\ pc \in [Threads -> {"run", "switch"}]
  /\ stat[current] = "running" => Serves(Sched)
  /\ stat[current] = "suspend" => pc[current] = "switch"

\* The place of a thread makes up for the times it was overtaken.
TurnInv ==
  /\ overtaken \in [Threads -> Nat]
  /\ \A t \in Threads : stat[t] # "ready" => overtaken[t] = 0
  /\ \A level \in Levels : \A k \in 1 .. Len(priority_table[level]) :
       overtaken[priority_table[level][k]] + k <= Cardinality(Equals(level))

\* The semaphore: those in its list are suspended.
SemInv ==
  /\ Lists(suspend_thread, ToSet(suspend_thread))
  /\ ToSet(suspend_thread) \subseteq Suspended(Sched)
  /\ value \in 0 .. SemMax

\* The timers: those on the list, the ticks each has left, their order.
Sleeping == Suspended(Sched) \ ToSet(suspend_thread)
Active == Periodic \union Sleeping
Rem(m) == Minus(timeout_tick[m], tick)

TimerInv ==
  /\ tick \in Ticks /\ timeout_tick \in [Timers -> Ticks] /\ irq \in {"none", "slice", "timers"}
  /\ Lists(timer_list, Active)
  /\ \A k, l \in 1 .. Len(timer_list) : k < l => Rem(timer_list[k]) <= Rem(timer_list[l])
  /\ \A m \in Active : Rem(m) < TICK_HALF /\ (irq = "none" => 1 <= Rem(m))

\* A sleep lasts as long as its timer has left; the timers it has missed come before its
\* own in the list.
SleepInv ==
  /\ left \in [Threads -> Nat] /\ missed \in [Threads -> SUBSET Periodic]
  /\ \A t \in Threads : left[t] = IF t \in Sleeping THEN Rem(t) ELSE 0
  /\ \A t \in Threads \ Sleeping : missed[t] = {}
  /\ \A p \in Periodic : Rem(p) <= Periods[p]
  /\ \A k, l \in 1 .. Len(timer_list) :
       timer_list[k] \in Sleeping /\ timer_list[l] \in missed[timer_list[k]] => l < k

SliceInv ==
  /\ remaining_tick \in [Threads -> Nat]
  /\ \A t \in Threads : remaining_tick[t] \in 1 .. Slice[t]

KernelInv == SchedInv /\ TurnInv /\ SemInv /\ TimerInv /\ SleepInv /\ SliceInv

-----------------------------------------------------------------------------
LEMMA KeepsMovesUp ==
  ASSUME NEW s, NEW r, KeepsPlaces(s, r), r.current = s.current
  PROVE  MovesUp(s, r)
BY Zenon DEF KeepsPlaces, MovesUp, Place, Overtakes

\* The variables after the scheduler's step, and the turns they keep.
LEMMA BecomesOK ==
  ASSUME SchedOK(Sched), TurnInv, NEW r, SchedOK(r), MovesUp(Sched, r), Becomes(r)
  PROVE  Sched' = r /\ TurnInv'
<1>1. /\ stat' = r.stat /\ yield' = r.yield /\ priority_table' = r.table
      /\ priority_group' = r.group /\ current' = r.current
      /\ overtaken' = [t \in Threads |->
           IF r.stat[t] # "ready" THEN 0
           ELSE IF r.current # current /\ Prio[r.current] = Prio[t] THEN overtaken[t] + 1
           ELSE overtaken[t]]
  <2>1. PICK s \in {r} :
          /\ stat' = s.stat /\ yield' = s.yield /\ priority_table' = s.table
          /\ priority_group' = s.group /\ current' = s.current
          /\ overtaken' = [t \in Threads |->
               IF s.stat[t] # "ready" THEN 0
               ELSE IF s.current # current /\ Prio[s.current] = Prio[t] THEN overtaken[t] + 1
               ELSE overtaken[t]]
    BY Zenon DEF Becomes
  <2>2. s = r
    OBVIOUS
  <2> QED BY <2>1, <2>2, Zenon
<1>2. r \in Scheduler /\ Queued(r) /\ OneRuns(r) /\ r.table \in [Levels -> Seq(Threads)] /\ r.current \in Threads
  BY DEF SchedOK, Scheduler
<1>3. Sched' = r
  <2>1. Sched' = [stat |-> stat', yield |-> yield', table |-> priority_table',
                  group |-> priority_group', current |-> current']
    BY DEF Sched
  <2>2. r = [stat |-> r.stat, yield |-> r.yield, table |-> r.table, group |-> r.group,
             current |-> r.current]
    BY <1>2 DEF Scheduler
  <2> QED BY <1>1, <2>1, <2>2
<1>4. /\ Sched.stat = stat /\ Sched.table = priority_table /\ Sched.current = current
  BY DEF Sched
<1>5. overtaken \in [Threads -> Nat] /\ \A t \in Threads : stat[t] # "ready" => overtaken[t] = 0
  BY DEF TurnInv
<1>6. overtaken' \in [Threads -> Nat]
  BY <1>1, <1>5
<1>7. \A t \in Threads : stat'[t] # "ready" => overtaken'[t] = 0
  BY <1>1
<1>8. ASSUME NEW level \in Levels, NEW k \in 1 .. Len(r.table[level])
      PROVE  overtaken'[r.table[level][k]] + k <= Cardinality(Equals(level))
  <2> DEFINE list == r.table[level]
             t == list[k]
             C == Cardinality(Equals(level))
  <2> SUFFICES overtaken'[t] + k <= C
    OBVIOUS
  <2>1. Lists(list, Waiting(r, level)) /\ list \in Seq(Waiting(r, level)) /\ Len(list) \in Nat
    BY <1>2, ListsEmpty, Zenon DEF Queued
  <2>2. t \in Waiting(r, level) /\ k \in Nat
    BY <2>1, SMT
  <2>3. t \in Threads /\ r.stat[t] = "ready" /\ Prio[t] = level
    BY <2>2 DEF Waiting
  <2>4. IsFiniteSet(Equals(level)) /\ C \in Nat /\ Waiting(r, level) \subseteq Equals(level)
    BY Constants, FS_Subset, FS_CardinalityType DEF Equals, Waiting
  <2>5. overtaken'[t] = IF Overtakes(Sched, r, level) THEN overtaken[t] + 1 ELSE overtaken[t]
    BY <1>1, <1>4, <2>3 DEF Overtakes
  <2>6. overtaken[t] \in Nat
    BY <1>5, <2>3
  <2>7. CASE stat[t] = "ready"
    <3> DEFINE m == Place(Sched, r, level, k)
    <3>1. m \in 1 .. Len(priority_table[level]) /\ priority_table[level][m] = t
      BY <1>4, <2>7, Zenon DEF MovesUp
    <3>2. overtaken[t] + m <= C
      BY <3>1, Zenon DEF TurnInv
    <3>3. m = IF Overtakes(Sched, r, level) THEN k + 1 ELSE k
      BY Zenon DEF Place
    <3> HIDE DEF m, C, t
    <3> QED BY <2>2, <2>4, <2>5, <2>6, <3>2, <3>3, SMT
  <2>8. CASE stat[t] # "ready"
    <3>1. overtaken[t] = 0
      BY <1>5, <2>3, <2>8
    <3>2. CASE Overtakes(Sched, r, level)
      <4>1. r.current \in Equals(level) /\ r.current \notin Waiting(r, level)
        BY <1>2, <3>2 DEF Overtakes, Equals, Waiting, OneRuns
      <4>2. /\ IsFiniteSet(Equals(level) \ {r.current})
            /\ Cardinality(Equals(level) \ {r.current}) = C - 1
        BY <2>4, <4>1, FS_RemoveElement
      <4>3. Waiting(r, level) \subseteq Equals(level) \ {r.current}
        BY <2>4, <4>1
      <4>4. Len(list) <= C - 1
        BY <2>1, <4>2, <4>3, ListsLength
      <4>5. k <= Len(list)
        BY <2>1, SMT
      <4> HIDE DEF C, t, list
      <4> QED BY <2>1, <2>2, <2>4, <2>5, <3>1, <3>2, <4>4, <4>5, SMT
    <3>3. CASE ~Overtakes(Sched, r, level)
      <4>1. Len(list) <= C
        BY <2>1, <2>4, ListsLength
      <4>2. k <= Len(list)
        BY <2>1, SMT
      <4> HIDE DEF C, t, list
      <4> QED BY <2>1, <2>2, <2>4, <2>5, <3>1, <3>3, <4>1, <4>2, SMT
    <3> QED BY <3>2, <3>3
  <2> QED BY <2>7, <2>8
<1>9. TurnInv'
  BY <1>1, <1>6, <1>7, <1>8, Zenon DEF TurnInv
<1> QED BY <1>3, <1>9

-----------------------------------------------------------------------------
\* Differences of ticks, modulo their width.
LEMMA ModLow ==
  ASSUME NEW n \in Nat \ {0}, NEW x \in Nat, x < n
  PROVE x % n = x
BY SMT

LEMMA ModHigh ==
  ASSUME NEW n \in Nat \ {0}, NEW x \in Nat, n <= x, x < 2 * n
  PROVE x % n = x - n
BY SMT

LEMMA InsertAtIs ==
  ASSUME NEW S, NEW list \in Seq(S), NEW i \in 1 .. Len(list) + 1, NEW e \in S
  PROVE /\ InsertAt(list, i, e) \in Seq(S)
        /\ Len(InsertAt(list, i, e)) = Len(list) + 1
        /\ \A k \in 1 .. Len(list) + 1 :
             InsertAt(list, i, e)[k] = IF k < i THEN list[k] ELSE IF k = i THEN e ELSE list[k - 1]
<1> DEFINE a == SubSeq(list, 1, i - 1)
           c == SubSeq(list, i, Len(list))
<1>0. Len(list) \in Nat /\ i \in Nat /\ 1 <= i /\ i <= Len(list) + 1
  BY SMT
<1>1. a \in Seq(S) /\ Len(a) = i - 1 /\ \A k \in 1 .. i - 1 : a[k] = list[k]
  BY <1>0, SMT
<1>2. c \in Seq(S) /\ Len(c) = Len(list) + 1 - i /\ \A k \in 1 .. Len(list) + 1 - i : c[k] = list[i + k - 1]
  BY <1>0, SMT
<1>3. InsertAt(list, i, e) = a \o << e >> \o c
  BY DEF InsertAt
<1> HIDE DEF a, c
<1> DEFINE b == a \o << e >>
<1>6. b \in Seq(S) /\ Len(b) = i /\ \A k \in 1 .. i : b[k] = IF k < i THEN list[k] ELSE e
  <2>1. b = Append(a, e)
    BY <1>1, SMT
  <2> HIDE DEF b
  <2> QED BY <2>1, <1>0, <1>1, SMT
<1> HIDE DEF b
<1>7. b \in Seq(S) /\ c \in Seq(S) /\ Len(b) = i /\ Len(c) = Len(list) + 1 - i
  BY <1>2, <1>6
<1>4. (b \o c) \in Seq(S) /\ Len(b \o c) = Len(list) + 1
  BY <1>0, <1>7, SMT
<1>5. \A k \in 1 .. Len(list) + 1 :
             (b \o c)[k] = IF k < i THEN list[k] ELSE IF k = i THEN e ELSE list[k - 1]
  <2> TAKE k \in 1 .. Len(list) + 1
  <2>1. CASE k <= i
    <3>1. (b \o c)[k] = b[k]
      BY <2>1, <1>0, <1>6, <1>2, SMT
    <3>2. k \in 1 .. i
      BY <2>1, <1>0, SMT
    <3> QED BY <2>1, <3>1, <3>2, <1>6, <1>0, SMT
  <2>3. CASE k > i
    <3>1. (b \o c)[k] = c[k - i]
       BY <2>3, <1>0, <1>6, <1>2, SMT
    <3> DEFINE d == k - i
    <3>2. d \in 1 .. Len(list) + 1 - i /\ i + d - 1 = k - 1
      BY <2>3, <1>0, SMT
    <3>3. c[d] = list[i + d - 1]
      <4> HIDE DEF d
      <4> QED BY <3>2, <1>2
    <3>4. c[k - i] = list[k - 1]
      BY <3>2, <3>3
    <3>5. ~ (k < i) /\ k # i
      BY <2>3, <1>0, SMT
    <3> QED BY <3>1, <3>4, <3>5
  <2>4. k <= i \/ k > i
    BY <1>0, SMT
  <2> QED BY <2>1, <2>3, <2>4, Zenon
<1> QED BY <1>3, <1>4, <1>5 DEF b

LEMMA HalfIs ==
  /\ TICK_HALF \in Nat /\ 2 * TICK_HALF < TickMod /\ TickMod \in Nat \ {0}
  /\ \A a \in Ticks : a \in Nat /\ a < TickMod
<1>1. TickMod \in Nat \ {0}
  BY KernelAssumption
<1> QED BY <1>1, SMT DEF TICK_HALF, Ticks

LEMMA MinusIs ==
  ASSUME NEW a \in Ticks, NEW b \in Ticks
  PROVE  Minus(a, b) = (IF b <= a THEN a - b ELSE a + TickMod - b) /\ Minus(a, b) \in Ticks
<1>1. a \in Nat /\ b \in Nat /\ a < TickMod /\ b < TickMod /\ TickMod \in Nat \ {0}
  BY HalfIs
<1> DEFINE x == a + TickMod - b
<1>2. x \in Nat
  BY <1>1, SMT
<1>3. CASE b <= a
  <2>1. TickMod <= x /\ x < 2 * TickMod /\ x - TickMod = a - b /\ a - b \in 0 .. TickMod - 1
    BY <1>1, <1>3, SMT
  <2> HIDE DEF x
  <2>2. x % TickMod = x - TickMod
    BY <1>1, <1>2, <2>1, ModHigh
  <2>3. x % TickMod = a - b
    BY <2>1, <2>2
  <2> QED BY <1>3, <2>1, <2>3 DEF Minus, Ticks, x
<1>4. CASE ~(b <= a)
  <2>1. x < TickMod /\ x \in 0 .. TickMod - 1
    BY <1>1, <1>4, SMT
  <2> HIDE DEF x
  <2>2. x % TickMod = x
    BY <1>1, <1>2, <2>1, ModLow
  <2> QED BY <1>4, <2>1, <2>2 DEF Minus, Ticks, x
<1> QED BY <1>3, <1>4

\* A tick d ahead is d ahead.
LEMMA PlusIs ==
  ASSUME NEW a \in Ticks, NEW d \in Nat, d < TickMod
  PROVE  (a + d) % TickMod \in Ticks /\ Minus((a + d) % TickMod, a) = d
<1>1. a \in Nat /\ a < TickMod /\ TickMod \in Nat \ {0}
  BY HalfIs
<1> DEFINE x == a + d
           y == x % TickMod
<1>2. CASE a + d < TickMod
  <2>1. y = a + d
    BY <1>1, <1>2, ModLow
  <2> HIDE DEF y
  <2>2. y \in Ticks
    BY <1>1, <1>2, <2>1, SMT DEF Ticks
  <2>3. Minus(y, a) = IF a <= y THEN y - a ELSE y + TickMod - a
    BY <2>2, MinusIs
  <2>4. Minus(y, a) = d
    BY <1>1, <2>1, <2>3, SMT
  <2> QED BY <2>2, <2>4 DEF y
<1>3. CASE ~(a + d < TickMod)
  <2>0. x \in Nat /\ TickMod <= x /\ x < 2 * TickMod
    BY <1>1, <1>3, SMT
  <2>1. y = x - TickMod
    BY <1>1, <2>0, ModHigh
  <2> HIDE DEF y
  <2>2. y \in Ticks
    BY <1>1, <1>3, <2>1, SMT DEF Ticks
  <2>3. Minus(y, a) = IF a <= y THEN y - a ELSE y + TickMod - a
    BY <2>2, MinusIs
  <2>4. Minus(y, a) = d
    BY <1>1, <1>3, <2>1, <2>3, SMT
  <2> QED BY <2>2, <2>4 DEF y
<1> QED BY <1>2, <1>3

\* A tick later there is one less left.
LEMMA OneLess ==
  ASSUME NEW a \in Ticks, NEW b \in Ticks, 1 <= Minus(a, b)
  PROVE  (b + 1) % TickMod \in Ticks /\ Minus(a, (b + 1) % TickMod) = Minus(a, b) - 1
<1>1. /\ a \in Nat /\ b \in Nat /\ a < TickMod /\ b < TickMod /\ TickMod \in Nat \ {0}
      /\ Minus(a, b) = IF b <= a THEN a - b ELSE a + TickMod - b
  BY HalfIs, MinusIs
<1> DEFINE y == (b + 1) % TickMod
<1>2. y = IF b + 1 < TickMod THEN b + 1 ELSE (b + 1) - TickMod
  <2>1. CASE b + 1 < TickMod
    BY <1>1, <2>1, ModLow
  <2>2. CASE ~(b + 1 < TickMod)
    <3>1. b + 1 \in Nat /\ TickMod <= b + 1 /\ b + 1 < 2 * TickMod
      BY <1>1, <2>2, SMT
    <3> QED BY <1>1, <2>2, <3>1, ModHigh, Zenon
  <2> QED BY <2>1, <2>2
<1> HIDE DEF y
<1>3. y \in Ticks
  BY <1>1, <1>2, SMT DEF Ticks
<1>4. Minus(a, y) = IF y <= a THEN a - y ELSE a + TickMod - y
  BY <1>3, MinusIs
<1>5. Minus(a, y) = Minus(a, b) - 1
  BY <1>1, <1>2, <1>4, SMT
<1> QED BY <1>3, <1>5 DEF y

\* Of two timers within half the range, the comparison of their ticks tells which has more
\* left; and a timer within it is reached when it has nothing left.
LEMMA AfterIs ==
  ASSUME NEW a \in Ticks, NEW b \in Ticks, NEW now \in Ticks,
         Minus(a, now) < TICK_HALF, Minus(b, now) < TICK_HALF
  PROVE  After(a, b) <=> Minus(b, now) < Minus(a, now)
<1>1. /\ a \in Nat /\ b \in Nat /\ now \in Nat /\ a < TickMod /\ b < TickMod /\ now < TickMod
      /\ TickMod \in Nat \ {0} /\ TICK_HALF \in Nat /\ 2 * TICK_HALF < TickMod
  BY HalfIs
<1>2. /\ Minus(a, b) = IF b <= a THEN a - b ELSE a + TickMod - b
      /\ Minus(a, now) = IF now <= a THEN a - now ELSE a + TickMod - now
      /\ Minus(b, now) = IF now <= b THEN b - now ELSE b + TickMod - now
  BY MinusIs
<1>3. After(a, b) <=> a # b /\ Minus(a, b) < TICK_HALF
  BY DEF After
<1> HIDE DEF TICK_HALF
<1> QED BY <1>1, <1>2, <1>3, SMT

LEMMA ReachedIs ==
  ASSUME NEW a \in Ticks, NEW now \in Ticks, Minus(a, now) < TICK_HALF
  PROVE  Minus(now, a) < TICK_HALF <=> Minus(a, now) = 0
<1>1. /\ a \in Nat /\ now \in Nat /\ a < TickMod /\ now < TickMod
      /\ TickMod \in Nat \ {0} /\ TICK_HALF \in Nat /\ 2 * TICK_HALF < TickMod
  BY HalfIs
<1>2. /\ Minus(a, now) = IF now <= a THEN a - now ELSE a + TickMod - now
      /\ Minus(now, a) = IF a <= now THEN now - a ELSE now + TickMod - a
  BY MinusIs
<1> QED BY <1>1, <1>2, SMT

-----------------------------------------------------------------------------
\* What rt_timer_start does to a list sorted by the ticks left: the new timer goes behind
\* those with as much left, and the others keep their order.
Sorted(list, timeout, now) ==
  \A k, l \in 1 .. Len(list) : k < l => Minus(timeout[list[k]], now) <= Minus(timeout[list[l]], now)

KeepsOrder(list, new, m) ==
  \A k, l \in 1 .. Len(new) : new[k] # m /\ new[l] # m =>
    \E i, j \in 1 .. Len(list) : list[i] = new[k] /\ list[j] = new[l] /\ (i < j <=> k < l)

LEMMA StartIs ==
  ASSUME NEW list, NEW S, Lists(list, S), NEW m, m \notin S, NEW timeout, NEW now \in Ticks,
         \A x \in S \union {m} : timeout[x] \in Ticks /\ Minus(timeout[x], now) < TICK_HALF,
         Sorted(list, timeout, now)
  PROVE  LET new == rt_timer_start(list, timeout, m)
         IN /\ Lists(new, S \union {m}) /\ Sorted(new, timeout, now) /\ KeepsOrder(list, new, m)
            /\ \A k, l \in 1 .. Len(new) : new[k] = m /\ new[l] # m =>
                 (l < k <=> Minus(timeout[new[l]], now) <= Minus(timeout[m], now))
<1> DEFINE T == S \union {m}
           N == Len(list)
           R(x) == Minus(timeout[x], now)
           later == {k \in DOMAIN list : After(timeout[list[k]], timeout[m])}
           i == Min(later \union {Len(list) + 1})
           new == rt_timer_start(list, timeout, m)
<1>1. /\ list \in Seq(S) /\ N \in Nat /\ DOMAIN list = 1 .. N
      /\ \A k \in 1 .. N : list[k] \in S
  <2>1. list \in Seq(S) /\ N \in Nat /\ DOMAIN list = 1 .. N
    BY ListsEmpty
  <2> QED BY <2>1, SMT
<1>2. \A a, b \in 1 .. N : list[a] = list[b] => a = b
  BY <1>1, Zenon DEF Lists, IsInjective
<1>3. \A x \in S : \E k \in 1 .. N : list[k] = x
  BY Zenon DEF Lists
<1>4. \A x \in T : R(x) \in Nat
  <2> TAKE x \in T
  <2>1. R(x) \in Ticks
    BY MinusIs
  <2> HIDE DEF R
  <2> QED BY <2>1, HalfIs
<1>5. \A k \in 1 .. N : k \in later <=> R(m) < R(list[k])
  <2> TAKE k \in 1 .. N
  <2>1. list[k] \in T /\ m \in T
    BY <1>1
  <2>2. After(timeout[list[k]], timeout[m]) <=> R(m) < R(list[k])
    BY <2>1, AfterIs
  <2> QED BY <1>1, <2>2
<1>6. i \in later \union {N + 1} /\ \A k \in later \union {N + 1} : i <= k
  <2>1. later \union {N + 1} \in SUBSET Nat /\ later \union {N + 1} # {}
    BY <1>1, SMT
  <2> HIDE DEF later
  <2> QED BY <2>1, LeastNumber
<1>7. i \in 1 .. N + 1
  <2>1. later \subseteq 1 .. N
    BY <1>1
  <2> HIDE DEF later, i
  <2> QED BY <1>1, <1>6, <2>1, SMT
<1>8. new = InsertAt(list, i, m)
  BY Zenon DEF rt_timer_start
<1> HIDE DEF i, later, new
<1>9. list \in Seq(T) /\ m \in T
  BY <1>1, SMT
<1>10. /\ new \in Seq(T) /\ Len(new) = N + 1
       /\ \A k \in 1 .. N + 1 :
            new[k] = IF k < i THEN list[k] ELSE IF k = i THEN m ELSE list[k - 1]
  <2> HIDE DEF T
  <2>1. /\ InsertAt(list, i, m) \in Seq(T) /\ Len(InsertAt(list, i, m)) = N + 1
        /\ \A k \in 1 .. N + 1 :
             InsertAt(list, i, m)[k] = IF k < i THEN list[k] ELSE IF k = i THEN m ELSE list[k - 1]
    BY <1>7, <1>9, InsertAtIs
  <2> QED BY <1>8, <2>1, Zenon
\* where each element was
<1> DEFINE Old(k) == IF k < i THEN k ELSE k - 1
<1>11. \A k \in 1 .. N + 1 : k # i => Old(k) \in 1 .. N /\ new[k] = list[Old(k)] /\ new[k] \in S
  <2> TAKE k \in 1 .. N + 1
  <2>1. CASE k < i
    <3>1. k \in 1 .. N
      BY <1>1, <1>7, <2>1, SMT
    <3> QED BY <1>1, <1>10, <2>1, <3>1
  <2>2. CASE k > i
    <3>1. k - 1 \in 1 .. N /\ ~(k < i) /\ k # i
      BY <1>1, <1>7, <2>2, SMT
    <3> QED BY <1>1, <1>10, <3>1
  <2>3. k < i \/ k = i \/ k > i
    BY <1>1, <1>7, SMT
  <2> QED BY <2>1, <2>2, <2>3
<1>12. new[i] = m
  <2>1. i \in 1 .. N + 1 /\ ~(i < i)
    BY <1>1, <1>7, SMT
  <2> QED BY <1>10, <2>1
<1>13. \A k \in 1 .. N + 1 : new[k] = m <=> k = i
  BY <1>11, <1>12
<1>14. \A k, l \in 1 .. N + 1 : k # i /\ l # i => (Old(k) < Old(l) <=> k < l) /\ (Old(k) = Old(l) => k = l)
  <2> TAKE k, l \in 1 .. N + 1
  <2> QED BY <1>1, <1>7, SMT
<1>15. \A k \in 1 .. N + 1 : k # i => (k < i <=> R(new[k]) <= R(m))
  <2> SUFFICES ASSUME NEW k \in 1 .. N + 1, k # i PROVE k < i <=> R(new[k]) <= R(m)
    OBVIOUS
  <2>1. new[k] \in S /\ Old(k) \in 1 .. N /\ new[k] = list[Old(k)] /\ R(new[k]) \in Nat /\ R(m) \in Nat
    BY <1>4, <1>11
  <2>2. CASE k < i
    <3>1. Old(k) = k
      BY <2>2
    <3>2. k \notin later
      <4>1. k \in later => i <= k
        BY <1>6
      <4> QED BY <1>1, <1>7, <2>2, <4>1, SMT
    <3>3. ~(R(m) < R(list[k]))
      BY <1>5, <2>1, <3>1, <3>2
    <3>4. ~(R(m) < R(new[k]))
      BY <2>1, <3>1, <3>3
    <3> HIDE DEF R
    <3> QED BY <2>1, <2>2, <3>4, SMT
  <2>3. CASE k > i
    <3> DEFINE o == Old(k)
    <3>1. i \in 1 .. N /\ i <= o /\ o \in 1 .. N
      BY <1>1, <1>7, <2>1, <2>3, SMT
    <3> HIDE DEF o
    <3>2. i \in later
      BY <1>1, <1>6, <3>1, SMT
    <3>3. R(m) < R(list[i]) /\ R(list[i]) \in Nat /\ R(list[o]) \in Nat
      BY <1>1, <1>4, <1>5, <3>1, <3>2
    <3>4. R(list[i]) <= R(list[o])
      <4>1. CASE i = o
        BY <3>3, <4>1, SMT
      <4>2. CASE i < o
        BY <3>1, <4>2, Zenon DEF Sorted
      <4> QED BY <3>1, <4>1, <4>2, SMT
    <3>5. R(list[o]) = R(new[k])
      BY <2>1 DEF o
    <3> HIDE DEF R
    <3>6. ~(R(new[k]) <= R(m))
      BY <2>1, <3>3, <3>4, <3>5, SMT
    <3>7. ~(k < i)
      BY <1>1, <1>7, <2>3, SMT
    <3> QED BY <3>6, <3>7
  <2>4. k < i \/ k > i
    BY <1>1, <1>7, SMT
  <2> QED BY <2>2, <2>3, <2>4
<1> HIDE DEF Old
<1>16. Lists(new, T)
  <2>1. \A a, b \in 1 .. N + 1 : new[a] = new[b] => a = b
    BY <1>2, <1>11, <1>13, <1>14
  <2>2. DOMAIN new = 1 .. N + 1
    BY <1>1, <1>10, SMT
  <2>3. \A x \in T : \E k \in 1 .. N + 1 : new[k] = x
    <3> SUFFICES ASSUME NEW x \in T PROVE \E k \in 1 .. N + 1 : new[k] = x
      OBVIOUS
    <3>1. CASE x = m
      BY <1>7, <1>12, <3>1
    <3>2. CASE x \in S
      <4>1. PICK k \in 1 .. N : list[k] = x
        BY <1>3, <3>2
      <4> DEFINE q == IF k < i THEN k ELSE k + 1
      <4>2. q \in 1 .. N + 1 /\ q # i /\ Old(q) = k
        BY <1>1, <1>7, SMT DEF Old
      <4>3. new[q] = x
        BY <1>11, <4>1, <4>2
      <4> QED BY <4>2, <4>3
    <3> QED BY <3>1, <3>2
  <2>4. IsInjective(new)
    BY <2>1, <2>2, Zenon DEF IsInjective
  <2> QED BY <1>10, <2>3, <2>4, Zenon DEF Lists
<1>17. KeepsOrder(list, new, m)
  <2> SUFFICES ASSUME NEW k \in 1 .. N + 1, NEW l \in 1 .. N + 1, new[k] # m, new[l] # m
               PROVE  \E a, b \in 1 .. N : list[a] = new[k] /\ list[b] = new[l] /\ (a < b <=> k < l)
    BY <1>10, Zenon DEF KeepsOrder
  <2>1. k # i /\ l # i
    BY <1>13
  <2>2. /\ Old(k) \in 1 .. N /\ Old(l) \in 1 .. N /\ list[Old(k)] = new[k] /\ list[Old(l)] = new[l]
        /\ (Old(k) < Old(l) <=> k < l)
    BY <1>11, <1>14, <2>1, Zenon
  <2> QED BY <2>2, Zenon
<1>18. \A k, l \in 1 .. N + 1 : new[k] = m /\ new[l] # m => (l < k <=> R(new[l]) <= R(m))
  BY <1>13, <1>15, Zenon
<1>19. Sorted(new, timeout, now)
  <2> SUFFICES ASSUME NEW k \in 1 .. N + 1, NEW l \in 1 .. N + 1, k < l
               PROVE  R(new[k]) <= R(new[l])
    BY <1>10, Zenon DEF Sorted
  <2>1. R(new[k]) \in Nat /\ R(new[l]) \in Nat /\ R(m) \in Nat
    BY <1>4, <1>11, <1>13
  <2>2. CASE k # i /\ l # i
    <3>1. /\ Old(k) \in 1 .. N /\ Old(l) \in 1 .. N /\ list[Old(k)] = new[k] /\ list[Old(l)] = new[l]
          /\ Old(k) < Old(l)
      BY <1>11, <1>14, <2>2, Zenon
    <3> QED BY <3>1 DEF Sorted
  <2>3. CASE k = i
    <3>1. l # i /\ ~(l < i)
      BY <1>1, <1>7, <2>3, SMT
    <3>2. ~(R(new[l]) <= R(m)) /\ new[k] = m
      BY <1>12, <1>15, <2>3, <3>1
    <3> HIDE DEF R
    <3> QED BY <2>1, <3>2, SMT
  <2>4. CASE l = i
    <3>1. k # i /\ k < i
      BY <1>1, <1>7, <2>4, SMT
    <3>2. R(new[k]) <= R(m) /\ new[l] = m
      BY <1>12, <1>15, <2>4, <3>1
    <3> QED BY <3>2
  <2> QED BY <2>2, <2>3, <2>4
<1> QED BY <1>10, <1>16, <1>17, <1>18, <1>19, Zenon DEF new

-----------------------------------------------------------------------------
\* The initial state.
LEMMA InjectionLists ==
  ASSUME NEW S, IsFiniteSet(S), NEW f \in [1 .. Cardinality(S) -> S],
         \A a, b \in 1 .. Cardinality(S) : f[a] = f[b] => a = b
  PROVE  Lists(f, S)
<1> DEFINE n == Cardinality(S)
<1>1. n \in Nat
  BY FS_CardinalityType
<1>2. f \in Seq(S) /\ Len(f) = n
  BY <1>1, SMT
<1>3. f \in Injection(1 .. n, S)
  BY DEF Injection, IsInjective
<1>4. Cardinality(1 .. n) = n
  BY <1>1, FS_Interval, SMT
<1>5. f \in Surjection(1 .. n, S)
  BY <1>3, <1>4, FS_Injection
<1>6. \A e \in S : \E k \in 1 .. n : f[k] = e
  BY <1>5 DEF Surjection
<1>7. IsInjective(f)
  BY DEF IsInjective
<1> QED BY <1>2, <1>6, <1>7 DEF Lists

LEMMA SetToSeqLists ==
  ASSUME NEW S, IsFiniteSet(S)
  PROVE  Lists(SetToSeq(S), S)
<1> DEFINE F == [1 .. Cardinality(S) -> S]
<1>1. PICK f \in F : IsInjective(f)
  <2>1. PICK f : f \in Bijection(1 .. Cardinality(S), S)
    BY FS_CardinalityType DEF ExistsBijection
  <2>2. f \in F /\ IsInjective(f)
    BY <2>1 DEF Bijection, Injection, Surjection, IsInjective
  <2> QED BY <2>2
<1>2. SetToSeq(S) = CHOOSE g \in F : IsInjective(g)
  BY DEF SetToSeq
<1> DEFINE h == SetToSeq(S)
<1> HIDE DEF h
<1>3. h \in F /\ IsInjective(h)
  BY <1>1, <1>2, Zenon DEF h
<1>4. \A a, b \in 1 .. Cardinality(S) : h[a] = h[b] => a = b
  BY <1>3 DEF IsInjective
<1> QED BY <1>3, <1>4, InjectionLists DEF h

LEMMA FirstRuns ==
  ASSUME Init
  PROVE  current \in Threads /\ \A u \in Threads : Prio[current] <= Prio[u]
<1> DEFINE S == {Prio[t] : t \in Threads}
           Top(t) == \A u \in Threads : Prio[t] <= Prio[u]
<1>1. S \in SUBSET Nat /\ S # {}
  BY Constants
<1>2. Min(S) \in S /\ \A n \in S : Min(S) <= n
  BY <1>1, LeastNumber
<1>3. PICK t \in Threads : Prio[t] = Min(S)
  BY <1>2
<1>4. Top(t)
  BY <1>2, <1>3
<1>5. current = CHOOSE x \in Threads : Top(x)
  BY Zenon DEF Init
<1> HIDE DEF Top
<1>6. current \in Threads /\ Top(current)
  BY <1>4, <1>5, Zenon
<1> QED BY <1>6 DEF Top

LEMMA InitSched == Init => SchedInv /\ TurnInv /\ Suspended(Sched) = {}
<1> SUFFICES ASSUME Init PROVE SchedInv /\ TurnInv /\ Suspended(Sched) = {}
  OBVIOUS
<1> DEFINE others(level) == {t \in Threads \ {current} : Prio[t] = level}
<1>1. current \in Threads /\ \A u \in Threads : Prio[current] <= Prio[u]
  BY FirstRuns
<1>2. /\ stat = [t \in Threads |-> IF t = current THEN "running" ELSE "ready"] /\ yield = {}
      /\ priority_table = [level \in Levels |-> SetToSeq(others(level))]
      /\ priority_group = {level \in Levels : others(level) # {}}
      /\ pc = [t \in Threads |-> "run"] /\ overtaken = [t \in Threads |-> 0]
  BY Zenon DEF Init
<1>3. /\ Sched.stat = stat /\ Sched.table = priority_table /\ Sched.group = priority_group
      /\ Sched.current = current
  BY DEF Sched
<1>4. ASSUME NEW level \in Levels
      PROVE  /\ Waiting(Sched, level) = others(level) /\ IsFiniteSet(others(level))
             /\ Lists(priority_table[level], others(level))
  <2>1. Waiting(Sched, level) = others(level)
    BY <1>2, <1>3 DEF Waiting
  <2>2. IsFiniteSet(others(level))
    BY Constants, FS_Subset
  <2>3. Lists(SetToSeq(others(level)), others(level))
    BY <2>2, SetToSeqLists, Zenon
  <2> HIDE DEF others
  <2> QED BY <1>2, <2>1, <2>2, <2>3
<1>5. Sched \in Scheduler
  <2>1. stat \in [Threads -> Stats]
    BY <1>2 DEF Stats
  <2>2. ASSUME NEW level \in Levels PROVE priority_table[level] \in Seq(Threads)
    <3>1. priority_table[level] \in Seq(others(level))
      BY <1>4, ListsEmpty, Zenon
    <3> QED BY <3>1, SMT
  <2>3. priority_table \in [Levels -> Seq(Threads)]
    <3>1. priority_table = [level \in Levels |-> priority_table[level]]
      BY <1>2, Zenon
    <3> QED BY <2>2, <3>1, Zenon
  <2>4. yield \in SUBSET Threads /\ priority_group \in SUBSET Levels
    BY <1>2
  <2> QED BY <1>1, <2>1, <2>3, <2>4, Zenon DEF Sched, Scheduler
<1>6. Queued(Sched)
  <2> SUFFICES ASSUME NEW level \in Levels
               PROVE  /\ Lists(Sched.table[level], Waiting(Sched, level))
                      /\ level \in Sched.group <=> Waiting(Sched, level) # {}
    BY DEF Queued
  <2>1. level \in priority_group <=> others(level) # {}
    BY <1>2
  <2> HIDE DEF others
  <2> QED BY <1>3, <1>4, <2>1
<1>7. OneRuns(Sched)
  BY <1>1, <1>2, <1>3, Constants DEF OneRuns
<1>8. Serves(Sched)
  BY <1>1, <1>2, <1>3 DEF Serves
<1>9. Suspended(Sched) = {}
  BY <1>2, <1>3 DEF Suspended
<1>10. SchedInv
  BY <1>1, <1>2, <1>5, <1>6, <1>7, <1>8 DEF SchedInv, SchedOK
<1>11. TurnInv
  <2>1. \A t \in Threads : overtaken[t] = 0
    BY <1>2
  <2>2. ASSUME NEW level \in Levels, NEW k \in 1 .. Len(priority_table[level])
        PROVE  overtaken[priority_table[level][k]] + k <= Cardinality(Equals(level))
    <3> DEFINE list == priority_table[level]
    <3>1. Lists(list, others(level)) /\ list \in Seq(others(level)) /\ Len(list) \in Nat
      BY <1>4, ListsEmpty, Zenon
    <3>2. IsFiniteSet(Equals(level)) /\ others(level) \subseteq Equals(level)
      BY Constants, FS_Subset DEF Equals
    <3>3. Len(list) <= Cardinality(Equals(level)) /\ Cardinality(Equals(level)) \in Nat
      BY <3>1, <3>2, ListsLength, FS_CardinalityType
    <3>4. list[k] \in Threads
      BY <3>1, SMT
    <3>5. overtaken[list[k]] = 0
      BY <2>1, <3>4
    <3> HIDE DEF list
    <3> QED BY <3>1, <3>3, <3>5, SMT DEF list
  <2>3. overtaken \in [Threads -> Nat]
    BY <1>2
  <2> QED BY <2>1, <2>2, <2>3, Zenon DEF TurnInv
<1> QED BY <1>9, <1>10, <1>11

LEMMA InitTimers == Init => SemInv /\ TimerInv /\ SleepInv /\ SliceInv
<1> SUFFICES ASSUME Init PROVE SemInv /\ TimerInv /\ SleepInv /\ SliceInv
  OBVIOUS
<1>1. /\ tick = 0 /\ irq = "none" /\ value = 0 /\ suspend_thread = << >> /\ remaining_tick = Slice
      /\ timeout_tick = [m \in Timers |-> IF m \in Periodic THEN Periods[m] ELSE 0]
      /\ timer_list \in SetToSeqs(Periodic)
      /\ \A k, l \in DOMAIN timer_list : k < l => Periods[timer_list[k]] <= Periods[timer_list[l]]
      /\ left = [t \in Threads |-> 0] /\ missed = [t \in Threads |-> {}]
  BY Zenon DEF Init
<1>2. Suspended(Sched) = {}
  BY InitSched
<1>3. ToSet(suspend_thread) = {} /\ Sleeping = {} /\ Active = Periodic
  <2>1. ToSet(suspend_thread) = {}
    BY <1>1 DEF ToSet
  <2> QED BY <1>2, <2>1 DEF Sleeping, Active
<1>4. SemInv
  <2>1. << >> \in Seq({}) /\ IsInjective(<< >>)
    BY DEF IsInjective
  <2>2. Lists(suspend_thread, {})
    BY <1>1, <2>1 DEF Lists
  <2>3. value \in 0 .. SemMax
    BY <1>1, KernelAssumption, SMT
  <2> QED BY <1>3, <2>2, <2>3 DEF SemInv
<1>5. Lists(timer_list, Periodic)
  <2>1. timer_list \in [1 .. Cardinality(Periodic) -> Periodic]
        /\ \A a, b \in 1 .. Cardinality(Periodic) : a # b => timer_list[a] # timer_list[b]
    BY <1>1 DEF SetToSeqs
  <2>2. IsFiniteSet(Periodic)
    BY KernelAssumption
  <2> QED BY <2>1, <2>2, InjectionLists
<1>6. \A p \in Periodic : Periods[p] \in Nat /\ 1 <= Periods[p] /\ Periods[p] < TICK_HALF /\ Periods[p] < TickMod
  <2> TAKE p \in Periodic
  <2>1. Periods[p] \in 1 .. TICK_HALF - 1
    BY KernelAssumption
  <2> QED BY <2>1, HalfIs, SMT
<1>7. 0 \in Ticks
  BY HalfIs, SMT DEF Ticks
<1>8. timeout_tick \in [Timers -> Ticks]
  <2>1. \A p \in Periodic : Periods[p] \in Ticks
    BY <1>6, HalfIs, SMT DEF Ticks
  <2> QED BY <1>1, <1>7, <2>1
<1>9. \A p \in Periodic : Rem(p) = Periods[p]
  <2> TAKE p \in Periodic
  <2>1. timeout_tick[p] = Periods[p] /\ Periods[p] \in Ticks
    BY <1>1, <1>8 DEF Timers
  <2>2. Minus(Periods[p], 0) = IF 0 <= Periods[p] THEN Periods[p] - 0 ELSE Periods[p] + TickMod - 0
    BY <1>7, <2>1, MinusIs
  <2>3. Minus(Periods[p], 0) = Periods[p]
    BY <1>6, <2>2, SMT
  <2> QED BY <1>1, <2>1, <2>3 DEF Rem
<1>10. timer_list \in Seq(Periodic) /\ DOMAIN timer_list = 1 .. Len(timer_list)
       /\ \A k \in 1 .. Len(timer_list) : timer_list[k] \in Periodic
  <2>1. timer_list \in Seq(Periodic) /\ DOMAIN timer_list = 1 .. Len(timer_list)
    BY <1>5, ListsEmpty
  <2> QED BY <2>1, SMT
<1>11. TimerInv
  <2>1. \A k, l \in 1 .. Len(timer_list) : k < l => Rem(timer_list[k]) <= Rem(timer_list[l])
    BY <1>1, <1>9, <1>10
  <2>2. \A m \in Active : Rem(m) < TICK_HALF /\ (irq = "none" => 1 <= Rem(m))
    BY <1>3, <1>6, <1>9
  <2> QED BY <1>1, <1>3, <1>5, <1>7, <1>8, <2>1, <2>2 DEF TimerInv
<1>12. SleepInv
  <2>1. left \in [Threads -> Nat] /\ missed \in [Threads -> SUBSET Periodic]
    BY <1>1
  <2>2. /\ \A t \in Threads : left[t] = IF t \in Sleeping THEN Rem(t) ELSE 0
        /\ \A t \in Threads \ Sleeping : missed[t] = {}
    BY <1>1, <1>3
  <2>3. \A p \in Periodic : Rem(p) <= Periods[p]
    BY <1>6, <1>9
  <2> QED BY <1>3, <2>1, <2>2, <2>3 DEF SleepInv
<1>13. SliceInv
  BY <1>1, KernelAssumption, SMT DEF SliceInv
<1> QED BY <1>4, <1>11, <1>12, <1>13

-----------------------------------------------------------------------------
\* What each kind of step does to the scheduler.
LEMMA SchedIs ==
  ASSUME SchedInv
  PROVE  /\ Sched \in Scheduler /\ SchedOK(Sched) /\ Queued(Sched) /\ OneRuns(Sched)
         /\ Sched.stat = stat /\ Sched.current = current /\ Sched.table = priority_table
         /\ Sched.yield = yield /\ Sched.group = priority_group
         /\ stat \in [Threads -> Stats] /\ current \in Threads
         /\ Suspended(Sched) = {t \in Threads : stat[t] = "suspend"} /\ stat[Idle] # "suspend"
<1>1. /\ Sched.stat = stat /\ Sched.current = current /\ Sched.table = priority_table
      /\ Sched.yield = yield /\ Sched.group = priority_group
  BY DEF Sched
<1>2. SchedOK(Sched)
  BY DEF SchedInv
<1>3. Sched \in Scheduler /\ Queued(Sched) /\ OneRuns(Sched)
  BY <1>2 DEF SchedOK
<1>4. Sched.stat \in [Threads -> Stats] /\ Sched.current \in Threads
  BY <1>3 DEF Scheduler
<1>5. Suspended(Sched) = {t \in Threads : Sched.stat[t] = "suspend"}
  BY Zenon DEF Suspended
<1>6. stat[Idle] # "suspend"
  BY <1>1, <1>3, Zenon DEF OneRuns
<1> QED BY <1>1, <1>2, <1>3, <1>4, <1>5, <1>6

LEMMA SwitchStep ==
  ASSUME SchedInv, TurnInv, NEW r, SchedOK(r), MovesUp(Sched, r), Serves(r), Becomes(r),
         pc' \in [Threads -> {"run", "switch"}]
  PROVE  SchedInv' /\ TurnInv' /\ Suspended(Sched)' = Suspended(r)
<1>1. Sched' = r /\ TurnInv'
  BY SchedIs, BecomesOK
<1>2. SchedOK(Sched)' /\ Serves(Sched)' /\ Suspended(Sched)' = Suspended(r)
  BY <1>1
<1>3. (stat[current] = "running")'
  BY <1>2 DEF Serves, Sched
<1> QED BY <1>1, <1>2, <1>3 DEF SchedInv

LEMMA SchedSame ==
  ASSUME SchedInv, TurnInv, UNCHANGED sched, UNCHANGED pc
  PROVE  SchedInv' /\ TurnInv' /\ Suspended(Sched)' = Suspended(Sched)
<1>1. /\ stat' = stat /\ yield' = yield /\ priority_table' = priority_table
      /\ priority_group' = priority_group /\ current' = current /\ overtaken' = overtaken
  BY DEF sched
<1>2. Sched' = Sched
  BY <1>1 DEF Sched
<1>3. SchedInv'
  BY <1>1, <1>2 DEF SchedInv
<1>4. TurnInv'
  BY <1>1 DEF TurnInv
<1> QED BY <1>2, <1>3, <1>4

\* The current thread falls asleep and will call rt_schedule.
LEMMA FallsAsleep ==
  ASSUME SchedInv, TurnInv, pc[current] = "run", current # Idle,
         Becomes(rt_thread_suspend(Sched, current)), pc' = [pc EXCEPT ![current] = "switch"]
  PROVE  /\ SchedInv' /\ TurnInv' /\ Suspended(Sched)' = Suspended(Sched) \union {current}
         /\ stat[current] = "running" /\ current' = current /\ current \notin Suspended(Sched)
<1> DEFINE r == rt_thread_suspend(Sched, current)
<1>1. stat[current] = "running"
  <2>1. stat[current] \in Stats /\ stat[current] # "ready"
    BY SchedIs DEF OneRuns
  <2> QED BY <2>1 DEF SchedInv, Stats
<1>2. /\ SchedOK(r) /\ Suspended(r) = Suspended(Sched) \union {current} /\ r.current = current
      /\ r.stat[current] = "suspend" /\ KeepsPlaces(Sched, r)
  <2>1. /\ SchedOK(rt_thread_suspend(Sched, Sched.current))
        /\ Suspended(rt_thread_suspend(Sched, Sched.current)) = Suspended(Sched) \union {Sched.current}
        /\ rt_thread_suspend(Sched, Sched.current).current = Sched.current
        /\ rt_thread_suspend(Sched, Sched.current).stat[Sched.current] = "suspend"
        /\ KeepsPlaces(Sched, rt_thread_suspend(Sched, Sched.current))
    BY <1>1, SchedIs, SuspendOK
  <2> QED BY <2>1, SchedIs, Zenon
<1>3. MovesUp(Sched, r)
  BY <1>2, SchedIs, KeepsMovesUp
<1> HIDE DEF r
<1>4. Becomes(r)
  BY DEF r
<1>5. Sched' = r /\ TurnInv'
  BY <1>2, <1>3, <1>4, SchedIs, BecomesOK
<1>6. current' = current /\ stat' = r.stat
  BY <1>2, <1>5 DEF Sched
<1>7. SchedOK(Sched)' /\ Suspended(Sched)' = Suspended(r)
  BY <1>2, <1>5
<1>8. pc'[current] = "switch" /\ pc' \in [Threads -> {"run", "switch"}]
  BY SchedIs DEF SchedInv
<1>9. SchedInv'
  BY <1>2, <1>6, <1>7, <1>8 DEF SchedInv
<1>10. current \notin Suspended(Sched)
  BY <1>1, SchedIs
<1> QED BY <1>1, <1>2, <1>5, <1>6, <1>7, <1>9, <1>10

\* The steps that wake a thread and schedule.
LEMMA WakeStep ==
  ASSUME SchedInv, TurnInv, NEW t \in Suspended(Sched), UNCHANGED pc,
         Becomes(rt_schedule(rt_schedule_insert_thread(Sched, t)))
  PROVE  SchedInv' /\ TurnInv' /\ Suspended(Sched)' = Suspended(Sched) \ {t}
<1> DEFINE r == rt_schedule(rt_schedule_insert_thread(Sched, t))
<1>1. t \in Threads /\ Sched.stat[t] = "suspend"
  BY Zenon DEF Suspended
<1>2. SchedOK(r) /\ Suspended(r) = Suspended(Sched) \ {t} /\ Serves(r) /\ MovesUp(Sched, r)
  BY <1>1, SchedIs, WakeOK, Zenon
<1>3. pc' \in [Threads -> {"run", "switch"}]
  BY DEF SchedInv
<1> HIDE DEF r
<1>4. Becomes(r)
  BY DEF r
<1> QED BY <1>2, <1>3, <1>4, SwitchStep, Zenon

\* Another round of rt_schedule.
LEMMA ScheduleStep ==
  ASSUME SchedInv, TurnInv, Becomes(rt_schedule(Sched)), pc' \in [Threads -> {"run", "switch"}]
  PROVE  SchedInv' /\ TurnInv' /\ Suspended(Sched)' = Suspended(Sched)
<1> DEFINE r == rt_schedule(Sched)
<1>2. SchedOK(r) /\ Suspended(r) = Suspended(Sched) /\ Serves(r) /\ MovesUp(Sched, r)
  BY SchedIs, ScheduleOK, Zenon
<1> HIDE DEF r
<1>4. Becomes(r)
  BY DEF r
<1> QED BY <1>2, <1>4, SwitchStep, Zenon

\* The same for a thread whose time slice is used up.
LEMMA YieldStep ==
  ASSUME SchedInv, TurnInv, Becomes(rt_schedule([Sched EXCEPT !.yield = @ \union {current}])), UNCHANGED pc
  PROVE  SchedInv' /\ TurnInv' /\ Suspended(Sched)' = Suspended(Sched)
<1> DEFINE s == [Sched EXCEPT !.yield = @ \union {current}]
           r == rt_schedule(s)
<1>1. /\ s \in Scheduler /\ s.stat = stat /\ s.table = priority_table /\ s.group = priority_group
      /\ s.current = current
  <2>1. s \in [stat : {stat}, yield : {yield \union {current}}, table : {priority_table},
               group : {priority_group}, current : {current}]
    BY DEF Sched
  <2>2. yield \union {current} \in SUBSET Threads
    BY SchedIs DEF Scheduler
  <2> HIDE DEF s
  <2>3. /\ s.stat = stat /\ s.table = priority_table /\ s.group = priority_group
        /\ s.current = current /\ s.yield = yield \union {current}
        /\ s = [stat |-> s.stat, yield |-> s.yield, table |-> s.table, group |-> s.group,
                current |-> s.current]
    BY <2>1
  <2>4. /\ stat \in [Threads -> Stats] /\ priority_table \in [Levels -> Seq(Threads)]
        /\ priority_group \in SUBSET Levels /\ current \in Threads
    BY SchedIs DEF Scheduler
  <2> QED BY <2>2, <2>3, <2>4, Zenon DEF Scheduler
<1> HIDE DEF s
<1>2. \A level \in Levels : Waiting(s, level) = Waiting(Sched, level)
  BY <1>1, SchedIs DEF Waiting
<1>3. SchedOK(s)
  <2>1. Queued(s)
    BY <1>1, <1>2, SchedIs DEF Queued
  <2>2. OneRuns(s)
    BY <1>1, SchedIs DEF OneRuns
  <2> QED BY <1>1, <2>1, <2>2 DEF SchedOK
<1>4. SchedOK(r) /\ Suspended(r) = Suspended(s) /\ Serves(r) /\ MovesUp(s, r)
  BY <1>3, ScheduleOK, Zenon
<1>5. Suspended(s) = Suspended(Sched)
  BY <1>1, SchedIs DEF Suspended
<1>6. MovesUp(Sched, r)
  <2> SUFFICES ASSUME NEW l \in Levels, NEW k \in 1 .. Len(r.table[l]), Sched.stat[r.table[l][k]] = "ready"
               PROVE  /\ Place(Sched, r, l, k) \in 1 .. Len(Sched.table[l])
                      /\ Sched.table[l][Place(Sched, r, l, k)] = r.table[l][k]
    BY Zenon DEF MovesUp
  <2>1. s.stat = Sched.stat /\ s.table = Sched.table /\ s.current = Sched.current
    BY <1>1, SchedIs
  <2>2. Place(s, r, l, k) = Place(Sched, r, l, k)
    BY <2>1, Zenon DEF Place, Overtakes
  <2>3. /\ Place(s, r, l, k) \in 1 .. Len(s.table[l])
        /\ s.table[l][Place(s, r, l, k)] = r.table[l][k]
    BY <1>4, <2>1, Zenon DEF MovesUp
  <2> QED BY <2>1, <2>2, <2>3, Zenon
<1> HIDE DEF r
<1>7. Becomes(r)
  BY DEF r, s
<1>8. pc' \in [Threads -> {"run", "switch"}]
  BY DEF SchedInv
<1> QED BY <1>4, <1>5, <1>6, <1>7, <1>8, SwitchStep, Zenon

-----------------------------------------------------------------------------
\* Steps that leave the timers alone.
LEMMA ListsSet ==
  ASSUME NEW list, NEW S, Lists(list, S)
  PROVE  ToSet(list) = S
<1>1. list \in Seq(S) /\ DOMAIN list = 1 .. Len(list)
  BY ListsEmpty
<1>2. \A k \in 1 .. Len(list) : list[k] \in S
  BY <1>1, SMT
<1>3. \A e \in S : \E k \in 1 .. Len(list) : list[k] = e
  BY Zenon DEF Lists
<1> QED BY <1>1, <1>2, <1>3 DEF ToSet

LEMMA TimersSame ==
  ASSUME TimerInv, SleepInv, UNCHANGED <<tick, timers, history>>, Sleeping' = Sleeping,
         irq' \in {"none", "slice", "timers"}, irq' = "none" => irq = "none"
  PROVE  TimerInv' /\ SleepInv'
<1>1. /\ tick' = tick /\ timer_list' = timer_list /\ timeout_tick' = timeout_tick
      /\ left' = left /\ missed' = missed
  BY DEF timers, history
<1>2. Active' = Active
  BY DEF Active
<1>3. \A m : Rem(m)' = Rem(m)
  BY <1>1 DEF Rem
<1>4. TimerInv'
  BY <1>1, <1>2, <1>3 DEF TimerInv
<1>5. SleepInv'
  BY <1>1, <1>3 DEF SleepInv
<1> QED BY <1>4, <1>5

LEMMA SemSame ==
  ASSUME SemInv, UNCHANGED sem, Suspended(Sched)' = Suspended(Sched)
  PROVE  SemInv' /\ Sleeping' = Sleeping
<1>1. value' = value /\ suspend_thread' = suspend_thread
  BY DEF sem
<1> QED BY <1>1 DEF SemInv, Sleeping

LEMMA SwitchAwayInv ==
  ASSUME KernelInv, NEW t \in Threads, SwitchAway(t)
  PROVE  KernelInv'
<1>1. /\ SchedInv /\ TurnInv /\ SemInv /\ TimerInv /\ SleepInv /\ SliceInv
  BY DEF KernelInv
<1>2. /\ Becomes(rt_schedule(Sched)) /\ pc' = [pc EXCEPT ![t] = "run"]
      /\ UNCHANGED <<tick, remaining_tick, timers, sem, irq, history>>
  BY DEF SwitchAway
<1>3. pc' \in [Threads -> {"run", "switch"}]
  BY <1>1, <1>2 DEF SchedInv
<1>4. SchedInv' /\ TurnInv' /\ Suspended(Sched)' = Suspended(Sched)
  BY <1>1, <1>2, <1>3, ScheduleStep
<1>5. SemInv' /\ Sleeping' = Sleeping
  BY <1>1, <1>2, <1>4, SemSame
<1>6. TimerInv' /\ SleepInv'
  <2>1. irq' \in {"none", "slice", "timers"} /\ irq' = irq
    BY <1>1, <1>2 DEF TimerInv
  <2> QED BY <1>1, <1>2, <1>5, <2>1, TimersSame
<1>7. SliceInv'
  BY <1>1, <1>2 DEF SliceInv
<1> QED BY <1>4, <1>5, <1>6, <1>7 DEF KernelInv

LEMMA SemTakeInv ==
  ASSUME KernelInv, NEW t \in Threads, rt_sem_take(t)
  PROVE  KernelInv'
<1>1. /\ SchedInv /\ TurnInv /\ SemInv /\ TimerInv /\ SleepInv /\ SliceInv
  BY DEF KernelInv
<1>2. /\ current = t /\ pc[t] = "run" /\ t # Idle
      /\ UNCHANGED <<tick, remaining_tick, timers, irq, history>>
  BY KernelAssumption DEF rt_sem_take, Runs
<1>3. /\ SchedInv' /\ TurnInv' /\ SemInv' /\ Sleeping' = Sleeping
  <2>1. CASE value > 0
    <3>1. value' = value - 1 /\ UNCHANGED <<sched, suspend_thread, pc>>
      BY <2>1, Zenon DEF rt_sem_take
    <3>2. SchedInv' /\ TurnInv' /\ Suspended(Sched)' = Suspended(Sched)
      BY <1>1, <3>1, SchedSame
    <3>3. value' \in 0 .. SemMax
      <4>1. value \in 0 .. SemMax /\ SemMax \in Nat
        BY <1>1, KernelAssumption DEF SemInv
      <4> QED BY <2>1, <3>1, <4>1, SMT
    <3> QED BY <1>1, <3>1, <3>2, <3>3 DEF SemInv, Sleeping
  <2>2. CASE ~(value > 0)
    <3>1. /\ Becomes(rt_thread_suspend(Sched, t)) /\ suspend_thread' = Append(suspend_thread, t)
          /\ pc' = [pc EXCEPT ![t] = "switch"] /\ value' = value
      BY <2>2, Zenon DEF rt_sem_take
    <3>2. /\ SchedInv' /\ TurnInv' /\ Suspended(Sched)' = Suspended(Sched) \union {t}
          /\ t \notin Suspended(Sched)
      BY <1>1, <1>2, <3>1, FallsAsleep
    <3>3. Lists(suspend_thread, ToSet(suspend_thread)) /\ ToSet(suspend_thread) \subseteq Suspended(Sched)
      BY <1>1 DEF SemInv
    <3>4. t \notin ToSet(suspend_thread)
      BY <3>2, <3>3
    <3>5. Lists(suspend_thread', ToSet(suspend_thread) \union {t})
      BY <3>1, <3>3, <3>4, ListsAppend
    <3>6. ToSet(suspend_thread') = ToSet(suspend_thread) \union {t}
      BY <3>5, ListsSet
    <3>7. SemInv'
      BY <1>1, <3>1, <3>2, <3>3, <3>5, <3>6 DEF SemInv
    <3>8. Sleeping' = Sleeping
      BY <3>2, <3>6 DEF Sleeping
    <3> QED BY <3>2, <3>7, <3>8
  <2> QED BY <2>1, <2>2
<1>4. TimerInv' /\ SleepInv'
  <2>1. irq' \in {"none", "slice", "timers"} /\ irq' = irq
    BY <1>1, <1>2 DEF TimerInv
  <2> QED BY <1>1, <1>2, <1>3, <2>1, TimersSame
<1>5. SliceInv'
  BY <1>1, <1>2 DEF SliceInv
<1> QED BY <1>3, <1>4, <1>5 DEF KernelInv

LEMMA SemReleaseInv ==
  ASSUME KernelInv, rt_sem_release
  PROVE  KernelInv'
<1>1. /\ SchedInv /\ TurnInv /\ SemInv /\ TimerInv /\ SleepInv /\ SliceInv
  BY DEF KernelInv
<1>2. UNCHANGED <<tick, remaining_tick, timers, pc, irq, history>>
  BY DEF rt_sem_release
<1>3. SchedInv' /\ TurnInv' /\ SemInv' /\ Sleeping' = Sleeping
  <2>1. CASE suspend_thread # << >>
    <3> DEFINE h == Head(suspend_thread)
    <3>1. /\ Becomes(rt_schedule(rt_schedule_insert_thread(Sched, h)))
          /\ suspend_thread' = Tail(suspend_thread) /\ value' = value
      BY <2>1, Zenon DEF rt_sem_release, NeedSchedule
    <3>2. Lists(suspend_thread, ToSet(suspend_thread)) /\ ToSet(suspend_thread) \subseteq Suspended(Sched)
      BY <1>1 DEF SemInv
    <3>3. h \in ToSet(suspend_thread) /\ Lists(suspend_thread', ToSet(suspend_thread) \ {h})
      BY <2>1, <3>1, <3>2, ListsTail
    <3>4. h \in Suspended(Sched)
      BY <3>2, <3>3
    <3> HIDE DEF h
    <3>5. SchedInv' /\ TurnInv' /\ Suspended(Sched)' = Suspended(Sched) \ {h}
      BY <1>1, <1>2, <3>1, <3>4, WakeStep
    <3>6. ToSet(suspend_thread') = ToSet(suspend_thread) \ {h}
      BY <3>3, ListsSet
    <3>7. SemInv'
      BY <1>1, <3>1, <3>2, <3>3, <3>5, <3>6 DEF SemInv
    <3>8. Sleeping' = Sleeping
      BY <3>2, <3>3, <3>5, <3>6 DEF Sleeping
    <3> QED BY <3>5, <3>7, <3>8
  <2>2. CASE suspend_thread = << >>
    <3>1. /\ value' = IF value < SemMax THEN value + 1 ELSE value
          /\ UNCHANGED <<sched, suspend_thread>>
      BY <2>2, Zenon DEF rt_sem_release
    <3>2. SchedInv' /\ TurnInv' /\ Suspended(Sched)' = Suspended(Sched)
      BY <1>1, <1>2, <3>1, SchedSame
    <3>3. value' \in 0 .. SemMax
      <4>1. value \in 0 .. SemMax /\ SemMax \in Nat
        BY <1>1, KernelAssumption DEF SemInv
      <4> QED BY <3>1, <4>1, SMT
    <3> QED BY <1>1, <3>1, <3>2, <3>3 DEF SemInv, Sleeping
  <2> QED BY <2>1, <2>2
<1>4. TimerInv' /\ SleepInv'
  <2>1. irq' \in {"none", "slice", "timers"} /\ irq' = irq
    BY <1>1, <1>2 DEF TimerInv
  <2> QED BY <1>1, <1>2, <1>3, <2>1, TimersSame
<1>5. SliceInv'
  BY <1>1, <1>2 DEF SliceInv
<1> QED BY <1>3, <1>4, <1>5 DEF KernelInv

-----------------------------------------------------------------------------
\* Steps of the timers.
LEMMA TimersIs ==
  ASSUME KernelInv
  PROVE  /\ Active \subseteq Timers /\ Sleeping \subseteq Threads \ {Idle}
         /\ Periodic \subseteq Active /\ Sleeping \subseteq Active
         /\ Threads \intersect Periodic = {}
         /\ tick \in Ticks /\ timeout_tick \in [Timers -> Ticks]
         /\ Lists(timer_list, Active) /\ Sorted(timer_list, timeout_tick, tick)
         /\ timer_list \in Seq(Active) /\ DOMAIN timer_list = 1 .. Len(timer_list) /\ Len(timer_list) \in Nat
         /\ \A k \in 1 .. Len(timer_list) : timer_list[k] \in Active
         /\ \A m \in Active : timeout_tick[m] \in Ticks /\ Rem(m) \in Nat /\ Rem(m) < TICK_HALF
<1>1. SchedInv /\ TimerInv
  BY DEF KernelInv
<1>2. Sleeping \subseteq Threads \ {Idle}
  BY <1>1, SchedIs DEF Sleeping
<1>3. Active \subseteq Timers /\ Periodic \subseteq Active /\ Sleeping \subseteq Active
  BY <1>2 DEF Active, Timers
<1>4. tick \in Ticks /\ timeout_tick \in [Timers -> Ticks] /\ Lists(timer_list, Active)
  BY <1>1 DEF TimerInv
<1>5. timer_list \in Seq(Active) /\ DOMAIN timer_list = 1 .. Len(timer_list) /\ Len(timer_list) \in Nat
  BY <1>4, ListsEmpty
<1>6. \A k \in 1 .. Len(timer_list) : timer_list[k] \in Active
  BY <1>5, SMT
<1>7. ASSUME NEW m \in Active PROVE timeout_tick[m] \in Ticks /\ Rem(m) \in Nat /\ Rem(m) < TICK_HALF
  <2>1. timeout_tick[m] \in Ticks
    BY <1>3, <1>4
  <2>2. Rem(m) \in Ticks
    BY <1>4, <2>1, MinusIs DEF Rem
  <2>3. Rem(m) < TICK_HALF
    BY <1>1 DEF TimerInv
  <2> QED BY <2>1, <2>2, <2>3, HalfIs
<1>8. Sorted(timer_list, timeout_tick, tick)
  BY <1>1 DEF TimerInv, Sorted, Rem
<1> QED BY <1>2, <1>3, <1>4, <1>5, <1>6, <1>7, <1>8, KernelAssumption

LEMMA TickInv ==
  ASSUME KernelInv, rt_tick_increase
  PROVE  KernelInv'
<1>1. /\ SchedInv /\ TurnInv /\ SemInv /\ TimerInv /\ SleepInv /\ SliceInv
  BY DEF KernelInv
<1>2. /\ irq = "none" /\ irq' = "slice" /\ tick' = (tick + 1) % TickMod
      /\ left' = [t \in Threads |-> IF left[t] > 0 THEN left[t] - 1 ELSE 0]
      /\ UNCHANGED <<timers, sem, pc, missed>>
  BY Zenon DEF rt_tick_increase
<1>3. SchedInv' /\ TurnInv' /\ Suspended(Sched)' = Suspended(Sched) /\ SliceInv'
  <2>0. /\ remaining_tick \in [Threads -> Nat] /\ current \in Threads
        /\ \A t \in Threads : remaining_tick[t] \in 1 .. Slice[t] /\ Slice[t] \in Nat /\ 1 <= Slice[t]
    <3>1. remaining_tick \in [Threads -> Nat] /\ \A t \in Threads : remaining_tick[t] \in 1 .. Slice[t]
      BY <1>1 DEF SliceInv
    <3>2. \A t \in Threads : Slice[t] \in Nat /\ 1 <= Slice[t]
      BY KernelAssumption, SMT
    <3> QED BY <1>1, <3>1, <3>2, SchedIs
  <2>1. CASE SliceUsed
    <3>1. /\ remaining_tick' = [remaining_tick EXCEPT ![current] = Slice[current]]
          /\ Becomes(rt_schedule([Sched EXCEPT !.yield = @ \union {current}]))
      BY <2>1, Zenon DEF rt_tick_increase
    <3>2. SliceInv'
      BY <2>0, <3>1, SMT DEF SliceInv
    <3> QED BY <1>1, <1>2, <3>1, <3>2, YieldStep
  <2>2. CASE ~SliceUsed
    <3>1. /\ remaining_tick' = [remaining_tick EXCEPT ![current] = remaining_tick[current] - 1]
          /\ UNCHANGED sched
      BY <2>2, Zenon DEF rt_tick_increase
    <3>2. remaining_tick[current] # 1
      BY <2>2 DEF SliceUsed
    <3>3. SliceInv'
      BY <2>0, <3>1, <3>2, SMT DEF SliceInv
    <3> QED BY <1>1, <1>2, <3>1, <3>3, SchedSame
  <2> QED BY <2>1, <2>2
<1>4. SemInv' /\ Sleeping' = Sleeping
  BY <1>1, <1>2, <1>3, SemSame
<1>5. timer_list' = timer_list /\ timeout_tick' = timeout_tick /\ missed' = missed
  BY <1>2 DEF timers
<1>6. Active' = Active
  BY <1>4 DEF Active
<1>7. ASSUME NEW m \in Active
      PROVE  Rem(m)' = Rem(m) - 1 /\ 1 <= Rem(m) /\ Rem(m) \in Nat /\ tick' \in Ticks
  <2>1. timeout_tick[m] \in Ticks /\ tick \in Ticks /\ Rem(m) \in Nat
    BY TimersIs
  <2>2. 1 <= Rem(m)
    BY <1>1, <1>2 DEF TimerInv
  <2>3. /\ (tick + 1) % TickMod \in Ticks
        /\ Minus(timeout_tick[m], (tick + 1) % TickMod) = Minus(timeout_tick[m], tick) - 1
    BY <2>1, <2>2, OneLess DEF Rem
  <2> QED BY <1>2, <1>5, <2>1, <2>2, <2>3 DEF Rem
<1>8. tick' \in Ticks
  <2>1. tick \in Nat /\ TickMod \in Nat \ {0}
    BY TimersIs, HalfIs
  <2> QED BY <1>2, <2>1, SMT DEF Ticks
<1>9. TICK_HALF \in Nat
  BY HalfIs
<1>10. TimerInv'
  <2>1. ASSUME NEW k \in 1 .. Len(timer_list), NEW l \in 1 .. Len(timer_list), k < l
        PROVE  Rem(timer_list[k])' <= Rem(timer_list[l])'
    <3>1. Rem(timer_list[k]) <= Rem(timer_list[l])
      BY <1>1, <2>1 DEF TimerInv
    <3>2. timer_list[k] \in Active /\ timer_list[l] \in Active
      BY TimersIs
    <3>3. /\ Rem(timer_list[k]) \in Nat /\ Rem(timer_list[k])' = Rem(timer_list[k]) - 1
          /\ Rem(timer_list[l]) \in Nat /\ Rem(timer_list[l])' = Rem(timer_list[l]) - 1
      BY <1>5, <1>7, <3>2
    <3> HIDE DEF Rem
    <3> QED BY <3>1, <3>3, SMT
  <2>2. ASSUME NEW m \in Active PROVE Rem(m)' < TICK_HALF
    <3>1. Rem(m) < TICK_HALF
      BY TimersIs
    <3>2. Rem(m)' = Rem(m) - 1 /\ Rem(m) \in Nat
      BY <1>7
    <3> QED BY <1>9, <3>1, <3>2, SMT
  <2>3. Lists(timer_list', Active')
    BY <1>5, <1>6, TimersIs
  <2>4. timeout_tick' \in [Timers -> Ticks] /\ irq' \in {"none", "slice", "timers"} /\ irq' # "none"
    BY <1>2, <1>5, TimersIs
  <2> QED BY <1>5, <1>6, <1>8, <2>1, <2>2, <2>3, <2>4 DEF TimerInv
<1>11. SleepInv'
  <2>0. left \in [Threads -> Nat] /\ missed \in [Threads -> SUBSET Periodic]
        /\ \A t \in Threads : left[t] = IF t \in Sleeping THEN Rem(t) ELSE 0
    BY <1>1 DEF SleepInv
  <2>1. ASSUME NEW t \in Threads
        PROVE  left'[t] = (IF t \in Sleeping THEN Rem(t)' ELSE 0) /\ left'[t] \in Nat
    <3>1. left'[t] = IF left[t] > 0 THEN left[t] - 1 ELSE 0
      BY <1>2
    <3>2. CASE t \in Sleeping
      <4>1. left[t] = Rem(t) /\ Rem(t)' = Rem(t) - 1 /\ 1 <= Rem(t) /\ Rem(t) \in Nat
        BY <1>7, <2>0, <3>2, TimersIs
      <4> QED BY <3>1, <3>2, <4>1, SMT
    <3>3. CASE t \notin Sleeping
      BY <2>0, <3>1, <3>3, SMT
    <3> QED BY <3>2, <3>3
  <2>2. left' \in [Threads -> Nat]
    <3>1. left' = [t \in Threads |-> left'[t]]
      BY <1>2
    <3> QED BY <2>1, <3>1
  <2>3. ASSUME NEW p \in Periodic PROVE Rem(p)' <= Periods[p]
    <3>1. Rem(p) <= Periods[p] /\ Periods[p] \in 1 .. TICK_HALF - 1
      BY <1>1, KernelAssumption DEF SleepInv
    <3>2. Rem(p)' = Rem(p) - 1 /\ Rem(p) \in Nat
      BY <1>7, TimersIs
    <3> QED BY <1>9, <3>1, <3>2, SMT
  <2>4. /\ \A t \in Threads \ Sleeping : missed[t] = {}
        /\ \A k, l \in 1 .. Len(timer_list) :
             timer_list[k] \in Sleeping /\ timer_list[l] \in missed[timer_list[k]] => l < k
    BY <1>1 DEF SleepInv
  <2> QED BY <1>4, <1>5, <2>0, <2>1, <2>2, <2>3, <2>4 DEF SleepInv
<1> QED BY <1>3, <1>4, <1>10, <1>11 DEF KernelInv

LEMMA TimersDoneInv ==
  ASSUME KernelInv, TimersDone
  PROVE  KernelInv'
<1>1. /\ SchedInv /\ TurnInv /\ SemInv /\ TimerInv /\ SleepInv /\ SliceInv
  BY DEF KernelInv
<1>2. /\ irq' = "none" /\ (timer_list # << >> => ~Expired(Head(timer_list)))
      /\ UNCHANGED <<tick, sched, remaining_tick, timers, sem, pc, history>>
  BY DEF TimersDone
<1>3. SchedInv' /\ TurnInv' /\ Suspended(Sched)' = Suspended(Sched)
  BY <1>1, <1>2, SchedSame
<1>4. SemInv' /\ Sleeping' = Sleeping
  BY <1>1, <1>2, <1>3, SemSame
<1>5. /\ tick' = tick /\ timer_list' = timer_list /\ timeout_tick' = timeout_tick
      /\ left' = left /\ missed' = missed
  BY <1>2 DEF timers, history
<1>6. Active' = Active /\ \A m : Rem(m)' = Rem(m)
  BY <1>4, <1>5 DEF Active, Rem
<1>7. ASSUME NEW m \in Active PROVE 1 <= Rem(m)
  <2>1. PICK k \in 1 .. Len(timer_list) : timer_list[k] = m
    BY TimersIs DEF Lists
  <2>2. timer_list # << >>
    BY <2>1, TimersIs, ListsEmpty
  <2> DEFINE h == Head(timer_list)
  <2>3. h = timer_list[1] /\ h \in Active /\ 1 \in 1 .. Len(timer_list)
    BY <2>1, <2>2, TimersIs, SMT
  <2>4. ~(Minus(tick, timeout_tick[h]) < TICK_HALF)
    BY <1>2, <2>2 DEF Expired
  <2>5. Rem(h) # 0 /\ Rem(h) \in Nat
    <3>1. timeout_tick[h] \in Ticks /\ tick \in Ticks /\ Rem(h) \in Nat /\ Rem(h) < TICK_HALF
      BY <2>3, TimersIs
    <3> HIDE DEF h
    <3> QED BY <2>4, <3>1, ReachedIs DEF Rem
  <2>6. Rem(h) <= Rem(m) /\ Rem(m) \in Nat
    <3>1. Rem(m) \in Nat
      BY TimersIs
    <3>2. CASE k = 1
      BY <2>1, <2>3, <3>1, <3>2, SMT
    <3>3. CASE k # 1
      <4>1. 1 < k
        BY <2>1, <3>3, SMT
      <4>2. Rem(timer_list[1]) <= Rem(timer_list[k])
        BY <1>1, <2>1, <2>3, <4>1, Zenon DEF TimerInv
      <4> QED BY <2>1, <2>3, <3>1, <4>2
    <3> QED BY <3>2, <3>3
  <2> HIDE DEF h
  <2> QED BY <2>5, <2>6, SMT
<1>8. TimerInv'
  BY <1>1, <1>2, <1>5, <1>6, <1>7 DEF TimerInv
<1>9. SleepInv'
  BY <1>1, <1>4, <1>5, <1>6 DEF SleepInv
<1>10. SliceInv'
  BY <1>1, <1>2 DEF SliceInv
<1> QED BY <1>3, <1>4, <1>8, <1>9, <1>10 DEF KernelInv

\* The head of the list, reached.
LEMMA HeadReached ==
  ASSUME KernelInv, timer_list # << >>, Expired(Head(timer_list))
  PROVE  LET h == Head(timer_list)
         IN /\ h \in Active /\ h = timer_list[1] /\ 1 \in 1 .. Len(timer_list) /\ Rem(h) = 0
            /\ Lists(Tail(timer_list), Active \ {h})
            /\ Len(Tail(timer_list)) = Len(timer_list) - 1
            /\ \A k \in 1 .. Len(timer_list) - 1 :
                 /\ k + 1 \in 1 .. Len(timer_list) /\ Tail(timer_list)[k] = timer_list[k + 1]
                 /\ timer_list[k + 1] \in Active \ {h}
<1> DEFINE h == Head(timer_list)
           new == Tail(timer_list)
<1>1. /\ h \in Active /\ h = timer_list[1] /\ Lists(new, Active \ {h})
      /\ Len(new) = Len(timer_list) - 1
      /\ \A k \in 1 .. Len(timer_list) - 1 : new[k] = timer_list[k + 1]
  BY TimersIs, ListsTail
<1>2. Len(timer_list) \in Nat /\ Len(new) \in Nat /\ \A k \in 1 .. Len(new) : new[k] \in Active \ {h}
  <2>1. new \in Seq(Active \ {h}) /\ Len(new) \in Nat
    BY <1>1, ListsEmpty
  <2> HIDE DEF new, h
  <2> QED BY <2>1, TimersIs, SMT
<1>3. 1 \in 1 .. Len(timer_list)
  BY <1>1, <1>2, SMT
<1>4. \A k \in 1 .. Len(timer_list) - 1 : k + 1 \in 1 .. Len(timer_list)
  BY <1>2, SMT
<1>5. Rem(h) = 0
  <2>1. timeout_tick[h] \in Ticks /\ tick \in Ticks /\ Rem(h) \in Nat /\ Rem(h) < TICK_HALF
    BY <1>1, TimersIs
  <2>2. Minus(tick, timeout_tick[h]) < TICK_HALF
    BY DEF Expired
  <2> HIDE DEF h
  <2> QED BY <2>1, <2>2, ReachedIs DEF Rem
<1> QED BY <1>1, <1>2, <1>3, <1>4, <1>5

LEMMA ThreadTimerInv ==
  ASSUME KernelInv, ThreadTimer
  PROVE  KernelInv'
<1> DEFINE t == Head(timer_list)
           new == Tail(timer_list)
           N == Len(timer_list)
<1>1. /\ SchedInv /\ TurnInv /\ SemInv /\ TimerInv /\ SleepInv /\ SliceInv
  BY DEF KernelInv
<1>2. /\ timer_list # << >> /\ Expired(t) /\ t \in Threads /\ irq' = "timers"
      /\ Becomes(rt_schedule(rt_schedule_insert_thread(Sched, t)))
      /\ timer_list' = new /\ timeout_tick' = [timeout_tick EXCEPT ![t] = 0]
      /\ UNCHANGED <<tick, remaining_tick, sem, pc, history>>
  BY Zenon DEF ThreadTimer
<1>3. /\ t \in Active /\ t = timer_list[1] /\ 1 \in 1 .. N /\ Rem(t) = 0
      /\ Lists(new, Active \ {t}) /\ Len(new) = N - 1
      /\ \A k \in 1 .. N - 1 :
           k + 1 \in 1 .. N /\ new[k] = timer_list[k + 1] /\ timer_list[k + 1] \in Active \ {t}
  BY <1>2, HeadReached, Zenon
<1> HIDE DEF t, new
<1>4. t \in Sleeping /\ t \in Suspended(Sched) /\ t \notin ToSet(suspend_thread) /\ t \notin Periodic
  BY <1>2, <1>3, TimersIs DEF Active, Sleeping
<1>5. SchedInv' /\ TurnInv' /\ Suspended(Sched)' = Suspended(Sched) \ {t}
  BY <1>1, <1>2, <1>4, WakeStep
<1>6. /\ value' = value /\ suspend_thread' = suspend_thread /\ tick' = tick
      /\ left' = left /\ missed' = missed /\ remaining_tick' = remaining_tick
  BY <1>2 DEF sem, history
<1>7. SemInv'
  BY <1>1, <1>4, <1>5, <1>6 DEF SemInv
<1>8. Sleeping' = Sleeping \ {t} /\ Active' = Active \ {t}
  BY <1>4, <1>5, <1>6 DEF Sleeping, Active
<1>9. timeout_tick' \in [Timers -> Ticks]
  <2>1. 0 \in Ticks
    BY HalfIs, SMT DEF Ticks
  <2> QED BY <1>2, <2>1, TimersIs
<1> DEFINE Left(m) == Minus(timeout_tick'[m], tick')
<1>10. \A m \in Active \ {t} : Left(m) = Rem(m)
  <2> TAKE m \in Active \ {t}
  <2>1. timeout_tick'[m] = timeout_tick[m]
    BY <1>2, TimersIs
  <2> QED BY <1>6, <2>1 DEF Rem
<1> HIDE DEF Left
<1>11. TimerInv'
  <2>1. ASSUME NEW k \in 1 .. N - 1, NEW l \in 1 .. N - 1, k < l
        PROVE  Left(new[k]) <= Left(new[l])
    <3>1. k + 1 \in 1 .. N /\ l + 1 \in 1 .. N /\ k + 1 < l + 1
      BY <1>3, <2>1, SMT
    <3>2. Rem(timer_list[k + 1]) <= Rem(timer_list[l + 1])
      BY <1>1, <3>1, Zenon DEF TimerInv
    <3>3. Left(new[k]) = Rem(timer_list[k + 1]) /\ Left(new[l]) = Rem(timer_list[l + 1])
      BY <1>3, <1>10
    <3> QED BY <3>2, <3>3
  <2>2. \A m \in Active' : Left(m) < TICK_HALF
    BY <1>8, <1>10, TimersIs
  <2>3. irq' \in {"none", "slice", "timers"} /\ irq' # "none" /\ Len(timer_list') = N - 1
    BY <1>2, <1>3
  <2> QED BY <1>2, <1>3, <1>6, <1>8, <1>9, <2>1, <2>2, <2>3, TimersIs DEF TimerInv, Rem, Left
<1>12. SleepInv'
  <2>0. /\ left \in [Threads -> Nat] /\ missed \in [Threads -> SUBSET Periodic]
        /\ \A x \in Threads : left[x] = IF x \in Sleeping THEN Rem(x) ELSE 0
        /\ \A x \in Threads \ Sleeping : missed[x] = {}
        /\ \A p \in Periodic : Rem(p) <= Periods[p]
        /\ \A k, l \in 1 .. N :
             timer_list[k] \in Sleeping /\ timer_list[l] \in missed[timer_list[k]] => l < k
    BY <1>1 DEF SleepInv
  <2>1. \A x \in Threads : left[x] = IF x \in Sleeping \ {t} THEN Left(x) ELSE 0
    <3> TAKE x \in Threads
    <3>1. CASE x = t
      BY <1>3, <1>4, <2>0, <3>1
    <3>2. CASE x # t /\ x \in Sleeping
      <4>1. x \in Active \ {t}
        BY <3>2, TimersIs
      <4> QED BY <1>10, <2>0, <3>2, <4>1
    <3>3. CASE x # t /\ x \notin Sleeping
      BY <2>0, <3>3
    <3> QED BY <3>1, <3>2, <3>3
  <2>2. missed[t] = {}
    <3> SUFFICES ASSUME NEW p \in missed[t] PROVE FALSE
      OBVIOUS
    <3>1. p \in Active
      BY <1>2, <2>0, TimersIs
    <3>2. PICK l \in 1 .. N : timer_list[l] = p
      BY <3>1, TimersIs, Zenon DEF Lists
    <3>3. l < 1
      BY <1>3, <1>4, <2>0, <3>2
    <3> QED BY <3>2, <3>3, TimersIs, SMT
  <2>3. \A x \in Threads \ (Sleeping \ {t}) : missed[x] = {}
    BY <2>0, <2>2
  <2>4. \A p \in Periodic : Left(p) <= Periods[p]
    <3> TAKE p \in Periodic
    <3>1. p \in Active \ {t}
      BY <1>4, TimersIs
    <3> QED BY <1>10, <2>0, <3>1
  <2>5. ASSUME NEW k \in 1 .. N - 1, NEW l \in 1 .. N - 1, new[k] \in Sleeping \ {t}, new[l] \in missed[new[k]]
        PROVE  l < k
    <3>1. /\ k + 1 \in 1 .. N /\ l + 1 \in 1 .. N
          /\ new[k] = timer_list[k + 1] /\ new[l] = timer_list[l + 1]
      BY <1>3
    <3>2. l + 1 < k + 1
      BY <2>0, <2>5, <3>1
    <3> QED BY <3>2, TimersIs, SMT
  <2>6. Len(timer_list') = N - 1
    BY <1>2, <1>3
  <2> QED BY <1>2, <1>6, <1>8, <2>0, <2>1, <2>3, <2>4, <2>5, <2>6 DEF SleepInv, Rem, Left
<1>13. SliceInv'
  BY <1>1, <1>6 DEF SliceInv
<1> QED BY <1>5, <1>7, <1>11, <1>12, <1>13 DEF KernelInv

LEMMA PeriodicTimerInv ==
  ASSUME KernelInv, PeriodicTimer
  PROVE  KernelInv'
<1> DEFINE p == Head(timer_list)
           tail == Tail(timer_list)
           N == Len(timer_list)
           timeout == timeout_tick'
           new == timer_list'
           Left(m) == Minus(timeout[m], tick)
<1>1. /\ SchedInv /\ TurnInv /\ SemInv /\ TimerInv /\ SleepInv /\ SliceInv
  BY DEF KernelInv
<1>2. /\ timer_list # << >> /\ Expired(p) /\ p \in Periodic /\ irq' = "timers"
      /\ timeout = [timeout_tick EXCEPT ![p] = (tick + Periods[p]) % TickMod]
      /\ new = rt_timer_start(tail, timeout, p)
      /\ missed' = [t \in Threads |-> missed[t] \ {p}]
      /\ UNCHANGED <<tick, sched, remaining_tick, sem, pc, left>>
  BY Zenon DEF PeriodicTimer, Again
<1>3. /\ p \in Active /\ p = timer_list[1] /\ 1 \in 1 .. N /\ Rem(p) = 0
      /\ Lists(tail, Active \ {p}) /\ Len(tail) = N - 1
      /\ \A k \in 1 .. N - 1 :
           k + 1 \in 1 .. N /\ tail[k] = timer_list[k + 1] /\ timer_list[k + 1] \in Active \ {p}
  BY <1>2, HeadReached, Zenon
<1> HIDE DEF p, tail
<1>4. SchedInv' /\ TurnInv' /\ Suspended(Sched)' = Suspended(Sched)
  BY <1>1, <1>2, SchedSame
<1>5. SemInv' /\ Sleeping' = Sleeping
  BY <1>1, <1>2, <1>4, SemSame
<1>6. Active' = Active /\ tick' = tick /\ left' = left /\ remaining_tick' = remaining_tick
  BY <1>2, <1>5 DEF Active
<1>7. Periods[p] \in Nat /\ 1 <= Periods[p] /\ Periods[p] < TICK_HALF /\ Periods[p] < TickMod
  <2>1. Periods[p] \in 1 .. TICK_HALF - 1
    BY <1>2, KernelAssumption
  <2> QED BY <2>1, HalfIs, SMT
<1>8. (tick + Periods[p]) % TickMod \in Ticks /\ Minus((tick + Periods[p]) % TickMod, tick) = Periods[p]
  BY <1>7, TimersIs, PlusIs
<1>9. /\ timeout \in [Timers -> Ticks] /\ Left(p) = Periods[p]
      /\ \A m \in Active \ {p} : timeout[m] = timeout_tick[m] /\ Left(m) = Rem(m)
  <2>1. timeout \in [Timers -> Ticks] /\ timeout[p] = (tick + Periods[p]) % TickMod
    BY <1>2, <1>3, <1>8, TimersIs
  <2>2. \A m \in Active \ {p} : timeout[m] = timeout_tick[m]
    BY <1>2, TimersIs
  <2> QED BY <1>8, <2>1, <2>2 DEF Rem
<1>10. \A m \in Active : timeout[m] \in Ticks /\ Left(m) < TICK_HALF
  <2> TAKE m \in Active
  <2>1. timeout[m] \in Ticks
    BY <1>9, TimersIs
  <2>2. CASE m = p
    BY <1>7, <1>9, <2>1, <2>2
  <2>3. CASE m # p
    BY <1>9, <2>1, <2>3, TimersIs
  <2> QED BY <2>2, <2>3
<1>11. Sorted(tail, timeout, tick)
  <2> SUFFICES ASSUME NEW k \in 1 .. N - 1, NEW l \in 1 .. N - 1, k < l
               PROVE  Left(tail[k]) <= Left(tail[l])
    BY <1>3 DEF Sorted
  <2>1. k + 1 \in 1 .. N /\ l + 1 \in 1 .. N /\ k + 1 < l + 1
    BY <1>3, SMT
  <2>2. Rem(timer_list[k + 1]) <= Rem(timer_list[l + 1])
    BY <1>1, <2>1, Zenon DEF TimerInv
  <2> QED BY <1>3, <1>9, <2>2
<1> HIDE DEF Left, timeout, new
<1>12. /\ Lists(new, Active) /\ Sorted(new, timeout, tick) /\ KeepsOrder(tail, new, p)
  <2>1. /\ Lists(new, (Active \ {p}) \union {p}) /\ Sorted(new, timeout, tick) /\ KeepsOrder(tail, new, p)
    <3>1. \A x \in (Active \ {p}) \union {p} : timeout[x] \in Ticks /\ Minus(timeout[x], tick) < TICK_HALF
      BY <1>3, <1>10 DEF Left
    <3>2. tick \in Ticks /\ p \notin Active \ {p} /\ Lists(tail, Active \ {p})
      BY <1>3, TimersIs
    <3> DEFINE S == Active \ {p}
               start == rt_timer_start(tail, timeout, p)
    <3> HIDE DEF S
    <3>3. /\ Lists(start, S \union {p}) /\ Sorted(start, timeout, tick) /\ KeepsOrder(tail, start, p)
      BY <1>11, <3>1, <3>2, StartIs, Zenon DEF S
    <3> QED BY <1>2, <3>3, Zenon DEF S
  <2>2. (Active \ {p}) \union {p} = Active
    BY <1>3
  <2> QED BY <2>1, <2>2
<1>13. TimerInv'
  <2>1. \A k, l \in 1 .. Len(new) : k < l => Left(new[k]) <= Left(new[l])
    BY <1>12 DEF Sorted, Left
  <2>2. irq' \in {"none", "slice", "timers"} /\ irq' # "none"
    BY <1>2
  <2> QED BY <1>6, <1>9, <1>10, <1>12, <2>1, <2>2, TimersIs DEF TimerInv, Rem, Left, timeout, new
<1>14. SleepInv'
  <2>0. /\ left \in [Threads -> Nat] /\ missed \in [Threads -> SUBSET Periodic]
        /\ \A x \in Threads : left[x] = IF x \in Sleeping THEN Rem(x) ELSE 0
        /\ \A x \in Threads \ Sleeping : missed[x] = {}
        /\ \A q \in Periodic : Rem(q) <= Periods[q]
        /\ \A k, l \in 1 .. N :
             timer_list[k] \in Sleeping /\ timer_list[l] \in missed[timer_list[k]] => l < k
    BY <1>1 DEF SleepInv
  <2>1. \A x \in Threads : left[x] = IF x \in Sleeping THEN Left(x) ELSE 0
    <3> TAKE x \in Threads
    <3>1. CASE x \in Sleeping
      <4>1. x \in Active \ {p}
        BY <1>2, <3>1, TimersIs
      <4> QED BY <1>9, <2>0, <3>1, <4>1
    <3>2. CASE x \notin Sleeping
      BY <2>0, <3>2
    <3> QED BY <3>1, <3>2
  <2>2. missed' \in [Threads -> SUBSET Periodic] /\ \A x \in Threads \ Sleeping : missed'[x] = {}
    BY <1>2, <2>0
  <2>3. \A q \in Periodic : Left(q) <= Periods[q]
    <3> TAKE q \in Periodic
    <3>1. CASE q = p
      BY <1>7, <1>9, <3>1, SMT
    <3>2. CASE q # p
      BY <1>9, <2>0, <3>2, TimersIs
    <3> QED BY <3>1, <3>2
  <2>4. ASSUME NEW k \in 1 .. Len(new), NEW l \in 1 .. Len(new), new[k] \in Sleeping,
               new[l] \in missed'[new[k]]
        PROVE  l < k
    <3>1. new[k] \in Threads /\ new[k] # p /\ new[l] # p /\ new[l] \in missed[new[k]]
      BY <1>2, <2>4, TimersIs
    <3>2. PICK i, j \in 1 .. Len(tail) : tail[i] = new[l] /\ tail[j] = new[k] /\ (i < j <=> l < k)
      BY <1>12, <3>1, Zenon DEF KeepsOrder
    <3>3. /\ i + 1 \in 1 .. N /\ j + 1 \in 1 .. N
          /\ tail[i] = timer_list[i + 1] /\ tail[j] = timer_list[j + 1]
      BY <1>3, <3>2
    <3>4. i + 1 < j + 1
      BY <2>0, <2>4, <3>1, <3>2, <3>3
    <3>5. i < j
      BY <3>2, <3>4, <1>3, TimersIs, SMT
    <3> QED BY <3>2, <3>5
  <2> QED BY <1>5, <1>6, <2>0, <2>1, <2>2, <2>3, <2>4 DEF SleepInv, Rem, Left, timeout, new
<1>15. SliceInv'
  BY <1>1, <1>6 DEF SliceInv
<1> QED BY <1>4, <1>5, <1>13, <1>14, <1>15 DEF KernelInv

LEMMA SleepStepInv ==
  ASSUME KernelInv, NEW t \in Threads, NEW d \in Sleeps, rt_thread_sleep(t, d)
  PROVE  KernelInv'
<1> DEFINE N == Len(timer_list)
           timeout == timeout_tick'
           new == timer_list'
           Left(m) == Minus(timeout[m], tick)
<1>1. /\ SchedInv /\ TurnInv /\ SemInv /\ TimerInv /\ SleepInv /\ SliceInv
  BY DEF KernelInv
<1>2. /\ irq = "none" /\ current = t /\ pc[t] = "run" /\ t # Idle
      /\ Becomes(rt_thread_suspend(Sched, t)) /\ pc' = [pc EXCEPT ![t] = "switch"]
      /\ timeout = [timeout_tick EXCEPT ![t] = (tick + d) % TickMod]
      /\ new = rt_timer_start(timer_list, timeout, t)
      /\ left' = [left EXCEPT ![t] = d]
      /\ missed' = [missed EXCEPT ![t] = {p \in Periodic : Periods[p] <= d}]
      /\ UNCHANGED <<tick, remaining_tick, sem, irq>>
  BY Zenon DEF rt_thread_sleep, Runs, EndOfSleep
<1>3. /\ SchedInv' /\ TurnInv' /\ Suspended(Sched)' = Suspended(Sched) \union {t}
      /\ t \notin Suspended(Sched)
  BY <1>1, <1>2, FallsAsleep
<1>4. /\ suspend_thread' = suspend_thread /\ value' = value /\ tick' = tick /\ irq' = irq
      /\ remaining_tick' = remaining_tick
  BY <1>2 DEF sem
<1>5. t \notin ToSet(suspend_thread) /\ SemInv'
  <2>1. ToSet(suspend_thread) \subseteq Suspended(Sched)
    BY <1>1 DEF SemInv
  <2> QED BY <1>1, <1>3, <1>4, <2>1 DEF SemInv
<1>6. /\ Sleeping' = Sleeping \union {t} /\ Active' = Active \union {t} /\ t \notin Active
      /\ t \notin Periodic /\ t \in Timers
  <2>1. t \notin Periodic
    BY TimersIs
  <2> QED BY <1>2, <1>3, <1>4, <1>5, <2>1 DEF Sleeping, Active, Timers
<1>7. d \in Nat /\ 1 <= d /\ d < TICK_HALF /\ d < TickMod
  <2>1. d \in Nat \ {0} /\ d < TICK_HALF
    BY KernelAssumption
  <2> QED BY <2>1, HalfIs, SMT
<1>8. (tick + d) % TickMod \in Ticks /\ Minus((tick + d) % TickMod, tick) = d
  BY <1>7, TimersIs, PlusIs
<1>9. /\ timeout \in [Timers -> Ticks] /\ Left(t) = d /\ timeout[t] \in Ticks
      /\ \A m \in Active : timeout[m] = timeout_tick[m] /\ Left(m) = Rem(m)
  <2>1. timeout \in [Timers -> Ticks] /\ timeout[t] = (tick + d) % TickMod
    BY <1>2, <1>6, <1>8, TimersIs
  <2>2. \A m \in Active : timeout[m] = timeout_tick[m]
    BY <1>2, <1>6, TimersIs
  <2> QED BY <1>8, <2>1, <2>2 DEF Rem
<1>10. \A m \in Active \union {t} : timeout[m] \in Ticks /\ Left(m) < TICK_HALF /\ 1 <= Left(m)
  <2> TAKE m \in Active \union {t}
  <2>1. CASE m = t
    BY <1>7, <1>9, <2>1
  <2>2. CASE m \in Active
    <3>1. 1 <= Rem(m)
      BY <1>1, <1>2, <2>2 DEF TimerInv
    <3> QED BY <1>9, <2>2, <3>1, TimersIs
  <2> QED BY <2>1, <2>2
<1>11. Sorted(timer_list, timeout, tick)
  <2> SUFFICES ASSUME NEW k \in 1 .. N, NEW l \in 1 .. N, k < l
               PROVE  Left(timer_list[k]) <= Left(timer_list[l])
    BY DEF Sorted
  <2>1. Rem(timer_list[k]) <= Rem(timer_list[l])
    BY <1>1, Zenon DEF TimerInv
  <2> QED BY <1>9, <2>1, TimersIs
<1> HIDE DEF Left, timeout, new
<1>12. /\ Lists(new, Active \union {t}) /\ Sorted(new, timeout, tick) /\ KeepsOrder(timer_list, new, t)
       /\ \A k, l \in 1 .. Len(new) : new[k] = t /\ new[l] # t => (l < k <=> Left(new[l]) <= Left(t))
  <2> DEFINE start == rt_timer_start(timer_list, timeout, t)
  <2>1. \A x \in Active \union {t} : timeout[x] \in Ticks /\ Minus(timeout[x], tick) < TICK_HALF
    BY <1>10 DEF Left
  <2>2. tick \in Ticks /\ t \notin Active /\ Lists(timer_list, Active)
    BY <1>6, TimersIs
  <2>3. /\ Lists(start, Active \union {t}) /\ Sorted(start, timeout, tick)
        /\ KeepsOrder(timer_list, start, t)
        /\ \A k, l \in 1 .. Len(start) : start[k] = t /\ start[l] # t =>
             (l < k <=> Minus(timeout[start[l]], tick) <= Minus(timeout[t], tick))
    BY <1>11, <2>1, <2>2, StartIs, Zenon
  <2> HIDE DEF start
  <2>4. new = start
    BY <1>2 DEF start
  <2> QED BY <2>3, <2>4, Zenon DEF Left
<1>13. TimerInv'
  <2>1. \A k, l \in 1 .. Len(new) : k < l => Left(new[k]) <= Left(new[l])
    BY <1>12 DEF Sorted, Left
  <2> QED BY <1>1, <1>4, <1>6, <1>9, <1>10, <1>12, <2>1, TimersIs DEF TimerInv, Rem, Left, timeout, new
<1>14. SleepInv'
  <2>0. /\ left \in [Threads -> Nat] /\ missed \in [Threads -> SUBSET Periodic]
        /\ \A x \in Threads : left[x] = IF x \in Sleeping THEN Rem(x) ELSE 0
        /\ \A x \in Threads \ Sleeping : missed[x] = {}
        /\ \A q \in Periodic : Rem(q) <= Periods[q]
        /\ \A k, l \in 1 .. N :
             timer_list[k] \in Sleeping /\ timer_list[l] \in missed[timer_list[k]] => l < k
    BY <1>1 DEF SleepInv
  <2>1. \A x \in Threads : left'[x] = IF x \in Sleeping \union {t} THEN Left(x) ELSE 0
    <3> TAKE x \in Threads
    <3>1. CASE x = t
      BY <1>2, <1>9, <2>0, <3>1
    <3>2. CASE x # t /\ x \in Sleeping
      BY <1>2, <1>9, <2>0, <3>2, TimersIs
    <3>3. CASE x # t /\ x \notin Sleeping
      BY <1>2, <2>0, <3>3
    <3> QED BY <3>1, <3>2, <3>3
  <2>2. /\ left' \in [Threads -> Nat] /\ missed' \in [Threads -> SUBSET Periodic]
        /\ \A x \in Threads \ (Sleeping \union {t}) : missed'[x] = {}
    BY <1>2, <1>7, <2>0
  <2>3. \A q \in Periodic : Left(q) <= Periods[q]
    BY <1>9, <2>0, TimersIs
  <2>4. ASSUME NEW k \in 1 .. Len(new), NEW l \in 1 .. Len(new), new[k] \in Sleeping \union {t},
               new[l] \in missed'[new[k]]
        PROVE  l < k
    <3>0. new[k] \in Threads
      BY <2>4, TimersIs
    <3>1. new[l] \in Periodic /\ new[l] # t
      <4>1. missed'[new[k]] \in SUBSET Periodic
        BY <2>2, <3>0
      <4> QED BY <1>6, <2>4, <4>1
    <3>2. CASE new[k] = t
      <4>1. Periods[new[l]] <= d
        BY <1>2, <2>0, <2>4, <3>2
      <4>2. Rem(new[l]) <= Periods[new[l]] /\ Rem(new[l]) \in Nat /\ Left(new[l]) = Rem(new[l])
        BY <1>9, <2>0, <3>1, TimersIs
      <4>3. Periods[new[l]] \in Nat
        <5>1. Periods[new[l]] \in 1 .. TICK_HALF - 1
          BY <3>1, KernelAssumption
        <5> QED BY <5>1, HalfIs, SMT
      <4>4. Left(new[l]) <= Left(t)
        <5>1. Rem(new[l]) <= d
          BY <1>7, <4>1, <4>2, <4>3, SMT
        <5> QED BY <1>9, <4>2, <5>1
      <4> QED BY <1>12, <3>1, <3>2, <4>4
    <3>3. CASE new[k] # t
      <4>1. new[k] \in Sleeping /\ new[l] \in missed[new[k]]
        BY <1>2, <2>0, <2>4, <3>0, <3>3
      <4>2. PICK i, j \in 1 .. N : timer_list[i] = new[l] /\ timer_list[j] = new[k] /\ (i < j <=> l < k)
        BY <1>12, <3>1, <3>3, Zenon DEF KeepsOrder
      <4>3. i < j
        BY <2>0, <4>1, <4>2
      <4> QED BY <4>2, <4>3
    <3> QED BY <3>2, <3>3
  <2> QED BY <1>4, <1>6, <2>0, <2>1, <2>2, <2>3, <2>4 DEF SleepInv, Rem, Left, timeout, new
<1>15. SliceInv'
  BY <1>1, <1>4 DEF SliceInv
<1> QED BY <1>3, <1>5, <1>13, <1>14, <1>15 DEF KernelInv

-----------------------------------------------------------------------------
LEMMA StutterInv ==
  ASSUME KernelInv, UNCHANGED vars
  PROVE  KernelInv'
<1>1. /\ SchedInv /\ TurnInv /\ SemInv /\ TimerInv /\ SleepInv /\ SliceInv
  BY DEF KernelInv
<1>2. UNCHANGED <<tick, sched, remaining_tick, timers, sem, pc, irq, history>>
  BY DEF vars
<1>3. SchedInv' /\ TurnInv' /\ Suspended(Sched)' = Suspended(Sched)
  BY <1>1, <1>2, SchedSame
<1>4. SemInv' /\ Sleeping' = Sleeping
  BY <1>1, <1>2, <1>3, SemSame
<1>5. TimerInv' /\ SleepInv'
  <2>1. irq' \in {"none", "slice", "timers"} /\ irq' = irq
    BY <1>1, <1>2 DEF TimerInv
  <2> QED BY <1>1, <1>2, <1>4, <2>1, TimersSame
<1>6. SliceInv'
  BY <1>1, <1>2 DEF SliceInv
<1> QED BY <1>3, <1>4, <1>5, <1>6 DEF KernelInv

LEMMA KernelInvStep == KernelInv /\ [Next]_vars => KernelInv'
<1> SUFFICES ASSUME KernelInv, [Next]_vars PROVE KernelInv'
  OBVIOUS
<1>1. CASE rt_sem_release
  BY <1>1, SemReleaseInv
<1>2. CASE rt_tick_increase
  BY <1>2, TickInv
<1>3. CASE ThreadTimer
  BY <1>3, ThreadTimerInv
<1>4. CASE PeriodicTimer
  BY <1>4, PeriodicTimerInv
<1>5. CASE TimersDone
  BY <1>5, TimersDoneInv
<1>6. ASSUME NEW t \in Threads, SwitchAway(t) PROVE KernelInv'
  BY <1>6, SwitchAwayInv
<1>7. ASSUME NEW t \in Threads, rt_sem_take(t) PROVE KernelInv'
  BY <1>7, SemTakeInv
<1>8. ASSUME NEW t \in Threads, NEW d \in Sleeps, rt_thread_sleep(t, d) PROVE KernelInv'
  BY <1>8, SleepStepInv
<1>9. CASE UNCHANGED vars
  BY <1>9, StutterInv
<1> QED BY <1>1, <1>2, <1>3, <1>4, <1>5, <1>6, <1>7, <1>8, <1>9, Zenon DEF Next, TickStep, ThreadStep

LEMMA KernelInvHolds == Spec => []KernelInv
<1>1. Init => KernelInv
  BY InitSched, InitTimers DEF KernelInv
<1> QED BY <1>1, KernelInvStep, PTL DEF Spec

\* In every state a thread is queued once where its state says: a ready one at its
\* priority, whose bit is set, a suspended one on the list of timers or at the semaphore
\* (rt_schedule_insert_thread, rt_schedule_remove_thread, rt_thread_suspend, rt_sem_take,
\* rt_timer_start), for any threads, priorities, periods and delays.
THEOREM ThreadsKept == Spec => []NoThreadLost
<1>1. KernelInv => NoThreadLost
  <2> SUFFICES ASSUME KernelInv PROVE NoThreadLost
    OBVIOUS
  <2>1. /\ SchedInv /\ TurnInv /\ SemInv /\ TimerInv /\ SleepInv /\ SliceInv
    BY DEF KernelInv
  <2>2. Lists(timer_list, Active) /\ ToSet(timer_list) = Active
    BY TimersIs, ListsSet
  <2>3. Lists(suspend_thread, ToSet(suspend_thread)) /\ ToSet(suspend_thread) \subseteq Suspended(Sched)
    BY <2>1 DEF SemInv
  <2>4. Suspended(Sched) = {t \in Threads : stat[t] = "suspend"}
    BY <2>1, SchedIs
  <2>5. TypeOK
    <3>1. /\ tick \in Ticks /\ irq \in {"none", "slice", "timers"} /\ timeout_tick \in [Timers -> Ticks]
      BY <2>1 DEF TimerInv
    <3>2. /\ stat \in [Threads -> {"ready", "running", "suspend"}] /\ yield \subseteq Threads
          /\ current \in Threads /\ priority_table \in [Levels -> Seq(Threads)]
          /\ priority_group \subseteq Levels /\ pc \in [Threads -> {"run", "switch"}]
      BY <2>1, SchedIs DEF Scheduler, Stats, SchedInv
    <3>3. timer_list \in Seq(Timers)
      BY TimersIs, SMT
    <3>4. suspend_thread \in Seq(Threads)
      <4>1. suspend_thread \in Seq(ToSet(suspend_thread)) /\ ToSet(suspend_thread) \subseteq Threads
        BY <2>3, <2>4, ListsEmpty
      <4> QED BY <4>1, SMT
    <3>5. value \in 0 .. SemMax
      BY <2>1 DEF SemInv
    <3>6. left \in [Threads -> Nat] /\ missed \in [Threads -> SUBSET Periodic] /\ overtaken \in [Threads -> Nat]
      BY <2>1 DEF SleepInv, TurnInv
    <3>7. \A t \in Threads : remaining_tick[t] \in 1 .. Slice[t]
      BY <2>1 DEF SliceInv
    <3> QED BY <3>1, <3>2, <3>3, <3>4, <3>5, <3>6, <3>7, Zenon DEF TypeOK
  <2>6. ASSUME NEW level \in Levels
        PROVE  /\ IsInjective(priority_table[level])
               /\ ToSet(priority_table[level]) = {t \in Threads : stat[t] = "ready" /\ Prio[t] = level}
               /\ level \in priority_group <=> priority_table[level] # << >>
    <3>1. /\ Lists(priority_table[level], Waiting(Sched, level))
          /\ level \in priority_group <=> Waiting(Sched, level) # {}
      BY <2>1, SchedIs DEF Queued
    <3>2. Waiting(Sched, level) = {t \in Threads : stat[t] = "ready" /\ Prio[t] = level}
      BY <2>1, SchedIs DEF Waiting
    <3>3. priority_table[level] = << >> <=> Waiting(Sched, level) = {}
      BY <3>1, ListsEmpty
    <3>4. ToSet(priority_table[level]) = Waiting(Sched, level)
      BY <3>1, ListsSet
    <3>5. IsInjective(priority_table[level])
      BY <3>1, Zenon DEF Lists
    <3> QED BY <3>1, <3>2, <3>3, <3>4, <3>5
  <2>7. IsInjective(timer_list) /\ IsInjective(suspend_thread)
    BY <2>2, <2>3, Zenon DEF Lists
  <2>8. /\ Active \intersect ToSet(suspend_thread) = {}
        /\ Suspended(Sched) = (Active \ Periodic) \union ToSet(suspend_thread)
    BY <2>3, <2>4, TimersIs DEF Active, Sleeping
  <2>9. {t \in Threads : stat[t] = "running"} \subseteq {current}
    BY <2>1, SchedIs DEF OneRuns
  <2> QED BY <2>2, <2>4, <2>5, <2>6, <2>7, <2>8, <2>9 DEF NoThreadLost
<1> QED BY <1>1, KernelInvHolds, PTL

\* Outside the interrupt no ready thread is of a higher priority than the one that runs:
\* every step that makes a thread ready calls rt_schedule.
THEOREM PrioritiesKept == Spec => []HighestRuns
<1>1. KernelInv => HighestRuns
  BY SchedIs DEF KernelInv, SchedInv, Serves, HighestRuns
<1> QED BY <1>1, KernelInvHolds, PTL

\* rt_thread_mdelay(d) ends with the d-th tick, also when rt_tick overflows in between:
\* the list stays sorted by what each timer has left.
THEOREM DelaysExact == Spec => []SleepsExactly
<1>1. KernelInv => SleepsExactly
  <2> SUFFICES ASSUME KernelInv, NEW t \in Threads, irq = "none"
               PROVE  left[t] > 0 <=> stat[t] = "suspend" /\ t \notin ToSet(suspend_thread)
    BY DEF SleepsExactly
  <2>1. SchedInv /\ TimerInv /\ SleepInv
    BY DEF KernelInv
  <2>2. t \in Sleeping <=> stat[t] = "suspend" /\ t \notin ToSet(suspend_thread)
    BY <2>1, SchedIs DEF Sleeping
  <2>3. left[t] = IF t \in Sleeping THEN Rem(t) ELSE 0
    BY <2>1 DEF SleepInv
  <2>4. t \in Sleeping => Rem(t) \in Nat /\ 1 <= Rem(t)
    BY <2>1, TimersIs DEF TimerInv
  <2> HIDE DEF Rem, Sleeping
  <2> QED BY <2>2, <2>3, <2>4, SMT
<1> QED BY <1>1, KernelInvHolds, PTL

\* A thread that goes on after a delay of at least a timer's period finds that the timer's
\* callback has run: servo_ctrl and main rely on it for motorControl_timer1's flags.
THEOREM TimersFirst == Spec => []TimerRanMeanwhile
<1>1. KernelInv => TimerRanMeanwhile
  <2> SUFFICES ASSUME KernelInv, NEW t \in Threads, stat[t] # "suspend"
               PROVE  missed[t] = {}
    BY DEF TimerRanMeanwhile
  <2>1. t \in Threads \ Sleeping
    BY SchedIs DEF KernelInv, Sleeping
  <2> QED BY <2>1 DEF KernelInv, SleepInv
<1> QED BY <1>1, KernelInvHolds, PTL

\* Of the threads of a priority none is overtaken more than once by each of the others
\* while it is ready: rt_schedule_insert_thread queues behind, a used-up slice gives way.
THEOREM TurnsTaken == Spec => []EqualsTakeTurns
<1>1. KernelInv => EqualsTakeTurns
  <2> SUFFICES ASSUME KernelInv, NEW t \in Threads
               PROVE  overtaken[t] <= Cardinality({u \in Threads \ {t} : Prio[u] = Prio[t]})
    BY DEF EqualsTakeTurns
  <2> DEFINE level == Prio[t]
             C == Cardinality(Equals(level))
             others == {u \in Threads \ {t} : Prio[u] = Prio[t]}
  <2>1. SchedInv /\ TurnInv
    BY DEF KernelInv
  <2>2. /\ IsFiniteSet(Equals(level)) /\ C \in Nat /\ t \in Equals(level)
        /\ others = Equals(level) \ {t} /\ level \in Levels
    BY Constants, FS_Subset, FS_CardinalityType DEF Equals
  <2>3. Cardinality(others) = C - 1 /\ Cardinality(others) \in Nat
    <3>1. /\ IsFiniteSet(Equals(level) \ {t})
          /\ Cardinality(Equals(level) \ {t}) = C - 1
      BY <2>2, FS_RemoveElement
    <3>2. Cardinality(Equals(level) \ {t}) \in Nat
      BY <3>1, FS_CardinalityType
    <3> QED BY <2>2, <3>1, <3>2
  <2>4. CASE stat[t] # "ready"
    <3>1. overtaken[t] = 0
      BY <2>1, <2>4 DEF TurnInv
    <3> HIDE DEF others
    <3> QED BY <2>3, <3>1, SMT DEF others
  <2>5. CASE stat[t] = "ready"
    <3>1. t \in Waiting(Sched, level)
      BY <2>1, <2>5, SchedIs DEF Waiting
    <3>2. Lists(priority_table[level], Waiting(Sched, level))
      BY <2>1, <2>2, SchedIs DEF Queued
    <3>3. PICK k \in 1 .. Len(priority_table[level]) : priority_table[level][k] = t
      BY <3>1, <3>2, Zenon DEF Lists
    <3>4. overtaken[priority_table[level][k]] + k <= C
      BY <2>1, <2>2, Zenon DEF TurnInv
    <3>5. Len(priority_table[level]) \in Nat
      BY <3>2, ListsEmpty
    <3>6. overtaken[t] + k <= C /\ k \in Nat /\ 1 <= k /\ overtaken[t] \in Nat
      <4>1. overtaken[t] \in Nat
        BY <2>1 DEF TurnInv
      <4> HIDE DEF C, level
      <4> QED BY <3>3, <3>4, <3>5, <4>1, SMT
    <3>7. overtaken[t] <= C - 1
      <4> HIDE DEF C
      <4> QED BY <2>2, <3>6, SMT
    <3> QED BY <2>3, <3>7
  <2> QED BY <2>4, <2>5
<1> QED BY <1>1, KernelInvHolds, PTL

-----------------------------------------------------------------------------
\* Start-up.  No step of main comes twice, so that what is done follows from how far main
\* is; the threads below it run when it has come to its loop, or before they exist.
StepsOnce == \A k, l \in 1 .. 25 : Script[k] = Script[l] => k = l

BootInv ==
  /\ done \in 0 .. 24
  /\ done >= 5 => gains = "IPS_INIT"
  /\ flag => motion = 1 /\ done = 24
  /\ used \subseteq {"ips_mb", "camera_sem", "gains", "data_mb", "uart8_mb"}
  /\ "ips_mb" \in used => done >= 6
  /\ "camera_sem" \in used => done >= 9
  /\ "gains" \in used => done >= 5
  /\ "data_mb" \in used => done >= 18

LEMMA ScriptIs ==
  /\ Script[1] = "mdelay_200" /\ Script[2] = "ICM_INIT" /\ Script[3] = "pid_init"
  /\ Script[4] = "mdelay_1000" /\ Script[5] = "gains" /\ Script[6] = "ips_mb"
  /\ Script[7] = "gui_t" /\ Script[8] = "timer2" /\ Script[9] = "camera_sem"
  /\ Script[11] = "csi_start" /\ Script[17] = "uart8_t" /\ Script[18] = "data_mb"
  /\ Script[20] = "timer1" /\ Script[22] = "flag_init" /\ Script[25] = "loop"
  BY DEF Script, InOrder

LEMMA NoStepTwice == StepsOnce
  BY SMTT(60) DEF StepsOnce, Script, InOrder

\* What is done, by how far main is.
LEMMA DoneIs ==
  ASSUME done \in 0 .. 24, NEW k \in 1 .. 25
  PROVE  Done(Script[k]) <=> done >= k
<1>1. ASSUME NEW l \in 1 .. done, Script[l] = Script[k] PROVE l = k
  BY <1>1, NoStepTwice, SMT DEF StepsOnce
<1>2. k \in 1 .. done <=> done >= k
  BY SMT
<1> QED BY <1>1, <1>2, SMT DEF Done

LEMMA StepIs ==
  ASSUME done \in 0 .. 24, NEW k \in 1 .. 25
  PROVE  Step = Script[k] <=> done + 1 = k
<1>1. done + 1 \in 1 .. 25
  BY SMT
<1> QED BY <1>1, NoStepTwice DEF StepsOnce, Step

\* A thread below main that exists runs in main's loop only.
LEMMA LoopBelow ==
  ASSUME done \in 0 .. 24, NEW k \in 5 .. 24, CanRun(Script[k])
  PROVE  done = 24
<1>1. done >= k
  BY DoneIs, SMT DEF CanRun
<1>2. PICK l \in {1, 2, 4, 25} : Step = Script[l]
  BY ScriptIs DEF CanRun, Delays
<1>3. done + 1 = l
  BY <1>2, StepIs
<1> QED BY <1>1, <1>2, <1>3, SMT

LEMMA BootKeeps == BootInv /\ [BootNext]_bootVars => BootInv'
<1> SUFFICES ASSUME BootInv, [BootNext]_bootVars PROVE BootInv'
  OBVIOUS
<1>0. done \in 0 .. 24
  BY DEF BootInv
<1>1. CASE MainStep
  <2>1. done < 24 /\ done' = done + 1 /\ done' \in 0 .. 24
    <3>1. done + 1 # 25
      BY <1>0, <1>1, StepIs, ScriptIs DEF MainStep
    <3> QED BY <1>0, <1>1, <3>1, SMT DEF MainStep
  <2>2. done' >= 5 => gains' = "IPS_INIT"
    <3>1. /\ Step = "pid_init" <=> done + 1 = 3
          /\ Step = "gains" <=> done + 1 = 5
      BY <1>0, StepIs, ScriptIs
    <3>2. gains' = CASE Step = "pid_init" -> "pid_init" [] Step = "gains" -> "IPS_INIT" [] OTHER -> gains
      BY <1>1 DEF MainStep
    <3>3. done >= 5 => gains = "IPS_INIT"
      BY DEF BootInv
    <3> QED BY <1>0, <2>1, <3>1, <3>2, <3>3, SMT
  <2>3. flag' = flag /\ used' = used /\ ~flag
    BY <1>1, <2>1, SMT DEF MainStep, BootInv
  <2> QED BY <1>0, <2>1, <2>2, <2>3, SMT DEF BootInv
<1>2. CASE WatchdogResets
  BY <1>2, SMT DEF WatchdogResets, BootInv
<1>3. CASE ByteArrives \/ data_analysis
  <2>1. done' = done /\ gains' = gains /\ motion' = motion /\ flag' = flag /\ used' = used
    BY <1>3 DEF ByteArrives, data_analysis
  <2> QED BY <2>1 DEF BootInv
<1>4. CASE uart8_interrupt
  <2>1. /\ UNCHANGED <<done, gains, motion, flag>>
        /\ used' \in {used, used \union {"uart8_mb"}}
    BY <1>4 DEF uart8_interrupt
  <2> QED BY <2>1 DEF BootInv
<1>5. CASE KeyPressed
  <2>1. done >= 8
    BY <1>0, <1>5, DoneIs, ScriptIs DEF KeyPressed
  <2> QED BY <1>0, <1>5, <2>1, SMT DEF KeyPressed, BootInv
<1>6. CASE csi_isr
  <2>1. done >= 11
    BY <1>0, <1>6, DoneIs, ScriptIs DEF csi_isr
  <2> QED BY <1>0, <1>6, <2>1, SMT DEF csi_isr, BootInv
<1>7. CASE motorControl_timer1
  <2>1. done >= 20
    BY <1>0, <1>7, DoneIs, ScriptIs DEF motorControl_timer1
  <2> QED BY <1>0, <1>7, <2>1, SMT DEF motorControl_timer1, BootInv
<1>8. CASE ips_mb_recv
  <2>1. done = 24
    BY <1>0, <1>8, LoopBelow, ScriptIs DEF ips_mb_recv
  <2> QED BY <1>8, <2>1 DEF ips_mb_recv, BootInv
<1>9. CASE uart8_mb_recv
  <2>1. done = 24
    BY <1>0, <1>9, LoopBelow, ScriptIs DEF uart8_mb_recv
  <2> QED BY <1>9, <2>1, SMT DEF uart8_mb_recv, BootInv
<1>10. CASE UNCHANGED bootVars
  BY <1>10 DEF bootVars, BootInv
<1> QED
  BY <1>1, <1>2, <1>3, <1>4, <1>5, <1>6, <1>7, <1>8, <1>9, <1>10
     DEF BootNext, MainGoesOn, Interrupt, ThreadBelow

LEMMA BootInvHolds == BootSpec => []BootInv
<1>1. BootInit => BootInv
  BY SMT DEF BootInit, BootInv
<1> QED BY <1>1, BootKeeps, PTL DEF BootSpec

\* No interrupt, timer or thread uses a mailbox, the semaphore or the gains before main has
\* made them, whatever arrives when; uart8_mb is the exception (main.c:8-24).
THEOREM MadeBeforeUse == BootSpec => []UsesExist
<1>1. BootInv => UsesExist
  <2> SUFFICES ASSUME BootInv, NEW it \in used \ {"uart8_mb"} PROVE Done(it)
    BY DEF UsesExist
  <2>1. /\ done \in 0 .. 24
        /\ \/ it = "ips_mb" /\ done >= 6
           \/ it = "camera_sem" /\ done >= 9
           \/ it = "gains" /\ done >= 5
           \/ it = "data_mb" /\ done >= 18
    BY DEF BootInv
  <2> QED BY <2>1, DoneIs, ScriptIs
<1> QED BY <1>1, BootInvHolds, PTL

\* The gains a tick uses are those of IPS_INIT, and no later step of main undoes a mission
\* the user has started (IPS_INIT, flag_init).
THEOREM SetupStays == BootSpec => []NothingUndone
<1>1. BootInv => NothingUndone
  BY DEF BootInv, NothingUndone
<1> QED BY <1>1, BootInvHolds, PTL
=============================================================================

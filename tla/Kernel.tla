------------------------------- MODULE Kernel -------------------------------
(***************************************************************************)
(* The part of the RT-Thread kernel the car's timing rests on: the ready    *)
(* lists and rt_schedule, the list of timers and the tick interrupt that    *)
(* serves it, rt_thread_mdelay, and the semaphore the camera's interrupt    *)
(* releases.  One core, no SMP, RT_TIMER_SKIP_LIST_LEVEL is 1.              *)
(*                                                                          *)
(* A function that runs with interrupts disabled is one step; where they    *)
(* are enabled again an interrupt may come in between: after rt_thread_sleep*)
(* has put its caller on the list of timers and before it calls rt_schedule.*)
(* The tick interrupt is a step for rt_tick_increase and one for each turn  *)
(* of rt_timer_check's loop, which is with interrupts disabled; before it   *)
(* the camera's interrupt may nest.  A context switch requested in an       *)
(* interrupt (PendSV) happens when the interrupt ends.                      *)
(***************************************************************************)
EXTENDS Naturals, Sequences, FiniteSets, SequencesExt

CONSTANTS
  Threads, Idle,   \* Idle \in Threads never blocks
  Prio,            \* current_priority, 0 is the highest
  Slice,           \* init_tick, the time slice of each thread
  Periods,         \* the periodic hard timers and their periods
  Takers,          \* who calls rt_sem_take
  Sleeps,          \* the arguments of rt_thread_mdelay
  TickMod,         \* 2^32: rt_tick_t is unsigned
  SemMax           \* RT_SEM_VALUE_MAX

TICK_HALF == (TickMod - 1) \div 2       \* RT_TICK_MAX / 2
Periodic == DOMAIN Periods
Timers == (Threads \ {Idle}) \union Periodic   \* a thread's own timer has its name
Levels == {Prio[t] : t \in Threads}
Ticks == 0 .. TickMod - 1

ASSUME KernelAssumption ==
  /\ Idle \in Threads /\ Takers \subseteq Threads \ {Idle} /\ Threads \intersect Periodic = {}
  /\ IsFiniteSet(Threads) /\ IsFiniteSet(Periodic)
  /\ Prio \in [Threads -> Nat] /\ \A t \in Threads : Prio[t] <= Prio[Idle]
  /\ Slice \in [Threads -> Nat \ {0}] /\ Sleeps \subseteq Nat \ {0}
  /\ TickMod \in Nat \ {0} /\ SemMax \in Nat
  /\ \A p \in Periodic : Periods[p] \in 1 .. TICK_HALF - 1     \* the RT_ASSERT of
  /\ \A d \in Sleeps : d < TICK_HALF                           \* rt_timer_start

VARIABLES
  tick,            \* rt_tick
  stat,            \* READY, RUNNING or SUSPEND
  yield,           \* the threads with RT_THREAD_STAT_YIELD
  remaining_tick,
  priority_table, priority_group,
  current,         \* rt_current_thread
  timer_list,      \* those on it have RT_TIMER_FLAG_ACTIVATED
  timeout_tick,    \* of a timer on the list, else 0
  value, suspend_thread,                  \* camera_sem
  pc,              \* "run", or "switch": about to call rt_schedule
  irq,             \* the tick interrupt: "none", "slice" (before rt_timer_check), "timers"
  left, missed,            \* history: ticks left of a sleep; the timers that have not
                           \* fired in it yet, of those whose period it spans;
  overtaken                \* how often an equal got the processor while it was ready

sched == <<stat, yield, priority_table, priority_group, current, overtaken>>
timers == <<timer_list, timeout_tick>>
sem == <<value, suspend_thread>>
history == <<left, missed>>
vars == <<tick, sched, remaining_tick, timers, sem, pc, irq, history>>

-----------------------------------------------------------------------------
\* scheduler.c, on the record of its variables: several of its functions run in one
\* step of an interrupt.
Sched == [stat |-> stat, yield |-> yield, table |-> priority_table,
          group |-> priority_group, current |-> current]

Becomes(next) == \E s \in {next} :
  /\ stat' = s.stat /\ yield' = s.yield
  /\ priority_table' = s.table /\ priority_group' = s.group
  /\ current' = s.current
  /\ overtaken' = [t \in Threads |->
       IF s.stat[t] # "ready" THEN 0
       ELSE IF s.current # current /\ Prio[s.current] = Prio[t] THEN overtaken[t] + 1
       ELSE overtaken[t]]

\* A thread made ready queues up behind its equals.  Mutant: in front of them.
InFront(list, t) == << t >> \o list
Behind(list, t) == Append(list, t)

rt_schedule_insert_thread(s, t) ==
  IF t = s.current
    THEN [s EXCEPT !.stat[t] = "running"]
    ELSE [s EXCEPT !.stat[t] = "ready", !.table[Prio[t]] = Behind(@, t),
                   !.group = @ \union {Prio[t]}]

\* The list's bit goes when the list is empty.  Mutant: it stays.
GroupKept(group, level, list) == group
GroupAfter(group, level, list) == IF list = << >> THEN group \ {level} ELSE group

rt_schedule_remove_thread(s, t) ==
  LET list == RemoveFirst(s.table[Prio[t]], t)
  IN [s EXCEPT !.table[Prio[t]] = list, !.group = GroupAfter(@, Prio[t], list)]

Highest(group) == Min(group)

\* Whether a running thread goes on.
GoesOn(s, level) ==
  /\ s.stat[s.current] = "running"
  /\ \/ Prio[s.current] < level
     \/ Prio[s.current] = level /\ s.current \notin s.yield

rt_schedule(s) ==
  IF s.group = {} THEN s
  ELSE LET level == Highest(s.group)
           from  == s.current
           to    == IF GoesOn(s, level) THEN from ELSE Head(s.table[level])
           s1    == IF s.stat[from] = "running" THEN [s EXCEPT !.yield = @ \ {from}] ELSE s
           s2    == [s1 EXCEPT !.current = to]
           s3    == IF to # from /\ s.stat[from] = "running"
                      THEN rt_schedule_insert_thread(s2, from) ELSE s2
       IN [rt_schedule_remove_thread(s3, to) EXCEPT !.stat[to] = "running"]

rt_thread_suspend(s, t) == [rt_schedule_remove_thread(s, t) EXCEPT !.stat[t] = "suspend"]

-----------------------------------------------------------------------------
\* timer.c.  Differences are unsigned, so they survive the overflow of rt_tick.
\* Mutant: a plain comparison.
Minus(a, b) == (a + TickMod - b) % TickMod
AfterPlain(a, b) == a > b
After(a, b) == a # b /\ Minus(a, b) < TICK_HALF

\* Behind the timers of the same tick, before those of a later one.
rt_timer_start(list, timeout, m) ==
  LET later == {i \in DOMAIN list : After(timeout[list[i]], timeout[m])}
  IN InsertAt(list, Min(later \union {Len(list) + 1}), m)

\* A periodic timer is started again after its callback.  Mutant: it is not.
Once(list, timeout, p) == list
Again(list, timeout, p) == rt_timer_start(list, timeout, p)

\* The timers that were reached.
Expired(m) == Minus(tick, timeout_tick[m]) < TICK_HALF

\* The tick a sleep of d ticks ends at.  Mutant: one too early.
EndOfSleepEarly(d) == (tick + d - 1) % TickMod
EndOfSleep(d) == (tick + d) % TickMod

-----------------------------------------------------------------------------
Init ==
  /\ tick = 0
  /\ current = CHOOSE t \in Threads : \A u \in Threads : Prio[t] <= Prio[u]
  /\ stat = [t \in Threads |-> IF t = current THEN "running" ELSE "ready"]
  /\ yield = {}
  /\ remaining_tick = Slice
  /\ LET others(level) == {t \in Threads \ {current} : Prio[t] = level}
     IN /\ priority_table = [level \in Levels |-> SetToSeq(others(level))]
        /\ priority_group = {level \in Levels : others(level) # {}}
  /\ timeout_tick = [m \in Timers |-> IF m \in Periodic THEN Periods[m] ELSE 0]
  /\ timer_list \in SetToSeqs(Periodic)
  /\ \A k, l \in DOMAIN timer_list : k < l => Periods[timer_list[k]] <= Periods[timer_list[l]]
  /\ value = 0 /\ suspend_thread = << >>
  /\ pc = [t \in Threads |-> "run"] /\ irq = "none"
  /\ left = [t \in Threads |-> 0] /\ missed = [t \in Threads |-> {}]
  /\ overtaken = [t \in Threads |-> 0]

Runs(t) == irq = "none" /\ current = t

\* rt_thread_mdelay(d), which is rt_thread_sleep, up to its rt_schedule.
rt_thread_sleep(t, d) ==
  /\ Runs(t) /\ pc[t] = "run" /\ t # Idle
  /\ Becomes(rt_thread_suspend(Sched, t))
  /\ timeout_tick' = [timeout_tick EXCEPT ![t] = EndOfSleep(d)]
  /\ timer_list' = rt_timer_start(timer_list, timeout_tick', t)
  /\ pc' = [pc EXCEPT ![t] = "switch"]
  /\ left' = [left EXCEPT ![t] = d]
  /\ missed' = [missed EXCEPT ![t] = {p \in Periodic : Periods[p] <= d}]
  /\ UNCHANGED <<tick, remaining_tick, sem, irq>>

\* rt_sem_take(sem, RT_WAITING_FOREVER).
rt_sem_take(t) ==
  /\ Runs(t) /\ pc[t] = "run" /\ t \in Takers
  /\ IF value > 0
       THEN value' = value - 1 /\ UNCHANGED <<sched, suspend_thread, pc>>
       ELSE /\ Becomes(rt_thread_suspend(Sched, t))
            /\ suspend_thread' = Append(suspend_thread, t)
            /\ pc' = [pc EXCEPT ![t] = "switch"]
            /\ UNCHANGED value
  /\ UNCHANGED <<tick, remaining_tick, timers, irq, history>>

SwitchAway(t) ==
  /\ Runs(t) /\ pc[t] = "switch"
  /\ Becomes(rt_schedule(Sched))
  /\ pc' = [pc EXCEPT ![t] = "run"]
  /\ UNCHANGED <<tick, remaining_tick, timers, sem, irq, history>>

\* An interrupt that releases the semaphore (csi_isr).  Mutant: it does not ask for a
\* schedule after a resume.
NoSchedule(s) == s
NeedSchedule(s) == rt_schedule(s)

rt_sem_release ==
  /\ irq # "timers"
  /\ IF suspend_thread # << >>
       THEN /\ Becomes(NeedSchedule(rt_schedule_insert_thread(Sched, Head(suspend_thread))))
            /\ suspend_thread' = Tail(suspend_thread)
            /\ UNCHANGED value
       ELSE /\ value' = IF value < SemMax THEN value + 1 ELSE value
            /\ UNCHANGED <<sched, suspend_thread>>
  /\ UNCHANGED <<tick, remaining_tick, timers, pc, irq, history>>

-----------------------------------------------------------------------------
\* SysTick_Handler: rt_tick_increase with the time slice of the current thread ...
SliceUsed == remaining_tick[current] = 1
rt_tick_increase ==
  /\ irq = "none" /\ irq' = "slice"
  /\ tick' = (tick + 1) % TickMod
  /\ IF SliceUsed
       THEN /\ remaining_tick' = [remaining_tick EXCEPT ![current] = Slice[current]]
            /\ Becomes(rt_schedule([Sched EXCEPT !.yield = @ \union {current}]))
       ELSE /\ remaining_tick' = [remaining_tick EXCEPT ![current] = @ - 1]
            /\ UNCHANGED sched
  /\ left' = [t \in Threads |-> IF left[t] > 0 THEN left[t] - 1 ELSE 0]
  /\ UNCHANGED <<timers, sem, pc, missed>>

\* ... and rt_timer_check: rt_thread_timeout for a thread's timer ...
ThreadTimer ==
  /\ irq # "none" /\ irq' = "timers" /\ timer_list # << >>
  /\ LET t == Head(timer_list)
     IN /\ Expired(t) /\ t \in Threads
        /\ Becomes(rt_schedule(rt_schedule_insert_thread(Sched, t)))
  /\ timer_list' = Tail(timer_list)
  /\ timeout_tick' = [timeout_tick EXCEPT ![Head(timer_list)] = 0]
  /\ UNCHANGED <<tick, remaining_tick, sem, pc, history>>

\* ... the callback of a periodic timer, which is started again ...
PeriodicTimer ==
  /\ irq # "none" /\ irq' = "timers" /\ timer_list # << >>
  /\ LET p == Head(timer_list)
     IN /\ Expired(p) /\ p \in Periodic
        /\ timeout_tick' = [timeout_tick EXCEPT ![p] = (tick + Periods[p]) % TickMod]
        /\ timer_list' = Again(Tail(timer_list), timeout_tick', p)
        /\ missed' = [t \in Threads |-> missed[t] \ {p}]
  /\ UNCHANGED <<tick, sched, remaining_tick, sem, pc, left>>

\* ... until a timer has time left.
TimersDone ==
  /\ irq # "none" /\ (timer_list # << >> => ~Expired(Head(timer_list)))
  /\ irq' = "none"
  /\ UNCHANGED <<tick, sched, remaining_tick, timers, sem, pc, history>>

ThreadStep(t) == SwitchAway(t) \/ rt_sem_take(t) \/ \E d \in Sleeps : rt_thread_sleep(t, d)
TickStep == rt_tick_increase \/ ThreadTimer \/ PeriodicTimer \/ TimersDone

Next == rt_sem_release \/ TickStep \/ \E t \in Threads : ThreadStep(t)

Spec == Init /\ [][Next]_vars

\* The tick interrupt never stops coming.  In every state its next step can be taken, so
\* this is its weak fairness.
FairSpec == Spec /\ []<><<TickStep>>_vars

-----------------------------------------------------------------------------
TypeOK ==
  /\ tick \in Ticks /\ irq \in {"none", "slice", "timers"}
  /\ stat \in [Threads -> {"ready", "running", "suspend"}] /\ yield \subseteq Threads
  /\ current \in Threads
  /\ \A t \in Threads : remaining_tick[t] \in 1 .. Slice[t]
  /\ priority_table \in [Levels -> Seq(Threads)] /\ priority_group \subseteq Levels
  /\ timer_list \in Seq(Timers) /\ timeout_tick \in [Timers -> Ticks]
  /\ value \in 0 .. SemMax /\ suspend_thread \in Seq(Threads)
  /\ pc \in [Threads -> {"run", "switch"}] /\ left \in [Threads -> Nat]
  /\ missed \in [Threads -> SUBSET Periodic] /\ overtaken \in [Threads -> Nat]

\* Whatever interrupt comes between whichever statements of rt_thread_sleep, a thread
\* is never lost: a ready one is queued once, at its priority, whose bit is set; a
\* suspended one is waited for by its timer or queued at the semaphore, and not both.
NoThreadLost ==
  /\ TypeOK
  /\ \A level \in Levels :
       /\ IsInjective(priority_table[level])
       /\ ToSet(priority_table[level]) = {t \in Threads : stat[t] = "ready" /\ Prio[t] = level}
       /\ level \in priority_group <=> priority_table[level] # << >>
  /\ IsInjective(timer_list) /\ IsInjective(suspend_thread)
  /\ ToSet(timer_list) \intersect ToSet(suspend_thread) = {}
  /\ {t \in Threads : stat[t] = "suspend"}
       = (ToSet(timer_list) \ Periodic) \union ToSet(suspend_thread)
  /\ {t \in Threads : stat[t] = "running"} \subseteq {current}

\* No thread of higher priority waits while one of lower priority runs, which is what
\* lets a thread of the car use shared data without a lock against those below it.
HighestRuns ==
  irq = "none" /\ stat[current] = "running" =>
    \A t \in Threads : stat[t] = "ready" => Prio[current] <= Prio[t]

\* rt_thread_mdelay(d) ends with the d-th tick interrupt, neither before nor later.
SleepsExactly ==
  \A t \in Threads : irq = "none" =>
    (left[t] > 0 <=> stat[t] = "suspend" /\ t \notin ToSet(suspend_thread))

\* When a thread goes on after a delay of at least the period of a timer, the timer's
\* callback has run since it fell asleep.  (servo_ctrl and main rest on it when they wait for
\* motorControl_timer1 to take their flags.)
TimerRanMeanwhile ==
  \A t \in Threads : irq = "none" /\ stat[t] # "suspend" => missed[t] = {}

\* The GUI thread shares priority 31 with idle: between equals the processor goes
\* round, so none is overtaken more than once by each of the others.
EqualsTakeTurns ==
  \A t \in Threads :
    overtaken[t] <= Cardinality({u \in Threads \ {t} : Prio[u] = Prio[t]})

\* Every delay ends, and the periodic timers, the car's control loop among them, fire for
\* ever, whatever overflows and whichever threads run.
TimersFire ==
  /\ \A t \in Threads : left[t] > 0 ~> stat[t] # "suspend"
  /\ \A p \in Periodic : []<>(p \in ToSet(timer_list) /\ timeout_tick[p] = tick)
=============================================================================

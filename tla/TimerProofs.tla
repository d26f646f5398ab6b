---------------------------- MODULE TimerProofs -----------------------------
(***************************************************************************)
(* Proofs about Timer, for any number of threads, any tick period and any  *)
(* bound on the clock: the sleep list is in order and holds the threads    *)
(* that sleep, an interrupt is set for the first of them, and none of them *)
(* wakes before its time.                                                  *)
(***************************************************************************)
EXTENDS Timer, SchedulerProofs, FiniteSetTheorems

\* Threads that wake in a row, each from its own condition, become ready in that
\* order: the concatenation of the one-element lists of condition_broadcast.
LEMMA FlattenSingletons ==
    ASSUME NEW S, NEW s \in Seq(S)
    PROVE  FlattenSeq([i \in DOMAIN s |-> <<s[i]>>]) = s
<1>. DEFINE n == Len(s)
            q == [i \in DOMAIN s |-> <<s[i]>>]
<1>1. n \in Nat /\ DOMAIN s = 1 .. n /\ q \in Seq(Seq(S)) /\ Len(q) = n
      /\ \A i \in 1 .. n : q[i] = <<s[i]>>
  <2>1. n \in Nat /\ DOMAIN s = 1 .. n /\ \A i \in 1 .. n : s[i] \in S
    OBVIOUS
  <2>2. \A i \in 1 .. n : <<s[i]>> \in Seq(S)
    BY <2>1
  <2>3. q \in [1 .. n -> Seq(S)]
    BY <2>1, <2>2
  <2>4. q \in Seq(Seq(S)) /\ Len(q) = n
    BY <2>1, <2>3
  <2>. QED  BY <2>1, <2>4
<1>. HIDE DEF q
<1>2. CASE n = 0
  BY <1>1, <1>2 DEF FlattenSeq
<1>3. CASE n # 0
  <2>. DEFINE F(f) == f = [i \in 1 .. Len(q) |-> IF i = 1 THEN q[i] ELSE f[i - 1] \o q[i]]
              g == [i \in 1 .. n |-> SubSeq(s, 1, i)]
              c == CHOOSE f : F(f)
  <2>1. \A i \in 1 .. n : g[i] = IF i = 1 THEN q[i] ELSE g[i - 1] \o q[i]
    <3>. SUFFICES ASSUME NEW i \in 1 .. n
                  PROVE  g[i] = IF i = 1 THEN q[i] ELSE g[i - 1] \o q[i]
      OBVIOUS
    <3>1. CASE i = 1
      BY <1>1, <3>1
    <3>2. CASE i # 1
      <4>1. i - 1 \in 1 .. n /\ g[i - 1] = SubSeq(s, 1, i - 1)
        BY <1>1, <3>2
      <4>2. SubSeq(s, 1, i) = SubSeq(s, 1, i - 1) \o <<s[i]>>
        BY <1>1, <3>2, SMTT(20)
      <4>. QED  BY <1>1, <3>2, <4>1, <4>2
    <3>. QED  BY <3>1, <3>2
  <2>2. F(g)
    BY <1>1, <2>1
  <2>3. F(c)
    BY <2>2
  <2>. HIDE DEF c, g
  <2>4. \A i \in 1 .. n : c[i] = IF i = 1 THEN q[i] ELSE c[i - 1] \o q[i]
    BY <1>1, <2>3
  <2>. DEFINE T == {i \in Nat : i + 1 \in 1 .. n => c[i + 1] = g[i + 1]}
  <2>5. 0 \in T
    BY <2>1, <2>4
  <2>6. ASSUME NEW i \in Nat, i \in T PROVE i + 1 \in T
    <3>. SUFFICES ASSUME i + 2 \in 1 .. n PROVE c[i + 2] = g[i + 2]
      OBVIOUS
    <3>1. i + 1 \in 1 .. n /\ i + 2 # 1 /\ (i + 2) - 1 = i + 1
      BY <1>1
    <3>. QED  BY <2>1, <2>4, <2>6, <3>1
  <2>. HIDE DEF T
  <2>7. Nat \subseteq T
    BY <2>5, <2>6, NatSetInduction
  <2>8. c[n] = g[n]
    <3>1. n - 1 \in Nat /\ (n - 1) + 1 \in 1 .. n /\ (n - 1) + 1 = n
      BY <1>1, <1>3
    <3>. QED  BY <2>7, <3>1 DEF T
  <2>9. g[n] = s
    BY <1>1, <1>3 DEF g
  <2>10. FlattenSeq(q) = c[n]
    BY <1>1, <1>3 DEF FlattenSeq, c
  <2>. QED  BY <2>8, <2>9, <2>10 DEF q
<1>. QED  BY <1>2, <1>3

-----------------------------------------------------------------------------
(* What the loops over the sleep list find *)

\* Where alarm_sleep inserts: the search ends, and before the place it finds
\* every alarm is earlier.
LEMMA PositionFound ==
    ASSUME TypeOK, NEW t \in Threads
    PROVE  /\ Position(t) \in 1 .. Len(sleep_list) + 1
           /\ Position(t) <= Len(sleep_list) => twake[t] <= twake[sleep_list[Position(t)]]
           /\ \A j \in 1 .. Position(t) - 1 : twake[t] > twake[sleep_list[j]]
<1>. DEFINE n == Len(sleep_list)
            T == {i \in 1 .. n + 1 : i <= n => twake[t] <= twake[sleep_list[i]]}
            P(i) == /\ i <= n => twake[t] <= twake[sleep_list[i]]
                    /\ \A j \in 1 .. i - 1 : twake[t] > twake[sleep_list[j]]
<1>1. n \in Nat /\ \A i \in 1 .. n : twake[sleep_list[i]] \in Nat
  BY DEF TypeOK
<1>2. twake[t] \in Nat
  BY DEF TypeOK
<1>3. T \in SUBSET Nat /\ n + 1 \in T
  BY <1>1
<1>4. PICK i \in T : \A k \in T : i <= k
  BY <1>3, LeastNat
<1>5. \A j \in 1 .. i - 1 : twake[t] > twake[sleep_list[j]]
  BY <1>1, <1>2, <1>4
<1>6. i \in 1 .. n + 1 /\ P(i)
  BY <1>4, <1>5
<1>7. Position(t) = CHOOSE k \in 1 .. n + 1 : P(k)
  BY DEF Position
<1>. QED  BY <1>6, <1>7

\* How many alarms ring: the loop ends, and stops at the first one that is later.
LEMMA RingingFound ==
    ASSUME TypeOK
    PROVE  /\ Ringing \in 0 .. Len(sleep_list)
           /\ \A i \in 1 .. Ringing : twake[sleep_list[i]] <= mtime
           /\ Ringing < Len(sleep_list) => mtime < twake[sleep_list[Ringing + 1]]
<1>. DEFINE m == Len(sleep_list)
            T == {k \in 0 .. m : k < m => mtime < twake[sleep_list[k + 1]]}
            P(k) == /\ \A i \in 1 .. k : twake[sleep_list[i]] <= mtime
                    /\ k < m => mtime < twake[sleep_list[k + 1]]
<1>1. m \in Nat /\ \A i \in 1 .. m : twake[sleep_list[i]] \in Nat
  BY DEF TypeOK
<1>2. mtime \in Nat
  BY TimerAssumption DEF TypeOK
<1>3. T \in SUBSET Nat /\ m \in T
  BY <1>1
<1>4. PICK n \in T : \A k \in T : n <= k
  BY <1>3, LeastNat
<1>5. ASSUME NEW i \in 1 .. n PROVE twake[sleep_list[i]] <= mtime
  <2>1. i - 1 \in 0 .. m /\ i - 1 < m /\ (i - 1) + 1 = i /\ ~(n <= i - 1) /\ i \in 1 .. m
    BY <1>1, <1>4
  <2>2. ~(mtime < twake[sleep_list[(i - 1) + 1]])
    BY <1>4, <2>1
  <2>. QED  BY <1>1, <1>2, <2>1, <2>2
<1>6. n \in 0 .. m /\ P(n)
  BY <1>4, <1>5
<1>7. Ringing = CHOOSE k \in 0 .. m : P(k)
  BY DEF Ringing
<1>. QED  BY <1>6, <1>7

-----------------------------------------------------------------------------
(* The inductive invariant *)

\* A thread waits on its own alarm only.
OwnAlarm == \A t \in Threads : waiting[t] \in {<< >>, <<t>>}

\* The threads that sleep are those on the sleep list, and they neither run nor
\* are they ready; so no thread is in two lists, or twice in one.
Asleep ==
    /\ Distinct(sleep_list) /\ Distinct(ready)
    /\ ~On(running, ready)
    /\ \A t \in Threads : Sleeps(t) <=> On(t, sleep_list)
    /\ \A t \in Threads : Sleeps(t) => running # t /\ ~On(t, ready)

\* The list is in the order of the times to wake.
InOrder ==
    \A i, j \in 1 .. Len(sleep_list) : i <= j => twake[sleep_list[i]] <= twake[sleep_list[j]]

\* From the first tick on, an interrupt is pending or set for the next tick or
\* earlier; so an alarm that comes first but after that tick needs no interrupt of
\* its own.
TickArmed == next_tick > 0 => STIP \/ mtcmp <= next_tick

IInv == TypeOK /\ OwnAlarm /\ Asleep /\ InOrder /\ TickArmed /\ AlarmsArmed

LEMMA Basics ==
    ASSUME IInv
    PROVE  /\ SchedTypeOK /\ Conditions = Threads
           /\ sleep_list \in Seq(Threads) /\ Len(sleep_list) \in Nat
           /\ \A t \in Threads : twake[t] \in Nat
           /\ mtime \in Nat /\ mtcmp \in Nat /\ next_tick \in Nat
           /\ Nobody \notin Threads
           /\ \A i \in 1 .. Len(sleep_list) : sleep_list[i] \in Threads
<1>1. /\ MaxClock \in Nat /\ TICK_PERIOD \in Nat /\ UINT64_MAX \in Nat
      /\ Conditions = Threads /\ Nobody \notin Threads
  BY TimerAssumption
<1>2. SchedTypeOK /\ sleep_list \in Seq(Threads)
  BY DEF IInv, TypeOK, SchedTypeOK
<1>3. /\ \A t \in Threads : twake[t] \in Nat
      /\ mtime \in Nat /\ mtcmp \in Nat /\ next_tick \in Nat
  BY <1>1 DEF IInv, TypeOK
<1>. QED  BY <1>1, <1>2, <1>3

LEMMA InitIInv ==
    ASSUME Init
    PROVE  IInv
<1>1. ready \in Seq(Threads) /\ Distinct(ready)
  <2>1. Cardinality(Threads) \in Nat
    BY FS_CardinalityType, TimerAssumption
  <2>. QED  BY <2>1 DEF Init, Distinct
<1>2. /\ MaxClock \in Nat /\ TICK_PERIOD \in Nat /\ UINT64_MAX \in Nat
      /\ Conditions = Threads /\ TICK_PERIOD <= UINT64_MAX /\ Nobody \notin Threads
  BY TimerAssumption
<1>3. TypeOK
  <2>1. 0 \in 0 .. MaxClock /\ 0 \in 0 .. MaxClock + TICK_PERIOD
        /\ TICK_PERIOD \in 0 .. UINT64_MAX /\ 0 \in 0 .. UINT64_MAX
    BY <1>2
  <2>2. waiting \in [Conditions -> Seq(Threads)] /\ sleep_list \in Seq(Threads)
    BY DEF Init
  <2>. QED  BY <1>1, <2>1, <2>2 DEF Init, TypeOK
<1>4. ~On(running, ready)
  <2>1. \A i \in 1 .. Len(ready) : ready[i] \in Threads
    BY <1>1
  <2>. QED  BY <1>2, <2>1 DEF Init, On
<1>5. OwnAlarm /\ Asleep /\ InOrder /\ TickArmed /\ AlarmsArmed
  BY <1>1, <1>2, <1>4 DEF Init, OwnAlarm, Asleep, InOrder, TickArmed, AlarmsArmed, Sleeps, On, Distinct
<1>. QED  BY <1>3, <1>5 DEF IInv

-----------------------------------------------------------------------------
(* Steps that leave the list alone *)

LEMMA ClockIInv ==
    ASSUME IInv, Clock \/ MachineTimer
    PROVE  IInv'
<1>. USE DEF Clock, MachineTimer, sched
<1>1. TypeOK'
  <2>1. mtime' \in 0 .. MaxClock
    BY TimerAssumption DEF IInv, TypeOK
  <2>2. MTIE' \in BOOLEAN /\ STIP' \in BOOLEAN
    BY DEF IInv, TypeOK
  <2>. QED  BY <2>1, <2>2 DEF IInv, TypeOK
<1>2. (OwnAlarm /\ Asleep /\ InOrder)'
  BY DEF IInv, OwnAlarm, Asleep, InOrder, Sleeps
<1>3. (TickArmed /\ AlarmsArmed)'
  BY DEF IInv, TickArmed, AlarmsArmed, FirstAlarmArmed
<1>. QED  BY <1>1, <1>2, <1>3 DEF IInv

\* The alarm of the thread that runs is not on the list, so its time to wake may
\* change.
LEMMA SetAlarmIInv ==
    ASSUME IInv, NEW t \in Threads, alarm_reset(t) \/ \E tcnt \in Counts : Sleep(t, tcnt)
    PROVE  IInv'
<1>. USE Basics
<1>. USE DEF alarm_reset, Sleep, sched
<1>1. PICK v \in 0 .. UINT64_MAX : twake' = [twake EXCEPT ![t] = v]
  <2>1. CASE alarm_reset(t)
    <3>1. mtime \in 0 .. UINT64_MAX
      BY TimerAssumption DEF IInv, TypeOK
    <3>. QED  BY <2>1, <3>1
  <2>2. CASE \E tcnt \in Counts : Sleep(t, tcnt)
    <3>1. PICK tcnt \in Counts : Sleep(t, tcnt)
      BY <2>2
    <3>2. Later(twake[t], tcnt) \in 0 .. UINT64_MAX
      BY TimerAssumption DEF Later, IInv, TypeOK
    <3>. QED  BY <3>1, <3>2
  <2>. QED  BY <2>1, <2>2
<1>2. running = t /\ UNCHANGED <<running, ready, waiting, sleep_list, mtcmp, STIP, MTIE, next_tick, mtime>>
  OBVIOUS
<1>3. \A i \in 1 .. Len(sleep_list) : sleep_list[i] # t
  BY <1>2 DEF IInv, Asleep, On
<1>4. \A u \in Threads : u # t => twake'[u] = twake[u]
  BY <1>1 DEF IInv, TypeOK
<1>5. \A i \in 1 .. Len(sleep_list) : twake'[sleep_list[i]] = twake[sleep_list[i]]
  BY <1>3, <1>4
<1>6. TypeOK'
  <2>1. at' \in [Threads -> {"out", "sleep"}]
    BY DEF IInv, TypeOK
  <2>2. twake' \in [Threads -> 0 .. UINT64_MAX]
    BY <1>1 DEF IInv, TypeOK
  <2>. QED  BY <1>2, <2>1, <2>2 DEF IInv, TypeOK
<1>7. (OwnAlarm /\ Asleep /\ TickArmed)'
  BY <1>2 DEF IInv, OwnAlarm, Asleep, TickArmed, Sleeps
<1>8. InOrder'
  BY <1>2, <1>5 DEF IInv, InOrder
<1>9. AlarmsArmed'
  <2>1. sleep_list # << >> => twake'[Head(sleep_list)] = twake[Head(sleep_list)]
    <3>1. sleep_list # << >> => Head(sleep_list) = sleep_list[1] /\ 1 \in 1 .. Len(sleep_list)
      OBVIOUS
    <3>. QED  BY <1>5, <3>1
  <2>. QED  BY <1>2, <2>1 DEF IInv, AlarmsArmed, FirstAlarmArmed
<1>. QED  BY <1>6, <1>7, <1>8, <1>9 DEF IInv

LEMMA SwitchIInv ==
    ASSUME IInv, DispatchNext \/ \E t \in Threads : Yield(t)
    PROVE  IInv'
<1>. USE Basics
<1>. USE DEF DispatchNext, Yield
<1>1. SchedTypeOK' /\ UNCHANGED <<waiting, mtime, mtcmp, MTIE, STIP, next_tick, sleep_list, twake, at>>
  BY DispatchType, YieldType DEF Dispatch, YieldHart
<1>2. TypeOK'
  BY <1>1 DEF IInv, TypeOK, SchedTypeOK
<1>3. (OwnAlarm /\ InOrder /\ TickArmed /\ AlarmsArmed)'
  BY <1>1 DEF IInv, OwnAlarm, InOrder, TickArmed, AlarmsArmed, FirstAlarmArmed
<1>4. Distinct(ready') /\ ~On(running', ready')
      /\ \A t \in Threads : On(t, ready') \/ running' = t => On(t, ready) \/ running = t
  <2>0. ready \in Seq(Threads) /\ Distinct(ready) /\ ~On(running, ready)
    BY DEF IInv, Asleep, SchedTypeOK
  <2>1. CASE Dispatch
    <3>1. ready # << >> /\ running' = Head(ready) /\ ready' = Tail(ready)
      BY <2>1 DEF Dispatch
    <3>. QED  BY <2>0, <3>1, TailList
  <2>2. CASE running \in Threads /\ running' = Nobody /\ ready' = Append(ready, running)
    <3>1. Distinct(ready') /\ \A y : On(y, ready') <=> On(y, ready) \/ y = running
      BY <2>0, <2>2, AppendList
    <3>2. ~On(Nobody, ready)
      BY <2>0 DEF On
    <3>. QED  BY <2>2, <3>1, <3>2
  <2>3. CASE /\ running \in Threads /\ ready # << >> /\ running' = Head(ready)
             /\ ready' = Append(Tail(ready), running)
    <3>1. /\ Tail(ready) \in Seq(Threads) /\ Distinct(Tail(ready)) /\ ~On(Head(ready), Tail(ready))
          /\ \A y : On(y, ready) <=> On(y, Tail(ready)) \/ y = Head(ready)
      BY <2>0, <2>3, TailList
    <3>2. ~On(running, Tail(ready)) /\ running # Head(ready)
      BY <2>0, <3>1
    <3>3. Distinct(ready') /\ \A y : On(y, ready') <=> On(y, Tail(ready)) \/ y = running
      <4>. DEFINE r == Tail(ready)
      <4>. HIDE DEF r
      <4>1. r \in Seq(Threads) /\ Distinct(r) /\ ~On(running, r) /\ running \in Threads
        BY <2>3, <3>1, <3>2 DEF r
      <4>2. /\ Distinct(Append(r, running))
            /\ \A y : On(y, Append(r, running)) <=> On(y, r) \/ y = running
        BY <4>1, AppendList
      <4>. QED  BY <2>3, <4>2 DEF r
    <3>. QED  BY <2>3, <3>1, <3>2, <3>3
  <2>. QED  BY <2>1, <2>2, <2>3 DEF YieldHart, SchedTypeOK
<1>5. Asleep'
  BY <1>1, <1>4 DEF IInv, Asleep, Sleeps
<1>. QED  BY <1>2, <1>3, <1>5 DEF IInv

-----------------------------------------------------------------------------
(* alarm_sleep inserts the alarm and waits *)

LEMMA InsertIInv ==
    ASSUME IInv, NEW t \in Threads, InsertAndWait(t)
    PROVE  IInv'
<1>. USE Basics
<1>. DEFINE n == Len(sleep_list)
            p == Position(t)
<1>0. /\ running = t /\ Block(t) /\ running' = Nobody /\ ready' = ready
      /\ UNCHANGED <<mtime, next_tick, twake>>
      /\ at' = [at EXCEPT ![t] = "out"] /\ Rearm(t)
      /\ sleep_list' = SubSeq(sleep_list, 1, p - 1) \o <<t>> \o SubSeq(sleep_list, p, n)
  BY DEF InsertAndWait, Block
<1>1. /\ p \in 1 .. n + 1
      /\ p <= n => twake[t] <= twake[sleep_list[p]]
      /\ \A j \in 1 .. p - 1 : twake[t] > twake[sleep_list[j]]
  BY PositionFound DEF IInv
<1>2. /\ sleep_list' \in Seq(Threads) /\ Len(sleep_list') = n + 1
      /\ sleep_list' = Inserted(sleep_list, p, t)
      /\ \A i \in 1 .. n + 1 :
           sleep_list'[i] = IF i < p THEN sleep_list[i] ELSE IF i = p THEN t ELSE sleep_list[i - 1]
  <2>1. sleep_list' = Inserted(sleep_list, p, t)
    BY <1>0 DEF Inserted
  <2>. HIDE DEF p
  <2>2. /\ Inserted(sleep_list, p, t) \in Seq(Threads)
        /\ Len(Inserted(sleep_list, p, t)) = Len(sleep_list) + 1
        /\ \A i \in 1 .. Len(sleep_list) + 1 :
             Inserted(sleep_list, p, t)[i] =
                IF i < p THEN sleep_list[i] ELSE IF i = p THEN t ELSE sleep_list[i - 1]
    <3>1. sleep_list \in Seq(Threads) /\ p \in 1 .. Len(sleep_list) + 1
      BY <1>1
    <3>2. /\ Inserted(sleep_list, p, t) \in Seq(Threads)
          /\ IsInserted(Inserted(sleep_list, p, t), sleep_list, p, t)
      BY <3>1, InsertElements
    <3>. QED  BY <3>2 DEF IsInserted
  <2>. QED  BY <2>1, <2>2, Zenon
<1>. HIDE DEF p
<1>3. ~Sleeps(t) /\ ~On(t, ready) /\ ~On(t, sleep_list)
  BY <1>0 DEF IInv, Asleep
<1>4. /\ \A y : On(y, sleep_list') <=> On(y, sleep_list) \/ y = t
      /\ Distinct(sleep_list')
  <2>1. Distinct(sleep_list)
    BY DEF IInv, Asleep
  <2>2. /\ \A y : On(y, sleep_list') <=> On(y, sleep_list) \/ y = t
        /\ Distinct(sleep_list) /\ ~On(t, sleep_list) => Distinct(sleep_list')
    BY <1>1, <1>2, InsertList
  <2>. QED  BY <1>3, <2>1, <2>2
<1>5. /\ SchedTypeOK'
      /\ waiting'[t] = <<t>>
      /\ \A u \in Threads : u # t => waiting'[u] = waiting[u]
  <2>1. SchedTypeOK' /\ waiting'[t] = Append(waiting[t], t)
        /\ \A u \in Threads \ {t} : waiting'[u] = waiting[u]
    BY <1>0, BlockType
  <2>2. waiting[t] = << >>
    BY <1>3 DEF Sleeps
  <2>. QED  BY <2>1, <2>2
<1>6. TypeOK'
  <2>1. mtcmp' \in 0 .. UINT64_MAX /\ STIP' \in BOOLEAN /\ MTIE' \in BOOLEAN
    BY <1>0 DEF Rearm, IInv, TypeOK
  <2>2. at' \in [Threads -> {"out", "sleep"}]
    BY <1>0 DEF IInv, TypeOK
  <2>. QED  BY <1>0, <1>2, <1>5, <2>1, <2>2 DEF IInv, TypeOK, SchedTypeOK
<1>7. OwnAlarm'
  BY <1>5 DEF IInv, OwnAlarm
<1>8. Asleep'
  <2>1. Distinct(ready') /\ ~On(running', ready')
    <3>1. ~On(Nobody, ready)
      BY DEF SchedTypeOK, On
    <3>. QED  BY <1>0, <3>1 DEF IInv, Asleep
  <2>2. ASSUME NEW u \in Threads
        PROVE  /\ Sleeps(u)' <=> On(u, sleep_list')
               /\ Sleeps(u)' => running' # u /\ ~On(u, ready')
    <3>1. CASE u = t
      <4>1. Sleeps(u)'
        <5>1. <<t>> # << >>
          OBVIOUS
        <5>. QED  BY <1>5, <3>1, <5>1 DEF Sleeps
      <4>. QED  BY <1>0, <1>3, <1>4, <3>1, <4>1
    <3>2. CASE u # t
      BY <1>0, <1>4, <1>5, <3>2 DEF Sleeps, IInv, Asleep
    <3>. QED  BY <3>1, <3>2
  <2>. QED  BY <1>4, <2>1, <2>2 DEF Asleep
<1>9. InOrder'
  <2>. SUFFICES ASSUME NEW i \in 1 .. n + 1, NEW j \in 1 .. n + 1, i < j
                PROVE  twake[sleep_list'[i]] <= twake[sleep_list'[j]]
    <3>1. \A i \in 1 .. n + 1 : twake[sleep_list'[i]] \in Nat
      BY <1>2
    <3>2. ASSUME NEW i \in 1 .. n + 1, NEW j \in 1 .. n + 1, i <= j,
                 i < j => twake[sleep_list'[i]] <= twake[sleep_list'[j]]
          PROVE  twake[sleep_list'[i]] <= twake[sleep_list'[j]]
      <4>1. CASE i = j
        BY <3>1, <4>1
      <4>2. CASE i < j
        BY <3>2, <4>2
      <4>. QED  BY <3>2, <4>1, <4>2
    <3>. QED  BY <1>0, <1>2, <3>2 DEF InOrder
  <2>0. \A k, l \in 1 .. n : k <= l => twake[sleep_list[k]] <= twake[sleep_list[l]]
    BY DEF IInv, InOrder
  <2>1. CASE j < p
    <3>1. i \in 1 .. n /\ j \in 1 .. n /\ sleep_list'[i] = sleep_list[i]
          /\ sleep_list'[j] = sleep_list[j]
      BY <1>1, <1>2, <2>1
    <3>. QED  BY <2>0, <3>1
  <2>2. CASE j = p
    <3>1. i \in 1 .. p - 1 /\ i \in 1 .. n /\ sleep_list'[i] = sleep_list[i] /\ sleep_list'[j] = t
      BY <1>1, <1>2, <2>2
    <3>. QED  BY <1>1, <3>1
  <2>3. CASE j > p
    <3>1. j - 1 \in 1 .. n /\ sleep_list'[j] = sleep_list[j - 1]
      BY <1>1, <1>2, <2>3
    <3>2. CASE i < p
      <4>1. i \in 1 .. n /\ i <= j - 1 /\ sleep_list'[i] = sleep_list[i]
        BY <1>1, <1>2, <3>2
      <4>. QED  BY <2>0, <3>1, <4>1
    <3>3. CASE i = p
      <4>1. p \in 1 .. n /\ p <= j - 1 /\ sleep_list'[i] = t
        BY <1>1, <1>2, <2>3, <3>3
      <4>2. twake[sleep_list[p]] <= twake[sleep_list[j - 1]]
        BY <2>0, <3>1, <4>1
      <4>3. twake[t] <= twake[sleep_list[p]]
        BY <1>1, <4>1
      <4>4. /\ twake[t] \in Nat /\ twake[sleep_list[p]] \in Nat
            /\ twake[sleep_list[j - 1]] \in Nat
        BY <3>1, <4>1
      <4>. QED  BY <3>1, <4>1, <4>2, <4>3, <4>4
    <3>4. CASE i > p
      <4>1. i - 1 \in 1 .. n /\ i - 1 <= j - 1 /\ sleep_list'[i] = sleep_list[i - 1]
        BY <1>1, <1>2, <3>4
      <4>. QED  BY <2>0, <3>1, <4>1
    <3>. QED  BY <1>1, <3>2, <3>3, <3>4
  <2>. QED  BY <1>1, <2>1, <2>2, <2>3
<1>10. TickArmed' /\ AlarmsArmed'
  <2>1. /\ sleep_list' # << >> /\ Head(sleep_list') = sleep_list'[1]
        /\ p = 1 => sleep_list'[1] = t
        /\ p # 1 => /\ sleep_list'[1] = sleep_list[1]
                    /\ sleep_list # << >> /\ Head(sleep_list) = sleep_list[1]
    <3>1. sleep_list' # << >> /\ Head(sleep_list') = sleep_list'[1] /\ 1 \in 1 .. n + 1
      BY <1>2
    <3>2. p = 1 => sleep_list'[1] = t
      BY <1>2, <3>1
    <3>3. p # 1 => sleep_list'[1] = sleep_list[1] /\ n # 0
      BY <1>1, <1>2, <3>1
    <3>. QED  BY <3>1, <3>2, <3>3
  <2>2. CASE p = 1 /\ twake[t] < next_tick
    <3>1. mtcmp' = twake[t] /\ STIP' = FALSE /\ MTIE' = TRUE
      BY <1>0, <2>2 DEF Rearm, p
    <3>. QED  BY <1>0, <2>1, <2>2, <3>1 DEF TickArmed, AlarmsArmed, FirstAlarmArmed
  <2>3. CASE ~(p = 1 /\ twake[t] < next_tick)
    <3>1. UNCHANGED <<mtcmp, STIP, MTIE>>
      BY <1>0, <2>3 DEF Rearm, p
    <3>2. TickArmed'
      BY <1>0, <3>1 DEF IInv, TickArmed
    <3>3. (STIP \/ MTIE)'
      BY <3>1 DEF IInv, AlarmsArmed
    <3>4. ASSUME next_tick > 0, p = 1, ~STIP PROVE mtcmp <= twake[t]
      <4>1. mtcmp <= next_tick
        BY <3>4 DEF IInv, TickArmed
      <4>. QED  BY <2>3, <3>4, <4>1
    <3>5. ASSUME next_tick > 0, p # 1, ~STIP PROVE mtcmp <= twake[sleep_list[1]]
      BY <2>1, <3>5 DEF IInv, AlarmsArmed, FirstAlarmArmed
    <3>6. (next_tick > 0 => FirstAlarmArmed)'
      BY <1>0, <2>1, <3>1, <3>4, <3>5 DEF FirstAlarmArmed
    <3>. QED  BY <3>2, <3>3, <3>6 DEF AlarmsArmed
  <2>. QED  BY <2>2, <2>3
<1>. QED  BY <1>6, <1>7, <1>8, <1>9, <1>10 DEF IInv

-----------------------------------------------------------------------------
(* timer_intr_handler *)

\* The alarms that ring are the first of the list, all of them due; their threads
\* become ready in that order, and no other thread wakes.
LEMMA HandlerWakes ==
    ASSUME IInv, timer_intr_handler
    PROVE  /\ Rung \in Seq(Threads) /\ sleep_list' \in Seq(Threads)
           /\ ready' = ready \o Rung
           /\ \A t \in Threads : waiting'[t] = IF On(t, Rung) THEN << >> ELSE waiting[t]
           /\ waiting' \in [Conditions -> Seq(Threads)]
           /\ \A t \in Threads : On(t, Rung) => twake[t] <= mtime /\ Sleeps(t)
           /\ \A y : On(y, sleep_list) <=> On(y, Rung) \/ On(y, sleep_list')
           /\ \A y : ~(On(y, Rung) /\ On(y, sleep_list'))
           /\ Distinct(Rung) /\ Distinct(sleep_list')
           /\ Len(sleep_list') = Len(sleep_list) - Len(Rung) /\ Len(Rung) \in 0 .. Len(sleep_list)
           /\ \A i \in 1 .. Len(sleep_list') : sleep_list'[i] = sleep_list[Len(Rung) + i]
<1>. USE Basics
<1>. DEFINE k == Ringing
<1>1. k \in 0 .. Len(sleep_list) /\ \A i \in 1 .. k : twake[sleep_list[i]] <= mtime
  BY RingingFound DEF IInv
<1>. HIDE DEF k
<1>2. Rung = FirstOf(sleep_list, k)
  BY DEF Rung, k, FirstOf
<1>3. Rung \in Seq(Threads) /\ Len(Rung) = k /\ \A i \in 1 .. k : Rung[i] = sleep_list[i]
  BY <1>1, <1>2, CutList
<1>4. sleep_list' = RestOf(sleep_list, k)
  BY <1>3 DEF timer_intr_handler, RestOf
<1>5. /\ sleep_list' \in Seq(Threads) /\ Len(sleep_list') = Len(sleep_list) - k
      /\ \A i \in 1 .. Len(sleep_list) - k : sleep_list'[i] = sleep_list[k + i]
      /\ \A y : On(y, sleep_list) <=> On(y, Rung) \/ On(y, sleep_list')
      /\ Distinct(sleep_list) => /\ Distinct(Rung) /\ Distinct(sleep_list')
                                 /\ \A y : ~(On(y, Rung) /\ On(y, sleep_list'))
  BY <1>1, <1>2, <1>4, CutList
<1>6. Distinct(sleep_list)
  BY DEF IInv, Asleep
<1>7. \A t \in Threads : On(t, Rung) => twake[t] <= mtime /\ Sleeps(t)
  <2>1. \A t \in Threads : On(t, Rung) => twake[t] <= mtime
    BY <1>1, <1>3 DEF On
  <2>2. \A t \in Threads : On(t, Rung) => Sleeps(t)
    BY <1>5 DEF IInv, Asleep
  <2>. QED  BY <2>1, <2>2
<1>8. DOMAIN Rung = 1 .. Len(Rung) /\ \A i \in 1 .. Len(Rung) : Rung[i] \in Threads
  BY <1>3
<1>9. /\ \A t \in Threads : waiting'[t] = IF On(t, Rung) THEN << >> ELSE waiting[t]
      /\ waiting' \in [Conditions -> Seq(Threads)]
  <2>1. waiting' = [c \in Threads |-> IF On(c, Rung) THEN << >> ELSE waiting[c]]
    BY <1>8 DEF timer_intr_handler, On
  <2>2. waiting \in [Threads -> Seq(Threads)]
    BY DEF SchedTypeOK
  <2>3. << >> \in Seq(Threads)
    OBVIOUS
  <2>. QED  BY <2>1, <2>2, <2>3
<1>10. ready' = ready \o Rung
  <2>1. \A i \in DOMAIN Rung : waiting[Rung[i]] = <<Rung[i]>>
    <3>1. \A i \in DOMAIN Rung : Rung[i] \in Threads /\ On(Rung[i], Rung)
      BY <1>8 DEF On
    <3>. QED  BY <1>7, <3>1 DEF IInv, OwnAlarm, Sleeps
  <2>2. [i \in DOMAIN Rung |-> waiting[Rung[i]]] = [i \in DOMAIN Rung |-> <<Rung[i]>>]
    BY <2>1
  <2>3. FlattenSeq([i \in DOMAIN Rung |-> waiting[Rung[i]]]) = Rung
    BY <1>3, <2>2, FlattenSingletons
  <2>. QED  BY <2>3 DEF timer_intr_handler
<1>. QED  BY <1>1, <1>3, <1>5, <1>6, <1>7, <1>9, <1>10

LEMMA ShiftedIndex ==
    ASSUME NEW k \in Nat, NEW l \in 0 .. k, NEW a \in 1 .. k - l, NEW b \in 1 .. k - l, a <= b
    PROVE  l + a \in 1 .. k /\ l + b \in 1 .. k /\ l + a <= l + b
OBVIOUS

LEMMA HandlerIInv ==
    ASSUME IInv, timer_intr_handler
    PROVE  IInv'
<1>. USE Basics, HandlerWakes
<1>0. /\ UNCHANGED <<running, life, mtime, twake, at>>
      /\ next_tick' = NextTick /\ mtcmp' = NextInterrupt(sleep_list', next_tick')
      /\ STIP' = FALSE /\ MTIE' = TRUE
  BY DEF timer_intr_handler
<1>1. next_tick' \in 0 .. MaxClock + TICK_PERIOD /\ next_tick' \in 0 .. UINT64_MAX
  BY <1>0, TimerAssumption DEF NextTick, IInv, TypeOK
<1>2. /\ mtcmp' \in 0 .. UINT64_MAX /\ mtcmp' <= next_tick'
      /\ sleep_list' # << >> => mtcmp' <= twake[Head(sleep_list')]
  <2>1. sleep_list' # << >> => Head(sleep_list') \in Threads
    BY TailList
  <2>2. \A t \in Threads : twake[t] \in 0 .. UINT64_MAX
    BY DEF IInv, TypeOK
  <2>3. next_tick' \in Nat
    BY <1>1
  <2>4. ASSUME NEW l, NEW h \in 0 .. UINT64_MAX, l # << >> => twake[Head(l)] = h
        PROVE  /\ NextInterrupt(l, next_tick') \in {h, next_tick'}
               /\ NextInterrupt(l, next_tick') <= next_tick'
               /\ l # << >> => NextInterrupt(l, next_tick') <= h
    BY <2>3, <2>4 DEF NextInterrupt
  <2>5. PICK h \in 0 .. UINT64_MAX : sleep_list' # << >> => twake[Head(sleep_list')] = h
    BY <1>1, <2>1, <2>2
  <2>. QED  BY <1>0, <1>1, <2>4, <2>5
<1>3. /\ ready' \in Seq(Threads) /\ Distinct(ready')
      /\ \A y : On(y, ready') <=> On(y, ready) \/ On(y, Rung)
  <2>1. ready \in Seq(Threads) /\ Distinct(ready) /\ \A t \in Threads : ~(On(t, ready) /\ On(t, Rung))
    BY DEF SchedTypeOK, IInv, Asleep
  <2>2. /\ ready \o Rung \in Seq(Threads)
        /\ \A y : On(y, ready \o Rung) <=> On(y, ready) \/ On(y, Rung)
        /\ Distinct(ready) /\ Distinct(Rung) /\ (\A y \in Threads : ~(On(y, ready) /\ On(y, Rung)))
             => Distinct(ready \o Rung)
    BY <2>1, ConcatList, Zenon
  <2>. QED  BY <2>1, <2>2
<1>4. TypeOK'
  BY <1>0, <1>1, <1>2, <1>3 DEF IInv, TypeOK
<1>5. OwnAlarm'
  BY DEF IInv, OwnAlarm
<1>6. Asleep'
  <2>1. ~On(running', ready')
    <3>1. ~On(running, Rung)
      <4>1. \A i \in 1 .. Len(Rung) : Rung[i] \in Threads
        OBVIOUS
      <4>. QED  BY <4>1 DEF On, IInv, Asleep
    <3>. QED  BY <1>0, <1>3, <3>1 DEF IInv, Asleep
  <2>2. ASSUME NEW u \in Threads
        PROVE  /\ Sleeps(u)' <=> On(u, sleep_list')
               /\ Sleeps(u)' => running' # u /\ ~On(u, ready')
    BY <1>0, <1>3 DEF Sleeps, IInv, Asleep
  <2>. QED  BY <1>3, <2>1, <2>2 DEF Asleep
<1>7. InOrder'
  <2>. SUFFICES ASSUME NEW i \in 1 .. Len(sleep_list'), NEW j \in 1 .. Len(sleep_list'), i <= j
                PROVE  twake[sleep_list'[i]] <= twake[sleep_list'[j]]
    BY <1>0 DEF InOrder
  <2>1. /\ Len(Rung) + i \in 1 .. Len(sleep_list) /\ Len(Rung) + j \in 1 .. Len(sleep_list)
        /\ Len(Rung) + i <= Len(Rung) + j
    BY ShiftedIndex, Zenon
  <2>2. twake[sleep_list[Len(Rung) + i]] <= twake[sleep_list[Len(Rung) + j]]
    BY <2>1 DEF IInv, InOrder
  <2>. QED  BY <2>2
<1>8. TickArmed' /\ AlarmsArmed'
  BY <1>0, <1>2 DEF TickArmed, AlarmsArmed, FirstAlarmArmed
<1>. QED  BY <1>4, <1>5, <1>6, <1>7, <1>8 DEF IInv

-----------------------------------------------------------------------------
(* The theorems *)

LEMMA StutterIInv ==
    ASSUME IInv, UNCHANGED vars
    PROVE  IInv'
BY DEF IInv, vars, TypeOK, OwnAlarm, Asleep, InOrder, TickArmed, AlarmsArmed, FirstAlarmArmed,
       Sleeps

LEMMA NextIInv ==
    ASSUME IInv, [Next]_vars
    PROVE  IInv'
<1>1. CASE UNCHANGED vars
  BY <1>1, StutterIInv
<1>2. ASSUME NEW t \in Threads,
             \/ alarm_reset(t) \/ InsertAndWait(t) \/ Yield(t)
             \/ \E tcnt \in Counts : Sleep(t, tcnt)
      PROVE  IInv'
  BY <1>2, SetAlarmIInv, InsertIInv, SwitchIInv
<1>3. CASE DispatchNext \/ Clock \/ MachineTimer \/ timer_intr_handler
  BY <1>3, SwitchIInv, ClockIInv, HandlerIInv
<1>. QED  BY <1>1, <1>2, <1>3 DEF Next

\* IInv is an inductive invariant of the timer.
THEOREM Invariance == Spec => []IInv
<1>1. Init => IInv
  BY InitIInv
<1>2. IInv /\ [Next]_vars => IInv'
  BY NextIInv
<1>. QED  BY <1>1, <1>2, PTL DEF Spec

\* The type invariant of the timer: next_tick never runs ahead of the clock by
\* more than a tick.
THEOREM TypeCorrect == Spec => []TypeOK
BY Invariance, PTL DEF IInv

\* The alarms on the sleep list are those of the sleeping threads, each of them
\* once, in the order of their times.
THEOREM SleepListSafety == Spec => []SleepListMatches
<1>1. IInv => SleepListMatches
  <2>. SUFFICES ASSUME IInv PROVE SleepListMatches
    OBVIOUS
  <2>. DEFINE At(t) == {i \in DOMAIN sleep_list : sleep_list[i] = t}
  <2>0. DOMAIN sleep_list = 1 .. Len(sleep_list)
    BY Basics
  <2>1. ASSUME NEW t \in Threads, Sleeps(t) PROVE Cardinality(At(t)) = 1
    <3>1. PICK i \in 1 .. Len(sleep_list) : sleep_list[i] = t
      BY <2>1 DEF IInv, Asleep, On
    <3>2. At(t) = {i}
      BY <2>0, <3>1 DEF IInv, Asleep, Distinct
    <3>. QED  BY <3>2, FS_Singleton
  <2>2. ASSUME NEW t \in Threads, ~Sleeps(t) PROVE Cardinality(At(t)) = 0
    <3>1. At(t) = {}
      BY <2>0, <2>2 DEF IInv, Asleep, On
    <3>. QED  BY <3>1, FS_EmptySet
  <2>3. \A i, j \in DOMAIN sleep_list : i <= j => twake[sleep_list[i]] <= twake[sleep_list[j]]
    BY <2>0 DEF IInv, InOrder
  <2>. QED  BY <2>1, <2>2, <2>3 DEF SleepListMatches
<1>. QED  BY <1>1, Invariance, PTL

\* From the first tick on, the first alarm always has its interrupt; and the timer
\* is never stopped.
THEOREM AlarmSafety == Spec => []AlarmsArmed
BY Invariance, PTL DEF IInv

\* No thread wakes before its time: only timer_intr_handler ends a sleep, and only
\* of the alarms that are due.
THEOREM NoEarlyWakeup == Spec => NoEarlyWake
<1>1. ASSUME IInv, [Next]_vars, NEW t \in Threads, Sleeps(t), ~Sleeps(t)'
      PROVE  twake[t] <= mtime
  <2>1. CASE timer_intr_handler
    BY <1>1, <2>1, HandlerWakes DEF Sleeps
  <2>2. ASSUME NEW u \in Threads, InsertAndWait(u) PROVE FALSE
    <3>1. Block(u) /\ SchedTypeOK /\ u \in Conditions /\ t \in Conditions
      BY <1>1, <2>2, Basics DEF InsertAndWait
    <3>2. waiting'[u] = Append(waiting[u], running) /\ \A d \in Conditions \ {u} : waiting'[d] = waiting[d]
      BY <3>1, BlockType
    <3>3. waiting[u] \in Seq(Threads) /\ running \in Threads
      BY <3>1 DEF SchedTypeOK, Block
    <3>4. Append(waiting[u], running) # << >>
      BY <3>3
    <3>. QED  BY <1>1, <3>1, <3>2, <3>4 DEF Sleeps
  <2>3. ASSUME waiting' = waiting PROVE FALSE
    BY <1>1, <2>3 DEF Sleeps
  <2>4. ASSUME NEW u \in Threads,
               alarm_reset(u) \/ Yield(u) \/ \E tcnt \in Counts : Sleep(u, tcnt)
        PROVE  waiting' = waiting
    BY <2>4 DEF alarm_reset, Yield, Sleep, YieldHart, sched
  <2>5. ASSUME UNCHANGED vars \/ DispatchNext \/ Clock \/ MachineTimer
        PROVE  waiting' = waiting
    BY <2>5 DEF vars, DispatchNext, Dispatch, Clock, MachineTimer, sched
  <2>. QED  BY <1>1, <2>1, <2>2, <2>3, <2>4, <2>5 DEF Next
<1>2. IInv /\ [Next]_vars =>
        [\A t \in Threads : Sleeps(t) /\ ~Sleeps(t)' => twake[t] <= mtime]_vars
  BY <1>1
<1>. QED  BY <1>2, Invariance, PTL DEF Spec, NoEarlyWake
=============================================================================

-------------------------------- MODULE Timer -------------------------------
(***************************************************************************)
(* The timer, kern/timer.c, with the M-mode trap handler of kern/trapasm.s *)
(* that turns the machine timer into a supervisor interrupt.  Every thread *)
(* has one alarm; its condition is named like the thread.                  *)
(***************************************************************************)
EXTENDS Scheduler, FiniteSets, SequencesExt

CONSTANTS
    TICK_PERIOD,
    UINT64_MAX,   \* the largest time
    MaxClock,     \* bound: the clock stops here
    Counts        \* the values of tcnt that callers use

ASSUME TimerAssumption ==
    /\ TICK_PERIOD \in Nat \ {0}
    /\ MaxClock \in Nat /\ TICK_PERIOD < MaxClock
    /\ UINT64_MAX \in Nat /\ MaxClock + TICK_PERIOD < UINT64_MAX
    /\ Counts \subseteq 0 .. UINT64_MAX
    /\ Conditions = Threads
    /\ IsFiniteSet(Threads) /\ Nobody \notin Threads

VARIABLES
    mtime, mtcmp,  \* the machine timer
    MTIE,          \* machine timer interrupts are enabled
    STIP,          \* a supervisor timer interrupt is pending
    next_tick,
    sleep_list,    \* the threads whose alarms are set, in the list's order
    twake,         \* al->twake of every thread's alarm
    at             \* "out", or "sleep": in alarm_sleep before intr_disable

vars == <<running, ready, waiting, life,
          mtime, mtcmp, MTIE, STIP, next_tick, sleep_list, twake, at>>

\* The state that timer_init leaves; next_tick is a static variable, zero.
Init ==
    /\ running = Nobody
    /\ ready \in {s \in [1 .. Cardinality(Threads) -> Threads] :
                    \A i, j \in DOMAIN s : s[i] = s[j] => i = j}
    /\ waiting = [c \in Conditions |-> << >>]
    /\ life = [t \in Threads |-> "live"]
    /\ mtime = 0 /\ mtcmp = TICK_PERIOD
    /\ MTIE = TRUE /\ STIP = FALSE
    /\ next_tick = 0
    /\ sleep_list = << >>
    /\ twake = [t \in Threads |-> 0]
    /\ at = [t \in Threads |-> "out"]

\* alarm_init and alarm_reset.
alarm_reset(t) ==
    /\ running = t /\ at[t] = "out"
    /\ twake' = [twake EXCEPT ![t] = mtime]
    /\ UNCHANGED <<sched, mtime, mtcmp, MTIE, STIP, next_tick, sleep_list, at>>

\* time + tcnt, or the largest time.
Later(time, tcnt) == IF UINT64_MAX - time < tcnt THEN UINT64_MAX ELSE time + tcnt

\* alarm_sleep: it returns if the time to wake has passed.
Sleep(t, tcnt) ==
    /\ running = t /\ at[t] = "out"
    /\ twake' = [twake EXCEPT ![t] = Later(@, tcnt)]
    /\ at' = [at EXCEPT ![t] = IF twake'[t] < mtime THEN "out" ELSE "sleep"]
    /\ UNCHANGED <<sched, mtime, mtcmp, MTIE, STIP, next_tick, sleep_list>>

\* A mutant: alarm_sleep adds every alarm at the tail of the list.
Position_Tail(t) == Len(sleep_list) + 1

\* Where alarm_sleep puts the alarm: before the first one that is not earlier.
Position(t) ==
    CHOOSE i \in 1 .. Len(sleep_list) + 1 :
        /\ i <= Len(sleep_list) => twake[t] <= twake[sleep_list[i]]
        /\ \A j \in 1 .. i - 1 : twake[t] > twake[sleep_list[j]]

\* A mutant: the compare register is left alone.
Rearm_Not(t) == UNCHANGED <<mtcmp, STIP, MTIE>>

\* A new first alarm that comes before the next tick: mtcmp is set, and the
\* ecall sets MTIE and clears STIP, whether an interrupt was pending or not.
Rearm(t) ==
    IF Position(t) = 1 /\ twake[t] < next_tick
    THEN mtcmp' = twake[t] /\ STIP' = FALSE /\ MTIE' = TRUE
    ELSE UNCHANGED <<mtcmp, STIP, MTIE>>

\* A mutant: interrupts are on between the insertion and the wait.
InsertAndWait_Unmasked(t) ==
    /\ running = t
    /\ \/ /\ at[t] = "sleep"
          /\ sleep_list' = SubSeq(sleep_list, 1, Position(t) - 1) \o <<t>>
                             \o SubSeq(sleep_list, Position(t), Len(sleep_list))
          /\ at' = [at EXCEPT ![t] = "wait"]
          /\ Rearm(t)
          /\ UNCHANGED sched
       \/ /\ at[t] = "wait"
          /\ Block(t)
          /\ at' = [at EXCEPT ![t] = "out"]
          /\ UNCHANGED <<sleep_list, mtcmp, STIP, MTIE>>
    /\ UNCHANGED <<mtime, next_tick, twake>>

\* The rest of alarm_sleep, with interrupts off: insert the alarm, and wait.
InsertAndWait(t) ==
    /\ running = t /\ at[t] = "sleep"
    /\ sleep_list' = SubSeq(sleep_list, 1, Position(t) - 1) \o <<t>>
                       \o SubSeq(sleep_list, Position(t), Len(sleep_list))
    /\ Rearm(t)
    /\ Block(t)
    /\ at' = [at EXCEPT ![t] = "out"]
    /\ UNCHANGED <<mtime, next_tick, twake>>

Yield(t) ==
    /\ running = t /\ at[t] = "out"
    /\ YieldHart
    /\ UNCHANGED <<mtime, mtcmp, MTIE, STIP, next_tick, sleep_list, twake, at>>

DispatchNext ==
    /\ Dispatch
    /\ UNCHANGED <<mtime, mtcmp, MTIE, STIP, next_tick, sleep_list, twake, at>>

-----------------------------------------------------------------------------
(* The clock and the interrupt *)

Clock ==
    /\ mtime < MaxClock
    /\ mtime' = mtime + 1
    /\ UNCHANGED <<sched, mtcmp, MTIE, STIP, next_tick, sleep_list, twake, at>>

\* mmode_intr_handler.
MachineTimer ==
    /\ MTIE /\ mtcmp <= mtime
    /\ STIP' = TRUE /\ MTIE' = FALSE
    /\ UNCHANGED <<sched, mtime, mtcmp, next_tick, sleep_list, twake, at>>

\* How many alarms ring: the loop of timer_intr_handler stops at the first one
\* that is later.
Ringing ==
    CHOOSE n \in 0 .. Len(sleep_list) :
        /\ \A i \in 1 .. n : twake[sleep_list[i]] <= mtime
        /\ n < Len(sleep_list) => mtime < twake[sleep_list[n + 1]]

\* A mutant: the ring includes the first alarm that is later.
Rung_OneMore ==
    SubSeq(sleep_list, 1, IF Ringing < Len(sleep_list) THEN Ringing + 1 ELSE Ringing)

Rung == SubSeq(sleep_list, 1, Ringing)

NextInterrupt(list, tick) ==
    IF list # << >> /\ twake[Head(list)] < tick THEN twake[Head(list)] ELSE tick

\* A mutant: every interrupt counts as a tick.
NextTick_Always == next_tick + TICK_PERIOD

NextTick == IF next_tick < mtime THEN next_tick + TICK_PERIOD ELSE next_tick

\* timer_intr_handler: ring the alarms, count the tick, set mtcmp, and the ecall.
timer_intr_handler ==
    /\ STIP
    /\ ready' = ready \o FlattenSeq([i \in DOMAIN Rung |-> waiting[Rung[i]]])
    /\ waiting' = [c \in Conditions |->
                     IF \E i \in DOMAIN Rung : Rung[i] = c THEN << >> ELSE waiting[c]]
    /\ next_tick' = NextTick
    /\ sleep_list' = SubSeq(sleep_list, Len(Rung) + 1, Len(sleep_list))
    /\ mtcmp' = NextInterrupt(sleep_list', next_tick')
    /\ STIP' = FALSE /\ MTIE' = TRUE
    /\ UNCHANGED <<running, life, mtime, twake, at>>

Next ==
    \/ \E t \in Threads : \/ alarm_reset(t) \/ InsertAndWait(t) \/ Yield(t)
                          \/ \E tcnt \in Counts : Sleep(t, tcnt)
    \/ DispatchNext
    \/ Clock \/ MachineTimer \/ timer_intr_handler

\* The clock runs, interrupts are taken when they can be, and the hart runs
\* what is dispatched.
Fairness ==
    /\ WF_vars(Clock) /\ WF_vars(MachineTimer) /\ SF_vars(timer_intr_handler)
    /\ WF_vars(DispatchNext)
    /\ \A t \in Threads : WF_vars(InsertAndWait(t))

Spec == Init /\ [][Next]_vars
FairSpec == Spec /\ Fairness

-----------------------------------------------------------------------------
Sleeps(t) == waiting[t] # << >>

\* The type invariant of the timer.
TypeOK ==
    /\ running \in Threads \cup {Nobody}
    /\ ready \in Seq(Threads)
    /\ waiting \in [Conditions -> Seq(Threads)]
    /\ mtime \in 0 .. MaxClock
    /\ mtcmp \in 0 .. UINT64_MAX /\ next_tick \in 0 .. MaxClock + TICK_PERIOD
    /\ MTIE \in BOOLEAN /\ STIP \in BOOLEAN
    /\ sleep_list \in Seq(Threads)
    /\ twake \in [Threads -> 0 .. UINT64_MAX]
    /\ at \in [Threads -> {"out", "sleep"}]

\* A sleeping thread has its alarm on the list, once, and no other alarm is
\* there; the list is in the order of the times to wake.
SleepListMatches ==
    /\ \A t \in Threads :
         Cardinality({i \in DOMAIN sleep_list : sleep_list[i] = t})
           = IF Sleeps(t) THEN 1 ELSE 0
    /\ \A i, j \in DOMAIN sleep_list :
         i <= j => twake[sleep_list[i]] <= twake[sleep_list[j]]

\* The comment in alarm_sleep: "If current alarm occurs before next tick, update
\* mtcmp": the first alarm has an interrupt pending, or set for its time or
\* before.
FirstAlarmArmed ==
    sleep_list # << >> => STIP \/ mtcmp <= twake[Head(sleep_list)]

\* The same once the first tick has set next_tick; and never is the timer
\* stopped, though alarm_sleep may clear an interrupt that is pending.
AlarmsArmed == (next_tick > 0 => FirstAlarmArmed) /\ (STIP \/ MTIE)

\* No thread wakes before its time.
NoEarlyWake == [][\A t \in Threads : Sleeps(t) /\ ~Sleeps(t)' => twake[t] <= mtime]_vars

\* Every alarm whose time comes wakes its thread: no interrupt, no alarm and no
\* broadcast is lost.
AlarmRings == \A t \in Threads : Sleeps(t) /\ twake[t] <= MaxClock ~> ~Sleeps(t)
=============================================================================

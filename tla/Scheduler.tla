----------------------------- MODULE Scheduler ------------------------------
(***************************************************************************)
(* What kern/thread.c promises its callers: one thread runs at a time, it  *)
(* keeps the hart until it gives it up, threads are dispatched in the      *)
(* order in which they became ready, and a broadcast makes ready every     *)
(* thread that waited on the condition, in order.  The idle thread is not  *)
(* a thread here: while it runs, running is Nobody.                        *)
(*                                                                         *)
(* Thread implements this specification; the driver modules build on its   *)
(* actions.                                                                *)
(***************************************************************************)
EXTENDS Integers, Sequences

CONSTANTS
    Threads,    \* thread identifiers
    First,      \* the thread that starts the system
    Conditions  \* condition variables

Nobody == -1

VARIABLES
    running,    \* the thread that has the hart, or Nobody
    ready,      \* threads that are ready to run, first to be dispatched first
    waiting,    \* for every condition, the threads that wait on it, in order
    life        \* "free", "live" or "exited" for every thread

sched == <<running, ready, waiting, life>>

SchedInit ==
    /\ running = First
    /\ ready = << >>
    /\ waiting = [c \in Conditions |-> << >>]
    /\ life = [t \in Threads |-> IF t = First THEN "live" ELSE "free"]

\* The running thread waits on a condition.
Block(c) ==
    /\ running # Nobody
    /\ waiting' = [waiting EXCEPT ![c] = Append(@, running)]
    /\ running' = Nobody
    /\ UNCHANGED <<ready, life>>

\* Somebody, a thread or an ISR, broadcasts a condition.
Wake(c) ==
    /\ ready' = ready \o waiting[c]
    /\ waiting' = [waiting EXCEPT ![c] = << >>]
    /\ UNCHANGED <<running, life>>

\* The running thread goes to the end of the ready list; the idle thread may
\* get the hart before the next thread does.
YieldHart ==
    /\ running # Nobody
    /\ \/ /\ running' = Nobody
          /\ ready' = Append(ready, running)
       \/ /\ ready # << >>
          /\ running' = Head(ready)
          /\ ready' = Append(Tail(ready), running)
    /\ UNCHANGED <<waiting, life>>

\* The hart goes to the first ready thread.
Dispatch ==
    /\ running = Nobody
    /\ ready # << >>
    /\ running' = Head(ready)
    /\ ready' = Tail(ready)
    /\ UNCHANGED <<waiting, life>>

\* The running thread makes a new one ready.
Start(t) ==
    /\ running # Nobody
    /\ life[t] = "free"
    /\ life' = [life EXCEPT ![t] = "live"]
    /\ ready' = Append(ready, t)
    /\ UNCHANGED <<running, waiting>>

\* The running thread ends.
Finish ==
    /\ running # Nobody
    /\ life' = [life EXCEPT ![running] = "exited"]
    /\ running' = Nobody
    /\ UNCHANGED <<ready, waiting>>

\* The running thread frees the slot of one that has exited.
Reap(t) ==
    /\ running # Nobody
    /\ life[t] = "exited"
    /\ life' = [life EXCEPT ![t] = "free"]
    /\ UNCHANGED <<running, ready, waiting>>

SchedNext ==
    \/ \E c \in Conditions : Block(c) \/ Wake(c)
    \/ YieldHart \/ Dispatch \/ Finish
    \/ \E t \in Threads : Start(t) \/ Reap(t)

SchedSpec == SchedInit /\ [][SchedNext]_sched
=============================================================================

-------------------------- MODULE ThreadRefinement --------------------------
(***************************************************************************)
(* Thread implements Scheduler.  A thread counts as waiting from the       *)
(* moment condition_wait marks it, and as running from the moment          *)
(* suspend_self picks it; the idle thread is left out.                     *)
(***************************************************************************)
EXTENDS Thread

\* A list of threads without the idle thread, which is in it once at most.
WithoutIdle(s) ==
    IF IDLE_TID \notin Elems(s) THEN s
    ELSE LET k == CHOOSE i \in 1 .. Len(s) : s[i] = IDLE_TID
         IN  [i \in 1 .. Len(s) - 1 |-> IF i < k THEN s[i] ELSE s[i + 1]]

\* The thread that has the hart, or that suspend_self has given it to.
RunningThread ==
    LET owner == IF pc[tp] = "picked" THEN next_thread ELSE tp IN
    IF owner # IDLE_TID /\ state[owner] = "RUNNING" THEN owner ELSE NoThread

\* The wait list with the thread that is about to enter it.
WaitingThreads(c) ==
    IF pc[tp] = "wait" /\ wait_cond[tp] = c
    THEN Append(wait_list[c], tp)
    ELSE wait_list[c]

\* A slot of thrtab is free, in use, or held by a thread that has exited.
Lives ==
    [t \in TID \ {IDLE_TID} |-> CASE state[t] = "FREE" -> "free"
                                  [] state[t] = "EXITED" -> "exited"
                                  [] OTHER -> "live"]

S == INSTANCE Scheduler WITH
        Threads <- TID \ {IDLE_TID},
        First <- MAIN_TID,
        Conditions <- Conds,
        running <- RunningThread,
        ready <- WithoutIdle(ready_list),
        waiting <- [c \in Conds |-> WaitingThreads(c)],
        life <- Lives

\* thread.c keeps the promises of Scheduler: one running thread, first come
\* first served dispatch, broadcasts that lose nobody and reorder nobody.
ImplementsScheduler == S!SchedSpec
=============================================================================

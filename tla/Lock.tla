-------------------------------- MODULE Lock --------------------------------
(***************************************************************************)
(* The sleep lock of kern/lock.h and the threads that use it, kfs.c and    *)
(* vioblk.c: between acquire and release a client may wait for its device, *)
(* and so give up the hart.                                                *)
(***************************************************************************)
EXTENDS Scheduler, FiniteSets

CONSTANTS
    lock_cond,   \* lock.cond
    io_cond      \* a device's condition, broadcast by its ISR

UNLOCKED == -1

ASSUME LockAssumption ==
    /\ lock_cond # io_cond
    /\ Conditions = {lock_cond, io_cond}
    /\ IsFiniteSet(Threads)
    /\ UNLOCKED \notin Threads
    /\ Nobody \notin Threads

VARIABLES
    tid,     \* lock.tid
    where    \* where each client is

vars == <<running, ready, waiting, life, tid, where>>

\* "woken" is lock_acquire after condition_wait; "done" is the client after its
\* device has answered.
Places == {"out", "woken", "in", "done"}

Inside == {t \in Threads : where[t] \in {"in", "done"}}

Init ==
    /\ running = Nobody
    /\ ready \in {s \in [1 .. Cardinality(Threads) -> Threads] :
                    \A i, j \in DOMAIN s : s[i] = s[j] => i = j}
    /\ waiting = [c \in Conditions |-> << >>]
    /\ life = [t \in Threads |-> "live"]
    /\ tid = UNLOCKED
    /\ where = [t \in Threads |-> "out"]

\* lock_acquire: take the lock if it is free, wait if it is not.
Acquire(t) ==
    /\ running = t /\ where[t] = "out"
    /\ \/ /\ tid = UNLOCKED
          /\ tid' = t
          /\ where' = [where EXCEPT ![t] = "in"]
          /\ UNCHANGED sched
       \/ /\ tid # UNLOCKED
          /\ Block(lock_cond)
          /\ where' = [where EXCEPT ![t] = "woken"]
          /\ UNCHANGED tid

\* lock_acquire after condition_wait: the lock is taken without another look.
AcquireWoken(t) ==
    /\ running = t /\ where[t] = "woken"
    /\ tid' = t
    /\ where' = [where EXCEPT ![t] = "in"]
    /\ UNCHANGED sched

\* The client waits for its device with the lock held.
WaitForDevice(t) ==
    /\ running = t /\ where[t] = "in"
    /\ Block(io_cond)
    /\ where' = [where EXCEPT ![t] = "done"]
    /\ UNCHANGED tid

\* The device's ISR.
DeviceIsr ==
    /\ waiting[io_cond] # << >>
    /\ Wake(io_cond)
    /\ UNCHANGED <<tid, where>>

\* A mutant: the lock is freed and nobody is told.
Release_NoBroadcast(t) ==
    /\ running = t /\ where[t] \in {"in", "done"}
    /\ tid' = UNLOCKED
    /\ where' = [where EXCEPT ![t] = "out"]
    /\ UNCHANGED sched

\* A mutant: the waiters are woken, and lock.tid is left as it was.
Release_Keeps(t) ==
    /\ running = t /\ where[t] \in {"in", "done"}
    /\ Wake(lock_cond)
    /\ where' = [where EXCEPT ![t] = "out"]
    /\ UNCHANGED tid

\* A mutant: zero, the main thread's identifier, stands for a free lock.
Release_Zero(t) ==
    /\ running = t /\ where[t] \in {"in", "done"}
    /\ tid' = 0
    /\ Wake(lock_cond)
    /\ where' = [where EXCEPT ![t] = "out"]

\* lock_release: free the lock, whoever owns it, and wake every waiter.
Release(t) ==
    /\ running = t /\ where[t] \in {"in", "done"}
    /\ tid' = UNLOCKED
    /\ Wake(lock_cond)
    /\ where' = [where EXCEPT ![t] = "out"]

\* The client returns to user mode and is preempted.
Preempt(t) ==
    /\ running = t /\ where[t] = "out"
    /\ YieldHart
    /\ UNCHANGED <<tid, where>>

DispatchNext == Dispatch /\ UNCHANGED <<tid, where>>

Next ==
    \/ \E t \in Threads : \/ Acquire(t) \/ AcquireWoken(t) \/ WaitForDevice(t)
                          \/ Release(t) \/ Preempt(t)
    \/ DeviceIsr
    \/ DispatchNext

\* The hart runs what is dispatched, devices answer, and a client that holds
\* the lock releases it.
Fairness ==
    /\ WF_vars(DispatchNext) /\ WF_vars(DeviceIsr)
    /\ \A t \in Threads : WF_vars(AcquireWoken(t)) /\ WF_vars(Release(t))

Spec == Init /\ [][Next]_vars
FairSpec == Spec /\ Fairness

-----------------------------------------------------------------------------
\* The type invariant of the lock and its clients.
TypeOK ==
    /\ running \in Threads \cup {Nobody}
    /\ ready \in Seq(Threads)
    /\ waiting \in [Conditions -> Seq(Threads)]
    /\ life \in [Threads -> {"free", "live", "exited"}]
    /\ tid \in Threads \cup {UNLOCKED}
    /\ where \in [Threads -> Places]

\* lock_release wakes everybody it should: no thread sleeps on a free lock.
NoSleeperOnFreeLock == tid = UNLOCKED => waiting[lock_cond] = << >>

\* lock.tid is never stale: the thread it names is between lock_acquire and
\* lock_release, so whoever waits is waiting for somebody.
OwnerIsInside == tid # UNLOCKED => tid \in Inside

\* If no client keeps the hart for ever, every thread that waits in
\* lock_acquire gets the lock: no broadcast is lost, nobody is overtaken for
\* ever.
WaiterGetsLock ==
    (\A u \in Threads : []<>(running # u)) =>
        \A t \in Threads : where[t] = "woken" ~> where[t] = "in"

\* lock.h says of lock_acquire: "If the lock is being used, we have to use
\* condition_wait to wait until the lock's current condition has been met.
\* After it has been, we can now use this lock for the current thread."
MutualExclusion == Cardinality(Inside) <= 1
=============================================================================

----------------------------- MODULE LockProofs -----------------------------
(***************************************************************************)
(* Proofs about Lock, for any number of clients: lock_release leaves no    *)
(* sleeper behind, and lock.tid names a thread that has the lock.  Neither *)
(* needs more than the types: the two invariants hold step by step although *)
(* mutual exclusion does not.                                              *)
(***************************************************************************)
EXTENDS Lock, SchedulerProofs, FiniteSetTheorems

IInv == TypeOK /\ NoSleeperOnFreeLock /\ OwnerIsInside

LEMMA InitIInv == Init => IInv
<1>. SUFFICES ASSUME Init PROVE IInv
  OBVIOUS
<1>1. Cardinality(Threads) \in Nat
  BY LockAssumption, FS_CardinalityType
<1>2. ready \in Seq(Threads)
  BY <1>1 DEF Init
<1>. QED  BY <1>2, LockAssumption DEF Init, IInv, TypeOK, Places, NoSleeperOnFreeLock, OwnerIsInside

\* What TypeOK says of the scheduler, and the rest of it.
LEMMA TypeParts ==
    TypeOK <=> /\ SchedTypeOK
               /\ life \in [Threads -> {"free", "live", "exited"}]
               /\ tid \in Threads \cup {UNLOCKED}
               /\ where \in [Threads -> Places]
BY DEF TypeOK, SchedTypeOK

LEMMA NextIInv == IInv /\ [Next]_vars => IInv'
<1>. SUFFICES ASSUME IInv, [Next]_vars PROVE IInv'
  OBVIOUS
<1>0. SchedTypeOK /\ lock_cond \in Conditions /\ io_cond \in Conditions
  BY LockAssumption, TypeParts DEF IInv
<1>1. ASSUME NEW t \in Threads, Acquire(t) PROVE IInv'
  <2>1. CASE tid = UNLOCKED /\ tid' = t /\ UNCHANGED sched
    BY <1>1, <2>1 DEF Acquire, sched, IInv, TypeOK, Places, NoSleeperOnFreeLock,
                      OwnerIsInside, Inside
  <2>2. CASE tid # UNLOCKED /\ Block(lock_cond) /\ UNCHANGED tid
    <3>1. SchedTypeOK' /\ UNCHANGED life
      BY <1>0, <2>2, BlockType DEF Block
    <3>2. where' = [where EXCEPT ![t] = "woken"] /\ where[t] = "out"
      BY <1>1, <2>2 DEF Acquire
    <3>3. TypeOK'
      BY <2>2, <3>1, <3>2 DEF IInv, TypeOK, SchedTypeOK, Places
    <3>. QED  BY <2>2, <3>2, <3>3 DEF IInv, TypeOK, NoSleeperOnFreeLock, OwnerIsInside, Inside
  <2>. QED  BY <1>1, <2>1, <2>2 DEF Acquire
<1>2. ASSUME NEW t \in Threads, AcquireWoken(t) PROVE IInv'
  BY <1>2, LockAssumption DEF AcquireWoken, sched, IInv, TypeOK, Places,
                              NoSleeperOnFreeLock, OwnerIsInside, Inside
<1>3. ASSUME NEW t \in Threads, WaitForDevice(t) PROVE IInv'
  <2>1. SchedTypeOK' /\ UNCHANGED life /\ waiting'[lock_cond] = waiting[lock_cond]
    BY <1>0, <1>3, BlockType, LockAssumption DEF WaitForDevice, Block
  <2>. QED  BY <1>3, <2>1 DEF WaitForDevice, IInv, TypeOK, SchedTypeOK, Places,
                              NoSleeperOnFreeLock, OwnerIsInside, Inside
<1>4. ASSUME NEW t \in Threads, Release(t) PROVE IInv'
  <2>1. SchedTypeOK' /\ UNCHANGED life /\ waiting'[lock_cond] = << >>
    BY <1>0, <1>4, WakeType DEF Release, Wake
  <2>. QED  BY <1>4, <2>1 DEF Release, IInv, TypeOK, SchedTypeOK, Places,
                              NoSleeperOnFreeLock, OwnerIsInside, Inside
<1>5. ASSUME NEW t \in Threads, Preempt(t) PROVE IInv'
  <2>1. SchedTypeOK' /\ UNCHANGED <<waiting, life>>
    BY <1>0, <1>5, YieldType DEF Preempt, YieldHart
  <2>. QED  BY <1>5, <2>1 DEF Preempt, IInv, TypeOK, SchedTypeOK, NoSleeperOnFreeLock,
                              OwnerIsInside, Inside
<1>6. CASE DeviceIsr
  <2>1. SchedTypeOK' /\ UNCHANGED life /\ waiting'[lock_cond] = waiting[lock_cond]
    BY <1>0, <1>6, WakeType, LockAssumption DEF DeviceIsr, Wake
  <2>. QED  BY <1>6, <2>1 DEF DeviceIsr, IInv, TypeOK, SchedTypeOK, NoSleeperOnFreeLock,
                              OwnerIsInside, Inside
<1>7. CASE DispatchNext
  <2>1. SchedTypeOK' /\ UNCHANGED <<waiting, life>>
    BY <1>0, <1>7, DispatchType DEF DispatchNext, Dispatch
  <2>. QED  BY <1>7, <2>1 DEF DispatchNext, IInv, TypeOK, SchedTypeOK, NoSleeperOnFreeLock,
                              OwnerIsInside, Inside
<1>8. CASE UNCHANGED vars
  BY <1>8 DEF vars, IInv, TypeOK, NoSleeperOnFreeLock, OwnerIsInside, Inside
<1>. QED  BY <1>1, <1>2, <1>3, <1>4, <1>5, <1>6, <1>7, <1>8 DEF Next

LEMMA Invariance == Spec => []IInv
  BY InitIInv, NextIInv, PTL DEF Spec

\* Type correctness of the lock and its clients, for any set of threads.
THEOREM TypeCorrect == Spec => []TypeOK
  BY Invariance, PTL DEF IInv

\* lock_release wakes everybody it should: whatever the order of the clients, no
\* thread sleeps on a free lock.
THEOREM ReleaseSafety == Spec => []NoSleeperOnFreeLock
  BY Invariance, PTL DEF IInv

\* Whoever waits in lock_acquire waits for a thread that is on its way to
\* lock_release, though a woken waiter takes the lock without another look.
THEOREM OwnerSafety == Spec => []OwnerIsInside
  BY Invariance, PTL DEF IInv
=============================================================================

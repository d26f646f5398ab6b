------------------------------- MODULE Thread -------------------------------
(***************************************************************************)
(* The thread manager, kern/thread.c with kern/thrasm.s: one hart, kernel  *)
(* code that is never preempted, interrupt service routines that run       *)
(* between two instructions whenever sstatus.SIE is set (or the hart is in *)
(* U mode), and user code that is preempted by every interrupt.            *)
(*                                                                         *)
(* A thread is its slot of thrtab.  thread_list objects are sequences of   *)
(* slots; the condition child_exit of thread t is named t itself.  Every   *)
(* step is the code between two points at which an interrupt can be taken  *)
(* and its outcome can matter.  A failed assert or a call of panic halts.  *)
(***************************************************************************)
EXTENDS Integers, Sequences, FiniteSets

CONSTANTS
    NTHR,       \* size of thrtab (16 in the code)
    NPAGES,     \* physical pages left for thread stacks
    IrqConds,   \* conditions that drivers wait on and ISRs broadcast
    LockConds   \* conditions inside sleep locks: only threads broadcast them

TID == 0 .. NTHR - 1
MAIN_TID == 0
IDLE_TID == NTHR - 1
NoThread == -1
NoCond == -1
Conds == TID \cup IrqConds \cup LockConds

ASSUME NTHRAssumption == NTHR \in Nat /\ NTHR >= 2
ASSUME NPAGESAssumption == NPAGES \in Nat
ASSUME CondsAssumption ==
    /\ IrqConds \cap LockConds = {}
    /\ (IrqConds \cup LockConds) \cap (TID \cup {NoCond}) = {}

VARIABLES
    state,       \* thread.state, "FREE" when thrtab[tid] is NULL
    parent,      \* thread.parent
    wait_cond,   \* thread.wait_cond
    ready_list,
    wait_list,   \* condition.wait_list
    tp,          \* CURTHR: whose registers are in the hart
    pc,          \* what each thread executes when it has the hart
    ret,         \* where suspend_self returns to
    arg,         \* tid local of thread_spawn and thread_join
    next_thread, \* local of suspend_self
    a0,          \* the register _thread_swtch returns its result in
    SIE,         \* sstatus.SIE
    saved,       \* saved_intr_state local of suspend_self
    pending,     \* interrupts raised and not yet taken
    free_pages,  \* length of the page free list
    halted       \* "no", "success", or what panic was called with

vars == <<state, parent, wait_cond, ready_list, wait_list, tp, pc, ret, arg,
          next_thread, a0, SIE, saved, pending, free_pages, halted>>

States == {"FREE", "WAITING", "RUNNING", "READY", "EXITED"}

\* Where suspend_self can return to; "restore" is a driver's intr_restore, then
\* "run".
Returns == {"run", "restore", "user", "join", "join_any", "exited", "idle"}
PCs == Returns \cup {"none", "raw", "setup", "wait", "exit", "suspend",
                     "picked", "swtched", "idle_empty", "wfi"}

\* What a failed assert says; these panics are bugs of the thread manager.
Asserts == {"ready_list empty", "next not READY", "waiter not WAITING",
            "waiter of another condition", "caller not RUNNING",
            "spurious child_exit signal", "thread_exit failed"}
\* Panics that a caller of the thread manager provokes.
Panics == {"Too many threads", "No free pages available", "childless"}

-----------------------------------------------------------------------------
Elems(s) == {s[i] : i \in 1 .. Len(s)}
Distinct(s) == \A i, j \in 1 .. Len(s) : s[i] = s[j] => i = j

\* A mutant: the list is used as a stack.
tlinsert_Front(list, thr) == <<thr>> \o list

\* thread_list operations; tlremove is Head and Tail.
tlinsert(list, thr) == Append(list, thr)
tlappend(l0, l1) == l0 \o l1

At(p) == halted = "no" /\ pc[tp] = p

\* panic() and a failed assert stop the machine.
Halt(why) ==
    /\ halted' = why
    /\ UNCHANGED <<state, parent, wait_cond, ready_list, wait_list, tp, pc, ret,
                   arg, next_thread, a0, SIE, saved, pending, free_pages>>

\* The threads that thread_join_any may reap, lowest slot first.
Children(p) == {t \in 1 .. NTHR - 1 : state[t] # "FREE" /\ parent[t] = p}
ExitedChildren(p) == {t \in Children(p) : state[t] = "EXITED"}

\* A mutant: the search of thread_spawn runs one slot too far.
FreeSlots_OffByOne == {t \in 1 .. NTHR : t = NTHR \/ state[t] = "FREE"}

FreeSlots == {t \in 1 .. NTHR - 1 : state[t] = "FREE"}
Lowest(S) == {t \in S : \A u \in S : t <= u}

Init ==
    /\ state = [t \in TID |-> CASE t = MAIN_TID -> "RUNNING"
                                [] t = IDLE_TID -> "READY"
                                [] OTHER -> "FREE"]
    /\ parent = [t \in TID |-> IF t = IDLE_TID THEN MAIN_TID ELSE NoThread]
    /\ wait_cond = [t \in TID |-> NoCond]
    /\ ready_list = <<IDLE_TID>>
    /\ wait_list = [c \in Conds |-> << >>]
    /\ tp = MAIN_TID
    /\ pc = [t \in TID |-> CASE t = MAIN_TID -> "run"
                             [] t = IDLE_TID -> "idle"
                             [] OTHER -> "none"]
    /\ ret = [t \in TID |-> "run"]
    /\ arg = [t \in TID |-> NoThread]
    /\ next_thread = NoThread
    /\ a0 = NoThread
    /\ SIE = TRUE
    /\ saved = [t \in TID |-> TRUE]
    /\ pending = {}
    /\ free_pages = NPAGES
    /\ halted = "no"

-----------------------------------------------------------------------------
(* Condition variables *)

\* condition_wait up to the store of wait_cond: the caller is WAITING and not
\* yet in the list.
BeginWait(c, r) ==
    IF state[tp] # "RUNNING"
    THEN Halt("caller not RUNNING")
    ELSE /\ state' = [state EXCEPT ![tp] = "WAITING"]
         /\ wait_cond' = [wait_cond EXCEPT ![tp] = c]
         /\ pc' = [pc EXCEPT ![tp] = "wait"]
         /\ ret' = [ret EXCEPT ![tp] = r]
         /\ UNCHANGED <<parent, ready_list, wait_list, tp, arg, next_thread, a0,
                        saved, pending, free_pages, halted>>

\* A driver waits for its ISR, with interrupts off since before it looked at
\* the device: uart_read, uart_write, vioblk_read, vioblk_write, alarm_sleep.
\* After the wait it restores what SIE was.
WaitForIrq(c) ==
    /\ At("run")
    /\ BeginWait(c, IF SIE THEN "restore" ELSE "run")
    /\ SIE' = IF halted' = "no" THEN FALSE ELSE SIE

\* lock_acquire finds the lock taken.
WaitForLock(c) ==
    /\ At("run")
    /\ BeginWait(c, "run")
    /\ UNCHANGED SIE

\* condition_wait: the caller enters the list with interrupts off.
EnterWaitList ==
    /\ At("wait")
    /\ wait_list' = [wait_list EXCEPT ![wait_cond[tp]] = tlinsert(@, tp)]
    /\ pc' = [pc EXCEPT ![tp] = "suspend"]
    /\ UNCHANGED <<state, parent, wait_cond, ready_list, tp, ret, arg,
                   next_thread, a0, SIE, saved, pending, free_pages, halted>>

\* condition_broadcast's asserts on the threads it finds.
BroadcastFault(c) ==
    IF \E t \in Elems(wait_list[c]) : state[t] # "WAITING"
    THEN "waiter not WAITING"
    ELSE IF \E t \in Elems(wait_list[c]) : wait_cond[t] # c
         THEN "waiter of another condition"
         ELSE "no"

\* condition_broadcast: every waiter becomes READY, in order, behind the
\* threads that are ready already.
Broadcast(c) ==
    LET woken == Elems(wait_list[c]) IN
    /\ state' = [t \in TID |-> IF t \in woken THEN "READY" ELSE state[t]]
    /\ wait_cond' = [t \in TID |-> IF t \in woken THEN NoCond ELSE wait_cond[t]]
    /\ ready_list' = tlappend(ready_list, wait_list[c])
    /\ wait_list' = [wait_list EXCEPT ![c] = << >>]

\* lock_release wakes the waiters of the lock.
SignalLock(c) ==
    /\ At("run")
    /\ IF BroadcastFault(c) # "no"
       THEN Halt(BroadcastFault(c))
       ELSE /\ Broadcast(c)
            /\ UNCHANGED <<parent, tp, pc, ret, arg, next_thread, a0, SIE, saved,
                           pending, free_pages, halted>>

-----------------------------------------------------------------------------
(* Context switch: suspend_self and _thread_swtch *)

\* Mutants: the test of the caller's state is lost, one way or the other.
StillRunning_Always(next) == TRUE
StillRunning_Never(next) == FALSE

\* Is the caller RUNNING once next has been marked?  Not if it waits or exits.
StillRunning(next) == next = tp \/ state[tp] = "RUNNING"

\* From the entry of suspend_self to intr_enable: the head of the ready list
\* becomes RUNNING, and the caller READY at its tail if it is still RUNNING.
PickNext ==
    /\ At("suspend")
    /\ IF ready_list = << >>
       THEN Halt("ready_list empty")
       ELSE LET next == Head(ready_list) IN
            IF state[next] # "READY"
            THEN Halt("next not READY")
            ELSE /\ next_thread' = next
                 /\ state' = [t \in TID |->
                               IF t = tp /\ StillRunning(next) THEN "READY"
                               ELSE IF t = next THEN "RUNNING"
                               ELSE state[t]]
                 /\ ready_list' = IF StillRunning(next)
                                  THEN tlinsert(Tail(ready_list), tp)
                                  ELSE Tail(ready_list)
                 /\ saved' = [saved EXCEPT ![tp] = SIE]
                 /\ SIE' = TRUE
                 /\ pc' = [pc EXCEPT ![tp] = "picked"]
                 /\ UNCHANGED <<parent, wait_cond, wait_list, tp, ret, arg, a0,
                                pending, free_pages, halted>>

\* _thread_swtch: the registers of next_thread replace those of the caller.
\* a0 still holds the argument when the resumed thread returns.
Swtch ==
    /\ At("picked")
    /\ tp' = next_thread
    /\ a0' = next_thread
    /\ next_thread' = NoThread
    /\ pc' = [pc EXCEPT ![tp] = "swtched"]
    /\ UNCHANGED <<state, parent, wait_cond, ready_list, wait_list, ret, arg, SIE,
                   saved, pending, free_pages, halted>>

\* suspend_self after _thread_swtch: the stack of an EXITED predecessor goes
\* back to the page pool, SIE is restored, and the caller continues; the only
\* caller that does not expect to is thread_exit.  A driver comes back with
\* interrupts off, so that its own intr_restore belongs to the same step.  The
\* locals that are not used again are forgotten.
Resume ==
    /\ At("swtched")
    /\ IF ret[tp] = "exited"
       THEN Halt("thread_exit failed")
       ELSE /\ free_pages' = IF state[a0] = "EXITED" THEN free_pages + 1
                             ELSE free_pages
            /\ SIE' = (saved[tp] \/ ret[tp] = "restore")
            /\ pc' = [pc EXCEPT ![tp] = IF ret[tp] = "restore" THEN "run" ELSE ret[tp]]
            /\ ret' = [ret EXCEPT ![tp] = pc'[tp]]
            /\ saved' = [saved EXCEPT ![tp] = TRUE]
            /\ UNCHANGED <<state, parent, wait_cond, ready_list, wait_list, tp, arg,
                           next_thread, a0, pending, halted>>

\* thread_yield, called where pc[tp] = p and returning there.
YieldAt(p) ==
    /\ At(p)
    /\ IF state[tp] # "RUNNING"
       THEN Halt("caller not RUNNING")
       ELSE /\ pc' = [pc EXCEPT ![tp] = "suspend"]
            /\ ret' = [ret EXCEPT ![tp] = p]
            /\ UNCHANGED <<state, parent, wait_cond, ready_list, wait_list, tp, arg,
                           next_thread, a0, SIE, saved, pending, free_pages, halted>>

Yield == YieldAt("run")

-----------------------------------------------------------------------------
(* Life and death of threads *)

\* thread_spawn up to the insertion in ready_list.  The struct comes from
\* kmalloc, whose memory is zero, so child_exit starts with no waiters.
Spawn ==
    /\ At("run")
    /\ IF FreeSlots = {}
       THEN Halt("Too many threads")
       ELSE IF free_pages = 0
       THEN Halt("No free pages available")
       ELSE \E tid \in Lowest(FreeSlots) :
            /\ free_pages' = free_pages - 1
            /\ parent' = [parent EXCEPT ![tid] = tp]
            /\ state' = [state EXCEPT ![tid] = "READY"]
            /\ wait_cond' = [wait_cond EXCEPT ![tid] = NoCond]
            /\ ready_list' = tlinsert(ready_list, tid)
            /\ arg' = [arg EXCEPT ![tp] = tid]
            /\ pc' = [pc EXCEPT ![tp] = "setup", ![tid] = "raw"]
            /\ UNCHANGED <<wait_list, tp, ret, next_thread, a0, SIE, saved,
                           pending, halted>>

\* _thread_setup writes the context that _thread_swtch will load.
Setup ==
    /\ At("setup")
    /\ pc' = [pc EXCEPT ![tp] = "run", ![arg[tp]] = "run"]
    /\ arg' = [arg EXCEPT ![tp] = NoThread]
    /\ UNCHANGED <<state, parent, wait_cond, ready_list, wait_list, tp, ret,
                   next_thread, a0, SIE, saved, pending, free_pages, halted>>

\* A mutant: the exiting thread forgets to mark itself EXITED.
Exit_StaysRunning ==
    /\ At("run")
    /\ tp # MAIN_TID
    /\ pc' = [pc EXCEPT ![tp] = "exit"]
    /\ UNCHANGED <<state, parent, wait_cond, ready_list, wait_list, tp, ret, arg,
                   next_thread, a0, SIE, saved, pending, free_pages, halted>>

\* thread_exit of the main thread ends the run; another thread turns EXITED.
Exit ==
    /\ At("run")
    /\ IF tp = MAIN_TID
       THEN Halt("success")
       ELSE /\ state' = [state EXCEPT ![tp] = "EXITED"]
            /\ pc' = [pc EXCEPT ![tp] = "exit"]
            /\ UNCHANGED <<parent, wait_cond, ready_list, wait_list, tp, ret, arg,
                           next_thread, a0, SIE, saved, pending, free_pages, halted>>

\* A mutant: the exiting thread signals its own child_exit.
ExitCond_Own == tp

\* The condition that thread_exit broadcasts: CURTHR->parent->child_exit.
ExitCond == parent[tp]

\* thread_exit: the parent's child_exit is broadcast before the last switch.
SignalParent ==
    /\ At("exit")
    /\ LET c == ExitCond IN
       IF BroadcastFault(c) # "no"
       THEN Halt(BroadcastFault(c))
       ELSE /\ Broadcast(c)
            /\ pc' = [pc EXCEPT ![tp] = "suspend"]
            /\ ret' = [ret EXCEPT ![tp] = "exited"]
            /\ UNCHANGED <<parent, tp, arg, next_thread, a0, SIE, saved, pending,
                           free_pages, halted>>

\* A mutant: the children of a recycled thread are left alone.
Reparented_Not(tid, t) == parent[t]

\* recycle_thread makes the parent of tid the parent of tid's children.
Reparented(tid, t) == IF t \in Children(tid) THEN parent[tid] ELSE parent[t]

\* recycle_thread: the slot is freed and its children go to its parent.
Recycle(tid) ==
    /\ parent' = [t \in TID |-> IF t = tid THEN NoThread ELSE Reparented(tid, t)]
    /\ state' = [state EXCEPT ![tid] = "FREE"]
    /\ pc' = [pc EXCEPT ![tid] = "none", ![tp] = "run"]
    /\ arg' = [arg EXCEPT ![tp] = NoThread, ![tid] = NoThread]
    /\ ret' = [ret EXCEPT ![tid] = "run"]
    /\ saved' = [saved EXCEPT ![tid] = TRUE]
    /\ UNCHANGED <<wait_cond, ready_list, wait_list, tp, next_thread, a0, SIE,
                   pending, free_pages, halted>>

\* thread_join_any up to its wait.
JoinAny ==
    /\ At("run")
    /\ IF ExitedChildren(tp) # {}
       THEN \E tid \in Lowest(ExitedChildren(tp)) : Recycle(tid)
       ELSE IF Children(tp) = {}
       THEN Halt("childless")
       ELSE BeginWait(tp, "join_any") /\ UNCHANGED SIE

\* thread_join_any after its wait.
JoinAnyWoken ==
    /\ At("join_any")
    /\ IF ExitedChildren(tp) # {}
       THEN \E tid \in Lowest(ExitedChildren(tp)) : Recycle(tid)
       ELSE Halt("spurious child_exit signal")

\* thread_join of a child; with any other tid it returns -1 and does nothing.
Join(tid) ==
    /\ At("run")
    /\ tid \in Children(tp)
    /\ arg' = [arg EXCEPT ![tp] = tid]
    /\ pc' = [pc EXCEPT ![tp] = "join"]
    /\ UNCHANGED <<state, parent, wait_cond, ready_list, wait_list, tp, ret,
                   next_thread, a0, SIE, saved, pending, free_pages, halted>>

\* The loop of thread_join.
JoinLoop ==
    /\ At("join")
    /\ IF state[arg[tp]] = "EXITED"
       THEN Recycle(arg[tp])
       ELSE BeginWait(tp, "join") /\ UNCHANGED SIE

-----------------------------------------------------------------------------
(* Idle thread, user mode and interrupts *)

\* idle_thread_func: while the ready list is not empty, yield.
IdleCheck ==
    /\ At("idle")
    /\ \/ ready_list # << >> /\ YieldAt("idle")
       \/ /\ ready_list = << >>
          /\ pc' = [pc EXCEPT ![tp] = "idle_empty"]
          /\ UNCHANGED <<state, parent, wait_cond, ready_list, wait_list, tp, ret,
                         arg, next_thread, a0, SIE, saved, pending, free_pages,
                         halted>>

\* A mutant: the idle thread leaves interrupts on around wfi.
IdleDisable_Not ==
    /\ At("idle_empty")
    /\ pc' = [pc EXCEPT ![tp] = IF ready_list = << >> THEN "wfi" ELSE "idle"]
    /\ UNCHANGED <<state, parent, wait_cond, ready_list, wait_list, tp, ret, arg,
                   next_thread, a0, SIE, saved, pending, free_pages, halted>>

\* intr_disable, the second look at the ready list, and wfi if it is empty.
IdleDisable ==
    /\ At("idle_empty")
    /\ IF ready_list = << >>
       THEN SIE' = FALSE /\ pc' = [pc EXCEPT ![tp] = "wfi"]
       ELSE SIE' = TRUE /\ pc' = [pc EXCEPT ![tp] = "idle"]
    /\ UNCHANGED <<state, parent, wait_cond, ready_list, wait_list, tp, ret, arg,
                   next_thread, a0, saved, pending, free_pages, halted>>

\* wfi completes when an interrupt is pending; intr_enable follows.
IdleWake ==
    /\ At("wfi")
    /\ pending # {}
    /\ SIE' = TRUE
    /\ pc' = [pc EXCEPT ![tp] = "idle"]
    /\ UNCHANGED <<state, parent, wait_cond, ready_list, wait_list, tp, ret, arg,
                   next_thread, a0, saved, pending, free_pages, halted>>

\* thread_jump_to_user, and the sret that ends a system call.
EnterUser ==
    /\ At("run")
    /\ pc' = [pc EXCEPT ![tp] = "user"]
    /\ UNCHANGED <<state, parent, wait_cond, ready_list, wait_list, tp, ret, arg,
                   next_thread, a0, SIE, saved, pending, free_pages, halted>>

\* ecall: the trap clears SIE.
Syscall ==
    /\ At("user")
    /\ SIE' = FALSE
    /\ pc' = [pc EXCEPT ![tp] = "run"]
    /\ UNCHANGED <<state, parent, wait_cond, ready_list, wait_list, tp, ret, arg,
                   next_thread, a0, saved, pending, free_pages, halted>>

\* A device asserts its interrupt line.
Raise(c) ==
    /\ halted = "no"
    /\ pending' = pending \cup {c}
    /\ UNCHANGED <<state, parent, wait_cond, ready_list, wait_list, tp, pc, ret,
                   arg, next_thread, a0, SIE, saved, free_pages, halted>>

\* A mutant: intr_handler yields whatever it interrupted.
AfterIsr_AlwaysYields ==
    /\ pc' = [pc EXCEPT ![tp] = "suspend"]
    /\ ret' = [ret EXCEPT ![tp] = IF pc[tp] \in Returns THEN pc[tp] ELSE "run"]
    /\ SIE' = FALSE

\* The end of intr_handler: a trap from U mode yields, with SIE clear, and a
\* trap from S mode returns to the interrupted instruction.
AfterIsr ==
    IF pc[tp] = "user"
    THEN /\ pc' = [pc EXCEPT ![tp] = "suspend"]
         /\ ret' = [ret EXCEPT ![tp] = "user"]
         /\ SIE' = FALSE
    ELSE UNCHANGED <<pc, ret, SIE>>

\* intr_handler: the ISR broadcasts its condition.
Interrupt(c) ==
    /\ halted = "no"
    /\ c \in pending
    /\ SIE \/ pc[tp] = "user"
    /\ IF BroadcastFault(c) # "no"
       THEN Halt(BroadcastFault(c))
       ELSE IF pc[tp] = "user" /\ state[tp] # "RUNNING"
       THEN Halt("caller not RUNNING")
       ELSE /\ Broadcast(c)
            /\ AfterIsr
            /\ pending' = pending \ {c}
            /\ UNCHANGED <<parent, tp, arg, next_thread, a0, saved, free_pages,
                           halted>>

\* Nothing happens after halt_success or panic.
Halted == halted # "no" /\ UNCHANGED vars

-----------------------------------------------------------------------------
\* The steps that the hart takes by itself once thread.c has been entered.
ThreadStep ==
    \/ EnterWaitList \/ PickNext \/ Swtch \/ Resume \/ Setup \/ SignalParent
    \/ JoinAnyWoken \/ JoinLoop
    \/ IdleCheck \/ IdleDisable \/ IdleWake

\* What code outside thread.c may ask for.
Call ==
    \/ Spawn \/ Exit \/ Yield \/ JoinAny
    \/ \E tid \in TID : Join(tid)
    \/ \E c \in IrqConds : WaitForIrq(c)
    \/ \E c \in LockConds : WaitForLock(c) \/ SignalLock(c)
    \/ EnterUser \/ Syscall

TakeInterrupt == \E c \in IrqConds : Interrupt(c)

Next ==
    \/ ThreadStep
    \/ Call
    \/ TakeInterrupt
    \/ \E c \in IrqConds : Raise(c)
    \/ Halted

\* The hart executes instructions and takes pending interrupts.
Fairness == WF_vars(ThreadStep) /\ WF_vars(TakeInterrupt)

Spec == Init /\ [][Next]_vars
FairSpec == Spec /\ Fairness
-----------------------------------------------------------------------------
(* Properties *)

\* The type invariant: every variable of thread.c keeps to its values.
TypeOK ==
    /\ state \in [TID -> States]
    /\ parent \in [TID -> TID \cup {NoThread}]
    /\ wait_cond \in [TID -> Conds \cup {NoCond}]
    /\ ready_list \in Seq(TID)
    /\ wait_list \in [Conds -> Seq(TID)]
    /\ tp \in TID
    /\ pc \in [TID -> PCs]
    /\ ret \in [TID -> Returns]
    /\ arg \in [TID -> TID \cup {NoThread}]
    /\ next_thread \in TID \cup {NoThread}
    /\ a0 \in TID \cup {NoThread}
    /\ SIE \in BOOLEAN
    /\ saved \in [TID -> BOOLEAN]
    /\ pending \subseteq IrqConds
    /\ free_pages \in Nat
    /\ halted \in {"no", "success"} \cup Asserts \cup Panics

\* No assert of thread.c fails, thread_join_any is never woken without an
\* exited child ("spurious child_exit signal"), and thread_exit never returns,
\* whatever the callers do and wherever interrupts fall.
NoAssertFails == halted \notin Asserts

\* The intrusive list link of a thread is used by one list at a time: a READY
\* thread is once in ready_list, a WAITING one is once in the list of the
\* condition it waits on (once condition_wait has put it there), and no thread
\* is anywhere else.
ListsMatchStates ==
    /\ Distinct(ready_list)
    /\ \A c \in Conds : Distinct(wait_list[c])
    /\ Elems(ready_list) = {t \in TID : state[t] = "READY"}
    /\ \A c \in Conds :
          Elems(wait_list[c]) =
            {t \in TID : /\ state[t] = "WAITING"
                         /\ wait_cond[t] = c
                         /\ pc[t] # "wait"}

\* suspend_self hands the hart from one RUNNING thread to the next: code that
\* is not in the middle of thread.c runs as the only RUNNING thread.
OneRunning ==
    /\ \A t, u \in TID : state[t] = "RUNNING" /\ state[u] = "RUNNING" => t = u
    /\ pc[tp] \in {"run", "user", "setup", "join", "join_any", "swtched", "idle"}
            => state[tp] = "RUNNING"

\* thread_spawn makes a child READY before _thread_setup has written its
\* context: the hart never loads a context that is not there.
ContextReady == pc[tp] \notin {"raw", "none"}

\* The comment in idle_thread_func: no ISR makes a thread ready between the
\* last look at the ready list and wfi, so the hart never sleeps on work.
NoSleepOnWork == halted = "no" /\ pc[tp] = "wfi" => ready_list = << >>

\* thread_join and thread_join_any look at the children before they wait, and
\* an exiting child signals its parent after it is EXITED: no parent stays
\* asleep when a child it waits for has exited and signalled.
NoMissedExit ==
    \A p \in TID :
      state[p] = "WAITING" /\ wait_cond[p] = p =>
        \A c \in (IF ret[p] = "join" THEN {arg[p]} ELSE Children(p)) :
          state[c] = "EXITED" => tp = c /\ pc[c] = "exit"

\* recycle_thread gives the children of a dead thread to its parent: a live
\* thread's parent, which thread_exit will signal, is a live slot, and the
\* parents lead to the main thread.
ThreadTree ==
    LET Live == {t \in TID \ {MAIN_TID} : state[t] # "FREE"} IN
    /\ \A t \in Live : parent[t] \in TID /\ state[parent[t]] # "FREE"
    /\ \A S \in SUBSET Live : S # {} => \E t \in S : parent[t] \notin S

\* An EXITED thread is never scheduled again, and leaves that state only when
\* its slot is recycled.
ExitedIsFinal ==
    [][\A t \in TID : state[t] = "EXITED" =>
          /\ state'[t] \in {"EXITED", "FREE"}
          /\ tp # t => tp' # t]_vars

\* No starvation: if threads keep coming back to the thread manager, every
\* READY thread gets the hart (round robin, suspend_self).
ReadyRuns ==
    []<>(halted # "no" \/ pc[tp] \notin {"run", "user"}) =>
      \A t \in TID : state[t] = "READY" ~> (state[t] = "RUNNING" \/ halted # "no")

\* thrasm.s says of _thread_swtch: "Returns a pointer to the
\* previously-scheduled thread."  suspend_self frees that thread's stack if it
\* is EXITED.
SwtchReturnsPrevious == [][tp' # tp => a0' = tp]_vars
=============================================================================

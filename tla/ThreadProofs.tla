---------------------------- MODULE ThreadProofs ----------------------------
(***************************************************************************)
(* Proofs about Thread: for every number of threads, pages and conditions, *)
(* no assert of thread.c fails, the lists agree with the thread states,    *)
(* the hart never loads a context that was not set up, the idle thread     *)
(* never sleeps on work, no parent misses the exit of a child, the parents *)
(* form a tree, and an exited thread never runs again.  The last part      *)
(* proves that Thread implements Scheduler, whatever interrupts are taken: *)
(* the promise on which the modules of the drivers and of the locks are    *)
(* built.                                                                  *)
(***************************************************************************)
EXTENDS ThreadRefinement, TLAPS

-----------------------------------------------------------------------------
(* The inductive invariant.  NoAssertFails alone is not inductive: it needs *)
(* to know what the threads that are off the hart will do when they get it. *)

OffHart == {"none", "raw", "run", "idle", "swtched"}
Suspending == {"wait", "suspend", "picked", "swtched"}

\* A thread that is off the hart is new, or inside _thread_swtch; the only
\* context that is not set up is that of the child being spawned.
Contexts ==
    /\ \A t \in TID \ {tp} : pc[t] \in OffHart
    /\ \A t \in TID : pc[t] = "none" <=> state[t] = "FREE"
    /\ \A t \in TID : pc[t] = "raw" => pc[tp] = "setup" /\ arg[tp] = t
    /\ pc[tp] = "setup" => arg[tp] \in TID \ {tp} /\ pc[arg[tp]] = "raw"
    /\ pc[tp] \notin {"raw", "none"}

\* Who is RUNNING: the thread on the hart, or the one it has picked.
Owner ==
    /\ pc[tp] \in {"run", "user", "setup", "join", "join_any", "swtched", "idle",
                   "idle_empty", "wfi"} => state[tp] = "RUNNING"
    /\ pc[tp] = "wait" => state[tp] = "WAITING"
    /\ pc[tp] = "exit" => state[tp] = "EXITED"
    /\ pc[tp] = "suspend" => state[tp] # "READY"
    /\ pc[tp] = "picked" => /\ next_thread \in TID \ {tp}
                            /\ state[next_thread] = "RUNNING"
    /\ \A t \in TID : state[t] = "RUNNING" =>
          IF pc[tp] = "picked" THEN t = next_thread ELSE t = tp

\* A WAITING thread waits for an ISR, a lock or its own children.
Waiters ==
    \A t \in TID : state[t] = "WAITING" =>
        /\ wait_cond[t] \in Conds
        /\ pc[t] \in Suspending
        /\ wait_cond[t] \in TID => wait_cond[t] = t
        /\ wait_cond[t] = t <=> ret[t] \in {"join", "join_any"}

\* Until it has given up the hart, a thread that waits for an ISR has
\* interrupts off.
Masked ==
    pc[tp] \in {"wait", "suspend"} /\ state[tp] = "WAITING"
       /\ wait_cond[tp] \in IrqConds => ~SIE

\* An EXITED thread is on its way out of thread_exit for good.
Exiteds ==
    \A t \in TID :
        /\ state[t] = "EXITED" =>
             /\ t \notin {MAIN_TID, IDLE_TID}
             /\ \/ pc[t] = "exit"
                \/ pc[t] \in {"suspend", "picked", "swtched"} /\ ret[t] = "exited"
        /\ ret[t] = "exited" => state[t] = "EXITED"

\* The idle thread only runs idle_thread_func, and can always be picked.
Idle ==
    /\ state[IDLE_TID] \in {"READY", "RUNNING"}
    /\ pc[IDLE_TID] \in {"idle", "idle_empty", "wfi", "suspend", "picked", "swtched"}
    /\ pc[IDLE_TID] \in {"suspend", "picked", "swtched"} => ret[IDLE_TID] = "idle"
    /\ \A t \in TID \ {IDLE_TID} :
          pc[t] \notin {"idle", "idle_empty", "wfi"} /\ ret[t] # "idle"
    /\ tp = IDLE_TID /\ pc[tp] = "suspend" => ready_list # << >>
    /\ pc[tp] = "wfi" => ~SIE /\ ready_list = << >>

\* Every live thread but main has a live parent.
Parents ==
    /\ state[MAIN_TID] # "FREE"
    /\ \A t \in TID \ {MAIN_TID} : state[t] # "FREE" =>
          parent[t] \in TID /\ state[parent[t]] # "FREE"

\* thread_join waits for a child of the caller, and a thread_join_any that has
\* been woken has a child to reap.
Joins ==
    \A p \in TID :
        /\ pc[p] = "join" \/ (pc[p] \in Suspending /\ ret[p] = "join")
              => arg[p] \in Children(p)
        /\ pc[p] = "join_any" => ExitedChildren(p) # {}
        /\ pc[p] \in Suspending /\ ret[p] = "join_any" /\ state[p] # "WAITING"
              => ExitedChildren(p) # {}

IInv ==
    /\ TypeOK
    /\ ListsMatchStates
    /\ Contexts
    /\ Owner
    /\ Waiters
    /\ Masked
    /\ Exiteds
    /\ Idle
    /\ Parents
    /\ Joins
    /\ NoMissedExit
    /\ NoAssertFails

-----------------------------------------------------------------------------
(* What the list operations do to the elements of a list. *)

\* tlinsert of a thread that is not in the list.
LEMMA InsertElems ==
    ASSUME NEW s \in Seq(TID), NEW t \in TID
    PROVE  /\ tlinsert(s, t) \in Seq(TID)
           /\ tlinsert(s, t) # << >>
           /\ Elems(tlinsert(s, t)) = Elems(s) \cup {t}
           /\ Distinct(s) /\ t \notin Elems(s) => Distinct(tlinsert(s, t))
<1>1. /\ tlinsert(s, t) \in Seq(TID)
      /\ Len(tlinsert(s, t)) = Len(s) + 1
      /\ \A i \in 1 .. Len(s) : tlinsert(s, t)[i] = s[i]
      /\ tlinsert(s, t)[Len(s) + 1] = t
  BY DEF tlinsert
<1>2. Len(s) \in Nat
  OBVIOUS
<1>3. Elems(tlinsert(s, t)) = Elems(s) \cup {t}
  BY <1>1, <1>2 DEF Elems
<1>4. Distinct(s) /\ t \notin Elems(s) => Distinct(tlinsert(s, t))
  BY <1>1, <1>2 DEF Elems, Distinct
<1>. QED  BY <1>1, <1>2, <1>3, <1>4

\* tlremove takes the head away.
LEMMA RemoveElems ==
    ASSUME NEW s \in Seq(TID), s # << >>
    PROVE  /\ Head(s) \in Elems(s)
           /\ Head(s) \in TID
           /\ Tail(s) \in Seq(TID)
           /\ Distinct(s) => /\ Distinct(Tail(s))
                             /\ Elems(Tail(s)) = Elems(s) \ {Head(s)}
<1>1. /\ Len(s) \in Nat \ {0}
      /\ Head(s) = s[1] /\ s[1] \in TID
      /\ Tail(s) \in Seq(TID) /\ Len(Tail(s)) = Len(s) - 1
      /\ \A i \in 1 .. Len(s) - 1 : Tail(s)[i] = s[i + 1]
  OBVIOUS
<1>2. Head(s) \in Elems(s)
  BY <1>1 DEF Elems
<1>3. ASSUME Distinct(s)
      PROVE  Distinct(Tail(s))
  <2>1. ASSUME NEW i \in 1 .. Len(s) - 1, NEW j \in 1 .. Len(s) - 1,
               Tail(s)[i] = Tail(s)[j]
        PROVE  i = j
    <3>1. s[i + 1] = s[j + 1] /\ i + 1 \in 1 .. Len(s) /\ j + 1 \in 1 .. Len(s)
      BY <1>1, <2>1
    <3>. QED  BY <3>1, <1>3 DEF Distinct
  <2>. QED  BY <2>1, <1>1 DEF Distinct
<1>4. ASSUME Distinct(s)
      PROVE  Elems(Tail(s)) = Elems(s) \ {Head(s)}
  <2>1. ASSUME NEW i \in 1 .. Len(s) - 1
        PROVE  Tail(s)[i] \in Elems(s) \ {Head(s)}
    BY <1>1, <1>4 DEF Elems, Distinct
  <2>2. ASSUME NEW i \in 1 .. Len(s), s[i] # Head(s)
        PROVE  s[i] \in Elems(Tail(s))
    <3>1. i - 1 \in 1 .. Len(s) - 1 /\ Tail(s)[i - 1] = s[i]
      BY <1>1, <2>2
    <3>. QED  BY <3>1, <1>1 DEF Elems
  <2>3. Elems(Tail(s)) \subseteq Elems(s) \ {Head(s)}
    BY <2>1, <1>1 DEF Elems
  <2>4. Elems(s) \ {Head(s)} \subseteq Elems(Tail(s))
    <3>. SUFFICES ASSUME NEW x \in Elems(s), x # Head(s) PROVE x \in Elems(Tail(s))
      OBVIOUS
    <3>1. PICK i \in 1 .. Len(s) : s[i] = x
      BY DEF Elems
    <3>. QED  BY <2>2, <3>1
  <2>. QED  BY <2>3, <2>4
<1>. QED  BY <1>1, <1>2, <1>3, <1>4

\* tlappend of a list that shares no thread with the first.
LEMMA AppendElems ==
    ASSUME NEW s \in Seq(TID), NEW r \in Seq(TID)
    PROVE  /\ tlappend(s, r) \in Seq(TID)
           /\ Elems(tlappend(s, r)) = Elems(s) \cup Elems(r)
           /\ s # << >> => tlappend(s, r) # << >>
           /\ Distinct(s) /\ Distinct(r) /\ Elems(s) \cap Elems(r) = {}
                 => Distinct(tlappend(s, r))
<1>1. /\ Len(s) \in Nat /\ Len(r) \in Nat
      /\ tlappend(s, r) \in Seq(TID)
      /\ Len(tlappend(s, r)) = Len(s) + Len(r)
      /\ \A i \in 1 .. Len(s) + Len(r) :
            tlappend(s, r)[i] = IF i <= Len(s) THEN s[i] ELSE r[i - Len(s)]
  BY DEF tlappend
<1>2. Elems(tlappend(s, r)) = Elems(s) \cup Elems(r)
  <2>1. ASSUME NEW i \in 1 .. Len(s) + Len(r)
        PROVE  tlappend(s, r)[i] \in Elems(s) \cup Elems(r)
    <3>1. CASE i <= Len(s)
      BY <3>1, <1>1 DEF Elems
    <3>2. CASE i > Len(s)
      <4>1. i - Len(s) \in 1 .. Len(r) /\ tlappend(s, r)[i] = r[i - Len(s)]
        BY <3>2, <1>1
      <4>. QED  BY <4>1 DEF Elems
    <3>. QED  BY <3>1, <3>2, <1>1
  <2>2. ASSUME NEW i \in 1 .. Len(s)
        PROVE  s[i] \in Elems(tlappend(s, r))
    <3>1. i \in 1 .. Len(s) + Len(r) /\ tlappend(s, r)[i] = s[i]
      BY <1>1
    <3>. QED  BY <3>1, <1>1 DEF Elems
  <2>3. ASSUME NEW i \in 1 .. Len(r)
        PROVE  r[i] \in Elems(tlappend(s, r))
    <3>1. /\ i + Len(s) \in 1 .. Len(s) + Len(r)
          /\ tlappend(s, r)[i + Len(s)] = r[i]
      BY <1>1
    <3>. QED  BY <3>1, <1>1 DEF Elems
  <2>. QED  BY <2>1, <2>2, <2>3, <1>1 DEF Elems
<1>3. ASSUME Distinct(s), Distinct(r), Elems(s) \cap Elems(r) = {}
      PROVE  Distinct(tlappend(s, r))
  <2>1. ASSUME NEW i \in 1 .. Len(s) + Len(r), NEW j \in 1 .. Len(s) + Len(r),
               tlappend(s, r)[i] = tlappend(s, r)[j]
        PROVE  i = j
    <3>1. CASE i <= Len(s) /\ j <= Len(s)
      BY <3>1, <2>1, <1>1, <1>3 DEF Distinct
    <3>2. CASE i > Len(s) /\ j > Len(s)
      <4>1. /\ i - Len(s) \in 1 .. Len(r) /\ j - Len(s) \in 1 .. Len(r)
            /\ r[i - Len(s)] = r[j - Len(s)]
        BY <3>2, <2>1, <1>1
      <4>2. i - Len(s) = j - Len(s)
        BY <4>1, <1>3 DEF Distinct
      <4>. QED  BY <4>2, <1>1
    <3>3. CASE i <= Len(s) /\ j > Len(s)
      <4>1. j - Len(s) \in 1 .. Len(r) /\ s[i] = r[j - Len(s)] /\ i \in 1 .. Len(s)
        BY <3>3, <2>1, <1>1
      <4>. QED  BY <4>1, <1>3 DEF Elems
    <3>4. CASE i > Len(s) /\ j <= Len(s)
      <4>1. i - Len(s) \in 1 .. Len(r) /\ s[j] = r[i - Len(s)] /\ j \in 1 .. Len(s)
        BY <3>4, <2>1, <1>1
      <4>. QED  BY <4>1, <1>3 DEF Elems
    <3>. QED  BY <3>1, <3>2, <3>3, <3>4, <1>1
  <2>. QED  BY <2>1, <1>1 DEF Distinct
<1>. QED  BY <1>1, <1>2, <1>3

-----------------------------------------------------------------------------
(* The constants. *)

\* TID is a finite interval that holds the main and the idle thread.
LEMMA Tids ==
    /\ MAIN_TID \in TID /\ IDLE_TID \in TID /\ MAIN_TID # IDLE_TID
    /\ 1 .. NTHR - 1 = TID \ {MAIN_TID}
    /\ NoThread \notin TID
BY NTHRAssumption DEF MAIN_TID, IDLE_TID, TID, NoThread

-----------------------------------------------------------------------------
(* Every action preserves the invariant. *)

\* thread_yield, from kernel code or from the idle loop.
LEMMA YieldStep ==
    ASSUME IInv, NEW p \in {"run", "idle"}, YieldAt(p),
           p = "idle" => ready_list # << >>
    PROVE  IInv'
<1>a. state[tp] = "RUNNING" /\ tp \in TID /\ pc[tp] = p
  BY DEF IInv, TypeOK, Owner, YieldAt, At
<1>b. /\ pc' = [pc EXCEPT ![tp] = "suspend"]
      /\ ret' = [ret EXCEPT ![tp] = p]
      /\ UNCHANGED <<state, parent, wait_cond, ready_list, wait_list, tp, arg,
                     next_thread, a0, SIE, saved, pending, free_pages, halted>>
  BY <1>a DEF YieldAt
<1>1. TypeOK'
  BY <1>a, <1>b, Tids DEF IInv, TypeOK, Returns, PCs, States
<1>2. ListsMatchStates'
  BY <1>a, <1>b, Tids DEF IInv, TypeOK, ListsMatchStates, Contexts, Owner
<1>3. Contexts'
  BY <1>a, <1>b, Tids DEF IInv, TypeOK, Contexts, Owner, OffHart
<1>4. Owner'
  BY <1>a, <1>b, Tids DEF IInv, TypeOK, Owner, Contexts, OffHart
<1>5. Waiters'
  BY <1>a, <1>b, Tids DEF IInv, TypeOK, Waiters, Owner, Suspending
<1>6. Masked'
  BY <1>a, <1>b, Tids DEF IInv, TypeOK, Masked, Owner
<1>7. Exiteds'
  BY <1>a, <1>b, Tids DEF IInv, TypeOK, Exiteds, Owner, Idle, Contexts,
     OffHart
<1>8. Idle'
  BY <1>a, <1>b, Tids DEF IInv, TypeOK, Idle, Owner, Exiteds, Contexts,
     OffHart
<1>9. Parents'
  BY <1>a, <1>b, Tids DEF IInv, TypeOK, Parents, Owner
<1>10. Joins'
  BY <1>a, <1>b, Tids DEF IInv, TypeOK, Joins, Owner, Suspending, Children,
     ExitedChildren
<1>11. NoMissedExit'
  BY <1>a, <1>b, Tids DEF IInv, TypeOK, NoMissedExit, Owner, Waiters,
     Suspending, Children, Joins
<1>12. NoAssertFails'
  BY <1>a, <1>b, Tids DEF IInv, NoAssertFails
<1>. QED  BY <1>1, <1>2, <1>3, <1>4, <1>5, <1>6, <1>7, <1>8, <1>9, <1>10, <1>11, <1>12 DEF IInv

\* _thread_setup.
LEMMA SetupStep ==
    ASSUME IInv, Setup
    PROVE  IInv'
<1>a. pc[tp] = "setup" /\ tp \in TID /\ arg[tp] \in TID \ {tp}
      /\ pc[arg[tp]] = "raw" /\ arg[tp] # IDLE_TID /\ tp # IDLE_TID
  BY Tids DEF IInv, TypeOK, Contexts, Idle, Setup, At
<1>b. /\ pc' = [pc EXCEPT ![tp] = "run", ![arg[tp]] = "run"]
      /\ arg' = [arg EXCEPT ![tp] = NoThread]
      /\ UNCHANGED <<state, parent, wait_cond, ready_list, wait_list, tp, ret,
                     next_thread, a0, SIE, saved, pending, free_pages, halted>>
  BY DEF Setup
<1>1. TypeOK'
  BY <1>a, <1>b, Tids DEF IInv, TypeOK, Returns, PCs, States
<1>2. ListsMatchStates'
  BY <1>a, <1>b, Tids DEF IInv, TypeOK, ListsMatchStates, Contexts, Owner
<1>3. Contexts'
  BY <1>a, <1>b, Tids DEF IInv, TypeOK, Contexts, Owner, OffHart
<1>4. Owner'
  BY <1>a, <1>b, Tids DEF IInv, TypeOK, Owner, Contexts, OffHart
<1>5. Waiters'
  BY <1>a, <1>b, Tids DEF IInv, TypeOK, Waiters, Owner, Suspending
<1>6. Masked'
  BY <1>a, <1>b, Tids DEF IInv, TypeOK, Masked, Owner
<1>7. Exiteds'
  BY <1>a, <1>b, Tids DEF IInv, TypeOK, Exiteds, Owner, Idle, Contexts,
     OffHart
<1>8. Idle'
  BY <1>a, <1>b, Tids DEF IInv, TypeOK, Idle, Owner, Exiteds, Contexts,
     OffHart
<1>9. Parents'
  BY <1>a, <1>b, Tids DEF IInv, TypeOK, Parents, Owner
<1>10. Joins'
  BY <1>a, <1>b, Tids DEF IInv, TypeOK, Joins, Owner, Suspending, Children,
     ExitedChildren
<1>11. NoMissedExit'
  BY <1>a, <1>b, Tids DEF IInv, TypeOK, NoMissedExit, Owner, Waiters,
     Suspending, Children, Joins
<1>12. NoAssertFails'
  BY <1>a, <1>b, Tids DEF IInv, NoAssertFails
<1>. QED  BY <1>1, <1>2, <1>3, <1>4, <1>5, <1>6, <1>7, <1>8, <1>9, <1>10, <1>11, <1>12 DEF IInv

\* _thread_swtch.
LEMMA SwtchStep ==
    ASSUME IInv, Swtch
    PROVE  IInv'
<1>a. /\ pc[tp] = "picked" /\ tp \in TID /\ next_thread \in TID \ {tp}
      /\ state[next_thread] = "RUNNING"
      /\ pc[next_thread] \in {"run", "idle", "swtched"}
  BY DEF IInv, TypeOK, Contexts, OffHart, Owner, Swtch, At
<1>b. /\ tp' = next_thread
      /\ a0' = next_thread
      /\ next_thread' = NoThread
      /\ pc' = [pc EXCEPT ![tp] = "swtched"]
      /\ UNCHANGED <<state, parent, wait_cond, ready_list, wait_list, ret, arg, SIE,
                     saved, pending, free_pages, halted>>
  BY DEF Swtch
<1>1. TypeOK'
  BY <1>a, <1>b, Tids DEF IInv, TypeOK, Returns, PCs, States
<1>2. ListsMatchStates'
  BY <1>a, <1>b, Tids DEF IInv, TypeOK, ListsMatchStates, Contexts, Owner
<1>3. Contexts'
  BY <1>a, <1>b, Tids DEF IInv, TypeOK, Contexts, Owner, OffHart
<1>4. Owner'
  BY <1>a, <1>b, Tids DEF IInv, TypeOK, Owner, Contexts, OffHart
<1>5. Waiters'
  BY <1>a, <1>b, Tids DEF IInv, TypeOK, Waiters, Owner, Suspending
<1>6. Masked'
  BY <1>a, <1>b, Tids DEF IInv, TypeOK, Masked, Owner
<1>7. Exiteds'
  BY <1>a, <1>b, Tids DEF IInv, TypeOK, Exiteds, Owner, Idle, Contexts,
     OffHart
<1>8. Idle'
  BY <1>a, <1>b, Tids DEF IInv, TypeOK, Idle, Owner, Exiteds, Contexts,
     OffHart
<1>9. Parents'
  BY <1>a, <1>b, Tids DEF IInv, TypeOK, Parents, Owner
<1>10. Joins'
  BY <1>a, <1>b, Tids DEF IInv, TypeOK, Joins, Owner, Suspending, Children,
     ExitedChildren
<1>11. NoMissedExit'
  BY <1>a, <1>b, Tids DEF IInv, TypeOK, NoMissedExit, Owner, Waiters,
     Suspending, Children, Joins
<1>12. NoAssertFails'
  BY <1>a, <1>b, Tids DEF IInv, NoAssertFails
<1>. QED  BY <1>1, <1>2, <1>3, <1>4, <1>5, <1>6, <1>7, <1>8, <1>9, <1>10, <1>11, <1>12 DEF IInv

\* suspend_self after the switch.
LEMMA ResumeStep ==
    ASSUME IInv, Resume
    PROVE  IInv'
<1>a. /\ pc[tp] = "swtched" /\ tp \in TID /\ state[tp] = "RUNNING"
      /\ ret[tp] # "exited"
  BY DEF IInv, TypeOK, Owner, Exiteds, Resume, At
<1>b. /\ free_pages' \in Nat
      /\ SIE' \in BOOLEAN
      /\ pc' = [pc EXCEPT ![tp] = IF ret[tp] = "restore" THEN "run" ELSE ret[tp]]
      /\ ret' = [ret EXCEPT ![tp] = pc'[tp]]
      /\ saved' \in [TID -> BOOLEAN]
      /\ UNCHANGED <<state, parent, wait_cond, ready_list, wait_list, tp, arg,
                     next_thread, a0, pending, halted>>
  <2>1. /\ free_pages' \in Nat
        /\ ret' = [ret EXCEPT ![tp] = pc'[tp]]
        /\ pc' = [pc EXCEPT ![tp] = IF ret[tp] = "restore" THEN "run" ELSE ret[tp]]
        /\ UNCHANGED <<state, parent, wait_cond, ready_list, wait_list, tp, arg,
                       next_thread, a0, pending, halted>>
    BY <1>a DEF Resume, IInv, TypeOK
  <2>2. SIE' \in BOOLEAN
    BY <1>a, Zenon DEF Resume
  <2>3. saved' \in [TID -> BOOLEAN]
    BY <1>a DEF Resume, IInv, TypeOK
  <2>. QED  BY <2>1, <2>2, <2>3
<1>c. /\ pc'[tp] \in {"run", "user", "join", "join_any", "idle"} /\ ret'[tp] = pc'[tp]
      /\ pc'[tp] # "run" => pc'[tp] = ret[tp]
      /\ pc' = [pc EXCEPT ![tp] = pc'[tp]]
  BY <1>a, <1>b DEF IInv, TypeOK, Returns
<1>1. TypeOK'
  BY <1>a, <1>b, <1>c, Tids DEF IInv, TypeOK, Returns, PCs, States
<1>2. ListsMatchStates'
  BY <1>a, <1>b, <1>c, Tids DEF IInv, TypeOK, ListsMatchStates, Contexts,
     Owner
<1>3. Contexts'
  BY <1>a, <1>b, <1>c, Tids DEF IInv, TypeOK, Contexts, Owner, OffHart
<1>4. Owner'
  BY <1>a, <1>b, <1>c, Tids DEF IInv, TypeOK, Owner, Contexts, OffHart
<1>5. Waiters'
  BY <1>a, <1>b, <1>c, Tids DEF IInv, TypeOK, Waiters, Owner, Suspending
<1>6. Masked'
  BY <1>a, <1>b, <1>c, Tids DEF IInv, TypeOK, Masked, Owner
<1>7. Exiteds'
  BY <1>a, <1>b, <1>c, Tids DEF IInv, TypeOK, Exiteds, Owner, Idle, Contexts,
     OffHart
<1>8. Idle'
  BY <1>a, <1>b, <1>c, Tids DEF IInv, TypeOK, Idle, Owner, Exiteds, Contexts,
     OffHart
<1>9. Parents'
  BY <1>a, <1>b, <1>c, Tids DEF IInv, TypeOK, Parents, Owner
<1>10. Joins'
  BY <1>a, <1>b, <1>c, Tids DEF IInv, TypeOK, Joins, Owner, Suspending,
     Children, ExitedChildren
<1>11. NoMissedExit'
  BY <1>a, <1>b, <1>c, Tids DEF IInv, TypeOK, NoMissedExit, Owner, Waiters,
     Suspending, Children, Joins
<1>12. NoAssertFails'
  BY <1>a, <1>b, <1>c, Tids DEF IInv, NoAssertFails
<1>. QED  BY <1>1, <1>2, <1>3, <1>4, <1>5, <1>6, <1>7, <1>8, <1>9, <1>10, <1>11, <1>12 DEF IInv

\* suspend_self up to the switch.
LEMMA PickNextStep ==
    ASSUME IInv, PickNext
    PROVE  IInv'
<1>a. pc[tp] = "suspend" /\ tp \in TID /\ state[tp] # "READY"
  BY DEF IInv, TypeOK, Owner, PickNext, At
<1>b. ready_list # << >>
  <2>1. CASE tp = IDLE_TID
    BY <1>a, <2>1 DEF IInv, Idle
  <2>2. CASE tp # IDLE_TID
    <3>1. state[IDLE_TID] = "READY"
      BY <1>a, <2>2, Tids DEF IInv, Idle, Owner
    <3>2. IDLE_TID \in Elems(ready_list)
      BY <3>1, Tids DEF IInv, ListsMatchStates
    <3>. QED  BY <3>2 DEF Elems
  <2>. QED  BY <2>1, <2>2
<1> DEFINE next == Head(ready_list)
<1>c. /\ next \in TID /\ state[next] = "READY" /\ next # tp
      /\ Tail(ready_list) \in Seq(TID)
      /\ Distinct(Tail(ready_list))
      /\ Elems(Tail(ready_list)) = Elems(ready_list) \ {next}
  BY <1>a, <1>b, RemoveElems DEF IInv, TypeOK, ListsMatchStates
<1> HIDE DEF next
<1>d. /\ next_thread' = next
      /\ state' = [t \in TID |-> IF t = next THEN "RUNNING"
                                 ELSE IF t = tp /\ state[tp] = "RUNNING" THEN "READY"
                                 ELSE state[t]]
      /\ ready_list' = IF state[tp] = "RUNNING" THEN tlinsert(Tail(ready_list), tp)
                       ELSE Tail(ready_list)
      /\ saved' = [saved EXCEPT ![tp] = SIE]
      /\ SIE' = TRUE
      /\ pc' = [pc EXCEPT ![tp] = "picked"]
      /\ UNCHANGED <<parent, wait_cond, wait_list, tp, ret, arg, a0, pending,
                     free_pages, halted>>
  BY <1>a, <1>b, <1>c DEF PickNext, StillRunning, next
<1>e. /\ ready_list' \in Seq(TID)
      /\ Distinct(ready_list')
      /\ Elems(ready_list') = {t \in TID : state'[t] = "READY"}
  <2>1. tp \notin Elems(ready_list)
    BY <1>a DEF IInv, ListsMatchStates
  <2>2. /\ ready_list' \in Seq(TID)
        /\ Distinct(ready_list')
        /\ Elems(ready_list') = IF state[tp] = "RUNNING"
                                THEN (Elems(ready_list) \ {next}) \cup {tp}
                                ELSE Elems(ready_list) \ {next}
    BY <1>a, <1>c, <1>d, <2>1, InsertElems
  <2>. QED  BY <1>a, <1>c, <1>d, <2>2 DEF IInv, ListsMatchStates
<1>1. TypeOK'
  BY <1>a, <1>c, <1>d, <1>e, Tids DEF IInv, TypeOK, Returns, PCs, States
<1>2. ListsMatchStates'
  BY <1>a, <1>c, <1>d, <1>e, Tids DEF IInv, TypeOK, ListsMatchStates,
     Contexts, Owner
<1>3. Contexts'
  BY <1>a, <1>c, <1>d, <1>e, Tids DEF IInv, TypeOK, Contexts, Owner, OffHart
<1>4. Owner'
  BY <1>a, <1>c, <1>d, <1>e, Tids DEF IInv, TypeOK, Owner, Contexts, OffHart
<1>5. Waiters'
  BY <1>a, <1>c, <1>d, <1>e, Tids DEF IInv, TypeOK, Waiters, Owner,
     Suspending
<1>6. Masked'
  BY <1>a, <1>c, <1>d, <1>e, Tids DEF IInv, TypeOK, Masked, Owner
<1>7. Exiteds'
  BY <1>a, <1>c, <1>d, <1>e, Tids DEF IInv, TypeOK, Exiteds, Owner, Idle,
     Contexts, OffHart
<1>8. Idle'
  BY <1>a, <1>c, <1>d, <1>e, Tids DEF IInv, TypeOK, Idle, Owner, Exiteds,
     Contexts, OffHart
<1>9. Parents'
  BY <1>a, <1>c, <1>d, <1>e, Tids DEF IInv, TypeOK, Parents, Owner
<1>10. Joins'
  <2>1. ASSUME NEW p \in TID
        PROVE  Children(p)' = Children(p) /\ ExitedChildren(p)' = ExitedChildren(p)
    BY <1>a, <1>c, <1>d, Tids DEF IInv, TypeOK, Children, ExitedChildren
  <2>. QED  BY <1>a, <1>c, <1>d, <2>1 DEF IInv, TypeOK, Joins, Owner, Suspending
<1>11. NoMissedExit'
  BY <1>a, <1>c, <1>d, <1>e, Tids DEF IInv, TypeOK, NoMissedExit, Owner,
     Waiters, Suspending, Children, Joins
<1>12. NoAssertFails'
  BY <1>a, <1>c, <1>d, <1>e, Tids DEF IInv, NoAssertFails
<1>. QED  BY <1>1, <1>2, <1>3, <1>4, <1>5, <1>6, <1>7, <1>8, <1>9, <1>10, <1>11, <1>12 DEF IInv

\* condition_wait up to the list insertion, from any of its callers.
LEMMA BeginWaitStep ==
    ASSUME IInv, NEW c \in Conds, NEW r \in {"run", "restore", "join", "join_any"},
           BeginWait(c, r), tp # IDLE_TID,
           pc[tp] \in {"run", "join"},
           c \in TID => c = tp,
           c = tp <=> r \in {"join", "join_any"},
           SIE' \in BOOLEAN, c \in IrqConds => ~SIE',
           r = "join" => arg[tp] \in Children(tp) /\ state[arg[tp]] # "EXITED",
           r = "join_any" => ExitedChildren(tp) = {}
    PROVE  IInv'
<1>a. state[tp] = "RUNNING" /\ tp \in TID
  BY DEF IInv, TypeOK, Owner
<1>b. /\ state' = [state EXCEPT ![tp] = "WAITING"]
      /\ wait_cond' = [wait_cond EXCEPT ![tp] = c]
      /\ pc' = [pc EXCEPT ![tp] = "wait"]
      /\ ret' = [ret EXCEPT ![tp] = r]
      /\ UNCHANGED <<parent, ready_list, wait_list, tp, arg, next_thread, a0,
                     saved, pending, free_pages, halted>>
  BY <1>a DEF BeginWait
<1>c. \A p \in TID : Children(p)' = Children(p) /\ ExitedChildren(p)' = ExitedChildren(p)
  BY <1>a, <1>b, Tids DEF IInv, TypeOK, Children, ExitedChildren
<1>1. TypeOK'
  BY <1>a, <1>b, Tids DEF IInv, TypeOK, Returns, PCs, States
<1>2. ListsMatchStates'
  BY <1>a, <1>b, Tids DEF IInv, TypeOK, ListsMatchStates, Contexts, Owner
<1>3. Contexts'
  BY <1>a, <1>b, Tids DEF IInv, TypeOK, Contexts, Owner, OffHart
<1>4. Owner'
  BY <1>a, <1>b, Tids DEF IInv, TypeOK, Owner, Contexts, OffHart
<1>5. Waiters'
  BY <1>a, <1>b, Tids DEF IInv, TypeOK, Waiters, Owner, Suspending
<1>6. Masked'
  BY <1>a, <1>b, Tids DEF IInv, TypeOK, Masked, Owner
<1>7. Exiteds'
  BY <1>a, <1>b, Tids DEF IInv, TypeOK, Exiteds, Owner, Idle, Contexts,
     OffHart
<1>8. Idle'
  BY <1>a, <1>b, Tids DEF IInv, TypeOK, Idle, Owner, Exiteds, Contexts,
     OffHart
<1>9. Parents'
  BY <1>a, <1>b, Tids DEF IInv, TypeOK, Parents, Owner
<1>10. Joins'
  BY <1>a, <1>b, <1>c DEF IInv, TypeOK, Joins, Suspending
<1>11. NoMissedExit'
  <2>1. \A x \in ExitedChildren(tp) : x \in Children(tp) /\ state[x] = "EXITED"
    BY DEF ExitedChildren
  <2>2. \A x \in Children(tp) : state[x] = "EXITED" => x \in ExitedChildren(tp)
    BY DEF ExitedChildren
  <2>3. \A p \in TID : Children(p) \subseteq TID
    BY Tids DEF Children
  <2>. QED  BY <1>a, <1>b, <1>c, <2>1, <2>2, <2>3
            DEF IInv, TypeOK, NoMissedExit, Owner, Waiters, Joins, Suspending
<1>12. NoAssertFails'
  BY <1>a, <1>b, Tids DEF IInv, NoAssertFails
<1>. QED  BY <1>1, <1>2, <1>3, <1>4, <1>5, <1>6, <1>7, <1>8, <1>9, <1>10, <1>11, <1>12 DEF IInv

\* condition_wait: the insertion.
LEMMA EnterWaitListStep ==
    ASSUME IInv, EnterWaitList
    PROVE  IInv'
<1>a. /\ pc[tp] = "wait" /\ tp \in TID /\ state[tp] = "WAITING" /\ tp # IDLE_TID
      /\ wait_cond[tp] \in Conds
  BY DEF IInv, TypeOK, Owner, Waiters, Idle, EnterWaitList, At
<1>b. /\ wait_list' = [wait_list EXCEPT ![wait_cond[tp]] =
                          tlinsert(wait_list[wait_cond[tp]], tp)]
      /\ pc' = [pc EXCEPT ![tp] = "suspend"]
      /\ UNCHANGED <<state, parent, wait_cond, ready_list, tp, ret, arg,
                     next_thread, a0, SIE, saved, pending, free_pages, halted>>
  BY DEF EnterWaitList
<1>c. /\ wait_list[wait_cond[tp]] \in Seq(TID)
      /\ Distinct(wait_list[wait_cond[tp]])
      /\ tp \notin Elems(wait_list[wait_cond[tp]])
  BY <1>a DEF IInv, TypeOK, ListsMatchStates
<1>d. /\ wait_list'[wait_cond[tp]] \in Seq(TID)
      /\ Distinct(wait_list'[wait_cond[tp]])
      /\ Elems(wait_list'[wait_cond[tp]]) = Elems(wait_list[wait_cond[tp]]) \cup {tp}
      /\ \A c \in Conds \ {wait_cond[tp]} : wait_list'[c] = wait_list[c]
  BY <1>a, <1>b, <1>c, InsertElems DEF IInv, TypeOK
<1>1. TypeOK'
  BY <1>a, <1>b, Tids, <1>d DEF IInv, TypeOK, Returns, PCs, States
<1>2. ListsMatchStates'
  BY <1>a, <1>b, Tids, <1>d DEF IInv, TypeOK, ListsMatchStates, Contexts,
     Owner
<1>3. Contexts'
  BY <1>a, <1>b, Tids DEF IInv, TypeOK, Contexts, Owner, OffHart
<1>4. Owner'
  BY <1>a, <1>b, Tids DEF IInv, TypeOK, Owner, Contexts, OffHart
<1>5. Waiters'
  BY <1>a, <1>b, Tids DEF IInv, TypeOK, Waiters, Owner, Suspending
<1>6. Masked'
  BY <1>a, <1>b, Tids DEF IInv, TypeOK, Masked, Owner
<1>7. Exiteds'
  BY <1>a, <1>b, Tids DEF IInv, TypeOK, Exiteds, Owner, Idle, Contexts,
     OffHart
<1>8. Idle'
  BY <1>a, <1>b, Tids DEF IInv, TypeOK, Idle, Owner, Exiteds, Contexts,
     OffHart
<1>9. Parents'
  BY <1>a, <1>b, Tids DEF IInv, TypeOK, Parents, Owner
<1>10. Joins'
  BY <1>a, <1>b, Tids DEF IInv, TypeOK, Joins, Owner, Suspending, Children,
     ExitedChildren
<1>11. NoMissedExit'
  BY <1>a, <1>b, Tids DEF IInv, TypeOK, NoMissedExit, Owner, Waiters,
     Suspending, Children, Joins
<1>12. NoAssertFails'
  BY <1>a, <1>b, Tids DEF IInv, NoAssertFails
<1>. QED  BY <1>1, <1>2, <1>3, <1>4, <1>5, <1>6, <1>7, <1>8, <1>9, <1>10, <1>11, <1>12 DEF IInv

\* condition_broadcast finds only threads that wait on its condition, and none
\* of them is still on its way into the list.
LEMMA BroadcastFacts ==
    ASSUME IInv, NEW c \in Conds
    PROVE  /\ BroadcastFault(c) = "no"
           /\ Broadcast(c) =>
                LET woken == {t \in TID : /\ state[t] = "WAITING"
                                          /\ wait_cond[t] = c
                                          /\ pc[t] # "wait"} IN
                /\ state' = [t \in TID |-> IF t \in woken THEN "READY" ELSE state[t]]
                /\ wait_cond' = [t \in TID |-> IF t \in woken THEN NoCond
                                               ELSE wait_cond[t]]
                /\ ready_list' \in Seq(TID)
                /\ Distinct(ready_list')
                /\ Elems(ready_list') = Elems(ready_list) \cup woken
                /\ ready_list # << >> => ready_list' # << >>
                /\ wait_list' \in [Conds -> Seq(TID)]
                /\ Distinct(wait_list'[c]) /\ Elems(wait_list'[c]) = {}
                /\ \A d \in Conds \ {c} : wait_list'[d] = wait_list[d]
<1> DEFINE woken == {t \in TID : /\ state[t] = "WAITING"
                                 /\ wait_cond[t] = c
                                 /\ pc[t] # "wait"}
<1>1. /\ wait_list \in [Conds -> Seq(TID)] /\ wait_list[c] \in Seq(TID)
      /\ ready_list \in Seq(TID)
  BY DEF IInv, TypeOK
<1>2. /\ Elems(wait_list[c]) = woken
      /\ Distinct(wait_list[c]) /\ Distinct(ready_list)
      /\ Elems(ready_list) = {t \in TID : state[t] = "READY"}
  BY DEF IInv, ListsMatchStates
<1>3. BroadcastFault(c) = "no"
  BY <1>2 DEF BroadcastFault
<1>4. Distinct(<< >>) /\ Elems(<< >>) = {} /\ << >> \in Seq(TID)
  BY DEF Distinct, Elems
<1>5. ASSUME Broadcast(c)
      PROVE  /\ ready_list' \in Seq(TID)
             /\ Distinct(ready_list')
             /\ Elems(ready_list') = Elems(ready_list) \cup woken
             /\ ready_list # << >> => ready_list' # << >>
  <2>1. ready_list' = tlappend(ready_list, wait_list[c])
    BY <1>5 DEF Broadcast
  <2>2. Elems(ready_list) \cap Elems(wait_list[c]) = {}
    BY <1>2
  <2>. QED  BY <1>1, <1>2, <2>1, <2>2, AppendElems
<1>6. ASSUME Broadcast(c)
      PROVE  /\ wait_list' \in [Conds -> Seq(TID)]
             /\ wait_list'[c] = << >>
             /\ \A d \in Conds \ {c} : wait_list'[d] = wait_list[d]
  BY <1>1, <1>4, <1>6 DEF Broadcast
<1>7. ASSUME Broadcast(c)
      PROVE  /\ state' = [t \in TID |-> IF t \in woken THEN "READY" ELSE state[t]]
             /\ wait_cond' = [t \in TID |-> IF t \in woken THEN NoCond
                                            ELSE wait_cond[t]]
  BY <1>2, <1>7 DEF Broadcast
<1>. QED  BY <1>3, <1>4, <1>5, <1>6, <1>7

\* lock_release: the broadcast.
LEMMA SignalLockStep ==
    ASSUME IInv, NEW c \in LockConds, SignalLock(c)
    PROVE  IInv'
<1>a. /\ pc[tp] = "run" /\ tp \in TID /\ state[tp] = "RUNNING" /\ c \in Conds
      /\ c \notin TID /\ c \notin IrqConds
  BY CondsAssumption DEF IInv, TypeOK, Owner, SignalLock, At, Conds
<1> DEFINE woken == {t \in TID : /\ state[t] = "WAITING"
                                 /\ wait_cond[t] = c
                                 /\ pc[t] # "wait"}
<1>b. /\ state' = [t \in TID |-> IF t \in woken THEN "READY" ELSE state[t]]
      /\ wait_cond' = [t \in TID |-> IF t \in woken THEN NoCond ELSE wait_cond[t]]
      /\ ready_list' \in Seq(TID) /\ Distinct(ready_list')
      /\ Elems(ready_list') = Elems(ready_list) \cup woken
      /\ ready_list # << >> => ready_list' # << >>
      /\ wait_list' \in [Conds -> Seq(TID)]
      /\ Distinct(wait_list'[c]) /\ Elems(wait_list'[c]) = {}
      /\ \A d \in Conds \ {c} : wait_list'[d] = wait_list[d]
      /\ UNCHANGED <<parent, tp, pc, ret, arg, next_thread, a0, SIE, saved,
                     pending, free_pages, halted>>
  <2>1. /\ Broadcast(c)
        /\ UNCHANGED <<parent, tp, pc, ret, arg, next_thread, a0, SIE, saved,
                       pending, free_pages, halted>>
    BY <1>a, BroadcastFacts DEF SignalLock
  <2>. QED  BY <1>a, <2>1, BroadcastFacts
<1>c. \A p \in TID : Children(p)' = Children(p) /\ ExitedChildren(p)' = ExitedChildren(p)
  BY <1>a, <1>b, Tids DEF IInv, TypeOK, Children, ExitedChildren
<1>d. \A t \in woken : ret[t] \notin {"join", "join_any"}
  BY <1>a DEF IInv, Waiters
<1>1. TypeOK'
  BY <1>a, <1>b, Tids DEF IInv, TypeOK, Returns, PCs, States
<1>2. ListsMatchStates'
  BY <1>a, <1>b, Tids DEF IInv, TypeOK, ListsMatchStates, Contexts, Owner
<1>3. Contexts'
  BY <1>a, <1>b, Tids DEF IInv, TypeOK, Contexts, Owner, OffHart
<1>4. Owner'
  BY <1>a, <1>b, Tids DEF IInv, TypeOK, Owner, Contexts, OffHart
<1>5. Waiters'
  BY <1>a, <1>b, Tids DEF IInv, TypeOK, Waiters, Owner, Suspending
<1>6. Masked'
  BY <1>a, <1>b, Tids DEF IInv, TypeOK, Masked, Owner
<1>7. Exiteds'
  BY <1>a, <1>b, Tids DEF IInv, TypeOK, Exiteds, Owner, Idle, Contexts,
     OffHart
<1>8. Idle'
  BY <1>a, <1>b, Tids DEF IInv, TypeOK, Idle, Owner, Exiteds, Contexts,
     OffHart
<1>9. Parents'
  BY <1>a, <1>b, Tids DEF IInv, TypeOK, Parents, Owner
<1>10. Joins'
  BY <1>a, <1>b, <1>c, <1>d DEF IInv, TypeOK, Joins, Suspending
<1>11. NoMissedExit'
  <2>1. ASSUME NEW p \in TID, state'[p] = "WAITING", wait_cond'[p] = p
        PROVE  /\ state[p] = "WAITING" /\ wait_cond[p] = p /\ ret'[p] = ret[p]
               /\ ret[p] = "join" => arg[p] \in Children(p)
    BY <1>a, <1>b, <2>1 DEF IInv, TypeOK, Waiters, Joins
  <2>2. \A p \in TID : Children(p) \subseteq TID
    BY Tids DEF Children
  <2>3. \A x \in TID : state'[x] = "EXITED" => state[x] = "EXITED"
    BY <1>b DEF IInv, TypeOK
  <2>4. \A x \in TID : pc[x] = "exit" => pc'[x] = "exit"
    BY <1>a, <1>b DEF IInv, TypeOK
  <2>. QED  BY <1>a, <1>b, <1>c, <2>1, <2>2, <2>3, <2>4 DEF IInv, NoMissedExit
<1>12. NoAssertFails'
  BY <1>a, <1>b, Tids DEF IInv, NoAssertFails
<1>. QED  BY <1>1, <1>2, <1>3, <1>4, <1>5, <1>6, <1>7, <1>8, <1>9, <1>10, <1>11, <1>12 DEF IInv

\* intr_handler: the ISR's broadcast, and the yield of an interrupted user thread.
LEMMA InterruptStep ==
    ASSUME IInv, NEW c \in IrqConds, Interrupt(c)
    PROVE  IInv'
<1>a. /\ tp \in TID /\ c \in Conds /\ c \notin TID
      /\ SIE \/ pc[tp] = "user"
      /\ pc[tp] = "user" => state[tp] = "RUNNING"
  BY CondsAssumption DEF IInv, TypeOK, Owner, Interrupt, Conds
<1> DEFINE woken == {t \in TID : /\ state[t] = "WAITING"
                                 /\ wait_cond[t] = c
                                 /\ pc[t] # "wait"}
<1>b. /\ state' = [t \in TID |-> IF t \in woken THEN "READY" ELSE state[t]]
      /\ wait_cond' = [t \in TID |-> IF t \in woken THEN NoCond ELSE wait_cond[t]]
      /\ ready_list' \in Seq(TID) /\ Distinct(ready_list')
      /\ Elems(ready_list') = Elems(ready_list) \cup woken
      /\ ready_list # << >> => ready_list' # << >>
      /\ wait_list' \in [Conds -> Seq(TID)]
      /\ Distinct(wait_list'[c]) /\ Elems(wait_list'[c]) = {}
      /\ \A d \in Conds \ {c} : wait_list'[d] = wait_list[d]
      /\ pending' = pending \ {c}
      /\ UNCHANGED <<parent, tp, arg, next_thread, a0, saved, free_pages, halted>>
      /\ AfterIsr
  <2>1. /\ Broadcast(c)
        /\ AfterIsr
        /\ pending' = pending \ {c}
        /\ UNCHANGED <<parent, tp, arg, next_thread, a0, saved, free_pages, halted>>
    BY <1>a, BroadcastFacts DEF Interrupt
  <2>. QED  BY <1>a, <2>1, BroadcastFacts
<1>c. \A p \in TID : Children(p)' = Children(p) /\ ExitedChildren(p)' = ExitedChildren(p)
  BY <1>a, <1>b, Tids DEF IInv, TypeOK, Children, ExitedChildren
<1>d. \A t \in woken : ret[t] \notin {"join", "join_any"}
  BY <1>a DEF IInv, Waiters
<1>e. tp \in woken => pc[tp] = "picked"
  BY <1>a DEF IInv, Owner, Masked, Waiters, Suspending, Contexts, TypeOK
<1>f. \/ /\ pc[tp] = "user"
         /\ pc' = [pc EXCEPT ![tp] = "suspend"]
         /\ ret' = [ret EXCEPT ![tp] = "user"]
         /\ SIE' = FALSE
      \/ pc[tp] # "user" /\ pc' = pc /\ ret' = ret /\ SIE' = SIE
  BY <1>b DEF AfterIsr
<1>g. pc[tp] # "wfi" /\ (pc[tp] = "user" => tp # IDLE_TID)
  BY <1>a DEF IInv, Idle
<1>1. TypeOK'
  <2>1. /\ pc' \in [TID -> PCs] /\ ret' \in [TID -> Returns] /\ SIE' \in BOOLEAN
    BY <1>a, <1>f DEF IInv, TypeOK, PCs, Returns
  <2>2. /\ state' \in [TID -> States]
        /\ wait_cond' \in [TID -> Conds \cup {NoCond}]
        /\ pending' \subseteq IrqConds
    BY <1>b DEF IInv, TypeOK, States
  <2>. QED  BY <1>b, <2>1, <2>2 DEF IInv, TypeOK
<1>2. ListsMatchStates'
  BY <1>a, <1>b, <1>e, <1>f, <1>g, Tids DEF IInv, TypeOK, ListsMatchStates,
     Contexts, Owner
<1>3. Contexts'
  BY <1>a, <1>b, <1>e, <1>f, <1>g, Tids DEF IInv, TypeOK, Contexts, Owner,
     OffHart
<1>4. Owner'
  BY <1>a, <1>b, <1>e, <1>f, <1>g, Tids DEF IInv, TypeOK, Owner, Contexts,
     OffHart
<1>5. Waiters'
  BY <1>a, <1>b, <1>e, <1>f, <1>g, Tids DEF IInv, TypeOK, Waiters, Owner,
     Suspending
<1>6. Masked'
  BY <1>a, <1>b, <1>e, <1>f, <1>g, Tids DEF IInv, TypeOK, Masked, Owner
<1>7. Exiteds'
  BY <1>a, <1>b, <1>e, <1>f, <1>g, Tids DEF IInv, TypeOK, Exiteds, Owner,
     Idle, Contexts, OffHart
<1>8. Idle'
  BY <1>a, <1>b, <1>e, <1>f, <1>g, Tids DEF IInv, TypeOK, Idle, Owner,
     Exiteds, Contexts, OffHart
<1>9. Parents'
  BY <1>a, <1>b, <1>e, <1>f, <1>g, Tids DEF IInv, TypeOK, Parents, Owner
<1>10. Joins'
  BY <1>a, <1>b, <1>c, <1>d, <1>f DEF IInv, TypeOK, Joins, Suspending
<1>11. NoMissedExit'
  <2>1. ASSUME NEW p \in TID, state'[p] = "WAITING", wait_cond'[p] = p
        PROVE  /\ state[p] = "WAITING" /\ wait_cond[p] = p /\ ret'[p] = ret[p]
               /\ ret[p] = "join" => arg[p] \in Children(p)
    BY <1>a, <1>b, <1>f, <2>1 DEF IInv, TypeOK, Waiters, Joins
  <2>2. \A p \in TID : Children(p) \subseteq TID
    BY Tids DEF Children
  <2>3. \A x \in TID : state'[x] = "EXITED" => state[x] = "EXITED"
    BY <1>b DEF IInv, TypeOK
  <2>4. \A x \in TID : pc[x] = "exit" => pc'[x] = "exit"
    BY <1>a, <1>b, <1>f DEF IInv, TypeOK
  <2>. QED  BY <1>a, <1>b, <1>c, <2>1, <2>2, <2>3, <2>4 DEF IInv, NoMissedExit
<1>12. NoAssertFails'
  BY <1>a, <1>b, <1>e, <1>f, <1>g, Tids DEF IInv, NoAssertFails
<1>. QED  BY <1>1, <1>2, <1>3, <1>4, <1>5, <1>6, <1>7, <1>8, <1>9, <1>10, <1>11, <1>12 DEF IInv

\* thread_exit: the broadcast of the parent's child_exit.
LEMMA SignalParentStep ==
    ASSUME IInv, SignalParent
    PROVE  IInv'
<1> DEFINE c == parent[tp]
<1>a. /\ pc[tp] = "exit" /\ tp \in TID \ {MAIN_TID, IDLE_TID} /\ state[tp] = "EXITED"
      /\ c \in TID /\ c \in Conds /\ c \notin IrqConds /\ tp \in Children(c)
  BY CondsAssumption, Tids
     DEF IInv, TypeOK, Owner, Exiteds, Parents, SignalParent, At, Conds, Children
<1> HIDE DEF c
<1> DEFINE woken == {t \in TID : /\ state[t] = "WAITING"
                                 /\ wait_cond[t] = c
                                 /\ pc[t] # "wait"}
<1>b. /\ state' = [t \in TID |-> IF t \in woken THEN "READY" ELSE state[t]]
      /\ wait_cond' = [t \in TID |-> IF t \in woken THEN NoCond ELSE wait_cond[t]]
      /\ ready_list' \in Seq(TID) /\ Distinct(ready_list')
      /\ Elems(ready_list') = Elems(ready_list) \cup woken
      /\ ready_list # << >> => ready_list' # << >>
      /\ wait_list' \in [Conds -> Seq(TID)]
      /\ Distinct(wait_list'[c]) /\ Elems(wait_list'[c]) = {}
      /\ \A d \in Conds \ {c} : wait_list'[d] = wait_list[d]
      /\ pc' = [pc EXCEPT ![tp] = "suspend"]
      /\ ret' = [ret EXCEPT ![tp] = "exited"]
      /\ UNCHANGED <<parent, tp, arg, next_thread, a0, SIE, saved, pending,
                     free_pages, halted>>
  <2>1. /\ Broadcast(c)
        /\ pc' = [pc EXCEPT ![tp] = "suspend"]
        /\ ret' = [ret EXCEPT ![tp] = "exited"]
        /\ UNCHANGED <<parent, tp, arg, next_thread, a0, SIE, saved, pending,
                       free_pages, halted>>
    BY <1>a, BroadcastFacts DEF SignalParent, ExitCond, c
  <2>. QED  BY <1>a, <2>1, BroadcastFacts
<1>c. \A p \in TID : Children(p)' = Children(p) /\ ExitedChildren(p)' = ExitedChildren(p)
  BY <1>a, <1>b, Tids DEF IInv, TypeOK, Children, ExitedChildren
<1>d. \A t \in woken : t = c
  BY <1>a DEF IInv, Waiters
<1>e. tp \in ExitedChildren(c)
  BY <1>a DEF ExitedChildren
<1>1. TypeOK'
  BY <1>a, <1>b, <1>d, Tids DEF IInv, TypeOK, Returns, PCs, States
<1>2. ListsMatchStates'
  <2>1. \A t \in TID : pc[t] = "wait" <=> pc'[t] = "wait"
    BY <1>a, <1>b DEF IInv, TypeOK
  <2>2. \A t \in TID : pc[t] # "wait"
    BY <1>a DEF IInv, Contexts, OffHart
  <2>3. Elems(ready_list') = {t \in TID : state'[t] = "READY"}
    BY <1>b DEF IInv, TypeOK, ListsMatchStates
  <2>4. ASSUME NEW d \in Conds
        PROVE  /\ Distinct(wait_list'[d])
               /\ Elems(wait_list'[d]) = {t \in TID : /\ state'[t] = "WAITING"
                                                      /\ wait_cond'[t] = d
                                                      /\ pc'[t] # "wait"}
    <3>1. CASE d = c
      <4>1. \A t \in TID : ~(state'[t] = "WAITING" /\ wait_cond'[t] = c)
        BY <1>a, <1>b, <2>2
      <4>. QED  BY <1>b, <3>1, <4>1
    <3>2. CASE d # c
      <4>1. \A t \in TID : (state'[t] = "WAITING" /\ wait_cond'[t] = d)
                              <=> (state[t] = "WAITING" /\ wait_cond[t] = d)
        BY <1>a, <1>b, <3>2 DEF IInv, TypeOK, NoCond, Conds
      <4>. QED  BY <1>b, <2>1, <3>2, <4>1 DEF IInv, ListsMatchStates
    <3>. QED  BY <3>1, <3>2
  <2>. QED  BY <1>b, <2>3, <2>4 DEF ListsMatchStates
<1>3. Contexts'
  BY <1>a, <1>b, <1>d, Tids DEF IInv, TypeOK, Contexts, Owner, OffHart
<1>4. Owner'
  BY <1>a, <1>b, <1>d, Tids DEF IInv, TypeOK, Owner, Contexts, OffHart
<1>5. Waiters'
  BY <1>a, <1>b, <1>d, Tids DEF IInv, TypeOK, Waiters, Owner, Suspending
<1>6. Masked'
  BY <1>a, <1>b, <1>d, Tids DEF IInv, TypeOK, Masked, Owner
<1>7. Exiteds'
  BY <1>a, <1>b, <1>d, Tids DEF IInv, TypeOK, Exiteds, Owner, Idle, Contexts,
     OffHart
<1>8. Idle'
  BY <1>a, <1>b, <1>d, Tids DEF IInv, TypeOK, Idle, Owner, Exiteds, Contexts,
     OffHart
<1>9. Parents'
  BY <1>a, <1>b, <1>d, Tids DEF IInv, TypeOK, Parents, Owner
<1>10. Joins'
  BY <1>a, <1>b, <1>c, <1>d, <1>e DEF IInv, TypeOK, Joins, Suspending
<1>11. NoMissedExit'
  <2>1. ASSUME NEW p \in TID, state'[p] = "WAITING", wait_cond'[p] = p
        PROVE  /\ state[p] = "WAITING" /\ wait_cond[p] = p /\ p # c /\ ret'[p] = ret[p]
               /\ ret[p] = "join" => arg[p] \in Children(p)
    <3>1. state[p] = "WAITING" /\ wait_cond[p] = p /\ p # c
      <4>1. p \notin woken
        BY <1>b, <2>1
      <4>2. state[p] = "WAITING" /\ wait_cond[p] = p
        BY <1>b, <2>1, <4>1
      <4>3. pc[p] # "wait"
        BY <1>a DEF IInv, Contexts, OffHart
      <4>. QED  BY <4>1, <4>2, <4>3
    <3>2. pc[p] \in Suspending
      BY <3>1 DEF IInv, Waiters
    <3>3. p # tp
      BY <1>a, <3>2 DEF Suspending
    <3>4. ret'[p] = ret[p]
      BY <1>b, <3>3 DEF IInv, TypeOK
    <3>5. ret[p] = "join" => arg[p] \in Children(p)
      BY <3>2 DEF IInv, Joins
    <3>. QED  BY <3>1, <3>4, <3>5
  <2>2. \A p \in TID : p # c => tp \notin Children(p)
    BY <1>a DEF Children
  <2>3. \A p \in TID : Children(p) \subseteq TID
    BY Tids DEF Children
  <2>4. \A x \in TID : state'[x] = "EXITED" => state[x] = "EXITED"
    BY <1>b DEF IInv, TypeOK
  <2>5. ASSUME NEW p \in TID, state'[p] = "WAITING", wait_cond'[p] = p,
               NEW x \in IF ret'[p] = "join" THEN {arg'[p]} ELSE Children(p)',
               state'[x] = "EXITED"
        PROVE  FALSE
    <3>1. x \in Children(p) /\ x # tp /\ x \in TID
      BY <1>b, <1>c, <2>1, <2>2, <2>3, <2>5
    <3>2. state[x] = "EXITED" /\ x \in IF ret[p] = "join" THEN {arg[p]} ELSE Children(p)
      BY <1>b, <1>c, <2>1, <2>4, <2>5, <3>1
    <3>. QED  BY <2>1, <2>5, <3>1, <3>2 DEF IInv, NoMissedExit
  <2>. QED  BY <2>5 DEF NoMissedExit
<1>12. NoAssertFails'
  BY <1>a, <1>b, <1>d, Tids DEF IInv, NoAssertFails
<1>. QED  BY <1>1, <1>2, <1>3, <1>4, <1>5, <1>6, <1>7, <1>8, <1>9, <1>10, <1>11, <1>12 DEF IInv

\* halt_success and the panics that a caller provokes.
LEMMA HaltStep ==
    ASSUME IInv, NEW why \in {"success"} \cup Panics, Halt(why)
    PROVE  IInv'
<1>a. /\ halted' = why
      /\ UNCHANGED <<state, parent, wait_cond, ready_list, wait_list, tp, pc, ret,
                     arg, next_thread, a0, SIE, saved, pending, free_pages>>
  BY DEF Halt
<1>b. why \notin Asserts
  BY DEF Asserts, Panics
<1>1. TypeOK'
  BY <1>a, <1>b, Tids DEF IInv, TypeOK, Returns, PCs, States
<1>2. ListsMatchStates'
  BY <1>a, <1>b, Tids DEF IInv, TypeOK, ListsMatchStates, Contexts, Owner
<1>3. Contexts'
  BY <1>a, <1>b, Tids DEF IInv, TypeOK, Contexts, Owner, OffHart
<1>4. Owner'
  BY <1>a, <1>b, Tids DEF IInv, TypeOK, Owner, Contexts, OffHart
<1>5. Waiters'
  BY <1>a, <1>b, Tids DEF IInv, TypeOK, Waiters, Owner, Suspending
<1>6. Masked'
  BY <1>a, <1>b, Tids DEF IInv, TypeOK, Masked, Owner
<1>7. Exiteds'
  BY <1>a, <1>b, Tids DEF IInv, TypeOK, Exiteds, Owner, Idle, Contexts,
     OffHart
<1>8. Idle'
  BY <1>a, <1>b, Tids DEF IInv, TypeOK, Idle, Owner, Exiteds, Contexts,
     OffHart
<1>9. Parents'
  BY <1>a, <1>b, Tids DEF IInv, TypeOK, Parents, Owner
<1>10. Joins'
  BY <1>a, <1>b, Tids DEF IInv, TypeOK, Joins, Owner, Suspending, Children,
     ExitedChildren
<1>11. NoMissedExit'
  BY <1>a, <1>b, Tids DEF IInv, TypeOK, NoMissedExit, Owner, Waiters,
     Suspending, Children, Joins
<1>12. NoAssertFails'
  BY <1>a, <1>b, Tids DEF IInv, NoAssertFails
<1>. QED  BY <1>1, <1>2, <1>3, <1>4, <1>5, <1>6, <1>7, <1>8, <1>9, <1>10, <1>11, <1>12 DEF IInv

\* wfi and intr_enable.
LEMMA IdleWakeStep ==
    ASSUME IInv, IdleWake
    PROVE  IInv'
<1>a. pc[tp] = "wfi" /\ tp \in TID /\ state[tp] = "RUNNING"
  BY DEF IInv, TypeOK, Owner, IdleWake, At
<1>b. /\ SIE' = TRUE
      /\ pc' = [pc EXCEPT ![tp] = "idle"]
      /\ UNCHANGED <<state, parent, wait_cond, ready_list, wait_list, tp, ret, arg,
                     next_thread, a0, saved, pending, free_pages, halted>>
  BY DEF IdleWake
<1>1. TypeOK'
  BY <1>a, <1>b, Tids DEF IInv, TypeOK, Returns, PCs, States
<1>2. ListsMatchStates'
  BY <1>a, <1>b, Tids DEF IInv, TypeOK, ListsMatchStates, Contexts, Owner
<1>3. Contexts'
  BY <1>a, <1>b, Tids DEF IInv, TypeOK, Contexts, Owner, OffHart
<1>4. Owner'
  BY <1>a, <1>b, Tids DEF IInv, TypeOK, Owner, Contexts, OffHart
<1>5. Waiters'
  BY <1>a, <1>b, Tids DEF IInv, TypeOK, Waiters, Owner, Suspending
<1>6. Masked'
  BY <1>a, <1>b, Tids DEF IInv, TypeOK, Masked, Owner
<1>7. Exiteds'
  BY <1>a, <1>b, Tids DEF IInv, TypeOK, Exiteds, Owner, Idle, Contexts,
     OffHart
<1>8. Idle'
  BY <1>a, <1>b, Tids DEF IInv, TypeOK, Idle, Owner, Exiteds, Contexts,
     OffHart
<1>9. Parents'
  BY <1>a, <1>b, Tids DEF IInv, TypeOK, Parents, Owner
<1>10. Joins'
  BY <1>a, <1>b, Tids DEF IInv, TypeOK, Joins, Owner, Suspending, Children,
     ExitedChildren
<1>11. NoMissedExit'
  BY <1>a, <1>b, Tids DEF IInv, TypeOK, NoMissedExit, Owner, Waiters,
     Suspending, Children, Joins
<1>12. NoAssertFails'
  BY <1>a, <1>b, Tids DEF IInv, NoAssertFails
<1>. QED  BY <1>1, <1>2, <1>3, <1>4, <1>5, <1>6, <1>7, <1>8, <1>9, <1>10, <1>11, <1>12 DEF IInv

\* thread_jump_to_user and sret.
LEMMA EnterUserStep ==
    ASSUME IInv, EnterUser
    PROVE  IInv'
<1>a. pc[tp] = "run" /\ tp \in TID /\ state[tp] = "RUNNING"
  BY DEF IInv, TypeOK, Owner, EnterUser, At
<1>b. /\ pc' = [pc EXCEPT ![tp] = "user"]
      /\ UNCHANGED <<state, parent, wait_cond, ready_list, wait_list, tp, ret, arg,
                     next_thread, a0, SIE, saved, pending, free_pages, halted>>
  BY DEF EnterUser
<1>1. TypeOK'
  BY <1>a, <1>b, Tids DEF IInv, TypeOK, Returns, PCs, States
<1>2. ListsMatchStates'
  BY <1>a, <1>b, Tids DEF IInv, TypeOK, ListsMatchStates, Contexts, Owner
<1>3. Contexts'
  BY <1>a, <1>b, Tids DEF IInv, TypeOK, Contexts, Owner, OffHart
<1>4. Owner'
  BY <1>a, <1>b, Tids DEF IInv, TypeOK, Owner, Contexts, OffHart
<1>5. Waiters'
  BY <1>a, <1>b, Tids DEF IInv, TypeOK, Waiters, Owner, Suspending
<1>6. Masked'
  BY <1>a, <1>b, Tids DEF IInv, TypeOK, Masked, Owner
<1>7. Exiteds'
  BY <1>a, <1>b, Tids DEF IInv, TypeOK, Exiteds, Owner, Idle, Contexts,
     OffHart
<1>8. Idle'
  BY <1>a, <1>b, Tids DEF IInv, TypeOK, Idle, Owner, Exiteds, Contexts,
     OffHart
<1>9. Parents'
  BY <1>a, <1>b, Tids DEF IInv, TypeOK, Parents, Owner
<1>10. Joins'
  BY <1>a, <1>b, Tids DEF IInv, TypeOK, Joins, Owner, Suspending, Children,
     ExitedChildren
<1>11. NoMissedExit'
  BY <1>a, <1>b, Tids DEF IInv, TypeOK, NoMissedExit, Owner, Waiters,
     Suspending, Children, Joins
<1>12. NoAssertFails'
  BY <1>a, <1>b, Tids DEF IInv, NoAssertFails
<1>. QED  BY <1>1, <1>2, <1>3, <1>4, <1>5, <1>6, <1>7, <1>8, <1>9, <1>10, <1>11, <1>12 DEF IInv

\* ecall.
LEMMA SyscallStep ==
    ASSUME IInv, Syscall
    PROVE  IInv'
<1>a. pc[tp] = "user" /\ tp \in TID /\ state[tp] = "RUNNING"
  BY DEF IInv, TypeOK, Owner, Syscall, At
<1>b. /\ SIE' = FALSE
      /\ pc' = [pc EXCEPT ![tp] = "run"]
      /\ UNCHANGED <<state, parent, wait_cond, ready_list, wait_list, tp, ret, arg,
                     next_thread, a0, saved, pending, free_pages, halted>>
  BY DEF Syscall
<1>1. TypeOK'
  BY <1>a, <1>b, Tids DEF IInv, TypeOK, Returns, PCs, States
<1>2. ListsMatchStates'
  BY <1>a, <1>b, Tids DEF IInv, TypeOK, ListsMatchStates, Contexts, Owner
<1>3. Contexts'
  BY <1>a, <1>b, Tids DEF IInv, TypeOK, Contexts, Owner, OffHart
<1>4. Owner'
  BY <1>a, <1>b, Tids DEF IInv, TypeOK, Owner, Contexts, OffHart
<1>5. Waiters'
  BY <1>a, <1>b, Tids DEF IInv, TypeOK, Waiters, Owner, Suspending
<1>6. Masked'
  BY <1>a, <1>b, Tids DEF IInv, TypeOK, Masked, Owner
<1>7. Exiteds'
  BY <1>a, <1>b, Tids DEF IInv, TypeOK, Exiteds, Owner, Idle, Contexts,
     OffHart
<1>8. Idle'
  BY <1>a, <1>b, Tids DEF IInv, TypeOK, Idle, Owner, Exiteds, Contexts,
     OffHart
<1>9. Parents'
  BY <1>a, <1>b, Tids DEF IInv, TypeOK, Parents, Owner
<1>10. Joins'
  BY <1>a, <1>b, Tids DEF IInv, TypeOK, Joins, Owner, Suspending, Children,
     ExitedChildren
<1>11. NoMissedExit'
  BY <1>a, <1>b, Tids DEF IInv, TypeOK, NoMissedExit, Owner, Waiters,
     Suspending, Children, Joins
<1>12. NoAssertFails'
  BY <1>a, <1>b, Tids DEF IInv, NoAssertFails
<1>. QED  BY <1>1, <1>2, <1>3, <1>4, <1>5, <1>6, <1>7, <1>8, <1>9, <1>10, <1>11, <1>12 DEF IInv

\* intr_disable and the second look at the ready list.
LEMMA IdleDisableStep ==
    ASSUME IInv, IdleDisable
    PROVE  IInv'
<1>a. pc[tp] = "idle_empty" /\ tp \in TID /\ state[tp] = "RUNNING" /\ tp = IDLE_TID
  BY DEF IInv, TypeOK, Owner, Idle, IdleDisable, At
<1>b. /\ \/ ready_list = << >> /\ SIE' = FALSE /\ pc' = [pc EXCEPT ![tp] = "wfi"]
         \/ SIE' = TRUE /\ pc' = [pc EXCEPT ![tp] = "idle"]
      /\ UNCHANGED <<state, parent, wait_cond, ready_list, wait_list, tp, ret, arg,
                     next_thread, a0, saved, pending, free_pages, halted>>
  BY DEF IdleDisable
<1>1. TypeOK'
  <2>1. SIE' \in BOOLEAN
    BY <1>b
  <2>2. pc' \in [TID -> PCs]
    <3>1. "wfi" \in PCs /\ "idle" \in PCs /\ pc \in [TID -> PCs]
      BY DEF IInv, TypeOK, PCs, Returns
    <3>. QED  BY <1>b, <3>1
  <2>. QED  BY <1>b, <2>1, <2>2 DEF IInv, TypeOK
<1>2. ListsMatchStates'
  BY <1>a, <1>b, Tids DEF IInv, TypeOK, ListsMatchStates, Contexts, Owner
<1>3. Contexts'
  BY <1>a, <1>b, Tids DEF IInv, TypeOK, Contexts, Owner, OffHart
<1>4. Owner'
  BY <1>a, <1>b, Tids DEF IInv, TypeOK, Owner, Contexts, OffHart
<1>5. Waiters'
  <2>1. \A t \in TID : state[t] = "WAITING" => pc'[t] = pc[t]
    BY <1>a, <1>b DEF IInv, TypeOK
  <2>. QED  BY <1>b, <2>1 DEF IInv, Waiters
<1>6. Masked'
  BY <1>a, <1>b, Tids DEF IInv, TypeOK, Masked, Owner
<1>7. Exiteds'
  BY <1>a, <1>b, Tids DEF IInv, TypeOK, Exiteds, Owner, Idle, Contexts,
     OffHart
<1>8. Idle'
  BY <1>a, <1>b, Tids DEF IInv, TypeOK, Idle, Owner, Exiteds, Contexts,
     OffHart
<1>9. Parents'
  BY <1>a, <1>b, Tids DEF IInv, TypeOK, Parents, Owner
<1>10. Joins'
  BY <1>a, <1>b, Tids DEF IInv, TypeOK, Joins, Owner, Suspending, Children,
     ExitedChildren
<1>11. NoMissedExit'
  BY <1>a, <1>b, Tids DEF IInv, TypeOK, NoMissedExit, Owner, Waiters,
     Suspending, Children, Joins
<1>12. NoAssertFails'
  BY <1>a, <1>b, Tids DEF IInv, NoAssertFails
<1>. QED  BY <1>1, <1>2, <1>3, <1>4, <1>5, <1>6, <1>7, <1>8, <1>9, <1>10, <1>11, <1>12 DEF IInv

\* the idle loop finds the ready list empty.
LEMMA IdleEmptyStep ==
    ASSUME IInv, At("idle"),
           pc' = [pc EXCEPT ![tp] = "idle_empty"],
           UNCHANGED <<state, parent, wait_cond, ready_list, wait_list, tp, ret, arg,
                       next_thread, a0, SIE, saved, pending, free_pages, halted>>
    PROVE  IInv'
<1>a. pc[tp] = "idle" /\ tp \in TID /\ state[tp] = "RUNNING" /\ tp = IDLE_TID
  BY DEF IInv, TypeOK, Owner, Idle, At
<1>1. TypeOK'
  BY <1>a, Tids DEF IInv, TypeOK, Returns, PCs, States
<1>2. ListsMatchStates'
  BY <1>a, Tids DEF IInv, TypeOK, ListsMatchStates, Contexts, Owner
<1>3. Contexts'
  BY <1>a, Tids DEF IInv, TypeOK, Contexts, Owner, OffHart
<1>4. Owner'
  BY <1>a, Tids DEF IInv, TypeOK, Owner, Contexts, OffHart
<1>5. Waiters'
  BY <1>a, Tids DEF IInv, TypeOK, Waiters, Owner, Suspending
<1>6. Masked'
  BY <1>a, Tids DEF IInv, TypeOK, Masked, Owner
<1>7. Exiteds'
  BY <1>a, Tids DEF IInv, TypeOK, Exiteds, Owner, Idle, Contexts, OffHart
<1>8. Idle'
  BY <1>a, Tids DEF IInv, TypeOK, Idle, Owner, Exiteds, Contexts, OffHart
<1>9. Parents'
  BY <1>a, Tids DEF IInv, TypeOK, Parents, Owner
<1>10. Joins'
  BY <1>a, Tids DEF IInv, TypeOK, Joins, Owner, Suspending, Children,
     ExitedChildren
<1>11. NoMissedExit'
  BY <1>a, Tids DEF IInv, TypeOK, NoMissedExit, Owner, Waiters, Suspending,
     Children, Joins
<1>12. NoAssertFails'
  BY <1>a, Tids DEF IInv, NoAssertFails
<1>. QED  BY <1>1, <1>2, <1>3, <1>4, <1>5, <1>6, <1>7, <1>8, <1>9, <1>10, <1>11, <1>12 DEF IInv

\* an interrupt line goes up.
LEMMA RaiseStep ==
    ASSUME IInv, NEW c \in IrqConds, Raise(c)
    PROVE  IInv'
<1>a. /\ pending' = pending \cup {c}
      /\ UNCHANGED <<state, parent, wait_cond, ready_list, wait_list, tp, pc, ret,
                     arg, next_thread, a0, SIE, saved, free_pages, halted>>
  BY DEF Raise
<1>1. TypeOK'
  BY <1>a, Tids DEF IInv, TypeOK, Returns, PCs, States
<1>2. ListsMatchStates'
  BY <1>a, Tids DEF IInv, TypeOK, ListsMatchStates, Contexts, Owner
<1>3. Contexts'
  BY <1>a, Tids DEF IInv, TypeOK, Contexts, Owner, OffHart
<1>4. Owner'
  BY <1>a, Tids DEF IInv, TypeOK, Owner, Contexts, OffHart
<1>5. Waiters'
  BY <1>a, Tids DEF IInv, TypeOK, Waiters, Owner, Suspending
<1>6. Masked'
  BY <1>a, Tids DEF IInv, TypeOK, Masked, Owner
<1>7. Exiteds'
  BY <1>a, Tids DEF IInv, TypeOK, Exiteds, Owner, Idle, Contexts, OffHart
<1>8. Idle'
  BY <1>a, Tids DEF IInv, TypeOK, Idle, Owner, Exiteds, Contexts, OffHart
<1>9. Parents'
  BY <1>a, Tids DEF IInv, TypeOK, Parents, Owner
<1>10. Joins'
  BY <1>a, Tids DEF IInv, TypeOK, Joins, Owner, Suspending, Children,
     ExitedChildren
<1>11. NoMissedExit'
  BY <1>a, Tids DEF IInv, TypeOK, NoMissedExit, Owner, Waiters, Suspending,
     Children, Joins
<1>12. NoAssertFails'
  BY <1>a, Tids DEF IInv, NoAssertFails
<1>. QED  BY <1>1, <1>2, <1>3, <1>4, <1>5, <1>6, <1>7, <1>8, <1>9, <1>10, <1>11, <1>12 DEF IInv

\* thread_join up to its loop.
LEMMA JoinStep ==
    ASSUME IInv, NEW tid \in TID, Join(tid)
    PROVE  IInv'
<1>a. pc[tp] = "run" /\ tp \in TID /\ state[tp] = "RUNNING" /\ tid \in Children(tp)
  BY DEF IInv, TypeOK, Owner, Join, At
<1>b. /\ arg' = [arg EXCEPT ![tp] = tid]
      /\ pc' = [pc EXCEPT ![tp] = "join"]
      /\ UNCHANGED <<state, parent, wait_cond, ready_list, wait_list, tp, ret,
                     next_thread, a0, SIE, saved, pending, free_pages, halted>>
  BY DEF Join
<1>1. TypeOK'
  BY <1>a, <1>b, Tids DEF IInv, TypeOK, Returns, PCs, States
<1>2. ListsMatchStates'
  BY <1>a, <1>b, Tids DEF IInv, TypeOK, ListsMatchStates, Contexts, Owner
<1>3. Contexts'
  BY <1>a, <1>b, Tids DEF IInv, TypeOK, Contexts, Owner, OffHart
<1>4. Owner'
  BY <1>a, <1>b, Tids DEF IInv, TypeOK, Owner, Contexts, OffHart
<1>5. Waiters'
  BY <1>a, <1>b, Tids DEF IInv, TypeOK, Waiters, Owner, Suspending
<1>6. Masked'
  BY <1>a, <1>b, Tids DEF IInv, TypeOK, Masked, Owner
<1>7. Exiteds'
  BY <1>a, <1>b, Tids DEF IInv, TypeOK, Exiteds, Owner, Idle, Contexts,
     OffHart
<1>8. Idle'
  BY <1>a, <1>b, Tids DEF IInv, TypeOK, Idle, Owner, Exiteds, Contexts,
     OffHart
<1>9. Parents'
  BY <1>a, <1>b, Tids DEF IInv, TypeOK, Parents, Owner
<1>10. Joins'
  BY <1>a, <1>b, Tids DEF IInv, TypeOK, Joins, Owner, Suspending, Children,
     ExitedChildren
<1>11. NoMissedExit'
  BY <1>a, <1>b, Tids DEF IInv, TypeOK, NoMissedExit, Owner, Waiters,
     Suspending, Children, Joins
<1>12. NoAssertFails'
  BY <1>a, <1>b, Tids DEF IInv, NoAssertFails
<1>. QED  BY <1>1, <1>2, <1>3, <1>4, <1>5, <1>6, <1>7, <1>8, <1>9, <1>10, <1>11, <1>12 DEF IInv

\* thread_spawn up to _thread_setup.
LEMMA SpawnStep ==
    ASSUME IInv, Spawn
    PROVE  IInv'
<1>a. pc[tp] = "run" /\ tp \in TID /\ state[tp] = "RUNNING"
  BY DEF IInv, TypeOK, Owner, Spawn, At
<1>0. CASE halted' # "no"
  <2>1. Halt("Too many threads") \/ Halt("No free pages available")
    BY <1>0 DEF Spawn, At
  <2>. QED  BY <2>1, HaltStep DEF Panics
<1>. SUFFICES ASSUME halted' = "no" PROVE IInv'
  BY <1>0
<1>p. PICK tid \in Lowest(FreeSlots) :
            /\ free_pages # 0
            /\ free_pages' = free_pages - 1
            /\ parent' = [parent EXCEPT ![tid] = tp]
            /\ state' = [state EXCEPT ![tid] = "READY"]
            /\ wait_cond' = [wait_cond EXCEPT ![tid] = NoCond]
            /\ ready_list' = tlinsert(ready_list, tid)
            /\ arg' = [arg EXCEPT ![tp] = tid]
            /\ pc' = [pc EXCEPT ![tp] = "setup", ![tid] = "raw"]
            /\ UNCHANGED <<wait_list, tp, ret, next_thread, a0, SIE, saved,
                           pending, halted>>
  BY DEF Spawn, Halt, At
<1>b. /\ tid \in TID /\ tid # tp /\ tid # IDLE_TID /\ tid # MAIN_TID
      /\ state[tid] = "FREE" /\ pc[tid] = "none"
  BY <1>a, Tids DEF Lowest, FreeSlots, IInv, Idle, Contexts
<1>d. /\ ready_list' \in Seq(TID) /\ Distinct(ready_list')
      /\ Elems(ready_list') = Elems(ready_list) \cup {tid}
  BY <1>b, <1>p, InsertElems DEF IInv, TypeOK, ListsMatchStates
<1>e. free_pages' \in Nat
  BY <1>p DEF IInv, TypeOK
<1>c. ASSUME NEW p \in TID
      PROVE  Children(p) \subseteq Children(p)' /\ ExitedChildren(p)' = ExitedChildren(p)
  BY <1>a, <1>b, <1>p, Tids DEF IInv, TypeOK, Children, ExitedChildren
<1>f. \A p \in TID \ {tp} : Children(p)' = Children(p)
  BY <1>a, <1>b, <1>p, Tids DEF IInv, TypeOK, Children, ExitedChildren
<1>1. TypeOK'
  BY <1>a, <1>b, <1>d, <1>e, <1>p, Tids DEF IInv, TypeOK, Returns, PCs,
     States
<1>2. ListsMatchStates'
  BY <1>a, <1>b, <1>d, <1>e, <1>p, Tids DEF IInv, TypeOK, ListsMatchStates,
     Contexts, Owner
<1>3. Contexts'
  BY <1>a, <1>b, <1>d, <1>e, <1>p, Tids DEF IInv, TypeOK, Contexts, Owner,
     OffHart
<1>4. Owner'
  BY <1>a, <1>b, <1>d, <1>e, <1>p, Tids DEF IInv, TypeOK, Owner, Contexts,
     OffHart
<1>5. Waiters'
  <2>1. \A t \in TID : state'[t] = "WAITING" =>
          /\ state[t] = "WAITING" /\ pc'[t] = pc[t] /\ wait_cond'[t] = wait_cond[t]
    BY <1>a, <1>b, <1>p DEF IInv, TypeOK
  <2>. QED  BY <1>p, <2>1 DEF IInv, Waiters
<1>6. Masked'
  BY <1>a, <1>b, <1>d, <1>e, <1>p, Tids DEF IInv, TypeOK, Masked, Owner
<1>7. Exiteds'
  BY <1>a, <1>b, <1>d, <1>e, <1>p, Tids DEF IInv, TypeOK, Exiteds, Owner,
     Idle, Contexts, OffHart
<1>8. Idle'
  BY <1>a, <1>b, <1>d, <1>e, <1>p, Tids DEF IInv, TypeOK, Idle, Owner,
     Exiteds, Contexts, OffHart
<1>9. Parents'
  BY <1>a, <1>b, <1>d, <1>e, <1>p, Tids DEF IInv, TypeOK, Parents, Owner
<1>10. Joins'
  BY <1>a, <1>b, <1>c, <1>p DEF IInv, TypeOK, Joins, Suspending
<1>11. NoMissedExit'
  BY <1>a, <1>b, <1>f, <1>p DEF IInv, TypeOK, NoMissedExit
<1>12. NoAssertFails'
  BY <1>a, <1>b, <1>d, <1>e, <1>p, Tids DEF IInv, NoAssertFails
<1>. QED  BY <1>1, <1>2, <1>3, <1>4, <1>5, <1>6, <1>7, <1>8, <1>9, <1>10, <1>11, <1>12 DEF IInv

\* thread_exit up to the signal.
LEMMA ExitStep ==
    ASSUME IInv, Exit
    PROVE  IInv'
<1>a. /\ pc[tp] = "run" /\ tp \in TID /\ state[tp] = "RUNNING" /\ tp # IDLE_TID
      /\ halted = "no"
  BY DEF IInv, TypeOK, Owner, Idle, Exit, At
<1>0. CASE tp = MAIN_TID
  BY <1>0, HaltStep DEF Exit
<1>. SUFFICES ASSUME tp # MAIN_TID PROVE IInv'
  BY <1>0
<1>b. /\ state' = [state EXCEPT ![tp] = "EXITED"]
      /\ pc' = [pc EXCEPT ![tp] = "exit"]
      /\ UNCHANGED <<parent, wait_cond, ready_list, wait_list, tp, ret, arg,
                     next_thread, a0, SIE, saved, pending, free_pages, halted>>
  BY DEF Exit
<1>c. \A p \in TID : Children(p)' = Children(p) /\ ExitedChildren(p) \subseteq ExitedChildren(p)'
  BY <1>a, <1>b, Tids DEF IInv, TypeOK, Children, ExitedChildren
<1>1. TypeOK'
  BY <1>a, <1>b, Tids DEF IInv, TypeOK, Returns, PCs, States
<1>2. ListsMatchStates'
  BY <1>a, <1>b, Tids DEF IInv, TypeOK, ListsMatchStates, Contexts, Owner
<1>3. Contexts'
  BY <1>a, <1>b, Tids DEF IInv, TypeOK, Contexts, Owner, OffHart
<1>4. Owner'
  BY <1>a, <1>b, Tids DEF IInv, TypeOK, Owner, Contexts, OffHart
<1>5. Waiters'
  BY <1>a, <1>b, Tids DEF IInv, TypeOK, Waiters, Owner, Suspending
<1>6. Masked'
  BY <1>a, <1>b, Tids DEF IInv, TypeOK, Masked, Owner
<1>7. Exiteds'
  BY <1>a, <1>b, Tids DEF IInv, TypeOK, Exiteds, Owner, Idle, Contexts,
     OffHart
<1>8. Idle'
  BY <1>a, <1>b, Tids DEF IInv, TypeOK, Idle, Owner, Exiteds, Contexts,
     OffHart
<1>9. Parents'
  BY <1>a, <1>b, Tids DEF IInv, TypeOK, Parents, Owner
<1>10. Joins'
  BY <1>a, <1>b, <1>c DEF IInv, TypeOK, Joins, Suspending
<1>11. NoMissedExit'
  <2>1. \A p \in TID : Children(p) \subseteq TID
    BY Tids DEF Children
  <2>. QED  BY <1>a, <1>b, <1>c, <2>1
            DEF IInv, TypeOK, NoMissedExit, Waiters, Joins
<1>12. NoAssertFails'
  BY <1>a, <1>b, Tids DEF IInv, NoAssertFails
<1>. QED  BY <1>1, <1>2, <1>3, <1>4, <1>5, <1>6, <1>7, <1>8, <1>9, <1>10, <1>11, <1>12 DEF IInv

\* recycle_thread, from any of its callers.
LEMMA RecycleStep ==
    ASSUME IInv, NEW tid \in ExitedChildren(tp), Recycle(tid),
           pc[tp] \in {"run", "join", "join_any"}, tp # IDLE_TID
    PROVE  IInv'
<1>a. tp \in TID /\ state[tp] = "RUNNING"
  BY DEF IInv, TypeOK, Owner
<1>b. /\ tid \in TID \ {tp, MAIN_TID, IDLE_TID} /\ state[tid] = "EXITED"
      /\ parent[tid] = tp /\ pc[tid] = "swtched"
  BY <1>a, Tids DEF IInv, ExitedChildren, Children, Exiteds, Contexts, OffHart
<1>d. /\ parent' = [t \in TID |-> IF t = tid THEN NoThread ELSE Reparented(tid, t)]
      /\ state' = [state EXCEPT ![tid] = "FREE"]
      /\ pc' = [pc EXCEPT ![tid] = "none", ![tp] = "run"]
      /\ arg' = [arg EXCEPT ![tp] = NoThread, ![tid] = NoThread]
      /\ ret' = [ret EXCEPT ![tid] = "run"]
      /\ saved' = [saved EXCEPT ![tid] = TRUE]
      /\ UNCHANGED <<wait_cond, ready_list, wait_list, tp, next_thread, a0, SIE,
                     pending, free_pages, halted>>
  BY DEF Recycle
<1>e. /\ \A t \in TID \ {tid} : parent'[t] = IF t \in Children(tid) THEN tp ELSE parent[t]
      /\ parent'[tid] = NoThread
      /\ parent' \in [TID -> TID \cup {NoThread}]
  BY <1>a, <1>b, <1>d DEF Reparented, IInv, TypeOK
<1>f. \A t \in TID \ {MAIN_TID, tid} :
         t \in Children(tid) <=> state[t] # "FREE" /\ parent[t] = tid
  BY Tids DEF Children
<1>c. ASSUME NEW p \in TID \ {tp, tid}
      PROVE  Children(p)' = Children(p) /\ ExitedChildren(p)' = ExitedChildren(p)
  <2>1. ASSUME NEW t \in TID \ {MAIN_TID}
        PROVE  /\ (state'[t] # "FREE" /\ parent'[t] = p) <=> (state[t] # "FREE" /\ parent[t] = p)
               /\ (state[t] # "FREE" /\ parent[t] = p) => state'[t] = state[t]
    <3>1. CASE t = tid
      BY <1>b, <1>d, <1>e, <3>1, Tids DEF IInv, TypeOK
    <3>2. CASE t # tid
      BY <1>a, <1>b, <1>d, <1>e, <1>f, <3>2 DEF IInv, TypeOK
    <3>. QED  BY <3>1, <3>2
  <2>. QED  BY <2>1, Tids DEF Children, ExitedChildren
<1>1. TypeOK'
  BY <1>a, <1>b, <1>d, <1>e, <1>f, Tids DEF IInv, TypeOK, Returns, PCs,
     States
<1>2. ListsMatchStates'
  BY <1>a, <1>b, <1>d, <1>e, <1>f, Tids DEF IInv, TypeOK, ListsMatchStates,
     Contexts, Owner
<1>3. Contexts'
  BY <1>a, <1>b, <1>d, <1>e, <1>f, Tids DEF IInv, TypeOK, Contexts, Owner,
     OffHart
<1>4. Owner'
  BY <1>a, <1>b, <1>d, <1>e, <1>f, Tids DEF IInv, TypeOK, Owner, Contexts,
     OffHart
<1>5. Waiters'
  BY <1>a, <1>b, <1>d, <1>e, <1>f, Tids DEF IInv, TypeOK, Waiters, Owner,
     Suspending
<1>6. Masked'
  BY <1>a, <1>b, <1>d, <1>e, <1>f, Tids DEF IInv, TypeOK, Masked, Owner
<1>7. Exiteds'
  BY <1>a, <1>b, <1>d, <1>e, <1>f, Tids DEF IInv, TypeOK, Exiteds, Owner,
     Idle, Contexts, OffHart
<1>8. Idle'
  BY <1>a, <1>b, <1>d, <1>e, <1>f, Tids DEF IInv, TypeOK, Idle, Owner,
     Exiteds, Contexts, OffHart
<1>9. Parents'
  BY <1>a, <1>b, <1>d, <1>e, <1>f, Tids DEF IInv, TypeOK, Parents, Owner
<1>10. Joins'
  BY <1>a, <1>b, <1>c, <1>d DEF IInv, TypeOK, Joins, Suspending
<1>11. NoMissedExit'
  <2>1. \A p \in TID : Children(p) \subseteq TID
    BY Tids DEF Children
  <2>. QED  BY <1>a, <1>b, <1>c, <1>d, <2>1
            DEF IInv, TypeOK, NoMissedExit, Waiters, Joins, Contexts, OffHart
<1>12. NoAssertFails'
  BY <1>a, <1>b, <1>d, <1>e, <1>f, Tids DEF IInv, NoAssertFails
<1>. QED  BY <1>1, <1>2, <1>3, <1>4, <1>5, <1>6, <1>7, <1>8, <1>9, <1>10, <1>11, <1>12 DEF IInv

\* JoinAny, JoinAnyWoken, JoinLoop and the waits of drivers and locks.
LEMMA JoinAnyStep ==
    ASSUME IInv, JoinAny
    PROVE  IInv'
<1>1. /\ pc[tp] = "run" /\ tp \in TID /\ tp # IDLE_TID /\ tp \in Conds
      /\ tp \notin IrqConds /\ halted = "no"
  BY CondsAssumption DEF IInv, TypeOK, Idle, JoinAny, At, Conds
<1>2. CASE ExitedChildren(tp) # {}
  BY <1>1, <1>2, RecycleStep DEF JoinAny, Lowest
<1>3. CASE Children(tp) = {} /\ ExitedChildren(tp) = {}
  BY <1>1, <1>3, HaltStep DEF JoinAny, Panics
<1>4. CASE Children(tp) # {} /\ ExitedChildren(tp) = {}
  <2>1. BeginWait(tp, "join_any") /\ SIE' = SIE
    BY <1>4 DEF JoinAny
  <2>2. SIE \in BOOLEAN
    BY DEF IInv, TypeOK
  <2>. QED  BY <1>1, <1>4, <2>1, <2>2, BeginWaitStep
<1>. QED  BY <1>2, <1>3, <1>4

\* thread_join_any after its wait: an exited child is reaped.
LEMMA JoinAnyWokenStep ==
    ASSUME IInv, JoinAnyWoken
    PROVE  IInv'
<1>1. pc[tp] = "join_any" /\ tp \in TID /\ tp # IDLE_TID
  BY DEF IInv, TypeOK, Idle, JoinAnyWoken, At
<1>2. ExitedChildren(tp) # {}
  BY <1>1 DEF IInv, Joins
<1>3. PICK tid \in Lowest(ExitedChildren(tp)) : Recycle(tid)
  BY <1>2 DEF JoinAnyWoken
<1>4. tid \in ExitedChildren(tp)
  BY DEF Lowest
<1>. QED  BY <1>1, <1>3, <1>4, RecycleStep

\* thread_join: one turn of its loop.
LEMMA JoinLoopStep ==
    ASSUME IInv, JoinLoop
    PROVE  IInv'
<1>1. /\ pc[tp] = "join" /\ tp \in TID /\ tp # IDLE_TID /\ tp \in Conds
      /\ tp \notin IrqConds /\ arg[tp] \in Children(tp)
  BY CondsAssumption DEF IInv, TypeOK, Idle, Joins, JoinLoop, At, Conds
<1>2. CASE state[arg[tp]] = "EXITED"
  BY <1>1, <1>2, RecycleStep DEF JoinLoop, ExitedChildren
<1>3. CASE state[arg[tp]] # "EXITED"
  <2>1. BeginWait(tp, "join") /\ SIE' = SIE
    BY <1>3 DEF JoinLoop
  <2>2. SIE \in BOOLEAN
    BY DEF IInv, TypeOK
  <2>. QED  BY <1>1, <1>3, <2>1, <2>2, BeginWaitStep
<1>. QED  BY <1>2, <1>3

\* a driver waits for its ISR.
LEMMA WaitForIrqStep ==
    ASSUME IInv, NEW c \in IrqConds, WaitForIrq(c)
    PROVE  IInv'
<1>1. /\ pc[tp] = "run" /\ tp \in TID /\ tp # IDLE_TID /\ state[tp] = "RUNNING"
      /\ c \in Conds /\ c \notin TID /\ halted = "no"
  BY CondsAssumption DEF IInv, TypeOK, Owner, Idle, WaitForIrq, At, Conds
<1>2. BeginWait(c, IF SIE THEN "restore" ELSE "run") /\ SIE' = FALSE
  BY <1>1 DEF WaitForIrq, BeginWait
<1>. QED  BY <1>1, <1>2, BeginWaitStep

\* lock_acquire waits.
LEMMA WaitForLockStep ==
    ASSUME IInv, NEW c \in LockConds, WaitForLock(c)
    PROVE  IInv'
<1>1. /\ pc[tp] = "run" /\ tp \in TID /\ tp # IDLE_TID
      /\ c \in Conds /\ c \notin TID /\ c \notin IrqConds /\ SIE \in BOOLEAN
  BY CondsAssumption DEF IInv, TypeOK, Idle, WaitForLock, At, Conds
<1>2. BeginWait(c, "run") /\ SIE' = SIE
  BY DEF WaitForLock
<1>. QED  BY <1>1, <1>2, BeginWaitStep

-----------------------------------------------------------------------------
(* The theorems. *)

\* The inductive invariant holds when the kernel starts.
LEMMA InitIInv == Init => IInv
<1>. SUFFICES ASSUME Init PROVE IInv
  OBVIOUS
<1>1. /\ Elems(<< >>) = {} /\ Distinct(<< >>) /\ << >> \in Seq(TID)
      /\ <<IDLE_TID>> \in Seq(TID)
      /\ Elems(<<IDLE_TID>>) = {IDLE_TID} /\ Distinct(<<IDLE_TID>>)
  BY Tids DEF Elems, Distinct
<1>2. TypeOK
  BY <1>1, Tids, NPAGESAssumption DEF Init, TypeOK, States, PCs, Returns
<1>3. ListsMatchStates
  BY <1>1, Tids DEF Init, ListsMatchStates
<1>4. Contexts /\ Owner /\ Waiters /\ Masked
  BY Tids DEF Init, Contexts, Owner, Waiters, Masked, OffHart
<1>5. Exiteds /\ Idle /\ Parents
  BY Tids DEF Init, Exiteds, Idle, Parents
<1>6. Joins /\ NoMissedExit /\ NoAssertFails
  BY Tids DEF Init, Joins, NoMissedExit, NoAssertFails, Asserts, Suspending
<1>. QED  BY <1>2, <1>3, <1>4, <1>5, <1>6 DEF IInv

\* Every step keeps the inductive invariant: one case per action.
LEMMA NextIInv == IInv /\ [Next]_vars => IInv'
<1>. SUFFICES ASSUME IInv, [Next]_vars PROVE IInv'
  OBVIOUS
<1>1. CASE ThreadStep
  <2>1. CASE EnterWaitList   BY <2>1, EnterWaitListStep
  <2>2. CASE PickNext        BY <2>2, PickNextStep
  <2>3. CASE Swtch           BY <2>3, SwtchStep
  <2>4. CASE Resume          BY <2>4, ResumeStep
  <2>5. CASE Setup           BY <2>5, SetupStep
  <2>6. CASE SignalParent    BY <2>6, SignalParentStep
  <2>7. CASE JoinAnyWoken    BY <2>7, JoinAnyWokenStep
  <2>8. CASE JoinLoop        BY <2>8, JoinLoopStep
  <2>9. CASE IdleCheck       BY <2>9, YieldStep, IdleEmptyStep DEF IdleCheck
  <2>10. CASE IdleDisable    BY <2>10, IdleDisableStep
  <2>11. CASE IdleWake       BY <2>11, IdleWakeStep
  <2>. QED  BY <1>1, <2>1, <2>2, <2>3, <2>4, <2>5, <2>6, <2>7, <2>8, <2>9, <2>10,
               <2>11 DEF ThreadStep
<1>2. CASE Call
  <2>1. CASE Spawn           BY <2>1, SpawnStep
  <2>2. CASE Exit            BY <2>2, ExitStep
  <2>3. CASE Yield           BY <2>3, YieldStep DEF Yield
  <2>4. CASE JoinAny         BY <2>4, JoinAnyStep
  <2>5. CASE \E tid \in TID : Join(tid)            BY <2>5, JoinStep
  <2>6. CASE \E c \in IrqConds : WaitForIrq(c)     BY <2>6, WaitForIrqStep
  <2>7. CASE \E c \in LockConds : WaitForLock(c) \/ SignalLock(c)
    BY <2>7, WaitForLockStep, SignalLockStep
  <2>8. CASE EnterUser       BY <2>8, EnterUserStep
  <2>9. CASE Syscall         BY <2>9, SyscallStep
  <2>. QED  BY <1>2, <2>1, <2>2, <2>3, <2>4, <2>5, <2>6, <2>7, <2>8, <2>9 DEF Call
<1>3. CASE TakeInterrupt
  BY <1>3, InterruptStep DEF TakeInterrupt
<1>4. CASE \E c \in IrqConds : Raise(c)
  BY <1>4, RaiseStep
<1>5. CASE UNCHANGED vars
  BY <1>5 DEF vars, IInv, TypeOK, ListsMatchStates, Contexts, Owner, Waiters, Masked,
     Exiteds, Idle, Parents, Joins, NoMissedExit, NoAssertFails, Children,
     ExitedChildren
<1>. QED  BY <1>1, <1>2, <1>3, <1>4, <1>5 DEF Next, Halted

\* The inductive invariant holds in every reachable state.
LEMMA Invariance == Spec => []IInv
BY InitIInv, NextIInv, PTL DEF Spec

\* The type invariant of the thread manager.
THEOREM TypeCorrect == Spec => []TypeOK
BY Invariance, PTL DEF IInv

\* No assert of thread.c ever fails, thread_exit never returns, and
\* thread_join_any is never woken without a child to reap, for any number of
\* threads and conditions, any callers and any interrupts.
THEOREM AssertSafety == Spec => []NoAssertFails
BY Invariance, PTL DEF IInv

\* The ready list and the wait lists agree with the thread states, and no
\* thread is ever in two lists.
THEOREM ListSafety == Spec => []ListsMatchStates
BY Invariance, PTL DEF IInv

\* At most one thread is RUNNING.
THEOREM RunningSafety == Spec => []OneRunning
<1>1. IInv => OneRunning
  BY DEF IInv, Owner, OneRunning
<1>. QED  BY <1>1, Invariance, PTL

\* The hart never switches to a thread whose context is not set up.
THEOREM ContextSafety == Spec => []ContextReady
<1>1. IInv => ContextReady
  BY DEF IInv, Contexts, ContextReady
<1>. QED  BY <1>1, Invariance, PTL

\* The idle thread never waits for an interrupt while a thread is ready.
THEOREM IdleSafety == Spec => []NoSleepOnWork
<1>1. IInv => NoSleepOnWork
  BY DEF IInv, Idle, NoSleepOnWork
<1>. QED  BY <1>1, Invariance, PTL

\* No parent sleeps through the exit of a child it waits for.
THEOREM ExitSafety == Spec => []NoMissedExit
BY Invariance, PTL DEF IInv

-----------------------------------------------------------------------------
(* The tree of threads, and the end of a thread. *)

\* What a step may do to parents, to slots in use and to EXITED threads, unless it
\* is thread_spawn or frees a slot: nothing.
Settled ==
    /\ parent' = parent
    /\ \A t \in TID : /\ state'[t] = "FREE" <=> state[t] = "FREE"
                      /\ state[t] = "EXITED" => state'[t] = "EXITED"

\* recycle_thread frees the slot of an EXITED child of its caller.
Reaps(tid) ==
    /\ tid \in TID \ {tp, MAIN_TID} /\ state[tid] = "EXITED" /\ parent[tid] = tp
    /\ parent' = [t \in TID |-> IF t = tid THEN NoThread ELSE Reparented(tid, t)]
    /\ state' = [state EXCEPT ![tid] = "FREE"]

\* thread_spawn takes a free slot for a child of its caller.
Spawns(tid) ==
    /\ tid \in TID \ {MAIN_TID} /\ state[tid] = "FREE"
    /\ parent' = [parent EXCEPT ![tid] = tp]
    /\ state' = [state EXCEPT ![tid] = "READY"]

LEMMA BroadcastSettled ==
    ASSUME IInv, NEW c \in Conds, Broadcast(c), parent' = parent
    PROVE  Settled
BY BroadcastFacts DEF Settled, IInv, TypeOK

LEMMA BeginWaitSettled ==
    ASSUME IInv, NEW c, NEW r, BeginWait(c, r)
    PROVE  Settled
<1>1. CASE state[tp] # "RUNNING"
  BY <1>1 DEF Settled, BeginWait, Halt
<1>2. CASE state[tp] = "RUNNING"
  <2>1. tp \in TID /\ state \in [TID -> States]
    BY DEF IInv, TypeOK
  <2>2. parent' = parent /\ state' = [state EXCEPT ![tp] = "WAITING"]
    BY <1>2 DEF BeginWait
  <2>. QED  BY <1>2, <2>1, <2>2 DEF Settled
<1>. QED  BY <1>1, <1>2

LEMMA ReapStep ==
    ASSUME IInv, NEW tid \in ExitedChildren(tp), Recycle(tid),
           pc[tp] \in {"run", "join", "join_any"}
    PROVE  Reaps(tid) /\ tp' = tp
<1>1. tp \in TID /\ state[tp] = "RUNNING"
  BY DEF IInv, TypeOK, Owner
<1>. QED  BY <1>1, Tids DEF Recycle, Reaps, ExitedChildren, Children

\* Every step is of one of these kinds; the hart changes hands only to a thread
\* that is RUNNING.
LEMMA StepKinds ==
    ASSUME IInv, [Next]_vars
    PROVE  /\ tp' = tp \/ state[tp'] = "RUNNING"
           /\ \/ Settled
              \/ \E tid \in TID : Reaps(tid)
              \/ \E tid \in TID : Spawns(tid)
<1>0. tp \in TID /\ state \in [TID -> States]
  BY DEF IInv, TypeOK
<1>1. CASE ThreadStep
  <2>1. CASE EnterWaitList \/ Resume \/ Setup \/ IdleCheck \/ IdleDisable \/ IdleWake
    BY <2>1 DEF EnterWaitList, Resume, Setup, IdleCheck, IdleDisable, IdleWake, YieldAt,
                Halt, Settled
  <2>2. CASE PickNext
    <3>1. tp' = tp /\ parent' = parent
      BY <2>2 DEF PickNext, Halt
    <3>2. ASSUME NEW t \in TID
          PROVE  /\ state'[t] = "FREE" <=> state[t] = "FREE"
                 /\ state[t] = "EXITED" => state'[t] = "EXITED"
      <4>1. CASE UNCHANGED state
        BY <4>1
      <4>2. CASE ~UNCHANGED state
        <5>. DEFINE next == Head(ready_list)
        <5>1. /\ state[next] = "READY"
              /\ state' = [u \in TID |-> IF u = tp /\ StillRunning(next) THEN "READY"
                                         ELSE IF u = next THEN "RUNNING" ELSE state[u]]
          BY <2>2, <4>2 DEF PickNext, Halt
        <5>. HIDE DEF next
        <5>. QED  BY <5>1 DEF StillRunning
      <4>. QED  BY <4>1, <4>2
    <3>. QED  BY <3>1, <3>2 DEF Settled
  <2>3. CASE Swtch
    <3>1. state[next_thread] = "RUNNING" /\ tp' = next_thread
      BY <2>3 DEF Swtch, At, IInv, Owner
    <3>. QED  BY <2>3, <3>1 DEF Swtch, Settled
  <2>4. CASE SignalParent
    <3>1. state[tp] = "EXITED" /\ tp # MAIN_TID /\ tp' = tp /\ parent' = parent
      <4>1. pc[tp] = "exit" /\ tp' = tp /\ parent' = parent
        BY <2>4 DEF SignalParent, At, Halt
      <4>. QED  BY <1>0, <4>1 DEF IInv, Owner, Exiteds
    <3>2. ExitCond \in Conds
      BY <1>0, <3>1 DEF ExitCond, IInv, Parents, Conds
    <3>3. Broadcast(ExitCond)
      BY <2>4, <3>2, BroadcastFacts DEF SignalParent
    <3>. QED  BY <3>1, <3>2, <3>3, BroadcastSettled
  <2>5. CASE JoinAnyWoken
    <3>1. CASE ExitedChildren(tp) # {}
      <4>1. PICK tid \in ExitedChildren(tp) : Recycle(tid)
        BY <2>5, <3>1 DEF JoinAnyWoken, Lowest
      <4>2. pc[tp] = "join_any"
        BY <2>5 DEF JoinAnyWoken, At
      <4>3. Reaps(tid) /\ tp' = tp
        BY <4>1, <4>2, ReapStep
      <4>. QED  BY <4>3 DEF Reaps
    <3>2. CASE ExitedChildren(tp) = {}
      BY <2>5, <3>2 DEF JoinAnyWoken, Halt, Settled
    <3>. QED  BY <3>1, <3>2
  <2>6. CASE JoinLoop
    <3>1. CASE state[arg[tp]] = "EXITED"
      <4>1. arg[tp] \in ExitedChildren(tp) /\ pc[tp] = "join" /\ Recycle(arg[tp])
        BY <1>0, <2>6, <3>1 DEF JoinLoop, At, IInv, Joins, ExitedChildren
      <4>2. Reaps(arg[tp]) /\ tp' = tp
        BY <4>1, ReapStep
      <4>. QED  BY <4>2 DEF Reaps
    <3>2. CASE state[arg[tp]] # "EXITED"
      <4>1. BeginWait(tp, "join") /\ tp' = tp
        BY <2>6, <3>2 DEF JoinLoop, BeginWait, Halt
      <4>. QED  BY <4>1, BeginWaitSettled
    <3>. QED  BY <3>1, <3>2
  <2>. QED  BY <1>1, <2>1, <2>2, <2>3, <2>4, <2>5, <2>6 DEF ThreadStep
<1>2. CASE Call
  <2>1. CASE Spawn
    <3>1. CASE Halt("Too many threads") \/ Halt("No free pages available")
      BY <3>1 DEF Halt, Settled
    <3>2. CASE \E tid \in Lowest(FreeSlots) :
                 /\ parent' = [parent EXCEPT ![tid] = tp]
                 /\ state' = [state EXCEPT ![tid] = "READY"]
                 /\ tp' = tp
      BY <3>2, Tids DEF Spawns, Lowest, FreeSlots
    <3>. QED  BY <2>1, <3>1, <3>2 DEF Spawn
  <2>2. CASE Exit
    <3>1. state[tp] = "RUNNING" /\ parent' = parent /\ tp' = tp
      BY <2>2 DEF Exit, At, Halt, IInv, Owner
    <3>. QED  BY <1>0, <2>2, <3>1 DEF Exit, Halt, Settled
  <2>3. CASE Yield \/ (\E tid \in TID : Join(tid)) \/ EnterUser \/ Syscall
    BY <2>3 DEF Yield, YieldAt, Halt, Join, EnterUser, Syscall, Settled
  <2>4. CASE JoinAny
    <3>1. CASE ExitedChildren(tp) # {}
      <4>1. PICK tid \in ExitedChildren(tp) : Recycle(tid)
        BY <2>4, <3>1 DEF JoinAny, Lowest
      <4>2. pc[tp] = "run"
        BY <2>4 DEF JoinAny, At
      <4>3. Reaps(tid) /\ tp' = tp
        BY <4>1, <4>2, ReapStep
      <4>. QED  BY <4>3 DEF Reaps
    <3>2. CASE ExitedChildren(tp) = {} /\ Children(tp) = {}
      BY <2>4, <3>2 DEF JoinAny, Halt, Settled
    <3>3. CASE ExitedChildren(tp) = {} /\ Children(tp) # {}
      <4>1. BeginWait(tp, "join_any") /\ tp' = tp
        BY <2>4, <3>3 DEF JoinAny, BeginWait, Halt
      <4>. QED  BY <4>1, BeginWaitSettled
    <3>. QED  BY <3>1, <3>2, <3>3
  <2>5. ASSUME NEW c \in IrqConds \cup LockConds, WaitForIrq(c) \/ WaitForLock(c)
        PROVE  Settled /\ tp' = tp
    <3>1. tp' = tp /\ \E r : BeginWait(c, r)
      BY <2>5 DEF WaitForIrq, WaitForLock, BeginWait, Halt
    <3>. QED  BY <3>1, BeginWaitSettled
  <2>6. ASSUME NEW c \in LockConds, SignalLock(c)
        PROVE  Settled /\ tp' = tp
    <3>1. c \in Conds
      BY DEF Conds
    <3>2. Broadcast(c) /\ parent' = parent /\ tp' = tp
      BY <2>6, <3>1, BroadcastFacts DEF SignalLock
    <3>. QED  BY <3>1, <3>2, BroadcastSettled
  <2>. QED  BY <1>2, <2>1, <2>2, <2>3, <2>4, <2>5, <2>6 DEF Call
<1>3. CASE TakeInterrupt
  <2>1. PICK c \in IrqConds : Interrupt(c)
    BY <1>3 DEF TakeInterrupt
  <2>2. c \in Conds
    BY DEF Conds
  <2>3. CASE Halt("caller not RUNNING")
    BY <2>3 DEF Halt, Settled
  <2>4. CASE Broadcast(c) /\ parent' = parent /\ tp' = tp
    BY <2>2, <2>4, BroadcastSettled
  <2>. QED  BY <2>1, <2>2, <2>3, <2>4, BroadcastFacts DEF Interrupt
<1>4. CASE (\E c \in IrqConds : Raise(c)) \/ UNCHANGED vars
  BY <1>4 DEF Raise, vars, Settled
<1>. QED  BY <1>1, <1>2, <1>3, <1>4 DEF Next, Halted

\* The parents lead to the main thread: no set of live threads is closed under
\* parent.
Rooted ==
    \A U \in SUBSET {t \in TID \ {MAIN_TID} : state[t] # "FREE"} :
        U # {} => \E t \in U : parent[t] \notin U

LEMMA SettledRooted ==
    ASSUME Rooted, Settled
    PROVE  Rooted'
BY DEF Rooted, Settled

\* A new thread has no children.
LEMMA SpawnRooted ==
    ASSUME IInv, Rooted, NEW tid \in TID, Spawns(tid)
    PROVE  Rooted'
<1>. DEFINE Live == {t \in TID \ {MAIN_TID} : state[t] # "FREE"}
<1>0. tp \in TID /\ state \in [TID -> States] /\ parent \in [TID -> TID \cup {NoThread}]
  BY DEF IInv, TypeOK
<1>1. tid # tp /\ parent'[tid] = tp /\ \A t \in TID \ {tid} : parent'[t] = parent[t]
  BY <1>0 DEF Spawns, IInv, Contexts
<1>2. SUFFICES ASSUME NEW U \in SUBSET {t \in TID \ {MAIN_TID} : state'[t] # "FREE"}, U # {}
               PROVE  \E t \in U : parent'[t] \notin U
  BY DEF Rooted
<1>3. U \ {tid} \subseteq Live
  BY <1>0 DEF Spawns
<1>4. CASE U \ {tid} = {}
  BY <1>1, <1>2, <1>4
<1>5. CASE U \ {tid} # {}
  <2>1. PICK t \in U \ {tid} : parent[t] \notin U \ {tid}
    BY <1>3, <1>5 DEF Rooted
  <2>2. parent[t] # tid
    BY <1>3, <2>1 DEF IInv, Parents, Spawns
  <2>. QED  BY <1>1, <2>1, <2>2
<1>. QED  BY <1>4, <1>5

\* The children of a recycled thread go to its parent.
LEMMA ReapRooted ==
    ASSUME IInv, Rooted, NEW tid \in TID, Reaps(tid)
    PROVE  Rooted'
<1>. DEFINE Live == {t \in TID \ {MAIN_TID} : state[t] # "FREE"}
<1>0. tp \in TID /\ state \in [TID -> States]
  BY DEF IInv, TypeOK
<1>1. SUFFICES ASSUME NEW U \in SUBSET {t \in TID \ {MAIN_TID} : state'[t] # "FREE"}, U # {}
               PROVE  \E t \in U : parent'[t] \notin U
  BY DEF Rooted
<1>2. U \subseteq Live /\ tid \notin U /\ tid \in Live
  BY <1>0 DEF Reaps
<1>3. ASSUME NEW t \in U
      PROVE  parent'[t] = IF parent[t] = tid THEN parent[tid] ELSE parent[t]
  BY <1>2, Tids DEF Reaps, Reparented, Children
<1>4. PICK t \in U : parent[t] \notin U
  BY <1>1, <1>2 DEF Rooted
<1>5. CASE parent[t] # tid
  BY <1>3, <1>4, <1>5
<1>6. CASE parent[t] = tid
  <2>1. PICK u \in U \cup {tid} : parent[u] \notin U \cup {tid}
    <3>1. U \cup {tid} \in SUBSET Live /\ U \cup {tid} # {}
      BY <1>2
    <3>. QED  BY <3>1 DEF Rooted
  <2>2. CASE u \in U
    BY <1>3, <2>1, <2>2
  <2>3. CASE u = tid
    BY <1>3, <1>6, <2>1, <2>3
  <2>. QED  BY <2>1, <2>2, <2>3
<1>. QED  BY <1>5, <1>6

\* The parent of a live thread is a live slot, and the parents lead to the main
\* thread, whatever is spawned and reaped in whatever order.
THEOREM TreeSafety == Spec => []ThreadTree
<1>1. Init => Rooted
  <2>. SUFFICES ASSUME Init,
                       NEW U \in SUBSET {t \in TID \ {MAIN_TID} : state[t] # "FREE"}, U # {}
                PROVE  \E t \in U : parent[t] \notin U
    BY DEF Rooted
  <2>1. U = {IDLE_TID} /\ parent[IDLE_TID] = MAIN_TID
    BY Tids DEF Init
  <2>. QED  BY <2>1, Tids
<1>2. IInv /\ Rooted /\ [Next]_vars => Rooted'
  BY StepKinds, SettledRooted, SpawnRooted, ReapRooted
<1>3. IInv /\ Rooted => ThreadTree
  BY DEF IInv, Parents, Rooted, ThreadTree
<1>. QED  BY <1>1, <1>2, <1>3, Invariance, PTL DEF Spec

\* An EXITED thread never gets the hart again, and its state only changes when its
\* slot is recycled.
THEOREM ExitedForGood == Spec => ExitedIsFinal
<1>1. ASSUME IInv, [Next]_vars, NEW t \in TID, state[t] = "EXITED"
      PROVE  state'[t] \in {"EXITED", "FREE"} /\ (tp # t => tp' # t)
  <2>1. state \in [TID -> States]
    BY <1>1 DEF IInv, TypeOK
  <2>2. tp # t => tp' # t
    BY <1>1, StepKinds
  <2>3. CASE Settled
    BY <1>1, <2>2, <2>3 DEF Settled
  <2>4. CASE \E tid \in TID : Reaps(tid) \/ Spawns(tid)
    BY <1>1, <2>1, <2>2, <2>4 DEF Reaps, Spawns
  <2>. QED  BY <1>1, <2>3, <2>4, StepKinds
<1>2. IInv /\ [Next]_vars =>
        [\A t \in TID : state[t] = "EXITED" =>
           /\ state'[t] \in {"EXITED", "FREE"}
           /\ tp # t => tp' # t]_vars
  BY <1>1
<1>. QED  BY <1>2, Invariance, PTL DEF Spec, ExitedIsFinal

-----------------------------------------------------------------------------
(* The ready list without the idle thread *)

\* Either there is no idle thread in the list, or it is cut out.
LEMMA IdleCut ==
    ASSUME NEW s \in Seq(TID), Distinct(s)
    PROVE  \/ (\A i \in 1 .. Len(s) : s[i] # IDLE_TID) /\ WithoutIdle(s) = s
           \/ \E k \in 1 .. Len(s) :
                /\ s[k] = IDLE_TID
                /\ \A i \in 1 .. Len(s) : i # k => s[i] # IDLE_TID
                /\ WithoutIdle(s) = [i \in 1 .. Len(s) - 1 |-> IF i < k THEN s[i] ELSE s[i + 1]]
<1>1. CASE IDLE_TID \notin Elems(s)
  BY <1>1 DEF WithoutIdle, Elems
<1>2. CASE IDLE_TID \in Elems(s)
  <2>. DEFINE k == CHOOSE i \in 1 .. Len(s) : s[i] = IDLE_TID
  <2>1. \E i \in 1 .. Len(s) : s[i] = IDLE_TID
    BY <1>2 DEF Elems
  <2>2. k \in 1 .. Len(s) /\ s[k] = IDLE_TID
    BY <2>1
  <2>3. WithoutIdle(s) = [i \in 1 .. Len(s) - 1 |-> IF i < k THEN s[i] ELSE s[i + 1]]
    BY <1>2 DEF WithoutIdle
  <2>. HIDE DEF k
  <2>4. \A i \in 1 .. Len(s) : i # k => s[i] # IDLE_TID
    BY <2>2 DEF Distinct
  <2>. QED  BY <2>2, <2>3, <2>4
<1>. QED  BY <1>1, <1>2

\* What is cut out of a list at position k.
LEMMA CutAt ==
    ASSUME NEW s \in Seq(TID), NEW k \in 1 .. Len(s), NEW r,
           r = [i \in 1 .. Len(s) - 1 |-> IF i < k THEN s[i] ELSE s[i + 1]]
    PROVE  /\ r \in Seq(TID) /\ Len(r) = Len(s) - 1
           /\ \A i \in 1 .. Len(s) - 1 : r[i] = IF i < k THEN s[i] ELSE s[i + 1]
<1>1. Len(s) - 1 \in Nat
  OBVIOUS
<1>2. \A i \in 1 .. Len(s) - 1 : (IF i < k THEN s[i] ELSE s[i + 1]) \in TID
  OBVIOUS
<1>3. r \in [1 .. Len(s) - 1 -> TID]
  BY <1>2
<1>. QED  BY <1>1, <1>3

\* Two sequences with the same elements are equal.
LEMMA SameSeq ==
    ASSUME NEW s \in Seq(TID), NEW r \in Seq(TID), Len(s) = Len(r),
           \A i \in 1 .. Len(s) : s[i] = r[i]
    PROVE  s = r
OBVIOUS

\* The elements of a concatenation.
LEMMA ConcatElems ==
    ASSUME NEW s \in Seq(TID), NEW r \in Seq(TID)
    PROVE  /\ s \o r \in Seq(TID) /\ Len(s \o r) = Len(s) + Len(r)
           /\ \A i \in 1 .. Len(s) + Len(r) :
                (s \o r)[i] = IF i <= Len(s) THEN s[i] ELSE r[i - Len(s)]
OBVIOUS

\* The threads of a broadcast follow the others; the idle thread is none of them.
LEMMA IdleAppend ==
    ASSUME NEW s \in Seq(TID), NEW u \in Seq(TID),
           Distinct(s), Distinct(u), Elems(s) \cap Elems(u) = {}, IDLE_TID \notin Elems(u)
    PROVE  WithoutIdle(tlappend(s, u)) = WithoutIdle(s) \o u
<1>. DEFINE a == tlappend(s, u)
<1>1. a \in Seq(TID) /\ Distinct(a)
  BY AppendElems
<1>2. /\ Len(s) \in Nat /\ Len(u) \in Nat /\ Len(a) = Len(s) + Len(u)
      /\ \A i \in 1 .. Len(s) + Len(u) : a[i] = IF i <= Len(s) THEN s[i] ELSE u[i - Len(s)]
      /\ a = s \o u
  BY DEF tlappend
<1>3. \A i \in 1 .. Len(u) : u[i] # IDLE_TID
  BY DEF Elems
<1>. HIDE DEF a
<1>4. ASSUME NEW i \in 1 .. Len(a), a[i] = IDLE_TID
      PROVE  i \in 1 .. Len(s) /\ s[i] = IDLE_TID
  <2>1. CASE i <= Len(s)
    BY <1>2, <1>4, <2>1
  <2>2. CASE i > Len(s)
    <3>1. i - Len(s) \in 1 .. Len(u) /\ a[i] = u[i - Len(s)]
      BY <1>2, <2>2
    <3>. QED  BY <1>3, <1>4, <3>1
  <2>. QED  BY <1>2, <2>1, <2>2
<1>5. CASE (\A i \in 1 .. Len(s) : s[i] # IDLE_TID) /\ WithoutIdle(s) = s
  <2>1. WithoutIdle(a) = a
    BY <1>1, <1>4, <1>5, IdleCut
  <2>. QED  BY <1>2, <1>5, <2>1 DEF a
<1>6. ASSUME NEW k \in 1 .. Len(s), s[k] = IDLE_TID,
             WithoutIdle(s) = [i \in 1 .. Len(s) - 1 |-> IF i < k THEN s[i] ELSE s[i + 1]]
      PROVE  WithoutIdle(a) = WithoutIdle(s) \o u
  <2>1. k \in 1 .. Len(a) /\ a[k] = IDLE_TID
    BY <1>2, <1>6
  <2>2. WithoutIdle(a) = [i \in 1 .. Len(a) - 1 |-> IF i < k THEN a[i] ELSE a[i + 1]]
    <3>1. PICK l \in 1 .. Len(a) :
            /\ a[l] = IDLE_TID
            /\ WithoutIdle(a) = [i \in 1 .. Len(a) - 1 |-> IF i < l THEN a[i] ELSE a[i + 1]]
      BY <1>1, <2>1, IdleCut
    <3>2. l = k
      BY <1>1, <2>1, <3>1 DEF Distinct
    <3>. QED  BY <3>1, <3>2
  <2>. DEFINE w == WithoutIdle(s)
              v == WithoutIdle(a)
  <2>3. /\ w \in Seq(TID) /\ Len(w) = Len(s) - 1
        /\ \A i \in 1 .. Len(s) - 1 : w[i] = IF i < k THEN s[i] ELSE s[i + 1]
    BY <1>6, CutAt
  <2>4. /\ v \in Seq(TID) /\ Len(v) = Len(a) - 1
        /\ \A i \in 1 .. Len(a) - 1 : v[i] = IF i < k THEN a[i] ELSE a[i + 1]
    BY <1>1, <2>1, <2>2, CutAt
  <2>. HIDE DEF w, v
  <2>5. /\ w \o u \in Seq(TID) /\ Len(w \o u) = Len(w) + Len(u)
        /\ \A i \in 1 .. Len(w) + Len(u) :
             (w \o u)[i] = IF i <= Len(w) THEN w[i] ELSE u[i - Len(w)]
    BY <2>3, ConcatElems
  <2>6. ASSUME NEW i \in 1 .. Len(v) PROVE v[i] = (w \o u)[i]
    <3>1. CASE i < k
      <4>1. v[i] = a[i] /\ a[i] = s[i] /\ i <= Len(w) /\ w[i] = s[i]
        BY <1>2, <2>3, <2>4, <3>1
      <4>. QED  BY <1>2, <2>3, <2>4, <2>5, <4>1
    <3>2. CASE i >= k /\ i <= Len(s) - 1
      <4>1. v[i] = a[i + 1] /\ a[i + 1] = s[i + 1] /\ i <= Len(w) /\ w[i] = s[i + 1]
        BY <1>2, <2>3, <2>4, <3>2
      <4>. QED  BY <1>2, <2>3, <2>4, <2>5, <4>1
    <3>3. CASE i >= k /\ ~(i <= Len(s) - 1)
      <4>1. v[i] = a[i + 1] /\ i + 1 \in 1 .. Len(s) + Len(u) /\ ~(i + 1 <= Len(s))
        BY <1>2, <2>4, <3>3
      <4>2. i + 1 - Len(s) = i - Len(w) /\ ~(i <= Len(w)) /\ i \in 1 .. Len(w) + Len(u)
        BY <1>2, <2>3, <2>4, <3>3
      <4>3. a[i + 1] = u[i + 1 - Len(s)]
        BY <1>2, <4>1
      <4>. QED  BY <2>5, <4>1, <4>2, <4>3
    <3>. QED  BY <1>2, <2>3, <2>4, <3>1, <3>2, <3>3
  <2>7. Len(v) = Len(w \o u)
    BY <1>2, <2>3, <2>4, <2>5
  <2>8. v = w \o u
    BY <2>4, <2>5, <2>6, <2>7, SameSeq
  <2>. QED  BY <2>8 DEF v, w
<1>. QED  BY <1>5, <1>6, IdleCut DEF a

\* A thread at the end of the list.
LEMMA IdleInsert ==
    ASSUME NEW s \in Seq(TID), Distinct(s), NEW t \in TID, t \notin Elems(s)
    PROVE  /\ t # IDLE_TID => WithoutIdle(tlinsert(s, t)) = Append(WithoutIdle(s), t)
           /\ t = IDLE_TID => WithoutIdle(tlinsert(s, t)) = WithoutIdle(s)
<1>. DEFINE a == tlinsert(s, t)
<1>1. /\ a \in Seq(TID) /\ Distinct(a) /\ Len(a) = Len(s) + 1 /\ Len(s) \in Nat
      /\ a[Len(s) + 1] = t /\ \A i \in 1 .. Len(s) : a[i] = s[i]
  <2>1. a \in Seq(TID) /\ Distinct(a)
    BY InsertElems
  <2>. QED  BY <2>1 DEF tlinsert
<1>. HIDE DEF a
<1>2. CASE t # IDLE_TID
  <2>. DEFINE u == <<t>>
  <2>1. u \in Seq(TID) /\ Distinct(u) /\ Elems(u) = {t}
    BY DEF Distinct, Elems
  <2>2. tlappend(s, u) = a
    BY DEF tlappend, tlinsert, a
  <2>3. WithoutIdle(s) \in Seq(TID)
    BY IdleCut, CutAt
  <2>4. WithoutIdle(s) \o u = Append(WithoutIdle(s), t)
    BY <2>3
  <2>. HIDE DEF u
  <2>5. WithoutIdle(tlappend(s, u)) = WithoutIdle(s) \o u
    BY <1>2, <2>1, IdleAppend
  <2>. QED  BY <1>2, <2>2, <2>4, <2>5 DEF a
<1>3. CASE t = IDLE_TID
  <2>1. WithoutIdle(s) = s
    BY <1>3, IdleCut DEF Elems
  <2>2. PICK l \in 1 .. Len(a) :
          /\ a[l] = IDLE_TID
          /\ WithoutIdle(a) = [i \in 1 .. Len(a) - 1 |-> IF i < l THEN a[i] ELSE a[i + 1]]
    <3>1. Len(s) + 1 \in 1 .. Len(a)
      BY <1>1
    <3>. QED  BY <1>1, <1>3, <3>1, IdleCut
  <2>3. l = Len(s) + 1
    BY <1>1, <1>3, <2>2 DEF Distinct
  <2>4. /\ WithoutIdle(a) \in Seq(TID) /\ Len(WithoutIdle(a)) = Len(a) - 1
        /\ \A i \in 1 .. Len(a) - 1 : WithoutIdle(a)[i] = IF i < l THEN a[i] ELSE a[i + 1]
    BY <1>1, <2>2, CutAt
  <2>5. Len(WithoutIdle(a)) = Len(s) /\ \A i \in 1 .. Len(s) : WithoutIdle(a)[i] = s[i]
    BY <1>1, <2>3, <2>4
  <2>6. WithoutIdle(a) = s
    BY <2>4, <2>5, SameSeq
  <2>. QED  BY <1>3, <2>1, <2>6 DEF a
<1>. QED  BY <1>2, <1>3

\* The first thread of the list goes.
LEMMA IdleTail ==
    ASSUME NEW s \in Seq(TID), Distinct(s), s # << >>
    PROVE  /\ Head(s) = IDLE_TID => WithoutIdle(Tail(s)) = WithoutIdle(s)
           /\ Head(s) # IDLE_TID => /\ WithoutIdle(s) # << >>
                                    /\ Head(WithoutIdle(s)) = Head(s)
                                    /\ WithoutIdle(Tail(s)) = Tail(WithoutIdle(s))
<1>. DEFINE b == Tail(s)
<1>1. /\ b \in Seq(TID) /\ Distinct(b) /\ Len(b) = Len(s) - 1 /\ Len(s) \in Nat \ {0}
      /\ Head(s) = s[1] /\ \A i \in 1 .. Len(s) - 1 : b[i] = s[i + 1]
  <2>1. b \in Seq(TID) /\ Distinct(b)
    BY RemoveElems
  <2>. QED  BY <2>1
<1>. HIDE DEF b
<1>2. CASE Head(s) = IDLE_TID
  <2>1. 1 \in 1 .. Len(s) /\ s[1] = IDLE_TID
    BY <1>1, <1>2
  <2>2. PICK k \in 1 .. Len(s) :
          /\ s[k] = IDLE_TID
          /\ \A i \in 1 .. Len(s) : i # k => s[i] # IDLE_TID
          /\ WithoutIdle(s) = [i \in 1 .. Len(s) - 1 |-> IF i < k THEN s[i] ELSE s[i + 1]]
    BY <2>1, IdleCut
  <2>3. k = 1
    BY <2>1, <2>2
  <2>4. /\ WithoutIdle(s) \in Seq(TID) /\ Len(WithoutIdle(s)) = Len(s) - 1
        /\ \A i \in 1 .. Len(s) - 1 : WithoutIdle(s)[i] = IF i < k THEN s[i] ELSE s[i + 1]
    BY <2>2, CutAt
  <2>5. \A i \in 1 .. Len(b) : WithoutIdle(s)[i] = b[i]
    BY <1>1, <2>3, <2>4
  <2>6. WithoutIdle(s) = b
    BY <1>1, <2>4, <2>5, SameSeq
  <2>7. ASSUME NEW i \in 1 .. Len(b) PROVE b[i] # IDLE_TID
    <3>1. i + 1 \in 1 .. Len(s) /\ i + 1 # k /\ b[i] = s[i + 1]
      BY <1>1, <2>3
    <3>. QED  BY <2>2, <3>1
  <2>8. WithoutIdle(b) = b
    BY <1>1, <2>7, IdleCut
  <2>. QED  BY <1>2, <2>6, <2>8 DEF b
<1>3. CASE Head(s) # IDLE_TID
  <2>1. CASE (\A i \in 1 .. Len(s) : s[i] # IDLE_TID) /\ WithoutIdle(s) = s
    <3>1. ASSUME NEW i \in 1 .. Len(b) PROVE b[i] # IDLE_TID
      <4>1. i + 1 \in 1 .. Len(s) /\ b[i] = s[i + 1]
        BY <1>1
      <4>. QED  BY <2>1, <4>1
    <3>2. WithoutIdle(b) = b
      BY <1>1, <3>1, IdleCut
    <3>. QED  BY <1>3, <2>1, <3>2 DEF b
  <2>2. ASSUME NEW k \in 1 .. Len(s), s[k] = IDLE_TID,
               WithoutIdle(s) = [i \in 1 .. Len(s) - 1 |-> IF i < k THEN s[i] ELSE s[i + 1]]
        PROVE  /\ WithoutIdle(s) # << >> /\ Head(WithoutIdle(s)) = Head(s)
               /\ WithoutIdle(b) = Tail(WithoutIdle(s))
    <3>1. k # 1 /\ k - 1 \in 1 .. Len(b) /\ b[k - 1] = IDLE_TID
      <4>1. k # 1
        BY <1>1, <1>3, <2>2
      <4>2. k - 1 \in 1 .. Len(s) - 1 /\ (k - 1) + 1 = k
        BY <1>1, <4>1
      <4>. QED  BY <1>1, <2>2, <4>1, <4>2
    <3>2. PICK l \in 1 .. Len(b) :
            /\ b[l] = IDLE_TID
            /\ WithoutIdle(b) = [i \in 1 .. Len(b) - 1 |-> IF i < l THEN b[i] ELSE b[i + 1]]
      BY <1>1, <3>1, IdleCut
    <3>3. l = k - 1
      BY <1>1, <3>1, <3>2 DEF Distinct
    <3>. DEFINE w == WithoutIdle(s)
                v == WithoutIdle(b)
    <3>4. /\ w \in Seq(TID) /\ Len(w) = Len(s) - 1
          /\ \A i \in 1 .. Len(s) - 1 : w[i] = IF i < k THEN s[i] ELSE s[i + 1]
      BY <2>2, CutAt
    <3>5. /\ v \in Seq(TID) /\ Len(v) = Len(b) - 1
          /\ \A i \in 1 .. Len(b) - 1 : v[i] = IF i < l THEN b[i] ELSE b[i + 1]
      BY <1>1, <3>2, CutAt
    <3>. HIDE DEF w, v
    <3>6. Len(w) >= 1 /\ w[1] = s[1]
      BY <1>1, <3>1, <3>4
    <3>7. /\ w # << >> /\ Head(w) = w[1]
          /\ Tail(w) \in Seq(TID) /\ Len(Tail(w)) = Len(w) - 1
          /\ \A i \in 1 .. Len(w) - 1 : Tail(w)[i] = w[i + 1]
      BY <3>4, <3>6
    <3>8. ASSUME NEW i \in 1 .. Len(v) PROVE v[i] = Tail(w)[i]
      <4>1. /\ i \in 1 .. Len(b) - 1 /\ i + 1 \in 1 .. Len(s) - 1 /\ i \in 1 .. Len(w) - 1
            /\ i \in 1 .. Len(s) - 1
        BY <1>1, <3>4, <3>5
      <4>2. Tail(w)[i] = IF i + 1 < k THEN s[i + 1] ELSE s[i + 2]
        BY <3>4, <3>7, <4>1
      <4>3. v[i] = IF i < l THEN s[i + 1] ELSE s[i + 2]
        BY <1>1, <3>5, <4>1
      <4>4. CASE i < l /\ i + 1 < k
        BY <4>2, <4>3, <4>4
      <4>5. CASE ~(i < l) /\ ~(i + 1 < k)
        BY <4>2, <4>3, <4>5
      <4>6. i \in Int /\ k \in Int
        BY <4>1
      <4>7. (i < l /\ i + 1 < k) \/ (~(i < l) /\ ~(i + 1 < k))
        BY <3>3, <4>6
      <4>. QED  BY <4>4, <4>5, <4>7
    <3>9. v = Tail(w)
      <4>1. Len(v) = Len(Tail(w))
        BY <1>1, <3>4, <3>5, <3>7
      <4>. QED  BY <3>5, <3>7, <3>8, <4>1, SameSeq
    <3>. QED  BY <1>1, <3>6, <3>7, <3>9 DEF w, v
  <2>. QED  BY <1>3, <2>1, <2>2, IdleCut DEF b
<1>. QED  BY <1>2, <1>3

-----------------------------------------------------------------------------
(* The abstract state *)

Named == TID \ {IDLE_TID}

\* running is the thread that is RUNNING, unless that is the idle thread.
LEMMA RunningIs ==
    IInv => /\ RunningThread \in Named \cup {NoThread}
            /\ \A t \in Named : state[t] = "RUNNING" <=> RunningThread = t
<1>. SUFFICES ASSUME IInv
              PROVE  /\ RunningThread \in Named \cup {NoThread}
                     /\ \A t \in Named : state[t] = "RUNNING" <=> RunningThread = t
  OBVIOUS
<1>. DEFINE owner == IF pc[tp] = "picked" THEN next_thread ELSE tp
<1>1. owner \in TID /\ \A t \in TID : state[t] = "RUNNING" => t = owner
  BY DEF IInv, TypeOK, Owner
<1>2. RunningThread = IF owner # IDLE_TID /\ state[owner] = "RUNNING" THEN owner ELSE NoThread
  BY DEF RunningThread
<1>. HIDE DEF owner
<1>. QED  BY <1>1, <1>2, Tids DEF Named

\* The same after a step.
LEMMA RunningNext ==
    IInv' => /\ RunningThread' \in Named \cup {NoThread}
             /\ \A t \in Named : state'[t] = "RUNNING" <=> RunningThread' = t
<1>1. (IInv => /\ RunningThread \in Named \cup {NoThread}
               /\ \A t \in Named : state[t] = "RUNNING" <=> RunningThread = t)'
  BY RunningIs, PTL
<1>. QED  BY <1>1 DEF Named, TID, IDLE_TID

\* running stays if RUNNING threads do.
LEMMA SameRunning ==
    ASSUME IInv, IInv', \A t \in Named : state'[t] = "RUNNING" <=> state[t] = "RUNNING"
    PROVE  RunningThread' = RunningThread
<1>1. NoThread \notin Named
  BY Tids DEF Named
<1>. QED  BY <1>1, RunningIs, RunningNext

\* life stays if no slot is taken, freed or left.
LEMMA SameLives ==
    ASSUME \A t \in Named : /\ state'[t] = "FREE" <=> state[t] = "FREE"
                            /\ state'[t] = "EXITED" <=> state[t] = "EXITED"
    PROVE  Lives' = Lives
BY DEF Lives, Named, TID, IDLE_TID

\* Nobody is on its way into a wait list.
LEMMA WaitingPlain ==
    ASSUME pc[tp] # "wait"
    PROVE  [c \in Conds |-> WaitingThreads(c)] = [c \in Conds |-> wait_list[c]]
BY DEF WaitingThreads

LEMMA WaitingPlainNext ==
    ASSUME pc'[tp'] # "wait"
    PROVE  [c \in Conds |-> WaitingThreads(c)]' = [c \in Conds |-> wait_list'[c]]
BY DEF WaitingThreads, Conds, TID

\* Steps that touch neither states nor lists are not steps of Scheduler.
LEMMA StutterStep ==
    ASSUME IInv, IInv', UNCHANGED <<state, ready_list, wait_list>>,
           pc[tp] # "wait", pc'[tp'] # "wait"
    PROVE  UNCHANGED S!sched
<1>1. RunningThread' = RunningThread
  BY SameRunning
<1>2. Lives' = Lives
  BY SameLives
<1>3. [c \in Conds |-> WaitingThreads(c)]' = [c \in Conds |-> WaitingThreads(c)]
  BY WaitingPlain, WaitingPlainNext
<1>4. WithoutIdle(ready_list)' = WithoutIdle(ready_list)
  BY DEF WithoutIdle, Elems, IDLE_TID
<1>. QED  BY <1>1, <1>2, <1>3, <1>4 DEF S!sched

\* A step that is not even a step of the threads' contexts.
LEMMA SameStep ==
    ASSUME UNCHANGED <<state, wait_cond, ready_list, wait_list, tp, pc, next_thread>>
    PROVE  UNCHANGED S!sched
BY DEF S!sched, RunningThread, WithoutIdle, Elems, WaitingThreads, Lives, IDLE_TID, NoThread,
       Conds, TID

LEMMA HaltStutter ==
    ASSUME NEW why, Halt(why)
    PROVE  UNCHANGED S!sched
BY SameStep DEF Halt

-----------------------------------------------------------------------------
(* Steps of thread.c that are steps of Scheduler *)

\* condition_wait up to the mark: the caller waits.
LEMMA BlockStep ==
    ASSUME IInv, IInv', NEW c \in Conds, NEW r, BeginWait(c, r),
           pc[tp] \in {"run", "join"}
    PROVE  S!Block(c)
<1>1. /\ tp \in Named /\ state[tp] = "RUNNING" /\ pc \in [TID -> PCs]
      /\ state \in [TID -> States] /\ wait_cond \in [TID -> Conds \cup {NoCond}]
      /\ pc[tp] # "wait" /\ pc[tp] # "picked"
  BY Tids DEF IInv, TypeOK, Owner, Idle, Named
<1>2. /\ state' = [state EXCEPT ![tp] = "WAITING"]
      /\ wait_cond' = [wait_cond EXCEPT ![tp] = c]
      /\ pc' = [pc EXCEPT ![tp] = "wait"]
      /\ UNCHANGED <<ready_list, wait_list, tp>>
  BY <1>1 DEF BeginWait
<1>3. RunningThread = tp /\ tp # NoThread
  BY <1>1, RunningIs, Tids DEF Named
<1>4. RunningThread' = NoThread
  <2>1. \A t \in Named : state'[t] # "RUNNING"
    BY <1>1, <1>2, <1>3, RunningIs DEF Named
  <2>. QED  BY <2>1, RunningNext
<1>5. Lives' = Lives
  <2>1. \A t \in Named : /\ state'[t] = "FREE" <=> state[t] = "FREE"
                         /\ state'[t] = "EXITED" <=> state[t] = "EXITED"
    BY <1>1, <1>2 DEF Named
  <2>. QED  BY <2>1, SameLives
<1>6. WithoutIdle(ready_list)' = WithoutIdle(ready_list)
  BY <1>2 DEF WithoutIdle, Elems, IDLE_TID
<1>7. pc'[tp'] = "wait" /\ wait_cond'[tp'] = c /\ tp' = tp /\ wait_list' = wait_list
  BY <1>1, <1>2 DEF Named
<1>8. [d \in Conds |-> WaitingThreads(d)]'
        = [d \in Conds |-> IF d = c THEN Append(wait_list[d], tp) ELSE wait_list[d]]
  BY <1>7 DEF WaitingThreads, Conds, TID
<1>9. [d \in Conds |-> WaitingThreads(d)] = [d \in Conds |-> wait_list[d]]
  BY <1>1, WaitingPlain
<1>10. [d \in Conds |-> WaitingThreads(d)]'
         = [[d \in Conds |-> WaitingThreads(d)] EXCEPT ![c] = Append(@, RunningThread)]
  BY <1>3, <1>8, <1>9
<1>. QED  BY <1>3, <1>4, <1>5, <1>6, <1>10 DEF S!Block, S!Nobody, NoThread

\* condition_wait, from the mark to the list: nothing happens for Scheduler.
LEMMA EnterWaitListStutter ==
    ASSUME IInv, IInv', EnterWaitList
    PROVE  UNCHANGED S!sched
<1>1. /\ tp \in TID /\ pc \in [TID -> PCs] /\ pc[tp] = "wait" /\ wait_cond[tp] \in Conds
      /\ wait_list \in [Conds -> Seq(TID)]
  BY DEF EnterWaitList, At, IInv, TypeOK, Owner, Waiters
<1>2. /\ wait_list' = [wait_list EXCEPT ![wait_cond[tp]] = Append(@, tp)]
      /\ pc' = [pc EXCEPT ![tp] = "suspend"]
      /\ UNCHANGED <<state, ready_list, tp>>
  BY DEF EnterWaitList, tlinsert
<1>3. RunningThread' = RunningThread /\ Lives' = Lives
  BY <1>2, SameRunning, SameLives
<1>4. WithoutIdle(ready_list)' = WithoutIdle(ready_list)
  BY <1>2 DEF WithoutIdle, Elems, IDLE_TID
<1>5. [c \in Conds |-> WaitingThreads(c)]' = [c \in Conds |-> wait_list'[c]]
  BY <1>1, <1>2, WaitingPlainNext
<1>6. [c \in Conds |-> WaitingThreads(c)]
        = [c \in Conds |-> IF wait_cond[tp] = c THEN Append(wait_list[c], tp) ELSE wait_list[c]]
  BY <1>1 DEF WaitingThreads
<1>7. [c \in Conds |-> WaitingThreads(c)]' = [c \in Conds |-> WaitingThreads(c)]
  BY <1>1, <1>2, <1>5, <1>6
<1>. QED  BY <1>3, <1>4, <1>7 DEF S!sched

\* condition_broadcast, by a thread or by an ISR that does not interrupt a
\* thread on its way into the same list.
LEMMA WakeStep ==
    ASSUME IInv, IInv', NEW c \in Conds, Broadcast(c), UNCHANGED tp,
           pc[tp] = "wait" => wait_cond[tp] # c,
           pc'[tp] = "wait" <=> pc[tp] = "wait"
    PROVE  S!Wake(c)
<1>1. /\ tp \in TID /\ wait_list \in [Conds -> Seq(TID)] /\ ready_list \in Seq(TID)
      /\ wait_list[c] \in Seq(TID) /\ state \in [TID -> States]
  BY DEF IInv, TypeOK
<1>2. /\ Distinct(ready_list) /\ Distinct(wait_list[c])
      /\ Elems(ready_list) = {t \in TID : state[t] = "READY"}
      /\ \A t \in Elems(wait_list[c]) : t \in TID /\ state[t] = "WAITING" /\ pc[t] # "wait"
  BY DEF IInv, ListsMatchStates
<1>3. /\ state' = [t \in TID |-> IF t \in Elems(wait_list[c]) THEN "READY" ELSE state[t]]
      /\ wait_cond' = [t \in TID |-> IF t \in Elems(wait_list[c]) THEN NoCond ELSE wait_cond[t]]
      /\ ready_list' = tlappend(ready_list, wait_list[c])
      /\ wait_list' = [wait_list EXCEPT ![c] = << >>]
  BY DEF Broadcast
<1>4. \A t \in TID : /\ state'[t] = "RUNNING" <=> state[t] = "RUNNING"
                     /\ state'[t] = "FREE" <=> state[t] = "FREE"
                     /\ state'[t] = "EXITED" <=> state[t] = "EXITED"
  BY <1>2, <1>3
<1>5. RunningThread' = RunningThread /\ Lives' = Lives
  BY <1>4, SameRunning, SameLives DEF Named
<1>6. WithoutIdle(ready_list)' = WithoutIdle(ready_list) \o wait_list[c]
  <2>1. IDLE_TID \notin Elems(wait_list[c])
    BY <1>2 DEF IInv, Idle
  <2>2. Elems(ready_list) \cap Elems(wait_list[c]) = {}
    BY <1>2
  <2>3. WithoutIdle(tlappend(ready_list, wait_list[c])) = WithoutIdle(ready_list) \o wait_list[c]
    BY <1>1, <1>2, <2>1, <2>2, IdleAppend
  <2>4. WithoutIdle(ready_list)' = WithoutIdle(tlappend(ready_list, wait_list[c]))
    BY <1>3 DEF WithoutIdle, Elems, IDLE_TID
  <2>. QED  BY <2>3, <2>4
<1>7. WaitingThreads(c) = wait_list[c]
  BY DEF WaitingThreads
<1>8. [d \in Conds |-> WaitingThreads(d)]' = [[d \in Conds |-> WaitingThreads(d)] EXCEPT ![c] = << >>]
  <2>1. CASE pc[tp] # "wait"
    <3>1. [d \in Conds |-> WaitingThreads(d)]' = [d \in Conds |-> wait_list'[d]]
      BY <2>1, WaitingPlainNext
    <3>. QED  BY <1>1, <1>3, <2>1, <3>1, WaitingPlain
  <2>2. CASE pc[tp] = "wait"
    <3>1. wait_cond'[tp] = wait_cond[tp]
      BY <1>1, <1>2, <1>3, <2>2
    <3>2. [d \in Conds |-> WaitingThreads(d)]'
            = [d \in Conds |-> IF wait_cond[tp] = d THEN Append(wait_list'[d], tp) ELSE wait_list'[d]]
      BY <2>2, <3>1 DEF WaitingThreads, Conds, TID
    <3>3. [d \in Conds |-> WaitingThreads(d)]
            = [d \in Conds |-> IF wait_cond[tp] = d THEN Append(wait_list[d], tp) ELSE wait_list[d]]
      BY <2>2 DEF WaitingThreads
    <3>. QED  BY <1>1, <1>3, <2>2, <3>2, <3>3
  <2>. QED  BY <2>1, <2>2
<1>. QED  BY <1>5, <1>6, <1>7, <1>8 DEF S!Wake

\* suspend_self: the caller yields, or the hart, which nobody has, is given to
\* the first ready thread, or to the idle thread.
LEMMA PickStep ==
    ASSUME IInv, IInv', PickNext
    PROVE  S!YieldHart \/ S!Dispatch \/ UNCHANGED S!sched
<1>. DEFINE next == Head(ready_list)
            Q == WithoutIdle(ready_list)
            W == [c \in Conds |-> WaitingThreads(c)]
<1>1. /\ tp \in TID /\ pc \in [TID -> PCs] /\ pc[tp] = "suspend" /\ state[tp] # "READY"
      /\ ready_list \in Seq(TID) /\ Distinct(ready_list) /\ state \in [TID -> States]
      /\ Elems(ready_list) = {t \in TID : state[t] = "READY"}
      /\ state[IDLE_TID] \in {"READY", "RUNNING"}
      /\ tp = IDLE_TID => ready_list # << >>
  BY DEF PickNext, At, IInv, TypeOK, ListsMatchStates, Owner, Idle
<1>2. ready_list # << >>
  <2>1. CASE tp = IDLE_TID
    BY <1>1, <2>1
  <2>2. CASE tp # IDLE_TID
    <3>1. state[IDLE_TID] = "READY"
      BY <1>1, <2>2, Tids DEF IInv, Owner
    <3>2. IDLE_TID \in Elems(ready_list)
      BY <1>1, <3>1, Tids
    <3>. QED  BY <3>2 DEF Elems
  <2>. QED  BY <2>1, <2>2
<1>3. next \in TID /\ next \in Elems(ready_list)
  BY <1>1, <1>2, RemoveElems
<1>4. state[next] = "READY" /\ next # tp
  BY <1>1, <1>3
<1>5. /\ state' = [t \in TID |-> IF t = tp /\ StillRunning(next) THEN "READY"
                                ELSE IF t = next THEN "RUNNING" ELSE state[t]]
      /\ ready_list' = IF StillRunning(next) THEN tlinsert(Tail(ready_list), tp) ELSE Tail(ready_list)
      /\ pc' = [pc EXCEPT ![tp] = "picked"]
      /\ UNCHANGED <<wait_list, tp>>
  BY <1>2, <1>4 DEF PickNext
<1>6. StillRunning(next) <=> state[tp] = "RUNNING"
  BY <1>4 DEF StillRunning
<1>7. /\ Tail(ready_list) \in Seq(TID) /\ Distinct(Tail(ready_list))
      /\ tp \notin Elems(Tail(ready_list))
  BY <1>1, <1>2, RemoveElems
<1>8. /\ next = IDLE_TID => WithoutIdle(Tail(ready_list)) = Q
      /\ next # IDLE_TID => /\ Q # << >> /\ Head(Q) = next
                            /\ WithoutIdle(Tail(ready_list)) = Tail(Q)
  BY <1>1, <1>2, IdleTail
<1>9. WithoutIdle(ready_list)' = IF state[tp] = "RUNNING"
                                 THEN WithoutIdle(tlinsert(Tail(ready_list), tp))
                                 ELSE WithoutIdle(Tail(ready_list))
  BY <1>5, <1>6 DEF WithoutIdle, Elems, IDLE_TID
<1>10. W' = W
  <2>1. pc'[tp'] # "wait"
    BY <1>1, <1>5
  <2>. QED  BY <1>1, <1>5, <2>1, WaitingPlain, WaitingPlainNext
<1>11. Lives' = Lives
  <2>1. \A t \in TID : /\ state'[t] = "FREE" <=> state[t] = "FREE"
                       /\ state'[t] = "EXITED" <=> state[t] = "EXITED"
    BY <1>1, <1>4, <1>5, <1>6
  <2>. QED  BY <2>1, SameLives DEF Named
<1>12. RunningThread' = IF next = IDLE_TID THEN NoThread ELSE next
  <2>1. state'[next] = "RUNNING"
    BY <1>3, <1>4, <1>5
  <2>2. \A t \in TID \ {next} : state'[t] # "RUNNING"
    <3>1. \A t \in TID \ {tp} : state[t] # "RUNNING"
      BY <1>1 DEF IInv, Owner
    <3>. QED  BY <1>1, <1>5, <1>6, <3>1
  <2>. QED  BY <1>3, <2>1, <2>2, RunningNext DEF Named
<1>13. RunningThread = IF state[tp] = "RUNNING" /\ tp # IDLE_TID THEN tp ELSE NoThread
  <2>1. \A t \in TID \ {tp} : state[t] # "RUNNING"
    BY <1>1 DEF IInv, Owner
  <2>. QED  BY <1>1, <2>1, RunningIs DEF Named
<1>. HIDE DEF next, Q, W
<1>14. CASE state[tp] = "RUNNING" /\ tp # IDLE_TID
  <2>1. WithoutIdle(ready_list)' = Append(WithoutIdle(Tail(ready_list)), tp)
    BY <1>1, <1>7, <1>9, <1>14, IdleInsert
  <2>2. RunningThread = tp /\ tp # NoThread
    BY <1>1, <1>13, <1>14, Tids
  <2>3. CASE next = IDLE_TID
    <3>1. RunningThread' = NoThread /\ WithoutIdle(ready_list)' = Append(Q, RunningThread)
      BY <1>8, <1>12, <2>1, <2>2, <2>3
    <3>. QED  BY <1>10, <1>11, <2>2, <3>1 DEF S!YieldHart, S!Nobody, NoThread, W, Q
  <2>4. CASE next # IDLE_TID
    <3>1. /\ RunningThread' = Head(Q) /\ Q # << >>
          /\ WithoutIdle(ready_list)' = Append(Tail(Q), RunningThread)
      BY <1>8, <1>12, <2>1, <2>2, <2>4
    <3>. QED  BY <1>10, <1>11, <2>2, <3>1 DEF S!YieldHart, S!Nobody, NoThread, W, Q
  <2>. QED  BY <2>3, <2>4
<1>15. CASE ~(state[tp] = "RUNNING" /\ tp # IDLE_TID)
  <2>1. WithoutIdle(ready_list)' = WithoutIdle(Tail(ready_list))
    <3>1. CASE tp = IDLE_TID
      BY <1>1, <1>7, <1>9, <3>1, IdleInsert
    <3>2. CASE tp # IDLE_TID
      BY <1>9, <1>15, <3>2
    <3>. QED  BY <3>1, <3>2
  <2>2. RunningThread = NoThread
    BY <1>13, <1>15
  <2>3. CASE next = IDLE_TID
    <3>1. RunningThread' = RunningThread /\ WithoutIdle(ready_list)' = Q
      BY <1>8, <1>12, <2>1, <2>2, <2>3
    <3>. QED  BY <1>10, <1>11, <3>1 DEF S!sched, W, Q
  <2>4. CASE next # IDLE_TID
    <3>1. RunningThread' = Head(Q) /\ Q # << >> /\ WithoutIdle(ready_list)' = Tail(Q)
      BY <1>8, <1>12, <2>1, <2>4
    <3>. QED  BY <1>10, <1>11, <2>2, <3>1 DEF S!Dispatch, S!Nobody, NoThread, W, Q
  <2>. QED  BY <2>3, <2>4
<1>. QED  BY <1>14, <1>15

\* A caller of thread.c in kernel code is the running thread.
LEMMA CallerRuns ==
    ASSUME IInv, pc[tp] \in {"run", "join", "join_any"}
    PROVE  tp \in Named /\ state[tp] = "RUNNING" /\ RunningThread = tp /\ tp # NoThread
<1>1. tp \in Named /\ state[tp] = "RUNNING"
  BY Tids DEF IInv, TypeOK, Owner, Idle, Named
<1>. QED  BY <1>1, RunningIs, Tids DEF Named

\* thread_spawn.
LEMMA StartStep ==
    ASSUME IInv, IInv', Spawn
    PROVE  (\E t \in Named : S!Start(t)) \/ UNCHANGED S!sched
<1>1. CASE Halt("Too many threads") \/ Halt("No free pages available")
  BY <1>1, HaltStutter
<1>2. ASSUME NEW tid \in Lowest(FreeSlots),
             /\ state' = [state EXCEPT ![tid] = "READY"]
             /\ ready_list' = tlinsert(ready_list, tid)
             /\ pc' = [pc EXCEPT ![tp] = "setup", ![tid] = "raw"]
             /\ UNCHANGED <<wait_list, tp>>
      PROVE  tid \in Named /\ S!Start(tid)
  <2>1. /\ tid \in TID /\ state[tid] = "FREE" /\ tid # IDLE_TID /\ pc \in [TID -> PCs]
        /\ state \in [TID -> States] /\ ready_list \in Seq(TID) /\ Distinct(ready_list)
        /\ Elems(ready_list) = {t \in TID : state[t] = "READY"}
    BY Tids DEF Lowest, FreeSlots, IInv, TypeOK, ListsMatchStates, Idle
  <2>2. pc[tp] = "run"
    BY DEF Spawn, At
  <2>3. tp \in Named /\ state[tp] = "RUNNING" /\ RunningThread = tp /\ tp # NoThread
    BY <2>2, CallerRuns
  <2>4. RunningThread' = RunningThread
    <3>1. \A t \in Named : state'[t] = "RUNNING" <=> state[t] = "RUNNING"
      BY <1>2, <2>1 DEF Named
    <3>. QED  BY <3>1, SameRunning
  <2>5. [c \in Conds |-> WaitingThreads(c)]' = [c \in Conds |-> WaitingThreads(c)]
    <3>1. pc'[tp'] # "wait"
      BY <1>2, <2>1, <2>3 DEF Named
    <3>. QED  BY <1>2, <2>2, <3>1, WaitingPlain, WaitingPlainNext
  <2>6. WithoutIdle(ready_list)' = Append(WithoutIdle(ready_list), tid)
    <3>1. WithoutIdle(ready_list)' = WithoutIdle(tlinsert(ready_list, tid))
      BY <1>2 DEF WithoutIdle, Elems, IDLE_TID
    <3>2. tid \notin Elems(ready_list)
      BY <2>1
    <3>. QED  BY <2>1, <3>1, <3>2, IdleInsert
  <2>7. Lives[tid] = "free" /\ Lives' = [Lives EXCEPT ![tid] = "live"]
    BY <1>2, <2>1 DEF Lives, TID, IDLE_TID
  <2>8. tid \in Named
    BY <2>1 DEF Named
  <2>. QED  BY <2>3, <2>4, <2>5, <2>6, <2>7, <2>8 DEF S!Start, S!Nobody, NoThread
<1>. QED  BY <1>1, <1>2 DEF Spawn

\* thread_exit up to the mark.
LEMMA FinishStep ==
    ASSUME IInv, IInv', Exit
    PROVE  S!Finish \/ UNCHANGED S!sched
<1>1. CASE tp = MAIN_TID
  BY <1>1, HaltStutter DEF Exit
<1>2. CASE tp # MAIN_TID
  <2>1. /\ state' = [state EXCEPT ![tp] = "EXITED"]
        /\ pc' = [pc EXCEPT ![tp] = "exit"]
        /\ UNCHANGED <<ready_list, wait_list, tp>>
    BY <1>2 DEF Exit
  <2>2. pc[tp] = "run" /\ pc \in [TID -> PCs] /\ state \in [TID -> States]
    BY DEF Exit, At, IInv, TypeOK
  <2>3. tp \in Named /\ state[tp] = "RUNNING" /\ RunningThread = tp /\ tp # NoThread
    BY <2>2, CallerRuns
  <2>4. RunningThread' = NoThread
    <3>1. \A t \in Named : state'[t] # "RUNNING"
      BY <2>1, <2>2, <2>3, RunningIs DEF Named
    <3>. QED  BY <3>1, RunningNext
  <2>5. [c \in Conds |-> WaitingThreads(c)]' = [c \in Conds |-> WaitingThreads(c)]
    <3>1. pc'[tp'] # "wait"
      BY <2>1, <2>2, <2>3 DEF Named
    <3>. QED  BY <2>1, <2>2, <3>1, WaitingPlain, WaitingPlainNext
  <2>6. WithoutIdle(ready_list)' = WithoutIdle(ready_list)
    BY <2>1 DEF WithoutIdle, Elems, IDLE_TID
  <2>7. Lives' = [Lives EXCEPT ![tp] = "exited"]
    BY <2>1, <2>2, <2>3 DEF Lives, Named, TID, IDLE_TID
  <2>. QED  BY <2>3, <2>4, <2>5, <2>6, <2>7 DEF S!Finish, S!Nobody, NoThread
<1>. QED  BY <1>1, <1>2

\* recycle_thread.
LEMMA ReapedStep ==
    ASSUME IInv, IInv', NEW tid \in ExitedChildren(tp), Recycle(tid),
           pc[tp] \in {"run", "join", "join_any"}
    PROVE  tid \in Named /\ S!Reap(tid)
<1>1. /\ tid \in Named /\ state[tid] = "EXITED" /\ pc \in [TID -> PCs]
      /\ state \in [TID -> States]
  BY Tids DEF ExitedChildren, Children, IInv, TypeOK, Exiteds, Named
<1>2. /\ state' = [state EXCEPT ![tid] = "FREE"]
      /\ pc' = [pc EXCEPT ![tid] = "none", ![tp] = "run"]
      /\ UNCHANGED <<ready_list, wait_list, tp>>
  BY DEF Recycle
<1>3. tp \in Named /\ state[tp] = "RUNNING" /\ RunningThread = tp /\ tp # NoThread
  BY CallerRuns
<1>4. RunningThread' = RunningThread
  <2>1. \A t \in Named : state'[t] = "RUNNING" <=> state[t] = "RUNNING"
    BY <1>1, <1>2 DEF Named
  <2>. QED  BY <2>1, SameRunning
<1>5. [c \in Conds |-> WaitingThreads(c)]' = [c \in Conds |-> WaitingThreads(c)]
  <2>1. pc'[tp'] # "wait"
    BY <1>1, <1>2, <1>3 DEF Named
  <2>. QED  BY <1>2, <2>1, WaitingPlain, WaitingPlainNext
<1>6. WithoutIdle(ready_list)' = WithoutIdle(ready_list)
  BY <1>2 DEF WithoutIdle, Elems, IDLE_TID
<1>7. Lives[tid] = "exited" /\ Lives' = [Lives EXCEPT ![tid] = "free"]
  BY <1>1, <1>2 DEF Lives, Named, TID, IDLE_TID
<1>. QED  BY <1>1, <1>3, <1>4, <1>5, <1>6, <1>7 DEF S!Reap, S!Nobody, NoThread

-----------------------------------------------------------------------------
(* The refinement *)

\* The system starts as Scheduler does.
LEMMA InitRefines == Init => S!SchedInit
<1>. SUFFICES ASSUME Init PROVE S!SchedInit
  OBVIOUS
<1>0. IInv /\ tp \in TID /\ state \in [TID -> States] /\ tp = MAIN_TID
  BY InitIInv DEF IInv, TypeOK, Init
<1>1. RunningThread = MAIN_TID
  <2>1. MAIN_TID \in Named /\ state[MAIN_TID] = "RUNNING"
    BY Tids DEF Init, Named
  <2>. QED  BY <1>0, <2>1, RunningIs
<1>2. WithoutIdle(ready_list) = << >>
  <2>. DEFINE e == << >>
  <2>1. e \in Seq(TID) /\ Distinct(e) /\ Elems(e) = {} /\ ready_list = tlinsert(e, IDLE_TID)
    BY DEF Init, tlinsert, Distinct, Elems
  <2>2. WithoutIdle(e) = e
    BY DEF WithoutIdle, Elems
  <2>. HIDE DEF e
  <2>3. WithoutIdle(tlinsert(e, IDLE_TID)) = WithoutIdle(e)
    BY <2>1, IdleInsert, Tids
  <2>. QED  BY <2>1, <2>2, <2>3 DEF e
<1>3. [c \in Conds |-> WaitingThreads(c)] = [c \in Conds |-> << >>]
  <2>1. pc[tp] # "wait"
    BY Tids DEF Init
  <2>2. [c \in Conds |-> wait_list[c]] = [c \in Conds |-> << >>]
    BY DEF Init
  <2>. QED  BY <2>1, <2>2, WaitingPlain
<1>4. Lives = [t \in TID \ {IDLE_TID} |-> IF t = MAIN_TID THEN "live" ELSE "free"]
  BY Tids DEF Init, Lives
<1>. QED  BY <1>1, <1>2, <1>3, <1>4 DEF S!SchedInit

\* A condition_wait that code outside the join operations asks for, or they do.
LEMMA WaitRefines ==
    ASSUME IInv, IInv', NEW c \in Conds, NEW r, BeginWait(c, r), pc[tp] \in {"run", "join"}
    PROVE  S!SchedNext
BY BlockStep DEF S!SchedNext

LEMMA ReapRefines ==
    ASSUME IInv, IInv', NEW tid \in ExitedChildren(tp), Recycle(tid),
           pc[tp] \in {"run", "join", "join_any"}
    PROVE  S!SchedNext
BY ReapedStep DEF S!SchedNext, Named

LEMMA WakeRefines ==
    ASSUME IInv, IInv', NEW c \in Conds, Broadcast(c), UNCHANGED tp,
           pc[tp] = "wait" => wait_cond[tp] # c,
           pc'[tp] = "wait" <=> pc[tp] = "wait"
    PROVE  S!SchedNext
BY WakeStep DEF S!SchedNext

\* Every step of thread.c is a step of Scheduler, or none.
LEMMA StepRefines ==
    ASSUME IInv, IInv', [Next]_vars
    PROVE  [S!SchedNext]_S!sched
<1>0. /\ tp \in TID /\ pc \in [TID -> PCs] /\ state \in [TID -> States]
      /\ TID \subseteq Conds /\ IrqConds \subseteq Conds /\ LockConds \subseteq Conds
  BY DEF IInv, TypeOK, Conds
<1>1. CASE ThreadStep
  <2>1. CASE EnterWaitList
    BY <2>1, EnterWaitListStutter
  <2>2. CASE PickNext
    BY <2>2, PickStep DEF S!SchedNext
  <2>3. CASE Swtch
    <3>1. /\ pc[tp] = "picked" /\ tp' = next_thread /\ pc' = [pc EXCEPT ![tp] = "swtched"]
          /\ UNCHANGED <<state, ready_list, wait_list>>
      BY <2>3 DEF Swtch, At
    <3>2. next_thread \in TID \ {tp} /\ pc[next_thread] \in OffHart
      BY <3>1 DEF IInv, Owner, Contexts
    <3>3. pc'[tp'] # "wait"
      BY <1>0, <3>1, <3>2 DEF OffHart
    <3>. QED  BY <3>1, <3>3, StutterStep
  <2>4. CASE Resume
    <3>1. CASE ret[tp] = "exited"
      BY <2>4, <3>1, HaltStutter DEF Resume
    <3>2. CASE ret[tp] # "exited"
      <4>1. /\ pc[tp] = "swtched"
            /\ pc' = [pc EXCEPT ![tp] = IF ret[tp] = "restore" THEN "run" ELSE ret[tp]]
            /\ UNCHANGED <<state, ready_list, wait_list, tp>>
        BY <2>4, <3>2 DEF Resume, At
      <4>2. ret[tp] # "wait"
        BY <1>0 DEF IInv, TypeOK, Returns
      <4>. QED  BY <1>0, <4>1, <4>2, StutterStep
    <3>. QED  BY <3>1, <3>2
  <2>5. CASE Setup
    <3>1. /\ pc[tp] = "setup" /\ pc' = [pc EXCEPT ![tp] = "run", ![arg[tp]] = "run"]
          /\ UNCHANGED <<state, ready_list, wait_list, tp>>
      BY <2>5 DEF Setup, At
    <3>2. pc'[tp'] # "wait"
      BY <1>0, <3>1
    <3>. QED  BY <3>1, <3>2, StutterStep
  <2>6. CASE SignalParent
    <3>1. pc[tp] = "exit" /\ state[tp] = "EXITED"
      BY <2>6 DEF SignalParent, At, IInv, Owner
    <3>2. ExitCond \in Conds
      BY <1>0, <3>1 DEF ExitCond, IInv, Parents, Exiteds
    <3>3. /\ Broadcast(ExitCond) /\ tp' = tp /\ pc' = [pc EXCEPT ![tp] = "suspend"]
      BY <2>6, <3>2, BroadcastFacts DEF SignalParent
    <3>. QED  BY <1>0, <3>1, <3>2, <3>3, WakeRefines
  <2>7. CASE JoinAnyWoken
    <3>1. CASE ExitedChildren(tp) # {}
      <4>1. PICK tid \in ExitedChildren(tp) : Recycle(tid)
        BY <2>7, <3>1 DEF JoinAnyWoken, Lowest
      <4>2. pc[tp] = "join_any"
        BY <2>7 DEF JoinAnyWoken, At
      <4>. QED  BY <4>1, <4>2, ReapRefines
    <3>2. CASE ExitedChildren(tp) = {}
      BY <2>7, <3>2, HaltStutter DEF JoinAnyWoken
    <3>. QED  BY <3>1, <3>2
  <2>8. CASE JoinLoop
    <3>0. pc[tp] = "join"
      BY <2>8 DEF JoinLoop, At
    <3>1. CASE state[arg[tp]] = "EXITED"
      <4>1. arg[tp] \in ExitedChildren(tp) /\ Recycle(arg[tp])
        BY <1>0, <2>8, <3>0, <3>1 DEF JoinLoop, IInv, Joins, ExitedChildren
      <4>. QED  BY <3>0, <4>1, ReapRefines
    <3>2. CASE state[arg[tp]] # "EXITED"
      <4>1. BeginWait(tp, "join")
        BY <2>8, <3>2 DEF JoinLoop
      <4>. QED  BY <1>0, <3>0, <4>1, WaitRefines
    <3>. QED  BY <3>1, <3>2
  <2>9. CASE IdleCheck
    <3>1. pc[tp] = "idle"
      BY <2>9 DEF IdleCheck, At
    <3>2. CASE Halt("caller not RUNNING")
      BY <3>2, HaltStutter
    <3>3. CASE /\ pc' = [pc EXCEPT ![tp] = "suspend"] \/ pc' = [pc EXCEPT ![tp] = "idle_empty"]
               /\ UNCHANGED <<state, ready_list, wait_list, tp>>
      BY <1>0, <3>1, <3>3, StutterStep
    <3>. QED  BY <2>9, <3>2, <3>3 DEF IdleCheck, YieldAt
  <2>10. CASE IdleDisable
    <3>1. /\ pc[tp] = "idle_empty" /\ UNCHANGED <<state, ready_list, wait_list, tp>>
          /\ pc' = [pc EXCEPT ![tp] = "wfi"] \/ pc' = [pc EXCEPT ![tp] = "idle"]
      BY <2>10 DEF IdleDisable, At
    <3>. QED  BY <1>0, <3>1, StutterStep
  <2>11. CASE IdleWake
    <3>1. /\ pc[tp] = "wfi" /\ UNCHANGED <<state, ready_list, wait_list, tp>>
          /\ pc' = [pc EXCEPT ![tp] = "idle"]
      BY <2>11 DEF IdleWake, At
    <3>. QED  BY <1>0, <3>1, StutterStep
  <2>. QED  BY <1>1, <2>1, <2>2, <2>3, <2>4, <2>5, <2>6, <2>7, <2>8, <2>9, <2>10,
               <2>11 DEF ThreadStep
<1>2. CASE Call
  <2>1. CASE Spawn
    BY <2>1, StartStep DEF S!SchedNext, Named
  <2>2. CASE Exit
    BY <2>2, FinishStep DEF S!SchedNext
  <2>3. CASE Yield
    <3>1. CASE Halt("caller not RUNNING")
      BY <3>1, HaltStutter
    <3>2. CASE /\ pc[tp] = "run" /\ pc' = [pc EXCEPT ![tp] = "suspend"]
               /\ UNCHANGED <<state, ready_list, wait_list, tp>>
      BY <1>0, <3>2, StutterStep
    <3>. QED  BY <2>3, <3>1, <3>2 DEF Yield, YieldAt, At
  <2>4. CASE JoinAny
    <3>0. pc[tp] = "run"
      BY <2>4 DEF JoinAny, At
    <3>1. CASE ExitedChildren(tp) # {}
      <4>1. PICK tid \in ExitedChildren(tp) : Recycle(tid)
        BY <2>4, <3>1 DEF JoinAny, Lowest
      <4>. QED  BY <3>0, <4>1, ReapRefines
    <3>2. CASE ExitedChildren(tp) = {} /\ Children(tp) = {}
      BY <2>4, <3>2, HaltStutter DEF JoinAny
    <3>3. CASE ExitedChildren(tp) = {} /\ Children(tp) # {}
      <4>1. BeginWait(tp, "join_any")
        BY <2>4, <3>3 DEF JoinAny
      <4>. QED  BY <1>0, <3>0, <4>1, WaitRefines
    <3>. QED  BY <3>1, <3>2, <3>3
  <2>5. ASSUME NEW tid \in TID, Join(tid) PROVE UNCHANGED S!sched
    <3>1. /\ pc[tp] = "run" /\ pc' = [pc EXCEPT ![tp] = "join"]
          /\ UNCHANGED <<state, ready_list, wait_list, tp>>
      BY <2>5 DEF Join, At
    <3>. QED  BY <1>0, <3>1, StutterStep
  <2>6. ASSUME NEW c \in IrqConds \cup LockConds, WaitForIrq(c) \/ WaitForLock(c)
        PROVE  S!SchedNext
    <3>1. pc[tp] = "run" /\ c \in Conds /\ \E r : BeginWait(c, r)
      BY <1>0, <2>6 DEF WaitForIrq, WaitForLock, At
    <3>. QED  BY <3>1, WaitRefines
  <2>7. ASSUME NEW c \in LockConds, SignalLock(c) PROVE S!SchedNext
    <3>1. c \in Conds /\ pc[tp] = "run"
      BY <1>0, <2>7 DEF SignalLock, At
    <3>2. Broadcast(c) /\ tp' = tp /\ pc' = pc
      BY <2>7, <3>1, BroadcastFacts DEF SignalLock
    <3>. QED  BY <3>1, <3>2, WakeRefines
  <2>8. CASE EnterUser \/ Syscall
    <3>1. /\ pc[tp] \in {"run", "user"} /\ UNCHANGED <<state, ready_list, wait_list, tp>>
          /\ pc' = [pc EXCEPT ![tp] = "user"] \/ pc' = [pc EXCEPT ![tp] = "run"]
      BY <2>8 DEF EnterUser, Syscall, At
    <3>. QED  BY <1>0, <3>1, StutterStep
  <2>. QED  BY <1>2, <2>1, <2>2, <2>3, <2>4, <2>5, <2>6, <2>7, <2>8 DEF Call
<1>3. CASE TakeInterrupt
  <2>1. PICK c \in IrqConds : Interrupt(c)
    BY <1>3 DEF TakeInterrupt
  <2>2. c \in Conds
    BY <1>0
  <2>3. CASE Halt("caller not RUNNING")
    BY <2>3, HaltStutter
  <2>4. CASE Broadcast(c) /\ AfterIsr /\ tp' = tp
    <3>1. pc'[tp] = "wait" <=> pc[tp] = "wait"
      BY <1>0, <2>4 DEF AfterIsr
    <3>2. pc[tp] = "wait" => wait_cond[tp] # c
      BY <2>1 DEF Interrupt, IInv, Masked, Owner
    <3>. QED  BY <2>2, <2>4, <3>1, <3>2, WakeRefines
  <2>. QED  BY <2>1, <2>2, <2>3, <2>4, BroadcastFacts DEF Interrupt
<1>4. CASE (\E c \in IrqConds : Raise(c)) \/ UNCHANGED vars
  BY <1>4, SameStep DEF Raise, vars
<1>. QED  BY <1>1, <1>2, <1>3, <1>4 DEF Next, Halted

\* thread.c keeps the promises of Scheduler, for any number of threads and
\* conditions: one thread has the hart, ready threads get it first come first
\* served, and condition_broadcast makes every waiter ready, in order, even when
\* the ISR that calls it falls into the middle of condition_wait or suspend_self.
THEOREM SchedulerRefinement == Spec => ImplementsScheduler
BY InitRefines, Invariance, StepRefines, PTL DEF Spec, ImplementsScheduler, S!SchedSpec
=============================================================================

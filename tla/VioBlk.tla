------------------------------- MODULE VioBlk -------------------------------
(***************************************************************************)
(* The block driver, kern/vioblk.c: a device with one request at a time,   *)
(* one position and one block buffer, shared by its callers, and a lock    *)
(* around every call.  The disk is an array of words (the 4 bytes of a     *)
(* block number); a sector is blksz words.  The interrupt comes by way of  *)
(* kern/plic.c and kern/intr.c.                                            *)
(*                                                                         *)
(* A caller seeks and then reads or writes; each of the two calls takes    *)
(* the lock.  A thread in the kernel keeps the hart until it waits, so its *)
(* actions interleave with the device and the interrupt only.              *)
(***************************************************************************)
EXTENDS Scheduler

CONSTANTS
    blksz,     \* words of a sector
    size,      \* words of the disk
    Image      \* what is on the disk at first

ASSUME VioBlkAssumption ==
    /\ blksz \in Nat \ {0} /\ size \in Nat \ {0} /\ size % blksz = 0
    /\ Image \in [0 .. size - 1 -> Nat]
    /\ Conditions = {"kfs", "vio", "used"}
    /\ Nobody \notin Threads

VARIABLES
    lock,      \* the tid of kfs_lock and of vio_lock
    dev,       \* position, request, block buffer, interrupt status
    disk,      \* the words of the disk
    plic,      \* the interrupt controller's view of the device
    call,      \* for every thread, its calls of the driver
    \* What follows observes the system and is not part of it.
    crossed,   \* a lock has been taken from its owner
    failed     \* a call has ended with its lock held, or has gone astray

vio == <<lock, dev, disk, plic, call, crossed, failed>>

UNLOCKED == -1
Lower(a, b) == IF a < b THEN a ELSE b

\* vioblk_attach and vioblk_open.  pending is avail.idx - used.idx.
vioblk_attach ==
    [pos |-> 0, type |-> "in", sector |-> 0, pending |-> 0, status |-> "ok",
     blkbuf |-> [i \in 0 .. blksz - 1 |-> 0], interrupt_status |-> 0]

\* from is the position for which sector, sector_offset and to_read (to_write)
\* were computed: they are locals, and do not follow dev->pos.
NoCall == [at |-> "none", op |-> "in", pos |-> 0, n |-> 0, phase |-> "in",
           from |-> 0, buf |-> << >>]

VioInit ==
    /\ lock = [kfs |-> UNLOCKED, vio |-> UNLOCKED]
    /\ dev = vioblk_attach
    /\ disk = Image
    /\ plic = [prio |-> 1, serving |-> FALSE]
    /\ call = [t \in Threads |-> NoCall]
    /\ crossed = FALSE /\ failed = FALSE

-----------------------------------------------------------------------------
\* lock_acquire where the lock is taken: it is free, or the thread has waited
\* once and looks no more.
Take(l, t, woken) ==
    /\ lock[l] = UNLOCKED \/ woken
    /\ crossed' = (crossed \/ lock[l] \notin {UNLOCKED, t})

\* lock_acquire where it is not.
WaitFor(l, woken) ==
    /\ lock[l] # UNLOCKED /\ ~woken
    /\ Block(l)

\* A thread starts to seek to p and then to transfer n words.
Begin(t, op, p, n, words) ==
    call' = [call EXCEPT ![t] = [at |-> "seek", op |-> op, pos |-> p, n |-> n,
                                 phase |-> op, from |-> 0, buf |-> words]]

At(t, places) == running = t /\ call[t].at \in places

\* vioblk_setpos.  A position beyond the end is refused with the lock held;
\* the caller does not look.
vioblk_setpos(t) ==
    /\ At(t, {"seek", "seek woken"})
    /\ LET woken == call[t].at = "seek woken" IN
       \/ /\ WaitFor("vio", woken)
          /\ call' = [call EXCEPT ![t].at = "seek woken"]
          /\ UNCHANGED <<lock, dev, crossed, failed>>
       \/ /\ Take("vio", t, woken)
          /\ call[t].pos <= size
          /\ dev' = [dev EXCEPT !.pos = call[t].pos]
          /\ lock' = [lock EXCEPT !.vio = UNLOCKED]
          /\ Wake("vio")
          /\ call' = [call EXCEPT ![t].at = "begin"]
          /\ UNCHANGED failed
       \/ /\ Take("vio", t, woken)
          /\ call[t].pos > size
          /\ lock' = [lock EXCEPT !.vio = t]
          /\ call' = [call EXCEPT ![t].at = "begin"]
          /\ failed' = TRUE
          /\ UNCHANGED <<dev, sched>>
    /\ UNCHANGED <<disk, plic>>

\* vioblk_read and vioblk_write, as far as the lock.
vioblk_acquire(t) ==
    /\ At(t, {"begin", "begin woken"})
    /\ LET woken == call[t].at = "begin woken" IN
       \/ /\ WaitFor("vio", woken)
          /\ call' = [call EXCEPT ![t].at = "begin woken"]
          /\ UNCHANGED <<lock, crossed>>
       \/ /\ Take("vio", t, woken)
          /\ lock' = [lock EXCEPT !.vio = t]
          /\ call' = [call EXCEPT ![t].at = "loop"]
          /\ UNCHANGED sched
    /\ UNCHANGED <<dev, disk, plic, failed>>

Offset(p) == p % blksz
Count(t, p) == Lower(blksz - Offset(p), call[t].n)

\* A mutant: a sector that is written in part is not read first.
Partial_Never(t, p) == FALSE

\* vioblk_write reads a sector that it will write in part.
Partial(t, p) == Offset(p) # 0 \/ Count(t, p) # blksz

\* The words that go into the block buffer before a write.
Merged(t, p) == [i \in 0 .. blksz - 1 |->
                   IF i \in Offset(p) .. Offset(p) + Count(t, p) - 1
                   THEN call[t].buf[i - Offset(p) + 1] ELSE dev.blkbuf[i]]

\* Fill in the header and the descriptors, and notify the device.
Submit(type, p, blkbuf) ==
    dev' = [dev EXCEPT !.type = type, !.sector = p \div blksz,
                       !.blkbuf = blkbuf, !.pending = @ + 1]

\* The head of the loop of vioblk_read and vioblk_write: the next request, or
\* the end of the call.
vioblk_loop(t) ==
    /\ At(t, {"loop"})
    /\ \/ /\ call[t].n = 0 \/ dev.pos >= size
          /\ lock' = [lock EXCEPT !.vio = UNLOCKED]
          /\ Wake("vio")
          /\ call' = [call EXCEPT ![t].at = "return"]
          /\ UNCHANGED dev
       \/ /\ call[t].n > 0 /\ dev.pos < size
          /\ LET p == dev.pos
                 type == IF call[t].op = "out" /\ ~Partial(t, p) THEN "out" ELSE "in"
             IN /\ Submit(type, p, IF type = "out" THEN Merged(t, p) ELSE dev.blkbuf)
                /\ call' = [call EXCEPT ![t].at = "wait", ![t].phase = type, ![t].from = p]
          /\ UNCHANGED <<lock, sched>>
    /\ UNCHANGED <<disk, plic, crossed, failed>>

\* What vioblk_read copies out of the block buffer.
Copied(t, p) == [i \in 1 .. Count(t, p) |-> dev.blkbuf[Offset(p) + i - 1]]

\* The wait for the device, interrupts off; then the status and the copy.
vioblk_wait(t) ==
    /\ At(t, {"wait"})
    /\ LET p == call[t].from IN
       \/ /\ dev.pending # 0
          /\ Block("used")
          /\ UNCHANGED <<dev, call, failed>>
       \/ /\ dev.pending = 0 /\ dev.status # "ok"
          /\ call' = [call EXCEPT ![t].at = "return"]
          /\ failed' = TRUE
          /\ UNCHANGED <<dev, sched>>
       \/ /\ dev.pending = 0 /\ dev.status = "ok"
          /\ call[t].op = "out" /\ call[t].phase = "in"
          /\ Submit("out", p, Merged(t, p))
          /\ call' = [call EXCEPT ![t].phase = "out"]
          /\ UNCHANGED <<failed, sched>>
       \/ /\ dev.pending = 0 /\ dev.status = "ok"
          /\ call[t].op = call[t].phase
          /\ dev' = [dev EXCEPT !.pos = @ + Count(t, p)]
          /\ call' = [call EXCEPT ![t].at = "loop", ![t].n = @ - Count(t, p),
                        ![t].buf = IF call[t].op = "in"
                                   THEN @ \o Copied(t, p)
                                   ELSE SubSeq(@, Count(t, p) + 1, Len(@))]
          /\ UNCHANGED <<failed, sched>>
    /\ UNCHANGED <<lock, disk, plic, crossed>>

\* The device: it serves the request that is in the header when it gets to it,
\* and may fail.
DeviceDone ==
    /\ dev.pending > 0
    /\ LET first == dev.sector * blksz IN
       \/ /\ dev.type = "in"
          /\ dev' = [dev EXCEPT !.pending = @ - 1, !.status = "ok", !.interrupt_status = 1,
                                !.blkbuf = [i \in 0 .. blksz - 1 |-> disk[first + i]]]
          /\ UNCHANGED disk
       \/ /\ dev.type = "out"
          /\ disk' = [a \in DOMAIN disk |-> IF a \in first .. first + blksz - 1
                                            THEN dev.blkbuf[a - first] ELSE disk[a]]
          /\ dev' = [dev EXCEPT !.pending = @ - 1, !.status = "ok", !.interrupt_status = 1]
       \/ /\ dev' = [dev EXCEPT !.pending = @ - 1, !.status = "error", !.interrupt_status = 1]
          /\ UNCHANGED disk
    /\ UNCHANGED <<sched, lock, plic, call, crossed, failed>>

\* The controller offers an interrupt of a source that is on and not in service.
plic_claim_irq(p) == [p EXCEPT !.serving = TRUE]

\* A mutant: the interrupt is never completed.
plic_close_irq_Not(p) == p

plic_close_irq(p) == [p EXCEPT !.serving = FALSE]

\* A mutant: the ISR acknowledges the interrupt and wakes nobody.
vioblk_isr_Quiet ==
    /\ dev' = [dev EXCEPT !.interrupt_status = 0]
    /\ UNCHANGED sched

\* vioblk_isr: acknowledge, and wake whoever waits.
vioblk_isr ==
    /\ dev' = [dev EXCEPT !.interrupt_status = 0]
    /\ Wake("used")

\* intr_handler and extern_intr_handler: claim, serve, complete.
extern_intr_handler ==
    /\ plic.prio > 0 /\ ~plic.serving /\ dev.interrupt_status # 0
    /\ vioblk_isr
    /\ plic' = plic_close_irq(plic_claim_irq(plic))
    /\ UNCHANGED <<lock, disk, call, crossed, failed>>
=============================================================================

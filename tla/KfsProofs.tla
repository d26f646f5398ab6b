----------------------------- MODULE KfsProofs ------------------------------
(***************************************************************************)
(* Proofs about Kfs, for any disk with a file system on it, any number of  *)
(* threads and any sizes of sectors, blocks and calls: no completion of    *)
(* the block device is missed, a write changes the words it was asked to   *)
(* write and no others, and a call that returns has done its job.          *)
(***************************************************************************)
EXTENDS Kfs, SchedulerProofs, FiniteSetTheorems

\* The device's record keeps its fields, and requests are counted from zero.
DeviceOK ==
    /\ DOMAIN dev = DOMAIN vioblk_attach
    /\ dev.pending \in Nat

\* The interrupt controller is between two interrupts.
PlicOK == plic = [prio |-> 1, serving |-> FALSE]

IInv == SchedTypeOK /\ DeviceOK /\ PlicOK /\ CompletionSeen

LEMMA Conds == "kfs" \in Conditions /\ "vio" \in Conditions /\ "used" \in Conditions
BY VioBlkAssumption

LEMMA InitIInv == Init => IInv
<1>. SUFFICES ASSUME Init PROVE IInv
  OBVIOUS
<1>1. Cardinality(Threads) \in Nat /\ Cardinality(Threads) # 0
  BY KfsAssumption, FS_CardinalityType, FS_EmptySet
<1>2. ready \in Seq(Threads)
  <2>1. Cardinality(Threads) - 1 \in Nat
    BY <1>1
  <2>. QED  BY <2>1 DEF Init
<1>3. SchedTypeOK
  BY <1>2, KfsAssumption DEF Init, SchedTypeOK
<1>. QED  BY <1>3, Conds DEF Init, VioInit, vioblk_attach, IInv, DeviceOK, PlicOK, CompletionSeen

\* A step that leaves the device and the controller alone, and nobody to sleep on
\* used_updated who did not before.
LEMMA QuietStep ==
    ASSUME IInv, SchedTypeOK', UNCHANGED plic,
           DOMAIN dev' = DOMAIN dev, dev'.pending = dev.pending,
           dev'.interrupt_status = dev.interrupt_status,
           waiting'["used"] = waiting["used"]
    PROVE  IInv'
BY DEF IInv, DeviceOK, PlicOK, CompletionSeen

\* The steps in which a thread only waits for a lock, or wakes its waiters.
LEMMA LockWait ==
    ASSUME IInv, NEW c \in {"kfs", "vio"}, Block(c) \/ Wake(c)
    PROVE  SchedTypeOK' /\ waiting'["used"] = waiting["used"]
BY Conds, BlockType, WakeType DEF IInv

LEMMA SchedSame ==
    ASSUME IInv, UNCHANGED sched
    PROVE  SchedTypeOK' /\ waiting'["used"] = waiting["used"]
BY DEF IInv, SchedTypeOK, sched

\* A request to the device.
LEMMA SubmitStep ==
    ASSUME IInv, UNCHANGED <<sched, plic>>, NEW type, NEW p, NEW buf, Submit(type, p, buf)
    PROVE  IInv'
<1>1. DeviceOK' /\ dev'.pending > 0
  BY DEF IInv, DeviceOK, Submit, vioblk_attach
<1>. QED  BY <1>1, SchedSame DEF IInv, PlicOK, CompletionSeen

LEMMA DriverStepIInv ==
    ASSUME IInv, NEW t \in Threads, DriverStep(t)
    PROVE  IInv'
<1>1. CASE vioblk_setpos(t)
  <2>1. UNCHANGED dev \/ dev' = [dev EXCEPT !.pos = call[t].pos]
    BY <1>1 DEF vioblk_setpos
  <2>2. Block("vio") \/ Wake("vio") \/ UNCHANGED sched
    BY <1>1 DEF vioblk_setpos, WaitFor
  <2>3. /\ DOMAIN dev' = DOMAIN dev /\ dev'.pending = dev.pending
        /\ dev'.interrupt_status = dev.interrupt_status
    BY <2>1 DEF IInv, DeviceOK, vioblk_attach
  <2>. QED  BY <1>1, <2>2, <2>3, LockWait, SchedSame, QuietStep DEF vioblk_setpos
<1>2. CASE vioblk_acquire(t)
  <2>1. Block("vio") \/ UNCHANGED sched
    BY <1>2 DEF vioblk_acquire, WaitFor
  <2>. QED  BY <1>2, <2>1, LockWait, SchedSame, QuietStep DEF vioblk_acquire
<1>3. CASE vioblk_loop(t)
  <2>1. CASE Wake("vio") /\ UNCHANGED dev
    BY <1>3, <2>1, LockWait, QuietStep DEF vioblk_loop
  <2>2. CASE UNCHANGED sched /\ \E type, p, buf : Submit(type, p, buf)
    BY <1>3, <2>2, SubmitStep DEF vioblk_loop
  <2>. QED  BY <1>3, <2>1, <2>2 DEF vioblk_loop
<1>4. CASE vioblk_wait(t)
  <2>0. UNCHANGED plic
    BY <1>4 DEF vioblk_wait
  <2>1. CASE dev.pending # 0 /\ Block("used") /\ UNCHANGED dev
    <3>1. SchedTypeOK' /\ dev'.pending > 0
      BY <2>1, Conds, BlockType DEF IInv, DeviceOK
    <3>. QED  BY <2>0, <2>1, <3>1 DEF IInv, DeviceOK, PlicOK, CompletionSeen
  <2>2. CASE UNCHANGED <<dev, sched>>
    BY <2>0, <2>2, SchedSame, QuietStep
  <2>3. CASE UNCHANGED sched /\ \E p, buf : Submit("out", p, buf)
    BY <2>0, <2>3, SubmitStep
  <2>4. CASE UNCHANGED sched /\ \E k : dev' = [dev EXCEPT !.pos = @ + k]
    <3>1. /\ DOMAIN dev' = DOMAIN dev /\ dev'.pending = dev.pending
          /\ dev'.interrupt_status = dev.interrupt_status
      BY <2>4 DEF IInv, DeviceOK, vioblk_attach
    <3>. QED  BY <2>0, <2>4, <3>1, SchedSame, QuietStep
  <2>. QED  BY <1>4, <2>1, <2>2, <2>3, <2>4 DEF vioblk_wait
<1>. QED  BY <1>1, <1>2, <1>3, <1>4 DEF DriverStep

\* The device answers: it raises its interrupt.
LEMMA DeviceIInv ==
    ASSUME IInv, Device
    PROVE  IInv'
<1>1. /\ DOMAIN dev' = DOMAIN dev
      /\ dev'.pending = dev.pending - 1 /\ dev.pending > 0
      /\ dev'.interrupt_status = 1
  BY DEF Device, DeviceDone, IInv, DeviceOK, vioblk_attach
<1>2. UNCHANGED <<sched, plic>>
  BY DEF Device, DeviceDone
<1>. QED  BY <1>1, <1>2, SchedSame DEF IInv, DeviceOK, PlicOK, CompletionSeen

\* The interrupt is taken: everybody who sleeps on used_updated is woken.
LEMMA InterruptIInv ==
    ASSUME IInv, Interrupt
    PROVE  IInv'
<1>1. /\ dev' = [dev EXCEPT !.interrupt_status = 0]
      /\ Wake("used")
      /\ plic' = plic_close_irq(plic_claim_irq(plic))
  BY DEF Interrupt, extern_intr_handler, vioblk_isr
<1>2. DeviceOK' /\ PlicOK'
  BY <1>1 DEF IInv, DeviceOK, PlicOK, vioblk_attach, plic_close_irq, plic_claim_irq
<1>3. SchedTypeOK' /\ waiting'["used"] = << >>
  BY <1>1, Conds, WakeType DEF IInv
<1>. QED  BY <1>2, <1>3 DEF IInv, CompletionSeen

\* The steps of the file system itself use the driver's variables only through
\* the calls that they begin.
LEMMA FileStepIInv ==
    ASSUME IInv, NEW t \in Threads,
           \/ \E i \in Inodes : fs_open(t, i)
           \/ \E p \in Sizes : fs_setpos(t, p)
           \/ \E n \in Sizes, op \in {"read", "write"} : fs_call(t, op, n)
           \/ fs_opened(t) \/ fs_open_failed(t) \/ fs_acquire(t) \/ fs_boot(t)
           \/ fs_length(t) \/ fs_block(t) \/ fs_data(t) \/ fs_onward(t) \/ fs_astray(t)
    PROVE  IInv'
<1>1. UNCHANGED <<dev, plic>>
  BY DEF fs_open, fs_setpos, fs_call, fs_opened, fs_open_failed, fs_acquire, fs_boot,
         fs_length, fs_block, fs_data, fs_onward, fs_astray, vio
<1>2. UNCHANGED sched \/ Block("kfs") \/ Wake("kfs")
  BY DEF fs_open, fs_setpos, fs_call, fs_opened, fs_open_failed, fs_acquire, fs_boot,
         fs_length, fs_block, fs_data, fs_onward, fs_astray, WaitFor, NextBlock
<1>. QED  BY <1>1, <1>2, LockWait, SchedSame, QuietStep

LEMMA NextIInv == IInv /\ [Next]_vars => IInv'
<1>. SUFFICES ASSUME IInv, [Next]_vars PROVE IInv'
  OBVIOUS
<1>1. ASSUME NEW t \in Threads, Preempt(t) PROVE IInv'
  <2>1. SchedTypeOK' /\ UNCHANGED waiting
    BY <1>1, YieldType DEF Preempt, YieldHart, IInv
  <2>. QED  BY <1>1, <2>1, QuietStep DEF Preempt, vio
<1>2. CASE DispatchNext
  <2>1. SchedTypeOK' /\ UNCHANGED waiting
    BY <1>2, DispatchType DEF DispatchNext, Dispatch, IInv
  <2>. QED  BY <1>2, <2>1, QuietStep DEF DispatchNext, vio
<1>3. CASE UNCHANGED vars
  BY <1>3 DEF vars, vio, IInv, SchedTypeOK, DeviceOK, PlicOK, CompletionSeen
<1>. QED  BY <1>1, <1>2, <1>3, DriverStepIInv, FileStepIInv, DeviceIInv, InterruptIInv
          DEF Next, Step

LEMMA Invariance == Spec => []IInv
  BY InitIInv, NextIInv, PTL DEF Spec

\* vioblk_read and vioblk_write look at used.idx and wait with interrupts off, and
\* vioblk_isr wakes every sleeper: whatever the interleaving of the callers, the
\* device and the interrupt, nobody sleeps through the completion of the last
\* request.
THEOREM CompletionSafety == Spec => []CompletionSeen
  BY Invariance, PTL DEF IInv

-----------------------------------------------------------------------------
(* The invariant of the file system *)

\* A thread has the hart, is ready or waits on one condition.
OnePlace ==
    /\ Distinct(ready) /\ ~On(running, ready)
    /\ \A c \in Conditions : Distinct(waiting[c]) /\ ~On(running, waiting[c])
    /\ \A c \in Conditions, t \in Threads : ~(On(t, ready) /\ On(t, waiting[c]))
    /\ \A c, d \in Conditions, t \in Threads :
         c # d => ~(On(t, waiting[c]) /\ On(t, waiting[d]))

\* The boot block and the inodes come before the data.
DataStart == FS_BLKSZ * (1 + Image[1])
FileLen(i) == Image[InodeAt(i)]
SpotAt(i, p) == InodeAt(i) + 1 + (p \div FS_BLKSZ)

\* WordAt, on a disk whose inodes are those of the image.
Place(i, p) == FS_BLKSZ * (1 + Image[1] + Image[SpotAt(i, p)]) + (p % FS_BLKSZ)

DiskOK ==
    /\ DOMAIN disk = 0 .. size - 1
    /\ \A a \in 0 .. DataStart - 1 : disk[a] = Image[a]

\* The places of a call inside kfs_lock, and those in which the driver works.
Inside == {"boot", "length", "block", "data"}
Working == {"loop", "wait"}

\* The locks have the owners that the places of the threads say; a thread that
\* has left a call of the driver with its lock held goes on until it waits for
\* itself.
Owners(t) ==
    /\ lock.kfs = t <=> job[t].at \in Inside
    /\ call[t].at \in Working => lock.vio = t
    /\ call[t].at = "begin" =>
         /\ running = t
         /\ lock.vio # t => /\ lock.vio = UNLOCKED
                            /\ dev.pos = call[t].pos /\ call[t].pos <= size
    /\ call[t].at = "begin woken" => lock.vio = t
    /\ lock.vio = t /\ call[t].at \in {"seek woken", "begin woken"} => On(t, waiting["vio"])

\* The words that the next call of the driver has to transfer.
PartLen(j) == Lower(FS_BLKSZ - (j.pos % FS_BLKSZ), j.n)
Total(j) == IF j.at = "data" THEN PartLen(j) ELSE 1

\* Where a job has its driver start.
SeekTo(j) ==
    CASE j.at = "boot" -> {1}
      [] j.at \in {"open", "length"} -> {InodeAt(j.inode)}
      [] j.at = "block" -> {SpotAt(j.inode, j.pos)}
      [] OTHER -> {Place(j.inode, j.pos), size + 1}

FdOK(f) ==
    /\ f.inode \in Inodes /\ f.file_pos \in Nat /\ f.file_size = FileLen(f.inode)

\* A call of the file system, by how far it has come.
JobOK(j, f) ==
    /\ j.at \in {"back", "open", "lock", "lock woken"} \cup Inside
    /\ j.at # "back" => j.inode \in Inodes
    /\ j.at = "open" <=> j.op = "open" /\ j.at # "back"
    /\ j.at \in {"lock", "lock woken"} \cup Inside =>
         j.op \in {"read", "write"} /\ j.inode = f.inode /\ j.asked \in Nat
    /\ j.at \in {"lock", "lock woken", "boot", "length"} => j.count = 0 /\ j.got = << >>
    /\ j.at \in {"length", "block", "data"} => j.num_inodes = Image[1]
    /\ j.at \in {"block", "data"} =>
         /\ j.n \in Nat \ {0} /\ j.start \in Nat /\ j.count \in Nat /\ j.pos = j.start + j.count
         /\ f.file_pos = j.pos
         /\ j.pos + j.n = j.start + Lower(j.asked, FileLen(j.inode) - j.start)

\* A job that is in a call of the driver.
Calling(j) == j.at \notin {"back", "lock", "lock woken"}

\* A call of the driver is for its job.
CallOK(t, c, j) ==
    /\ c.at # "none" <=> Calling(j)
    /\ c.at # "none" =>
         /\ c.at \in {"seek", "seek woken", "begin", "begin woken", "return", "astray"} \cup Working
         /\ c.op = (IF j.at = "data" /\ j.op = "write" THEN "out" ELSE "in")
         /\ c.pos \in SeekTo(j)
         /\ c.n \in 0 .. Total(j)
         /\ c.op = "out" => c.buf = [i \in 1 .. c.n |-> t]

\* What a transfer has done so far.
Moved(words, t, c, j) ==
    LET k == Total(j) - c.n IN
    /\ c.op = "in" => c.buf = [i \in 1 .. k |-> words[c.pos + i - 1]]
    /\ c.op = "out" => \A i \in 0 .. k - 1 : c.pos + i < size /\ words[c.pos + i] = t

Progress(t, c, j) ==
    /\ c.at \in {"seek", "seek woken", "begin"} /\ lock.vio # t =>
         c.n = Total(j) /\ Moved(disk, t, c, j)
    /\ c.at \in Working => /\ Moved(disk, t, c, j) /\ c.pos <= size
                           /\ dev.pos = c.pos + Total(j) - c.n
    /\ c.at = "return" /\ lock.vio # t => Moved(disk, t, c, j) /\ c.pos <= size
    /\ c.at = "return" /\ lock.vio = t /\ j.at # "data" => c.buf = << >>

\* The request that a thread waits for.
Request(t, c) ==
    LET first == dev.sector * blksz
        mine == Offset(dev.pos) .. Offset(dev.pos) + Count(t, dev.pos) - 1
    IN c.at = "wait" =>
         /\ dev.type = c.phase /\ c.phase \in {"in", "out"} /\ (c.phase = "out" => c.op = "out")
         /\ dev.sector = dev.pos \div blksz /\ c.from = dev.pos /\ dev.pos < size /\ c.n > 0
         /\ c.phase = "out" /\ dev.pending # 0 =>
              \A i \in 0 .. blksz - 1 :
                dev.blkbuf[i] = IF i \in mine THEN t ELSE disk[first + i]
         /\ dev.pending = 0 /\ dev.status = "ok" =>
              /\ c.phase = "in" => \A i \in 0 .. blksz - 1 : dev.blkbuf[i] = disk[first + i]
              /\ c.phase = "out" => \A i \in mine : first + i < size => disk[first + i] = t

\* What a call has got or written up to its position.
Got(words, t, j) ==
    /\ j.op = "read" => j.got = [k \in 1 .. j.count |-> words[Place(j.inode, j.start + k - 1)]]
    /\ j.op = "write" => \A k \in 1 .. j.count : LET a == Place(j.inode, j.start + k - 1)
                                                 IN  a < size /\ words[a] = t

Done(t, j) == j.at \in {"block", "data"} => Got(disk, t, j)

Requests ==
    /\ dev.pending \in {0, 1}
    /\ dev.pending = 1 => \E t \in Threads : call[t].at = "wait"

\* The records keep their fields.
Shapes ==
    /\ DOMAIN lock = {"kfs", "vio"}
    /\ DOMAIN call = Threads /\ DOMAIN job = Threads /\ DOMAIN fd = Threads
    /\ \A t \in Threads : /\ DOMAIN call[t] = DOMAIN NoCall /\ DOMAIN job[t] = DOMAIN NoJob
                          /\ DOMAIN fd[t] = {"inode", "file_pos", "file_size"}

Local(t) == FdOK(fd[t]) /\ JobOK(job[t], fd[t]) /\ CallOK(t, call[t], job[t])

Thr(t) ==
    /\ Owners(t) /\ Local(t) /\ Progress(t, call[t], job[t])
    /\ Request(t, call[t]) /\ Done(t, job[t])

\* It holds as long as no lock has been taken from its owner.
FInv == Shapes /\ DiskOK /\ Requests /\ \A t \in Threads : Thr(t)

KInv == OnePlace /\ (~crossed => FInv)

-----------------------------------------------------------------------------
(* Where the words of a file are *)

LEMMA Numbers ==
    /\ FS_BLKSZ \in Nat \ {0, 1} /\ blksz \in Nat \ {0} /\ size \in Nat \ {0}
    /\ DataStart \in Nat /\ DataStart <= size /\ 1 \in 0 .. DataStart - 1
    /\ Image[1] \in Nat \ {0} /\ \A a \in 0 .. size - 1 : Image[a] \in Nat
<1>. DEFINE F == FS_BLKSZ
            m == Image[1]
<1>1. F \in Nat \ {0, 1} /\ blksz \in Nat \ {0} /\ size \in Nat \ {0}
      /\ (\A a \in 0 .. size - 1 : Image[a] \in Nat) /\ F * (1 + m) <= size /\ m \in Nat \ {0}
  BY VioBlkAssumption, KfsAssumption, ImageAssumption
<1>. HIDE DEF F, m
<1>2. F * (1 + m) \in Nat /\ F * (1 + m) >= 2
  BY <1>1
<1>. QED  BY <1>1, <1>2 DEF DataStart, F, m

\* A word is in the sector of its number, and the sector is on the disk.
LEMMA SectorFacts ==
    ASSUME NEW p \in 0 .. size - 1
    PROVE  LET f == (p \div blksz) * blksz IN
           /\ f \in Nat /\ p % blksz \in 0 .. blksz - 1
           /\ p = f + (p % blksz) /\ f + blksz <= size
<1>. DEFINE q == p \div blksz
            r == p % blksz
            e == size \div blksz
<1>1. p \in Nat /\ p \in Int /\ size \in Int /\ blksz \in Nat \ {0} /\ size \in Nat /\ p < size
  BY Numbers
<1>2. r = p - blksz * q /\ r \in 0 .. blksz - 1 /\ q \in Int
  BY <1>1, Remainder, Zenon
<1>3. 0 = size - blksz * e /\ e \in Int
  <2>1. size % blksz = size - blksz * e /\ e \in Int
    BY <1>1, Remainder, Zenon
  <2>. QED  BY <2>1, VioBlkAssumption
<1>. HIDE DEF q, r, e
<1>4. blksz * q \in Int /\ blksz * e \in Int /\ q * blksz = blksz * q
  BY <1>1, <1>2, <1>3
<1>5. q >= 0
  <2>. SUFFICES ASSUME q <= -1 PROVE FALSE
    BY <1>2
  <2>1. blksz * q <= -blksz
    BY <1>1, <1>2
  <2>. QED  BY <1>1, <1>2, <1>4, <2>1
<1>6. q < e
  <2>. SUFFICES ASSUME q >= e PROVE FALSE
    BY <1>2, <1>3
  <2>1. blksz * q >= blksz * e
    BY <1>1, <1>2, <1>3
  <2>. QED  BY <1>1, <1>2, <1>3, <1>4, <2>1
<1>7. blksz * (q + 1) <= blksz * e /\ blksz * (q + 1) = blksz * q + blksz
  BY <1>1, <1>2, <1>3, <1>6
<1>8. blksz * q >= 0
  BY <1>1, <1>2, <1>5
<1>. QED  BY <1>1, <1>2, <1>3, <1>4, <1>7, <1>8 DEF q, r

\* The inode and the numbers of the blocks are in front of the data, and the data
\* are not.
LEMMA InodeFacts ==
    ASSUME NEW i \in Inodes
    PROVE  /\ InodeAt(i) \in 0 .. DataStart - 1 /\ FileLen(i) \in Nat
           /\ \A p \in 0 .. FileLen(i) - 1 :
                SpotAt(i, p) \in 0 .. DataStart - 1 /\ Place(i, p) \in Nat /\ Place(i, p) >= DataStart
<1>. DEFINE F == FS_BLKSZ
            m == Image[1]
<1>1. F \in Nat \ {0, 1} /\ m \in Nat \ {0} /\ i \in 0 .. m - 1 /\ DataStart = F * (1 + m)
      /\ DataStart \in Nat /\ DataStart <= size /\ size \in Nat
  BY Numbers DEF Inodes, DataStart
<1>2. InodeAt(i) = F * (1 + i)
  BY DEF InodeAt
<1>. HIDE DEF F, m
<1>3. F * (1 + i) \in Nat /\ F * (1 + i) + F = F * (2 + i) /\ F * (2 + i) <= F * (1 + m)
  <2>1. F * (1 + i) \in Nat
    BY <1>1
  <2>2. F * (1 + i) + F = F * (2 + i)
    BY <1>1
  <2>3. F * (2 + i) <= F * (1 + m)
    BY <1>1
  <2>. QED  BY <2>1, <2>2, <2>3
<1>4. InodeAt(i) \in 0 .. DataStart - 1
  BY <1>1, <1>2, <1>3
<1>5. FileLen(i) \in Nat
  BY <1>1, <1>4, Numbers DEF FileLen
<1>6. FileLen(i) <= F * (F - 1)
  BY ImageAssumption DEF FileLen, F
<1>7. ASSUME NEW p \in 0 .. FileLen(i) - 1
      PROVE  SpotAt(i, p) \in 0 .. DataStart - 1 /\ Place(i, p) \in Nat /\ Place(i, p) >= DataStart
  <2>. DEFINE q == p \div F
              r == p % F
  <2>0. p \in Int /\ F \in Nat \ {0}
    BY <1>1, <1>5
  <2>1. r = p - F * q /\ r \in 0 .. F - 1 /\ q \in Int
    BY <2>0, Remainder, Zenon
  <2>2. SpotAt(i, p) = InodeAt(i) + 1 + q /\ Place(i, p) = F * (1 + m + Image[SpotAt(i, p)]) + r
    BY DEF SpotAt, Place, F, m
  <2>. HIDE DEF q, r
  <2>3. F * q \in Int /\ F * (F - 1) \in Int /\ p < F * (F - 1) /\ p >= 0
    BY <1>1, <1>5, <1>6, <2>1
  <2>4. q >= 0
    <3>. SUFFICES ASSUME q <= -1 PROVE FALSE
      BY <2>1
    <3>1. F * q <= -F
      BY <1>1, <2>1
    <3>. QED  BY <1>1, <2>1, <2>3, <3>1
  <2>5. q < F - 1
    <3>. SUFFICES ASSUME q >= F - 1 PROVE FALSE
      BY <1>1, <2>1
    <3>1. F * q >= F * (F - 1)
      BY <1>1, <2>1
    <3>. QED  BY <1>1, <2>1, <2>3, <3>1
  <2>6. SpotAt(i, p) \in 0 .. DataStart - 1
    BY <1>1, <1>2, <1>3, <1>4, <2>1, <2>2, <2>4, <2>5
  <2>. DEFINE g == Image[SpotAt(i, p)]
  <2>7. g \in Nat
    BY <1>1, <2>6, Numbers
  <2>. HIDE DEF g
  <2>8. F * (1 + m + g) \in Nat /\ F * (1 + m + g) >= F * (1 + m)
    <3>1. F * (1 + m + g) = F * (1 + m) + F * g /\ F * g \in Nat
      BY <1>1, <2>7
    <3>. QED  BY <1>1, <3>1
  <2>9. Place(i, p) = F * (1 + m + g) + r
    BY <2>2 DEF g
  <2>. QED  BY <1>1, <2>1, <2>6, <2>8, <2>9
<1>. QED  BY <1>4, <1>5, <1>7

\* Within a block the words of a file follow each other.
LEMMA PlaceNext ==
    ASSUME NEW i, NEW p \in Nat, NEW k \in Nat, (p % FS_BLKSZ) + k < FS_BLKSZ
    PROVE  Place(i, p + k) = FS_BLKSZ * (1 + Image[1] + Image[SpotAt(i, p)]) + ((p % FS_BLKSZ) + k)
<1>. DEFINE F == FS_BLKSZ
            q == p \div F
            r == p % F
            e == (p + k) \div F
            u == (p + k) % F
<1>1. F \in Nat \ {0, 1} /\ F \in Nat \ {0} /\ p + k \in Int /\ p \in Int
  BY Numbers
<1>2. r = p - F * q /\ r \in 0 .. F - 1 /\ q \in Int
  BY <1>1, Remainder, Zenon
<1>3. u = (p + k) - F * e /\ u \in 0 .. F - 1 /\ e \in Int
  BY <1>1, Remainder, Zenon
<1>4. Place(i, p + k) = F * (1 + Image[1] + Image[InodeAt(i) + 1 + e]) + u
      /\ SpotAt(i, p) = InodeAt(i) + 1 + q /\ r + k < F
  BY DEF Place, SpotAt
<1>. HIDE DEF F, q, r, e, u
<1>5. F * e \in Int /\ F * q \in Int /\ F * (e - q) = F * e - F * q /\ e - q \in Int
  BY <1>1, <1>2, <1>3
<1>6. F * (e - q) = r + k - u
  BY <1>2, <1>3, <1>5
<1>7. e = q
  <2>1. e - q >= 1 => F * (e - q) >= F
    BY <1>1, <1>5
  <2>2. e - q <= -1 => F * (e - q) <= -F
    BY <1>1, <1>5
  <2>3. F * (e - q) < F /\ F * (e - q) > -F
    BY <1>1, <1>2, <1>3, <1>4, <1>6
  <2>. QED  BY <1>1, <1>2, <1>3, <1>5, <2>1, <2>2, <2>3
<1>8. u = r + k
  BY <1>1, <1>2, <1>3, <1>5, <1>7
<1>. QED  BY <1>4, <1>7, <1>8 DEF F, r

-----------------------------------------------------------------------------
(* Every thread is in one place *)

LEMMA EmptyList == \A x : ~On(x, << >>)
BY DEF On

\* The running thread goes to sleep.
LEMMA BlockPlace ==
    ASSUME SchedTypeOK, OnePlace, NEW c \in Conditions, Block(c)
    PROVE  OnePlace' /\ On(running, waiting'[c])
<1>. DEFINE w == waiting[c]
            v == Append(w, running)
<1>1. running \in Threads /\ w \in Seq(Threads) /\ running' = Nobody /\ ready' = ready
  BY DEF SchedTypeOK, Block
<1>2. waiting'[c] = v /\ \A d \in Conditions \ {c} : waiting'[d] = waiting[d]
  BY BlockType
<1>3. (\A y : On(y, v) <=> On(y, w) \/ y = running) /\ Distinct(v)
  BY <1>1, AppendList DEF OnePlace
<1>4. ready \in Seq(Threads) /\ \A d \in Conditions : waiting[d] \in Seq(Threads)
  BY DEF SchedTypeOK
<1>5. \A s \in Seq(Threads) : ~On(Nobody, s)
  BY VioBlkAssumption DEF On
<1>6. v \in Seq(Threads)
  BY <1>1, AppendList
<1>. HIDE DEF w, v
<1>7. Distinct(ready') /\ ~On(running', ready')
  BY <1>1, <1>4, <1>5 DEF OnePlace
<1>8. ASSUME NEW d \in Conditions PROVE Distinct(waiting'[d]) /\ ~On(running', waiting'[d])
  <2>1. CASE d = c
    BY <1>1, <1>2, <1>3, <1>5, <1>6, <2>1
  <2>2. CASE d # c
    BY <1>1, <1>2, <1>4, <1>5, <2>2 DEF OnePlace
  <2>. QED  BY <2>1, <2>2
<1>9. ASSUME NEW d \in Conditions, NEW t \in Threads PROVE ~(On(t, ready') /\ On(t, waiting'[d]))
  <2>1. CASE d = c
    <3>1. ~(On(t, ready) /\ On(t, w)) /\ ~On(running, ready)
      BY <2>1 DEF OnePlace, w
    <3>. QED  BY <1>1, <1>2, <1>3, <2>1, <3>1
  <2>2. CASE d # c
    BY <1>1, <1>2, <2>2 DEF OnePlace
  <2>. QED  BY <2>1, <2>2
<1>10. ASSUME NEW d \in Conditions, NEW e \in Conditions, NEW t \in Threads, d # e
       PROVE  ~(On(t, waiting'[d]) /\ On(t, waiting'[e]))
  <2>1. \A f \in Conditions : On(t, waiting'[f]) <=> On(t, waiting[f]) \/ (f = c /\ t = running)
    BY <1>2, <1>3 DEF w
  <2>2. ~(On(t, waiting[d]) /\ On(t, waiting[e])) /\ ~On(running, waiting[d]) /\ ~On(running, waiting[e])
    BY <1>10 DEF OnePlace
  <2>. QED  BY <1>10, <2>1, <2>2
<1>11. On(running, waiting'[c])
  BY <1>2, <1>3
<1>. QED  BY <1>7, <1>8, <1>9, <1>10, <1>11 DEF OnePlace

\* A broadcast.
LEMMA WakePlace ==
    ASSUME SchedTypeOK, OnePlace, NEW c \in Conditions, Wake(c)
    PROVE  OnePlace'
<1>. DEFINE w == waiting[c]
            v == ready \o w
<1>1. w \in Seq(Threads) /\ ready \in Seq(Threads) /\ running' = running /\ ready' = v
  BY DEF SchedTypeOK, Wake
<1>2. waiting'[c] = << >> /\ \A d \in Conditions \ {c} : waiting'[d] = waiting[d]
  BY WakeType
<1>3. (\A y : On(y, v) <=> On(y, ready) \/ On(y, w)) /\ Distinct(v)
  <2>1. Distinct(ready) /\ Distinct(w) /\ \A y \in Threads : ~(On(y, ready) /\ On(y, w))
    BY DEF OnePlace
  <2>. QED  BY <1>1, <2>1, ConcatList
<1>4. Distinct(<< >>)
  BY DEF Distinct
<1>. HIDE DEF v
<1>5. Distinct(ready') /\ ~On(running', ready')
  BY <1>1, <1>3 DEF OnePlace
<1>6. ASSUME NEW d \in Conditions PROVE Distinct(waiting'[d]) /\ ~On(running', waiting'[d])
  <2>1. CASE d = c
    BY <1>1, <1>2, <1>4, <2>1, EmptyList
  <2>2. CASE d # c
    BY <1>1, <1>2, <2>2 DEF OnePlace
  <2>. QED  BY <2>1, <2>2
<1>7. ASSUME NEW d \in Conditions, NEW t \in Threads PROVE ~(On(t, ready') /\ On(t, waiting'[d]))
  <2>1. CASE d = c
    BY <1>2, <2>1, EmptyList
  <2>2. CASE d # c
    <3>1. ~(On(t, ready) /\ On(t, waiting[d])) /\ ~(On(t, w) /\ On(t, waiting[d]))
      BY <2>2 DEF OnePlace
    <3>. QED  BY <1>1, <1>2, <1>3, <2>2, <3>1
  <2>. QED  BY <2>1, <2>2
<1>8. ASSUME NEW d \in Conditions, NEW e \in Conditions, NEW t \in Threads, d # e
       PROVE  ~(On(t, waiting'[d]) /\ On(t, waiting'[e]))
  <2>1. \A f \in Conditions : On(t, waiting'[f]) => On(t, waiting[f])
    BY <1>2, EmptyList
  <2>. QED  BY <1>8, <2>1 DEF OnePlace
<1>. QED  BY <1>5, <1>6, <1>7, <1>8 DEF OnePlace

\* Both remaining steps move the head of the ready list to the hart; r is the
\* list that is left, in which x may be new at the end.
LEMMA HeadPlace ==
    ASSUME SchedTypeOK, OnePlace, Dispatch \/ YieldHart
    PROVE  OnePlace' /\ UNCHANGED waiting
<1>0. UNCHANGED waiting
  BY DEF Dispatch, YieldHart
<1>1. ready \in Seq(Threads) /\ (\A d \in Conditions : waiting[d] \in Seq(Threads))
      /\ running \in Threads \cup {Nobody} /\ \A s \in Seq(Threads) : ~On(Nobody, s)
  BY VioBlkAssumption DEF On, SchedTypeOK
<1>2. ASSUME ready # << >>
      PROVE  /\ Head(ready) \in Threads /\ Tail(ready) \in Seq(Threads)
             /\ (\A y : On(y, ready) <=> On(y, Tail(ready)) \/ y = Head(ready))
             /\ Distinct(Tail(ready)) /\ ~On(Head(ready), Tail(ready))
  BY <1>1, <1>2, TailList DEF OnePlace
<1>3. /\ Distinct(ready') /\ ~On(running', ready') /\ ready' \in Seq(Threads)
      /\ \A y : y = running' \/ On(y, ready') => y \in {running, Nobody} \/ On(y, ready)
  <2>1. CASE Dispatch
    BY <1>2, <2>1 DEF Dispatch
  <2>2. CASE running # Nobody /\ running' = Nobody /\ ready' = Append(ready, running)
    <3>1. ~On(running, ready) /\ Distinct(ready) /\ running \in Threads
      BY <1>1, <2>2 DEF OnePlace
    <3>. QED  BY <1>1, <2>2, <3>1, AppendList
  <2>3. CASE running # Nobody /\ ready # << >> /\ running' = Head(ready)
             /\ ready' = Append(Tail(ready), running)
    <3>. DEFINE s == Tail(ready)
    <3>1. ~On(running, ready) /\ running \in Threads
      BY <1>1, <2>3 DEF OnePlace
    <3>2. s \in Seq(Threads) /\ Distinct(s) /\ ~On(running, s) /\ Head(ready) # running
          /\ ~On(Head(ready), s) /\ \A y : On(y, ready) <=> On(y, s) \/ y = Head(ready)
      BY <1>2, <2>3, <3>1
    <3>. HIDE DEF s
    <3>3. /\ Append(s, running) \in Seq(Threads) /\ Distinct(Append(s, running))
          /\ \A y : On(y, Append(s, running)) <=> On(y, s) \/ y = running
      BY <3>1, <3>2, AppendList
    <3>. QED  BY <2>3, <3>2, <3>3 DEF s
  <2>. QED  BY <2>1, <2>2, <2>3 DEF YieldHart
<1>4. ASSUME NEW d \in Conditions, NEW y, y = running' \/ On(y, ready') PROVE ~On(y, waiting[d])
  <2>1. y \in Threads \/ y = Nobody
    <3>1. CASE On(y, ready)
      BY <1>1, <3>1 DEF On
    <3>. QED  BY <1>1, <1>3, <1>4, <3>1
  <2>2. CASE y = Nobody
    BY <1>1, <2>2
  <2>3. CASE y \in Threads
    BY <1>3, <1>4, <2>3, VioBlkAssumption DEF OnePlace
  <2>. QED  BY <2>1, <2>2, <2>3
<1>. QED  BY <1>0, <1>3, <1>4 DEF OnePlace

LEMMA InitPlace == Init => OnePlace
<1>. SUFFICES ASSUME Init PROVE OnePlace
  OBVIOUS
<1>. DEFINE k == Cardinality(Threads) - 1
<1>1. ready \in [1 .. k -> Threads \ {First}] /\ \A i, j \in DOMAIN ready : ready[i] = ready[j] => i = j
  BY DEF Init
<1>2. k \in Nat
  BY KfsAssumption, FS_CardinalityType, FS_EmptySet
<1>3. Len(ready) = k /\ DOMAIN ready = 1 .. k
  <2>1. ready \in Seq(Threads)
    BY <1>1, <1>2
  <2>. QED  BY <1>1, <1>2, <2>1
<1>. HIDE DEF k
<1>4. Distinct(ready) /\ ~On(running, ready)
  BY <1>1, <1>3 DEF Init, Distinct, On
<1>5. \A c \in Conditions : waiting[c] = << >>
  BY DEF Init
<1>. QED  BY <1>4, <1>5, EmptyList DEF OnePlace, Distinct

-----------------------------------------------------------------------------
(* The threads that a step is not about *)

LEMMA LockIds == UNLOCKED \notin Threads /\ Nobody \notin Threads
BY VioBlkAssumption DEF UNLOCKED, Nobody

\* A step of thread t, as another thread u sees it.
Aside(t, u) ==
    /\ call'[u] = call[u] /\ job'[u] = job[u] /\ fd'[u] = fd[u] /\ disk' = disk
    /\ running = t
    /\ lock'.vio = lock.vio \/ (lock.vio \in {UNLOCKED, t} /\ lock'.vio \in {UNLOCKED, t})
    /\ lock'.kfs = lock.kfs \/ (lock.kfs \in {UNLOCKED, t} /\ lock'.kfs \in {UNLOCKED, t})
    /\ dev' = dev \/ lock.vio \in {UNLOCKED, t}
    /\ On(u, waiting["vio"]) /\ lock.vio = u => On(u, waiting'["vio"])

LEMMA AsideThread ==
    ASSUME FInv, NEW t \in Threads, NEW u \in Threads, u # t, Aside(t, u)
    PROVE  Thr(u)'
<1>1. Thr(u) /\ u # UNLOCKED
  BY LockIds DEF FInv
<1>2. /\ call'[u] = call[u] /\ job'[u] = job[u] /\ fd'[u] = fd[u] /\ disk' = disk /\ running = t
      /\ lock'.vio = u <=> lock.vio = u
      /\ lock'.kfs = u <=> lock.kfs = u
      /\ lock.vio = u => dev' = dev
      /\ On(u, waiting["vio"]) /\ lock.vio = u => On(u, waiting'["vio"])
  BY <1>1 DEF Aside
<1>3. call[u].at # "begin" /\ (call[u].at \in Working => lock.vio = u)
  BY <1>1, <1>2 DEF Thr, Owners
<1>4. Owners(u)'
  <2>1. Owners(u)
    BY <1>1 DEF Thr
  <2>2. (lock.kfs = u <=> job[u].at \in Inside)'
    BY <1>2, <2>1 DEF Owners
  <2>3. (call[u].at \in Working => lock.vio = u)' /\ (call[u].at = "begin woken" => lock.vio = u)'
    BY <1>2, <2>1 DEF Owners
  <2>4. (lock.vio = u /\ call[u].at \in {"seek woken", "begin woken"} => On(u, waiting["vio"]))'
    BY <1>2, <2>1 DEF Owners
  <2>. QED  BY <1>2, <1>3, <2>2, <2>3, <2>4 DEF Owners
<1>5. Local(u)'
  BY <1>1, <1>2 DEF Thr, Local
<1>6. Progress(u, call[u], job[u])'
  <2>1. Moved(disk, u, call[u], job[u])' <=> Moved(disk, u, call[u], job[u])
    BY <1>2 DEF Moved
  <2>2. call[u].at \in Working => dev' = dev
    BY <1>2, <1>3
  <2>3. Progress(u, call[u], job[u])
    BY <1>1 DEF Thr
  <2>. QED  BY <1>2, <1>3, <2>1, <2>2, <2>3 DEF Progress
<1>7. Request(u, call[u])'
  <2>1. CASE call[u].at = "wait"
    <3>1. dev' = dev
      BY <1>2, <1>3, <2>1 DEF Working
    <3>. QED  BY <1>1, <1>2, <3>1 DEF Thr, Request, Count, Offset
  <2>2. CASE call[u].at # "wait"
    BY <1>2, <2>2 DEF Request
  <2>. QED  BY <2>1, <2>2
<1>8. Done(u, job[u])'
  BY <1>1, <1>2 DEF Thr, Done, Got
<1>. QED  BY <1>4, <1>5, <1>6, <1>7, <1>8 DEF Thr

\* A step of thread t that gets no request out of the way.
LEMMA StepOf ==
    ASSUME FInv, NEW t \in Threads, OnePlace', Shapes', Thr(t)',
           \A u \in Threads \ {t} : Aside(t, u),
           disk' = disk,
           dev'.pending = dev.pending \/ (dev'.pending = 1 /\ call'[t].at = "wait"),
           call[t].at = "wait" => dev.pending = 0 \/ call'[t].at = "wait"
    PROVE  KInv'
<1>1. \A u \in Threads : Thr(u)'
  BY AsideThread
<1>2. DiskOK'
  BY DEF FInv, DiskOK
<1>3. Requests'
  <2>1. dev.pending \in {0, 1} /\ (dev.pending = 1 => \E u \in Threads : call[u].at = "wait")
    BY DEF FInv, Requests
  <2>2. \A u \in Threads \ {t} : call'[u] = call[u]
    BY DEF Aside
  <2>. QED  BY <2>1, <2>2 DEF Requests
<1>. QED  BY <1>1, <1>2, <1>3 DEF KInv, FInv

\* Assignments to the record of one thread.
LEMMA CallSet ==
    ASSUME Shapes, NEW t \in Threads, NEW r, DOMAIN r = DOMAIN NoCall,
           call' = [call EXCEPT ![t] = r]
    PROVE  /\ call'[t] = r /\ DOMAIN call' = Threads /\ \A u \in Threads \ {t} : call'[u] = call[u]
           /\ \A u \in Threads : DOMAIN call'[u] = DOMAIN NoCall
BY DEF Shapes

LEMMA JobSet ==
    ASSUME Shapes, NEW t \in Threads, NEW r, DOMAIN r = DOMAIN NoJob,
           job' = [job EXCEPT ![t] = r]
    PROVE  /\ job'[t] = r /\ DOMAIN job' = Threads /\ \A u \in Threads \ {t} : job'[u] = job[u]
           /\ \A u \in Threads : DOMAIN job'[u] = DOMAIN NoJob
BY DEF Shapes

\* A call that only goes to another place.
Moves(c, d, at) ==
    /\ d.at = at /\ d.op = c.op /\ d.pos = c.pos /\ d.n = c.n /\ d.phase = c.phase
    /\ d.from = c.from /\ d.buf = c.buf

LEMMA CallAt ==
    ASSUME Shapes, NEW t \in Threads, NEW a, call' = [call EXCEPT ![t].at = a]
    PROVE  /\ Moves(call[t], call'[t], a)
           /\ DOMAIN call' = Threads /\ \A u \in Threads \ {t} : call'[u] = call[u]
           /\ \A u \in Threads : DOMAIN call'[u] = DOMAIN NoCall
<1>. DEFINE c == call[t]
            r == [c EXCEPT !.at = a]
<1>1. DOMAIN c = {"at", "op", "pos", "n", "phase", "from", "buf"} /\ DOMAIN NoCall = DOMAIN c
  BY DEF Shapes, NoCall
<1>2. call' = [call EXCEPT ![t] = r]
  OBVIOUS
<1>. HIDE DEF c
<1>3. DOMAIN r = DOMAIN c /\ Moves(c, r, a)
  BY <1>1 DEF Moves
<1>. HIDE DEF r
<1>. QED  BY <1>1, <1>2, <1>3, CallSet DEF c

\* The record that Begin makes.
LEMMA BeginCall ==
    ASSUME Shapes, NEW t \in Threads, NEW op, NEW p, NEW n, NEW w, Begin(t, op, p, n, w)
    PROVE  /\ call'[t].at = "seek" /\ call'[t].op = op /\ call'[t].pos = p /\ call'[t].n = n
           /\ call'[t].buf = w
           /\ DOMAIN call' = Threads /\ \A u \in Threads \ {t} : call'[u] = call[u]
           /\ \A u \in Threads : DOMAIN call'[u] = DOMAIN NoCall
<1>. DEFINE r == [at |-> "seek", op |-> op, pos |-> p, n |-> n, phase |-> op, from |-> 0, buf |-> w]
<1>1. DOMAIN r = DOMAIN NoCall /\ r.at = "seek" /\ r.op = op /\ r.pos = p /\ r.n = n /\ r.buf = w
  BY DEF NoCall
<1>2. call' = [call EXCEPT ![t] = r]
  BY DEF Begin
<1>. HIDE DEF r
<1>. QED  BY <1>1, <1>2, CallSet

-----------------------------------------------------------------------------
(* The steps of the file system *)

LEMMA LowerFacts ==
    ASSUME NEW a \in Int, NEW b \in Int
    PROVE  Lower(a, b) \in {a, b} /\ Lower(a, b) <= a /\ Lower(a, b) <= b
BY DEF Lower

LEMMA TotalFacts ==
    ASSUME NEW j, NEW f, JobOK(j, f), Calling(j)
    PROVE  /\ Total(j) \in Nat \ {0}
           /\ j.at = "data" => /\ Total(j) = PartLen(j) /\ Total(j) <= j.n
                               /\ (j.pos % FS_BLKSZ) + Total(j) <= FS_BLKSZ
                               /\ j.pos \in Nat /\ j.pos % FS_BLKSZ \in Nat
<1>1. CASE j.at = "data"
  <2>1. j.n \in Nat \ {0} /\ j.pos \in Nat
    BY <1>1 DEF JobOK
  <2>. DEFINE r == j.pos % FS_BLKSZ
  <2>2. r \in 0 .. FS_BLKSZ - 1 /\ FS_BLKSZ \in Nat
    <3>1. FS_BLKSZ \in Nat \ {0}
      BY Numbers
    <3>2. j.pos \in Int
      BY <2>1
    <3>3. r \in 0 .. FS_BLKSZ - 1
      BY <3>1, <3>2, Remainder, Zenon
    <3>. QED  BY <3>1, <3>3
  <2>3. Total(j) = Lower(FS_BLKSZ - r, j.n)
    BY <1>1 DEF Total, PartLen
  <2>4. PartLen(j) = Total(j)
    BY <1>1 DEF Total
  <2>. HIDE DEF r
  <2>5. Total(j) \in Nat \ {0} /\ Total(j) <= j.n /\ r + Total(j) <= FS_BLKSZ /\ r \in Nat
    <3>. DEFINE a == FS_BLKSZ - r
                b == j.n
                k == Lower(a, b)
    <3>1. a \in Nat \ {0} /\ b \in Nat \ {0} /\ r \in Nat /\ r + a = FS_BLKSZ
      BY <2>1, <2>2
    <3>. HIDE DEF a, b
    <3>2. k \in {a, b} /\ k <= a /\ k <= b
      BY <3>1, LowerFacts
    <3>3. Total(j) = k
      BY <2>3 DEF a, b
    <3>. HIDE DEF k
    <3>4. k \in Nat \ {0} /\ r + k <= FS_BLKSZ
      BY <2>2, <3>1, <3>2
    <3>. QED  BY <3>1, <3>2, <3>3, <3>4 DEF b
  <2>. QED  BY <1>1, <2>1, <2>4, <2>5 DEF r
<1>2. CASE j.at # "data"
  <2>1. Total(j) = 1
    BY <1>2 DEF Total
  <2>2. Total(j) \in Nat \ {0}
    BY <2>1
  <2>. QED  BY <1>2, <2>2, Zenon
<1>. QED  BY <1>1, <1>2

\* A call of the driver that has not moved a word.
Fresh(c, j) == c.n = Total(j) /\ (c.op = "in" => c.buf = << >>)

LEMMA FreshMoved ==
    ASSUME NEW words, NEW t, NEW c, NEW j, Total(j) \in Nat, Fresh(c, j)
    PROVE  Moved(words, t, c, j)
<1>1. Total(j) - c.n = 0
  BY DEF Fresh
<1>2. \A p : [i \in 1 .. 0 |-> words[p + i - 1]] = << >>
  OBVIOUS
<1>3. 0 .. 0 - 1 = {}
  OBVIOUS
<1>. QED  BY <1>1, <1>2, <1>3 DEF Fresh, Moved

LEMMA PositionMeta ==
    ASSUME NEW j, NEW f, JobOK(j, f), j.at \in {"open", "boot", "length", "block"}
    PROVE  \A p \in SeekTo(j) : p \in 0 .. DataStart - 1
<1>1. j.inode \in Inodes
  BY DEF JobOK
<1>2. CASE j.at = "boot"
  BY <1>2, Numbers DEF SeekTo
<1>3. CASE j.at \in {"open", "length"}
  BY <1>1, <1>3, InodeFacts DEF SeekTo
<1>4. CASE j.at = "block"
  <2>1. j.pos \in 0 .. FileLen(j.inode) - 1
    <3>1. j.n \in Nat \ {0} /\ j.start \in Nat /\ j.count \in Nat /\ j.pos = j.start + j.count
          /\ j.pos + j.n = j.start + Lower(j.asked, FileLen(j.inode) - j.start)
          /\ j.asked \in Nat
      BY <1>4 DEF JobOK, Inside
    <3>2. FileLen(j.inode) \in Nat
      BY <1>1, InodeFacts
    <3>. DEFINE k == Lower(j.asked, FileLen(j.inode) - j.start)
    <3>3. k \in Int /\ k <= FileLen(j.inode) - j.start
      BY <3>1, <3>2 DEF Lower
    <3>. HIDE DEF k
    <3>4. j.pos + j.n = j.start + k
      BY <3>1 DEF k
    <3>5. ASSUME NEW s \in Nat, NEW q \in Nat, NEW n \in Nat \ {0}, NEW e \in Int, NEW l \in Nat,
                 (s + q) + n = s + e, e <= l - s
          PROVE  s + q \in 0 .. l - 1
      BY <3>5
    <3>. QED  BY <3>1, <3>2, <3>3, <3>4, <3>5
  <2>2. SeekTo(j) = {SpotAt(j.inode, j.pos)}
    BY <1>4 DEF SeekTo
  <2>. QED  BY <1>1, <2>1, <2>2, InodeFacts
<1>. QED  BY <1>2, <1>3, <1>4

\* A word of an inode or of the boot block has been read.
LEMMA MetaRead ==
    ASSUME FInv, NEW t \in Threads, call[t].at = "return", call[t].buf # << >>,
           job[t].at \in {"open", "boot", "length", "block"}
    PROVE  call[t].buf[1] = Image[call[t].pos] /\ lock.vio # t
<1>. DEFINE c == call[t]
            j == job[t]
<1>1. /\ Local(t) /\ Progress(t, c, j)
  BY DEF FInv, Thr
<1>2. lock.vio # t /\ Moved(disk, t, c, j)
  BY <1>1 DEF Progress
<1>3. c.op = "in" /\ c.pos \in SeekTo(j) /\ c.n \in 0 .. 1 /\ Total(j) = 1
  BY <1>1 DEF Local, CallOK, Total
<1>4. c.pos \in 0 .. DataStart - 1
  BY <1>1, <1>3, PositionMeta DEF Local
<1>5. c.buf = [i \in 1 .. 1 - c.n |-> disk[c.pos + i - 1]]
  BY <1>2, <1>3 DEF Moved
<1>6. c.n # 1
  <2>. SUFFICES ASSUME c.n = 1 PROVE FALSE
    OBVIOUS
  <2>1. c.buf = << >>
    BY <1>5
  <2>. QED  BY <2>1
<1>7. c.n = 0
  BY <1>3, <1>6
<1>8. c.buf[1] = disk[c.pos]
  <2>1. c.pos + 1 - 1 = c.pos
    BY <1>4
  <2>. QED  BY <1>5, <1>7, <2>1
<1>9. disk[c.pos] = Image[c.pos]
  BY <1>4 DEF FInv, DiskOK
<1>. QED  BY <1>2, <1>8, <1>9

\* A step of thread t in the file system.
LEMMA FileStep ==
    ASSUME FInv, NEW t \in Threads, running = t, OnePlace', Shapes',
           UNCHANGED <<dev, disk>>, lock'.vio = lock.vio,
           lock'.kfs = lock.kfs \/ (lock.kfs \in {UNLOCKED, t} /\ lock'.kfs \in {UNLOCKED, t}),
           waiting'["vio"] = waiting["vio"],
           \A u \in Threads \ {t} : call'[u] = call[u] /\ job'[u] = job[u] /\ fd'[u] = fd[u],
           call[t].at # "wait", call'[t].at \in {"seek", "none", "astray"},
           lock'.kfs = t <=> job'[t].at \in Inside,
           Local(t)', Done(t, job[t])',
           call'[t].at = "seek" => lock.vio = t \/ Fresh(call'[t], job'[t])
    PROVE  KInv'
<1>1. \A u \in Threads \ {t} : Aside(t, u)
  BY DEF Aside
<1>2. Owners(t)'
  BY DEF Owners, Working
<1>3. Progress(t, call[t], job[t])'
  <2>1. CASE call'[t].at = "seek" /\ lock.vio # t
    <3>1. JobOK(job'[t], fd'[t]) /\ Calling(job'[t])
      BY <2>1 DEF Local, CallOK
    <3>2. Total(job'[t]) \in Nat
      BY <3>1, TotalFacts
    <3>3. Fresh(call'[t], job'[t])
      BY <2>1
    <3>4. Moved(disk', t, call'[t], job'[t])
      BY <3>2, <3>3, FreshMoved
    <3>. QED  BY <2>1, <3>3, <3>4 DEF Progress, Fresh, Working
  <2>2. CASE ~(call'[t].at = "seek" /\ lock.vio # t)
    BY <2>2 DEF Progress, Working
  <2>. QED  BY <2>1, <2>2
<1>4. Request(t, call[t])'
  BY DEF Request
<1>5. Thr(t)'
  BY <1>2, <1>3, <1>4 DEF Thr
<1>. QED  BY <1>1, <1>5, StepOf

LEMMA SamePlace ==
    ASSUME OnePlace, UNCHANGED <<running, ready, waiting>>
    PROVE  OnePlace'
BY DEF OnePlace

\* What is known of the thread that runs.
LEMMA ThreadFacts ==
    ASSUME FInv, NEW t \in Threads
    PROVE  /\ Owners(t) /\ FdOK(fd[t]) /\ JobOK(job[t], fd[t]) /\ CallOK(t, call[t], job[t])
           /\ Progress(t, call[t], job[t]) /\ Request(t, call[t]) /\ Done(t, job[t]) /\ Shapes
           /\ DOMAIN call[t] = DOMAIN NoCall /\ DOMAIN job[t] = DOMAIN NoJob
           /\ DOMAIN fd[t] = {"inode", "file_pos", "file_size"}
BY DEF FInv, Thr, Local, Shapes

LEMMA OpenStep ==
    ASSUME FInv, OnePlace, NEW t \in Threads, NEW i \in Inodes, fs_open(t, i)
    PROVE  KInv'
<1>. DEFINE r == [NoJob EXCEPT !.at = "open", !.inode = i]
<1>0. Shapes /\ job[t].at = "back" /\ running = t /\ call[t].at = "none" /\ lock.kfs # t /\ FdOK(fd[t])
  BY ThreadFacts DEF fs_open, Enter, CallOK, Calling, Owners, Inside
<1>1. /\ job' = [job EXCEPT ![t] = r] /\ Begin(t, "in", InodeAt(i), 1, << >>)
      /\ UNCHANGED <<running, ready, waiting, lock, dev, disk, fd>>
  BY DEF fs_open, sched
<1>2. r.at = "open" /\ r.op = "open" /\ r.inode = i /\ DOMAIN r = DOMAIN NoJob
  BY DEF NoJob
<1>. HIDE DEF r
<1>3. /\ job'[t] = r /\ DOMAIN job' = Threads /\ (\A u \in Threads \ {t} : job'[u] = job[u])
      /\ \A u \in Threads : DOMAIN job'[u] = DOMAIN NoJob
  BY <1>0, <1>1, <1>2, JobSet
<1>4. /\ call'[t].at = "seek" /\ call'[t].op = "in" /\ call'[t].pos = InodeAt(i) /\ call'[t].n = 1
      /\ call'[t].buf = << >> /\ DOMAIN call' = Threads /\ (\A u \in Threads \ {t} : call'[u] = call[u])
      /\ \A u \in Threads : DOMAIN call'[u] = DOMAIN NoCall
  BY <1>0, <1>1, BeginCall
<1>5. Shapes'
  BY <1>0, <1>1, <1>3, <1>4 DEF Shapes
<1>6. JobOK(r, fd[t])
  BY <1>2 DEF JobOK, Inside
<1>7. CallOK(t, call'[t], r)
  <2>1. SeekTo(r) = {InodeAt(i)} /\ Total(r) = 1 /\ Calling(r)
    BY <1>2 DEF SeekTo, Total, Calling
  <2>. QED  BY <1>2, <1>4, <2>1 DEF CallOK
<1>8. Fresh(call'[t], r)
  BY <1>2, <1>4 DEF Fresh, Total
<1>9. Local(t)' /\ Done(t, job[t])'
  BY <1>0, <1>1, <1>2, <1>3, <1>6, <1>7 DEF Local, Done
<1>10. OnePlace'
  BY <1>1, SamePlace
<1>. QED  BY <1>0, <1>1, <1>2, <1>3, <1>4, <1>5, <1>8, <1>9, <1>10, FileStep DEF Inside

\* A job that goes to another place, and one that is back.
Stays(j, k, at) ==
    /\ k.at = at /\ k.op = j.op /\ k.inode = j.inode /\ k.n = j.n /\ k.pos = j.pos /\ k.start = j.start
    /\ k.asked = j.asked /\ k.num_inodes = j.num_inodes /\ k.count = j.count /\ k.got = j.got

LEMMA JobAt ==
    ASSUME Shapes, NEW t \in Threads, NEW a, job' = [job EXCEPT ![t].at = a]
    PROVE  /\ Stays(job[t], job'[t], a)
           /\ DOMAIN job' = Threads /\ \A u \in Threads \ {t} : job'[u] = job[u]
           /\ \A u \in Threads : DOMAIN job'[u] = DOMAIN NoJob
<1>. DEFINE j == job[t]
            r == [j EXCEPT !.at = a]
<1>1. DOMAIN j = {"at", "op", "inode", "n", "pos", "start", "asked", "num_inodes", "spot", "count", "got"}
      /\ DOMAIN NoJob = DOMAIN j
  BY DEF Shapes, NoJob
<1>2. job' = [job EXCEPT ![t] = r]
  OBVIOUS
<1>. HIDE DEF j
<1>3. DOMAIN r = DOMAIN j /\ Stays(j, r, a)
  BY <1>1 DEF Stays
<1>. HIDE DEF r
<1>. QED  BY <1>1, <1>2, <1>3, JobSet DEF j

LEMMA NoCallAt == NoCall.at = "none" /\ DOMAIN NoCall = DOMAIN NoCall
BY DEF NoCall

\* The end of fs_open.
LEMMA OpenedStep ==
    ASSUME FInv, OnePlace, NEW t \in Threads, fs_opened(t) \/ fs_open_failed(t)
    PROVE  KInv'
<1>0. /\ Shapes /\ job[t].at = "open" /\ running = t /\ call[t].at = "return" /\ lock.kfs # t
      /\ FdOK(fd[t]) /\ JobOK(job[t], fd[t]) /\ CallOK(t, call[t], job[t])
  BY ThreadFacts DEF fs_opened, fs_open_failed, At, Owners, Inside
<1>1. /\ job' = [job EXCEPT ![t].at = "back"] /\ call' = [call EXCEPT ![t] = NoCall]
      /\ UNCHANGED <<running, ready, waiting, lock, dev, disk>>
  BY DEF fs_opened, fs_open_failed, sched
<1>2. /\ Stays(job[t], job'[t], "back")
      /\ DOMAIN job' = Threads /\ (\A u \in Threads \ {t} : job'[u] = job[u])
      /\ \A u \in Threads : DOMAIN job'[u] = DOMAIN NoJob
  BY <1>0, <1>1, JobAt
<1>3. /\ call'[t] = NoCall /\ DOMAIN call' = Threads /\ (\A u \in Threads \ {t} : call'[u] = call[u])
      /\ \A u \in Threads : DOMAIN call'[u] = DOMAIN NoCall
  BY <1>0, <1>1, CallSet
<1>4. /\ FdOK(fd'[t]) /\ (\A u \in Threads \ {t} : fd'[u] = fd[u])
      /\ DOMAIN fd' = Threads /\ \A u \in Threads : DOMAIN fd'[u] = {"inode", "file_pos", "file_size"}
  <2>1. CASE fs_opened(t)
    <3>. DEFINE r == [inode |-> job[t].inode, file_pos |-> 0, file_size |-> call[t].buf[1]]
    <3>1. fd' = [fd EXCEPT ![t] = r] /\ call[t].buf # << >>
      BY <2>1 DEF fs_opened
    <3>2. call[t].buf[1] = Image[call[t].pos]
      BY <1>0, <3>1, MetaRead
    <3>3. call[t].pos = InodeAt(job[t].inode) /\ job[t].inode \in Inodes
      BY <1>0 DEF CallOK, SeekTo, JobOK
    <3>4. DOMAIN r = {"inode", "file_pos", "file_size"} /\ FdOK(r)
      BY <3>2, <3>3 DEF FdOK, FileLen
    <3>. HIDE DEF r
    <3>. QED  BY <1>0, <3>1, <3>4 DEF Shapes
  <2>2. CASE fs_open_failed(t)
    BY <1>0, <2>2 DEF fs_open_failed, Shapes
  <2>. QED  BY <2>1, <2>2
<1>5. Shapes'
  BY <1>0, <1>1, <1>2, <1>3, <1>4 DEF Shapes
<1>6. JobOK(job'[t], fd'[t]) /\ CallOK(t, call'[t], job'[t])
  BY <1>0, <1>2, <1>3, NoCallAt DEF JobOK, CallOK, Stays, Calling, Inside
<1>7. Local(t)' /\ Done(t, job[t])'
  BY <1>2, <1>4, <1>6 DEF Local, Done, Stays
<1>8. OnePlace'
  BY <1>1, SamePlace
<1>9. job'[t].at \notin Inside
  BY <1>2 DEF Stays, Inside
<1>. QED  BY <1>0, <1>1, <1>2, <1>3, <1>4, <1>5, <1>7, <1>8, <1>9, NoCallAt, FileStep

LEMMA SetposStep ==
    ASSUME FInv, OnePlace, NEW t \in Threads, NEW p \in Sizes, fs_setpos(t, p)
    PROVE  KInv'
<1>0. /\ Shapes /\ job[t].at = "back" /\ running = t /\ call[t].at = "none" /\ lock.kfs # t
      /\ FdOK(fd[t]) /\ JobOK(job[t], fd[t]) /\ CallOK(t, call[t], job[t])
      /\ DOMAIN fd[t] = {"inode", "file_pos", "file_size"}
  BY ThreadFacts DEF fs_setpos, Enter, CallOK, Calling, Owners, Inside
<1>1. /\ fd' = [fd EXCEPT ![t].file_pos = p]
      /\ UNCHANGED <<running, ready, waiting, lock, dev, disk, call, job>>
  BY DEF fs_setpos, sched, vio
<1>. DEFINE f == fd[t]
            r == [f EXCEPT !.file_pos = p]
<1>2. fd' = [fd EXCEPT ![t] = r] /\ FdOK(f) /\ DOMAIN f = {"inode", "file_pos", "file_size"}
  BY <1>0, <1>1
<1>. HIDE DEF f
<1>3. FdOK(r) /\ DOMAIN r = DOMAIN f
  BY <1>2, KfsAssumption DEF FdOK
<1>. HIDE DEF r
<1>4. /\ fd'[t] = r /\ DOMAIN fd' = Threads /\ (\A u \in Threads \ {t} : fd'[u] = fd[u])
      /\ \A u \in Threads : DOMAIN fd'[u] = {"inode", "file_pos", "file_size"}
  BY <1>0, <1>2, <1>3 DEF Shapes
<1>5. Shapes'
  BY <1>0, <1>1, <1>4 DEF Shapes
<1>6. JobOK(job[t], r)
  BY <1>0 DEF JobOK, Inside
<1>7. Local(t)' /\ Done(t, job[t])'
  BY <1>0, <1>1, <1>3, <1>4, <1>6 DEF Local, Done
<1>8. OnePlace'
  BY <1>1, SamePlace
<1>. QED  BY <1>0, <1>1, <1>4, <1>5, <1>7, <1>8, FileStep DEF Inside

LEMMA CallStep ==
    ASSUME FInv, OnePlace, NEW t \in Threads, NEW n \in Sizes, NEW op \in {"read", "write"}, fs_call(t, op, n)
    PROVE  KInv'
<1>. DEFINE r == [NoJob EXCEPT !.at = "lock", !.op = op, !.asked = n, !.inode = fd[t].inode, !.n = n]
<1>0. /\ Shapes /\ job[t].at = "back" /\ running = t /\ call[t].at = "none" /\ lock.kfs # t /\ FdOK(fd[t])
  BY ThreadFacts DEF fs_call, Enter, CallOK, Calling, Owners, Inside
<1>1. /\ job' = [job EXCEPT ![t] = r]
      /\ UNCHANGED <<running, ready, waiting, lock, dev, disk, call, fd>>
  BY DEF fs_call, sched, vio
<1>2. r.at = "lock" /\ r.op = op /\ r.inode = fd[t].inode /\ r.asked = n /\ r.count = 0 /\ r.got = << >>
      /\ DOMAIN r = DOMAIN NoJob
  BY DEF NoJob
<1>. HIDE DEF r
<1>3. /\ job'[t] = r /\ DOMAIN job' = Threads /\ (\A u \in Threads \ {t} : job'[u] = job[u])
      /\ \A u \in Threads : DOMAIN job'[u] = DOMAIN NoJob
  BY <1>0, <1>1, <1>2, JobSet
<1>5. Shapes'
  BY <1>0, <1>1, <1>3 DEF Shapes
<1>6. JobOK(r, fd[t])
  <2>1. n \in Nat /\ fd[t].inode \in Inodes
    BY <1>0, KfsAssumption DEF FdOK
  <2>. QED  BY <1>2, <2>1 DEF JobOK, Inside
<1>7. CallOK(t, call[t], r)
  BY <1>0, <1>2 DEF CallOK, Calling
<1>9. Local(t)' /\ Done(t, job[t])'
  BY <1>0, <1>1, <1>2, <1>3, <1>6, <1>7 DEF Local, Done
<1>10. OnePlace'
  BY <1>1, SamePlace
<1>. QED  BY <1>0, <1>1, <1>2, <1>3, <1>5, <1>9, <1>10, FileStep DEF Inside

LEMMA AcquireStep ==
    ASSUME FInv, SchedTypeOK, OnePlace, NEW t \in Threads, fs_acquire(t), ~crossed'
    PROVE  KInv'
<1>0. /\ Shapes /\ job[t].at \in {"lock", "lock woken"} /\ running = t /\ call[t].at = "none"
      /\ lock.kfs # t /\ FdOK(fd[t]) /\ JobOK(job[t], fd[t]) /\ CallOK(t, call[t], job[t])
  BY ThreadFacts DEF fs_acquire, CallOK, Calling, Owners, Inside
<1>1. UNCHANGED <<dev, disk, fd>>
  BY DEF fs_acquire
<1>2. CASE WaitFor("kfs", job[t].at = "lock woken") /\ job' = [job EXCEPT ![t].at = "lock woken"]
           /\ UNCHANGED <<lock, call, crossed>>
  <2>1. Block("kfs")
    BY <1>2 DEF WaitFor
  <2>2. OnePlace' /\ waiting'["vio"] = waiting["vio"]
    BY <2>1, Conds, BlockPlace, BlockType
  <2>3. /\ Stays(job[t], job'[t], "lock woken")
        /\ DOMAIN job' = Threads /\ (\A u \in Threads \ {t} : job'[u] = job[u])
        /\ \A u \in Threads : DOMAIN job'[u] = DOMAIN NoJob
    BY <1>0, <1>2, JobAt
  <2>4. Shapes'
    BY <1>0, <1>1, <1>2, <2>3 DEF Shapes
  <2>5. JobOK(job'[t], fd[t]) /\ CallOK(t, call[t], job'[t])
    BY <1>0, <2>3 DEF JobOK, CallOK, Stays, Calling, Inside
  <2>6. Local(t)' /\ Done(t, job[t])' /\ job'[t].at \notin Inside
    BY <1>0, <1>1, <1>2, <2>3, <2>5 DEF Local, Done, Stays, Inside
  <2>. QED  BY <1>0, <1>1, <1>2, <2>2, <2>3, <2>4, <2>6, FileStep
<1>3. CASE Take("kfs", t, job[t].at = "lock woken") /\ lock' = [lock EXCEPT !.kfs = t]
           /\ job' = [job EXCEPT ![t].at = "boot"] /\ Begin(t, "in", 1, 1, << >>) /\ UNCHANGED sched
  <2>1. lock.kfs \in {UNLOCKED, t}
    BY <1>3 DEF Take
  <2>2. lock'.kfs = t /\ lock'.vio = lock.vio /\ DOMAIN lock' = {"kfs", "vio"}
    BY <1>0, <1>3 DEF Shapes
  <2>3. /\ Stays(job[t], job'[t], "boot")
        /\ DOMAIN job' = Threads /\ (\A u \in Threads \ {t} : job'[u] = job[u])
        /\ \A u \in Threads : DOMAIN job'[u] = DOMAIN NoJob
    BY <1>0, <1>3, JobAt
  <2>4. /\ call'[t].at = "seek" /\ call'[t].op = "in" /\ call'[t].pos = 1 /\ call'[t].n = 1
        /\ call'[t].buf = << >> /\ DOMAIN call' = Threads /\ (\A u \in Threads \ {t} : call'[u] = call[u])
        /\ \A u \in Threads : DOMAIN call'[u] = DOMAIN NoCall
    <3>1. Shapes /\ Begin(t, "in", 1, 1, << >>)
      BY <1>0, <1>3
    <3>. QED  BY <3>1, BeginCall
  <2>5. Shapes'
    BY <1>0, <1>1, <2>2, <2>3, <2>4 DEF Shapes
  <2>6. JobOK(job'[t], fd[t])
    BY <1>0, <2>3 DEF JobOK, Stays, Inside
  <2>7. CallOK(t, call'[t], job'[t]) /\ Fresh(call'[t], job'[t])
    <3>1. SeekTo(job'[t]) = {1} /\ Total(job'[t]) = 1 /\ Calling(job'[t]) /\ job'[t].at # "data"
      BY <2>3 DEF SeekTo, Total, Calling, Stays
    <3>. QED  BY <2>4, <3>1 DEF CallOK, Fresh
  <2>8. Local(t)' /\ Done(t, job[t])' /\ job'[t].at \in Inside
    BY <1>0, <1>1, <2>3, <2>6, <2>7 DEF Local, Done, Stays, Inside
  <2>9. OnePlace' /\ waiting' = waiting
    BY <1>3, SamePlace DEF sched
  <2>. QED  BY <1>0, <1>1, <2>1, <2>2, <2>3, <2>4, <2>5, <2>7, <2>8, <2>9, FileStep
<1>. QED  BY <1>2, <1>3 DEF fs_acquire

\* A thread that has the lock and whose call of the driver has returned.
LEMMA Returned ==
    ASSUME FInv, NEW t \in Threads, At(t, {"return"}), job[t].at \in Inside
    PROVE  /\ Shapes /\ running = t /\ call[t].at = "return" /\ lock.kfs = t
           /\ FdOK(fd[t]) /\ JobOK(job[t], fd[t]) /\ CallOK(t, call[t], job[t])
           /\ DOMAIN job[t] = DOMAIN NoJob
BY ThreadFacts DEF At, Owners

LEMMA BootStep ==
    ASSUME FInv, OnePlace, NEW t \in Threads, fs_boot(t)
    PROVE  KInv'
<1>0. /\ Shapes /\ running = t /\ call[t].at = "return" /\ lock.kfs = t /\ job[t].at = "boot"
      /\ FdOK(fd[t]) /\ JobOK(job[t], fd[t]) /\ CallOK(t, call[t], job[t])
      /\ DOMAIN job[t] = DOMAIN NoJob /\ call[t].buf # << >>
  <2>1. At(t, {"return"}) /\ job[t].at = "boot" /\ call[t].buf # << >>
    BY DEF fs_boot
  <2>. QED  BY <2>1, Returned DEF Inside
<1>1. /\ job' = [job EXCEPT ![t].at = "length", ![t].num_inodes = call[t].buf[1]]
      /\ Begin(t, "in", InodeAt(job[t].inode), 1, << >>)
      /\ UNCHANGED <<running, ready, waiting, lock, dev, disk, fd>>
  BY DEF fs_boot, sched
<1>2. call[t].buf[1] = Image[1]
  <2>1. call[t].buf[1] = Image[call[t].pos]
    BY <1>0, MetaRead
  <2>2. call[t].pos = 1
    BY <1>0 DEF CallOK, SeekTo
  <2>. QED  BY <2>1, <2>2
<1>. DEFINE j == job[t]
            r == [j EXCEPT !.at = "length", !.num_inodes = Image[1]]
<1>3. job' = [job EXCEPT ![t] = r]
  BY <1>1, <1>2
<1>4. DOMAIN j = DOMAIN NoJob /\ JobOK(j, fd[t]) /\ j.at = "boot" /\ j.inode = job[t].inode
  BY <1>0
<1>. HIDE DEF j
<1>5. r.at = "length" /\ r.num_inodes = Image[1] /\ DOMAIN r = DOMAIN NoJob
      /\ r.op = j.op /\ r.inode = j.inode /\ r.asked = j.asked /\ r.count = j.count /\ r.got = j.got
  BY <1>4 DEF NoJob
<1>. HIDE DEF r
<1>6. /\ job'[t] = r /\ DOMAIN job' = Threads /\ (\A u \in Threads \ {t} : job'[u] = job[u])
      /\ \A u \in Threads : DOMAIN job'[u] = DOMAIN NoJob
  BY <1>0, <1>3, <1>5, JobSet
<1>7. /\ call'[t].at = "seek" /\ call'[t].op = "in" /\ call'[t].pos = InodeAt(j.inode) /\ call'[t].n = 1
      /\ call'[t].buf = << >> /\ DOMAIN call' = Threads /\ (\A u \in Threads \ {t} : call'[u] = call[u])
      /\ \A u \in Threads : DOMAIN call'[u] = DOMAIN NoCall
  BY <1>0, <1>1, <1>4, BeginCall
<1>8. Shapes'
  BY <1>0, <1>1, <1>6, <1>7 DEF Shapes
<1>9. JobOK(r, fd[t])
  BY <1>4, <1>5 DEF JobOK, Inside
<1>10. CallOK(t, call'[t], r) /\ Fresh(call'[t], r)
  <2>1. SeekTo(r) = {InodeAt(j.inode)} /\ Total(r) = 1 /\ Calling(r) /\ r.at # "data"
    BY <1>5 DEF SeekTo, Total, Calling
  <2>. QED  BY <1>7, <2>1 DEF CallOK, Fresh
<1>11. Local(t)' /\ Done(t, job[t])' /\ job'[t].at \in Inside
  BY <1>0, <1>1, <1>5, <1>6, <1>9, <1>10 DEF Local, Done, Inside
<1>12. OnePlace'
  BY <1>1, SamePlace
<1>. QED  BY <1>0, <1>1, <1>6, <1>7, <1>8, <1>10, <1>11, <1>12, FileStep

\* The job between two blocks: it has done what is before its position.
Between(t, j, f) ==
    /\ DOMAIN j = DOMAIN NoJob /\ FdOK(f)
    /\ j.op \in {"read", "write"} /\ j.inode \in Inodes /\ j.inode = f.inode /\ j.asked \in Nat
    /\ j.num_inodes = Image[1]
    /\ j.n \in Nat /\ j.start \in Nat /\ j.count \in Nat /\ j.pos = j.start + j.count
    /\ f.file_pos = j.pos
    /\ j.pos + j.n = j.start + Lower(j.asked, FileLen(j.inode) - j.start)
    /\ Got(disk, t, j)

\* A call of the file system returns with its job done.
Ended(t) ==
    LET j == job'[t]
        n == Lower(j.asked, FileLen(j.inode) - j.start)
    IN /\ j.op \in {"read", "write"} /\ j.inode \in Inodes /\ j.start \in Nat /\ j.asked \in Nat
       /\ j.count = n /\ fd'[t].file_pos = j.start + n /\ Got(disk, t, j)

Ends == \A t \in Threads :
          job[t].at # "back" /\ job'[t].at = "back" /\ job[t].op # "open" => Ended(t)

LEMMA NextBlockStep ==
    ASSUME FInv, SchedTypeOK, OnePlace, NEW t \in Threads, running = t, call[t].at = "return",
           lock.kfs = t, UNCHANGED <<dev, disk>>, NEW j, NextBlock(t, j), Between(t, j, fd'[t]),
           DOMAIN fd' = Threads,
           \A u \in Threads : DOMAIN fd'[u] = {"inode", "file_pos", "file_size"},
           \A u \in Threads \ {t} : fd'[u] = fd[u]
    PROVE  KInv' /\ Ends
<1>0. Shapes
  BY ThreadFacts
<1>. DEFINE r == [j EXCEPT !.at = "block"]
            s == [j EXCEPT !.at = "back"]
<1>1. DOMAIN j = {"at", "op", "inode", "n", "pos", "start", "asked", "num_inodes", "spot", "count", "got"}
      /\ DOMAIN NoJob = DOMAIN j
  BY DEF Between, NoJob
<1>2. Stays(j, r, "block") /\ DOMAIN r = DOMAIN NoJob
  BY <1>1 DEF Stays
<1>3. Stays(j, s, "back") /\ DOMAIN s = DOMAIN NoJob
  BY <1>1 DEF Stays
<1>4. CASE /\ j.n > 0 /\ job' = [job EXCEPT ![t] = r]
           /\ Begin(t, "in", InodeAt(j.inode) + 1 + (j.pos \div FS_BLKSZ), 1, << >>)
           /\ UNCHANGED <<sched, lock>>
  <2>. HIDE DEF r
  <2>1. /\ job'[t] = r /\ DOMAIN job' = Threads /\ (\A u \in Threads \ {t} : job'[u] = job[u])
        /\ \A u \in Threads : DOMAIN job'[u] = DOMAIN NoJob
    BY <1>0, <1>2, <1>4, JobSet
  <2>2. /\ call'[t].at = "seek" /\ call'[t].op = "in" /\ call'[t].pos = SpotAt(j.inode, j.pos)
        /\ call'[t].n = 1
        /\ call'[t].buf = << >> /\ DOMAIN call' = Threads /\ (\A u \in Threads \ {t} : call'[u] = call[u])
        /\ \A u \in Threads : DOMAIN call'[u] = DOMAIN NoCall
    BY <1>0, <1>4, BeginCall DEF SpotAt
  <2>3. Shapes'
    BY <1>0, <1>4, <2>1, <2>2 DEF Shapes
  <2>4. JobOK(r, fd'[t]) /\ FdOK(fd'[t])
    BY <1>2, <1>4 DEF JobOK, Between, Inside, Stays
  <2>5. CallOK(t, call'[t], r) /\ Fresh(call'[t], r)
    <3>1. SeekTo(r) = {SpotAt(j.inode, j.pos)} /\ Total(r) = 1 /\ Calling(r) /\ r.at # "data"
      BY <1>2 DEF SeekTo, Total, Calling, Stays
    <3>. QED  BY <2>2, <3>1 DEF CallOK, Fresh
  <2>6. Got(disk, t, r)
    BY <1>2 DEF Between, Got, Stays
  <2>7. Local(t)' /\ Done(t, job[t])' /\ job'[t].at \in Inside
    BY <1>2, <2>1, <2>4, <2>5, <2>6 DEF Local, Done, Inside, Stays
  <2>8. OnePlace' /\ waiting' = waiting
    BY <1>4, SamePlace DEF sched
  <2>9. Ends
    BY <2>1, <2>7 DEF Ends, Inside
  <2>. QED  BY <1>4, <2>1, <2>2, <2>3, <2>5, <2>7, <2>8, <2>9, FileStep
<1>5. CASE /\ j.n = 0 /\ job' = [job EXCEPT ![t] = s]
           /\ call' = [call EXCEPT ![t] = NoCall]
           /\ lock' = [lock EXCEPT !.kfs = UNLOCKED] /\ Wake("kfs")
  <2>. HIDE DEF s
  <2>1. /\ job'[t] = s /\ DOMAIN job' = Threads /\ (\A u \in Threads \ {t} : job'[u] = job[u])
        /\ \A u \in Threads : DOMAIN job'[u] = DOMAIN NoJob
    BY <1>0, <1>3, <1>5, JobSet
  <2>2. /\ call'[t] = NoCall /\ DOMAIN call' = Threads /\ (\A u \in Threads \ {t} : call'[u] = call[u])
        /\ \A u \in Threads : DOMAIN call'[u] = DOMAIN NoCall
    BY <1>0, <1>5, CallSet
  <2>3. lock'.kfs = UNLOCKED /\ lock'.vio = lock.vio /\ DOMAIN lock' = {"kfs", "vio"}
    BY <1>0, <1>5 DEF Shapes
  <2>4. Shapes'
    BY <1>0, <2>1, <2>2, <2>3 DEF Shapes
  <2>5. JobOK(s, fd'[t]) /\ FdOK(fd'[t]) /\ CallOK(t, call'[t], s)
    BY <1>3, <2>2, NoCallAt DEF JobOK, Between, Inside, Stays, CallOK, Calling
  <2>6. Local(t)' /\ Done(t, job[t])' /\ job'[t].at \notin Inside
    BY <1>3, <2>1, <2>5 DEF Local, Done, Inside, Stays
  <2>7. OnePlace' /\ waiting'["vio"] = waiting["vio"]
    BY <1>5, Conds, WakePlace, WakeType
  <2>8. Ended(t)
    <3>. DEFINE e == Lower(j.asked, FileLen(j.inode) - j.start)
    <3>1. /\ j.n = 0 /\ j.start \in Nat /\ j.count \in Nat /\ j.pos = j.start + j.count
          /\ j.pos + j.n = j.start + e /\ j.asked \in Nat /\ j.inode \in Inodes
          /\ fd'[t].file_pos = j.pos
      BY <1>5 DEF Between
    <3>2. e \in Int
      <4>1. FileLen(j.inode) - j.start \in Int
        BY <3>1, InodeFacts
      <4>. QED  BY <3>1, <4>1, LowerFacts
    <3>. HIDE DEF e
    <3>3. j.count = e /\ fd'[t].file_pos = j.start + e
      BY <3>1, <3>2
    <3>4. Got(disk, t, s) /\ j.op \in {"read", "write"}
      BY <1>3 DEF Between, Got, Stays
    <3>. QED  BY <1>3, <2>1, <3>1, <3>3, <3>4 DEF Ended, Stays, e
  <2>9. Ends
    BY <2>1, <2>8 DEF Ends
  <2>. QED  BY <2>1, <2>2, <2>3, <2>4, <2>6, <2>7, <2>9, NoCallAt, LockIds, FileStep
<1>. QED  BY <1>4, <1>5 DEF NextBlock

\* What is left of a call ends within the file.
LEMMA PosFacts ==
    ASSUME NEW j, NEW f, JobOK(j, f), j.at \in {"block", "data"}
    PROVE  /\ j.pos \in Nat /\ j.n \in Nat \ {0} /\ j.inode \in Inodes
           /\ FileLen(j.inode) \in Nat /\ j.pos + j.n <= FileLen(j.inode)
<1>1. j.n \in Nat \ {0} /\ j.start \in Nat /\ j.count \in Nat /\ j.pos = j.start + j.count
      /\ j.pos + j.n = j.start + Lower(j.asked, FileLen(j.inode) - j.start)
      /\ j.asked \in Nat /\ j.inode \in Inodes
  BY DEF JobOK, Inside
<1>2. FileLen(j.inode) \in Nat
  BY <1>1, InodeFacts
<1>. DEFINE k == Lower(j.asked, FileLen(j.inode) - j.start)
<1>3. k \in Int /\ k <= FileLen(j.inode) - j.start
  BY <1>1, <1>2 DEF Lower
<1>. HIDE DEF k
<1>4. j.pos + j.n = j.start + k
  BY <1>1 DEF k
<1>5. ASSUME NEW s \in Nat, NEW q \in Nat, NEW n \in Nat \ {0}, NEW e \in Int, NEW l \in Nat,
             (s + q) + n = s + e, e <= l - s
      PROVE  s + q \in Nat /\ (s + q) + n <= l
  BY <1>5
<1>. QED  BY <1>1, <1>2, <1>3, <1>4, <1>5

\* A transfer stays in its block, and in its file.
LEMMA PlaceRun ==
    ASSUME NEW j, NEW f, JobOK(j, f), j.at = "data"
    PROVE  \A i \in 0 .. Total(j) - 1 :
              /\ Place(j.inode, j.pos + i) = Place(j.inode, j.pos) + i
              /\ j.pos + i \in 0 .. FileLen(j.inode) - 1
              /\ Place(j.inode, j.pos) + i \in Nat /\ Place(j.inode, j.pos) + i >= DataStart
<1>. DEFINE p == j.pos
            n == Total(j)
            r == p % FS_BLKSZ
            b == FS_BLKSZ * (1 + Image[1] + Image[SpotAt(j.inode, p)])
<1>1. n \in Nat \ {0} /\ n <= j.n /\ r + n <= FS_BLKSZ /\ p \in Nat /\ r \in Nat
  BY TotalFacts DEF Calling
<1>2. j.n \in Nat /\ j.inode \in Inodes /\ FileLen(j.inode) \in Nat /\ p + j.n <= FileLen(j.inode)
  BY PosFacts
<1>3. FS_BLKSZ \in Nat /\ DataStart \in Nat
  BY Numbers
<1>4. ASSUME NEW i \in 0 .. n - 1 PROVE Place(j.inode, p + i) = b + (r + i)
  <2>1. i \in Nat /\ r + i < FS_BLKSZ
    BY <1>1, <1>3
  <2>. QED  BY <1>1, <2>1, PlaceNext
<1>5. Place(j.inode, p) = b + r
  BY DEF Place
<1>6. Place(j.inode, p) \in Nat
  BY <1>1, <1>2, InodeFacts
<1>7. b \in Nat
  <2>1. SpotAt(j.inode, p) \in 0 .. DataStart - 1
    BY <1>1, <1>2, InodeFacts
  <2>. DEFINE x == Image[1]
              y == Image[SpotAt(j.inode, p)]
  <2>2. x \in Nat /\ y \in Nat
    BY <2>1, Numbers
  <2>. HIDE DEF x, y
  <2>3. FS_BLKSZ * (1 + x + y) \in Nat
    BY <1>3, <2>2
  <2>. QED  BY <2>3 DEF x, y
<1>. HIDE DEF b, r, n
<1>8. ASSUME NEW i \in 0 .. n - 1
      PROVE  /\ Place(j.inode, p + i) = Place(j.inode, p) + i /\ p + i \in 0 .. FileLen(j.inode) - 1
             /\ Place(j.inode, p) + i \in Nat /\ Place(j.inode, p) + i >= DataStart
  <2>1. Place(j.inode, p + i) = Place(j.inode, p) + i
    BY <1>1, <1>4, <1>5, <1>7
  <2>2. p + i \in 0 .. FileLen(j.inode) - 1
    BY <1>1, <1>2
  <2>3. Place(j.inode, p + i) \in Nat /\ Place(j.inode, p + i) >= DataStart
    BY <1>2, <2>2, InodeFacts
  <2>. QED  BY <2>1, <2>2, <2>3
<1>. QED  BY <1>8 DEF n

LEMMA ClampedLower ==
    ASSUME NEW a \in Nat, NEW p \in Nat, NEW l \in Nat
    PROVE  Clamped(a, p, l) = Lower(a, l - p) /\ Lower(a, l - p) \in Int
BY DEF Clamped, Lower

LEMMA LengthStep ==
    ASSUME FInv, SchedTypeOK, OnePlace, NEW t \in Threads, fs_length(t)
    PROVE  KInv' /\ Ends
<1>. DEFINE p == fd[t].file_pos
            n == Clamped(job[t].asked, p, call[t].buf[1])
            j == job[t]
            r == [j EXCEPT !.n = n, !.pos = p, !.start = p]
<1>0. /\ Shapes /\ running = t /\ call[t].at = "return" /\ lock.kfs = t /\ j.at = "length"
      /\ FdOK(fd[t]) /\ JobOK(j, fd[t]) /\ CallOK(t, call[t], j)
      /\ DOMAIN j = DOMAIN NoJob /\ call[t].buf # << >>
  <2>1. At(t, {"return"}) /\ job[t].at = "length" /\ call[t].buf # << >>
    BY DEF fs_length
  <2>. QED  BY <2>1, Returned DEF Inside
<1>1. UNCHANGED <<dev, disk, fd>>
  BY DEF fs_length
<1>2. call[t].buf[1] = FileLen(j.inode)
  <2>1. call[t].buf[1] = Image[call[t].pos]
    BY <1>0, MetaRead
  <2>2. call[t].pos = InodeAt(j.inode)
    BY <1>0 DEF CallOK, SeekTo
  <2>. QED  BY <2>1, <2>2 DEF FileLen
<1>3. j.inode \in Inodes /\ j.asked \in Nat /\ p \in Nat /\ FileLen(j.inode) \in Nat
      /\ j.inode = fd[t].inode /\ j.op \in {"read", "write"} /\ j.count = 0 /\ j.got = << >>
      /\ j.num_inodes = Image[1]
  BY <1>0, InodeFacts DEF JobOK, FdOK, Inside
<1>4. n = Lower(j.asked, FileLen(j.inode) - p) /\ n \in Int
  <2>. DEFINE l == FileLen(j.inode)
              a == j.asked
  <2>1. n = Clamped(a, p, l) /\ a \in Nat /\ p \in Nat /\ l \in Nat
    BY <1>2, <1>3
  <2>. HIDE DEF l, a, p, n
  <2>2. n = Lower(a, l - p) /\ n \in Int
    BY <2>1, ClampedLower
  <2>. QED  BY <2>2 DEF l, a
<1>5. CASE n >= 0 /\ NextBlock(t, r)
  <2>0. p = fd[t].file_pos /\ DOMAIN fd = Threads /\ (\A u \in Threads : DOMAIN fd[u] = {"inode", "file_pos", "file_size"})
    BY <1>0 DEF Shapes
  <2>. HIDE DEF j, n, p
  <2>1. /\ r.n = n /\ r.pos = p /\ r.start = p /\ r.op = j.op /\ r.inode = j.inode /\ r.asked = j.asked
        /\ r.count = 0 /\ r.got = << >> /\ r.num_inodes = Image[1] /\ DOMAIN r = DOMAIN NoJob
    BY <1>0, <1>3 DEF NoJob
  <2>. HIDE DEF r
  <2>2. Got(disk, t, r)
    BY <2>1 DEF Got
  <2>3. Between(t, r, fd[t])
    BY <1>0, <1>3, <1>4, <1>5, <2>0, <2>1, <2>2 DEF Between
  <2>4. Between(t, r, fd'[t])
    BY <1>1, <2>3
  <2>. QED  BY <1>0, <1>1, <1>5, <2>0, <2>4, NextBlockStep
<1>6. CASE call' = [call EXCEPT ![t].at = "astray"] /\ UNCHANGED <<job, sched, lock>>
  <2>1. /\ Moves(call[t], call'[t], "astray")
        /\ DOMAIN call' = Threads /\ (\A u \in Threads \ {t} : call'[u] = call[u])
        /\ \A u \in Threads : DOMAIN call'[u] = DOMAIN NoCall
    BY <1>0, <1>6, CallAt
  <2>2. Shapes'
    BY <1>0, <1>1, <1>6, <2>1 DEF Shapes
  <2>3. CallOK(t, call'[t], j)
    BY <1>0, <2>1 DEF CallOK, Moves
  <2>4. Local(t)' /\ Done(t, job[t])'
    BY <1>0, <1>1, <1>6, <2>3 DEF Local, Done
  <2>5. OnePlace' /\ waiting' = waiting
    BY <1>6, SamePlace DEF sched
  <2>6. call'[t].at = "astray" /\ j.at \in Inside
    BY <1>0, <2>1 DEF Moves, Inside
  <2>7. Ends
    BY <1>6 DEF Ends
  <2>. QED  BY <1>0, <1>1, <1>6, <2>1, <2>2, <2>4, <2>5, <2>6, <2>7, FileStep
<1>. QED  BY <1>5, <1>6 DEF fs_length

LEMMA BlockStep ==
    ASSUME FInv, OnePlace, NEW t \in Threads, fs_block(t)
    PROVE  KInv'
<1>. DEFINE j == job[t]
            n == Lower(FS_BLKSZ - (j.pos % FS_BLKSZ), j.n)
            op == IF j.op = "read" THEN "in" ELSE "out"
            w == IF j.op = "read" THEN << >> ELSE [i \in 1 .. n |-> t]
<1>0. /\ Shapes /\ running = t /\ call[t].at = "return" /\ lock.kfs = t /\ j.at = "block"
      /\ FdOK(fd[t]) /\ JobOK(j, fd[t]) /\ CallOK(t, call[t], j)
      /\ DOMAIN j = DOMAIN NoJob /\ call[t].buf # << >> /\ Done(t, j)
  <2>1. At(t, {"return"}) /\ job[t].at = "block" /\ call[t].buf # << >>
    BY DEF fs_block
  <2>. QED  BY <2>1, Returned, ThreadFacts DEF Inside
<1>1. /\ job' = [job EXCEPT ![t].at = "data"] /\ UNCHANGED <<running, ready, waiting, lock, dev, disk, fd>>
  BY DEF fs_block, sched
<1>2. PICK p \in {DataAt(j, call[t].buf[1]), size + 1} : Begin(t, op, p, n, w)
  BY DEF fs_block
<1>3. DataAt(j, call[t].buf[1]) = Place(j.inode, j.pos)
  <2>1. call[t].buf[1] = Image[call[t].pos]
    BY <1>0, MetaRead
  <2>2. call[t].pos = SpotAt(j.inode, j.pos) /\ j.num_inodes = Image[1]
    BY <1>0 DEF CallOK, SeekTo, JobOK
  <2>. QED  BY <2>1, <2>2 DEF DataAt, Place
<1>4. /\ Stays(j, job'[t], "data")
      /\ DOMAIN job' = Threads /\ (\A u \in Threads \ {t} : job'[u] = job[u])
      /\ \A u \in Threads : DOMAIN job'[u] = DOMAIN NoJob
  BY <1>0, <1>1, JobAt
<1>5. /\ call'[t].at = "seek" /\ call'[t].op = op /\ call'[t].pos = p /\ call'[t].n = n
      /\ call'[t].buf = w /\ DOMAIN call' = Threads /\ (\A u \in Threads \ {t} : call'[u] = call[u])
      /\ \A u \in Threads : DOMAIN call'[u] = DOMAIN NoCall
  <2>. HIDE DEF op, n, w
  <2>1. Shapes /\ Begin(t, op, p, n, w)
    BY <1>0, <1>2
  <2>. QED  BY <2>1, BeginCall
<1>6. Shapes'
  BY <1>0, <1>1, <1>4, <1>5 DEF Shapes
<1>. DEFINE k == job'[t]
<1>7. k.at = "data" /\ SeekTo(k) = {Place(j.inode, j.pos), size + 1} /\ Total(k) = n /\ Calling(k)
  BY <1>4 DEF Stays, SeekTo, Total, PartLen, Calling
<1>8. JobOK(k, fd[t])
  BY <1>0, <1>4 DEF JobOK, Stays, Inside
<1>9. n \in Nat
  BY <1>7, <1>8, TotalFacts
<1>10. k.op = j.op /\ j.op \in {"read", "write"}
  BY <1>0, <1>4 DEF Stays, JobOK, Inside
<1>11. CallOK(t, call'[t], k) /\ Fresh(call'[t], k)
  <2>1. p \in SeekTo(k)
    BY <1>2, <1>3, <1>7
  <2>2. op = (IF k.at = "data" /\ k.op = "write" THEN "out" ELSE "in")
    BY <1>7, <1>10
  <2>3. n \in 0 .. Total(k)
    BY <1>7, <1>9
  <2>4. (op = "out" => w = [i \in 1 .. n |-> t]) /\ (op = "in" => w = << >>)
    OBVIOUS
  <2>. HIDE DEF op, n, w, k
  <2>. QED  BY <1>5, <1>7, <2>1, <2>2, <2>3, <2>4 DEF CallOK, Fresh
<1>12. Got(disk, t, k)
  BY <1>0, <1>4 DEF Done, Got, Stays
<1>13. Local(t)' /\ Done(t, job[t])' /\ job'[t].at \in Inside
  BY <1>0, <1>1, <1>7, <1>8, <1>11, <1>12 DEF Local, Done, Inside
<1>14. OnePlace'
  BY <1>1, SamePlace
<1>. QED  BY <1>0, <1>1, <1>4, <1>5, <1>6, <1>11, <1>13, <1>14, FileStep
\* Two sequences that are given word by word, one after the other.
LEMMA Concat ==
    ASSUME NEW G(_), NEW m \in Nat, NEW n \in Nat, NEW a, NEW b,
           a = [k \in 1 .. m |-> G(k)], b = [k \in 1 .. n |-> G(m + k)]
    PROVE  a \o b = [k \in 1 .. m + n |-> G(k)]
<1>. DEFINE S == {G(k) : k \in 1 .. m + n}
<1>1. a \in [1 .. m -> S] /\ \A k \in 1 .. m : a[k] = G(k)
  OBVIOUS
<1>2. b \in [1 .. n -> S] /\ \A k \in 1 .. n : b[k] = G(m + k)
  OBVIOUS
<1>. HIDE DEF S
<1>3. a \in Seq(S) /\ Len(a) = m
  BY <1>1
<1>4. b \in Seq(S) /\ Len(b) = n
  BY <1>2
<1>. DEFINE h == a \o b
<1>5. h \in Seq(S) /\ Len(h) = m + n /\ \A k \in 1 .. m + n : h[k] = IF k <= m THEN a[k] ELSE b[k - m]
  BY <1>3, <1>4
<1>. HIDE DEF h
<1>6. ASSUME NEW k \in 1 .. m + n PROVE h[k] = G(k)
  <2>1. CASE k <= m
    BY <1>1, <1>5, <2>1
  <2>2. CASE k > m
    <3>1. k - m \in 1 .. n /\ m + (k - m) = k
      BY <2>2
    <3>2. b[k - m] = G(k)
      BY <1>2, <3>1
    <3>. QED  BY <1>5, <2>2, <3>2
  <2>. QED  BY <2>1, <2>2
<1>7. DOMAIN h = 1 .. m + n
  BY <1>5
<1>8. h = [k \in 1 .. m + n |-> h[k]]
  BY <1>5, <1>7
<1>9. h = [k \in 1 .. m + n |-> G(k)]
  BY <1>6, <1>8
<1>. QED  BY <1>9 DEF h

\* The data of a block are there.
LEMMA DataStep ==
    ASSUME FInv, SchedTypeOK, OnePlace, NEW t \in Threads, fs_data(t)
    PROVE  KInv' /\ Ends
<1>. DEFINE j == job[t]
            c == call[t]
            f == fd[t]
            n == Lower(FS_BLKSZ - (j.pos % FS_BLKSZ), j.n)
            p == j.pos + n
            r == [j EXCEPT !.n = @ - n, !.pos = p, !.count = @ + n, !.got = @ \o c.buf]
<1>0. /\ Shapes /\ running = t /\ c.at = "return" /\ lock.kfs = t /\ j.at = "data"
      /\ FdOK(f) /\ JobOK(j, f) /\ CallOK(t, c, j) /\ Done(t, j) /\ Progress(t, c, j)
      /\ DOMAIN j = DOMAIN NoJob /\ DOMAIN f = {"inode", "file_pos", "file_size"}
      /\ c.n = 0 /\ lock.vio # t
  <2>1. At(t, {"return"}) /\ job[t].at = "data" /\ call[t].n = 0 /\ lock.vio # t
    BY DEF fs_data
  <2>. QED  BY <2>1, Returned, ThreadFacts DEF Inside
<1>1. /\ fd' = IF p <= f.file_size THEN [fd EXCEPT ![t].file_pos = p] ELSE fd
      /\ NextBlock(t, r) /\ UNCHANGED <<dev, disk>>
  BY DEF fs_data
<1>2. n = Total(j) /\ n \in Nat \ {0} /\ n <= j.n /\ j.pos \in Nat
  <2>1. Calling(j)
    BY <1>0 DEF Calling
  <2>2. n = Total(j)
    BY <1>0 DEF Total, PartLen
  <2>. HIDE DEF n
  <2>. QED  BY <1>0, <2>1, <2>2, TotalFacts
<1>. HIDE DEF n
<1>3. /\ j.pos \in Nat /\ j.n \in Nat \ {0} /\ j.inode \in Inodes
      /\ FileLen(j.inode) \in Nat /\ j.pos + j.n <= FileLen(j.inode)
  BY <1>0, PosFacts
<1>4. /\ j.op \in {"read", "write"} /\ j.inode = f.inode /\ j.asked \in Nat /\ j.num_inodes = Image[1]
      /\ j.start \in Nat /\ j.count \in Nat /\ j.pos = j.start + j.count
      /\ j.pos + j.n = j.start + Lower(j.asked, FileLen(j.inode) - j.start)
      /\ f.file_size = FileLen(j.inode)
  BY <1>0 DEF JobOK, FdOK, Inside
<1>5. p <= f.file_size /\ p \in Nat
  BY <1>2, <1>3, <1>4
<1>6. /\ fd'[t].inode = j.inode /\ fd'[t].file_pos = p /\ FdOK(fd'[t]) /\ DOMAIN fd' = Threads
      /\ (\A u \in Threads : DOMAIN fd'[u] = {"inode", "file_pos", "file_size"})
      /\ \A u \in Threads \ {t} : fd'[u] = fd[u]
  <2>. DEFINE g == [f EXCEPT !.file_pos = p]
  <2>1. fd' = [fd EXCEPT ![t] = g]
    BY <1>1, <1>5
  <2>2. f.inode = j.inode /\ FdOK(f) /\ p \in Nat /\ DOMAIN f = {"inode", "file_pos", "file_size"}
    BY <1>0, <1>4, <1>5
  <2>. HIDE DEF f, p, j
  <2>3. g.inode = j.inode /\ g.file_pos = p /\ FdOK(g) /\ DOMAIN g = {"inode", "file_pos", "file_size"}
    BY <2>2 DEF FdOK
  <2>. HIDE DEF g
  <2>4. DOMAIN fd = Threads /\ \A u \in Threads : DOMAIN fd[u] = {"inode", "file_pos", "file_size"}
    BY <1>0 DEF Shapes
  <2>. QED  BY <2>1, <2>3, <2>4
<1>7. c.pos = Place(j.inode, j.pos) /\ c.op = (IF j.op = "write" THEN "out" ELSE "in")
      /\ Moved(disk, t, c, j)
  <2>1. Moved(disk, t, c, j) /\ c.pos <= size
    BY <1>0 DEF Progress
  <2>2. c.pos \in {Place(j.inode, j.pos), size + 1} /\ c.op = (IF j.op = "write" THEN "out" ELSE "in")
    BY <1>0 DEF CallOK, SeekTo
  <2>3. c.pos # size + 1
    BY <2>1, Numbers
  <2>. QED  BY <2>1, <2>2, <2>3
<1>8. \A i \in 0 .. n - 1 : c.pos + i = Place(j.inode, j.pos + i)
  BY <1>0, <1>2, <1>7, PlaceRun
<1>9. /\ j.op = "read" => c.buf = [i \in 1 .. n |-> disk[c.pos + i - 1]]
      /\ j.op = "write" => \A i \in 0 .. n - 1 : c.pos + i < size /\ disk[c.pos + i] = t
  <2>1. Total(j) - c.n = n
    BY <1>0, <1>2
  <2>. QED  BY <1>7, <2>1 DEF Moved
<1>10. Got(disk, t, j)
  BY <1>0 DEF Done
<1>11. DOMAIN j = DOMAIN NoJob
  BY <1>0
<1>. DEFINE b == c.buf
            cp == c.pos
            x == j.n - n
            y == j.count + n
            z == j.got \o b
<1>12. b = c.buf /\ r = [j EXCEPT !.n = x, !.pos = p, !.count = y, !.got = z]
  OBVIOUS
<1>13. NextBlock(t, r)
  BY <1>1
<1>14. p = j.pos + n
  OBVIOUS
<1>19. x = j.n - n /\ y = j.count + n /\ z = j.got \o b
  OBVIOUS
<1>. HIDE DEF j, c, f, p, b, x, y, z, r
<1>15. /\ r.n = j.n - n /\ r.pos = p /\ r.start = j.start /\ r.op = j.op /\ r.inode = j.inode
       /\ r.asked = j.asked /\ r.count = j.count + n /\ r.got = j.got \o b
       /\ r.num_inodes = j.num_inodes /\ DOMAIN r = DOMAIN NoJob
  <2>1. /\ r.n = x /\ r.pos = p /\ r.start = j.start /\ r.op = j.op /\ r.inode = j.inode
        /\ r.asked = j.asked /\ r.count = y /\ r.got = z
        /\ r.num_inodes = j.num_inodes /\ DOMAIN r = DOMAIN NoJob
    BY <1>11, <1>12 DEF NoJob
  <2>. QED  BY <1>19, <2>1
<1>16. ASSUME NEW k \in 1 .. j.count + n, k > j.count
       PROVE  Place(j.inode, j.start + k - 1) = c.pos + ((k - j.count) - 1) /\ k - j.count \in 1 .. n
  <2>1. (k - j.count) - 1 \in 0 .. n - 1 /\ k - j.count \in 1 .. n
    BY <1>2, <1>4, <1>16
  <2>2. j.pos + ((k - j.count) - 1) = j.start + k - 1
    <3>1. ASSUME NEW s \in Nat, NEW m \in Nat, NEW e \in Int
          PROVE  (s + m) + ((e - m) - 1) = s + e - 1
      OBVIOUS
    <3>. QED  BY <1>2, <1>4, <3>1
  <2>. QED  BY <1>8, <2>1, <2>2
<1>17. Got(disk, t, r)
  <2>1. CASE j.op = "read"
    <3>. DEFINE G(q) == disk[Place(j.inode, j.start + q - 1)]
                g == j.got
                m == j.count
    <3>1. g = [k \in 1 .. m |-> G(k)] /\ m \in Nat
      BY <1>4, <1>10, <2>1 DEF Got
    <3>2. b = [i \in 1 .. n |-> disk[c.pos + i - 1]]
      BY <1>9, <1>12, <2>1
    <3>3. ASSUME NEW i \in 1 .. n PROVE b[i] = G(m + i)
      <4>. DEFINE k == m + i
      <4>1. k \in 1 .. m + n /\ k > m /\ k - m = i
        BY <1>2, <3>1
      <4>2. Place(j.inode, j.start + k - 1) = c.pos + ((k - m) - 1)
        BY <1>16, <4>1
      <4>3. c.pos + ((k - m) - 1) = c.pos + i - 1
        BY <4>1
      <4>. QED  BY <3>2, <4>2, <4>3
    <3>. HIDE DEF G, g, m
    <3>4. g \o b = [k \in 1 .. m + n |-> G(k)]
      <4>1. b = [i \in 1 .. n |-> G(m + i)]
        BY <3>2, <3>3
      <4>2. n \in Nat
        BY <1>2
      <4>. QED  BY <3>1, <4>1, <4>2, Concat
    <3>5. r.got = [k \in 1 .. r.count |-> disk[Place(r.inode, r.start + k - 1)]] /\ r.op = "read"
      BY <1>15, <2>1, <3>4 DEF G, g, m
    <3>. QED  BY <3>5 DEF Got
  <2>2. CASE j.op = "write"
    <3>1. ASSUME NEW k \in 1 .. j.count + n
          PROVE  LET a == Place(j.inode, j.start + k - 1) IN a < size /\ disk[a] = t
      <4>1. CASE k <= j.count
        <5>1. k \in 1 .. j.count
          BY <1>4, <4>1
        <5>. QED  BY <1>10, <2>2, <5>1 DEF Got
      <4>2. CASE k > j.count
        <5>1. Place(j.inode, j.start + k - 1) = c.pos + ((k - j.count) - 1) /\ k - j.count \in 1 .. n
          BY <1>16, <4>2
        <5>2. (k - j.count) - 1 \in 0 .. n - 1
          BY <1>2, <5>1
        <5>. QED  BY <1>9, <2>2, <5>1, <5>2
      <4>. QED  BY <1>2, <1>4, <4>1, <4>2
    <3>. QED  BY <1>15, <2>2, <3>1 DEF Got
  <2>. QED  BY <1>4, <2>1, <2>2
<1>18. Between(t, r, fd'[t])
  <2>1. r.n \in Nat /\ r.count \in Nat /\ r.pos = r.start + r.count /\ r.pos + r.n = j.pos + j.n
    <3>1. ASSUME NEW s \in Nat, NEW e \in Nat, NEW l \in Nat, NEW m \in Nat, m <= l
          PROVE  /\ l - m \in Nat /\ e + m \in Nat /\ (s + e) + m = s + (e + m)
                 /\ ((s + e) + m) + (l - m) = (s + e) + l
      BY <3>1
    <3>2. r.n = j.n - n /\ r.count = j.count + n /\ r.pos = (j.start + j.count) + n /\ r.start = j.start
          /\ j.pos = j.start + j.count
      BY <1>4, <1>14, <1>15
    <3>. QED  BY <1>2, <1>3, <1>4, <3>1, <3>2
  <2>2. r.pos + r.n = r.start + Lower(r.asked, FileLen(r.inode) - r.start)
    BY <1>4, <1>15, <2>1
  <2>. QED  BY <1>3, <1>4, <1>6, <1>15, <1>17, <2>1, <2>2 DEF Between
<1>. QED  BY <1>0, <1>1, <1>6, <1>13, <1>18, NextBlockStep DEF c

\* A thread goes on with the lock held, or goes astray without it.
LEMMA OnwardStep ==
    ASSUME FInv, OnePlace, NEW t \in Threads, fs_onward(t) \/ fs_astray(t)
    PROVE  KInv'
<1>. DEFINE a == IF lock.vio = t THEN "seek" ELSE "astray"
<1>0. /\ Shapes /\ running = t /\ call[t].at = "return" /\ Owners(t)
      /\ FdOK(fd[t]) /\ JobOK(job[t], fd[t]) /\ CallOK(t, call[t], job[t]) /\ Done(t, job[t])
  BY ThreadFacts DEF fs_onward, fs_astray, At
<1>1. call' = [call EXCEPT ![t].at = a] /\ UNCHANGED <<running, ready, waiting, lock, dev, disk, fd, job>>
  BY DEF fs_onward, fs_astray, sched
<1>a. a \in {"seek", "astray"} /\ (a = "seek" => lock.vio = t)
  OBVIOUS
<1>. HIDE DEF a
<1>2. /\ Moves(call[t], call'[t], a)
      /\ DOMAIN call' = Threads /\ (\A u \in Threads \ {t} : call'[u] = call[u])
      /\ \A u \in Threads : DOMAIN call'[u] = DOMAIN NoCall
  BY <1>0, <1>1, CallAt
<1>3. Shapes'
  BY <1>0, <1>1, <1>2 DEF Shapes
<1>4. CallOK(t, call'[t], job[t])
  BY <1>0, <1>a, <1>2 DEF CallOK, Moves
<1>5. Local(t)' /\ Done(t, job[t])'
  BY <1>0, <1>1, <1>4 DEF Local, Done
<1>6. OnePlace'
  BY <1>1, SamePlace
<1>7. call'[t].at = a /\ (lock.kfs = t <=> job[t].at \in Inside)
  BY <1>0, <1>2 DEF Moves, Owners
<1>. QED  BY <1>0, <1>a, <1>1, <1>2, <1>3, <1>5, <1>6, <1>7, FileStep
-----------------------------------------------------------------------------
(* The steps of the driver *)

LEMMA BlockKeeps ==
    ASSUME SchedTypeOK, NEW c \in Conditions, Block(c)
    PROVE  /\ \A y : On(y, waiting[c]) => On(y, waiting'[c])
           /\ \A d \in Conditions \ {c} : waiting'[d] = waiting[d]
<1>1. running \in Threads /\ waiting[c] \in Seq(Threads)
  BY DEF SchedTypeOK, Block
<1>2. waiting'[c] = Append(waiting[c], running) /\ \A d \in Conditions \ {c} : waiting'[d] = waiting[d]
  BY BlockType
<1>. DEFINE w == waiting[c]
<1>. HIDE DEF w
<1>3. \A y : On(y, Append(w, running)) <=> On(y, w) \/ y = running
  <2>1. w \in Seq(Threads)
    BY <1>1 DEF w
  <2>. QED  BY <1>1, <2>1, AppendList
<1>. QED  BY <1>2, <1>3 DEF w

\* A step of thread t in the driver: it has the lock or finds it free, or it goes
\* to sleep.
LEMMA DriverKeeps ==
    ASSUME FInv, NEW t \in Threads, running = t, OnePlace', Shapes',
           UNCHANGED <<job, fd, disk>>, lock'.kfs = lock.kfs,
           \A u \in Threads \ {t} : call'[u] = call[u],
           \/ lock.vio \in {UNLOCKED, t} /\ lock'.vio \in {UNLOCKED, t}
           \/ /\ lock'.vio = lock.vio /\ dev' = dev
              /\ \A y : On(y, waiting["vio"]) => On(y, waiting'["vio"]),
           dev'.pending = dev.pending \/ (dev'.pending = 1 /\ call'[t].at = "wait"),
           call[t].at = "wait" => dev.pending = 0 \/ call'[t].at = "wait",
           Owners(t)', CallOK(t, call'[t], job[t]), Progress(t, call[t], job[t])', Request(t, call[t])'
    PROVE  KInv'
<1>1. \A u \in Threads \ {t} : Aside(t, u)
  BY LockIds DEF Aside
<1>2. FdOK(fd[t]) /\ JobOK(job[t], fd[t]) /\ Done(t, job[t])
  BY ThreadFacts
<1>3. Local(t)' /\ Done(t, job[t])'
  BY <1>2 DEF Local, Done
<1>4. Thr(t)'
  BY <1>3 DEF Thr
<1>. QED  BY <1>1, <1>4, StepOf

\* A lock that is taken from nobody is free: the thread that still has it would
\* be asleep.
LEMMA TakeFree ==
    ASSUME FInv, OnePlace, NEW t \in Threads, running = t, NEW woken,
           woken => call[t].at \in {"seek woken", "begin woken"},
           Take("vio", t, woken), ~crossed'
    PROVE  lock.vio = UNLOCKED
<1>1. lock.vio \in {UNLOCKED, t} /\ (lock.vio = UNLOCKED \/ woken)
  BY DEF Take
<1>2. lock.vio = t /\ call[t].at \in {"seek woken", "begin woken"} => On(t, waiting["vio"])
  BY ThreadFacts DEF Owners
<1>3. ~On(t, waiting["vio"])
  BY Conds DEF OnePlace
<1>. QED  BY <1>1, <1>2, <1>3

LEMMA DevPos ==
    ASSUME DeviceOK, NEW p, dev' = [dev EXCEPT !.pos = p]
    PROVE  /\ dev'.pos = p /\ dev'.pending = dev.pending /\ dev'.status = dev.status
           /\ dev'.sector = dev.sector /\ dev'.blkbuf = dev.blkbuf /\ dev'.type = dev.type
BY DEF DeviceOK, vioblk_attach

LEMMA DevSubmit ==
    ASSUME DeviceOK, NEW type, NEW p, NEW buf, Submit(type, p, buf)
    PROVE  /\ dev'.pos = dev.pos /\ dev'.pending = dev.pending + 1 /\ dev'.status = dev.status
           /\ dev'.sector = p \div blksz /\ dev'.blkbuf = buf /\ dev'.type = type
BY DEF DeviceOK, vioblk_attach, Submit

LEMMA LockSet ==
    ASSUME Shapes, NEW x, lock' = [lock EXCEPT !.vio = x]
    PROVE  lock'.vio = x /\ lock'.kfs = lock.kfs /\ DOMAIN lock' = {"kfs", "vio"}
BY DEF Shapes

LEMMA MovedMoves ==
    ASSUME NEW t, NEW c, NEW d, NEW j, NEW a, Moves(c, d, a), NEW words
    PROVE  (Moved(words, t, d, j) <=> Moved(words, t, c, j))
BY DEF Moves, Moved

\* A call that stays the same but for its place is still for its job.
LEMMA CallMoves ==
    ASSUME NEW t, NEW c, NEW d, NEW j, NEW a, CallOK(t, c, j), c.at # "none", Moves(c, d, a),
           a \in {"seek", "seek woken", "begin", "begin woken", "return", "astray"} \cup Working
    PROVE  CallOK(t, d, j) /\ d.at # "none"
BY DEF CallOK, Moves, Working

\* What the places seek, begin, loop and so on have in common.
LEMMA Driving ==
    ASSUME FInv, NEW t \in Threads, NEW places, At(t, places), "none" \notin places
    PROVE  /\ running = t /\ call[t].at \in places /\ Shapes /\ call[t].at # "none"
           /\ Owners(t) /\ CallOK(t, call[t], job[t]) /\ Progress(t, call[t], job[t])
           /\ Request(t, call[t]) /\ JobOK(job[t], fd[t]) /\ Calling(job[t])
           /\ (lock.kfs = t <=> job[t].at \in Inside)
BY ThreadFacts DEF At, CallOK, Owners

LEMMA SeekStep ==
    ASSUME FInv, SchedTypeOK, DeviceOK, OnePlace, NEW t \in Threads, vioblk_setpos(t),
           UNCHANGED <<job, fd>>, ~crossed'
    PROVE  KInv'
<1>. DEFINE c == call[t]
            j == job[t]
<1>0. /\ running = t /\ c.at \in {"seek", "seek woken"} /\ Shapes /\ c.at # "none"
      /\ Owners(t) /\ CallOK(t, c, j) /\ Progress(t, c, j)
      /\ (lock.kfs = t <=> j.at \in Inside)
  <2>1. At(t, {"seek", "seek woken"})
    BY DEF vioblk_setpos
  <2>. QED  BY <2>1, Driving
<1>1. UNCHANGED disk
  BY DEF vioblk_setpos
<1>2. lock.vio # t => c.n = Total(j) /\ Moved(disk, t, c, j)
  BY <1>0 DEF Progress
<1>3. CASE /\ WaitFor("vio", c.at = "seek woken")
           /\ call' = [call EXCEPT ![t].at = "seek woken"] /\ UNCHANGED <<lock, dev>>
  <2>1. Block("vio")
    BY <1>3 DEF WaitFor
  <2>2. OnePlace' /\ On(t, waiting'["vio"]) /\ \A y : On(y, waiting["vio"]) => On(y, waiting'["vio"])
    BY <1>0, <2>1, Conds, BlockPlace, BlockKeeps
  <2>3. /\ Moves(c, call'[t], "seek woken")
        /\ DOMAIN call' = Threads /\ (\A u \in Threads \ {t} : call'[u] = call[u])
        /\ \A u \in Threads : DOMAIN call'[u] = DOMAIN NoCall
    BY <1>0, <1>3, CallAt
  <2>4. Shapes'
    BY <1>0, <1>3, <2>3 DEF Shapes
  <2>5. call'[t].at = "seek woken" /\ call'[t].n = c.n
    BY <2>3 DEF Moves
  <2>6. Owners(t)'
    BY <1>0, <1>3, <2>2, <2>5 DEF Owners, Working
  <2>7. CallOK(t, call'[t], j)
    BY <1>0, <2>3, CallMoves
  <2>8. Moved(disk, t, call'[t], j) <=> Moved(disk, t, c, j)
    BY <2>3, MovedMoves
  <2>9. Progress(t, call[t], job[t])' /\ Request(t, call[t])'
    BY <1>1, <1>2, <1>3, <2>5, <2>8 DEF Progress, Request, Working
  <2>. QED  BY <1>0, <1>1, <1>3, <2>2, <2>3, <2>4, <2>6, <2>7, <2>9, DriverKeeps
<1>4. CASE /\ Take("vio", t, c.at = "seek woken")
           /\ c.pos <= size /\ dev' = [dev EXCEPT !.pos = c.pos]
           /\ lock' = [lock EXCEPT !.vio = UNLOCKED] /\ Wake("vio")
           /\ call' = [call EXCEPT ![t].at = "begin"]
  <2>1. lock.vio = UNLOCKED /\ lock.vio # t
    BY <1>0, <1>4, TakeFree, LockIds
  <2>2. OnePlace' /\ running' = t
    BY <1>0, <1>4, Conds, WakePlace DEF Wake
  <2>3. /\ Moves(c, call'[t], "begin")
        /\ DOMAIN call' = Threads /\ (\A u \in Threads \ {t} : call'[u] = call[u])
        /\ \A u \in Threads : DOMAIN call'[u] = DOMAIN NoCall
    BY <1>0, <1>4, CallAt
  <2>4. lock'.vio = UNLOCKED /\ lock'.kfs = lock.kfs /\ DOMAIN lock' = {"kfs", "vio"}
    BY <1>0, <1>4, LockSet
  <2>5. Shapes'
    BY <1>0, <2>3, <2>4 DEF Shapes
  <2>6. dev'.pos = c.pos /\ dev'.pending = dev.pending
    BY <1>4, DevPos
  <2>7. call'[t].at = "begin" /\ call'[t].n = c.n /\ call'[t].pos = c.pos
    BY <2>3 DEF Moves
  <2>8. Owners(t)'
    BY <1>0, <1>4, <2>2, <2>4, <2>6, <2>7 DEF Owners, Working
  <2>9. CallOK(t, call'[t], j)
    BY <1>0, <2>3, CallMoves
  <2>10. Moved(disk, t, call'[t], j) <=> Moved(disk, t, c, j)
    BY <2>3, MovedMoves
  <2>11. Progress(t, call[t], job[t])' /\ Request(t, call[t])'
    BY <1>1, <1>2, <2>1, <2>7, <2>10 DEF Progress, Request, Working
  <2>. QED  BY <1>0, <1>1, <2>1, <2>2, <2>3, <2>4, <2>5, <2>6, <2>8, <2>9, <2>11, DriverKeeps
<1>5. CASE /\ Take("vio", t, c.at = "seek woken")
           /\ lock' = [lock EXCEPT !.vio = t]
           /\ call' = [call EXCEPT ![t].at = "begin"] /\ UNCHANGED <<dev, sched>>
  <2>1. lock.vio = UNLOCKED
    BY <1>0, <1>5, TakeFree
  <2>2. OnePlace' /\ running' = t
    BY <1>0, <1>5, SamePlace DEF sched
  <2>3. /\ Moves(c, call'[t], "begin")
        /\ DOMAIN call' = Threads /\ (\A u \in Threads \ {t} : call'[u] = call[u])
        /\ \A u \in Threads : DOMAIN call'[u] = DOMAIN NoCall
    BY <1>0, <1>5, CallAt
  <2>4. lock'.vio = t /\ lock'.kfs = lock.kfs /\ DOMAIN lock' = {"kfs", "vio"}
    BY <1>0, <1>5, LockSet
  <2>5. Shapes'
    BY <1>0, <2>3, <2>4 DEF Shapes
  <2>6. call'[t].at = "begin"
    BY <2>3 DEF Moves
  <2>7. Owners(t)'
    BY <1>0, <2>2, <2>4, <2>6 DEF Owners, Working
  <2>8. CallOK(t, call'[t], j)
    BY <1>0, <2>3, CallMoves
  <2>9. Progress(t, call[t], job[t])' /\ Request(t, call[t])'
    BY <2>4, <2>6 DEF Progress, Request, Working
  <2>. QED  BY <1>0, <1>1, <1>5, <2>1, <2>2, <2>3, <2>4, <2>5, <2>7, <2>8, <2>9, DriverKeeps
<1>. QED  BY <1>3, <1>4, <1>5 DEF vioblk_setpos

LEMMA SeekNat ==
    ASSUME NEW j, NEW f, JobOK(j, f), Calling(j)
    PROVE  \A p \in SeekTo(j) : p \in Nat
<1>1. CASE j.at = "data"
  <2>1. j.pos \in Nat /\ j.n \in Nat \ {0} /\ j.inode \in Inodes
        /\ FileLen(j.inode) \in Nat /\ j.pos + j.n <= FileLen(j.inode)
    BY <1>1, PosFacts
  <2>2. j.pos \in 0 .. FileLen(j.inode) - 1
    BY <2>1
  <2>3. Place(j.inode, j.pos) \in Nat /\ size + 1 \in Nat
    BY <2>1, <2>2, InodeFacts, Numbers
  <2>4. SeekTo(j) = {Place(j.inode, j.pos), size + 1}
    BY <1>1 DEF SeekTo
  <2>. QED  BY <2>3, <2>4
<1>2. CASE j.at # "data"
  <2>1. j.at \in {"open", "boot", "length", "block"}
    BY <1>2 DEF JobOK, Calling, Inside
  <2>. QED  BY <2>1, PositionMeta, Numbers
<1>. QED  BY <1>1, <1>2

LEMMA BeginStep ==
    ASSUME FInv, SchedTypeOK, DeviceOK, OnePlace, NEW t \in Threads, vioblk_acquire(t),
           UNCHANGED <<job, fd>>, ~crossed'
    PROVE  KInv'
<1>. DEFINE c == call[t]
            j == job[t]
<1>0. /\ running = t /\ c.at \in {"begin", "begin woken"} /\ Shapes /\ c.at # "none"
      /\ Owners(t) /\ CallOK(t, c, j) /\ Progress(t, c, j) /\ JobOK(j, fd[t]) /\ Calling(j)
      /\ (lock.kfs = t <=> j.at \in Inside)
  <2>1. At(t, {"begin", "begin woken"})
    BY DEF vioblk_acquire
  <2>. QED  BY <2>1, Driving
<1>1. UNCHANGED <<dev, disk>>
  BY DEF vioblk_acquire
<1>2. CASE /\ WaitFor("vio", c.at = "begin woken")
           /\ call' = [call EXCEPT ![t].at = "begin woken"] /\ UNCHANGED lock
  <2>1. Block("vio") /\ lock.vio # UNLOCKED /\ c.at = "begin"
    BY <1>0, <1>2 DEF WaitFor
  <2>2. lock.vio = t
    BY <1>0, <2>1 DEF Owners
  <2>3. OnePlace' /\ On(t, waiting'["vio"])
    BY <1>0, <2>1, Conds, BlockPlace
  <2>4. /\ Moves(c, call'[t], "begin woken")
        /\ DOMAIN call' = Threads /\ (\A u \in Threads \ {t} : call'[u] = call[u])
        /\ \A u \in Threads : DOMAIN call'[u] = DOMAIN NoCall
    BY <1>0, <1>2, CallAt
  <2>5. Shapes'
    BY <1>0, <1>2, <2>4 DEF Shapes
  <2>6. call'[t].at = "begin woken"
    BY <2>4 DEF Moves
  <2>7. Owners(t)'
    BY <1>0, <1>2, <2>2, <2>3, <2>6 DEF Owners, Working
  <2>8. CallOK(t, call'[t], j)
    BY <1>0, <2>4, CallMoves
  <2>9. Progress(t, call[t], job[t])' /\ Request(t, call[t])'
    BY <2>6 DEF Progress, Request, Working
  <2>. QED  BY <1>0, <1>1, <1>2, <2>1, <2>2, <2>3, <2>4, <2>5, <2>7, <2>8, <2>9, DriverKeeps
<1>3. CASE /\ Take("vio", t, c.at = "begin woken") /\ lock' = [lock EXCEPT !.vio = t]
           /\ call' = [call EXCEPT ![t].at = "loop"] /\ UNCHANGED sched
  <2>1. lock.vio = UNLOCKED /\ lock.vio # t
    BY <1>0, <1>3, TakeFree, LockIds
  <2>2. c.at = "begin" /\ dev.pos = c.pos /\ c.pos <= size
    BY <1>0, <2>1 DEF Owners
  <2>3. c.n = Total(j) /\ Moved(disk, t, c, j)
    BY <1>0, <2>1, <2>2 DEF Progress
  <2>4. OnePlace' /\ running' = t
    BY <1>0, <1>3, SamePlace DEF sched
  <2>5. /\ Moves(c, call'[t], "loop")
        /\ DOMAIN call' = Threads /\ (\A u \in Threads \ {t} : call'[u] = call[u])
        /\ \A u \in Threads : DOMAIN call'[u] = DOMAIN NoCall
    BY <1>0, <1>3, CallAt
  <2>6. lock'.vio = t /\ lock'.kfs = lock.kfs /\ DOMAIN lock' = {"kfs", "vio"}
    BY <1>0, <1>3, LockSet
  <2>7. Shapes'
    BY <1>0, <2>5, <2>6 DEF Shapes
  <2>8. call'[t].at = "loop" /\ call'[t].n = c.n /\ call'[t].pos = c.pos
    BY <2>5 DEF Moves
  <2>9. Owners(t)'
    BY <1>0, <2>6, <2>8 DEF Owners, Working
  <2>10. CallOK(t, call'[t], j)
    BY <1>0, <2>5, CallMoves DEF Working
  <2>11. Moved(disk, t, call'[t], j) <=> Moved(disk, t, c, j)
    BY <2>5, MovedMoves
  <2>12. dev.pos = c.pos + Total(j) - c.n
    <3>1. c.pos \in Nat /\ Total(j) \in Nat
      BY <1>0, SeekNat, TotalFacts DEF CallOK
    <3>. QED  BY <2>2, <2>3, <3>1
  <2>13. Progress(t, call[t], job[t])' /\ Request(t, call[t])'
    BY <1>1, <2>2, <2>3, <2>8, <2>11, <2>12 DEF Progress, Request, Working
  <2>. QED  BY <1>0, <1>1, <2>1, <2>4, <2>5, <2>6, <2>7, <2>9, <2>10, <2>13, DriverKeeps
<1>. QED  BY <1>2, <1>3 DEF vioblk_acquire
\* A thread in the loop of a transfer.
LEMMA WorkFacts ==
    ASSUME FInv, NEW t \in Threads, call[t].at \in Working
    PROVE  /\ Shapes /\ lock.vio = t /\ call[t].at # "none" /\ Owners(t)
           /\ CallOK(t, call[t], job[t]) /\ JobOK(job[t], fd[t]) /\ Calling(job[t])
           /\ Moved(disk, t, call[t], job[t]) /\ Request(t, call[t])
           /\ call[t].pos \in Nat /\ call[t].pos <= size /\ Total(job[t]) \in Nat \ {0}
           /\ call[t].n \in Nat /\ call[t].n <= Total(job[t])
           /\ dev.pos = call[t].pos + (Total(job[t]) - call[t].n) /\ dev.pos \in Nat
           /\ call[t].op \in {"in", "out"}
           /\ (call[t].op = "out" => call[t].buf = [i \in 1 .. call[t].n |-> t])
<1>. DEFINE c == call[t]
            j == job[t]
<1>1. /\ Owners(t) /\ JobOK(j, fd[t]) /\ CallOK(t, c, j)
      /\ Progress(t, c, j) /\ Request(t, c) /\ Shapes
  BY ThreadFacts
<1>2. c.at # "none" /\ lock.vio = t
  BY <1>1 DEF Working, Owners
<1>3. Calling(j) /\ c.pos \in SeekTo(j) /\ c.n \in 0 .. Total(j) /\ c.op \in {"in", "out"}
      /\ (c.op = "out" => c.buf = [i \in 1 .. c.n |-> t])
  BY <1>1, <1>2 DEF CallOK
<1>4. c.pos \in Nat /\ Total(j) \in Nat \ {0}
  BY <1>1, <1>3, SeekNat, TotalFacts
<1>5. Moved(disk, t, c, j) /\ c.pos <= size /\ dev.pos = c.pos + Total(j) - c.n
  BY <1>1 DEF Progress
<1>6. c.n \in Nat /\ c.n <= Total(j)
  BY <1>3, <1>4
<1>7. dev.pos = c.pos + (Total(j) - c.n) /\ dev.pos \in Nat
  <2>1. ASSUME NEW x \in Nat, NEW y \in Nat, NEW z \in Nat, z <= y
        PROVE  x + y - z = x + (y - z) /\ x + (y - z) \in Nat
    BY <2>1
  <2>. QED  BY <1>4, <1>5, <1>6, <2>1
<1>. QED  BY <1>1, <1>2, <1>3, <1>4, <1>5, <1>6, <1>7

\* The words that the next request moves.
LEMMA CountFacts ==
    ASSUME NEW t \in Threads, dev.pos \in Nat, dev.pos < size, call[t].n \in Nat, call[t].n > 0
    PROVE  LET f == (dev.pos \div blksz) * blksz IN
           /\ Offset(dev.pos) \in 0 .. blksz - 1
           /\ Count(t, dev.pos) \in Nat \ {0} /\ Count(t, dev.pos) <= call[t].n
           /\ Offset(dev.pos) + Count(t, dev.pos) <= blksz
           /\ f \in Nat /\ dev.pos = f + Offset(dev.pos) /\ f + blksz <= size
           /\ blksz \in Nat \ {0} /\ size \in Nat
<1>. DEFINE p == dev.pos
            f == (p \div blksz) * blksz
            n == call[t].n
            o == p % blksz
<1>1. p \in 0 .. size - 1 /\ blksz \in Nat \ {0} /\ size \in Nat
  BY Numbers
<1>2. f \in Nat /\ o \in 0 .. blksz - 1 /\ p = f + o /\ f + blksz <= size
  BY <1>1, SectorFacts
<1>3. Offset(dev.pos) = o /\ Count(t, dev.pos) = Lower(blksz - o, n)
  BY DEF Offset, Count
<1>4. n \in Nat \ {0}
  OBVIOUS
<1>. HIDE DEF p, f, n, o
<1>5. Lower(blksz - o, n) \in {blksz - o, n} /\ Lower(blksz - o, n) <= blksz - o /\ Lower(blksz - o, n) <= n
  <2>1. blksz - o \in Int /\ n \in Int
    BY <1>1, <1>2, <1>4
  <2>. QED  BY <2>1, LowerFacts
<1>. DEFINE k == Lower(blksz - o, n)
<1>. HIDE DEF k
<1>6. k \in {blksz - o, n} /\ k <= blksz - o /\ k <= n
  BY <1>5 DEF k
<1>7. k \in Nat \ {0} /\ k <= n /\ o + k <= blksz
  BY <1>1, <1>2, <1>4, <1>6
<1>8. Offset(dev.pos) = o /\ Count(t, dev.pos) = k
  BY <1>3 DEF k
<1>. QED  BY <1>1, <1>2, <1>7, <1>8 DEF p, f, n

\* There is no request out while a thread is between two of them.
LEMMA NoneOut ==
    ASSUME FInv, NEW t \in Threads, call[t].at = "loop"
    PROVE  dev.pending = 0
<1>1. lock.vio = t
  BY WorkFacts DEF Working
<1>2. \A u \in Threads : call[u].at = "wait" => lock.vio = u
  BY WorkFacts DEF Working
<1>3. \A u \in Threads : call[u].at = "wait" => FALSE
  BY <1>1, <1>2
<1>. QED  BY <1>3 DEF FInv, Requests

\* The buffer that goes to the device holds the words of the call.
LEMMA MergedWords ==
    ASSUME NEW t \in Threads, dev.pos \in Nat, dev.pos < size, call[t].n \in Nat, call[t].n > 0,
           call[t].buf = [i \in 1 .. call[t].n |-> t]
    PROVE  \A i \in 0 .. blksz - 1 :
              Merged(t, dev.pos)[i] = IF i \in Offset(dev.pos) .. Offset(dev.pos) + Count(t, dev.pos) - 1
                                      THEN t ELSE dev.blkbuf[i]
<1>. SUFFICES ASSUME NEW i \in 0 .. blksz - 1
              PROVE  Merged(t, dev.pos)[i] =
                        IF i \in Offset(dev.pos) .. Offset(dev.pos) + Count(t, dev.pos) - 1
                        THEN t ELSE dev.blkbuf[i]
  OBVIOUS
<1>. DEFINE o == Offset(dev.pos)
            k == Count(t, dev.pos)
            n == call[t].n
            b == call[t].buf
<1>1. Merged(t, dev.pos)[i] = IF i \in o .. o + k - 1 THEN b[i - o + 1] ELSE dev.blkbuf[i]
  BY DEF Merged
<1>2. o \in 0 .. blksz - 1 /\ k \in Nat \ {0} /\ k <= n /\ blksz \in Nat \ {0}
  BY CountFacts
<1>3. n \in Nat /\ b = [m \in 1 .. n |-> t]
  OBVIOUS
<1>. HIDE DEF o, k, n, b
<1>4. ASSUME i \in o .. o + k - 1 PROVE b[i - o + 1] = t
  <2>1. i - o + 1 \in 1 .. n
    BY <1>2, <1>3, <1>4
  <2>. QED  BY <1>3, <2>1
<1>. QED  BY <1>1, <1>4 DEF o, k

LEMMA LoopStep ==
    ASSUME FInv, SchedTypeOK, DeviceOK, OnePlace, NEW t \in Threads, vioblk_loop(t),
           UNCHANGED <<job, fd>>
    PROVE  KInv'
<1>. DEFINE c == call[t]
            j == job[t]
<1>0. running = t /\ c.at = "loop" /\ UNCHANGED disk
  BY DEF vioblk_loop, At
<1>1. /\ Shapes /\ lock.vio = t /\ c.at # "none" /\ Owners(t)
      /\ CallOK(t, c, j) /\ JobOK(j, fd[t]) /\ Calling(j)
      /\ Moved(disk, t, c, j) /\ Request(t, c)
      /\ c.pos \in Nat /\ c.pos <= size /\ Total(j) \in Nat \ {0}
      /\ c.n \in Nat /\ c.n <= Total(j)
      /\ dev.pos = c.pos + (Total(j) - c.n) /\ dev.pos \in Nat
      /\ c.op \in {"in", "out"}
      /\ (c.op = "out" => c.buf = [i \in 1 .. c.n |-> t])
  BY <1>0, WorkFacts DEF Working
<1>2. dev.pending = 0
  BY <1>0, NoneOut
<1>3. CASE /\ lock' = [lock EXCEPT !.vio = UNLOCKED] /\ Wake("vio")
           /\ call' = [call EXCEPT ![t].at = "return"] /\ UNCHANGED dev
  <2>1. OnePlace' /\ running' = t
    BY <1>0, <1>3, Conds, WakePlace DEF Wake
  <2>2. /\ Moves(c, call'[t], "return")
        /\ DOMAIN call' = Threads /\ (\A u \in Threads \ {t} : call'[u] = call[u])
        /\ \A u \in Threads : DOMAIN call'[u] = DOMAIN NoCall
    BY <1>1, <1>3, CallAt
  <2>3. lock'.vio = UNLOCKED /\ lock'.kfs = lock.kfs /\ DOMAIN lock' = {"kfs", "vio"}
    BY <1>1, <1>3, LockSet
  <2>4. Shapes'
    BY <1>1, <2>2, <2>3 DEF Shapes
  <2>5. call'[t].at = "return" /\ call'[t].pos = c.pos
    BY <2>2 DEF Moves
  <2>6. Owners(t)'
    BY <1>1, <2>3, <2>5 DEF Owners, Working
  <2>7. CallOK(t, call'[t], j)
    BY <1>1, <2>2, CallMoves
  <2>8. Moved(disk, t, call'[t], j)
    BY <1>1, <2>2, MovedMoves
  <2>9. Progress(t, call[t], job[t])' /\ Request(t, call[t])'
    BY <1>0, <1>1, <2>3, <2>5, <2>8, LockIds DEF Progress, Request, Working
  <2>. QED  BY <1>0, <1>1, <1>3, <2>1, <2>2, <2>3, <2>4, <2>6, <2>7, <2>9, DriverKeeps
<1>4. CASE /\ c.n > 0 /\ dev.pos < size
           /\ LET type == IF c.op = "out" /\ ~Partial(t, dev.pos) THEN "out" ELSE "in" IN
              /\ Submit(type, dev.pos, IF type = "out" THEN Merged(t, dev.pos) ELSE dev.blkbuf)
              /\ call' = [call EXCEPT ![t].at = "wait", ![t].phase = type, ![t].from = dev.pos]
           /\ UNCHANGED <<lock, sched>>
  <2>. DEFINE type == IF c.op = "out" /\ ~Partial(t, dev.pos) THEN "out" ELSE "in"
              buf == IF type = "out" THEN Merged(t, dev.pos) ELSE dev.blkbuf
  <2>1. /\ Submit(type, dev.pos, buf)
        /\ call' = [call EXCEPT ![t] = [c EXCEPT !.at = "wait", !.phase = type, !.from = dev.pos]]
    BY <1>4
  <2>2. /\ type \in {"in", "out"}
        /\ type = "out" => c.op = "out" /\ ~Partial(t, dev.pos) /\ buf = Merged(t, dev.pos)
    OBVIOUS
  <2>. HIDE DEF type, buf
  <2>3. /\ dev'.pos = dev.pos /\ dev'.pending = dev.pending + 1 /\ dev'.status = dev.status
        /\ dev'.sector = dev.pos \div blksz /\ dev'.blkbuf = buf /\ dev'.type = type
    BY <2>1, DevSubmit
  <2>4. dev'.pending = 1
    BY <1>2, <2>3
  <2>. DEFINE d == call'[t]
  <2>5. /\ d.at = "wait" /\ d.op = c.op /\ d.pos = c.pos /\ d.n = c.n /\ d.phase = type
        /\ d.from = dev.pos /\ d.buf = c.buf
        /\ DOMAIN call' = Threads /\ (\A u \in Threads \ {t} : call'[u] = call[u])
        /\ \A u \in Threads : DOMAIN call'[u] = DOMAIN NoCall
    <3>. DEFINE e == [c EXCEPT !.at = "wait", !.phase = type, !.from = dev.pos]
    <3>1. DOMAIN c = {"at", "op", "pos", "n", "phase", "from", "buf"} /\ DOMAIN NoCall = DOMAIN c
      BY <1>1 DEF Shapes, NoCall
    <3>. HIDE DEF c
    <3>2. /\ e.at = "wait" /\ e.op = c.op /\ e.pos = c.pos /\ e.n = c.n /\ e.phase = type
          /\ e.from = dev.pos /\ e.buf = c.buf
          /\ DOMAIN e = DOMAIN NoCall
      BY <3>1
    <3>. HIDE DEF e
    <3>3. call' = [call EXCEPT ![t] = e]
      BY <2>1 DEF e
    <3>. QED  BY <1>1, <3>2, <3>3, CallSet
  <2>. HIDE DEF d
  <2>6. Shapes' /\ OnePlace'
    BY <1>1, <1>4, <2>5, SamePlace DEF Shapes, sched
  <2>7. Owners(t)'
    BY <1>1, <1>4, <2>5 DEF Owners, Working, d
  <2>8. CallOK(t, d, j)
    BY <1>1, <2>5 DEF CallOK, Working
  <2>9. Moved(disk, t, d, j)
    BY <1>1, <2>5 DEF Moved
  <2>10. Progress(t, call[t], job[t])'
    <3>1. dev.pos = c.pos + Total(j) - c.n
      <4>1. ASSUME NEW x \in Nat, NEW y \in Nat, NEW z \in Nat PROVE x + y - z = x + (y - z)
        OBVIOUS
      <4>. QED  BY <1>1, <4>1
    <3>. QED  BY <1>0, <1>1, <2>3, <2>5, <2>9, <3>1 DEF Progress, d, Working
  <2>11. Offset(dev.pos)' = Offset(dev.pos) /\ Count(t, dev.pos)' = Count(t, dev.pos)
    BY <2>3, <2>5 DEF Offset, Count, d
  <2>12. ASSUME type = "out", NEW i \in 0 .. blksz - 1
         PROVE  i \in Offset(dev.pos) .. Offset(dev.pos) + Count(t, dev.pos) - 1 /\ buf[i] = t
    <3>1. Offset(dev.pos) = 0 /\ Count(t, dev.pos) = blksz /\ blksz \in Nat
      BY <2>2, <2>12, Numbers DEF Partial
    <3>2. i \in Offset(dev.pos) .. Offset(dev.pos) + Count(t, dev.pos) - 1
      BY <3>1
    <3>3. Merged(t, dev.pos)[i] = t
      <4>1. c.buf = [m \in 1 .. c.n |-> t]
        BY <1>1, <2>2, <2>12
      <4>. QED  BY <1>1, <1>4, <3>2, <4>1, MergedWords
    <3>. QED  BY <2>2, <2>12, <3>2, <3>3
  <2>13. Request(t, call[t])'
    <3>1. dev'.type = d.phase /\ d.phase \in {"in", "out"} /\ (d.phase = "out" => d.op = "out")
      BY <2>2, <2>3, <2>5
    <3>2. dev'.sector = dev'.pos \div blksz /\ d.from = dev'.pos /\ dev'.pos < size /\ d.n > 0
      BY <1>4, <2>3, <2>5
    <3>3. d.phase = "out" => \A i \in 0 .. blksz - 1 :
             i \in Offset(dev.pos) .. Offset(dev.pos) + Count(t, dev.pos) - 1 /\ dev'.blkbuf[i] = t
      BY <2>3, <2>5, <2>12
    <3>. QED  BY <2>4, <2>11, <3>1, <3>2, <3>3 DEF Request, d
  <2>14. d.at = "wait"
    BY <2>5
  <2>. QED  BY <1>0, <1>1, <1>4, <2>4, <2>5, <2>6, <2>7, <2>8, <2>10, <2>13, <2>14, DriverKeeps DEF d
<1>. QED  BY <1>3, <1>4 DEF vioblk_loop
\* The words of a request that has been served are those of the disk, or on it.
LEMMA Served ==
    ASSUME FInv, NEW t \in Threads, call[t].at = "wait", dev.pending = 0, dev.status = "ok"
    PROVE  /\ call[t].phase = "in" => \A i \in 0 .. blksz - 1 :
                 dev.blkbuf[i] = disk[(dev.pos \div blksz) * blksz + i]
           /\ call[t].phase = "in" => \A m \in 0 .. Count(t, dev.pos) - 1 :
                 dev.blkbuf[Offset(dev.pos) + m] = disk[dev.pos + m]
           /\ call[t].phase = "out" => \A m \in 0 .. Count(t, dev.pos) - 1 :
                 dev.pos + m < size /\ disk[dev.pos + m] = t
           /\ dev.pos < size /\ call[t].n > 0
<1>. DEFINE f == (dev.pos \div blksz) * blksz
            o == Offset(dev.pos)
            k == Count(t, dev.pos)
            p == dev.pos
<1>1. dev.pos \in Nat /\ call[t].n \in Nat /\ Request(t, call[t])
  BY WorkFacts DEF Working
<1>2. /\ dev.pos < size /\ call[t].n > 0
      /\ call[t].phase = "in" => \A i \in 0 .. blksz - 1 : dev.blkbuf[i] = disk[f + i]
      /\ call[t].phase = "out" => \A i \in o .. o + k - 1 : f + i < size => disk[f + i] = t
  BY <1>1 DEF Request
<1>3. /\ o \in 0 .. blksz - 1 /\ k \in Nat \ {0} /\ o + k <= blksz
      /\ f \in Nat /\ p = f + o /\ f + blksz <= size /\ blksz \in Nat \ {0} /\ size \in Nat
  BY <1>1, <1>2, CountFacts
<1>. HIDE DEF f, o, k, p
<1>4. ASSUME NEW m \in 0 .. k - 1
      PROVE  /\ o + m \in 0 .. blksz - 1 /\ o + m \in o .. o + k - 1 /\ f + (o + m) = p + m
             /\ f + (o + m) < size
  BY <1>3
<1>5. call[t].phase = "in" => \A m \in 0 .. k - 1 : dev.blkbuf[o + m] = disk[p + m]
  BY <1>2, <1>4
<1>6. call[t].phase = "out" => \A m \in 0 .. k - 1 : p + m < size /\ disk[p + m] = t
  BY <1>2, <1>4
<1>. QED  BY <1>2, <1>5, <1>6 DEF f, o, k, p

\* The words that are left to write.
LEMMA Rest ==
    ASSUME NEW t, NEW n \in Nat, NEW k \in Nat, k <= n, NEW b, b = [i \in 1 .. n |-> t]
    PROVE  SubSeq(b, k + 1, Len(b)) = [i \in 1 .. n - k |-> t]
<1>1. b \in Seq({t}) /\ Len(b) = n
  OBVIOUS
<1>. DEFINE s == SubSeq(b, k + 1, n)
<1>2. s = [i \in 1 .. n - k |-> b[(k + 1) + i - 1]]
  <2>1. 1 + n - (k + 1) = n - k
    OBVIOUS
  <2>. QED  BY <1>1, <2>1
<1>3. \A i \in 1 .. n - k : b[(k + 1) + i - 1] = t
  OBVIOUS
<1>. QED  BY <1>1, <1>2, <1>3

LEMMA WaitStep ==
    ASSUME FInv, SchedTypeOK, DeviceOK, OnePlace, NEW t \in Threads, vioblk_wait(t),
           UNCHANGED <<job, fd>>
    PROVE  KInv'
<1>. DEFINE c == call[t]
            j == job[t]
<1>0. running = t /\ c.at = "wait" /\ UNCHANGED <<disk, lock>>
  BY DEF vioblk_wait, At
<1>1. /\ Shapes /\ lock.vio = t /\ c.at # "none" /\ Owners(t)
      /\ CallOK(t, c, j) /\ JobOK(j, fd[t]) /\ Calling(j)
      /\ Moved(disk, t, c, j) /\ Request(t, c)
      /\ c.pos \in Nat /\ c.pos <= size /\ Total(j) \in Nat \ {0}
      /\ c.n \in Nat /\ c.n <= Total(j)
      /\ dev.pos = c.pos + (Total(j) - c.n) /\ dev.pos \in Nat
      /\ c.op \in {"in", "out"}
      /\ (c.op = "out" => c.buf = [i \in 1 .. c.n |-> t])
  BY <1>0, WorkFacts DEF Working
<1>2. ASSUME NEW x \in Nat, NEW y \in Nat, NEW z \in Nat PROVE x + y - z = x + (y - z)
  OBVIOUS
<1>f. c.from = dev.pos
  BY <1>0, <1>1 DEF Request
<1>3. CASE dev.pending # 0 /\ Block("used") /\ UNCHANGED <<dev, call>>
  <2>1. OnePlace' /\ waiting'["vio"] = waiting["vio"]
    BY <1>3, Conds, BlockPlace, BlockKeeps
  <2>2. Shapes'
    BY <1>0, <1>1, <1>3 DEF Shapes
  <2>3. Owners(t)'
    BY <1>0, <1>1, <1>3 DEF Owners
  <2>4. Progress(t, call[t], job[t])'
    BY <1>0, <1>1, <1>2, <1>3 DEF Progress, Working
  <2>5. Request(t, call[t])'
    BY <1>0, <1>1, <1>3 DEF Request, Offset, Count
  <2>. QED  BY <1>0, <1>1, <1>3, <2>1, <2>2, <2>3, <2>4, <2>5, DriverKeeps
<1>4. CASE dev.pending = 0 /\ call' = [call EXCEPT ![t].at = "return"] /\ UNCHANGED <<dev, sched>>
  <2>1. OnePlace'
    BY <1>4, SamePlace DEF sched
  <2>2. /\ Moves(c, call'[t], "return")
        /\ DOMAIN call' = Threads /\ (\A u \in Threads \ {t} : call'[u] = call[u])
        /\ \A u \in Threads : DOMAIN call'[u] = DOMAIN NoCall
    BY <1>1, <1>4, CallAt
  <2>3. Shapes'
    BY <1>0, <1>1, <2>2 DEF Shapes
  <2>4. call'[t].at = "return" /\ call'[t].buf = c.buf
    BY <2>2 DEF Moves
  <2>5. Owners(t)'
    BY <1>0, <1>1, <2>4 DEF Owners, Working
  <2>6. CallOK(t, call'[t], j)
    BY <1>1, <2>2, CallMoves
  <2>7. j.at # "data" => c.buf = << >>
    <3>. SUFFICES ASSUME j.at # "data" PROVE c.buf = << >>
      OBVIOUS
    <3>1. c.op = "in" /\ Total(j) = 1
      BY <1>1 DEF CallOK, Total
    <3>2. c.n > 0
      BY <1>0, <1>1 DEF Request
    <3>3. Total(j) - c.n = 0
      BY <1>1, <3>1, <3>2
    <3>4. c.buf = [i \in 1 .. 0 |-> disk[c.pos + i - 1]]
      BY <1>1, <3>1, <3>3 DEF Moved
    <3>. QED  BY <3>4
  <2>8. Progress(t, call[t], job[t])' /\ Request(t, call[t])'
    BY <1>0, <1>1, <2>4, <2>7 DEF Progress, Request, Working
  <2>. QED  BY <1>0, <1>1, <1>4, <2>1, <2>2, <2>3, <2>5, <2>6, <2>8, DriverKeeps
<1>5. CASE /\ dev.pending = 0 /\ dev.status = "ok" /\ c.op = "out" /\ c.phase = "in"
           /\ Submit("out", dev.pos, Merged(t, dev.pos))
           /\ call' = [call EXCEPT ![t].phase = "out"] /\ UNCHANGED sched
  <2>1. OnePlace'
    BY <1>5, SamePlace DEF sched
  <2>. DEFINE d == call'[t]
  <2>2. /\ d.at = "wait" /\ d.op = c.op /\ d.pos = c.pos /\ d.n = c.n /\ d.phase = "out"
        /\ d.from = c.from /\ d.buf = c.buf
        /\ DOMAIN call' = Threads /\ (\A u \in Threads \ {t} : call'[u] = call[u])
        /\ \A u \in Threads : DOMAIN call'[u] = DOMAIN NoCall
    <3>. DEFINE e == [c EXCEPT !.phase = "out"]
    <3>1. DOMAIN c = {"at", "op", "pos", "n", "phase", "from", "buf"} /\ DOMAIN NoCall = DOMAIN c
      BY <1>1 DEF Shapes, NoCall
    <3>2. call' = [call EXCEPT ![t] = e] /\ c.at = "wait"
      BY <1>0, <1>5
    <3>. HIDE DEF c
    <3>3. /\ e.at = c.at /\ e.op = c.op /\ e.pos = c.pos /\ e.n = c.n /\ e.phase = "out"
          /\ e.from = c.from /\ e.buf = c.buf
          /\ DOMAIN e = DOMAIN NoCall
      BY <3>1
    <3>. HIDE DEF e
    <3>. QED  BY <1>1, <3>2, <3>3, CallSet
  <2>. HIDE DEF d
  <2>3. Shapes'
    BY <1>0, <1>1, <2>2 DEF Shapes
  <2>4. Owners(t)'
    BY <1>0, <1>1, <2>2 DEF Owners, Working, d
  <2>5. CallOK(t, d, j)
    BY <1>1, <2>2 DEF CallOK, Working
  <2>6. Moved(disk, t, d, j)
    BY <1>1, <2>2 DEF Moved
  <2>7. /\ dev'.pos = dev.pos /\ dev'.pending = 1
        /\ dev'.sector = dev.pos \div blksz /\ dev'.blkbuf = Merged(t, dev.pos) /\ dev'.type = "out"
    BY <1>5, DevSubmit
  <2>8. Progress(t, call[t], job[t])'
    BY <1>0, <1>1, <1>2, <2>2, <2>6, <2>7 DEF Progress, d, Working
  <2>9. Offset(dev.pos)' = Offset(dev.pos) /\ Count(t, dev.pos)' = Count(t, dev.pos)
    BY <2>2, <2>7 DEF Offset, Count, d
  <2>10. dev.pos < size /\ c.n > 0 /\ \A i \in 0 .. blksz - 1 :
             dev.blkbuf[i] = disk[(dev.pos \div blksz) * blksz + i]
    BY <1>0, <1>5, Served
  <2>11. \A i \in 0 .. blksz - 1 :
             Merged(t, dev.pos)[i] = IF i \in Offset(dev.pos) .. Offset(dev.pos) + Count(t, dev.pos) - 1
                            THEN t ELSE disk[(dev.pos \div blksz) * blksz + i]
    BY <1>1, <1>5, <2>10, MergedWords
  <2>12. Request(t, call[t])'
    <3>1. dev'.type = d.phase /\ d.phase = "out" /\ d.op = "out"
      BY <1>5, <2>2, <2>7
    <3>2. dev'.sector = dev'.pos \div blksz /\ d.from = dev'.pos /\ dev'.pos < size /\ d.n > 0
      BY <1>f, <2>2, <2>7, <2>10
    <3>3. \A i \in 0 .. blksz - 1 :
             dev'.blkbuf[i] = IF i \in Offset(dev.pos) .. Offset(dev.pos) + Count(t, dev.pos) - 1 THEN t
                              ELSE disk[dev'.sector * blksz + i]
      BY <2>7, <2>11
    <3>. QED  BY <1>0, <2>7, <2>9, <3>1, <3>2, <3>3 DEF Request, d
  <2>13. d.at = "wait"
    BY <2>2
  <2>. QED  BY <1>0, <1>1, <2>1, <2>2, <2>3, <2>4, <2>5, <2>7, <2>8, <2>12, <2>13, DriverKeeps DEF d
<1>6. CASE /\ dev.pending = 0 /\ dev.status = "ok" /\ c.op = c.phase
           /\ dev' = [dev EXCEPT !.pos = @ + Count(t, dev.pos)]
           /\ call' = [call EXCEPT ![t].at = "loop", ![t].n = @ - Count(t, dev.pos),
                        ![t].buf = IF c.op = "in" THEN @ \o Copied(t, dev.pos)
                                   ELSE SubSeq(@, Count(t, dev.pos) + 1, Len(@))]
           /\ UNCHANGED sched
  <2>1. OnePlace'
    BY <1>6, SamePlace DEF sched
  <2>. DEFINE k == Count(t, dev.pos)
              p == dev.pos
              d == call'[t]
              b == IF c.op = "in" THEN c.buf \o Copied(t, dev.pos) ELSE SubSeq(c.buf, k + 1, Len(c.buf))
              m == c.n - k
  <2>2. /\ d.at = "loop" /\ d.op = c.op /\ d.pos = c.pos /\ d.n = m /\ d.buf = b
        /\ DOMAIN call' = Threads /\ (\A u \in Threads \ {t} : call'[u] = call[u])
        /\ \A u \in Threads : DOMAIN call'[u] = DOMAIN NoCall
    <3>. DEFINE e == [c EXCEPT !.at = "loop", !.n = m, !.buf = b]
    <3>1. DOMAIN c = {"at", "op", "pos", "n", "phase", "from", "buf"} /\ DOMAIN NoCall = DOMAIN c
      BY <1>1 DEF Shapes, NoCall
    <3>2. call' = [call EXCEPT ![t] = e]
      BY <1>6
    <3>. HIDE DEF c, m, b
    <3>3. /\ e.at = "loop" /\ e.op = c.op /\ e.pos = c.pos /\ e.n = m /\ e.buf = b
          /\ DOMAIN e = DOMAIN NoCall
      BY <3>1
    <3>. HIDE DEF e
    <3>. QED  BY <1>1, <3>2, <3>3, CallSet
  <2>3. dev'.pos = p + k /\ dev'.pending = dev.pending
    BY <1>6, DevPos
  <2>4. p < size /\ c.n > 0
    BY <1>0, <1>6, Served
  <2>5. k \in Nat \ {0} /\ k <= c.n
    BY <1>1, <2>4, CountFacts
  <2>6. c.op = "in" => Copied(t, dev.pos) = [i \in 1 .. k |-> dev.blkbuf[Offset(dev.pos) + i - 1]]
    BY DEF Copied
  <2>7. c.op = "in" => \A i \in 0 .. k - 1 : dev.blkbuf[Offset(dev.pos) + i] = disk[p + i]
    BY <1>0, <1>6, Served
  <2>8. c.op = "out" => \A i \in 0 .. k - 1 : p + i < size /\ disk[p + i] = t
    BY <1>0, <1>6, Served
  <2>9. Offset(dev.pos) \in Nat
    BY <1>1, <2>4, CountFacts, Numbers
  <2>10. b = IF c.op = "in" THEN c.buf \o Copied(t, dev.pos) ELSE SubSeq(c.buf, k + 1, Len(c.buf))
    OBVIOUS
  <2>11. m = c.n - k
    OBVIOUS
  <2>. DEFINE T == Total(j)
              g == T - c.n
              q == c.pos
              o == Offset(dev.pos)
  <2>12. T \in Nat /\ c.n \in Nat /\ c.n <= T /\ q \in Nat /\ p = q + g /\ g \in Nat
    BY <1>1
  <2>13. Moved(disk, t, c, j) /\ g = T - c.n /\ q = c.pos
    BY <1>1
  <2>14. (c.op = "in" => c.buf = [i \in 1 .. g |-> disk[q + i - 1]])
         /\ (c.op = "out" => \A i \in 0 .. g - 1 : q + i < size /\ disk[q + i] = t)
    BY <1>1 DEF Moved
  <2>. HIDE DEF k, p, d, b, m, T, g, q, o
  <2>15. T - m = g + k /\ m \in 0 .. T
    BY <2>5, <2>11, <2>12, <2>13
  <2>16. c.op = "in" => b = [i \in 1 .. g + k |-> disk[q + i - 1]]
    <3>. SUFFICES ASSUME c.op = "in" PROVE b = [i \in 1 .. g + k |-> disk[q + i - 1]]
      OBVIOUS
    <3>. DEFINE G(i) == disk[q + i - 1]
    <3>1. c.buf = [i \in 1 .. g |-> G(i)]
      BY <2>14
    <3>2. Copied(t, dev.pos) = [i \in 1 .. k |-> G(g + i)]
      <4>1. ASSUME NEW i \in 1 .. k PROVE dev.blkbuf[Offset(dev.pos) + i - 1] = G(g + i)
        <5>1. /\ i - 1 \in 0 .. k - 1 /\ Offset(dev.pos) + i - 1 = Offset(dev.pos) + (i - 1)
              /\ p + (i - 1) = q + (g + i) - 1
          BY <2>5, <2>9, <2>12
        <5>. QED  BY <2>7, <5>1
      <4>. HIDE DEF G
      <4>. QED  BY <2>6, <4>1
    <3>3. b = c.buf \o Copied(t, dev.pos)
      BY <2>10
    <3>. HIDE DEF G, c
    <3>4. c.buf \o Copied(t, dev.pos) = [i \in 1 .. g + k |-> G(i)]
      BY <2>5, <2>12, <3>1, <3>2, Concat
    <3>. QED  BY <3>3, <3>4 DEF G
  <2>17. c.op = "out" => \A i \in 0 .. (g + k) - 1 : q + i < size /\ disk[q + i] = t
    <3>. SUFFICES ASSUME c.op = "out", NEW i \in 0 .. (g + k) - 1 PROVE q + i < size /\ disk[q + i] = t
      OBVIOUS
    <3>1. CASE i < g
      <4>1. i \in 0 .. g - 1
        BY <2>12, <3>1
      <4>. QED  BY <2>14, <4>1
    <3>2. CASE i >= g
      <4>1. i - g \in 0 .. k - 1 /\ p + (i - g) = q + i
        BY <2>5, <2>12, <3>2
      <4>. QED  BY <2>8, <4>1
    <3>. QED  BY <2>5, <2>12, <3>1, <3>2
  <2>18. c.op = "out" => b = [i \in 1 .. m |-> t]
    <3>. SUFFICES ASSUME c.op = "out" PROVE b = [i \in 1 .. m |-> t]
      OBVIOUS
    <3>1. c.buf = [i \in 1 .. c.n |-> t] /\ b = SubSeq(c.buf, k + 1, Len(c.buf))
      BY <1>1, <2>10
    <3>. QED  BY <2>5, <2>11, <2>12, <3>1, Rest
  <2>19. Moved(disk, t, d, j)
    <3>1. Total(j) - d.n = g + k /\ d.pos = q /\ d.op = c.op /\ d.buf = b
      BY <2>2, <2>13, <2>15 DEF T
    <3>. QED  BY <2>16, <2>17, <3>1 DEF Moved
  <2>20. Shapes' /\ d.at = "loop"
    BY <1>0, <1>1, <2>2 DEF Shapes
  <2>21. Owners(t)'
    BY <1>0, <1>1, <2>2 DEF Owners, Working, d
  <2>22. CallOK(t, d, j)
    BY <1>1, <2>2, <2>15, <2>18 DEF CallOK, Working, T
  <2>23. dev'.pos = d.pos + Total(j) - d.n
    <3>1. ASSUME NEW x \in Nat, NEW y \in Nat, NEW z \in Nat, z <= y, NEW w \in Nat, w <= z
          PROVE  (x + (y - z)) + w = x + y - (z - w)
      BY <3>1
    <3>2. dev'.pos = (q + (T - c.n)) + k /\ d.pos = q /\ d.n = c.n - k
      BY <2>2, <2>3, <2>11, <2>12, <2>13
    <3>. QED  BY <2>5, <2>12, <3>1, <3>2 DEF T
  <2>24. Progress(t, call[t], job[t])' /\ Request(t, call[t])'
    BY <1>0, <1>1, <2>2, <2>19, <2>23 DEF Progress, Request, d, Working
  <2>. QED  BY <1>0, <1>1, <1>6, <2>1, <2>2, <2>3, <2>20, <2>21, <2>22, <2>24, DriverKeeps DEF d
<1>. QED  BY <1>3, <1>4, <1>5, <1>6, <1>f DEF vioblk_wait
-----------------------------------------------------------------------------
(* The device, the interrupt and the scheduler *)

\* What a write request puts on the disk: words of the call's own transfer.
LEMMA OutWords ==
    ASSUME FInv, NEW t \in Threads, call[t].at = "wait", dev.type = "out", dev.pending # 0,
           disk' = [a \in DOMAIN disk |->
                      IF a \in dev.sector * blksz .. dev.sector * blksz + blksz - 1
                      THEN dev.blkbuf[a - dev.sector * blksz] ELSE disk[a]]
    PROVE  /\ lock.kfs = t /\ job[t].op = "write" /\ job[t].at = "data" /\ call[t].op = "out"
           /\ DOMAIN disk' = 0 .. size - 1
           /\ \A a \in 0 .. size - 1 : disk'[a] # disk[a] =>
                \E i \in 0 .. Total(job[t]) - 1 : a = Place(job[t].inode, job[t].pos) + i
           /\ \A a \in 0 .. size - 1 : disk'[a] = disk[a] \/ disk'[a] = t
           /\ \A m \in 0 .. Count(t, dev.pos) - 1 : disk'[dev.pos + m] = t
<1>. DEFINE c == call[t]
            j == job[t]
            f == dev.sector * blksz
            o == Offset(dev.pos)
            k == Count(t, dev.pos)
            p == dev.pos
            buf == dev.blkbuf
            T == Total(j)
            n == c.n
            q == c.pos
<1>1. /\ Owners(t) /\ CallOK(t, c, j) /\ JobOK(j, fd[t]) /\ Request(t, c) /\ c.at # "none"
      /\ q \in Nat /\ q <= size /\ T \in Nat \ {0} /\ n \in Nat /\ n <= T
      /\ p = q + (T - n) /\ p \in Nat
  BY WorkFacts DEF Working
<1>2. /\ c.op = "out" /\ dev.sector = p \div blksz /\ p < size /\ n > 0
      /\ \A i \in 0 .. blksz - 1 : buf[i] = IF i \in o .. o + k - 1 THEN t ELSE disk[f + i]
  BY <1>1 DEF Request
<1>3. j.at = "data" /\ j.op = "write" /\ lock.kfs = t
  BY <1>1, <1>2 DEF CallOK, Owners, Inside
<1>4. /\ o \in 0 .. blksz - 1 /\ k \in Nat \ {0} /\ k <= n /\ o + k <= blksz
      /\ f \in Nat /\ p = f + o /\ f + blksz <= size /\ blksz \in Nat \ {0} /\ size \in Nat
  BY <1>1, <1>2, CountFacts
<1>5. q = Place(j.inode, j.pos)
  <2>1. q \in {Place(j.inode, j.pos), size + 1}
    BY <1>1, <1>3 DEF CallOK, SeekTo
  <2>2. q # size + 1
    BY <1>1, <1>4
  <2>. QED  BY <2>1, <2>2
<1>6. DOMAIN disk = 0 .. size - 1
  BY DEF FInv, DiskOK
<1>7. disk' = [a \in 0 .. size - 1 |-> IF a \in f .. f + blksz - 1 THEN buf[a - f] ELSE disk[a]]
  BY <1>6
<1>. HIDE DEF f, o, k, p, buf, T, n, q
<1>8. ASSUME NEW a \in 0 .. size - 1
      PROVE  /\ disk'[a] # disk[a] => a - f \in o .. o + k - 1
             /\ disk'[a] = disk[a] \/ disk'[a] = t
  <2>1. CASE a \in f .. f + blksz - 1
    <3>1. a - f \in 0 .. blksz - 1 /\ f + (a - f) = a
      BY <1>4, <2>1
    <3>2. disk'[a] = buf[a - f]
      BY <1>7, <2>1
    <3>. QED  BY <1>2, <3>1, <3>2
  <2>2. CASE a \notin f .. f + blksz - 1
    BY <1>7, <2>2
  <2>. QED  BY <2>1, <2>2
<1>9. ASSUME NEW a \in 0 .. size - 1, disk'[a] # disk[a] PROVE \E i \in 0 .. T - 1 : a = q + i
  <2>1. a - f \in o .. o + k - 1
    BY <1>8, <1>9
  <2>2. (T - n) + ((a - f) - o) \in 0 .. T - 1
    BY <1>1, <1>4, <2>1
  <2>3. a = q + ((T - n) + ((a - f) - o))
    BY <1>1, <1>4, <2>1
  <2>. QED  BY <2>2, <2>3
<1>10. ASSUME NEW m \in 0 .. k - 1 PROVE disk'[p + m] = t
  <2>1. /\ p + m \in 0 .. size - 1 /\ p + m \in f .. f + blksz - 1 /\ (p + m) - f = o + m
        /\ o + m \in 0 .. blksz - 1 /\ o + m \in o .. o + k - 1
    BY <1>4
  <2>2. disk'[p + m] = buf[o + m]
    BY <1>7, <2>1
  <2>. QED  BY <1>2, <2>1, <2>2
<1>11. DOMAIN disk' = 0 .. size - 1
  BY <1>7
<1>12. \A a \in 0 .. size - 1 : disk'[a] # disk[a] => \E i \in 0 .. Total(j) - 1 : a = Place(j.inode, j.pos) + i
  BY <1>5, <1>9 DEF T
<1>13. \A m \in 0 .. Count(t, dev.pos) - 1 : disk'[dev.pos + m] = t
  BY <1>10 DEF k, p
<1>. QED  BY <1>2, <1>3, <1>8, <1>11, <1>12, <1>13

\* The device leaves everything of a request but its status, its buffer and its
\* interrupt.
LEMMA DeviceFields ==
    ASSUME DeviceOK, DeviceDone
    PROVE  /\ dev'.pos = dev.pos /\ dev'.sector = dev.sector /\ dev'.type = dev.type
           /\ dev'.pending = dev.pending - 1 /\ dev.pending > 0
           /\ \/ /\ dev.type = "in" /\ dev'.status = "ok" /\ UNCHANGED disk
                 /\ dev'.blkbuf = [i \in 0 .. blksz - 1 |-> disk[dev.sector * blksz + i]]
              \/ /\ dev.type = "out"
                 /\ disk' = [a \in DOMAIN disk |->
                               IF a \in dev.sector * blksz .. dev.sector * blksz + blksz - 1
                               THEN dev.blkbuf[a - dev.sector * blksz] ELSE disk[a]]
              \/ dev'.status = "error" /\ UNCHANGED disk
BY DEF DeviceOK, vioblk_attach, DeviceDone

\* A thread that is not the owner of kfs_lock has to do with the inodes only.
LEMMA Bystander ==
    ASSUME FInv, NEW t \in Threads, NEW u \in Threads, u # t, lock.kfs = t,
           NEW words, \A a \in 0 .. DataStart - 1 : words[a] = disk[a]
    PROVE  /\ job[u].at \notin Inside
           /\ call[u].at # "none" => (Moved(words, u, call[u], job[u]) <=> Moved(disk, u, call[u], job[u]))
<1>. DEFINE c == call[u]
            j == job[u]
<1>1. Owners(u) /\ CallOK(u, c, j) /\ JobOK(j, fd[u])
  BY ThreadFacts
<1>2. j.at \notin Inside
  BY <1>1 DEF Owners
<1>3. ASSUME c.at # "none" PROVE Moved(words, u, c, j) <=> Moved(disk, u, c, j)
  <2>1. j.at = "open"
    BY <1>1, <1>2, <1>3 DEF CallOK, Calling, JobOK
  <2>2. c.op = "in" /\ c.pos \in SeekTo(j) /\ c.n \in 0 .. 1 /\ Total(j) = 1
    BY <1>1, <1>3, <2>1 DEF CallOK, Total
  <2>3. c.pos \in 0 .. DataStart - 1
    BY <1>1, <2>1, <2>2, PositionMeta
  <2>. DEFINE k == Total(j) - c.n
  <2>4. k \in 0 .. 1
    BY <2>2
  <2>. HIDE DEF k
  <2>5. \A i \in 1 .. k : words[c.pos + i - 1] = disk[c.pos + i - 1]
    <3>. SUFFICES ASSUME NEW i \in 1 .. k PROVE words[c.pos + i - 1] = disk[c.pos + i - 1]
      OBVIOUS
    <3>1. c.pos + i - 1 = c.pos
      BY <2>3, <2>4
    <3>. QED  BY <2>3, <3>1
  <2>6. [i \in 1 .. k |-> words[c.pos + i - 1]] = [i \in 1 .. k |-> disk[c.pos + i - 1]]
    BY <2>5
  <2>. QED  BY <2>2, <2>6 DEF Moved, k
<1>. QED  BY <1>2, <1>3

LEMMA DeviceStep ==
    ASSUME FInv, DeviceOK, OnePlace, Device
    PROVE  KInv'
<1>0. DeviceDone /\ UNCHANGED <<running, ready, waiting, lock, call, job, fd>>
  BY DEF Device, DeviceDone, sched
<1>1. /\ dev'.pos = dev.pos /\ dev'.sector = dev.sector /\ dev'.type = dev.type
      /\ dev'.pending = dev.pending - 1 /\ dev.pending > 0
  BY <1>0, DeviceFields
<1>2. dev.pending = 1 /\ dev'.pending = 0 /\ \E u \in Threads : call[u].at = "wait"
  BY <1>1 DEF FInv, Requests
<1>3. PICK t \in Threads : call[t].at = "wait"
  BY <1>2
<1>4. lock.vio = t /\ (\A u \in Threads \ {t} : call[u].at \notin Working)
  BY <1>3, WorkFacts DEF Working
<1>5. OnePlace' /\ Shapes'
  BY <1>0, ThreadFacts, <1>3, SamePlace DEF Shapes
<1>6. Requests'
  BY <1>2 DEF Requests
<1>7. \A u \in Threads : Owners(u)'
  <2>. SUFFICES ASSUME NEW u \in Threads PROVE Owners(u)'
    OBVIOUS
  <2>1. Owners(u)
    BY ThreadFacts
  <2>. QED  BY <1>0, <1>1, <2>1 DEF Owners
<1>8. \A u \in Threads : Local(u)'
  <2>. SUFFICES ASSUME NEW u \in Threads PROVE Local(u)'
    OBVIOUS
  <2>1. Local(u)
    BY ThreadFacts DEF Local
  <2>. QED  BY <1>0, <2>1 DEF Local
<1>9. Offset(dev.pos)' = Offset(dev.pos) /\ Count(t, dev.pos)' = Count(t, dev.pos)
  BY <1>0, <1>1 DEF Offset, Count
<1>. DEFINE c == call[t]
            f == dev.sector * blksz
<1>10. Request(t, c)
  BY ThreadFacts
<1>11. /\ dev.type = c.phase /\ c.phase \in {"in", "out"} /\ (c.phase = "out" => c.op = "out")
       /\ dev.sector = dev.pos \div blksz /\ c.from = dev.pos /\ dev.pos < size /\ c.n > 0
  BY <1>3, <1>10 DEF Request
<1>12. ASSUME /\ DOMAIN disk' = 0 .. size - 1
              /\ \A a \in 0 .. DataStart - 1 : disk'[a] = disk[a],
              \A u \in Threads : call[u].at # "none" =>
                 (Moved(disk, u, call[u], job[u]) => Moved(disk', u, call[u], job[u])),
              \A u \in Threads : Done(u, job[u])',
              dev'.status = "ok" =>
                 /\ c.phase = "in" => \A i \in 0 .. blksz - 1 : dev'.blkbuf[i] = disk'[f + i]
                 /\ c.phase = "out" => \A i \in Offset(dev.pos) .. Offset(dev.pos) + Count(t, dev.pos) - 1 :
                                          f + i < size => disk'[f + i] = t
       PROVE  KInv'
  <2>1. DiskOK'
    BY <1>12 DEF FInv, DiskOK
  <2>2. ASSUME NEW u \in Threads PROVE Thr(u)'
    <3>1. Progress(u, call[u], job[u]) /\ Done(u, job[u])' /\ Owners(u)' /\ Local(u)'
      BY <1>7, <1>8, <1>12, ThreadFacts
    <3>2. Progress(u, call[u], job[u])'
      <4>1. CASE call[u].at = "none"
        BY <1>0, <4>1 DEF Progress, Working
      <4>2. CASE call[u].at # "none"
        BY <1>0, <1>1, <1>12, <3>1, <4>2 DEF Progress
      <4>. QED  BY <4>1, <4>2
    <3>3. Request(u, call[u])'
      <4>1. CASE u = t
        BY <1>0, <1>1, <1>2, <1>9, <1>11, <1>12, <4>1 DEF Request
      <4>2. CASE u # t
        BY <1>0, <1>4, <4>2 DEF Request, Working
      <4>. QED  BY <4>1, <4>2
    <3>. QED  BY <3>1, <3>2, <3>3 DEF Thr
  <2>. QED  BY <1>5, <1>6, <2>1, <2>2 DEF KInv, FInv
<1>13. DiskOK
  BY DEF FInv
<1>14. CASE /\ UNCHANGED disk
            /\ \/ dev.type = "in" /\ dev'.blkbuf = [i \in 0 .. blksz - 1 |-> disk[f + i]]
               \/ dev'.status = "error"
  <2>1. \A u \in Threads : Done(u, job[u])'
    <3>. SUFFICES ASSUME NEW u \in Threads PROVE Done(u, job[u])'
      OBVIOUS
    <3>1. Done(u, job[u])
      BY ThreadFacts
    <3>. QED  BY <1>0, <1>14, <3>1 DEF Done, Got
  <2>2. dev'.status = "ok" =>
           c.phase = "in" /\ \A i \in 0 .. blksz - 1 : dev'.blkbuf[i] = disk'[f + i]
    BY <1>11, <1>14
  <2>3. DOMAIN disk' = 0 .. size - 1 /\ \A a \in 0 .. DataStart - 1 : disk'[a] = disk[a]
    BY <1>13, <1>14 DEF DiskOK
  <2>4. \A u \in Threads : Moved(disk, u, call[u], job[u]) => Moved(disk', u, call[u], job[u])
    BY <1>14
  <2>5. dev'.status = "ok" =>
                 /\ c.phase = "in" => \A i \in 0 .. blksz - 1 : dev'.blkbuf[i] = disk'[f + i]
                 /\ c.phase = "out" => \A i \in Offset(dev.pos) .. Offset(dev.pos) + Count(t, dev.pos) - 1 :
                                          f + i < size => disk'[f + i] = t
    BY <2>2
  <2>. QED  BY <1>12, <2>1, <2>3, <2>4, <2>5
<1>15. CASE /\ dev.type = "out"
            /\ disk' = [a \in DOMAIN disk |->
                          IF a \in dev.sector * blksz .. dev.sector * blksz + blksz - 1
                          THEN dev.blkbuf[a - dev.sector * blksz] ELSE disk[a]]
  <2>. DEFINE j == job[t]
  <2>1. /\ lock.kfs = t /\ j.op = "write" /\ j.at = "data" /\ c.op = "out"
        /\ DOMAIN disk' = 0 .. size - 1
        /\ \A a \in 0 .. size - 1 : disk'[a] # disk[a] =>
                \E i \in 0 .. Total(j) - 1 : a = Place(j.inode, j.pos) + i
        /\ \A a \in 0 .. size - 1 : disk'[a] = disk[a] \/ disk'[a] = t
        /\ \A m \in 0 .. Count(t, dev.pos) - 1 : disk'[dev.pos + m] = t
    <3>1. dev.pending # 0
      BY <1>2
    <3>. QED  BY <1>3, <1>15, <3>1, OutWords
  <2>2. JobOK(j, fd[t]) /\ Done(t, j) /\ c.pos \in Nat /\ dev.pos \in Nat /\ c.n \in Nat
        /\ Total(j) \in Nat /\ c.n <= Total(j)
    BY <1>3, ThreadFacts, WorkFacts DEF Working
  <2>3. ASSUME NEW a \in 0 .. DataStart - 1 PROVE disk'[a] = disk[a]
    <3>1. a \in 0 .. size - 1 /\ DataStart \in Nat
      BY Numbers
    <3>2. \A i \in 0 .. Total(j) - 1 : Place(j.inode, j.pos) + i >= DataStart /\ Place(j.inode, j.pos) + i \in Nat
      BY <2>1, <2>2, PlaceRun
    <3>3. \A i \in 0 .. Total(j) - 1 : a # Place(j.inode, j.pos) + i
      BY <3>1, <3>2
    <3>. QED  BY <2>1, <3>1, <3>3
  <2>4. ASSUME NEW u \in Threads, call[u].at # "none", Moved(disk, u, call[u], job[u])
        PROVE  Moved(disk', u, call[u], job[u])
    <3>1. CASE u = t
      <4>. DEFINE k == Total(j) - c.n
                  q == c.pos
      <4>1. \A i \in 0 .. k - 1 : q + i < size /\ disk[q + i] = t
        BY <2>1, <2>4, <3>1 DEF Moved
      <4>2. k \in Nat /\ q \in Nat /\ size \in Nat
        BY <2>2, Numbers
      <4>. HIDE DEF k, q
      <4>3. \A i \in 0 .. k - 1 : q + i \in 0 .. size - 1
        BY <4>1, <4>2
      <4>4. \A i \in 0 .. k - 1 : q + i < size /\ disk'[q + i] = t
        BY <2>1, <4>1, <4>3
      <4>. QED  BY <2>1, <3>1, <4>4 DEF Moved, k, q
    <3>2. CASE u # t
      BY <2>1, <2>3, <2>4, <3>2, Bystander
    <3>. QED  BY <3>1, <3>2
  <2>5. ASSUME NEW u \in Threads PROVE Done(u, job[u])'
    <3>1. CASE u = t
      <4>1. /\ j.pos \in Nat /\ j.n \in Nat \ {0} /\ j.inode \in Inodes
            /\ FileLen(j.inode) \in Nat /\ j.pos + j.n <= FileLen(j.inode)
        BY <2>1, <2>2, PosFacts
      <4>2. j.start \in Nat /\ j.count \in Nat /\ j.pos = j.start + j.count
        BY <2>1, <2>2 DEF JobOK
      <4>3. ASSUME NEW k \in 1 .. j.count
            PROVE  LET a == Place(j.inode, j.start + k - 1) IN a < size /\ disk'[a] = t
        <5>. DEFINE a == Place(j.inode, j.start + k - 1)
        <5>1. j.start + k - 1 \in 0 .. FileLen(j.inode) - 1
          BY <4>1, <4>2
        <5>2. a \in Nat
          BY <4>1, <5>1, InodeFacts
        <5>3. a < size /\ disk[a] = t
          BY <2>1, <2>2 DEF Done, Got
        <5>. HIDE DEF a
        <5>4. a \in 0 .. size - 1
          BY <5>2, <5>3, Numbers
        <5>5. a < size /\ disk'[a] = t
          BY <2>1, <5>3, <5>4
        <5>. QED  BY <5>5 DEF a
      <4>4. Got(disk', t, j)
        BY <2>1, <4>3 DEF Got
      <4>. QED  BY <1>0, <3>1, <4>4 DEF Done
    <3>2. CASE u # t
      <4>1. job[u].at \notin Inside
        BY <2>1, <3>2, Bystander
      <4>. QED  BY <1>0, <4>1 DEF Done, Inside
    <3>. QED  BY <3>1, <3>2
  <2>6. ASSUME NEW i \in Offset(dev.pos) .. Offset(dev.pos) + Count(t, dev.pos) - 1 PROVE disk'[f + i] = t
    <3>. DEFINE o == Offset(dev.pos)
                p == dev.pos
                k == Count(t, dev.pos)
    <3>1. o \in 0 .. blksz - 1 /\ k \in Nat \ {0} /\ f \in Nat /\ p = f + o /\ blksz \in Nat
      BY <1>11, <2>2, CountFacts
    <3>2. \A m \in 0 .. k - 1 : disk'[p + m] = t
      BY <2>1
    <3>. HIDE DEF o, p, k, f
    <3>3. i \in o .. o + k - 1
      BY <2>6 DEF o, k
    <3>4. i - o \in 0 .. k - 1 /\ p + (i - o) = f + i
      BY <3>1, <3>3
    <3>. QED  BY <3>2, <3>4
  <2>7. c.phase # "in"
    BY <1>11, <1>15
  <2>. QED  BY <1>12, <2>1, <2>3, <2>4, <2>5, <2>6, <2>7
<1>. QED  BY <1>0, <1>14, <1>15, DeviceFields

\* A step that is nobody's: the interrupt, the scheduler.
LEMMA SchedStep ==
    ASSUME FInv, OnePlace', UNCHANGED <<lock, disk, call, job, fd>>,
           dev'.pos = dev.pos, dev'.sector = dev.sector, dev'.type = dev.type,
           dev'.pending = dev.pending, dev'.status = dev.status, dev'.blkbuf = dev.blkbuf,
           waiting'["vio"] = waiting["vio"],
           \A u \in Threads : call[u].at = "begin" => running' = running
    PROVE  KInv'
<1>1. Shapes' /\ DiskOK' /\ Requests'
  BY DEF FInv, Shapes, DiskOK, Requests
<1>2. ASSUME NEW u \in Threads PROVE Thr(u)'
  <2>0. /\ Owners(u) /\ FdOK(fd[u]) /\ JobOK(job[u], fd[u]) /\ CallOK(u, call[u], job[u])
        /\ Progress(u, call[u], job[u]) /\ Request(u, call[u]) /\ Done(u, job[u])
    BY ThreadFacts
  <2>1. Owners(u)'
    BY <2>0 DEF Owners
  <2>2. Local(u)' /\ Done(u, job[u])'
    BY <2>0 DEF Local, Done
  <2>3. Progress(u, call[u], job[u])'
    BY <2>0 DEF Progress
  <2>4. Request(u, call[u])'
    BY <2>0 DEF Request, Offset, Count
  <2>. QED  BY <2>1, <2>2, <2>3, <2>4 DEF Thr
<1>. QED  BY <1>1, <1>2 DEF KInv, FInv

LEMMA InterruptStep ==
    ASSUME FInv, SchedTypeOK, DeviceOK, OnePlace, Interrupt
    PROVE  KInv'
<1>1. Wake("used") /\ dev' = [dev EXCEPT !.interrupt_status = 0] /\ UNCHANGED <<lock, disk, call, job, fd>>
  BY DEF Interrupt, extern_intr_handler, vioblk_isr
<1>2. /\ dev'.pos = dev.pos /\ dev'.sector = dev.sector /\ dev'.type = dev.type
      /\ dev'.pending = dev.pending /\ dev'.status = dev.status /\ dev'.blkbuf = dev.blkbuf
  BY <1>1 DEF DeviceOK, vioblk_attach
<1>3. OnePlace' /\ waiting'["vio"] = waiting["vio"] /\ running' = running
  BY <1>1, Conds, WakePlace, WakeType DEF Wake
<1>. QED  BY <1>1, <1>2, <1>3, SchedStep

\* A thread that is between the two calls of the driver has the hart and is not
\* in user mode.
LEMMA HartStep ==
    ASSUME FInv, SchedTypeOK, OnePlace, DispatchNext \/ \E t \in Threads : Preempt(t)
    PROVE  KInv'
<1>1. UNCHANGED <<lock, dev, disk, call, job, fd>> /\ (Dispatch \/ YieldHart)
  BY DEF DispatchNext, Preempt, vio
<1>2. OnePlace' /\ UNCHANGED waiting
  BY <1>1, HeadPlace
<1>3. ASSUME NEW u \in Threads, call[u].at = "begin" PROVE FALSE
  <2>1. running = u /\ Calling(job[u])
    BY <1>3, ThreadFacts DEF Owners, CallOK
  <2>2. CASE DispatchNext
    BY <2>1, <2>2, LockIds DEF DispatchNext, Dispatch
  <2>3. CASE \E t \in Threads : Preempt(t)
    BY <2>1, <2>3 DEF Preempt, Calling
  <2>. QED  BY <2>2, <2>3
<1>. QED  BY <1>1, <1>2, <1>3, SchedStep
-----------------------------------------------------------------------------
(* Every step *)

LEMMA InitKInv == Init => KInv
<1>. SUFFICES ASSUME Init PROVE KInv
  OBVIOUS
<1>1. OnePlace
  BY InitPlace
<1>2. /\ lock = [kfs |-> UNLOCKED, vio |-> UNLOCKED] /\ dev = vioblk_attach /\ disk = Image
      /\ call = [t \in Threads |-> NoCall] /\ job = [t \in Threads |-> NoJob]
  BY DEF Init, VioInit
<1>3. PICK pos \in [Threads -> {0} \cup Sizes] :
         fd = [t \in Threads |-> [inode |-> 0, file_pos |-> pos[t], file_size |-> Image[InodeAt(0)]]]
  BY DEF Init
<1>4. Shapes
  BY <1>2, <1>3 DEF Shapes
<1>5. DiskOK
  BY <1>2, Numbers, VioBlkAssumption DEF DiskOK
<1>6. Requests
  BY <1>2 DEF Requests, vioblk_attach
<1>7. ASSUME NEW t \in Threads PROVE Thr(t)
  <2>1. call[t].at = "none" /\ job[t].at = "back" /\ job[t].op = "open"
    BY <1>2 DEF NoCall, NoJob
  <2>2. lock.kfs = UNLOCKED /\ lock.vio = UNLOCKED /\ t # UNLOCKED
    BY <1>2, LockIds
  <2>3. FdOK(fd[t])
    <3>1. 0 \in Inodes /\ pos[t] \in Nat
      <4>1. 0 \in Inodes
        BY Numbers DEF Inodes
      <4>2. pos[t] \in {0} \cup Sizes
        BY <1>3
      <4>3. \A x \in {0} \cup Sizes : x \in Nat
        BY KfsAssumption
      <4>. QED  BY <4>1, <4>2, <4>3, Zenon
    <3>2. fd[t].inode = 0 /\ fd[t].file_pos = pos[t] /\ fd[t].file_size = Image[InodeAt(0)]
      BY <1>3
    <3>. QED  BY <3>1, <3>2 DEF FdOK, FileLen
  <2>4. Owners(t)
    BY <2>1, <2>2 DEF Owners, Inside, Working
  <2>5. JobOK(job[t], fd[t]) /\ CallOK(t, call[t], job[t])
    BY <2>1 DEF JobOK, CallOK, Calling, Inside
  <2>6. Progress(t, call[t], job[t]) /\ Request(t, call[t]) /\ Done(t, job[t])
    BY <2>1 DEF Progress, Request, Done, Working
  <2>. QED  BY <2>3, <2>4, <2>5, <2>6 DEF Thr, Local
<1>. QED  BY <1>1, <1>4, <1>5, <1>6, <1>7 DEF KInv, FInv

\* What the steps do with the lists of threads.
LEMMA NextSched ==
    ASSUME [Next]_vars
    PROVE  \/ \E c \in Conditions : Block(c) \/ Wake(c)
           \/ Dispatch \/ YieldHart \/ UNCHANGED sched
<1>1. ASSUME NEW t \in Threads, DriverStep(t)
      PROVE  Block("vio") \/ Wake("vio") \/ Block("used") \/ UNCHANGED sched
  BY <1>1 DEF DriverStep, vioblk_setpos, vioblk_acquire, vioblk_loop, vioblk_wait, WaitFor
<1>2. ASSUME NEW t \in Threads,
             \/ \E i \in Inodes : fs_open(t, i)
             \/ \E p \in Sizes : fs_setpos(t, p)
             \/ \E n \in Sizes, op \in {"read", "write"} : fs_call(t, op, n)
             \/ fs_opened(t) \/ fs_open_failed(t) \/ fs_acquire(t) \/ fs_boot(t)
             \/ fs_length(t) \/ fs_block(t) \/ fs_data(t) \/ fs_onward(t) \/ fs_astray(t)
      PROVE  UNCHANGED sched \/ Block("kfs") \/ Wake("kfs")
  BY <1>2 DEF fs_open, fs_setpos, fs_call, fs_opened, fs_open_failed, fs_acquire, fs_boot,
         fs_length, fs_block, fs_data, fs_onward, fs_astray, WaitFor, NextBlock
<1>3. ASSUME Device \/ Interrupt \/ DispatchNext \/ UNCHANGED vars \/ \E t \in Threads : Preempt(t)
      PROVE  Wake("used") \/ Dispatch \/ YieldHart \/ UNCHANGED sched
  BY <1>3 DEF Device, DeviceDone, Interrupt, extern_intr_handler, vioblk_isr, DispatchNext, Preempt,
              vars, sched
<1>. QED  BY <1>1, <1>2, <1>3, Conds DEF Next, Step

LEMMA NextPlaceKept ==
    ASSUME SchedTypeOK, OnePlace, [Next]_vars
    PROVE  OnePlace'
<1>1. CASE UNCHANGED sched
  BY <1>1, SamePlace DEF sched
<1>. QED  BY <1>1, NextSched, BlockPlace, WakePlace, HeadPlace

\* A lock that has been taken from its owner stays so.
LEMMA CrossedStays ==
    ASSUME [Next]_vars, ~crossed'
    PROVE  ~crossed
<1>1. ASSUME NEW t \in Threads, DriverStep(t) PROVE ~crossed
  BY <1>1 DEF DriverStep, vioblk_setpos, vioblk_acquire, vioblk_loop, vioblk_wait, Take
<1>2. ASSUME NEW t \in Threads,
             \/ \E i \in Inodes : fs_open(t, i)
             \/ \E p \in Sizes : fs_setpos(t, p)
             \/ \E n \in Sizes, op \in {"read", "write"} : fs_call(t, op, n)
             \/ fs_opened(t) \/ fs_open_failed(t) \/ fs_acquire(t) \/ fs_boot(t)
             \/ fs_length(t) \/ fs_block(t) \/ fs_data(t) \/ fs_onward(t) \/ fs_astray(t)
      PROVE  ~crossed
  BY <1>2 DEF fs_open, fs_setpos, fs_call, fs_opened, fs_open_failed, fs_acquire, fs_boot,
         fs_length, fs_block, fs_data, fs_onward, fs_astray, Take, vio
<1>3. ASSUME Device \/ Interrupt \/ DispatchNext \/ UNCHANGED vars \/ \E t \in Threads : Preempt(t)
      PROVE  ~crossed
  BY <1>3 DEF Device, DeviceDone, Interrupt, extern_intr_handler, DispatchNext, Preempt, vars, vio
<1>. QED  BY <1>1, <1>2, <1>3 DEF Next, Step

LEMMA NextKInv == IInv /\ KInv /\ [Next]_vars => KInv'
<1>. SUFFICES ASSUME IInv, KInv, [Next]_vars PROVE KInv'
  OBVIOUS
<1>1. SchedTypeOK /\ DeviceOK /\ OnePlace
  BY DEF IInv, KInv
<1>2. CASE crossed'
  BY <1>1, <1>2, NextPlaceKept DEF KInv
<1>3. CASE ~crossed'
  <2>0. FInv
    BY <1>3, CrossedStays DEF KInv
  <2>1. ASSUME NEW t \in Threads, DriverStep(t) PROVE KInv'
    BY <1>1, <1>3, <2>0, <2>1, SeekStep, BeginStep, LoopStep, WaitStep DEF DriverStep
  <2>2. ASSUME NEW t \in Threads, \/ \E i \in Inodes : fs_open(t, i)
                                  \/ \E p \in Sizes : fs_setpos(t, p)
                                  \/ \E n \in Sizes, op \in {"read", "write"} : fs_call(t, op, n)
        PROVE  KInv'
    BY <1>1, <2>0, <2>2, OpenStep, SetposStep, CallStep
  <2>3. ASSUME NEW t \in Threads, fs_opened(t) \/ fs_open_failed(t) \/ fs_acquire(t) \/ fs_boot(t)
        PROVE  KInv'
    BY <1>1, <1>3, <2>0, <2>3, OpenedStep, AcquireStep, BootStep
  <2>4. ASSUME NEW t \in Threads, fs_length(t) \/ fs_block(t) \/ fs_data(t) \/ fs_onward(t) \/ fs_astray(t)
        PROVE  KInv'
    BY <1>1, <2>0, <2>4, LengthStep, BlockStep, DataStep, OnwardStep
  <2>5. CASE Device \/ Interrupt \/ DispatchNext \/ \E t \in Threads : Preempt(t)
    BY <1>1, <2>0, <2>5, DeviceStep, InterruptStep, HartStep
  <2>6. CASE UNCHANGED vars
    <3>1. UNCHANGED <<running, ready, waiting, lock, dev, disk, call, job, fd>>
      BY <2>6 DEF vars, vio
    <3>2. OnePlace'
      BY <1>1, <3>1, SamePlace
    <3>. QED  BY <2>0, <3>1, <3>2, SchedStep
  <2>. QED  BY <2>1, <2>2, <2>3, <2>4, <2>5, <2>6 DEF Next, Step
<1>. QED  BY <1>2, <1>3

LEMMA FileInvariance == Spec => [](IInv /\ KInv)
  BY InitIInv, NextIInv, InitKInv, NextKInv, PTL DEF Spec

-----------------------------------------------------------------------------
(* What the calls do *)

\* The layout of the disk is that of the image.
LEMMA WordPlace ==
    ASSUME DiskOK, NEW i \in Inodes
    PROVE  /\ disk[InodeAt(i)] = FileLen(i)
           /\ \A p \in 0 .. FileLen(i) - 1 : WordAt(i, p) = Place(i, p)
<1>1. disk[InodeAt(i)] = FileLen(i)
  BY InodeFacts DEF DiskOK, FileLen
<1>2. ASSUME NEW p \in 0 .. FileLen(i) - 1 PROVE WordAt(i, p) = Place(i, p)
  <2>1. SpotAt(i, p) \in 0 .. DataStart - 1 /\ 1 \in 0 .. DataStart - 1
    BY InodeFacts, Numbers
  <2>2. disk[SpotAt(i, p)] = Image[SpotAt(i, p)] /\ disk[1] = Image[1]
    BY <2>1 DEF DiskOK
  <2>. QED  BY <2>2 DEF WordAt, Place, SpotAt
<1>. QED  BY <1>1, <1>2

\* Only the device changes the disk.
LEMMA DiskStill ==
    ASSUME [Next]_vars, ~Device
    PROVE  UNCHANGED disk
<1>1. ASSUME NEW t \in Threads, DriverStep(t) PROVE UNCHANGED disk
  BY <1>1 DEF DriverStep, vioblk_setpos, vioblk_acquire, vioblk_loop, vioblk_wait
<1>2. ASSUME NEW t \in Threads,
             \/ \E i \in Inodes : fs_open(t, i)
             \/ \E p \in Sizes : fs_setpos(t, p)
             \/ \E n \in Sizes, op \in {"read", "write"} : fs_call(t, op, n)
             \/ fs_opened(t) \/ fs_open_failed(t) \/ fs_acquire(t) \/ fs_boot(t)
             \/ fs_length(t) \/ fs_block(t) \/ fs_data(t) \/ fs_onward(t) \/ fs_astray(t)
      PROVE  UNCHANGED disk
  BY <1>2 DEF fs_open, fs_setpos, fs_call, fs_opened, fs_open_failed, fs_acquire, fs_boot,
         fs_length, fs_block, fs_data, fs_onward, fs_astray, vio
<1>3. ASSUME Interrupt \/ DispatchNext \/ UNCHANGED vars \/ \E t \in Threads : Preempt(t)
      PROVE  UNCHANGED disk
  BY <1>3 DEF Interrupt, extern_intr_handler, DispatchNext, Preempt, vars, vio
<1>. QED  BY <1>1, <1>2, <1>3 DEF Next, Step

\* A job comes back when its call is done, or was an fs_open.
LEMMA EndsStep ==
    ASSUME FInv, SchedTypeOK, OnePlace, [Next]_vars
    PROVE  Ends
<1>1. ASSUME NEW t \in Threads, fs_length(t) \/ fs_data(t) PROVE Ends
  BY <1>1, LengthStep, DataStep
<1>2. ASSUME NEW t \in Threads, fs_opened(t) \/ fs_open_failed(t) PROVE Ends
  <2>1. job[t].at = "open" /\ job' = [job EXCEPT ![t].at = "back"]
    BY <1>2 DEF fs_opened, fs_open_failed
  <2>2. job[t].op = "open" /\ Shapes
    BY <2>1, ThreadFacts DEF JobOK
  <2>. QED  BY <2>1, <2>2 DEF Ends, Shapes
<1>3. ASSUME UNCHANGED job PROVE Ends
  BY <1>3 DEF Ends
<1>4. ASSUME NEW t \in Threads, NEW r, r.at # "back", DOMAIN r = DOMAIN NoJob, job' = [job EXCEPT ![t] = r]
      PROVE  Ends
  <2>1. Shapes
    BY ThreadFacts, <1>4
  <2>2. job'[t] = r /\ \A u \in Threads \ {t} : job'[u] = job[u]
    BY <1>4, <2>1, JobSet
  <2>. QED  BY <1>4, <2>2 DEF Ends
<1>5. ASSUME NEW t \in Threads, NEW a, a # "back", job' = [job EXCEPT ![t].at = a] PROVE Ends
  <2>1. Shapes
    BY ThreadFacts, <1>5
  <2>2. Stays(job[t], job'[t], a) /\ \A u \in Threads \ {t} : job'[u] = job[u]
    BY <1>5, <2>1, JobAt
  <2>. QED  BY <1>5, <2>2 DEF Ends, Stays
<1>6. ASSUME NEW t \in Threads, NEW i \in Inodes, fs_open(t, i) PROVE Ends
  <2>. DEFINE r == [NoJob EXCEPT !.at = "open", !.inode = i]
  <2>1. r.at # "back" /\ DOMAIN r = DOMAIN NoJob /\ job' = [job EXCEPT ![t] = r]
    BY <1>6 DEF NoJob, fs_open
  <2>. HIDE DEF r
  <2>. QED  BY <1>4, <2>1
<1>7. ASSUME NEW t \in Threads, NEW n \in Sizes, NEW op \in {"read", "write"}, fs_call(t, op, n) PROVE Ends
  <2>. DEFINE r == [NoJob EXCEPT !.at = "lock", !.op = op, !.asked = n, !.inode = fd[t].inode, !.n = n]
  <2>1. r.at # "back" /\ DOMAIN r = DOMAIN NoJob /\ job' = [job EXCEPT ![t] = r]
    BY <1>7 DEF NoJob, fs_call
  <2>. HIDE DEF r
  <2>. QED  BY <1>4, <2>1
<1>8. ASSUME NEW t \in Threads, fs_acquire(t) \/ fs_block(t) PROVE Ends
  <2>1. \E a \in {"lock woken", "boot", "data"} : job' = [job EXCEPT ![t].at = a]
    BY <1>8 DEF fs_acquire, fs_block
  <2>. QED  BY <1>5, <2>1
<1>9. ASSUME NEW t \in Threads, fs_boot(t) PROVE Ends
  <2>. DEFINE j == job[t]
              r == [j EXCEPT !.at = "length", !.num_inodes = call[t].buf[1]]
  <2>1. job' = [job EXCEPT ![t] = r] /\ DOMAIN j = DOMAIN NoJob
    BY <1>9, ThreadFacts DEF fs_boot
  <2>. HIDE DEF j
  <2>2. r.at # "back" /\ DOMAIN r = DOMAIN NoJob
    BY <2>1 DEF NoJob
  <2>. HIDE DEF r
  <2>. QED  BY <1>4, <2>1, <2>2
<1>10. ASSUME NEW t \in Threads, \/ DriverStep(t) \/ fs_onward(t) \/ fs_astray(t) \/ Preempt(t)
                                 \/ \E p \in Sizes : fs_setpos(t, p)
       PROVE Ends
  BY <1>3, <1>10 DEF DriverStep, fs_onward, fs_astray, Preempt, fs_setpos
<1>11. ASSUME Device \/ Interrupt \/ DispatchNext \/ UNCHANGED vars PROVE Ends
  BY <1>3, <1>11 DEF Device, Interrupt, DispatchNext, vars
<1>. QED  BY <1>1, <1>2, <1>6, <1>7, <1>8, <1>9, <1>10, <1>11 DEF Next, Step

\* A write of vioblk_write merges the words of the caller into the sectors that
\* they are in, with the device's position and its buffer shared by all callers:
\* as long as no lock has been taken from its owner, a word of the disk changes only
\* for the thread inside kfs_lock, and only where its fs_write was asked to write.
THEOREM WriteSafety == Spec => OthersUntouched
<1>1. ASSUME IInv, KInv, [Next]_vars, ~crossed', NEW a \in DOMAIN disk, disk'[a] # disk[a]
      PROVE  \E t \in Threads : /\ lock.kfs = t /\ job[t].op = "write"
                                /\ \E p \in Target(job[t]) : a = WordAt(job[t].inode, p)
  <2>1. FInv /\ Device /\ DeviceOK
    BY <1>1, CrossedStays, DiskStill DEF KInv, IInv
  <2>2. /\ dev.pending # 0 /\ dev.type = "out"
        /\ disk' = [x \in DOMAIN disk |->
                      IF x \in dev.sector * blksz .. dev.sector * blksz + blksz - 1
                      THEN dev.blkbuf[x - dev.sector * blksz] ELSE disk[x]]
    BY <1>1, <2>1, DeviceFields DEF Device
  <2>3. PICK t \in Threads : call[t].at = "wait"
    BY <2>1, <2>2 DEF FInv, Requests
  <2>. DEFINE j == job[t]
  <2>4. DiskOK /\ a \in 0 .. size - 1
    BY <1>1, <2>1 DEF FInv, DiskOK
  <2>5. /\ lock.kfs = t /\ j.op = "write" /\ j.at = "data"
        /\ \E i \in 0 .. Total(j) - 1 : a = Place(j.inode, j.pos) + i
    <3>1. /\ lock.kfs = t /\ j.op = "write" /\ j.at = "data"
          /\ \A x \in 0 .. size - 1 : disk'[x] # disk[x] =>
                \E i \in 0 .. Total(j) - 1 : x = Place(j.inode, j.pos) + i
      BY <2>1, <2>2, <2>3, OutWords
    <3>. QED  BY <1>1, <2>4, <3>1
  <2>6. PICK i \in 0 .. Total(j) - 1 : a = Place(j.inode, j.pos) + i
    BY <2>5
  <2>7. JobOK(j, fd[t]) /\ Calling(j)
    BY <2>1, <2>5, ThreadFacts DEF Calling
  <2>8. a = Place(j.inode, j.pos + i) /\ j.pos + i \in 0 .. FileLen(j.inode) - 1
    BY <2>5, <2>6, <2>7, PlaceRun
  <2>9. j.inode \in Inodes /\ Total(j) \in Nat /\ Total(j) <= j.n
    BY <2>5, <2>7, PosFacts, TotalFacts
  <2>10. a = WordAt(j.inode, j.pos + i) /\ disk[InodeAt(j.inode)] = FileLen(j.inode)
    BY <2>4, <2>8, <2>9, WordPlace
  <2>11. j.pos + i \in Target(j)
    <3>. DEFINE e == Lower(j.asked, FileLen(j.inode) - j.start)
    <3>1. Target(j) = j.start .. j.start + e - 1
      BY <2>10 DEF Target
    <3>2. /\ j.n \in Nat /\ j.start \in Nat /\ j.count \in Nat /\ j.pos = j.start + j.count
          /\ j.pos + j.n = j.start + e /\ j.asked \in Nat
      BY <2>5, <2>7 DEF JobOK, Inside
    <3>3. e \in Int
      <4>1. FileLen(j.inode) - j.start \in Int
        BY <2>9, <3>2, InodeFacts
      <4>. QED  BY <3>2, <4>1, LowerFacts
    <3>. HIDE DEF e
    <3>4. ASSUME NEW s \in Nat, NEW x \in Nat, NEW n \in Nat, NEW T \in Nat, T <= n, NEW d \in Int,
                 (s + x) + n = s + d, NEW y \in 0 .. T - 1
          PROVE  (s + x) + y \in s .. s + d - 1
      BY <3>4
    <3>. QED  BY <2>9, <3>1, <3>2, <3>3, <3>4
  <2>. QED  BY <2>5, <2>10, <2>11
<1>2. IInv /\ KInv /\ [Next]_vars =>
        [~crossed' => \A a \in DOMAIN disk : disk'[a] # disk[a] =>
          \E t \in Threads : /\ lock.kfs = t /\ job[t].op = "write"
                             /\ \E p \in Target(job[t]) : a = WordAt(job[t].inode, p)]_vars
  BY <1>1
<1>. QED  BY <1>2, FileInvariance, PTL DEF Spec, OthersUntouched

\* fs_read and fs_write go through the blocks of the file one by one, with a call of
\* the driver for the number of a block and one for its words, any of which may
\* fail, while other threads wait for both locks: a call that returns has moved all
\* the words it was asked for, up to the end of the file, from or to the places of
\* its own file, and has left the position behind them, unless a lock has been taken
\* from its owner.
THEOREM JobSafety == Spec => CallDoesItsJob
<1>1. ASSUME IInv, KInv, [Next]_vars, NEW t \in Threads,
             job[t].at # "back", job'[t].at = "back", job[t].op # "open", ~crossed
      PROVE  LET j == job'[t]
                 n == Lower(j.asked, disk[InodeAt(j.inode)] - j.start)
             IN /\ j.count = n /\ fd'[t].file_pos = j.start + n
                /\ j.op = "read" => j.got = [k \in 1 .. n |-> disk[WordAt(j.inode, j.start + k - 1)]]
                /\ j.op = "write" => \A p \in Target(j) : disk[WordAt(j.inode, p)] = t
  <2>. DEFINE j == job'[t]
              l == FileLen(j.inode)
              s == j.start
              n == Lower(j.asked, l - s)
  <2>1. FInv /\ SchedTypeOK /\ OnePlace
    BY <1>1 DEF KInv, IInv
  <2>2. Ended(t) /\ DiskOK
    BY <1>1, <2>1, EndsStep DEF Ends, FInv
  <2>3. /\ j.op \in {"read", "write"} /\ j.inode \in Inodes /\ s \in Nat /\ j.asked \in Nat
        /\ j.count = n /\ fd'[t].file_pos = s + n /\ Got(disk, t, j)
    BY <2>2 DEF Ended
  <2>4. l \in Nat /\ disk[InodeAt(j.inode)] = l /\ \A p \in 0 .. l - 1 : WordAt(j.inode, p) = Place(j.inode, p)
    BY <2>2, <2>3, InodeFacts, WordPlace
  <2>5. n \in Int /\ n <= l - s
    <3>1. l - s \in Int /\ j.asked \in Int
      BY <2>3, <2>4
    <3>. QED  BY <3>1, LowerFacts
  <2>6. n = Lower(j.asked, disk[InodeAt(j.inode)] - j.start) /\ Target(j) = s .. s + n - 1
    BY <2>4 DEF Target
  <2>7. /\ j.op = "read" => j.got = [k \in 1 .. n |-> disk[Place(j.inode, s + k - 1)]]
        /\ j.op = "write" => \A k \in 1 .. n : disk[Place(j.inode, s + k - 1)] = t
    BY <2>3 DEF Got
  <2>. DEFINE i == j.inode
  <2>8. i = j.inode /\ s = j.start
    OBVIOUS
  <2>. HIDE DEF j, l, s, n, i
  <2>9. \A k \in 1 .. n : s + k - 1 \in 0 .. l - 1 /\ WordAt(i, s + k - 1) = Place(i, s + k - 1)
    <3>1. \A k \in 1 .. n : s + k - 1 \in 0 .. l - 1
      BY <2>3, <2>4, <2>5
    <3>. QED  BY <2>4, <2>8, <3>1
  <2>10. j.op = "read" => j.got = [k \in 1 .. n |-> disk[WordAt(i, s + k - 1)]]
    BY <2>7, <2>8, <2>9
  <2>11. ASSUME j.op = "write", NEW p \in Target(j) PROVE disk[WordAt(i, p)] = t
    <3>1. (p - s) + 1 \in 1 .. n /\ s + ((p - s) + 1) - 1 = p
      BY <2>3, <2>5, <2>6, <2>11
    <3>2. disk[Place(i, s + ((p - s) + 1) - 1)] = t
      BY <2>7, <2>8, <2>11, <3>1
    <3>3. WordAt(i, s + ((p - s) + 1) - 1) = Place(i, s + ((p - s) + 1) - 1)
      BY <2>9, <3>1
    <3>. QED  BY <3>1, <3>2, <3>3
  <2>. QED  BY <2>3, <2>6, <2>8, <2>10, <2>11 DEF j, s, i
<1>2. IInv /\ KInv /\ [Next]_vars =>
        [\A t \in Threads :
         job[t].at # "back" /\ job'[t].at = "back" /\ job[t].op # "open" /\ ~crossed =>
            LET j == job'[t]
                n == Lower(j.asked, disk[InodeAt(j.inode)] - j.start)
            IN /\ j.count = n /\ fd'[t].file_pos = j.start + n
               /\ j.op = "read" => j.got = [k \in 1 .. n |-> disk[WordAt(j.inode, j.start + k - 1)]]
               /\ j.op = "write" => \A p \in Target(j) : disk[WordAt(j.inode, p)] = t]_vars
  BY <1>1
<1>. QED  BY <1>2, FileInvariance, PTL DEF Spec, CallDoesItsJob
=============================================================================

-------------------------------- MODULE Kfs ---------------------------------
(***************************************************************************)
(* The file system, kern/kfs.c, on the block driver.  The disk holds a     *)
(* boot block, a block for each inode and the data blocks, of FS_BLKSZ     *)
(* words each; word 1 of the boot block is the number of inodes, the words *)
(* of an inode are the length of the file and the numbers of its blocks.   *)
(* Every thread has one open file.                                         *)
(***************************************************************************)
EXTENDS VioBlk, FiniteSets

CONSTANTS
    FS_BLKSZ,   \* words of a file system block
    Sizes,      \* bound: how many words a call may ask for
    MaxCalls    \* bound: calls

ASSUME KfsAssumption ==
    /\ FS_BLKSZ \in Nat \ {0} /\ FS_BLKSZ % blksz = 0
    /\ Sizes \subseteq Nat
    /\ IsFiniteSet(Threads) /\ First \in Threads

VARIABLES
    fd,      \* the open file of each thread
    job,     \* the call of the file system that each thread is in, or made last
    calls    \* calls so far

vars == <<running, ready, waiting, life, vio, fd, job, calls>>

InodeAt(i) == FS_BLKSZ * (1 + i)
Inodes == 0 .. Image[1] - 1

\* The disk holds a file system as mkfs makes it: there is a file, the inodes
\* are on the disk, and a file has no more blocks than its inode has numbers.
ASSUME ImageAssumption ==
    /\ FS_BLKSZ > 1 /\ Image[1] \in Nat \ {0} /\ FS_BLKSZ * (1 + Image[1]) <= size
    /\ \A i \in Inodes : Image[InodeAt(i)] <= FS_BLKSZ * (FS_BLKSZ - 1)

\* A job is "back" when its call has returned, and then got and count are what
\* it returned.
NoJob == [at |-> "back", op |-> "open", inode |-> 0, n |-> 0, pos |-> 0, start |-> 0,
          asked |-> 0, num_inodes |-> 0, spot |-> 0, count |-> 0, got |-> << >>]

Init ==
    /\ VioInit
    /\ running = First
    /\ ready \in {s \in [1 .. Cardinality(Threads) - 1 -> Threads \ {First}] :
                    \A i, j \in DOMAIN s : s[i] = s[j] => i = j}
    /\ waiting = [c \in Conditions |-> << >>]
    /\ life = [t \in Threads |-> "live"]
    /\ \E pos \in [Threads -> {0} \cup Sizes] :
         fd = [t \in Threads |-> [inode |-> 0, file_pos |-> pos[t],
                                  file_size |-> Image[InodeAt(0)]]]
    /\ job = [t \in Threads |-> NoJob]
    /\ calls = 0

\* A thread calls the file system; once a call has failed or a lock has been
\* taken from its owner, the calls that have begun are followed to their end.
Enter(t) ==
    /\ running = t /\ job[t].at = "back"
    /\ calls < MaxCalls /\ ~failed /\ ~crossed
    /\ calls' = calls + 1

\* fs_open: the file's length is read without kfs_lock.
fs_open(t, i) ==
    /\ Enter(t)
    /\ job' = [job EXCEPT ![t] = [NoJob EXCEPT !.at = "open", !.inode = i]]
    /\ Begin(t, "in", InodeAt(i), 1, << >>)
    /\ UNCHANGED <<sched, lock, dev, disk, plic, crossed, failed, fd>>

\* fs_open, when the length is there.
fs_opened(t) ==
    /\ At(t, {"return"}) /\ job[t].at = "open" /\ call[t].buf # << >>
    /\ fd' = [fd EXCEPT ![t] = [inode |-> job[t].inode, file_pos |-> 0,
                                file_size |-> call[t].buf[1]]]
    /\ job' = [job EXCEPT ![t].at = "back"]
    /\ call' = [call EXCEPT ![t] = NoCall]
    /\ UNCHANGED <<sched, lock, dev, disk, plic, crossed, failed, calls>>

\* fs_open, when it is not: an error, with vio_lock held if the device has failed.
fs_open_failed(t) ==
    /\ At(t, {"return"}) /\ job[t].at = "open" /\ call[t].buf = << >>
    /\ job' = [job EXCEPT ![t].at = "back"]
    /\ call' = [call EXCEPT ![t] = NoCall]
    /\ UNCHANGED <<sched, lock, dev, disk, plic, crossed, failed, fd, calls>>

\* fs_setpos.
fs_setpos(t, p) ==
    /\ Enter(t)
    /\ p <= fd[t].file_size
    /\ fd' = [fd EXCEPT ![t].file_pos = p]
    /\ UNCHANGED <<sched, vio, job>>

\* fs_read and fs_write are entered.
fs_call(t, op, n) ==
    /\ Enter(t)
    /\ job' = [job EXCEPT ![t] = [NoJob EXCEPT !.at = "lock", !.op = op, !.asked = n,
                                    !.inode = fd[t].inode, !.n = n]]
    /\ UNCHANGED <<sched, vio, fd>>

\* lock_acquire of kfs_lock; then the number of inodes is read.
fs_acquire(t) ==
    /\ running = t /\ job[t].at \in {"lock", "lock woken"}
    /\ LET woken == job[t].at = "lock woken" IN
       \/ /\ WaitFor("kfs", woken)
          /\ job' = [job EXCEPT ![t].at = "lock woken"]
          /\ UNCHANGED <<lock, call, crossed>>
       \/ /\ Take("kfs", t, woken)
          /\ lock' = [lock EXCEPT !.kfs = t]
          /\ job' = [job EXCEPT ![t].at = "boot"]
          /\ Begin(t, "in", 1, 1, << >>)
          /\ UNCHANGED sched
    /\ UNCHANGED <<dev, disk, plic, failed, fd, calls>>

\* The number of inodes is there; the inode is next.
fs_boot(t) ==
    /\ At(t, {"return"}) /\ job[t].at = "boot" /\ call[t].buf # << >>
    /\ job' = [job EXCEPT ![t].at = "length", ![t].num_inodes = call[t].buf[1]]
    /\ Begin(t, "in", InodeAt(job[t].inode), 1, << >>)
    /\ UNCHANGED <<sched, lock, dev, disk, plic, crossed, failed, fd, calls>>

\* The loop of fs_read and fs_write: the number of the next block is read, or
\* the call returns.
NextBlock(t, j) ==
    \/ /\ j.n > 0
       /\ job' = [job EXCEPT ![t] = [j EXCEPT !.at = "block"]]
       /\ Begin(t, "in", InodeAt(j.inode) + 1 + (j.pos \div FS_BLKSZ), 1, << >>)
       /\ UNCHANGED <<sched, lock>>
    \/ /\ j.n = 0
       /\ job' = [job EXCEPT ![t] = [j EXCEPT !.at = "back"]]
       /\ call' = [call EXCEPT ![t] = NoCall]
       /\ lock' = [lock EXCEPT !.kfs = UNLOCKED]
       /\ Wake("kfs")

\* A mutant: the end of the file is not the end of the call.
Clamped_Not(asked, pos, length) == asked

\* No more than there is.
Clamped(asked, pos, length) == IF pos + asked > length THEN length - pos ELSE asked

\* The length is there; less than the position it can be only when another
\* thread has moved the device's position, and the call then goes astray.
fs_length(t) ==
    /\ At(t, {"return"}) /\ job[t].at = "length" /\ call[t].buf # << >>
    /\ LET p == fd[t].file_pos
           n == Clamped(job[t].asked, p, call[t].buf[1])
       IN \/ /\ n >= 0
             /\ NextBlock(t, [job[t] EXCEPT !.n = n, !.pos = p, !.start = p])
             /\ UNCHANGED failed
          \/ /\ n < 0
             /\ call' = [call EXCEPT ![t].at = "astray"]
             /\ failed' = TRUE
             /\ UNCHANGED <<job, sched, lock>>
    /\ UNCHANGED <<dev, disk, plic, crossed, fd, calls>>

\* A mutant: the position in the block is left out.
DataAt_Start(j, spot) == FS_BLKSZ * (1 + j.num_inodes + spot)

\* Where the next words of the file are.
DataAt(j, spot) == FS_BLKSZ * (1 + j.num_inodes + spot) + (j.pos % FS_BLKSZ)

\* The number of the block is there.  Only half of blockSpot is read, the rest
\* is what was on the stack: the number is right, or far outside the disk.
fs_block(t) ==
    /\ At(t, {"return"}) /\ job[t].at = "block" /\ call[t].buf # << >>
    /\ LET n == Lower(FS_BLKSZ - (job[t].pos % FS_BLKSZ), job[t].n) IN
       \E p \in {DataAt(job[t], call[t].buf[1]), size + 1} :
         Begin(t, IF job[t].op = "read" THEN "in" ELSE "out", p, n,
               IF job[t].op = "read" THEN << >> ELSE [i \in 1 .. n |-> t])
    /\ job' = [job EXCEPT ![t].at = "data"]
    /\ UNCHANGED <<sched, lock, dev, disk, plic, crossed, failed, fd, calls>>

\* The data are there, or on the disk; the file's position follows.
fs_data(t) ==
    /\ At(t, {"return"}) /\ job[t].at = "data" /\ call[t].n = 0 /\ lock.vio # t
    /\ LET n == Lower(FS_BLKSZ - (job[t].pos % FS_BLKSZ), job[t].n)
           p == job[t].pos + n
       IN /\ fd' = IF p <= fd[t].file_size THEN [fd EXCEPT ![t].file_pos = p] ELSE fd
          /\ NextBlock(t, [job[t] EXCEPT !.n = @ - n, !.pos = p, !.count = @ + n,
                                         !.got = @ \o call[t].buf])
    /\ UNCHANGED <<dev, disk, plic, crossed, failed, calls>>

\* After a failed transfer fs_read and fs_write go on, to seek with vio_lock held.
fs_onward(t) ==
    /\ At(t, {"return"}) /\ job[t].at # "open" /\ lock.vio = t
    /\ call' = [call EXCEPT ![t].at = "seek"]
    /\ UNCHANGED <<sched, lock, dev, disk, plic, crossed, failed, fd, job, calls>>

\* After a transfer that has failed or stopped short without the lock (another
\* thread has taken it, and may have moved the position to the end of the disk)
\* fs_read and fs_write go on too, with a word that nobody has set, with -EIO for
\* a count, or from where a short transfer stopped; they are not followed.
fs_astray(t) ==
    /\ At(t, {"return"}) /\ job[t].at # "open" /\ lock.vio # t /\ call[t].n > 0
    /\ call' = [call EXCEPT ![t].at = "astray"]
    /\ failed' = TRUE
    /\ UNCHANGED <<sched, lock, dev, disk, plic, crossed, fd, job, calls>>

\* A thread in user mode is preempted.
Preempt(t) ==
    /\ running = t /\ job[t].at = "back"
    /\ YieldHart
    /\ UNCHANGED <<vio, fd, job, calls>>

DriverStep(t) ==
    /\ vioblk_setpos(t) \/ vioblk_acquire(t) \/ vioblk_loop(t) \/ vioblk_wait(t)
    /\ UNCHANGED <<fd, job, calls>>

Step(t) ==
    \/ DriverStep(t)
    \/ fs_opened(t) \/ fs_open_failed(t) \/ fs_acquire(t) \/ fs_boot(t) \/ fs_length(t) \/ fs_block(t)
    \/ fs_data(t) \/ fs_onward(t) \/ fs_astray(t)

Device == DeviceDone /\ UNCHANGED <<fd, job, calls>>
Interrupt == extern_intr_handler /\ UNCHANGED <<fd, job, calls>>
DispatchNext == Dispatch /\ UNCHANGED <<vio, fd, job, calls>>

Next ==
    \/ \E t \in Threads :
         \/ \E i \in Inodes : fs_open(t, i)
         \/ \E p \in Sizes : fs_setpos(t, p)
         \/ \E n \in Sizes, op \in {"read", "write"} : fs_call(t, op, n)
         \/ Step(t) \/ Preempt(t)
    \/ Device \/ Interrupt \/ DispatchNext

\* Threads go on while they have the hart, the device answers, interrupts are
\* taken.
Fairness ==
    /\ \A t \in Threads : WF_vars(Step(t))
    /\ WF_vars(Device) /\ WF_vars(Interrupt) /\ WF_vars(DispatchNext)

Spec == Init /\ [][Next]_vars /\ Fairness

-----------------------------------------------------------------------------
\* Where word p of a file is, by the layout of the disk.
WordAt(i, p) ==
    FS_BLKSZ * (1 + disk[1] + disk[InodeAt(i) + 1 + (p \div FS_BLKSZ)])
        + (p % FS_BLKSZ)

\* The words that a call was for.
Target(j) ==
    j.start .. j.start + Lower(j.asked, disk[InodeAt(j.inode)] - j.start) - 1

\* fs_read returns the words of its file from its position on, to the end of
\* the file at most, across sectors and blocks; fs_write has put its words
\* there; neither stops short.  It holds until a lock is taken from its owner.
CallDoesItsJob ==
    [][\A t \in Threads :
         job[t].at # "back" /\ job'[t].at = "back" /\ job[t].op # "open" /\ ~crossed =>
            LET j == job'[t]
                n == Lower(j.asked, disk[InodeAt(j.inode)] - j.start)
            IN /\ j.count = n /\ fd'[t].file_pos = j.start + n
               /\ j.op = "read" => j.got = [k \in 1 .. n |-> disk[WordAt(j.inode, j.start + k - 1)]]
               /\ j.op = "write" => \A p \in Target(j) : disk[WordAt(j.inode, p)] = t]_vars

\* A write leaves every other word of the disk as it was: the rest of the
\* sectors it touches, the other file, the inodes.
OthersUntouched ==
    [][~crossed' => \A a \in DOMAIN disk : disk'[a] # disk[a] =>
          \E t \in Threads : /\ lock.kfs = t /\ job[t].op = "write"
                             /\ \E p \in Target(job[t]) : a = WordAt(job[t].inode, p)]_vars

\* No completion is missed: a thread that sleeps on used_updated has a request
\* out, or an interrupt that will wake it.
CompletionSeen ==
    waiting["used"] # << >> => dev.pending > 0 \/ (dev.interrupt_status # 0 /\ ~plic.serving)

\* If no thread keeps the hart for ever, every call returns, whatever the
\* order of the threads, unless the device or a seek has failed.
CallReturns ==
    (\A u \in Threads : []<>(running # u)) =>
        \A t \in Threads : job[t].at # "back" ~> job[t].at = "back" \/ failed
=============================================================================

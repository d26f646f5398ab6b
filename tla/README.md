# A TLA+ verification project for the ECE 391 kernel

The repository is a small teaching operating system for one RISC-V hart
(`src/src/kern`), with user programs (`src/src/user`) and a host tool that makes
its file system (`src/src/util`). This directory models the kernel in TLA+,
checks the models with TLC on small instances, and proves with TLAPS, for every
value of the constants, the main properties of the thread manager, that it
implements its abstract specification, and the safety of the lock, the serial
driver, the timer, the wait for the block device, the memory manager, the reference
counts and the terminal.

## 1. Inventory

| Component | State | Operations | Interacts with |
|---|---|---|---|
| Thread manager (`thread.c`, `thrasm.s`) | `thrtab`, thread states and parents, `ready_list`, one wait list per condition, saved contexts, `tp` | spawn, exit, yield, join, join_any, condition_wait, condition_broadcast, suspend_self, recycle_thread, idle loop | called by all; ISRs broadcast; interrupts from user mode yield |
| Traps and interrupts (`trapasm.s`, `intr.c`, `excp.c`, `plic.c`) | `sstatus.SIE`, `stvec`, `sscratch`, trap frames, `isrtab` | trap entry and exit from S, U and M mode, intr_handler, dispatch to ISRs | every driver, thread manager |
| Sleep lock (`lock.h`) | `tid`, a condition | acquire, release | `kfs.c`, `vioblk.c` |
| Serial driver (`uart.c`) | two ring buffers, `ier`, reference count | open, close, read, write, ISR | thread manager, 16550 |
| Timer (`timer.c`, M-mode trap) | `sleep_list`, `next_tick`, `mtime`, `mtcmp`, STIP, MTIE | alarm_init, alarm_reset, alarm_sleep, timer_intr_handler | thread manager, `sysusleep` |
| Block driver (`vioblk.c`, `virtio.c`) | virtqueue indices, block buffer, position, lock | open, close, read, write, ioctl, ISR | lock, thread manager, device |
| File system (`kfs.c`) | open file table, positions, boot block, lock | mount, open, close, read, write, ioctl | block driver, lock |
| Memory manager (`memory.c`) | page free list, page tables, active space | alloc, free, map, unmap, reclaim, clone, switch, page fault | process manager, threads (stacks) |
| Processes and system calls (`process.c`, `syscall.c`) | `proctab`, `iotab` per process | exec, exit, fork; open, close, read, write, ioctl, wait, usleep | all of the above |
| I/O (`io.c`, `io.h`) | reference counts, positions of memory files, line discipline state | ioref, ioclose, ioread_full, iowrite, iolit, ioterm | drivers, system calls |
| ELF loader (`elf.c`), devices (`device.c`), heap (`ezheap.c`), console, strings | tables and buffers | straight-line code | |

What is hard in this code is concurrency without preemption: kernel code runs
until it waits, but an ISR may run between any two instructions while `SIE` is
set, and user code is preempted by every interrupt. The questions are lost
wakeups (a test and a wait that are not atomic), list links used by two lists,
contexts that are used before they are written, read-modify-writes of device
registers against the ISR, positions that wrap, a pending interrupt that is
cleared, locks that are taken on a stale look or never released, shared
positions, stale page table entries and reference counts. `PROJECT.json` lists
them as hazards, at their lines, with the properties that would catch them.

What makes each component correct: *threads*: lists agree with states, one
RUNNING thread, no assert fails, no exit is missed, nobody starves. *Lock*:
exclusion, no forgotten waiter. *Serial driver*: no sleeper with work to do, both
buffers are queues, interrupts never left off. *Timer*: list in order, timer
armed for its head, every alarm rings and none early. *Block driver and file
system*: a read returns the bytes of its own file, the lock is free when nobody
is inside. *Memory*: a page is free or used once. *Processes*: a device is closed
exactly when its last descriptor goes.

## 2. Modules

```
Scheduler  <---- implements ----  Thread  (ThreadRefinement)
   ^  ^  ^  ^
   |  |  |  +-- Timer
   |  |  +----- Uart ---- RingBuf,   Uart  -- implements --> ByteQueue (twice)
   |  +-------- Lock
   +----------- VioBlk <-- Kfs

Memory <-- Process           IoTerm

ThreadProofs, ProcessProofs, IoTermProofs    SchedulerProofs <-- LockProofs,
                                             UartProofs, TimerProofs, KfsProofs
```

**Thread** is `thread.c` with `thrasm.s` and `intr_handler`. A thread is its slot
of `thrtab`; a `thread_list` is a sequence. `pc[t]` is where thread `t` stands in
the code, `tp` whose registers are in the hart, and a step is the code between
two points at which an interrupt can be taken and its outcome can matter: for
instance condition_wait is `BeginWait` (state and `wait_cond` are stored with
whatever `SIE` the caller has), `EnterWaitList` (the insertion, masked), then
suspend_self as `PickNext` (masked; ends in `intr_enable`), `Swtch` and `Resume`.
`Call` is what the rest of the kernel may ask for at any time: spawn, exit,
yield, join, join_any, a driver's wait (interrupts off), a lock's wait and
release, user mode and system calls. `Raise` and `Interrupt` are devices and ISRs.
A failed assert or a panic sets `halted` and stops the machine, so that "no assert
fails" is an invariant. `SIE` and the `saved_intr_state` of suspend_self are kept:
a thread may be resumed with interrupts on or off. A driver that waits puts back the
`SIE` it had before it masked interrupts, in the step in which it is resumed.

**Scheduler** is what the thread manager promises: one running thread, FIFO
dispatch, broadcasts that wake everybody in order. **ThreadRefinement** gives the
mapping: a thread counts as running from the moment suspend_self picks it and as
waiting from the moment condition_wait marks it; the idle thread is hidden
(`WithoutIdle` cuts it out of the ready list, `Lives` out of the states). The
driver modules extend Scheduler and use its actions `Block`, `Wake`, `YieldHart`,
`Dispatch`, so they rest on the run that shows the refinement.

**Lock** is `lock.h` and clients that may wait for a device between acquire and
release, as `vioblk_read` does.

**RingBuf** has the buffer operations with their 16-bit positions (`POSBITS`);
`rbuf_put` and `rbuf_get` are split into their two memory accesses for threads and
whole for the ISR. **Uart** is the driver: threads that open, share (a forked
process gets the references of its parent), close, read and write; `ier |= bit` is
a load and a store; the ISR runs wherever interrupts are on. The 16550 is external:
one receive byte (an unread one is overwritten) and one transmit byte.
**ByteQueue** is the bounded FIFO that both buffers must implement.

**Timer** is `timer.c` with the M-mode trap: the machine interrupt sets STIP and
clears MTIE, an ecall does the opposite. alarm_sleep reads the clock and computes
the time to wake in one step, and inserts the alarm and waits in another; the
clock and the handler may come between.

**VioBlk** is the block driver: the position, the one request and the one block
buffer that all callers share, `vio_lock` with the code of `lock.h`, the sector that
is read before it is written in part, the wait for the device, and the early returns
that keep the lock. The disk is an array of words (a word is the 4 bytes of a block
number). The device is external: it serves the request that is in the header when
it gets to it, and it may report an error. The interrupt goes by way of the PLIC
(claim, ISR, completion). A call computes its sector, offset and count before it waits and uses
them after it: `from` is the position they were computed for, which is no longer the
device's once another thread has moved it. **Kfs** puts `kfs.c` on top: `fs_read` and `fs_write` read the
boot block, the inode, the number of the block and the data, each with a seek and a
transfer that both take `vio_lock`; `fs_open` does so without `kfs_lock`. Half of
`blockSpot` is not initialised, so the number that `fs_block` seeks to is the right one
or one far outside the disk. The lock does not exclude (section 4), so `crossed` records
that a lock has been taken from its owner, and `failed` that a call has returned with
its lock held or with less than it was asked for (`fs_astray`): the properties that follow from
exclusion hold until then, and no new call starts after it.

**Memory** is `memory.c` and `ezheap.c` as operators on one record. What the manager
knows is kept in the pages: a free page holds the link of the list in its first word, a
table its entries, a user page data; a page put to two uses is therefore corrupted in
the model as it is on the machine. `stop` is "panic" where the code panics and "wild"
where it follows a word that is no pointer. **Process** is `process.c`, `syscall.c`, the
loader and the faults on top of it, with the interfaces that descriptors name: one
slot of `fileArray` per open file, and the serial device. `process_fork` starts no
thread (the call is commented out): the process goes on in the copy, and
`suspend_self` puts it back into its own space, `main_pt2`, when it has been suspended;
`MaySleep` is that choice, for every call that may wait. `process_exec` goes to user mode
even when `elf_load` has failed. `stale` records that unmapping has left entries behind,
`misclosed` that `fs_close` has freed the slot of another file or a slot was reused,
`meant` the file a descriptor was opened for.

**IoTerm** is the terminal of `io.c` on a UART or on an `io_lit`. A step is one call of
`ops->write` or `ops->read`, or one key of `ioterm_getsn`; inside it the scan over the
buffer is a fold, one application per character. The histories `taken`, `got`, `written`
and `tx` are compared with the definition in the comment at `io.c:115`, which speaks of
characters and their neighbours and has no state. Lines are edited on a UART only:
on a literal the editor would read its own echo. Keys are printable, line ends,
deletions and `[`. ioterm_close closes the raw interface when its count gets to zero, and iolit_init
never sets the count of a literal, so closing it is a choice (`ioclose`).

MC modules only extend a specification; the `.cfg` files give the constants.

## 3. Runs

| Run | Instance | States | Shows |
|---|---|---|---|
| `thread` | 4 slots (main, idle, two more), 3 stack pages, one ISR condition, one lock condition | 686,904 | the invariants of the thread manager, `ExitedIsFinal`, the refinement of Scheduler, `ReadyRuns` |
| `swtch_result` | 3 slots | violation | the result of `_thread_swtch` is the resumed thread |
| `lock` | 3 clients | 744 | no waiter is forgotten; `tid` never stale; every waiter gets in |
| `lock_exclusion` | 2 clients | violation | two clients inside at once |
| `uart` | 2 threads, rings of 1 byte, writes and reads of up to 2 | 80,800 | no lost wakeup, enable bits, liveness of readers and writers |
| `uart_fifo` | 1 thread and the ISR, rings of 2 bytes, 2-bit positions, 2 byte values | 2,108,852 | both buffers are FIFO queues |
| `timer` | 3 sleepers, tick every 3, clock to 6, a count that overflows | 233,508 | list, arming, no early wake, every alarm rings |
| `timer_first_period` | 1 sleeper | violation | an alarm before the first tick is late |
| `process` | 11 pages, tables of 2 entries (4 user pages), 2 descriptors, 3 file slots, 2 executables, 4 calls or faults | 341,825 | one use per page, separate spaces, fork keeps memory, counts cover descriptors, descriptors keep their file |
| `stale_mapping` | 12 pages, 2 file slots | violation | the pages of the old program stay mapped after exec |
| `kfs` | 2 threads, sectors of 2 words, blocks of 4, files of 5 words (two blocks) and 1 word, calls of 3 words, 2 calls | 229,709 | transfers across sectors and blocks, nothing else touched, no completion missed, calls return |
| `ioterm` | buffers of up to 3 characters, 5 bytes in and out, lines of up to 3 | 640,439 | line endings in every cut of the stream, editor and screen agree |

*Bounds.* Four slots give a parent, a child and a grandchild besides idle (join,
reparenting, two exits at once); three pages let a slot be reused while another
thread is alive, and then run out. The lock needs three clients for an owner, a
woken waiter and a newcomer. Two threads share the port, so that one can be
inside while the other sleeps; kernel code is not preempted, so the buffers
themselves only ever see one thread and the ISR, and that is the instance
`uart_fifo` takes, with positions that wrap after four bytes. Three alarms give
an insertion at the head, in the middle and at the tail. The clock is bounded by
`MaxClock`; when it stops and everybody sleeps the timer model has no step, hence
`CHECK_DEADLOCK FALSE` there. The four newer runs bound the calls a program makes, so
they end too, and so does a kernel that has panicked.

Eleven pages are enough for two spaces with tables and pages, a page of the heap and
an exec on top, and are few enough to run out; four calls allow open, fork, close,
exec, or two opens with a close between them and a third. Two words per page table
give mapped and unmapped neighbours at both levels. With `MaxCalls` 2 each thread can
be inside the file system while the other starts; the initial positions 0 and 3 make
calls that end inside a block, cross a block and run into the end of the file. Five
bytes are enough for a `\r` at the end of one call, a `\n` at the start of the next and
text on both sides.

*Fairness.* The hart executes the code it is in (weak fairness of the steps inside
the thread manager or a driver, and of `Dispatch`), the transmitter sends, the
clock ticks. A pending interrupt is taken the first time interrupts are on: strong
fairness in Uart and Timer, where masked stretches come and go. Nothing is
assumed about callers. `ReadyRuns` therefore has a premise: threads keep coming
back to the thread manager (kernel code is not preempted, so a thread that loops in
the kernel does starve the rest). `WaiterGetsLock` has the same premise for the
hart, and assumes that a client that holds the lock releases it. In Kfs the device
answers and the interrupt, which nothing masks for ever, is taken; `CallReturns` has the
premise that no thread keeps the hart, and excepts runs in which the device or a seek
has failed, since the lock then stays taken.

*Mutants.* Every property of a passing run has a mutant of a mapped definition
that breaks it; they stand before the definition they change, marked "A mutant".

## 4. Findings

* `_thread_swtch` leaves its argument in `a0`, so `prev_thread` in suspend_self is
  the current thread and the stack of an exited thread is never freed
  (`thrasm.s:61` says "Returns a pointer to the previously-scheduled thread").
* lock_acquire takes the lock after one wait without looking again; lock_release
  wakes all waiters: no mutual exclusion (`lock.h:67`).
* `next_tick` is zero until the first tick, so an alarm in the first period does
  not set `mtcmp` (`timer.c:91`).
* memory_unmap_and_free_user clears the V flag in a copy of the entry: the pages are
  freed and stay mapped, in the program that exec starts next (`memory.c:658`,
  `memory.h:128` "Unmaps and frees all pages with the U bit set in the PTE flags").

Met while modelling, part of the models as the code has them, and without a run:

* A store page fault is handled at the stack pointer instead of `stval` (`excp.c:83`).
* `fs_close` frees the entry opened last (`kfs.c:207`); with no free entry `fs_open` uses
  an uninitialised index (`kfs.c:119`). `DescriptorKeepsFile` holds up to that point.
* `sysdevopen` with a negative descriptor refuses whenever descriptor 0 is taken: the
  test at `syscall.c:241` is the wrong way round.
* After a `\r` that ended a call, a call that starts with `\n` writes its last byte twice,
  and ioprintf stops (`io.c:550`); `LineEndingsNormalised` excepts just these.
* The "escape" of ioterm_getsn is `'\133'`, octal for `[`: that key is swallowed
  (`io.c:221`).

## 5. Proofs

Every theorem below holds for every value of the constants that meets the named
assumptions of its module; the assumptions are evaluated by TLC in the runs. 34 of
the 40 properties that the passing runs check are theorems.

| Module | Theorems | Any |
|---|---|---|
| `ThreadProofs` | `TypeOK`, `NoAssertFails`, `ListsMatchStates`, `OneRunning`, `ContextReady`, `NoSleepOnWork`, `NoMissedExit`, `ThreadTree`, `ExitedIsFinal`, `ImplementsScheduler` | `NTHR >= 2`, number of pages, conditions |
| `LockProofs` | `TypeOK`, `NoSleeperOnFreeLock`, `OwnerIsInside` | finite set of clients |
| `UartProofs` | `TypeOK`, `NoSleepingReader`, `NoSleepingWriter`, `ReceiveEnabled`, `TransmitEnabled`, `RxFifo`, `TxFifo` | finite set of threads, ring size, width of the positions, bytes |
| `TimerProofs` | `TypeOK`, `SleepListMatches`, `AlarmsArmed`, `NoEarlyWake` | finite set of sleepers, tick, clock bound below the largest count |
| `KfsProofs` | `CompletionSeen`, `CallDoesItsJob`, `OthersUntouched` | finite set of threads, disk with a file system on it, sector and block size, lengths and positions |
| `ProcessProofs` | `CountCoversDescriptors`, `DescriptorKeepsFile`, `OneUsePerPage`, `SpacesAreSeparate`, `ForkKeepsMemory` | sizes of `proctab`, `iotab`, `fileArray`, files, number of pages, entries of a table, room on the heap |
| `IoTermProofs` | `LineEndingsNormalised`, `ScreenShowsLine` | characters, buffers, literal, lengths |

*Assumptions.* Sets of threads are finite (`thrtab` is an array), `Nobody` is no thread,
a ring is smaller than the range of its positions and divides it (`RBUFSZ` is 64 and
positions have 16 bits), sectors divide blocks, the main thread is one of the threads.
The disk of Kfs is one that `mkfs` has made (`ImageAssumption`): at least one file, the inodes on
the disk, no file longer than the block numbers of its inode reach. Nothing is assumed of the
block numbers themselves: two files may share a block, or name one that is not there.
The segments of an executable lie in the user region (`elf_load` refuses others) and are no
longer in the file than in memory (as the ELF format has it; `elf_load` does not look). Buffers and the literal hold characters that the
model has, and the printable ones are none of those that the terminal treats specially.
`SchedulerProofs` has no theorem of its own: it has the types of the actions of
Scheduler, what appending, taking the head, joining, inserting and cutting do to a list
without repetitions, and that the naturals are well ordered (`LeastNat`). The latter
gives induction in the form the provers accept: a set of naturals that holds 0 and the
successor of each of its members is all of them (`NatSetInduction`). That is enough
for the recursive functions of the models, since the property is then a set and not an
operator.

**ThreadProofs.** None of the properties is inductive alone. The inductive invariant
`IInv` adds what threads off the hart will do when they get it back: `Contexts` (a
thread off the hart is new or inside `_thread_swtch`; only the child being spawned has
no context), `Owner` (who is RUNNING, by the place of the thread on the hart), `Waiters`
(a thread waits for an ISR, a lock or its own children), `Masked` (a driver that waits
for its ISR has interrupts off until it gives up the hart: without this an ISR could
make it READY before suspend_self), `Exiteds`, `Idle` (the idle thread is always READY or
RUNNING, so the ready list is never empty for the others), `Parents` and `Joins` (a
woken thread_join_any has an exited child, and nobody else can reap it). `NextIInv` has
one case per action, each a lemma of its own with one step per conjunct the action can
disturb. `ThreadTree` and `ExitedIsFinal` need only to know which of three kinds a step
is (`StepKinds`): it leaves the tree alone, reaps one exited thread, or starts one in a
free slot. The tree says that every set of live threads has a member whose parent is
outside; when a thread is reaped and its children move up, that is applied to the set
with the reaped thread added.

*The refinement.* `ImplementsScheduler` is proved from `IInv`, one lemma per kind
of abstract step: `BlockStep` (BeginWait marks the thread; the insertion into the wait
list is then a stutter, and so is the gap between the two), `WakeStep` (a broadcast, from a
thread or from an ISR that falls into the middle of suspend_self), `PickStep`
(suspend_self: a yield, a dispatch or a stutter, according to whether the thread still
runs and whether the idle thread is picked), `StartStep`, `FinishStep` and `ReapedStep`.
The list lemmas `IdleAppend`, `IdleInsert` and `IdleTail` say that cutting the idle thread out
commutes with what the code does to `ready_list`.

**LockProofs.** The two invariants and the types are inductive together. That mutual
exclusion fails (section 4) does not touch them.

**UartProofs.** The ring is first reasoned about by itself: lemmas on remainders
(`RemainderShift`, `RemainderDiffers`), on positions that wrap (`NextPos`, `PosDiff`), then what each
half of `rbuf_put` and `rbuf_get` does to the contents (`PutData`, `PutTpos`, `GetHpos`). `IInv`
adds `OffHart` and `Users` (a thread without the hart is outside the driver or in one of its
two waits, and holds a reference), `Sleepers`, `IerFresh` (between the load and the store
of `ier |= bit` the ISR has at most cleared bits: the reason why the race is harmless)
and `ReadAhead` and `WriteAhead` (what a thread holds between its two accesses to the ring is
still true when the ISR has run). The two queues are then refinements of ByteQueue, step by step.

**TimerProofs.** `IInv` adds `OwnAlarm`, `Asleep` (sleeping, on the list, not running, not
ready), `InOrder` and `TickArmed`: from the first tick on an interrupt is pending or set for
the next tick or earlier, so an alarm that becomes the head after that tick needs no
`mtcmp` of its own. Without it `AlarmsArmed` is not inductive. The search of alarm_sleep and
the loop of the handler are definitions by CHOOSE; `PositionFound` and `RingingFound` show
by well-ordering that what they choose exists.

**KfsProofs.** `CompletionSeen` needs the type of the wait lists, the fields of the device and
that the PLIC serves no interrupt between two steps (`IInv`). It holds whatever the locks do.

The other two hold until a lock is taken from its owner, and so does their invariant
`KInv`. Its parts: `OnePlace` (a thread runs, is ready, or waits on one condition), which holds always;
`Owners` (kfs_lock belongs to the thread whose call is between the boot block and the data,
vio_lock to the thread that transfers); `Local` (the driver was called with the position,
length and direction that the job asks for at this point); `Progress` (what the
driver has moved so far is what is on the disk from there on, `Moved`, and the device's position is
just behind it); `Request` (what is in the block buffer, before and after the device has answered);
`Done` (what the call has got or written block by block up to its position); and `DiskOK`: the boot block
and the inodes are those of the image. The last is what makes the places of the words
fixed (`Place`), and it is kept because every word that is written lies behind the inodes.
Two arguments are worth knowing. A thread that has left the driver with vio_lock
held (a refused seek, a failed request) goes on in kfs.c and stops at the next lock_acquire, for
ever: `Owners` has it on the wait list of the lock it owns, and nobody else can wake it, so when
a woken thread takes the lock without looking, the lock was free or is taken from its owner
(`TakeFree`). And vioblk_setpos and vioblk_read are two calls, between which the lock is
free: the position survives because the thread keeps the hart from the one to the other
(`running = t` at "begin"). Every step of a thread leaves the others' part of the invariant alone
(`Aside`, `AsideThread`); the device changes the disk only for the owner of kfs_lock, and the threads
outside read inodes only (`Bystander`).

**ProcessProofs, processes.** `IInv` adds `FilesNamed`, `SlotsTaken` (as long as fs_close has not freed the slot
of another file, a slot that a descriptor names is taken, so fs_open does not pick it)
and `SerialOps`. The counting argument is about `Named(tab, o)`, the pairs of a process and a
descriptor that name the interface `o`: an open adds one pair, a close takes one away, a
fork adds as many as the parent has, and `refcnt` follows. process_exit is the recursive
function `closed`, unfolded by `NatSetInduction`.

**ProcessProofs, memory.** What the manager knows is in the pages, so the invariant has to say
which word means what. It does so with a witness instead of reachability: memory is
`Sound` when there is a *role* for every page (free with the page whose link leads to it,
the heap's, the root of a space, a table with the table and the entry it hangs from, mapped
with its table and entry, or none) that fits the contents (`Good`). A page has one role, and the
role of a page that is reached through a link or an entry is determined by where it is
reached from; so no page can be free and mapped, or mapped twice, and `OneUsePerPage`
is counting (`OneRole`). Each operation gives the new roles from the old ones: taking a page
from the free list, giving it back, filling an entry, cutting a table. The loops of
memory.c over the entries of a root and of a table are folds of the model; `SpaceSafety` and
`ForkSafety` unfold them entry by entry and carry along which entries have been handled:
memory_space_clone copies entry by entry into pages that had no role (`Copies`, `ClonePages`,
`CloneTables`), and a page that some other space maps is not touched (`Reach`, `RootOf`). Once
exec has left freed pages mapped (`stale`, section 4) there is no such assignment of
roles and the three properties do not claim anything.

**IoTermProofs.** The scans over a buffer are folds; a fold is first turned into the run of
its states, one per character (`ShowRun`, `NormaliseRun`, `ScanRun`, `FlatRun`), and then followed by
induction on the index. `Received` and `Sent`, the stateless definitions of what a stream means,
are shown to grow by a piece that depends on the new character and the one before it
(`ReceivedAppend`, `SentAppend`); so `cr_in` and `cr_out` have to be the one bit of the past that
matters, `CrOf` (`InInv`, `OutInv`). `Scanned(P, b, x, k)` relates ioterm_write after `k` characters of the
buffer `b`, after the stream `P`, to what that stream means: the raw bytes sent, and the
ones between `wpos` and `rpos` that are not flushed yet. At the end either all of the buffer
is out (`Whole`) or the raw interface was full (`Cut`), and a second turn of iowrite then finds
it full again and ends (`WriteFull`). For the editor `Shows(screen, line)` is inductive: a
letter, a deletion and a refused key each write glyphs that lead from the screen of the
old line to the screen of the new one (`EditFacts`).

TLC has checked the parts of every `IInv` on the instance of its run before they were proved.

*Only model-checked.*

* Liveness: `ReadyRuns`, `WaiterGetsLock`, `ReaderWakes`, `WriterWakes`, `AlarmRings`, `CallReturns`.
  Fairness and ENABLED are out of the prover's reach.

## 6. Not modelled, and what is left out

* `thread_fork_to_user`: dead code, its only call is commented out. With it gone
  there is one user process; Process does not model two that run.
* Register contents, trap frames, `stvec`, `sscratch`. uart_read and uart_write end with
  an unconditional `intr_enable`, so a system call may reach the trap exit with
  interrupts on; that hazard is listed without a property.
* A `struct thread` from kmalloc is zero (the heap never reuses memory), so a new
  thread's `child_exit` is empty; Spawn relies on it.
* The global kernel mappings: they are made once and never change.
* The fields of the ELF headers, the descriptors of a virtio request and the name
  lookup in the boot block: abstracted to what they select.
* Calls of the driver for zero bytes, which return with the lock held: `kfs.c` makes
  none, and nobody else opens the device.
* The polled console port, formatting (`string.c`), feature negotiation (`virtio.c`) and
  start-up: straight-line or pure I/O. User programs and `mkfs` are clients and tools.
* `ioterm_read` on a literal that has ended spins for ever: there it has no step.
* `vioblk_close`: kfs keeps the device open and nobody closes it.
* A transfer that falls short, possible once a lock has been taken from its owner: `fs_read`
  and `fs_write` then go on with what they have, the model does not follow the call any
  further (`fs_astray`).
* Descriptors outside the table. The system calls check no bound of a descriptor (`syscall.c:196`, 233,
  287, 335, 379, 430, 451): one of 16 or more, or a negative one in a call other than an open, reads
  or writes outside `iotab`. Process has the descriptors of the table, and -1 in the two opens. For the
  same reason a search of a full table may find a zero word behind it and succeed
  (`syscall.c:294-309`); the model refuses the call or stops.
* `elf_load` may wait between the blocks of one segment, and after a fork a part of the segment
  may then go to each of two spaces; `elf_load_fill` may wait once, before it copies the segment.
* `memory_alloc_and_map_range` takes the number of pages from the size alone (`memory.c:463-471`), one
  too few for some ranges that do not start on a page; in the model ranges are whole pages.

## 7. Plan

1. **Trap**: entry and exit sequences with SIE, stvec, sscratch.
2. An abstract file (a sequence of words and a position) that Kfs implements as long
   as the lock excludes.

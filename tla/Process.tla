------------------------------ MODULE Process -------------------------------
(***************************************************************************)
(* The user process: kern/process.c, kern/syscall.c and kern/elf.c on the  *)
(* memory manager, and the interfaces that its descriptors name (io.h,     *)
(* device.c and the open files of kfs.c).                                  *)
(*                                                                         *)
(* There is one process that runs, the main one.  process_fork builds a    *)
(* second process and moves into its memory, and starts no thread for it.  *)
(* The process is left in that memory until it is suspended: the scheduler *)
(* then goes back to the space of the running thread's process, the main   *)
(* one.                                                                    *)
(***************************************************************************)
EXTENDS Memory, FiniteSets, FiniteSetsExt

CONSTANTS
    NPROC,       \* entries of proctab
    IOMAX,       \* PROCESS_IOMAX, descriptors of a process
    NFILE,       \* entries of fileArray
    Files,       \* files of the mounted file system
    Image,       \* the segments of each file, if it is an executable
    INIT_PROC,   \* the file that main executes
    Offsets,     \* bound: the words of a page that a program stores to
    MaxCalls     \* bound: system calls and faults

ASSUME ProcessAssumption ==
    /\ NPROC \in Nat \ {0} /\ IOMAX \in Nat \ {0} /\ NFILE \in Nat \ {0}
    /\ Offsets \subseteq Word
    /\ Files \subseteq Nat \ {0} /\ INIT_PROC \in Files
    /\ Image \in [Files -> Seq([va : Vpn, mem : Nat, file : Nat, w : BOOLEAN])]
    /\ \A f \in Files : \A k \in DOMAIN Image[f] :
         LET g == Image[f][k] IN g.va + g.mem <= USER_END /\ g.file <= g.mem

VARIABLES
    mem,       \* memory
    proctab,   \* the processes in the table, main_proc first
    fs,        \* the interfaces, and intSpot of kfs.c
    todo,      \* segments that elf_load has still to load
    phase,     \* "user", where the kernel is in exec, "waiting" or "halted"
    calls,     \* system calls and faults so far
    \* What follows observes the system and is not part of it.
    spaces,    \* roots of all memory spaces
    stale,     \* freed pages have been left mapped
    misclosed, \* a file slot has been freed or reused by mistake
    meant      \* the file that each descriptor of main was opened for

vars == <<mem, proctab, fs, todo, phase, calls, spaces, stale, misclosed,
          meant>>

Fd == 0 .. IOMAX - 1
Slot == 1 .. NFILE
Ser == NFILE + 1                \* the interface of the serial device
Bytes == 1                      \* what a program stores, or a file holds

iotab == proctab[1].iotab
NoFds == [d \in Fd |-> NULL]

Init ==
    /\ mem = memory_init
    /\ proctab = << [iotab |-> NoFds] >>
    /\ fs = [io |-> [o \in Slot \cup {Ser} |->
                      IF o = 1 THEN [refcnt |-> 1, ops |-> TRUE, flags |-> 1, inode |-> INIT_PROC]
                      ELSE [refcnt |-> 0, ops |-> o = Ser, flags |-> 0, inode |-> INIT_PROC]],
             intSpot |-> 1]
    /\ todo = Image[INIT_PROC]
    /\ phase = "map"
    /\ calls = 0
    /\ spaces = {main_pt2} /\ stale = FALSE /\ misclosed = FALSE
    /\ meant = [d \in Fd |-> NULL]

-----------------------------------------------------------------------------
\* suspend_self when a thread of the main process goes on: back to its space.
Resumed(m) == memory_space_switch(m, main_pt2)

\* A call that may sleep, and so may be resumed.
MaySleep(m) == {m, Resumed(m)}

\* The process goes on where it was, unless the kernel has stopped.
Go(m, where) == mem' = m /\ phase' = IF Up(m) THEN where ELSE "halted"

Halt == phase' = "halted" /\ UNCHANGED mem

watch == <<spaces, stale, misclosed, meant>>

Call ==
    /\ phase = "user" /\ calls < MaxCalls
    /\ calls' = calls + 1

\* ioclose.  fs_close, when the last reference goes, clears the flags of the
\* slot that was opened last, whichever is being closed.
ioclose(f, o) ==
    LET n == f.io[o].refcnt - 1
        g == [f EXCEPT !.io[o].refcnt = n]
    IN IF n = 0 /\ o \in Slot
       THEN [g EXCEPT !.io[o].ops = FALSE, !.io[f.intSpot].flags = 0]
       ELSE g

\* uart_open, by way of device_open.
device_open(f) == [f EXCEPT !.io[Ser].refcnt = 1]

\* fs_open into this slot.
fs_open(f, s, name) ==
    [f EXCEPT !.io[s] = [refcnt |-> @.refcnt + 1, ops |-> TRUE, flags |-> 1, inode |-> name],
              !.intSpot = s]

\* A mutant: the last slot, taken or not.
fs_spots_Any(f) == {Max(Slot)}

\* The slot that fs_open takes is the first with flags clear, or an
\* uninitialised variable when there is none.
fs_spots(f) ==
    LET free == {s \in Slot : f.io[s].flags = 0} IN
    IF free # {} THEN {Min(free)} ELSE Slot

\* The descriptors a call with fd negative may take: sysdevopen refuses as
\* soon as descriptor 0 is taken.
NewFd(fd) == IF fd >= 0 THEN fd
             ELSE LET free == {d \in Fd : iotab[d] = NULL} IN
                  IF free = {} THEN IOMAX ELSE Min(free)

sysdevopen(fd) ==
    /\ Call
    /\ UNCHANGED <<mem, todo, phase, spaces, stale, misclosed>>
    /\ \/ /\ (fd < 0 /\ iotab[0] # NULL) \/ fs.io[Ser].refcnt # 0
          /\ UNCHANGED <<proctab, fs, meant>>
       \/ /\ fd >= 0 \/ iotab[0] = NULL
          /\ fs.io[Ser].refcnt = 0
          /\ fs' = device_open(fs)
          /\ proctab' = [proctab EXCEPT ![1].iotab[NewFd(fd)] = Ser]
          /\ meant' = [meant EXCEPT ![NewFd(fd)] = NULL]

\* sysfsopen takes from the heap before it knows that the file can be opened.
\* With the table full, the search for a descriptor runs one past its end; with
\* every slot taken, fs_open writes to a slot nobody chose.  Both may hit
\* anything.
sysfsopen(fd, name) ==
    /\ Call
    /\ UNCHANGED <<todo, spaces, stale>>
    /\ \/ /\ \/ NewFd(fd) = IOMAX /\ UNCHANGED <<mem, phase>>
             \/ NewFd(fd) = IOMAX /\ Halt
             \/ NewFd(fd) # IOMAX /\ (\A s \in Slot : fs.io[s].flags = 1) /\ Halt
             \/ /\ NewFd(fd) # IOMAX
                /\ \E n \in 1 .. 2, m \in MaySleep(kmalloc(mem, 1)) :
                     Go(IF n = 1 THEN m ELSE kmalloc(m, 1), "user")
          /\ UNCHANGED <<proctab, fs, misclosed, meant>>
       \/ /\ NewFd(fd) # IOMAX
          /\ \E m \in MaySleep(kmalloc(mem, 1)) : Go(kmalloc(m, 1), "user")
          /\ \E s \in fs_spots(fs) :
               /\ fs' = fs_open(fs, s, name)
               /\ misclosed' = (misclosed \/ \A x \in Slot : fs.io[x].flags = 1)
               /\ proctab' = [proctab EXCEPT ![1].iotab[NewFd(fd)] = s]
          /\ meant' = [meant EXCEPT ![NewFd(fd)] = name]

sysclose(fd) ==
    /\ Call
    /\ UNCHANGED <<mem, todo, spaces, stale>>
    /\ \/ /\ iotab[fd] = NULL
          /\ phase' = "halted"
          /\ UNCHANGED <<proctab, fs, misclosed, meant>>
       \/ /\ iotab[fd] # NULL
          /\ fs' = ioclose(fs, iotab[fd])
          /\ misclosed' = (misclosed \/ \E s \in Slot \ {iotab[fd]} :
                                         fs'.io[s].flags # fs.io[s].flags)
          /\ proctab' = [proctab EXCEPT ![1].iotab[fd] = NULL]
          /\ meant' = [meant EXCEPT ![fd] = NULL]
          /\ UNCHANGED phase

\* sysread into page v: the call may sleep, and the bytes go to the space that
\* is active when it is resumed; the kernel panics if it faults there.  There
\* may be no bytes, and no descriptor.
sysread(fd, v) ==
    /\ Call
    /\ \/ UNCHANGED <<mem, phase>>
       \/ /\ iotab[fd] # NULL
          /\ \E m \in MaySleep(mem) :
               \/ Go(m, "user")
               \/ Writable(m, v) /\ Go(store(m, v, 0, Bytes), "user")
               \/ ~Writable(m, v) /\ Go(Stop(m, "panic"), "user")
    /\ UNCHANGED <<proctab, fs, todo, watch>>

\* syswrite from page v.
syswrite(fd, v) ==
    /\ Call
    /\ \/ UNCHANGED <<mem, phase>>
       \/ /\ iotab[fd] # NULL
          /\ \E m \in MaySleep(mem) :
               \/ Go(m, "user")
               \/ ~Mapped(m, v) /\ Go(Stop(m, "panic"), "user")
    /\ UNCHANGED <<proctab, fs, todo, watch>>

\* sysioctl looks at no descriptor before it uses it.
sysioctl(fd) ==
    /\ Call
    /\ \/ iotab[fd] = NULL /\ Halt
       \/ iotab[fd] # NULL /\ UNCHANGED <<mem, phase>>
    /\ UNCHANGED <<proctab, fs, todo, watch>>

\* sysusleep: an alarm from the heap that is never given back.
sysusleep ==
    /\ Call
    /\ \E m \in MaySleep(kmalloc(mem, 1)) : Go(m, "user")
    /\ UNCHANGED <<proctab, fs, todo, watch>>

\* sysmsgout prints the string in page v.
sysmsgout(v) ==
    /\ Call
    /\ Go(IF Mapped(mem, v) THEN mem ELSE Stop(mem, "panic"), "user")
    /\ UNCHANGED <<proctab, fs, todo, watch>>

\* syswait: the only child of the main thread is the idle thread, which never
\* exits; any other tid is refused.
syswait(child) ==
    /\ Call
    /\ phase' = IF child THEN "waiting" ELSE phase
    /\ UNCHANGED <<mem, proctab, fs, todo, watch>>

-----------------------------------------------------------------------------
\* A mutant: the copies of the descriptors are not counted.
forked_NoRef(f) == f

\* process_fork: one more reference for every descriptor.
forked(f) ==
    [f EXCEPT !.io = [o \in Slot \cup {Ser} |->
        [f.io[o] EXCEPT !.refcnt = @ + Cardinality({d \in Fd : iotab[d] = o})]]]

\* process_fork: struct process comes from the heap and has an entry of proctab
\* if there is one left; the process goes on in the new space.
process_fork ==
    /\ Call
    /\ LET m == kmalloc(mem, 1)
           c == IF Up(m) THEN memory_space_clone(m) ELSE m
       IN /\ Go(IF Up(c) THEN memory_space_switch(c, m.free_list) ELSE c, "user")
          /\ spaces' = IF Up(c) THEN spaces \cup {m.free_list} ELSE spaces
    /\ fs' = forked(fs)
    /\ proctab' = IF Len(proctab) < NPROC THEN Append(proctab, [iotab |-> iotab]) ELSE proctab
    /\ UNCHANGED <<todo, stale, misclosed, meant>>

\* elf_load as far as the program headers: what it will load from this
\* interface, if it accepts the header.
elf_header(o) == IF o = Ser THEN << >> ELSE Image[fs.io[o].inode]

\* sysexec and the first half of process_exec: the user pages go, then elf_load
\* reads the header.
sysexec(fd) ==
    /\ Call
    /\ UNCHANGED <<proctab, fs, spaces, misclosed, meant>>
    /\ \/ /\ iotab[fd] = NULL
          /\ UNCHANGED <<mem, phase, todo, stale>>
       \/ /\ iotab[fd] # NULL
          /\ Go(memory_unmap_and_free_user(mem), "map")
          /\ stale' = (stale \/ \E v \in Vpn : Mapped(mem, v))
          /\ todo' = elf_header(iotab[fd])

\* elf_load, one program header: read, check, map its pages writable.
elf_load_map ==
    /\ phase = "map" /\ todo # << >>
    /\ \E m \in MaySleep(mem) :
         Go(memory_alloc_and_map_range(m, Head(todo).va, Head(todo).mem), "fill")
    /\ UNCHANGED <<proctab, fs, todo, calls, watch>>

\* elf_load, the same header: read its bytes, set its flags, clear the rest.
elf_load_fill ==
    /\ phase = "fill"
    /\ LET g == Head(todo) IN
       \E m \in MaySleep(mem) :
         LET r == fill(m, g.va, g.file, Bytes)
             s == memory_set_range_flags(r, g.va, g.mem, g.w)
         IN Go(fill(s, g.va + g.file, g.mem - g.file, 0), "map")
    /\ todo' = Tail(todo)
    /\ UNCHANGED <<proctab, fs, calls, watch>>

\* process_exec, the second half: into user mode at the entry of the program.
\* It goes there when elf_load fails too, at an entry nobody has set, and
\* then either faults at once or runs what is there.
enter_user ==
    /\ phase \in {"map", "fill"}
    /\ \/ phase = "map" /\ todo = << >> /\ Go(mem, "user")
       \/ \E m \in MaySleep(mem) : Go(m, "user")
       \/ Halt
    /\ todo' = << >>
    /\ UNCHANGED <<proctab, fs, calls, watch>>

\* The loop of process_exit: what its first n descriptors name is closed, unless
\* it has no operations any more.
closed[n \in 0 .. IOMAX] ==
    IF n = 0 THEN fs
    ELSE LET f == closed[n - 1]
             o == iotab[n - 1]
         IN IF o # NULL /\ f.io[o].ops THEN ioclose(f, o) ELSE f

\* process_exit: memory, then descriptors; the main thread's exit halts.
process_exit ==
    /\ mem' = memory_space_reclaim(mem)
    /\ fs' = closed[IOMAX]
    /\ phase' = "halted"
    /\ stale' = TRUE
    /\ UNCHANGED <<proctab, todo, spaces, misclosed, meant>>

sysexit == Call /\ process_exit

-----------------------------------------------------------------------------
\* A store by the program.
UserStore(v, i) ==
    /\ phase = "user" /\ Writable(mem, v)
    /\ Go(store(mem, v, i, Bytes), "user")
    /\ UNCHANGED <<proctab, fs, todo, calls, watch>>

\* umode_excp_handler: a store that faults maps the page of the stack pointer,
\* sp, whatever the address was; the user region's end counts as inside.
memory_handle_page_fault(v, sp) ==
    /\ Call /\ ~Writable(mem, v)
    /\ \/ /\ sp \in 0 .. USER_END
          /\ Go(memory_alloc_and_map_page(mem, sp, TRUE), "user")
          /\ UNCHANGED <<proctab, fs, todo, watch>>
       \/ sp \notin 0 .. USER_END /\ process_exit

\* default_excp_handler: any other fault of the program.
default_excp_handler(v) ==
    /\ Call /\ ~Mapped(mem, v)
    /\ Halt
    /\ UNCHANGED <<proctab, fs, todo, watch>>

\* The program is preempted, and goes on.
Preempted ==
    /\ phase = "user"
    /\ Go(Resumed(mem), "user")
    /\ UNCHANGED <<proctab, fs, todo, calls, watch>>

\* syscall: the call that a7 names.
syscall ==
    \/ \E fd \in Fd \cup {-1} : sysdevopen(fd) \/ \E f \in Files : sysfsopen(fd, f)
    \/ \E fd \in Fd : \/ sysclose(fd) \/ sysioctl(fd) \/ sysexec(fd)
                      \/ \E v \in 0 .. USER_END - 1 : sysread(fd, v) \/ syswrite(fd, v)
    \/ \E v \in 0 .. USER_END - 1 : sysmsgout(v)
    \/ \E child \in BOOLEAN : syswait(child)
    \/ sysusleep \/ process_fork \/ sysexit

Next ==
    \/ syscall
    \/ elf_load_map \/ elf_load_fill \/ enter_user
    \/ Preempted
    \/ \E v \in 0 .. USER_END - 1 :
         \/ \E i \in Offsets : UserStore(v, i)
         \/ \E sp \in 0 .. USER_END + 1 : memory_handle_page_fault(v, sp)
         \/ default_excp_handler(v)

Spec == Init /\ [][Next]_vars

-----------------------------------------------------------------------------
\* The uses of a page: free, a root, a table, a mapped page, the heap's.
Uses(p) ==
    LET level1 == {mem.ram[r][0].p : r \in {r \in spaces : mem.ram[r][0].kind = "table"}}
        level0 == {e \in level1 \X Word : mem.ram[e[1]][e[2]].kind = "table"}
    IN   (IF p \in FreePages(mem) THEN 1 ELSE 0)
       + (IF p \in spaces THEN 1 ELSE 0)
       + (IF p \in mem.heap THEN 1 ELSE 0)
       + Cardinality({r \in spaces : mem.ram[r][0] = ptab_pte(p)})
       + Cardinality({e \in level0 : mem.ram[e[1]][e[2]].p = p})
       + Cardinality({e \in spaces \X Vpn : lookup(mem, e[1], e[2]).kind = "leaf"
                                             /\ lookup(mem, e[1], e[2]).p = p})

\* Over page faults, fork, exec and heap growth a page of the pool has one use:
\* memory_alloc_page never hands out a page that is a page table, mapped in any
\* space or part of the heap, until memory_unmap_and_free_user leaves entries
\* behind.
OneUsePerPage == ~stale => \A p \in Page : Uses(p) <= 1

\* memory_space_clone copies pages and tables: what a program stores, faults in
\* or loads in one space changes nothing in another.
SpacesAreSeparate ==
    [][~stale' => \A s \in spaces \ {mem.satp, mem'.satp} :
                    View(mem', s) = View(mem, s)]_vars

\* process_fork goes on in another space and the program does not notice: it
\* finds every page there with its contents and its W flag, unless exec has
\* left freed pages mapped before (stale).
ForkKeepsMemory ==
    [][spaces' # spaces /\ ~stale => View(mem', mem'.satp) = View(mem, mem.satp)]_vars

\* An interface is never closed under a process that has it open: its count
\* covers every descriptor of every process in proctab that names it.
CountCoversDescriptors ==
    phase # "halted" => \A o \in Slot \cup {Ser} :
      LET named == {e \in (DOMAIN proctab) \X Fd : proctab[e[1]].iotab[e[2]] = o} IN
      /\ Cardinality(named) <= fs.io[o].refcnt
      /\ named # {} => fs.io[o].ops

\* A descriptor reads the file it was opened for, as long as fs_close has not
\* freed the slot of another file.
DescriptorKeepsFile ==
    ~misclosed => \A d \in Fd : meant[d] # NULL => fs.io[iotab[d]].inode = meant[d]

\* memory.h: memory_unmap_and_free_user "Unmaps and frees all pages with the U
\* bit set in the PTE flags", so a program that process_exec has started sees
\* no free page.
FreedIsUnmapped ==
    phase = "user" =>
        \A v \in Vpn : LET e == lookup(mem, mem.satp, v) IN
                       e.kind = "leaf" => e.p \notin FreePages(mem)
=============================================================================

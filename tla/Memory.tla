------------------------------- MODULE Memory -------------------------------
(***************************************************************************)
(* The memory manager, kern/memory.c, and the heap on top of it,           *)
(* kern/ezheap.c, as operators that take the state of physical memory to   *)
(* the next one.  Everything the manager knows is in memory itself: a free *)
(* page holds the link of the free list in its first word, a page table    *)
(* holds its entries, a user page holds data.  A page that is put to two   *)
(* uses is therefore corrupted here as it is on the machine.               *)
(*                                                                         *)
(* The user region has one entry in the root table, so a walk takes three  *)
(* levels: the root, a level 1 table and a level 0 table.  Kernel mappings *)
(* are global and never change; they are left out.                         *)
(***************************************************************************)
EXTENDS Integers, Sequences, SequencesExt

CONSTANTS
    PageCnt,     \* pages of the page pool, page_cnt of memory_init
    PTE_CNT,     \* entries of a page table; also the words of a page
    HeapRoom,    \* what memory_init gives the heap, in units of 16 bytes
    PageRoom     \* units in a page

ASSUME MemoryAssumption ==
    /\ PageCnt \in Nat \ {0} /\ PTE_CNT \in Nat \ {0}
    /\ HeapRoom \in Nat /\ PageRoom \in Nat \ {0}

NULL == 0
GARBAGE == -1               \* a pointer read from a word that held none
Page == 1 .. PageCnt
main_pt2 == PageCnt + 1     \* the main space's root, not from the pool
Word == 0 .. PTE_CNT - 1
Vpn == 0 .. PTE_CNT * PTE_CNT - 1
VPN1(v) == v \div PTE_CNT
VPN0(v) == v % PTE_CNT
USER_END == PTE_CNT * PTE_CNT - 1    \* the first page above the user region

\* A word is clear, a link of the free list, a table entry, a leaf entry or
\* user data; w is the W flag of a leaf.
WordOf(k, p, w) == [kind |-> k, p |-> p, w |-> w]
null_pte == WordOf("clear", NULL, FALSE)
link(p) == IF p = NULL THEN null_pte ELSE WordOf("link", p, FALSE)
ptab_pte(p) == WordOf("table", p, FALSE)
leaf_pte(p, w) == WordOf("leaf", p, w)
data(d) == IF d = 0 THEN null_pte ELSE WordOf("data", d, FALSE)

\* A link is page aligned: read as an entry, its V flag is clear.
NotValid(e) == e.kind \in {"clear", "link"}
ClearPage == [i \in Word |-> null_pte]

Stop(m, why) == [m EXCEPT !.stop = why]
Up(m) == m.stop = "no"

\* memory_init: the pool is one list in address order, paging is on.
memory_init ==
    [free_list |-> 1, satp |-> main_pt2, room |-> HeapRoom, heap |-> {},
     stop |-> "no",
     ram |-> [p \in Page \cup {main_pt2} |->
                IF p = main_pt2 THEN ClearPage
                ELSE [ClearPage EXCEPT ![0] = link(IF p = PageCnt THEN NULL
                                                   ELSE p + 1)]]]

\* A mutant: the head of the list stays where it was.
memory_alloc_page_Again(m) ==
    IF m.free_list = NULL THEN Stop(m, "panic")
    ELSE [m EXCEPT !.ram[m.free_list] = ClearPage]

\* memory_alloc_page; the page it returns is the free_list it found.
memory_alloc_page(m) ==
    IF ~Up(m) THEN m
    ELSE IF m.free_list = NULL THEN Stop(m, "panic")
    ELSE IF m.free_list = GARBAGE THEN Stop(m, "wild")
    ELSE LET next == m.ram[m.free_list][0] IN
         [m EXCEPT !.free_list = IF next.kind \in {"clear", "link"} THEN next.p
                                 ELSE GARBAGE,
                   !.ram[m.free_list] = ClearPage]

memory_free_page(m, p) ==
    IF ~Up(m) THEN m
    ELSE IF p = NULL THEN Stop(m, "panic")
    ELSE [m EXCEPT !.ram[p][0] = link(m.free_list), !.free_list = p]

\* One level of walk_pt with create set: a missing table is made.
descend(m, table, i) ==
    IF ~Up(m) THEN m
    ELSE LET e == m.ram[table][i]
             a == memory_alloc_page(m)
         IN IF NotValid(e)
            THEN IF Up(a) THEN [a EXCEPT !.ram[table][i] = ptab_pte(m.free_list)]
                 ELSE a
            ELSE IF e.kind = "table" THEN m ELSE Stop(m, "wild")

\* walk_pt without create: the entry of page v in the space of this root.
lookup(m, root, v) ==
    LET e2 == m.ram[root][0] IN
    IF e2.kind # "table" THEN null_pte
    ELSE LET e1 == m.ram[e2.p][VPN1(v)] IN
         IF e1.kind # "table" THEN null_pte ELSE m.ram[e1.p][VPN0(v)]

\* Where that entry is, once lookup or descend has found its table.
table0(m, root, v) == m.ram[m.ram[root][0].p][VPN1(v)].p

\* memory_alloc_and_map_page: the page first, then the tables that are missing.
memory_alloc_and_map_page(m, v, w) ==
    LET a  == memory_alloc_page(m)
        d1 == descend(a, a.satp, 0)
        d0 == IF Up(d1) THEN descend(d1, d1.ram[a.satp][0].p, VPN1(v)) ELSE d1
    IN IF ~Up(d0) THEN d0
       ELSE [d0 EXCEPT !.ram[table0(d0, d0.satp, v)][VPN0(v)] =
                           leaf_pte(m.free_list, w)]

\* n pages from page v on, in order.
Pages(v, n) == [i \in 1 .. n |-> v + i - 1]

memory_alloc_and_map_range(m, v, n) ==
    FoldLeft(LAMBDA x, u : memory_alloc_and_map_page(x, u, TRUE), m, Pages(v, n))

\* memory_set_page_flags: V is set whether or not the entry was valid; a clear
\* entry then maps physical page zero.
memory_set_page_flags(m, v, w) ==
    IF ~Up(m) THEN m
    ELSE LET e2 == m.ram[m.satp][0]
             found == e2.kind = "table" /\ m.ram[e2.p][VPN1(v)].kind = "table"
         IN IF ~found THEN Stop(m, "panic")
            ELSE [m EXCEPT !.ram[table0(m, m.satp, v)][VPN0(v)] =
                               leaf_pte(@.p, w)]

memory_set_range_flags(m, v, n, w) ==
    FoldLeft(LAMBDA x, u : memory_set_page_flags(x, u, w), m, Pages(v, n))

\* memory_unmap_and_free_user: every user page of the active space is freed.
\* The V flag is cleared in a copy of the entry, so the entry stays.
memory_unmap_and_free_user(m) ==
    FoldLeft(LAMBDA x, v : LET e == lookup(x, x.satp, v) IN
                           IF e.kind = "leaf" THEN memory_free_page(x, e.p)
                           ELSE IF e.kind \in {"data", "table"} THEN Stop(x, "wild")
                           ELSE x,
             m, [i \in 1 .. PTE_CNT * PTE_CNT |-> i - 1])

memory_space_switch(m, root) == [m EXCEPT !.satp = root]

memory_space_reclaim(m) ==
    memory_space_switch(memory_unmap_and_free_user(m), main_pt2)

\* A mutant: the contents of the page are not copied.
clone_page_Empty(m, old, new, v) ==
    LET e == m.ram[old][VPN0(v)]
        a == memory_alloc_page(m)
    IN IF NotValid(e) \/ ~Up(a) THEN m
       ELSE [a EXCEPT !.ram[new][VPN0(v)] = leaf_pte(m.free_list, e.w)]

\* memory_space_clone, the innermost loop: a page and a copy of its contents.
clone_page(m, old, new, v) ==
    LET e == m.ram[old][VPN0(v)]
        a == memory_alloc_page(m)
    IN IF ~Up(m) THEN m
       ELSE IF NotValid(e) THEN [m EXCEPT !.ram[new][VPN0(v)] = e]
       ELSE IF e.kind # "leaf" \/ e.p = NULL THEN Stop(m, "wild")
       ELSE IF ~Up(a) THEN a
       ELSE [a EXCEPT !.ram[new][VPN0(v)] = leaf_pte(m.free_list, e.w),
                      !.ram[m.free_list] = a.ram[e.p]]

\* A mutant: the leaf is copied and the page is not.
clone_table_Shallow(m, old, new, i) ==
    LET e == m.ram[old][i]
        a == memory_alloc_page(m)
    IN IF ~Up(m) THEN m
       ELSE IF NotValid(e) THEN [m EXCEPT !.ram[new][i] = e]
       ELSE IF ~Up(a) THEN a
       ELSE [a EXCEPT !.ram[new][i] = ptab_pte(m.free_list),
                      !.ram[m.free_list] = a.ram[e.p]]

\* memory_space_clone, the middle loop: a level 0 table and its pages.
clone_table(m, old, new, i) ==
    LET e == m.ram[old][i]
        a == memory_alloc_page(m)
    IN IF ~Up(m) THEN m
       ELSE IF NotValid(e) THEN [m EXCEPT !.ram[new][i] = e]
       ELSE IF e.kind # "table" THEN Stop(m, "wild")
       ELSE IF ~Up(a) THEN a
       ELSE FoldLeft(LAMBDA x, v : clone_page(x, e.p, m.free_list, v),
                     [a EXCEPT !.ram[new][i] = ptab_pte(m.free_list)],
                     [j \in 1 .. PTE_CNT |-> i * PTE_CNT + j - 1])

\* memory_space_clone: the new root is the free_list it found.
memory_space_clone(m) ==
    LET e  == m.ram[m.satp][0]
        a2 == memory_alloc_page(m)
        a1 == memory_alloc_page(a2)
    IN IF ~Up(a2) THEN a2
       ELSE IF NotValid(e) THEN [a2 EXCEPT !.ram[m.free_list][0] = e]
       ELSE IF e.kind # "table" THEN Stop(a2, "wild")
       ELSE IF ~Up(a1) THEN a1
       ELSE FoldLeft(LAMBDA x, i : clone_table(x, e.p, a2.free_list, i - 1),
                     [a1 EXCEPT !.ram[m.free_list][0] = ptab_pte(a2.free_list)],
                     [j \in 1 .. PTE_CNT |-> j])

\* kmalloc of n units: from the current block, or from a page of its own.
kmalloc(m, n) ==
    IF ~Up(m) THEN m
    ELSE IF n <= m.room THEN [m EXCEPT !.room = @ - n]
    ELSE LET a == memory_alloc_page(m) IN
         IF ~Up(a) THEN a
         ELSE [a EXCEPT !.heap = @ \cup {m.free_list},
                        !.room = IF @ < PageRoom - n THEN PageRoom - n ELSE @]

\* Memory as a processor in the active space sees it: it stores where the leaf
\* is valid and has W, and faults elsewhere.
Mapped(m, v) == lookup(m, m.satp, v).kind = "leaf"
Writable(m, v) == LET e == lookup(m, m.satp, v) IN e.kind = "leaf" /\ e.w

store(m, v, i, d) ==
    LET p == lookup(m, m.satp, v).p IN
    IF p = NULL THEN Stop(m, "panic") ELSE [m EXCEPT !.ram[p][i] = data(d)]

\* The kernel writes n whole pages from page v on; it panics where it faults.
fill(m, v, n, d) ==
    FoldLeft(LAMBDA x, u : IF ~Up(x) THEN x
                           ELSE IF ~Writable(x, u) THEN Stop(x, "panic")
                           ELSE FoldLeft(LAMBDA y, i : store(y, u, i - 1, d), x,
                                         [j \in 1 .. PTE_CNT |-> j]),
             m, Pages(v, n))

-----------------------------------------------------------------------------
\* What the space of this root maps: the flags and the contents of every page.
View(m, root) ==
    [v \in Vpn |-> LET e == lookup(m, root, v) IN
                   IF e.kind = "leaf" /\ e.p # NULL
                   THEN [w |-> e.w, page |-> m.ram[e.p]]
                   ELSE [w |-> FALSE, page |-> << >>]]

\* The pages of the free list; its length is bounded by the pool unless it has
\* become a cycle.
FreePages(m) ==
    LET chain[k \in 0 .. PageCnt] ==
          IF k = 0 THEN m.free_list
          ELSE LET p == chain[k - 1] IN
               IF p \in {NULL, GARBAGE} THEN p ELSE m.ram[p][0].p
    IN {chain[k] : k \in 0 .. PageCnt} \cap Page
=============================================================================

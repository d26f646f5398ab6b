--------------------------- MODULE ProcessProofs ----------------------------
(***************************************************************************)
(* Proofs about Memory and Process.  The first part is about the memory    *)
(* manager, for any number of pages and any size of a page table: what its *)
(* operations preserve of a memory in which every page has one role, and   *)
(* that the spaces they do not work on look the same.  The second part is  *)
(* about processes, for any sizes of proctab, iotab and fileArray and any  *)
(* files: the count of an interface covers the descriptors that name it, a *)
(* descriptor keeps its file, and no step of a process touches what other  *)
(* processes see of their memory.                                          *)
(***************************************************************************)
EXTENDS Process, WellFoundedInduction, FiniteSetTheorems, TLAPS

-----------------------------------------------------------------------------
(* Naturals *)

\* The naturals are well ordered.
LEMMA LeastNat ==
    ASSUME NEW T \in SUBSET Nat, T # {}
    PROVE  Min(T) \in T /\ \A y \in T : Min(T) <= y
<1>. DEFINE R == OpToRel(<, Nat)
<1>1. IsWellFoundedOn(R, Nat)
  BY NatLessThanWellFounded, Zenon
<1>2. \A x, y \in Nat : y < x => <<y, x>> \in R
  BY DEF OpToRel
<1>. HIDE DEF R
<1>3. PICK x \in T : \A y \in T : ~ (<<y, x>> \in R)
  BY <1>1, WFMin
<1>4. ASSUME NEW y \in T PROVE x <= y
  <2>1. x \in Nat /\ y \in Nat
    OBVIOUS
  <2>2. ~ (y < x)
    BY <1>2, <1>3, <2>1
  <2>. QED  BY <2>1, <2>2
<1>. QED  BY <1>4 DEF Min

\* Induction, for a set of numbers.
LEMMA NatSetInduction ==
    ASSUME NEW T, 0 \in T, \A n \in Nat : n \in T => n + 1 \in T
    PROVE  Nat \subseteq T
<1>. SUFFICES ASSUME Nat \ T # {} PROVE FALSE
  OBVIOUS
<1>. DEFINE R == OpToRel(<, Nat)
<1>1. IsWellFoundedOn(R, Nat)
  BY NatLessThanWellFounded, Zenon
<1>2. \A x, y \in Nat : y < x => <<y, x>> \in R
  BY DEF OpToRel
<1>. HIDE DEF R
<1>3. PICK m \in Nat \ T : \A y \in Nat \ T : ~ (<<y, m>> \in R)
  BY <1>1, WFMin
<1>4. m # 0 /\ m - 1 \in Nat /\ m - 1 < m /\ (m - 1) + 1 = m
  BY <1>3
<1>5. m - 1 \in T
  BY <1>2, <1>3, <1>4
<1>. QED  BY <1>3, <1>4, <1>5

\* A nonempty set of bounded numbers has a largest one.
LEMMA MaxIn ==
    ASSUME NEW n \in Nat, NEW t \in SUBSET (1 .. n), t # {}
    PROVE  Max(t) \in t /\ \A y \in t : Max(t) >= y
<1>. DEFINE T == {n - y : y \in t}
<1>1. T \in SUBSET Nat /\ T # {}
  <2>1. \A y \in t : y \in Int /\ n - y \in Nat
    OBVIOUS
  <2>. QED  BY <2>1
<1>. HIDE DEF T
<1>2. Min(T) \in T /\ \A z \in T : Min(T) <= z
  BY <1>1, LeastNat
<1>3. PICK x \in t : Min(T) = n - x
  BY <1>2 DEF T
<1>4. ASSUME NEW y \in t PROVE x >= y
  <2>1. n - y \in T
    BY DEF T
  <2>2. n - x <= n - y
    BY <1>2, <1>3, <2>1
  <2>. QED  BY <2>2
<1>. QED  BY <1>4 DEF Max

-----------------------------------------------------------------------------
(* Loops.  FoldLeft is a function on the sets of indices that it has still  *)
(* to visit.  If every step stays in U, then such a function exists.        *)

IsFold(n, b, h, g) ==
    \A t \in SUBSET (1 .. n) : g[t] = IF t = {} THEN b ELSE h[Max(t)][g[t \ {Max(t)}]]

LEMMA FoldExists ==
    ASSUME NEW n \in Nat, NEW U, NEW b \in U, NEW h \in [1 .. n -> [U -> U]]
    PROVE  \E g \in [SUBSET (1 .. n) -> U] : IsFold(n, b, h, g)
<1>. DEFINE Upto(k) == \E g \in [SUBSET (1 .. k) -> U] : \A t \in SUBSET (1 .. k) :
                        g[t] = IF t = {} THEN b ELSE h[Max(t)][g[t \ {Max(t)}]]
            T == {k \in Nat : k <= n => Upto(k)}
<1>1. 0 \in T
  <2>1. 1 .. 0 = {}
    OBVIOUS
  <2>2. SUBSET (1 .. 0) = {{}}
    BY <2>1
  <2>. DEFINE g == [t \in SUBSET (1 .. 0) |-> b]
  <2>3. g \in [SUBSET (1 .. 0) -> U]
    OBVIOUS
  <2>4. \A t \in SUBSET (1 .. 0) : g[t] = IF t = {} THEN b ELSE h[Max(t)][g[t \ {Max(t)}]]
    BY <2>2
  <2>. QED  BY <2>3, <2>4
<1>2. ASSUME NEW k \in Nat, k \in T PROVE k + 1 \in T
  <2>. HIDE DEF Upto
  <2>. SUFFICES ASSUME k + 1 <= n PROVE Upto(k + 1)
    OBVIOUS
  <2>0. Upto(k)
    BY <1>2
  <2>. USE DEF Upto
  <2>1. PICK g \in [SUBSET (1 .. k) -> U] : \A t \in SUBSET (1 .. k) :
          g[t] = IF t = {} THEN b ELSE h[Max(t)][g[t \ {Max(t)}]]
    BY <2>0
  <2>. DEFINE e == [t \in SUBSET (1 .. k + 1) |->
                      IF k + 1 \in t THEN h[k + 1][g[t \ {k + 1}]] ELSE g[t]]
  <2>2. ASSUME NEW t \in SUBSET (1 .. k + 1), k + 1 \in t
        PROVE  /\ Max(t) = k + 1 /\ t \ {k + 1} \in SUBSET (1 .. k)
               /\ e[t] \in U /\ t # {}
               /\ e[t] = h[Max(t)][e[t \ {Max(t)}]]
    <3>1. Max(t) \in t /\ Max(t) >= k + 1
      <4>1. k + 1 \in Nat /\ t # {}
        BY <2>2
      <4>2. Max(t) \in t /\ \A y \in t : Max(t) >= y
        BY <4>1, MaxIn
      <4>. QED  BY <2>2, <4>2
    <3>2. Max(t) = k + 1
      <4>1. Max(t) \in 1 .. k + 1
        BY <3>1
      <4>. QED  BY <3>1, <4>1
    <3>3. t \ {k + 1} \in SUBSET (1 .. k)
      BY <2>2
    <3>4. t \ {k + 1} \in SUBSET (1 .. k + 1) /\ k + 1 \notin t \ {k + 1}
      OBVIOUS
    <3>5. e[t \ {k + 1}] = g[t \ {k + 1}] /\ e[t] = h[k + 1][g[t \ {k + 1}]]
      BY <2>2, <3>4
    <3>6. k + 1 \in 1 .. n
      OBVIOUS
    <3>. HIDE DEF e
    <3>7. g[t \ {k + 1}] \in U
      BY <3>3
    <3>8. h[k + 1][g[t \ {k + 1}]] \in U
      BY <3>6, <3>7
    <3>. QED  BY <2>2, <3>2, <3>3, <3>5, <3>8
  <2>3. ASSUME NEW t \in SUBSET (1 .. k + 1), k + 1 \notin t
        PROVE  /\ t \in SUBSET (1 .. k) /\ e[t] = g[t] /\ e[t] \in U
               /\ t # {} => e[t \ {Max(t)}] = g[t \ {Max(t)}]
    <3>1. t \in SUBSET (1 .. k) /\ e[t] = g[t]
      BY <2>3
    <3>2. ASSUME NEW x PROVE e[t \ {x}] = g[t \ {x}]
      <4>1. t \ {x} \in SUBSET (1 .. k + 1) /\ k + 1 \notin t \ {x}
        BY <2>3
      <4>. QED  BY <4>1
    <3>. HIDE DEF e
    <3>. QED  BY <3>1, <3>2
  <2>4. e \in [SUBSET (1 .. k + 1) -> U]
    <3>1. \A t \in SUBSET (1 .. k + 1) : e[t] \in U
      BY <2>2, <2>3
    <3>2. e = [t \in SUBSET (1 .. k + 1) |-> e[t]]
      OBVIOUS
    <3>. HIDE DEF e
    <3>. QED  BY <3>1, <3>2
  <2>5. ASSUME NEW t \in SUBSET (1 .. k + 1)
        PROVE  e[t] = IF t = {} THEN b ELSE h[Max(t)][e[t \ {Max(t)}]]
    <3>. HIDE DEF e
    <3>. QED  BY <2>1, <2>2, <2>3
  <2>. HIDE DEF e
  <2>. QED  BY <2>4, <2>5
<1>. HIDE DEF T
<1>3. n \in T
  BY <1>1, <1>2, NatSetInduction
<1>. HIDE DEF Upto
<1>4. Upto(n)
  BY <1>3 DEF T
<1>. QED  BY <1>4 DEF Upto, IsFold

\* The sets of indices that a loop goes through.
LEMMA Segments ==
    ASSUME NEW n \in Nat
    PROVE  /\ {} \in SUBSET (1 .. n) /\ 1 .. 0 = {}
           /\ \A k \in 1 .. n :
                /\ 1 .. k \in SUBSET (1 .. n) /\ 1 .. k # {}
                /\ Max(1 .. k) = k /\ (1 .. k) \ {k} = 1 .. k - 1
<1>. SUFFICES ASSUME NEW k \in 1 .. n
             PROVE  /\ 1 .. k \in SUBSET (1 .. n) /\ 1 .. k # {}
                    /\ Max(1 .. k) = k /\ (1 .. k) \ {k} = 1 .. k - 1
  OBVIOUS
<1>1. 1 .. k \in SUBSET (1 .. n) /\ k \in 1 .. k
  OBVIOUS
<1>2. Max(1 .. k) \in 1 .. k /\ Max(1 .. k) >= k
  BY <1>1, MaxIn
<1>. QED  BY <1>1, <1>2
\* Such a function holds the successive states of the loop.
Follows(n, U, h, c) ==
    \A k \in 1 .. n : c[1 .. k - 1] \in U => c[1 .. k] = h[k][c[1 .. k - 1]]

LEMMA FoldRuns ==
    ASSUME NEW n \in Nat, NEW U, NEW b \in U, NEW h \in [1 .. n -> [U -> U]], NEW c,
           c[{}] = b, Follows(n, U, h, c)
    PROVE  \A k \in 0 .. n : c[1 .. k] \in U
<1>. DEFINE T == {k \in Nat : k <= n => c[1 .. k] \in U}
<1>1. 0 \in T /\ c[1 .. 0] = b
  BY Segments
<1>2. ASSUME NEW k \in Nat, k \in T PROVE k + 1 \in T
  <2>. SUFFICES ASSUME k + 1 <= n PROVE c[1 .. k + 1] \in U
    OBVIOUS
  <2>1. c[1 .. k] \in U /\ k + 1 \in 1 .. n /\ (k + 1) - 1 = k
    BY <1>2
  <2>2. c[1 .. k + 1] = h[k + 1][c[1 .. k]]
    BY <2>1 DEF Follows
  <2>. QED  BY <2>1, <2>2
<1>. HIDE DEF T
<1>3. Nat \subseteq T
  BY <1>1, <1>2, NatSetInduction
<1>. QED  BY <1>3 DEF T

-----------------------------------------------------------------------------
(* The state of memory.  Every page that is not lost has a role, with the  *)
(* one place that may refer to it: the entry of a table, the link of the   *)
(* free page before it, or a root, the heap or free_list themselves.       *)

Frame == Page \cup {main_pt2}
WordType == [kind : {"clear", "link", "table", "leaf", "data"}, p : Nat, w : BOOLEAN]
Contents == [Word -> WordType]
MemType == [free_list : Page \cup {NULL}, satp : Frame, room : Nat, heap : SUBSET Page,
            stop : {"no", "panic", "wild"}, ram : [Frame -> Contents]]

\* The entry i of table t, in the tables of the two upper levels and of level 0.
Points(e, role, k, t, i) ==
    e = null_pte \/ \E p \in Page : e = ptab_pte(p) /\ role[p] = <<k, t, i>>

Maps(e, role, t, i) ==
    \/ e = null_pte
    \/ \E w \in BOOLEAN : e = leaf_pte(NULL, w)
    \/ \E p \in Page, w \in BOOLEAN : e = leaf_pte(p, w) /\ role[p] = <<"user", t, i>>

\* The contents c of frame f suit its role.
Fits(c, role, f) ==
    /\ role[f][1] = "root" => Points(c[0], role, "l1", f, 0)
    /\ role[f][1] = "l1" => \A i \in Word : Points(c[i], role, "l0", f, i)
    /\ role[f][1] = "l0" => \A i \in Word : Maps(c[i], role, f, i)
    /\ role[f][1] = "free" =>
         c[0] = null_pte \/ \E p \in Page : c[0] = link(p) /\ role[p] = <<"free", f, 0>>

\* The spaces of the roots in S, the free list and the heap have no page in common.
Good(m, S, role) ==
    /\ m \in MemType /\ S \subseteq Frame /\ main_pt2 \in S /\ m.satp \in S
    /\ \A r \in S : role[r] = <<"root", NULL, 0>>
    /\ \A f \in Frame : Fits(m.ram[f], role, f)
    /\ m.free_list # NULL => role[m.free_list] = <<"free", NULL, 0>>
    /\ \A p \in m.heap : role[p] = <<"heap", NULL, 0>>

Sound(m, S) == \E role : Good(m, S, role)

Assign(role, p, x) == [f \in Frame |-> IF f = p THEN x ELSE role[f]]
None == <<"none", NULL, 0>>

LEMMA Sizes ==
    /\ PageCnt \in Nat /\ main_pt2 \in Nat /\ Frame \subseteq Nat /\ Page \subseteq Frame
    /\ NULL \notin Frame /\ GARBAGE \notin Frame /\ NULL # GARBAGE /\ main_pt2 \notin Page
    /\ main_pt2 \in Frame /\ PTE_CNT \in Nat \ {0} /\ 0 \in Word /\ Word \subseteq Nat
BY MemoryAssumption DEF Page, Frame, main_pt2, NULL, GARBAGE, Word

LEMMA Words ==
    /\ null_pte \in WordType /\ null_pte.kind = "clear" /\ null_pte.p = NULL
    /\ \A p \in Nat : /\ ptab_pte(p) \in WordType /\ ptab_pte(p).kind = "table"
                      /\ ptab_pte(p).p = p
                      /\ link(p) \in WordType /\ link(p).kind \in {"clear", "link"}
                      /\ link(p).p = p
                      /\ data(p) \in WordType
    /\ \A p \in Nat, w \in BOOLEAN :
         /\ leaf_pte(p, w) \in WordType /\ leaf_pte(p, w).kind = "leaf"
         /\ leaf_pte(p, w).p = p /\ leaf_pte(p, w).w = w
    /\ ClearPage \in Contents
    /\ \A i \in Word : ClearPage[i] = null_pte
    /\ link(NULL) = null_pte
BY DEF null_pte, ptab_pte, leaf_pte, link, data, WordOf, WordType, NULL, ClearPage, Contents

-----------------------------------------------------------------------------
(* One frame changes *)

SetFrame(m, f, c) == [m EXCEPT !.ram = [@ EXCEPT ![f] = c]]

LEMMA SetFrameFacts ==
    ASSUME NEW m \in MemType, NEW f \in Frame, NEW c \in Contents
    PROVE  LET n == SetFrame(m, f, c) IN
           /\ n \in MemType /\ n.ram[f] = c
           /\ \A g \in Frame : g # f => n.ram[g] = m.ram[g]
           /\ n.free_list = m.free_list /\ n.satp = m.satp /\ n.room = m.room
           /\ n.heap = m.heap /\ n.stop = m.stop
BY DEF MemType, SetFrame

LEMMA SetWord ==
    ASSUME NEW m \in MemType, NEW f \in Frame, NEW i \in Word, NEW e \in WordType
    PROVE  LET c == [m.ram[f] EXCEPT ![i] = e] IN
           /\ [m EXCEPT !.ram[f][i] = e] = SetFrame(m, f, c)
           /\ c \in Contents /\ c[i] = e /\ \A j \in Word : j # i => c[j] = m.ram[f][j]
<1>1. m.ram[f] \in Contents
  BY DEF MemType
<1>2. [m EXCEPT !.ram[f][i] = e] = SetFrame(m, f, [m.ram[f] EXCEPT ![i] = e])
  BY DEF SetFrame
<1>. QED  BY <1>1, <1>2 DEF Contents

\* A role is given to a page that had none: nothing referred to it.
LEMMA Retype ==
    ASSUME NEW m, NEW S, NEW role, Good(m, S, role),
           NEW p \in Page, role[p] = None, NEW x,
           Fits(m.ram[p], Assign(role, p, x), p)
    PROVE  Good(m, S, Assign(role, p, x))
<1>. DEFINE new == Assign(role, p, x)
<1>1. \A f \in Frame : f # p => new[f] = role[f]
  BY DEF Assign
<1>2. \A f \in Frame : \A y : role[f] = y /\ y # None => new[f] = y
  BY <1>1
<1>. HIDE DEF new
<1>3. /\ p \in Frame /\ \A r \in S : new[r] = <<"root", NULL, 0>>
  <2>1. <<"root", NULL, 0>> # None
    BY DEF None
  <2>. QED  BY <1>2, <2>1, Sizes DEF Good
<1>4. ASSUME NEW f \in Frame PROVE Fits(m.ram[f], new, f)
  <2>1. CASE f = p
    BY <2>1 DEF new
  <2>2. CASE f # p
    <3>1. Fits(m.ram[f], role, f) /\ new[f] = role[f]
      BY <1>1, <2>2 DEF Good
    <3>2. ASSUME NEW q \in Page, NEW k, NEW t, NEW i, role[q] = <<k, t, i>>, k # "none"
          PROVE  new[q] = <<k, t, i>>
      <4>1. <<k, t, i>> # None
        BY <3>2 DEF None
      <4>. QED  BY <1>2, <3>2, <4>1, Sizes
    <3>. DEFINE c == m.ram[f]
    <3>. HIDE DEF c
    <3>3. ASSUME NEW e, NEW k, NEW t, NEW i, k # "none", Points(e, role, k, t, i)
          PROVE  Points(e, new, k, t, i)
      BY <3>2, <3>3 DEF Points
    <3>4. ASSUME NEW e, NEW i, Maps(e, role, f, i) PROVE Maps(e, new, f, i)
      BY <3>2, <3>4 DEF Maps
    <3>5. ASSUME NEW q \in Page, role[q] = <<"free", f, 0>> PROVE new[q] = <<"free", f, 0>>
      BY <3>2, <3>5
    <3>6. Fits(c, role, f)
      BY <3>1 DEF c
    <3>7. role[f][1] = "root" => Points(c[0], new, "l1", f, 0)
      BY <3>3, <3>6 DEF Fits
    <3>8. role[f][1] = "l1" => \A i \in Word : Points(c[i], new, "l0", f, i)
      BY <3>3, <3>6 DEF Fits
    <3>9. role[f][1] = "l0" => \A i \in Word : Maps(c[i], new, f, i)
      BY <3>4, <3>6 DEF Fits
    <3>10. role[f][1] = "free" =>
             c[0] = null_pte \/ \E q \in Page : c[0] = link(q) /\ new[q] = <<"free", f, 0>>
      BY <3>5, <3>6 DEF Fits
    <3>11. Fits(c, new, f)
      BY <3>1, <3>7, <3>8, <3>9, <3>10 DEF Fits
    <3>. QED  BY <3>11 DEF c
  <2>. QED  BY <2>1, <2>2
<1>5. m.free_list # NULL => new[m.free_list] = <<"free", NULL, 0>>
  <2>1. <<"free", NULL, 0>> # None
    BY DEF None
  <2>2. m.free_list # NULL => m.free_list \in Frame /\ role[m.free_list] = <<"free", NULL, 0>>
    BY Sizes DEF Good, MemType
  <2>. QED  BY <1>2, <2>1, <2>2
<1>6. \A q \in m.heap : new[q] = <<"heap", NULL, 0>>
  <2>1. <<"heap", NULL, 0>> # None
    BY DEF None
  <2>2. \A q \in m.heap : q \in Frame /\ role[q] = <<"heap", NULL, 0>>
    BY Sizes DEF Good, MemType
  <2>. QED  BY <1>2, <2>1, <2>2
<1>. QED  BY <1>3, <1>4, <1>5, <1>6 DEF Good, new

\* A frame is written, and suits its role as before.
LEMMA Rewrite ==
    ASSUME NEW m, NEW S, NEW role, Good(m, S, role),
           NEW f \in Frame, NEW c \in Contents, Fits(c, role, f)
    PROVE  Good(SetFrame(m, f, c), S, role)
<1>1. m \in MemType
  BY DEF Good
<1>. DEFINE n == SetFrame(m, f, c)
<1>2. /\ n \in MemType /\ n.ram[f] = c
      /\ \A g \in Frame : g # f => n.ram[g] = m.ram[g]
      /\ n.free_list = m.free_list /\ n.satp = m.satp /\ n.heap = m.heap
  BY <1>1, SetFrameFacts
<1>. HIDE DEF n
<1>3. \A g \in Frame : Fits(n.ram[g], role, g)
  BY <1>2 DEF Good
<1>4. Good(n, S, role)
  BY <1>2, <1>3 DEF Good
<1>. QED  BY <1>4 DEF n
LEMMA StopFacts ==
    ASSUME NEW m, NEW S, NEW role, Good(m, S, role), NEW why \in {"panic", "wild"}
    PROVE  LET n == Stop(m, why) IN
           /\ Good(n, S, role) /\ n.ram = m.ram /\ n.satp = m.satp /\ n.stop = why /\ ~Up(n)
<1>. DEFINE n == Stop(m, why)
<1>1. m \in MemType
  BY DEF Good
<1>2. /\ n \in MemType /\ n.ram = m.ram /\ n.free_list = m.free_list
      /\ n.satp = m.satp /\ n.heap = m.heap /\ n.stop = why
  BY <1>1 DEF MemType, Stop
<1>. HIDE DEF n
<1>3. Good(n, S, role)
  BY <1>2 DEF Good
<1>. QED  BY <1>2, <1>3 DEF n, Up

-----------------------------------------------------------------------------
(* Views *)

\* The root of the space that a frame belongs to.
RootOf(role, f) ==
    LET k == role[f][1]
        t == role[f][2]
    IN IF k = "root" THEN f
       ELSE IF k = "l1" THEN t
       ELSE IF k = "l0" THEN role[t][2]
       ELSE IF k = "user" THEN role[role[t][2]][2]
       ELSE NULL

LEMMA VpnParts ==
    ASSUME NEW v \in Vpn
    PROVE  VPN1(v) \in Word /\ VPN0(v) \in Word /\ v = PTE_CNT * VPN1(v) + VPN0(v)
BY MemoryAssumption DEF Vpn, VPN1, VPN0, Word

\* A walk in the space of root s passes the tables of that space.
LEMMA Walk ==
    ASSUME NEW m, NEW S, NEW role, Good(m, S, role), NEW s \in Frame,
           role[s][1] = "root", NEW v, VPN1(v) \in Word, VPN0(v) \in Word
    PROVE  LET t1 == m.ram[s][0].p
               t0 == m.ram[t1][VPN1(v)].p
               e  == m.ram[t0][VPN0(v)]
           IN \/ m.ram[s][0] = null_pte /\ lookup(m, s, v) = null_pte
              \/ /\ m.ram[s][0] = ptab_pte(t1) /\ t1 \in Page /\ role[t1] = <<"l1", s, 0>>
                 /\ \/ m.ram[t1][VPN1(v)] = null_pte /\ lookup(m, s, v) = null_pte
                    \/ /\ m.ram[t1][VPN1(v)] = ptab_pte(t0) /\ t0 \in Page
                       /\ role[t0] = <<"l0", t1, VPN1(v)>>
                       /\ lookup(m, s, v) = e /\ Maps(e, role, t0, VPN0(v))
<1>. DEFINE t1 == m.ram[s][0].p
            t0 == m.ram[t1][VPN1(v)].p
            e  == m.ram[t0][VPN0(v)]
<1>1. Points(m.ram[s][0], role, "l1", s, 0)
  BY DEF Good, Fits
<1>2. CASE m.ram[s][0] = null_pte
  <2>1. lookup(m, s, v) = null_pte
    BY <1>2, Words DEF lookup
  <2>. QED  BY <1>2, <2>1
<1>3. CASE m.ram[s][0] # null_pte
  <2>1. /\ m.ram[s][0] = ptab_pte(t1) /\ t1 \in Page /\ role[t1] = <<"l1", s, 0>>
        /\ m.ram[s][0].kind = "table"
    BY <1>1, <1>3, Words, Sizes DEF Points
  <2>. HIDE DEF t1
  <2>2. Points(m.ram[t1][VPN1(v)], role, "l0", t1, VPN1(v))
    <3>1. Fits(m.ram[t1], role, t1) /\ role[t1][1] = "l1"
      BY <2>1, Sizes DEF Good
    <3>. QED  BY <3>1 DEF Fits
  <2>3. CASE m.ram[t1][VPN1(v)] = null_pte
    <3>1. lookup(m, s, v) = null_pte
      BY <2>1, <2>3, Words DEF lookup, t1
    <3>. QED  BY <2>1, <2>3, <3>1 DEF t1
  <2>4. CASE m.ram[t1][VPN1(v)] # null_pte
    <3>1. /\ m.ram[t1][VPN1(v)] = ptab_pte(t0) /\ t0 \in Page
          /\ role[t0] = <<"l0", t1, VPN1(v)>> /\ m.ram[t1][VPN1(v)].kind = "table"
      BY <2>2, <2>4, Words, Sizes DEF Points
    <3>. HIDE DEF t0
    <3>2. Maps(e, role, t0, VPN0(v))
      <4>1. Fits(m.ram[t0], role, t0) /\ role[t0][1] = "l0"
        BY <3>1, Sizes DEF Good
      <4>. QED  BY <4>1 DEF Fits
    <3>3. lookup(m, s, v) = e
      BY <2>1, <3>1 DEF lookup, t1, t0
    <3>. HIDE DEF e
    <3>. QED  BY <2>1, <3>1, <3>2, <3>3 DEF t1, t0, e
  <2>. QED  BY <2>3, <2>4
<1>. QED  BY <1>2, <1>3

\* A leaf of a page, as opposed to a flag set in a clear entry.
LEMMA LeafPage ==
    ASSUME NEW e, NEW role, NEW t, NEW i, Maps(e, role, t, i), e.kind = "leaf", e.p # NULL
    PROVE  /\ e.p \in Page /\ role[e.p] = <<"user", t, i>>
           /\ e.w \in BOOLEAN /\ e = leaf_pte(e.p, e.w)
<1>1. e # null_pte /\ \A w \in BOOLEAN : e # leaf_pte(NULL, w)
  BY Words, Sizes DEF NULL
<1>2. PICK p \in Page, w \in BOOLEAN : e = leaf_pte(p, w) /\ role[p] = <<"user", t, i>>
  BY <1>1 DEF Maps
<1>3. e.p = p /\ e.w = w
  BY <1>2, Words, Sizes
<1>. QED  BY <1>2, <1>3

\* A walk depends on the tables of the space only.
LEMMA LookupSame ==
    ASSUME NEW m, NEW S, NEW role, Good(m, S, role), NEW s \in Frame,
           role[s] = <<"root", NULL, 0>>, NEW n, NEW v, VPN1(v) \in Word, VPN0(v) \in Word,
           \A f \in Frame : RootOf(role, f) = s /\ role[f][1] # "user" => n.ram[f] = m.ram[f]
    PROVE  lookup(n, s, v) = lookup(m, s, v)
<1>. DEFINE t1 == m.ram[s][0].p
            t0 == m.ram[t1][VPN1(v)].p
            e  == m.ram[t0][VPN0(v)]
<1>1. n.ram[s] = m.ram[s] /\ role[s][1] = "root"
  <2>1. RootOf(role, s) = s /\ role[s][1] # "user"
    BY DEF RootOf
  <2>. QED  BY <2>1
<1>2. \/ m.ram[s][0] = null_pte /\ lookup(m, s, v) = null_pte
      \/ /\ m.ram[s][0] = ptab_pte(t1) /\ t1 \in Page /\ role[t1] = <<"l1", s, 0>>
         /\ \/ m.ram[t1][VPN1(v)] = null_pte /\ lookup(m, s, v) = null_pte
            \/ /\ m.ram[t1][VPN1(v)] = ptab_pte(t0) /\ t0 \in Page
               /\ role[t0] = <<"l0", t1, VPN1(v)>>
               /\ lookup(m, s, v) = e /\ Maps(e, role, t0, VPN0(v))
  BY <1>1, Walk, Zenon
<1>. HIDE DEF e
<1>3. CASE m.ram[s][0] = null_pte /\ lookup(m, s, v) = null_pte
  BY <1>1, <1>3, Words DEF lookup
<1>. HIDE DEF t1
<1>4. CASE m.ram[s][0] = ptab_pte(t1) /\ t1 \in Page /\ role[t1] = <<"l1", s, 0>>
  <2>1. t1 \in Frame /\ n.ram[t1] = m.ram[t1]
    <3>1. RootOf(role, t1) = s /\ role[t1][1] # "user"
      BY <1>4 DEF RootOf
    <3>. QED  BY <1>4, <3>1, Sizes
  <2>2. CASE m.ram[t1][VPN1(v)] = null_pte /\ lookup(m, s, v) = null_pte
    BY <1>1, <1>4, <2>1, <2>2, Words, Sizes DEF lookup
  <2>. HIDE DEF t0
  <2>3. CASE /\ m.ram[t1][VPN1(v)] = ptab_pte(t0) /\ t0 \in Page
             /\ role[t0] = <<"l0", t1, VPN1(v)>> /\ lookup(m, s, v) = e
    <3>1. t0 \in Frame /\ n.ram[t0] = m.ram[t0]
      <4>1. RootOf(role, t0) = s /\ role[t0][1] # "user"
        BY <1>4, <2>3 DEF RootOf
      <4>. QED  BY <2>3, <4>1, Sizes
    <3>2. lookup(n, s, v) = n.ram[t0][VPN0(v)]
      <4>1. /\ ptab_pte(t1).kind = "table" /\ ptab_pte(t1).p = t1
            /\ ptab_pte(t0).kind = "table" /\ ptab_pte(t0).p = t0
        BY <1>4, <2>3, Words, Sizes
      <4>2. n.ram[s][0] = ptab_pte(t1) /\ n.ram[t1][VPN1(v)] = ptab_pte(t0)
        BY <1>1, <1>4, <2>1, <2>3
      <4>. QED  BY <4>1, <4>2 DEF lookup
    <3>. QED  BY <2>3, <3>1, <3>2 DEF e
  <2>4. m.ram[s][0] # null_pte
    BY <1>4, Words, Sizes
  <2>. QED  BY <1>2, <2>2, <2>3, <2>4
<1>. QED  BY <1>2, <1>3, <1>4

\* A walk finds a clear entry or a leaf.
LEMMA LookupKind ==
    ASSUME NEW m, NEW S, NEW role, Good(m, S, role), NEW v, VPN1(v) \in Word, VPN0(v) \in Word,
           lookup(m, m.satp, v).kind # "leaf"
    PROVE  lookup(m, m.satp, v) = null_pte
<1>. DEFINE s == m.satp
            t1 == m.ram[s][0].p
            t0 == m.ram[t1][VPN1(v)].p
            e  == m.ram[t0][VPN0(v)]
<1>1. s \in Frame /\ role[s][1] = "root"
  BY DEF Good
<1>. HIDE DEF s
<1>2. \/ m.ram[s][0] = null_pte /\ lookup(m, s, v) = null_pte
      \/ /\ m.ram[s][0] = ptab_pte(t1) /\ t1 \in Page /\ role[t1] = <<"l1", s, 0>>
         /\ \/ m.ram[t1][VPN1(v)] = null_pte /\ lookup(m, s, v) = null_pte
            \/ /\ m.ram[t1][VPN1(v)] = ptab_pte(t0) /\ t0 \in Page
               /\ role[t0] = <<"l0", t1, VPN1(v)>>
               /\ lookup(m, s, v) = e /\ Maps(e, role, t0, VPN0(v))
  BY <1>1, Walk, Zenon
<1>. HIDE DEF e, t0, t1
<1>3. lookup(m, s, v) = null_pte \/ (lookup(m, s, v) = e /\ Maps(e, role, t0, VPN0(v)))
  BY <1>2
<1>4. ASSUME lookup(m, s, v) = e, Maps(e, role, t0, VPN0(v)) PROVE lookup(m, s, v) = null_pte
  <2>1. e.kind # "leaf"
    BY <1>4 DEF s
  <2>2. \A p \in Page \cup {NULL}, w \in BOOLEAN : e # leaf_pte(p, w)
    BY <2>1, Words, Sizes DEF NULL
  <2>. QED  BY <1>4, <2>2 DEF Maps
<1>. QED  BY <1>3, <1>4 DEF s

\* The page that a space maps belongs to it.
LEMMA LeafRoot ==
    ASSUME NEW m, NEW S, NEW role, Good(m, S, role), NEW s \in Frame,
           role[s] = <<"root", NULL, 0>>, NEW v, VPN1(v) \in Word, VPN0(v) \in Word,
           lookup(m, s, v).kind = "leaf", lookup(m, s, v).p # NULL
    PROVE  LET p == lookup(m, s, v).p IN
           p \in Page /\ role[p][1] = "user" /\ RootOf(role, p) = s
<1>. DEFINE t1 == m.ram[s][0].p
            t0 == m.ram[t1][VPN1(v)].p
            e  == m.ram[t0][VPN0(v)]
<1>1. role[s][1] = "root" /\ lookup(m, s, v) # null_pte
  BY Words
<1>0. \/ m.ram[s][0] = null_pte /\ lookup(m, s, v) = null_pte
      \/ /\ m.ram[s][0] = ptab_pte(t1) /\ t1 \in Page /\ role[t1] = <<"l1", s, 0>>
         /\ \/ m.ram[t1][VPN1(v)] = null_pte /\ lookup(m, s, v) = null_pte
            \/ /\ m.ram[t1][VPN1(v)] = ptab_pte(t0) /\ t0 \in Page
               /\ role[t0] = <<"l0", t1, VPN1(v)>>
               /\ lookup(m, s, v) = e /\ Maps(e, role, t0, VPN0(v))
  BY <1>1, Walk, Zenon
<1>2. /\ role[t1] = <<"l1", s, 0>> /\ role[t0] = <<"l0", t1, VPN1(v)>>
      /\ lookup(m, s, v) = e /\ Maps(e, role, t0, VPN0(v))
  BY <1>0, <1>1
<1>. HIDE DEF e, t0, t1
<1>3. e.p \in Page /\ role[e.p] = <<"user", t0, VPN0(v)>>
  BY <1>2, LeafPage
<1>. QED  BY <1>2, <1>3 DEF RootOf

\* What a space maps depends on the frames that belong to it only.
LEMMA ViewSame ==
    ASSUME NEW m, NEW S, NEW role, Good(m, S, role), NEW s \in S, NEW n,
           \A f \in Frame : RootOf(role, f) = s => n.ram[f] = m.ram[f]
    PROVE  View(n, s) = View(m, s)
<1>. SUFFICES ASSUME NEW v \in Vpn
             PROVE  LET e == lookup(m, s, v)
                        d == lookup(n, s, v)
                    IN d = e /\ (e.kind = "leaf" /\ e.p # NULL => n.ram[e.p] = m.ram[e.p])
  BY DEF View
<1>1. s \in Frame /\ role[s] = <<"root", NULL, 0>> /\ VPN1(v) \in Word /\ VPN0(v) \in Word
  BY VpnParts DEF Good
<1>2. lookup(n, s, v) = lookup(m, s, v)
  BY <1>1, LookupSame
<1>. DEFINE e == lookup(m, s, v)
<1>3. ASSUME e.kind = "leaf", e.p # NULL PROVE n.ram[e.p] = m.ram[e.p]
  <2>1. e.p \in Page /\ RootOf(role, e.p) = s
    BY <1>1, <1>3, LeafRoot
  <2>. QED  BY <2>1, Sizes
<1>. QED  BY <1>2, <1>3

-----------------------------------------------------------------------------
(* memory_alloc_page *)

\* Pages that are not free keep their roles.
Kept(role, new) == \A f \in Frame : role[f][1] # "free" => new[f] = role[f]

\* Page p has been taken from the free list of m.
Taken(m, a, S, role, new, p) ==
    /\ Good(a, S, new) /\ Kept(role, new)
    /\ p \in Page /\ role[p] = <<"free", NULL, 0>> /\ new[p] = None
    /\ a.ram[p] = ClearPage /\ \A f \in Frame : f # p => a.ram[f] = m.ram[f]
    /\ a.satp = m.satp /\ a.room = m.room /\ a.heap = m.heap /\ a.stop = m.stop
    /\ \A s \in S : View(a, s) = View(m, s)

LEMMA AllocPage ==
    ASSUME NEW m, NEW S, NEW role, Good(m, S, role), Up(m)
    PROVE  LET a == memory_alloc_page(m) IN
           \/ m.free_list = NULL /\ a = Stop(m, "panic") /\ ~Up(a)
           \/ m.free_list # NULL /\ Up(a) /\ \E new : Taken(m, a, S, role, new, m.free_list)
<1>. DEFINE a == memory_alloc_page(m)
            p == m.free_list
            next == m.ram[p][0].p
            new == [f \in Frame |-> IF f = p THEN None
                                    ELSE IF f = next THEN <<"free", NULL, 0>> ELSE role[f]]
<1>0. m \in MemType /\ \A f \in Frame : Fits(m.ram[f], role, f)
  BY DEF Good
<1>1. CASE p = NULL
  <2>1. a = Stop(m, "panic")
    BY <1>1 DEF memory_alloc_page
  <2>. QED  BY <1>1, <2>1, StopFacts
<1>2. CASE p # NULL
  <2>1. p \in Page /\ p \in Frame /\ p # GARBAGE /\ role[p] = <<"free", NULL, 0>>
    BY <1>2, Sizes DEF Good, MemType
  <2>2. /\ m.ram[p][0].kind \in {"clear", "link"}
        /\ next = NULL \/ (next \in Page /\ role[next] = <<"free", p, 0>>)
    <3>1. role[p][1] = "free" /\ Fits(m.ram[p], role, p)
      BY <1>0, <2>1
    <3>2. CASE m.ram[p][0] = null_pte
      BY <3>2, Words
    <3>3. CASE \E q \in Page : m.ram[p][0] = link(q) /\ role[q] = <<"free", p, 0>>
      <4>1. PICK q \in Page : m.ram[p][0] = link(q) /\ role[q] = <<"free", p, 0>>
        BY <3>3
      <4>. QED  BY <4>1, Words, Sizes
    <3>. QED  BY <3>1, <3>2, <3>3 DEF Fits
  <2>3. a = [m EXCEPT !.free_list = next, !.ram = [@ EXCEPT ![p] = ClearPage]]
    BY <1>2, <2>1, <2>2 DEF memory_alloc_page, Up
  <2>. HIDE DEF a, next
  <2>4. /\ a \in MemType /\ a.free_list = next /\ a.ram[p] = ClearPage
        /\ \A f \in Frame : f # p => a.ram[f] = m.ram[f]
        /\ a.satp = m.satp /\ a.room = m.room /\ a.heap = m.heap /\ a.stop = m.stop
    <3>. DEFINE g == [m.ram EXCEPT ![p] = ClearPage]
    <3>1. m \in MemType /\ m.ram \in [Frame -> Contents] /\ ClearPage \in Contents
      BY <1>0, Words DEF MemType
    <3>2. g \in [Frame -> Contents] /\ g[p] = ClearPage /\ \A f \in Frame : f # p => g[f] = m.ram[f]
      BY <2>1, <3>1
    <3>3. a = [m EXCEPT !.free_list = next, !.ram = g]
      BY <2>3
    <3>. HIDE DEF g
    <3>4. next \in Page \cup {NULL}
      BY <2>2
    <3>5. a \in MemType
      BY <3>1, <3>2, <3>3, <3>4 DEF MemType
    <3>6. /\ a.free_list = next /\ a.ram = g
          /\ a.satp = m.satp /\ a.room = m.room /\ a.heap = m.heap /\ a.stop = m.stop
      BY <3>1, <3>3 DEF MemType
    <3>. QED  BY <3>2, <3>5, <3>6
  <2>. HIDE DEF p
  <2>5. next # p /\ next # main_pt2
    <3>1. CASE next = NULL
      BY <3>1, <2>1, Sizes
    <3>2. CASE next \in Page /\ role[next] = <<"free", p, 0>>
      <4>1. p # NULL
        BY <2>1, Sizes
      <4>2. <<"free", p, 0>> # <<"free", NULL, 0>>
        BY <4>1
      <4>. QED  BY <2>1, <3>2, <4>2, Sizes
    <3>. QED  BY <2>2, <3>1, <3>2
  <2>6. /\ new[p] = None
        /\ next # NULL => new[next] = <<"free", NULL, 0>> /\ next \in Frame
        /\ \A f \in Frame : f # p /\ f # next => new[f] = role[f]
    BY <2>1, <2>2, <2>5, Sizes
  <2>. HIDE DEF new
  <2>7. Kept(role, new)
    <3>. SUFFICES ASSUME NEW f \in Frame, role[f][1] # "free" PROVE new[f] = role[f]
      BY DEF Kept
    <3>1. f # p
      BY <2>1
    <3>2. f # next
      BY <2>2, Sizes
    <3>. QED  BY <2>6, <3>1, <3>2
  <2>8. ASSUME NEW f \in Frame, NEW k, NEW t, NEW i, role[f] = <<k, t, i>>, k # "free"
        PROVE  new[f] = <<k, t, i>>
    <3>1. role[f][1] # "free"
      BY <2>8
    <3>. QED  BY <2>7, <2>8, <3>1 DEF Kept
  <2>9. ASSUME NEW f \in Frame PROVE Fits(a.ram[f], new, f)
    <3>1. CASE f = p
      <4>1. new[f][1] = "none"
        BY <2>6, <3>1 DEF None
      <4>. QED  BY <4>1 DEF Fits
    <3>2. CASE f = next /\ f # p
      <4>1. /\ new[f][1] = "free" /\ role[f] = <<"free", p, 0>> /\ role[f][1] = "free"
            /\ a.ram[f] = m.ram[f]
        BY <2>2, <2>4, <2>6, <3>2, Sizes
      <4>2. ASSUME NEW q \in Page, role[q] = <<"free", f, 0>> PROVE new[q] = <<"free", f, 0>>
        <5>1. f # p /\ f # NULL
          BY <3>2, Sizes
        <5>2. q # p /\ q # next
          BY <2>1, <3>2, <4>1, <4>2, <5>1
        <5>. QED  BY <2>6, <4>2, <5>2, Sizes
      <4>. DEFINE c == m.ram[f]
      <4>. HIDE DEF c
      <4>3. Fits(c, role, f) /\ a.ram[f] = c
        BY <1>0, <4>1 DEF c
      <4>4. c[0] = null_pte \/ \E q \in Page : c[0] = link(q) /\ new[q] = <<"free", f, 0>>
        BY <4>1, <4>2, <4>3 DEF Fits
      <4>. QED  BY <4>1, <4>3, <4>4 DEF Fits
    <3>3. CASE f # next /\ f # p
      <4>1. new[f] = role[f] /\ a.ram[f] = m.ram[f]
        BY <2>4, <2>6, <3>3
      <4>. DEFINE c == m.ram[f]
      <4>. HIDE DEF c
      <4>2. Fits(c, role, f) /\ a.ram[f] = c
        BY <1>0, <4>1 DEF c
      <4>3. ASSUME NEW e, NEW k, NEW t, NEW i, k # "free", Points(e, role, k, t, i)
            PROVE  Points(e, new, k, t, i)
        BY <2>8, <4>3, Sizes DEF Points
      <4>4. ASSUME NEW e, NEW i, Maps(e, role, f, i) PROVE Maps(e, new, f, i)
        BY <2>8, <4>4, Sizes DEF Maps
      <4>5. ASSUME NEW q \in Page, role[q] = <<"free", f, 0>> PROVE new[q] = <<"free", f, 0>>
        <5>1. <<"free", NULL, 0>> # <<"free", f, 0>> /\ <<"free", p, 0>> # <<"free", f, 0>>
          BY <3>3, Sizes
        <5>2. q # p /\ q # next
          <6>1. q # p
            BY <2>1, <4>5, <5>1
          <6>2. q # next
            BY <2>2, <4>5, <5>1, Sizes
          <6>. QED  BY <6>1, <6>2
        <5>. QED  BY <2>6, <4>5, <5>2, Sizes
      <4>6. role[f][1] = "root" => Points(c[0], new, "l1", f, 0)
        BY <4>2, <4>3 DEF Fits
      <4>7. role[f][1] = "l1" => \A i \in Word : Points(c[i], new, "l0", f, i)
        BY <4>2, <4>3 DEF Fits
      <4>8. role[f][1] = "l0" => \A i \in Word : Maps(c[i], new, f, i)
        BY <4>2, <4>4 DEF Fits
      <4>9. role[f][1] = "free" =>
               c[0] = null_pte \/ \E q \in Page : c[0] = link(q) /\ new[q] = <<"free", f, 0>>
        BY <4>2, <4>5 DEF Fits
      <4>. QED  BY <4>1, <4>2, <4>6, <4>7, <4>8, <4>9 DEF Fits
    <3>. QED  BY <3>1, <3>2, <3>3
  <2>10. Good(a, S, new)
    <3>1. \A r \in S : new[r] = <<"root", NULL, 0>>
      BY <2>8 DEF Good
    <3>2. \A q \in a.heap : new[q] = <<"heap", NULL, 0>>
      BY <2>4, <2>8, Sizes DEF Good, MemType
    <3>3. a.free_list # NULL => new[a.free_list] = <<"free", NULL, 0>>
      BY <2>4, <2>6
    <3>4. S \subseteq Frame /\ main_pt2 \in S /\ a.satp \in S
      BY <2>4 DEF Good
    <3>. QED  BY <2>4, <2>9, <3>1, <3>2, <3>3, <3>4 DEF Good
  <2>11. ASSUME NEW s \in S PROVE View(a, s) = View(m, s)
    <3>1. RootOf(role, p) = NULL
      BY <2>1 DEF RootOf
    <3>2. s # NULL
      BY Sizes DEF Good
    <3>. QED  BY <2>4, <3>1, <3>2, ViewSame
  <2>12. Taken(m, a, S, role, new, p)
    BY <2>1, <2>4, <2>6, <2>7, <2>10, <2>11 DEF Taken
  <2>13. Up(a)
    BY <2>4 DEF Up
  <2>. QED  BY <1>2, <2>12, <2>13 DEF a, p
<1>. QED  BY <1>1, <1>2
-----------------------------------------------------------------------------
(* Entries of page tables *)

\* One word of frame f has changed.
OneWord(m, n, f, i, e) ==
    /\ n.ram[f][i] = e /\ \A j \in Word : j # i => n.ram[f][j] = m.ram[f][j]
    /\ \A g \in Frame : g # f => n.ram[g] = m.ram[g]
    /\ n.free_list = m.free_list /\ n.satp = m.satp /\ n.room = m.room
    /\ n.heap = m.heap /\ n.stop = m.stop

LEMMA PutWord ==
    ASSUME NEW m, NEW S, NEW role, Good(m, S, role), NEW f \in Frame, NEW i \in Word,
           NEW e \in WordType
    PROVE  LET n == [m EXCEPT !.ram[f][i] = e] IN
           /\ OneWord(m, n, f, i, e)
           /\ \A s \in S : s # RootOf(role, f) => View(n, s) = View(m, s)
<1>. DEFINE n == [m EXCEPT !.ram[f][i] = e]
            c == [m.ram[f] EXCEPT ![i] = e]
<1>1. m \in MemType
  BY DEF Good
<1>2. n = SetFrame(m, f, c) /\ c \in Contents /\ c[i] = e
      /\ \A j \in Word : j # i => c[j] = m.ram[f][j]
  BY <1>1, SetWord
<1>. HIDE DEF n, c
<1>3. /\ n.ram[f] = c /\ \A g \in Frame : g # f => n.ram[g] = m.ram[g]
      /\ n.free_list = m.free_list /\ n.satp = m.satp /\ n.room = m.room
      /\ n.heap = m.heap /\ n.stop = m.stop
  BY <1>1, <1>2, SetFrameFacts
<1>4. OneWord(m, n, f, i, e)
  BY <1>2, <1>3 DEF OneWord
<1>5. ASSUME NEW s \in S, s # RootOf(role, f) PROVE View(n, s) = View(m, s)
  BY <1>3, <1>5, ViewSame
<1>. QED  BY <1>4, <1>5 DEF n

\* An entry that suits the role of its table is written.
LEMMA PutEntry ==
    ASSUME NEW m, NEW S, NEW role, Good(m, S, role), NEW t \in Frame, NEW i \in Word,
           NEW e \in WordType, role[t][1] # "free",
           role[t][1] = "root" => i = 0 /\ Points(e, role, "l1", t, 0),
           role[t][1] = "l1" => Points(e, role, "l0", t, i),
           role[t][1] = "l0" => Maps(e, role, t, i)
    PROVE  Good([m EXCEPT !.ram[t][i] = e], S, role)
<1>. DEFINE c == [m.ram[t] EXCEPT ![i] = e]
<1>1. m \in MemType /\ Fits(m.ram[t], role, t)
  BY DEF Good
<1>2. /\ [m EXCEPT !.ram[t][i] = e] = SetFrame(m, t, c) /\ c \in Contents /\ c[i] = e
      /\ \A j \in Word : j # i => c[j] = m.ram[t][j]
  BY <1>1, SetWord
<1>. DEFINE b == m.ram[t]
<1>3. Fits(b, role, t) /\ \A j \in Word : j # i => c[j] = b[j]
  BY <1>1, <1>2
<1>. HIDE DEF c, b
<1>4. Fits(c, role, t)
  <2>1. role[t][1] = "root" => Points(c[0], role, "l1", t, 0)
    BY <1>2
  <2>2. role[t][1] = "l1" => \A j \in Word : Points(c[j], role, "l0", t, j)
    BY <1>2, <1>3 DEF Fits
  <2>3. role[t][1] = "l0" => \A j \in Word : Maps(c[j], role, t, j)
    BY <1>2, <1>3 DEF Fits
  <2>. QED  BY <2>1, <2>2, <2>3 DEF Fits
<1>. QED  BY <1>2, <1>4, Rewrite

\* A page that has no role yet is entered in a table.
LEMMA LinkPage ==
    ASSUME NEW m, NEW S, NEW role, Good(m, S, role), NEW p \in Page, role[p] = None,
           NEW t \in Frame, NEW i \in Word, NEW k, NEW e \in WordType,
           \/ role[t][1] = "root" /\ i = 0 /\ k = "l1"
           \/ role[t][1] = "l1" /\ k = "l0"
           \/ role[t][1] = "l0" /\ k = "user",
           k \in {"l1", "l0"} => e = ptab_pte(p) /\ m.ram[p] = ClearPage,
           k = "user" => \E w \in BOOLEAN : e = leaf_pte(p, w)
    PROVE  /\ Good([m EXCEPT !.ram[t][i] = e], S, Assign(role, p, <<k, t, i>>))
           /\ OneWord(m, [m EXCEPT !.ram[t][i] = e], t, i, e)
           /\ \A s \in S : s # RootOf(role, t) =>
                 View([m EXCEPT !.ram[t][i] = e], s) = View(m, s)
<1>. DEFINE new == Assign(role, p, <<k, t, i>>)
<1>1. t # p /\ p \in Frame
  BY Sizes DEF None
<1>2. new[p] = <<k, t, i>> /\ new[t] = role[t]
  BY <1>1 DEF Assign
<1>3. Good(m, S, new)
  <2>. HIDE DEF new
  <2>1. new[p][1] = k /\ k \in {"l1", "l0", "user"}
    BY <1>2
  <2>2. CASE k \in {"l1", "l0"}
    <3>1. \A j \in Word : m.ram[p][j] = null_pte
      BY <2>2, Words
    <3>. DEFINE c == m.ram[p]
    <3>2. \A j \in Word : c[j] = null_pte
      BY <3>1
    <3>. HIDE DEF c
    <3>3. Fits(c, new, p)
      BY <2>1, <2>2, <3>2, Sizes DEF Fits, Points, Maps
    <3>. QED  BY <3>3, Retype DEF new, c
  <2>3. CASE k = "user"
    <3>1. Fits(m.ram[p], new, p)
      BY <2>1, <2>3 DEF Fits
    <3>. QED  BY <3>1, Retype DEF new
  <2>. QED  BY <2>1, <2>2, <2>3
<1>. HIDE DEF new
<1>4. /\ new[t][1] # "free"
      /\ new[t][1] = "root" => i = 0 /\ Points(e, new, "l1", t, 0)
      /\ new[t][1] = "l1" => Points(e, new, "l0", t, i)
      /\ new[t][1] = "l0" => Maps(e, new, t, i)
  BY <1>2 DEF Points, Maps
<1>5. Good([m EXCEPT !.ram[t][i] = e], S, new)
  BY <1>3, <1>4, PutEntry
<1>. QED  BY <1>5, PutWord DEF new

\* An operation that works in the space of root r.
Works(m, d, S, role, new, r) ==
    /\ Good(d, S, new) /\ Kept(role, new) /\ d.satp = m.satp
    /\ \A s \in S : s # r => View(d, s) = View(m, s)

\* descend in a table makes the entry a table.
LEMMA Descend ==
    ASSUME NEW m, NEW S, NEW role, Good(m, S, role), NEW t \in Frame, NEW i \in Word,
           (role[t][1] = "root" /\ i = 0) \/ role[t][1] = "l1"
    PROVE  LET d == descend(m, t, i) IN
           /\ \E new : Works(m, d, S, role, new, RootOf(role, t))
           /\ Up(d) => Up(m) /\ d.ram[t][i].kind = "table"
           /\ \A f \in Frame : f # t /\ role[f][1] # "free" => d.ram[f] = m.ram[f]
<1>. DEFINE d == descend(m, t, i)
            e == m.ram[t][i]
            a == memory_alloc_page(m)
            p == m.free_list
            k == IF role[t][1] = "root" THEN "l1" ELSE "l0"
<1>1. Works(m, m, S, role, role, RootOf(role, t))
  BY DEF Works, Kept
<1>2. CASE ~Up(m)
  <2>1. d = m
    BY <1>2 DEF descend
  <2>. QED  BY <1>1, <1>2, <2>1
<1>3. CASE Up(m)
  <2>1. Points(e, role, k, t, i)
    BY DEF Good, Fits
  <2>2. CASE ~NotValid(e)
    <3>1. e.kind = "table"
      BY <2>1, <2>2, Words, Sizes DEF Points, NotValid
    <3>2. d = m
      BY <1>3, <2>2, <3>1 DEF descend
    <3>. QED  BY <1>1, <1>3, <3>1, <3>2
  <2>3. CASE NotValid(e)
    <3>1. CASE p = NULL
      <4>1. a = Stop(m, "panic") /\ ~Up(a)
        BY <1>3, <3>1, AllocPage
      <4>2. d = a
        BY <1>3, <2>3, <4>1 DEF descend
      <4>3. Good(a, S, role) /\ a.ram = m.ram /\ a.satp = m.satp
        BY <4>1, StopFacts
      <4>4. \A s \in S : View(a, s) = View(m, s)
        BY <4>3, ViewSame
      <4>5. Works(m, a, S, role, role, RootOf(role, t))
        BY <4>3, <4>4 DEF Works, Kept
      <4>. QED  BY <4>1, <4>2, <4>3, <4>5
    <3>2. CASE p # NULL
      <4>1. PICK mid : Taken(m, a, S, role, mid, p)
        BY <1>3, <3>2, AllocPage
      <4>2. Up(a)
        BY <1>3, <3>2, AllocPage
      <4>3. d = [a EXCEPT !.ram[t][i] = ptab_pte(p)]
        BY <1>3, <2>3, <4>2 DEF descend
      <4>. HIDE DEF d, a, p, k
      <4>4. mid[t] = role[t]
        BY <4>1 DEF Taken, Kept
      <4>5. /\ Good(a, S, mid) /\ p \in Page /\ mid[p] = None /\ a.ram[p] = ClearPage
            /\ \A s \in S : View(a, s) = View(m, s)
            /\ a.satp = m.satp
        BY <4>1 DEF Taken
      <4>6. ptab_pte(p) \in WordType
        BY <4>5, Words, Sizes
      <4>7. \/ mid[t][1] = "root" /\ i = 0 /\ k = "l1"
            \/ mid[t][1] = "l1" /\ k = "l0"
        BY <4>4 DEF k
      <4>. DEFINE new == Assign(mid, p, <<k, t, i>>)
      <4>8. /\ Good(d, S, new)
            /\ OneWord(a, d, t, i, ptab_pte(p))
        <5>1. k # "user"
          BY <4>7
        <5>. QED  BY <4>3, <4>5, <4>6, <4>7, <5>1, LinkPage
      <4>9. \A s \in S : s # RootOf(role, t) => View(d, s) = View(m, s)
        <5>1. ASSUME NEW s \in S, s # RootOf(role, t) PROVE View(d, s) = View(m, s)
          <6>1. ASSUME NEW f \in Frame, RootOf(role, f) = s PROVE d.ram[f] = m.ram[f]
            <7>1. f # t
              BY <5>1, <6>1
            <7>2. f # p
              <8>1. RootOf(role, p) = NULL
                BY <4>1 DEF Taken, RootOf
              <8>. QED  BY <6>1, <8>1, Sizes DEF Good
            <7>3. d.ram[f] = a.ram[f]
              BY <4>8, <7>1 DEF OneWord
            <7>4. a.ram[f] = m.ram[f]
              BY <4>1, <7>2 DEF Taken
            <7>. QED  BY <7>3, <7>4
          <6>. QED  BY <6>1, ViewSame
        <5>. QED  BY <5>1
      <4>10. Kept(role, new)
        <5>. SUFFICES ASSUME NEW f \in Frame, role[f][1] # "free" PROVE new[f] = role[f]
          BY DEF Kept
        <5>1. f # p
          BY <4>1 DEF Taken
        <5>. QED  BY <4>1, <5>1 DEF Assign, Taken, Kept
      <4>. HIDE DEF new
      <4>11. d.satp = m.satp /\ d.ram[t][i].kind = "table"
        BY <4>5, <4>8, Words, Sizes DEF OneWord
      <4>12. Works(m, d, S, role, new, RootOf(role, t))
        BY <4>8, <4>9, <4>10, <4>11 DEF Works
      <4>13. \A f \in Frame : f # t /\ role[f][1] # "free" => d.ram[f] = m.ram[f]
        BY <4>1, <4>8 DEF Taken, OneWord
      <4>. QED  BY <1>3, <4>11, <4>12, <4>13 DEF d
    <3>. QED  BY <3>1, <3>2
  <2>. QED  BY <2>2, <2>3
<1>. QED  BY <1>2, <1>3
LEMMA WorksTrans ==
    ASSUME NEW m, NEW a, NEW d, NEW S, NEW role, NEW mid, NEW new, NEW r,
           Works(m, a, S, role, mid, r), Works(a, d, S, mid, new, r),
           \A f \in Frame : role[f][1] # "free" => mid[f][1] # "free"
    PROVE  Works(m, d, S, role, new, r)
BY DEF Works, Kept

\* Pages that are not free do not become free.
LEMMA KeptNotFree ==
    ASSUME NEW role, NEW new, Kept(role, new)
    PROVE  \A f \in Frame : role[f][1] # "free" => new[f][1] # "free"
BY DEF Kept

LEMMA WorksNext ==
    ASSUME NEW m, NEW a, NEW d, NEW S, NEW role, NEW mid, NEW new, NEW r,
           Works(m, a, S, role, mid, r), Works(a, d, S, mid, new, r)
    PROVE  Works(m, d, S, role, new, r)
<1>1. Kept(role, mid)
  BY DEF Works
<1>2. \A f \in Frame : role[f][1] # "free" => mid[f][1] # "free"
  BY <1>1, KeptNotFree
<1>. QED  BY <1>2, WorksTrans

LEMMA WorksNot ==
    ASSUME NEW m, NEW S, NEW role, Good(m, S, role), NEW r
    PROVE  /\ Works(m, m, S, role, role, r)
           /\ \A why \in {"panic", "wild"} : Works(m, Stop(m, why), S, role, role, r)
<1>1. ASSUME NEW why \in {"panic", "wild"} PROVE Works(m, Stop(m, why), S, role, role, r)
  <2>. DEFINE n == Stop(m, why)
  <2>1. Good(n, S, role) /\ n.ram = m.ram /\ n.satp = m.satp
    BY StopFacts
  <2>2. \A s \in S : View(n, s) = View(m, s)
    BY <2>1, ViewSame
  <2>. HIDE DEF n
  <2>3. Works(m, n, S, role, role, r)
    BY <2>1, <2>2 DEF Works, Kept
  <2>. QED  BY <2>3 DEF n
<1>. QED  BY <1>1 DEF Works, Kept

LEMMA WorksTaken ==
    ASSUME NEW m, NEW a, NEW S, NEW role, NEW new, NEW p, NEW r, Taken(m, a, S, role, new, p)
    PROVE  Works(m, a, S, role, new, r)
BY DEF Works, Taken

\* A page is entered in a table of the space r.
LEMMA WorksLink ==
    ASSUME NEW m, NEW S, NEW role, Good(m, S, role), NEW p \in Page, role[p] = None,
           NEW t \in Frame, NEW i \in Word, NEW k, NEW e \in WordType,
           \/ role[t][1] = "root" /\ i = 0 /\ k = "l1"
           \/ role[t][1] = "l1" /\ k = "l0"
           \/ role[t][1] = "l0" /\ k = "user",
           k \in {"l1", "l0"} => e = ptab_pte(p) /\ m.ram[p] = ClearPage,
           k = "user" => \E w \in BOOLEAN : e = leaf_pte(p, w),
           NEW n, n = [m EXCEPT !.ram[t][i] = e]
    PROVE  /\ Good(n, S, Assign(role, p, <<k, t, i>>))
           /\ OneWord(m, n, t, i, e)
           /\ \A s \in S : s # RootOf(role, t) => View(n, s) = View(m, s)
           /\ \A f \in Frame : f # p => Assign(role, p, <<k, t, i>>)[f] = role[f]
           /\ Assign(role, p, <<k, t, i>>)[p] = <<k, t, i>>
<1>1. p \in Frame
  BY Sizes
<1>. QED  BY <1>1, LinkPage DEF Assign

\* memory_alloc_and_map_page works in the active space.
LEMMA MapPage ==
    ASSUME NEW m, NEW S, NEW role, Good(m, S, role), NEW v, VPN1(v) \in Word,
           VPN0(v) \in Word, NEW w \in BOOLEAN
    PROVE  \E new : Works(m, memory_alloc_and_map_page(m, v, w), S, role, new, m.satp)
<1>. DEFINE r == m.satp
            a == memory_alloc_page(m)
            p == m.free_list
            d1 == descend(a, a.satp, 0)
            t1 == d1.ram[a.satp][0].p
            d0 == IF Up(d1) THEN descend(d1, t1, VPN1(v)) ELSE d1
            t0 == table0(d0, d0.satp, v)
            n  == memory_alloc_and_map_page(m, v, w)
<1>0. r \in S /\ r \in Frame /\ role[r] = <<"root", NULL, 0>>
  BY DEF Good
<1>1. n = IF ~Up(d0) THEN d0 ELSE [d0 EXCEPT !.ram[t0][VPN0(v)] = leaf_pte(p, w)]
  BY DEF memory_alloc_and_map_page
<1>2. CASE ~Up(m) \/ p = NULL
  <2>1. (a = m \/ a = Stop(m, "panic")) /\ ~Up(a)
    <3>1. CASE ~Up(m)
      BY <3>1 DEF memory_alloc_page
    <3>2. CASE Up(m)
      BY <1>2, <3>2, AllocPage
    <3>. QED  BY <3>1, <3>2
  <2>2. d1 = a /\ d0 = d1 /\ n = d0
    <3>1. d1 = a
      BY <2>1 DEF descend
    <3>. QED  BY <1>1, <2>1, <3>1
  <2>. QED  BY <2>1, <2>2, WorksNot
<1>3. CASE Up(m) /\ p # NULL
  <2>1. Up(a) /\ \E ra : Taken(m, a, S, role, ra, p)
    BY <1>3, AllocPage
  <2>2. PICK ra : Taken(m, a, S, role, ra, p)
    BY <2>1
  <2>. HIDE DEF a, p, n
  <2>3. Works(m, a, S, role, ra, r) /\ Good(a, S, ra) /\ a.satp = r
    BY <2>2, WorksTaken DEF Taken
  <2>4. ra[r] = <<"root", NULL, 0>> /\ RootOf(ra, r) = r /\ p \in Page /\ ra[p] = None
    BY <1>0, <2>2, <2>3 DEF Good, Taken, RootOf
  <2>5. /\ \E rb : Works(a, d1, S, ra, rb, r)
        /\ Up(d1) => d1.ram[r][0].kind = "table"
    <3>1. d1 = descend(a, r, 0) /\ ra[r][1] = "root" /\ 0 \in Word
      BY <2>3, <2>4, Sizes
    <3>. HIDE DEF d1, r
    <3>. QED  BY <1>0, <2>3, <2>4, <3>1, Descend
  <2>6. PICK rb : Works(a, d1, S, ra, rb, r)
    BY <2>5
  <2>7. Works(m, d1, S, role, rb, r)
    BY <2>3, <2>6, WorksNext
  <2>8. CASE ~Up(d1)
    <3>1. d0 = d1 /\ n = d0
      BY <1>1, <2>8
    <3>. HIDE DEF d0, d1
    <3>. QED  BY <2>7, <3>1 DEF n
  <2>9. CASE Up(d1)
    <3>1. /\ Good(d1, S, rb) /\ d1.satp = r /\ rb[r] = <<"root", NULL, 0>>
          /\ rb[p] = None
      <4>1. Good(d1, S, rb) /\ d1.satp = r /\ Kept(ra, rb)
        BY <2>3, <2>6 DEF Works
      <4>2. p \in Frame /\ ra[p][1] # "free"
        BY <2>4, Sizes DEF None
      <4>. HIDE DEF d1, r
      <4>3. rb[p] = None
        BY <2>4, <4>1, <4>2 DEF Kept
      <4>4. rb[r] = <<"root", NULL, 0>>
        BY <1>0, <4>1 DEF Good
      <4>. QED  BY <4>1, <4>3, <4>4
    <3>2. t1 \in Page /\ rb[t1] = <<"l1", r, 0>> /\ d1.ram[r][0].p = t1
      <4>1. Points(d1.ram[r][0], rb, "l1", r, 0)
        BY <1>0, <3>1 DEF Good, Fits
      <4>2. d1.ram[r][0] # null_pte
        BY <2>5, <2>9, Words
      <4>. QED  BY <2>3, <4>1, <4>2, Words, Sizes DEF Points
    <3>3. d0 = descend(d1, t1, VPN1(v))
      BY <2>9
    <3>. HIDE DEF d1, t1, d0
    <3>4. t1 \in Frame /\ t1 # r /\ RootOf(rb, t1) = r
      BY <3>1, <3>2, Sizes DEF RootOf
    <3>5. /\ \E rc : Works(d1, d0, S, rb, rc, r)
          /\ Up(d0) => d0.ram[t1][VPN1(v)].kind = "table"
          /\ \A f \in Frame : f # t1 /\ rb[f][1] # "free" => d0.ram[f] = d1.ram[f]
      BY <3>1, <3>2, <3>3, <3>4, Descend
    <3>6. PICK rc : Works(d1, d0, S, rb, rc, r)
      BY <3>5
    <3>7. Works(m, d0, S, role, rc, r)
      BY <2>7, <3>6, WorksNext
    <3>8. CASE ~Up(d0)
      BY <1>1, <3>7, <3>8 DEF n
    <3>9. CASE Up(d0)
      <4>1. /\ Good(d0, S, rc) /\ d0.satp = r /\ rc[t1] = <<"l1", r, 0>> /\ rc[p] = None
            /\ d0.ram[r] = d1.ram[r]
        <5>1. Good(d0, S, rc) /\ d0.satp = r /\ Kept(rb, rc)
          BY <3>1, <3>6 DEF Works
        <5>2. p \in Frame /\ rb[p][1] # "free" /\ rb[t1][1] # "free" /\ rb[r][1] # "free"
          BY <2>4, <3>1, <3>2, Sizes DEF None
        <5>. HIDE DEF r
        <5>3. rc[p] = None /\ rc[t1] = <<"l1", r, 0>>
          BY <3>1, <3>2, <3>4, <5>1, <5>2 DEF Kept
        <5>4. d0.ram[r] = d1.ram[r]
          BY <1>0, <3>4, <3>5, <5>2
        <5>. QED  BY <5>1, <5>3, <5>4
      <4>2. t0 = d0.ram[t1][VPN1(v)].p
        BY <3>2, <4>1 DEF table0
      <4>3. t0 \in Page /\ rc[t0] = <<"l0", t1, VPN1(v)>>
        <5>1. Fits(d0.ram[t1], rc, t1) /\ rc[t1][1] = "l1"
          BY <3>4, <4>1 DEF Good
        <5>2. Points(d0.ram[t1][VPN1(v)], rc, "l0", t1, VPN1(v))
          BY <5>1 DEF Fits
        <5>3. d0.ram[t1][VPN1(v)] # null_pte
          BY <3>5, <3>9, Words
        <5>. QED  BY <4>2, <5>2, <5>3, Words, Sizes DEF Points
      <4>. HIDE DEF t0
      <4>4. t0 \in Frame /\ RootOf(rc, t0) = r /\ rc[t0][1] = "l0"
        BY <4>1, <4>3, Sizes DEF RootOf
      <4>5. leaf_pte(p, w) \in WordType
        BY <2>4, Words, Sizes
      <4>6. n = [d0 EXCEPT !.ram[t0][VPN0(v)] = leaf_pte(p, w)]
        BY <1>1, <3>9
      <4>. DEFINE rd == Assign(rc, p, <<"user", t0, VPN0(v)>>)
      <4>7. /\ Good(n, S, rd)
            /\ OneWord(d0, n, t0, VPN0(v), leaf_pte(p, w))
            /\ \A s \in S : s # r => View(n, s) = View(d0, s)
            /\ \A f \in Frame : f # p => rd[f] = rc[f]
        <5>1. Good(d0, S, rc) /\ p \in Page /\ rc[p] = None /\ VPN0(v) \in Word /\ w \in BOOLEAN
          BY <2>4, <4>1, <4>4
        <5>2. \E u \in BOOLEAN : leaf_pte(p, w) = leaf_pte(p, u)
          BY <5>1
        <5>3. "user" \notin {"l1", "l0"}
          OBVIOUS
        <5>4. /\ Good(n, S, rd)
              /\ OneWord(d0, n, t0, VPN0(v), leaf_pte(p, w))
              /\ \A s \in S : s # RootOf(rc, t0) => View(n, s) = View(d0, s)
              /\ \A f \in Frame : f # p => rd[f] = rc[f]
          BY <4>4, <4>5, <4>6, <5>1, <5>2, <5>3, WorksLink
        <5>. QED  BY <4>4, <5>4
      <4>. HIDE DEF rd
      <4>8. Works(m, n, S, role, rd, r)
        <5>1. Kept(role, rd)
          <6>. SUFFICES ASSUME NEW f \in Frame, role[f][1] # "free" PROVE rd[f] = role[f]
            BY DEF Kept
          <6>1. f # p
            BY <2>2 DEF Taken
          <6>. QED  BY <3>7, <4>7, <6>1 DEF Works, Kept
        <5>2. n.satp = m.satp
          BY <4>1, <4>7 DEF OneWord
        <5>3. \A s \in S : s # r => View(n, s) = View(m, s)
          BY <3>7, <4>7 DEF Works
        <5>. QED  BY <4>7, <5>1, <5>2, <5>3 DEF Works
      <4>. QED  BY <4>8 DEF n
    <3>. QED  BY <3>8, <3>9
  <2>. QED  BY <2>8, <2>9
<1>. QED  BY <1>2, <1>3
\* A frame of the space r is written; no role changes.
LEMMA WorksPut ==
    ASSUME NEW m, NEW S, NEW role, Good(m, S, role), NEW t \in Frame, NEW i \in Word,
           NEW e \in WordType, NEW n, n = [m EXCEPT !.ram[t][i] = e], NEW r, RootOf(role, t) = r,
           Good(n, S, role)
    PROVE  Works(m, n, S, role, role, r)
<1>1. /\ OneWord(m, n, t, i, e)
      /\ \A s \in S : s # RootOf(role, t) => View(n, s) = View(m, s)
  BY PutWord
<1>. QED  BY <1>1 DEF Works, Kept, OneWord

\* memory_set_page_flags works in the active space.
LEMMA SetFlags ==
    ASSUME NEW m, NEW S, NEW role, Good(m, S, role), NEW v, VPN1(v) \in Word,
           VPN0(v) \in Word, NEW w \in BOOLEAN
    PROVE  Works(m, memory_set_page_flags(m, v, w), S, role, role, m.satp)
<1>. DEFINE r == m.satp
            n == memory_set_page_flags(m, v, w)
            t1 == m.ram[r][0].p
            t0 == m.ram[t1][VPN1(v)].p
            e  == m.ram[t0][VPN0(v)]
            found == m.ram[r][0].kind = "table" /\ m.ram[t1][VPN1(v)].kind = "table"
<1>1. CASE ~Up(m) \/ ~found
  <2>1. n = m \/ n = Stop(m, "panic")
    BY <1>1 DEF memory_set_page_flags
  <2>. QED  BY <2>1, WorksNot
<1>2. CASE Up(m) /\ found
  <2>0. r \in Frame /\ role[r] = <<"root", NULL, 0>> /\ role[r][1] = "root"
    BY DEF Good
  <2>1. n = [m EXCEPT !.ram[t0][VPN0(v)] = leaf_pte(e.p, w)]
    BY <1>2 DEF memory_set_page_flags, table0
  <2>2. \/ m.ram[r][0] = null_pte /\ lookup(m, r, v) = null_pte
        \/ /\ m.ram[r][0] = ptab_pte(t1) /\ t1 \in Page /\ role[t1] = <<"l1", r, 0>>
           /\ \/ m.ram[t1][VPN1(v)] = null_pte /\ lookup(m, r, v) = null_pte
              \/ /\ m.ram[t1][VPN1(v)] = ptab_pte(t0) /\ t0 \in Page
                 /\ role[t0] = <<"l0", t1, VPN1(v)>>
                 /\ lookup(m, r, v) = e /\ Maps(e, role, t0, VPN0(v))
    <3>. HIDE DEF r
    <3>. QED  BY <2>0, Walk, Zenon
  <2>3. m.ram[r][0] # null_pte /\ m.ram[t1][VPN1(v)] # null_pte
    BY <1>2, Words
  <2>. HIDE DEF n, e, t0, t1, r
  <2>4. /\ t1 \in Page /\ role[t1] = <<"l1", r, 0>>
        /\ t0 \in Page /\ role[t0] = <<"l0", t1, VPN1(v)>> /\ Maps(e, role, t0, VPN0(v))
    BY <2>2, <2>3
  <2>5. t0 \in Frame /\ RootOf(role, t0) = r /\ role[t0][1] = "l0"
    BY <2>4, Sizes DEF RootOf
  <2>6. leaf_pte(e.p, w) \in WordType /\ Maps(leaf_pte(e.p, w), role, t0, VPN0(v))
    <3>1. CASE e = null_pte \/ \E x \in BOOLEAN : e = leaf_pte(NULL, x)
      <4>1. e.p = NULL /\ NULL \in Nat
        BY <3>1, Words DEF NULL
      <4>. QED  BY <4>1, Words DEF Maps
    <3>2. CASE \E p \in Page, x \in BOOLEAN :
                 e = leaf_pte(p, x) /\ role[p] = <<"user", t0, VPN0(v)>>
      <4>1. e.p \in Page /\ role[e.p] = <<"user", t0, VPN0(v)>>
        BY <3>2, Words, Sizes
      <4>. QED  BY <4>1, Words, Sizes DEF Maps
    <3>. QED  BY <2>4, <3>1, <3>2 DEF Maps
  <2>7. Good(n, S, role)
    BY <2>1, <2>5, <2>6, PutEntry
  <2>8. Works(m, n, S, role, role, r)
    BY <2>1, <2>5, <2>6, <2>7, WorksPut
  <2>. QED  BY <2>8 DEF n, r
<1>. QED  BY <1>1, <1>2

\* A store works in the active space, and changes no table.
LEMMA StoreFacts ==
    ASSUME NEW m, NEW S, NEW role, Good(m, S, role), NEW v, VPN1(v) \in Word,
           VPN0(v) \in Word, NEW i \in Word, NEW d \in Nat, lookup(m, m.satp, v).kind = "leaf"
    PROVE  LET n == store(m, v, i, d) IN
           /\ Works(m, n, S, role, role, m.satp)
           /\ lookup(n, n.satp, v) = lookup(m, m.satp, v)
<1>. DEFINE r == m.satp
            n == store(m, v, i, d)
            p == lookup(m, r, v).p
<1>0. r \in Frame /\ role[r] = <<"root", NULL, 0>>
  BY DEF Good
<1>1. CASE p = NULL
  <2>1. n = Stop(m, "panic")
    BY <1>1 DEF store
  <2>2. n.satp = r /\ n.ram = m.ram
    BY <2>1, StopFacts
  <2>3. lookup(n, r, v) = lookup(m, r, v)
    BY <2>2 DEF lookup
  <2>. QED  BY <2>1, <2>2, <2>3, WorksNot
<1>2. CASE p # NULL
  <2>1. n = [m EXCEPT !.ram[p][i] = data(d)]
    BY <1>2 DEF store
  <2>2. p \in Page /\ role[p][1] = "user" /\ RootOf(role, p) = r
    BY <1>0, <1>2, LeafRoot
  <2>3. p \in Frame /\ data(d) \in WordType
    BY <2>2, Words, Sizes
  <2>. HIDE DEF n, p
  <2>4. Good(n, S, role)
    BY <2>1, <2>2, <2>3, PutEntry
  <2>5. Works(m, n, S, role, role, r)
    BY <2>1, <2>2, <2>3, <2>4, WorksPut
  <2>6. OneWord(m, n, p, i, data(d))
    BY <2>1, <2>3, PutWord
  <2>7. lookup(n, r, v) = lookup(m, r, v)
    <3>1. \A f \in Frame : RootOf(role, f) = r /\ role[f][1] # "user" => n.ram[f] = m.ram[f]
      BY <2>2, <2>6 DEF OneWord
    <3>. QED  BY <1>0, <3>1, LookupSame
  <2>8. n.satp = r
    BY <2>6 DEF OneWord
  <2>. QED  BY <2>5, <2>7, <2>8 DEF n
<1>. QED  BY <1>1, <1>2

\* kmalloc works in no space.
LEMMA KmallocFacts ==
    ASSUME NEW m, NEW S, NEW role, Good(m, S, role)
    PROVE  \E new : Works(m, kmalloc(m, 1), S, role, new, NULL)
<1>. DEFINE n == kmalloc(m, 1)
            a == memory_alloc_page(m)
            p == m.free_list
<1>0. m \in MemType
  BY DEF Good
<1>1. CASE ~Up(m)
  <2>1. n = m
    BY <1>1 DEF kmalloc
  <2>. QED  BY <2>1, WorksNot
<1>2. CASE Up(m) /\ 1 <= m.room
  <2>1. n = [m EXCEPT !.room = m.room - 1]
    BY <1>2 DEF kmalloc
  <2>. HIDE DEF n
  <2>2. /\ n \in MemType /\ n.ram = m.ram /\ n.satp = m.satp /\ n.free_list = m.free_list
        /\ n.heap = m.heap
    BY <1>0, <1>2, <2>1 DEF MemType
  <2>3. Good(n, S, role)
    BY <2>2 DEF Good
  <2>4. \A s \in S : View(n, s) = View(m, s)
    BY <2>2, ViewSame
  <2>5. Works(m, n, S, role, role, NULL)
    BY <2>2, <2>3, <2>4 DEF Works, Kept
  <2>. QED  BY <2>5 DEF n
<1>3. CASE Up(m) /\ ~(1 <= m.room)
  <2>1. n = IF ~Up(a) THEN a
            ELSE [a EXCEPT !.heap = @ \cup {p},
                           !.room = IF @ < PageRoom - 1 THEN PageRoom - 1 ELSE @]
    BY <1>3 DEF kmalloc
  <2>2. CASE p = NULL
    <3>1. a = Stop(m, "panic") /\ ~Up(a)
      BY <1>3, <2>2, AllocPage
    <3>2. n = a
      BY <2>1, <3>1
    <3>. QED  BY <3>1, <3>2, WorksNot
  <2>3. CASE p # NULL
    <3>1. Up(a)
      BY <1>3, <2>3, AllocPage
    <3>2. PICK mid : Taken(m, a, S, role, mid, p)
      BY <1>3, <2>3, AllocPage
    <3>3. n = [a EXCEPT !.heap = @ \cup {p},
                        !.room = IF @ < PageRoom - 1 THEN PageRoom - 1 ELSE @]
      BY <2>1, <3>1
    <3>. HIDE DEF n, a, p
    <3>4. /\ Good(a, S, mid) /\ p \in Page /\ mid[p] = None /\ a.satp = m.satp
          /\ p \in Frame /\ a \in MemType
      BY <3>2, Sizes DEF Taken, Good
    <3>5. /\ n \in MemType /\ n.ram = a.ram /\ n.satp = a.satp /\ n.free_list = a.free_list
          /\ n.heap = a.heap \cup {p}
      <4>. DEFINE x == IF a.room < PageRoom - 1 THEN PageRoom - 1 ELSE a.room
      <4>1. a.room \in Nat /\ PageRoom - 1 \in Nat
        BY <3>4, MemoryAssumption DEF MemType
      <4>2. x \in Nat
        BY <4>1
      <4>3. n = [a EXCEPT !.heap = @ \cup {p}, !.room = x]
        BY <3>3
      <4>. HIDE DEF x
      <4>. QED  BY <3>4, <4>2, <4>3 DEF MemType
    <3>. DEFINE new == Assign(mid, p, <<"heap", NULL, 0>>)
    <3>6. Good(a, S, new)
      <4>1. new[p][1] = "heap"
        BY <3>4 DEF Assign
      <4>2. Fits(a.ram[p], new, p)
        BY <4>1 DEF Fits
      <4>. QED  BY <3>4, <4>2, Retype
    <3>7. new[p] = <<"heap", NULL, 0>>
      BY <3>4 DEF Assign
    <3>8. Kept(role, new)
      <4>. SUFFICES ASSUME NEW f \in Frame, role[f][1] # "free" PROVE new[f] = role[f]
        BY DEF Kept
      <4>1. f # p
        BY <3>2 DEF Taken
      <4>. QED  BY <3>2, <4>1 DEF Assign, Taken, Kept
    <3>. HIDE DEF new
    <3>9. Good(n, S, new)
      BY <3>5, <3>6, <3>7 DEF Good
    <3>10. \A s \in S : View(n, s) = View(m, s)
      <4>1. \A s \in S : View(n, s) = View(a, s)
        BY <3>4, <3>5, ViewSame
      <4>. QED  BY <3>2, <4>1 DEF Taken
    <3>11. Works(m, n, S, role, new, NULL)
      BY <3>4, <3>5, <3>8, <3>9, <3>10 DEF Works
    <3>. QED  BY <3>11 DEF n
  <2>. QED  BY <2>2, <2>3
<1>. QED  BY <1>1, <1>2, <1>3

LEMMA SwitchFacts ==
    ASSUME NEW m, NEW S, NEW role, Good(m, S, role), NEW r \in S
    PROVE  LET n == memory_space_switch(m, r) IN
           /\ Good(n, S, role) /\ n.satp = r /\ n.ram = m.ram /\ n.stop = m.stop
           /\ \A s \in S : View(n, s) = View(m, s)
<1>. DEFINE n == memory_space_switch(m, r)
<1>0. m \in MemType /\ r \in Frame
  BY DEF Good
<1>1. /\ n \in MemType /\ n.ram = m.ram /\ n.satp = r /\ n.free_list = m.free_list
      /\ n.heap = m.heap /\ n.stop = m.stop
  BY <1>0 DEF MemType, memory_space_switch
<1>. HIDE DEF n
<1>2. Good(n, S, role)
  BY <1>1 DEF Good
<1>3. \A s \in S : View(n, s) = View(m, s)
  BY <1>1, ViewSame
<1>. QED  BY <1>1, <1>2, <1>3 DEF n
-----------------------------------------------------------------------------
(* The loops over pages *)

\* The states that operations in the space r lead to from m.
Reach(m, S, r) ==
    {x \in MemType : /\ x.satp = m.satp /\ Sound(x, S)
                     /\ \A s \in S : s # r => View(x, s) = View(m, s)}

LEMMA ReachStep ==
    ASSUME NEW m, NEW S, NEW r, NEW x \in Reach(m, S, r), NEW n,
           \A role : Good(x, S, role) => \E new : Works(x, n, S, role, new, r)
    PROVE  n \in Reach(m, S, r)
<1>1. PICK role : Good(x, S, role)
  BY DEF Reach, Sound
<1>2. PICK new : Works(x, n, S, role, new, r)
  BY <1>1
<1>3. n \in MemType /\ Sound(n, S) /\ n.satp = x.satp
  BY <1>2 DEF Works, Good, Sound
<1>. QED  BY <1>2, <1>3 DEF Reach, Works

LEMMA PagesFacts ==
    ASSUME NEW v \in Nat, NEW n \in Nat, v + n <= PTE_CNT * PTE_CNT
    PROVE  /\ DOMAIN Pages(v, n) = 1 .. n
           /\ \A k \in 1 .. n : Pages(v, n)[k] = v + k - 1 /\ Pages(v, n)[k] \in Vpn
<1>1. PTE_CNT * PTE_CNT \in Nat
  BY MemoryAssumption
<1>. DEFINE z == PTE_CNT * PTE_CNT
<1>2. z \in Nat /\ v + n <= z /\ Vpn = 0 .. z - 1
  BY <1>1 DEF Vpn
<1>. HIDE DEF z
<1>. QED  BY <1>2 DEF Pages

\* memory_alloc_and_map_range works in the active space.
LEMMA MapRange ==
    ASSUME NEW m, NEW S, Sound(m, S), NEW v \in Nat, NEW n \in Nat,
           v + n <= PTE_CNT * PTE_CNT
    PROVE  memory_alloc_and_map_range(m, v, n) \in Reach(m, S, m.satp)
<1>. DEFINE U == Reach(m, S, m.satp)
            q == Pages(v, n)
            Op(x, u) == memory_alloc_and_map_page(x, u, TRUE)
            h == [k \in 1 .. n |-> [x \in U |-> Op(x, q[k])]]
            F(g) == [t \in SUBSET (1 .. n) |-> IF t = {} THEN m ELSE Op(g[t \ {Max(t)}], q[Max(t)])]
            c == CHOOSE g : g = F(g)
<1>0. n \in Nat /\ DOMAIN q = 1 .. n /\ \A k \in 1 .. n : q[k] \in Vpn
  BY PagesFacts
<1>1. m \in U
  BY DEF Reach, Sound, Good
<1>2. ASSUME NEW x \in U, NEW k \in 1 .. n PROVE Op(x, q[k]) \in U
  <2>1. VPN1(q[k]) \in Word /\ VPN0(q[k]) \in Word
    BY <1>0, VpnParts
  <2>2. x.satp = m.satp
    BY DEF Reach
  <2>3. ASSUME NEW role, Good(x, S, role)
        PROVE  \E new : Works(x, Op(x, q[k]), S, role, new, m.satp)
    BY <2>1, <2>2, <2>3, MapPage
  <2>. HIDE DEF Op, q
  <2>. QED  BY <2>3, ReachStep
<1>3. memory_alloc_and_map_range(m, v, n) = c[1 .. n]
  BY <1>0 DEF memory_alloc_and_map_range, FoldLeft, MapThenFoldSet
<1>. HIDE DEF U, q, Op
<1>4. h \in [1 .. n -> [U -> U]] /\ \A x \in U, k \in 1 .. n : h[k][x] = Op(x, q[k])
  BY <1>2
<1>. HIDE DEF h
<1>5. c = F(c)
  <2>1. PICK g \in [SUBSET (1 .. n) -> U] : IsFold(n, m, h, g)
    <3>1. h \in [1 .. n -> [U -> U]]
      BY <1>4
    <3>. QED  BY <1>0, <1>1, <3>1, FoldExists
  <2>2. ASSUME NEW t \in SUBSET (1 .. n)
        PROVE  g[t] = IF t = {} THEN m ELSE Op(g[t \ {Max(t)}], q[Max(t)])
    <3>1. t # {} => Max(t) \in 1 .. n /\ t \ {Max(t)} \in SUBSET (1 .. n)
      BY <1>0, MaxIn
    <3>. QED  BY <1>4, <2>1, <3>1 DEF IsFold
  <2>3. g = F(g)
    BY <2>2
  <2>. HIDE DEF F
  <2>. QED  BY <2>3
<1>. HIDE DEF c
<1>6. /\ c[{}] = m
      /\ \A k \in 1 .. n : c[1 .. k] = Op(c[1 .. k - 1], q[k])
  <2>1. \A t \in SUBSET (1 .. n) : c[t] = IF t = {} THEN m ELSE Op(c[t \ {Max(t)}], q[Max(t)])
    BY <1>5
  <2>2. n \in Nat
    BY <1>0
  <2>3. c[{}] = m
    BY <2>1
  <2>4. ASSUME NEW k \in 1 .. n PROVE c[1 .. k] = Op(c[1 .. k - 1], q[k])
    <3>1. /\ 1 .. k \in SUBSET (1 .. n) /\ 1 .. k # {}
          /\ Max(1 .. k) = k /\ (1 .. k) \ {k} = 1 .. k - 1
      BY <2>2, Segments
    <3>. QED  BY <2>1, <3>1
  <2>. QED  BY <2>3, <2>4
<1>7. \A k \in 0 .. n : c[1 .. k] \in U
  <2>1. h \in [1 .. n -> [U -> U]]
    BY <1>4
  <2>2. Follows(n, U, h, c)
    BY <1>4, <1>6 DEF Follows
  <2>. QED  BY <1>0, <1>1, <1>6, <2>1, <2>2, FoldRuns
<1>. QED  BY <1>0, <1>3, <1>7 DEF U

\* memory_set_range_flags works in the active space.
LEMMA SetRange ==
    ASSUME NEW m, NEW S, Sound(m, S), NEW v \in Nat, NEW n \in Nat,
           v + n <= PTE_CNT * PTE_CNT, NEW w \in BOOLEAN
    PROVE  memory_set_range_flags(m, v, n, w) \in Reach(m, S, m.satp)
<1>. DEFINE U == Reach(m, S, m.satp)
            q == Pages(v, n)
            Op(x, u) == memory_set_page_flags(x, u, w)
            h == [k \in 1 .. n |-> [x \in U |-> Op(x, q[k])]]
            F(g) == [t \in SUBSET (1 .. n) |-> IF t = {} THEN m ELSE Op(g[t \ {Max(t)}], q[Max(t)])]
            c == CHOOSE g : g = F(g)
<1>0. n \in Nat /\ DOMAIN q = 1 .. n /\ \A k \in 1 .. n : q[k] \in Vpn
  BY PagesFacts
<1>1. m \in U
  BY DEF Reach, Sound, Good
<1>2. ASSUME NEW x \in U, NEW k \in 1 .. n PROVE Op(x, q[k]) \in U
  <2>1. VPN1(q[k]) \in Word /\ VPN0(q[k]) \in Word
    BY <1>0, VpnParts
  <2>2. x.satp = m.satp
    BY DEF Reach
  <2>3. ASSUME NEW role, Good(x, S, role)
        PROVE  \E new : Works(x, Op(x, q[k]), S, role, new, m.satp)
    BY <2>1, <2>2, <2>3, SetFlags
  <2>. HIDE DEF Op, q
  <2>. QED  BY <2>3, ReachStep
<1>3. memory_set_range_flags(m, v, n, w) = c[1 .. n]
  BY <1>0 DEF memory_set_range_flags, FoldLeft, MapThenFoldSet
<1>. HIDE DEF U, q, Op
<1>4. h \in [1 .. n -> [U -> U]] /\ \A x \in U, k \in 1 .. n : h[k][x] = Op(x, q[k])
  BY <1>2
<1>. HIDE DEF h
<1>5. c = F(c)
  <2>1. PICK g \in [SUBSET (1 .. n) -> U] : IsFold(n, m, h, g)
    <3>1. h \in [1 .. n -> [U -> U]]
      BY <1>4
    <3>. QED  BY <1>0, <1>1, <3>1, FoldExists
  <2>2. ASSUME NEW t \in SUBSET (1 .. n)
        PROVE  g[t] = IF t = {} THEN m ELSE Op(g[t \ {Max(t)}], q[Max(t)])
    <3>1. t # {} => Max(t) \in 1 .. n /\ t \ {Max(t)} \in SUBSET (1 .. n)
      BY <1>0, MaxIn
    <3>. QED  BY <1>4, <2>1, <3>1 DEF IsFold
  <2>3. g = F(g)
    BY <2>2
  <2>. HIDE DEF F
  <2>. QED  BY <2>3
<1>. HIDE DEF c
<1>6. /\ c[{}] = m
      /\ \A k \in 1 .. n : c[1 .. k] = Op(c[1 .. k - 1], q[k])
  <2>1. \A t \in SUBSET (1 .. n) : c[t] = IF t = {} THEN m ELSE Op(c[t \ {Max(t)}], q[Max(t)])
    BY <1>5
  <2>2. n \in Nat
    BY <1>0
  <2>3. c[{}] = m
    BY <2>1
  <2>4. ASSUME NEW k \in 1 .. n PROVE c[1 .. k] = Op(c[1 .. k - 1], q[k])
    <3>1. /\ 1 .. k \in SUBSET (1 .. n) /\ 1 .. k # {}
          /\ Max(1 .. k) = k /\ (1 .. k) \ {k} = 1 .. k - 1
      BY <2>2, Segments
    <3>. QED  BY <2>1, <3>1
  <2>. QED  BY <2>3, <2>4
<1>7. \A k \in 0 .. n : c[1 .. k] \in U
  <2>1. h \in [1 .. n -> [U -> U]]
    BY <1>4
  <2>2. Follows(n, U, h, c)
    BY <1>4, <1>6 DEF Follows
  <2>. QED  BY <1>0, <1>1, <1>6, <2>1, <2>2, FoldRuns
<1>. QED  BY <1>0, <1>3, <1>7 DEF U

\* The kernel fills one page that is mapped.
FillPage(m, v, d) ==
    FoldLeft(LAMBDA y, i : store(y, v, i - 1, d), m, [j \in 1 .. PTE_CNT |-> j])

LEMMA FillPageFacts ==
    ASSUME NEW m, NEW S, Sound(m, S), NEW v \in Vpn, NEW d \in Nat,
           lookup(m, m.satp, v).kind = "leaf"
    PROVE  FillPage(m, v, d) \in Reach(m, S, m.satp)
<1>. DEFINE U == {x \in Reach(m, S, m.satp) : lookup(x, x.satp, v).kind = "leaf"}
            q == [j \in 1 .. PTE_CNT |-> j]
            Op(x, u) == store(x, v, u - 1, d)
            h == [k \in 1 .. PTE_CNT |-> [x \in U |-> Op(x, q[k])]]
            F(g) == [t \in SUBSET (1 .. PTE_CNT) |-> IF t = {} THEN m ELSE Op(g[t \ {Max(t)}], q[Max(t)])]
            c == CHOOSE g : g = F(g)
<1>0. PTE_CNT \in Nat /\ DOMAIN q = 1 .. PTE_CNT
  BY MemoryAssumption
<1>1. m \in U
  BY DEF Reach, Sound, Good
<1>2. ASSUME NEW x \in U, NEW k \in 1 .. PTE_CNT PROVE Op(x, q[k]) \in U
  <2>1. VPN1(v) \in Word /\ VPN0(v) \in Word /\ q[k] - 1 \in Word
    BY VpnParts, MemoryAssumption DEF Word
  <2>2. x.satp = m.satp /\ x \in Reach(m, S, m.satp) /\ lookup(x, x.satp, v).kind = "leaf"
    BY DEF Reach
  <2>3. ASSUME NEW role, Good(x, S, role)
        PROVE  /\ Works(x, Op(x, q[k]), S, role, role, m.satp)
               /\ lookup(Op(x, q[k]), Op(x, q[k]).satp, v) = lookup(x, x.satp, v)
    BY <2>1, <2>2, <2>3, StoreFacts
  <2>. DEFINE z == Op(x, q[k])
  <2>. HIDE DEF Op, q, z
  <2>4. z \in Reach(m, S, m.satp)
    BY <2>2, <2>3, ReachStep DEF z
  <2>5. lookup(z, z.satp, v).kind = "leaf"
    <3>1. PICK role : Good(x, S, role)
      BY <2>2 DEF Reach, Sound
    <3>. QED  BY <2>2, <2>3, <3>1 DEF z
  <2>. QED  BY <2>4, <2>5 DEF z
<1>3. FillPage(m, v, d) = c[1 .. PTE_CNT]
  BY <1>0 DEF FillPage, FoldLeft, MapThenFoldSet
<1>. HIDE DEF U, q, Op
<1>4. h \in [1 .. PTE_CNT -> [U -> U]] /\ \A x \in U, k \in 1 .. PTE_CNT : h[k][x] = Op(x, q[k])
  BY <1>2
<1>. HIDE DEF h
<1>5. c = F(c)
  <2>1. PICK g \in [SUBSET (1 .. PTE_CNT) -> U] : IsFold(PTE_CNT, m, h, g)
    <3>1. h \in [1 .. PTE_CNT -> [U -> U]]
      BY <1>4
    <3>. QED  BY <1>0, <1>1, <3>1, FoldExists
  <2>2. ASSUME NEW t \in SUBSET (1 .. PTE_CNT)
        PROVE  g[t] = IF t = {} THEN m ELSE Op(g[t \ {Max(t)}], q[Max(t)])
    <3>1. t # {} => Max(t) \in 1 .. PTE_CNT /\ t \ {Max(t)} \in SUBSET (1 .. PTE_CNT)
      BY <1>0, MaxIn
    <3>. QED  BY <1>4, <2>1, <3>1 DEF IsFold
  <2>3. g = F(g)
    BY <2>2
  <2>. HIDE DEF F
  <2>. QED  BY <2>3
<1>. HIDE DEF c
<1>6. /\ c[{}] = m
      /\ \A k \in 1 .. PTE_CNT : c[1 .. k] = Op(c[1 .. k - 1], q[k])
  <2>1. \A t \in SUBSET (1 .. PTE_CNT) : c[t] = IF t = {} THEN m ELSE Op(c[t \ {Max(t)}], q[Max(t)])
    BY <1>5
  <2>2. PTE_CNT \in Nat
    BY <1>0
  <2>3. c[{}] = m
    BY <2>1
  <2>4. ASSUME NEW k \in 1 .. PTE_CNT PROVE c[1 .. k] = Op(c[1 .. k - 1], q[k])
    <3>1. /\ 1 .. k \in SUBSET (1 .. PTE_CNT) /\ 1 .. k # {}
          /\ Max(1 .. k) = k /\ (1 .. k) \ {k} = 1 .. k - 1
      BY <2>2, Segments
    <3>. QED  BY <2>1, <3>1
  <2>. QED  BY <2>3, <2>4
<1>7. \A k \in 0 .. PTE_CNT : c[1 .. k] \in U
  <2>1. h \in [1 .. PTE_CNT -> [U -> U]]
    BY <1>4
  <2>2. Follows(PTE_CNT, U, h, c)
    BY <1>4, <1>6 DEF Follows
  <2>. QED  BY <1>0, <1>1, <1>6, <2>1, <2>2, FoldRuns
<1>. QED  BY <1>0, <1>3, <1>7 DEF U

\* fill works in the active space.
LEMMA FillFacts ==
    ASSUME NEW m, NEW S, Sound(m, S), NEW v \in Nat, NEW n \in Nat,
           v + n <= PTE_CNT * PTE_CNT, NEW d \in Nat
    PROVE  fill(m, v, n, d) \in Reach(m, S, m.satp)
<1>. DEFINE U == Reach(m, S, m.satp)
            q == Pages(v, n)
            Op(x, u) == IF ~Up(x) THEN x
                        ELSE IF ~Writable(x, u) THEN Stop(x, "panic") ELSE FillPage(x, u, d)
            h == [k \in 1 .. n |-> [x \in U |-> Op(x, q[k])]]
            F(g) == [t \in SUBSET (1 .. n) |-> IF t = {} THEN m ELSE Op(g[t \ {Max(t)}], q[Max(t)])]
            c == CHOOSE g : g = F(g)
<1>0. n \in Nat /\ DOMAIN q = 1 .. n /\ \A k \in 1 .. n : q[k] \in Vpn
  BY PagesFacts
<1>1. m \in U
  BY DEF Reach, Sound, Good
<1>2. ASSUME NEW x \in U, NEW k \in 1 .. n PROVE Op(x, q[k]) \in U
  <2>1. CASE ~Up(x)
    BY <2>1
  <2>2. CASE Up(x) /\ ~Writable(x, q[k])
    <3>1. Op(x, q[k]) = Stop(x, "panic")
      BY <2>2
    <3>2. ASSUME NEW role, Good(x, S, role)
          PROVE  \E new : Works(x, Stop(x, "panic"), S, role, new, m.satp)
      BY <3>2, WorksNot
    <3>3. Stop(x, "panic") \in U
      BY <3>2, ReachStep
    <3>. QED  BY <3>1, <3>3
  <2>3. CASE Up(x) /\ Writable(x, q[k])
    <3>1. Op(x, q[k]) = FillPage(x, q[k], d)
      BY <2>3
    <3>2. lookup(x, x.satp, q[k]).kind = "leaf" /\ q[k] \in Vpn
      BY <1>0, <2>3 DEF Writable
    <3>3. x.satp = m.satp /\ Sound(x, S)
      BY DEF Reach
    <3>. DEFINE z == FillPage(x, q[k], d)
    <3>. HIDE DEF q
    <3>4. z \in Reach(x, S, x.satp)
      BY <3>2, <3>3, FillPageFacts
    <3>. HIDE DEF z
    <3>5. z \in Reach(m, S, m.satp)
      BY <3>3, <3>4 DEF Reach
    <3>. QED  BY <3>1, <3>5 DEF z
  <2>. QED  BY <2>1, <2>2, <2>3
<1>3. fill(m, v, n, d) = c[1 .. n]
  BY <1>0 DEF fill, FillPage, FoldLeft, MapThenFoldSet
<1>. HIDE DEF U, q, Op
<1>4. h \in [1 .. n -> [U -> U]] /\ \A x \in U, k \in 1 .. n : h[k][x] = Op(x, q[k])
  BY <1>2
<1>. HIDE DEF h
<1>5. c = F(c)
  <2>1. PICK g \in [SUBSET (1 .. n) -> U] : IsFold(n, m, h, g)
    <3>1. h \in [1 .. n -> [U -> U]]
      BY <1>4
    <3>. QED  BY <1>0, <1>1, <3>1, FoldExists
  <2>2. ASSUME NEW t \in SUBSET (1 .. n)
        PROVE  g[t] = IF t = {} THEN m ELSE Op(g[t \ {Max(t)}], q[Max(t)])
    <3>1. t # {} => Max(t) \in 1 .. n /\ t \ {Max(t)} \in SUBSET (1 .. n)
      BY <1>0, MaxIn
    <3>. QED  BY <1>4, <2>1, <3>1 DEF IsFold
  <2>3. g = F(g)
    BY <2>2
  <2>. HIDE DEF F
  <2>. QED  BY <2>3
<1>. HIDE DEF c
<1>6. /\ c[{}] = m
      /\ \A k \in 1 .. n : c[1 .. k] = Op(c[1 .. k - 1], q[k])
  <2>1. \A t \in SUBSET (1 .. n) : c[t] = IF t = {} THEN m ELSE Op(c[t \ {Max(t)}], q[Max(t)])
    BY <1>5
  <2>2. n \in Nat
    BY <1>0
  <2>3. c[{}] = m
    BY <2>1
  <2>4. ASSUME NEW k \in 1 .. n PROVE c[1 .. k] = Op(c[1 .. k - 1], q[k])
    <3>1. /\ 1 .. k \in SUBSET (1 .. n) /\ 1 .. k # {}
          /\ Max(1 .. k) = k /\ (1 .. k) \ {k} = 1 .. k - 1
      BY <2>2, Segments
    <3>. QED  BY <2>1, <3>1
  <2>. QED  BY <2>3, <2>4
<1>7. \A k \in 0 .. n : c[1 .. k] \in U
  <2>1. h \in [1 .. n -> [U -> U]]
    BY <1>4
  <2>2. Follows(n, U, h, c)
    BY <1>4, <1>6 DEF Follows
  <2>. QED  BY <1>0, <1>1, <1>6, <2>1, <2>2, FoldRuns
<1>. QED  BY <1>0, <1>3, <1>7 DEF U

\* memory_unmap_and_free_user leaves memory alone when nothing is mapped.
LEMMA UnmapNothing ==
    ASSUME NEW m, NEW S, Sound(m, S), \A v \in Vpn : ~Mapped(m, v)
    PROVE  memory_unmap_and_free_user(m) = m
<1>. DEFINE n == PTE_CNT * PTE_CNT
<1>. DEFINE U == {m}
            q == [i \in 1 .. n |-> i - 1]
            Op(x, u) == LET e == lookup(x, x.satp, u) IN
                        IF e.kind = "leaf" THEN memory_free_page(x, e.p)
                        ELSE IF e.kind \in {"data", "table"} THEN Stop(x, "wild") ELSE x
            h == [k \in 1 .. n |-> [x \in U |-> Op(x, q[k])]]
            F(g) == [t \in SUBSET (1 .. n) |-> IF t = {} THEN m ELSE Op(g[t \ {Max(t)}], q[Max(t)])]
            c == CHOOSE g : g = F(g)
<1>01. n \in Nat /\ Vpn = 0 .. n - 1
  BY MemoryAssumption DEF Vpn
<1>. HIDE DEF n
<1>0. n \in Nat /\ DOMAIN q = 1 .. n /\ \A k \in 1 .. n : q[k] \in Vpn
  BY <1>01
<1>1. m \in U
  OBVIOUS
<1>2. ASSUME NEW x \in U, NEW k \in 1 .. n PROVE Op(x, q[k]) \in U
  <2>. HIDE DEF q
  <2>. DEFINE e == lookup(m, m.satp, q[k])
  <2>1. x = m /\ q[k] \in Vpn /\ e.kind # "leaf"
    BY <1>0 DEF Mapped
  <2>2. PICK role : Good(m, S, role)
    BY DEF Sound
  <2>3. VPN1(q[k]) \in Word /\ VPN0(q[k]) \in Word
    BY <2>1, VpnParts
  <2>4. e = null_pte
    BY <2>1, <2>2, <2>3, LookupKind
  <2>5. e.kind \notin {"leaf", "data", "table"}
    BY <2>4, Words
  <2>. QED  BY <2>1, <2>5
<1>3. memory_unmap_and_free_user(m) = c[1 .. n]
  BY <1>0 DEF memory_unmap_and_free_user, n, FoldLeft, MapThenFoldSet
<1>. HIDE DEF U, q, Op
<1>4. h \in [1 .. n -> [U -> U]] /\ \A x \in U, k \in 1 .. n : h[k][x] = Op(x, q[k])
  BY <1>2
<1>. HIDE DEF h
<1>5. c = F(c)
  <2>1. PICK g \in [SUBSET (1 .. n) -> U] : IsFold(n, m, h, g)
    <3>1. h \in [1 .. n -> [U -> U]]
      BY <1>4
    <3>. QED  BY <1>0, <1>1, <3>1, FoldExists
  <2>2. ASSUME NEW t \in SUBSET (1 .. n)
        PROVE  g[t] = IF t = {} THEN m ELSE Op(g[t \ {Max(t)}], q[Max(t)])
    <3>1. t # {} => Max(t) \in 1 .. n /\ t \ {Max(t)} \in SUBSET (1 .. n)
      BY <1>0, MaxIn
    <3>. QED  BY <1>4, <2>1, <3>1 DEF IsFold
  <2>3. g = F(g)
    BY <2>2
  <2>. HIDE DEF F
  <2>. QED  BY <2>3
<1>. HIDE DEF c
<1>6. /\ c[{}] = m
      /\ \A k \in 1 .. n : c[1 .. k] = Op(c[1 .. k - 1], q[k])
  <2>1. \A t \in SUBSET (1 .. n) : c[t] = IF t = {} THEN m ELSE Op(c[t \ {Max(t)}], q[Max(t)])
    BY <1>5
  <2>2. n \in Nat
    BY <1>0
  <2>3. c[{}] = m
    BY <2>1
  <2>4. ASSUME NEW k \in 1 .. n PROVE c[1 .. k] = Op(c[1 .. k - 1], q[k])
    <3>1. /\ 1 .. k \in SUBSET (1 .. n) /\ 1 .. k # {}
          /\ Max(1 .. k) = k /\ (1 .. k) \ {k} = 1 .. k - 1
      BY <2>2, Segments
    <3>. QED  BY <2>1, <3>1
  <2>. QED  BY <2>3, <2>4
<1>7. \A k \in 0 .. n : c[1 .. k] \in U
  <2>1. h \in [1 .. n -> [U -> U]]
    BY <1>4
  <2>2. Follows(n, U, h, c)
    BY <1>4, <1>6 DEF Follows
  <2>. QED  BY <1>0, <1>1, <1>6, <2>1, <2>2, FoldRuns
<1>. QED  BY <1>0, <1>3, <1>7 DEF U
-----------------------------------------------------------------------------
(* memory_space_clone *)

\* What is written is new or in the space r.
LEMMA WorksBy ==
    ASSUME NEW m, NEW n, NEW S, NEW role, NEW new, NEW r, Good(m, S, role), Good(n, S, new),
           Kept(role, new), n.satp = m.satp,
           \A f \in Frame : role[f][1] # "free" /\ RootOf(role, f) # r => n.ram[f] = m.ram[f]
    PROVE  Works(m, n, S, role, new, r)
<1>1. ASSUME NEW s \in S, s # r PROVE View(n, s) = View(m, s)
  <2>1. ASSUME NEW f \in Frame, RootOf(role, f) = s PROVE n.ram[f] = m.ram[f]
    <3>1. s # NULL
      BY Sizes DEF Good
    <3>2. role[f][1] # "free"
      BY <2>1, <3>1 DEF RootOf
    <3>. QED  BY <1>1, <2>1, <3>2
  <2>. QED  BY <2>1, ViewSame
<1>. QED  BY <1>1 DEF Works

\* Entry j of the level 0 tables old and new: a page and its copy.
Mirror0(m, old, new, j) ==
    LET e == m.ram[old][j]
        d == m.ram[new][j]
    IN \/ e = null_pte /\ d = null_pte
       \/ /\ e.kind = "leaf" /\ d.kind = "leaf" /\ e.w = d.w
          /\ e.p # NULL /\ d.p # NULL /\ m.ram[e.p] = m.ram[d.p]

\* An entry of the table new has been made, from pages that were free.
Copies(m, n, role, new, j) ==
    /\ \A f \in Frame : f # new /\ role[f][1] # "free" => n.ram[f] = m.ram[f]
    /\ \A k \in Word : k # j => n.ram[new][k] = m.ram[new][k]

LEMMA ClonePage ==
    ASSUME NEW m, NEW S, NEW role, Good(m, S, role), NEW old \in Frame, NEW new \in Frame,
           role[old][1] = "l0", role[new][1] = "l0", old # new,
           NEW v, VPN0(v) \in Word
    PROVE  LET n == clone_page(m, old, new, v) IN
           /\ \E rn : Works(m, n, S, role, rn, RootOf(role, new))
           /\ Copies(m, n, role, new, VPN0(v))
           /\ Up(n) => Up(m) /\ Mirror0(n, old, new, VPN0(v))
<1>. DEFINE n == clone_page(m, old, new, v)
            j == VPN0(v)
            e == m.ram[old][j]
            a == memory_alloc_page(m)
            p == m.free_list
            r == RootOf(role, new)
<1>0. Maps(e, role, old, j)
  BY DEF Good, Fits
<1>1. CASE ~Up(m)
  <2>1. n = m
    BY <1>1 DEF clone_page
  <2>. QED  BY <1>1, <2>1, WorksNot DEF Copies
<1>2. CASE Up(m) /\ NotValid(e)
  <2>1. n = [m EXCEPT !.ram[new][j] = e]
    BY <1>2 DEF clone_page
  <2>2. e = null_pte
    BY <1>0, <1>2, Words, Sizes DEF Maps, NotValid, NULL
  <2>. HIDE DEF n, e, j, r
  <2>3. e \in WordType /\ Maps(e, role, new, j) /\ j \in Word
    BY <2>2, Words DEF Maps, j
  <2>4. Good(n, S, role)
    BY <2>1, <2>3, PutEntry
  <2>5. Works(m, n, S, role, role, r)
    BY <2>1, <2>3, <2>4, WorksPut DEF r
  <2>6. OneWord(m, n, new, j, e)
    BY <2>1, <2>3, PutWord
  <2>7. Copies(m, n, role, new, j)
    BY <2>6 DEF OneWord, Copies
  <2>8. Mirror0(n, old, new, j)
    BY <2>2, <2>6 DEF OneWord, Mirror0, e
  <2>. QED  BY <1>2, <2>5, <2>7, <2>8 DEF n, j, r
<1>3. CASE Up(m) /\ ~NotValid(e) /\ (e.kind # "leaf" \/ e.p = NULL)
  <2>1. n = Stop(m, "wild")
    BY <1>3 DEF clone_page
  <2>2. n.ram = m.ram /\ ~Up(n)
    BY <2>1, StopFacts
  <2>. QED  BY <2>1, <2>2, WorksNot DEF Copies
<1>4. CASE Up(m) /\ ~NotValid(e) /\ e.kind = "leaf" /\ e.p # NULL /\ p = NULL
  <2>1. a = Stop(m, "panic") /\ ~Up(a)
    BY <1>4, AllocPage
  <2>2. n = a
    BY <1>4, <2>1 DEF clone_page
  <2>3. a.ram = m.ram
    BY <2>1, StopFacts
  <2>. QED  BY <2>1, <2>2, <2>3, WorksNot DEF Copies
<1>5. CASE Up(m) /\ ~NotValid(e) /\ e.kind = "leaf" /\ e.p # NULL /\ p # NULL
  <2>1. Up(a)
    BY <1>5, AllocPage
  <2>2. PICK ra : Taken(m, a, S, role, ra, p)
    BY <1>5, AllocPage
  <2>. DEFINE b == [a EXCEPT !.ram[new][j] = leaf_pte(p, e.w)]
              c == a.ram[e.p]
  <2>3. n = SetFrame(b, p, c)
    BY <1>5, <2>1 DEF clone_page, SetFrame
  <2>4. /\ Good(a, S, ra) /\ p \in Page /\ p \in Frame /\ ra[p] = None /\ a \in MemType
        /\ role[p] = <<"free", NULL, 0>>
        /\ \A f \in Frame : role[f][1] # "free" => f # p /\ ra[f] = role[f] /\ a.ram[f] = m.ram[f]
    <3>1. Good(a, S, ra) /\ p \in Page /\ ra[p] = None /\ role[p] = <<"free", NULL, 0>>
      BY <2>2 DEF Taken
    <3>2. \A f \in Frame : f # p => a.ram[f] = m.ram[f]
      BY <2>2 DEF Taken
    <3>3. Kept(role, ra)
      BY <2>2 DEF Taken
    <3>4. p \in Frame /\ a \in MemType
      BY <3>1, Sizes DEF Good
    <3>5. \A f \in Frame : role[f][1] # "free" => f # p
      BY <3>1
    <3>. QED  BY <3>1, <3>2, <3>3, <3>4, <3>5 DEF Kept
  <2>5. e.p \in Page /\ e.p \in Frame /\ role[e.p][1] = "user" /\ e.w \in BOOLEAN
    <3>1. e.p \in Page /\ role[e.p] = <<"user", old, j>> /\ e.w \in BOOLEAN
      BY <1>0, <1>5, LeafPage
    <3>. HIDE DEF e, j
    <3>2. role[e.p][1] = "user"
      BY <3>1
    <3>3. e.p \in Frame
      BY <3>1, Sizes
    <3>. QED  BY <3>1, <3>2, <3>3
  <2>. HIDE DEF n, a, b, c, j, e, p, r
  <2>6. j \in Word /\ leaf_pte(p, e.w) \in WordType /\ ra[new][1] = "l0" /\ new # p
    BY <2>4, <2>5, Words, Sizes DEF j
  <2>. DEFINE rn == Assign(ra, p, <<"user", new, j>>)
  <2>7. /\ Good(b, S, rn) /\ OneWord(a, b, new, j, leaf_pte(p, e.w))
        /\ \A f \in Frame : f # p => rn[f] = ra[f]
        /\ rn[p] = <<"user", new, j>>
    BY <2>4, <2>5, <2>6, WorksLink DEF b
  <2>. HIDE DEF rn
  <2>8. c \in Contents /\ c = m.ram[e.p]
    BY <2>4, <2>5 DEF MemType, c
  <2>9. Good(n, S, rn)
    <3>1. Fits(c, rn, p)
      BY <2>7 DEF Fits
    <3>. QED  BY <2>3, <2>4, <2>7, <2>8, <3>1, Rewrite
  <2>10. /\ n.ram[p] = c /\ \A f \in Frame : f # p => n.ram[f] = b.ram[f]
         /\ n.satp = b.satp /\ n.stop = b.stop
    <3>1. b \in MemType
      BY <2>7 DEF Good
    <3>. QED  BY <2>3, <2>4, <2>8, <3>1, SetFrameFacts
  <2>11. \A f \in Frame : f # new /\ role[f][1] # "free" => n.ram[f] = m.ram[f]
    BY <2>4, <2>7, <2>10 DEF OneWord
  <2>12. n.ram[new][j] = leaf_pte(p, e.w) /\ \A k \in Word : k # j => n.ram[new][k] = m.ram[new][k]
    BY <2>4, <2>6, <2>7, <2>10 DEF OneWord
  <2>13. Copies(m, n, role, new, j)
    BY <2>11, <2>12 DEF Copies
  <2>14. Works(m, n, S, role, rn, r)
    <3>1. Kept(role, rn)
      BY <2>4, <2>7 DEF Kept
    <3>2. n.satp = m.satp
      BY <2>2, <2>7, <2>10 DEF OneWord, Taken
    <3>3. \A f \in Frame : role[f][1] # "free" /\ RootOf(role, f) # r => n.ram[f] = m.ram[f]
      BY <2>11 DEF r
    <3>. QED  BY <2>9, <3>1, <3>2, <3>3, WorksBy
  <2>15. Mirror0(n, old, new, j)
    <3>1. n.ram[old][j] = e /\ n.ram[e.p] = m.ram[e.p]
      <4>1. e.p # new
        BY <2>5
      <4>. QED  BY <2>5, <2>11, <4>1 DEF e
    <3>2. leaf_pte(p, e.w).kind = "leaf" /\ leaf_pte(p, e.w).p = p /\ leaf_pte(p, e.w).w = e.w
      BY <2>4, <2>5, Words, Sizes
    <3>3. p # NULL /\ e.kind = "leaf" /\ e.p # NULL
      BY <1>5, <2>4, Sizes
    <3>. QED  BY <2>8, <2>10, <2>12, <3>1, <3>2, <3>3 DEF Mirror0
  <2>. QED  BY <1>5, <2>13, <2>14, <2>15 DEF n, j, r
<1>. QED  BY <1>1, <1>2, <1>3, <1>4, <1>5
LEMMA VpnOf ==
    ASSUME NEW i \in Word, NEW j \in 1 .. PTE_CNT
    PROVE  VPN0(i * PTE_CNT + j - 1) = j - 1 /\ j - 1 \in Word
<1>. DEFINE c == PTE_CNT
            x == i * c + j - 1
<1>1. c \in Nat \ {0} /\ i \in Nat /\ j \in 1 .. c
  BY MemoryAssumption DEF Word
<1>2. x \in Nat /\ x = i * c + (j - 1) /\ j - 1 \in 0 .. c - 1
  BY <1>1
<1>. HIDE DEF c
<1>3. x % c = j - 1
  BY <1>1, <1>2
<1>. QED  BY <1>2, <1>3 DEF VPN0, Word, c

\* Copies of other entries do not disturb a page and its copy.
LEMMA MirrorKept ==
    ASSUME NEW m, NEW S, NEW role, Good(m, S, role), NEW old \in Frame, NEW new \in Frame,
           role[old][1] = "l0", role[new][1] = "l0", NEW j \in Word, Mirror0(m, old, new, j),
           NEW n, n.ram[old][j] = m.ram[old][j], n.ram[new][j] = m.ram[new][j],
           \A f \in Frame : role[f][1] = "user" => n.ram[f] = m.ram[f]
    PROVE  Mirror0(n, old, new, j)
<1>. DEFINE e == m.ram[old][j]
            d == m.ram[new][j]
<1>1. Maps(e, role, old, j) /\ Maps(d, role, new, j)
  BY DEF Good, Fits
<1>2. CASE e = null_pte /\ d = null_pte
  BY <1>2 DEF Mirror0
<1>. HIDE DEF e, d
<1>3. CASE /\ e.kind = "leaf" /\ d.kind = "leaf" /\ e.w = d.w
           /\ e.p # NULL /\ d.p # NULL /\ m.ram[e.p] = m.ram[d.p]
  <2>1. e.p \in Page /\ role[e.p] = <<"user", old, j>> /\ d.p \in Page /\ role[d.p] = <<"user", new, j>>
    <3>1. e.p \in Page /\ role[e.p] = <<"user", old, j>>
      <4>1. Maps(e, role, old, j) /\ e.kind = "leaf" /\ e.p # NULL
        BY <1>1, <1>3
      <4>. QED  BY <4>1, LeafPage
    <3>2. d.p \in Page /\ role[d.p] = <<"user", new, j>>
      <4>1. Maps(d, role, new, j) /\ d.kind = "leaf" /\ d.p # NULL
        BY <1>1, <1>3
      <4>. QED  BY <4>1, LeafPage
    <3>. QED  BY <3>1, <3>2
  <2>2. n.ram[e.p] = m.ram[e.p] /\ n.ram[d.p] = m.ram[d.p]
    <3>1. role[e.p][1] = "user" /\ role[d.p][1] = "user"
      BY <2>1
    <3>2. e.p \in Frame /\ d.p \in Frame
      BY <2>1, Sizes
    <3>. QED  BY <3>1, <3>2
  <2>3. n.ram[old][j] = e /\ n.ram[new][j] = d
    BY DEF e, d
  <2>. QED  BY <1>3, <2>2, <2>3 DEF Mirror0
<1>. QED  BY <1>2, <1>3 DEF Mirror0, e, d

\* The loop over the entries of a level 0 table.
ClonePages(b, old, new, i) ==
    FoldLeft(LAMBDA x, v : clone_page(x, old, new, v), b,
             [j \in 1 .. PTE_CNT |-> i * PTE_CNT + j - 1])

\* The states that a loop that fills the table t, in the space r, leads to from b.
From(b, S, role, t, r) ==
    {x \in MemType : /\ \E rx : Works(b, x, S, role, rx, r)
                     /\ \A f \in Frame : f # t /\ role[f][1] # "free" => x.ram[f] = b.ram[f]}

LEMMA FromStart ==
    ASSUME NEW b, NEW S, NEW role, Good(b, S, role), NEW t, NEW r
    PROVE  b \in From(b, S, role, t, r)
<1>1. b \in MemType
  BY DEF Good
<1>2. Works(b, b, S, role, role, r)
  BY WorksNot
<1>. QED  BY <1>1, <1>2 DEF From

LEMMA FromStep ==
    ASSUME NEW b, NEW S, NEW role, NEW t \in Frame, NEW r, NEW x, NEW rx, NEW n, NEW rn, NEW j,
           Works(b, x, S, role, rx, r),
           \A f \in Frame : f # t /\ role[f][1] # "free" => x.ram[f] = b.ram[f],
           Works(x, n, S, rx, rn, r), Copies(x, n, rx, t, j)
    PROVE  n \in From(b, S, role, t, r)
<1>1. Works(b, n, S, role, rn, r)
  BY WorksNext
<1>2. n \in MemType
  BY <1>1 DEF Works, Good
<1>3. \A f \in Frame : role[f][1] # "free" => rx[f][1] # "free"
  <2>1. Kept(role, rx)
    BY DEF Works
  <2>. QED  BY <2>1, KeptNotFree
<1>4. \A f \in Frame : f # t /\ role[f][1] # "free" => n.ram[f] = b.ram[f]
  BY <1>3 DEF Copies
<1>. QED  BY <1>1, <1>2, <1>4 DEF From

LEMMA RootKept ==
    ASSUME NEW role, NEW new, Kept(role, new), NEW f \in Frame, NEW u \in Frame,
           role[f][1] = "l0" /\ role[f][2] = u /\ role[u][1] = "l1"
    PROVE  new[f] = role[f] /\ RootOf(new, f) = RootOf(role, f)
<1>1. new[f] = role[f] /\ new[u] = role[u]
  BY DEF Kept
<1>. QED  BY <1>1 DEF RootOf

LEMMA ClonePagesFacts ==
    ASSUME NEW b, NEW S, NEW role, Good(b, S, role), NEW old \in Frame, NEW new \in Frame,
           role[old][1] = "l0", old # new, NEW u \in Frame,
           role[new][1] = "l0" /\ role[new][2] = u /\ role[u][1] = "l1", NEW i \in Word,
           NEW r, RootOf(role, new) = r
    PROVE  LET n == ClonePages(b, old, new, i) IN
           /\ n \in From(b, S, role, new, r)
           /\ Up(n) => Up(b) /\ \A j \in Word : Mirror0(n, old, new, j)
<1>. DEFINE U == From(b, S, role, new, r)
            q == [j \in 1 .. PTE_CNT |-> i * PTE_CNT + j - 1]
            Op(x, u0) == clone_page(x, old, new, u0)
            h == [k \in 1 .. PTE_CNT |-> [x \in U |-> Op(x, q[k])]]
            F(g) == [t \in SUBSET (1 .. PTE_CNT) |-> IF t = {} THEN b ELSE Op(g[t \ {Max(t)}], q[Max(t)])]
            c == CHOOSE g : g = F(g)
<1>0. /\ PTE_CNT \in Nat /\ DOMAIN q = 1 .. PTE_CNT
      /\ \A k \in 1 .. PTE_CNT : VPN0(q[k]) = k - 1 /\ k - 1 \in Word
  BY MemoryAssumption, VpnOf
<1>1. b \in U
  BY FromStart
<1>. HIDE DEF q
<1>11. ASSUME NEW x \in U, NEW k \in 1 .. PTE_CNT
       PROVE  /\ Op(x, q[k]) \in U
              /\ Up(Op(x, q[k])) => Up(x) /\ Mirror0(Op(x, q[k]), old, new, k - 1)
              /\ \A l \in Word : l # k - 1 /\ Mirror0(x, old, new, l) =>
                                 Mirror0(Op(x, q[k]), old, new, l)
  <2>1. PICK rx : Works(b, x, S, role, rx, r)
    BY DEF From
  <2>2. \A f \in Frame : f # new /\ role[f][1] # "free" => x.ram[f] = b.ram[f]
    BY DEF From
  <2>3. Good(x, S, rx) /\ Kept(role, rx)
    BY <2>1 DEF Works
  <2>4. rx[new] = role[new] /\ RootOf(rx, new) = r
    BY <2>3, RootKept
  <2>5. rx[old][1] = "l0" /\ rx[new][1] = "l0"
    BY <2>3, <2>4 DEF Kept
  <2>. DEFINE z == Op(x, q[k])
  <2>6. /\ \E rn : Works(x, z, S, rx, rn, r)
        /\ Copies(x, z, rx, new, k - 1)
        /\ Up(z) => Up(x) /\ Mirror0(z, old, new, k - 1)
    BY <1>0, <2>3, <2>4, <2>5, ClonePage
  <2>. HIDE DEF Op, z
  <2>7. z \in U
    BY <2>1, <2>2, <2>6, FromStep
  <2>8. ASSUME NEW l \in Word, l # k - 1, Mirror0(x, old, new, l) PROVE Mirror0(z, old, new, l)
    <3>1. z.ram[old] = x.ram[old] /\ z.ram[new][l] = x.ram[new][l]
      BY <2>5, <2>6, <2>8 DEF Copies
    <3>2. \A f \in Frame : rx[f][1] = "user" => z.ram[f] = x.ram[f]
      BY <2>5, <2>6 DEF Copies
    <3>. QED  BY <2>3, <2>5, <2>8, <3>1, <3>2, MirrorKept
  <2>. QED  BY <2>6, <2>7, <2>8 DEF z
<1>2. ASSUME NEW x \in U, NEW k \in 1 .. PTE_CNT PROVE Op(x, q[k]) \in U
  BY <1>11
<1>3. ClonePages(b, old, new, i) = c[1 .. PTE_CNT]
  BY <1>0 DEF ClonePages, q, FoldLeft, MapThenFoldSet
<1>. HIDE DEF U, q, Op
<1>4. h \in [1 .. PTE_CNT -> [U -> U]] /\ \A x \in U, k \in 1 .. PTE_CNT : h[k][x] = Op(x, q[k])
  BY <1>2
<1>. HIDE DEF h
<1>5. c = F(c)
  <2>1. PICK g \in [SUBSET (1 .. PTE_CNT) -> U] : IsFold(PTE_CNT, b, h, g)
    <3>1. h \in [1 .. PTE_CNT -> [U -> U]]
      BY <1>4
    <3>. QED  BY <1>0, <1>1, <3>1, FoldExists
  <2>2. ASSUME NEW t \in SUBSET (1 .. PTE_CNT)
        PROVE  g[t] = IF t = {} THEN b ELSE Op(g[t \ {Max(t)}], q[Max(t)])
    <3>1. t # {} => Max(t) \in 1 .. PTE_CNT /\ t \ {Max(t)} \in SUBSET (1 .. PTE_CNT)
      BY <1>0, MaxIn
    <3>. QED  BY <1>4, <2>1, <3>1 DEF IsFold
  <2>3. g = F(g)
    BY <2>2
  <2>. HIDE DEF F
  <2>. QED  BY <2>3
<1>. HIDE DEF c
<1>6. /\ c[{}] = b
      /\ \A k \in 1 .. PTE_CNT : c[1 .. k] = Op(c[1 .. k - 1], q[k])
  <2>1. \A t \in SUBSET (1 .. PTE_CNT) : c[t] = IF t = {} THEN b ELSE Op(c[t \ {Max(t)}], q[Max(t)])
    BY <1>5
  <2>2. PTE_CNT \in Nat
    BY <1>0
  <2>3. c[{}] = b
    BY <2>1
  <2>4. ASSUME NEW k \in 1 .. PTE_CNT PROVE c[1 .. k] = Op(c[1 .. k - 1], q[k])
    <3>1. /\ 1 .. k \in SUBSET (1 .. PTE_CNT) /\ 1 .. k # {}
          /\ Max(1 .. k) = k /\ (1 .. k) \ {k} = 1 .. k - 1
      BY <2>2, Segments
    <3>. QED  BY <2>1, <3>1
  <2>. QED  BY <2>3, <2>4
<1>7. \A k \in 0 .. PTE_CNT : c[1 .. k] \in U
  <2>1. h \in [1 .. PTE_CNT -> [U -> U]]
    BY <1>4
  <2>2. Follows(PTE_CNT, U, h, c)
    BY <1>4, <1>6 DEF Follows
  <2>. QED  BY <1>0, <1>1, <1>6, <2>1, <2>2, FoldRuns
<1>. DEFINE T == {k \in Nat : k <= PTE_CNT /\ Up(c[1 .. k]) =>
                               Up(b) /\ \A l \in 0 .. k - 1 : Mirror0(c[1 .. k], old, new, l)}
<1>8. 0 \in T
  <2>1. c[1 .. 0] = b /\ 0 .. 0 - 1 = {}
    BY <1>0, <1>6, Segments
  <2>. QED  BY <2>1
<1>9. ASSUME NEW k \in Nat, k \in T PROVE k + 1 \in T
  <2>. SUFFICES ASSUME k + 1 <= PTE_CNT, Up(c[1 .. k + 1])
               PROVE  Up(b) /\ \A l \in 0 .. k : Mirror0(c[1 .. k + 1], old, new, l)
    OBVIOUS
  <2>. DEFINE x == c[1 .. k]
              z == c[1 .. k + 1]
  <2>1. k \in 0 .. PTE_CNT /\ k + 1 \in 1 .. PTE_CNT /\ (k + 1) - 1 = k /\ k <= PTE_CNT
    BY <1>0
  <2>2. x \in U /\ z = Op(x, q[k + 1])
    BY <1>6, <1>7, <2>1
  <2>3. Up(x) /\ Mirror0(z, old, new, k)
    BY <1>11, <2>1, <2>2
  <2>4. Up(b) /\ \A l \in 0 .. k - 1 : Mirror0(x, old, new, l)
    BY <1>9, <2>1, <2>3
  <2>. HIDE DEF x, z
  <2>5. ASSUME NEW l \in 0 .. k PROVE Mirror0(z, old, new, l)
    <3>1. CASE l = k
      BY <2>3, <3>1
    <3>2. CASE l # k
      <4>1. l \in 0 .. k - 1 /\ l \in Word /\ l # (k + 1) - 1
        BY <1>0, <2>1, <3>2 DEF Word
      <4>. QED  BY <1>11, <2>1, <2>2, <2>4, <4>1
    <3>. QED  BY <3>1, <3>2
  <2>. QED  BY <2>4, <2>5 DEF z
<1>. HIDE DEF T
<1>10. PTE_CNT \in T
  BY <1>0, <1>8, <1>9, NatSetInduction
<1>12. c[1 .. PTE_CNT] \in U
  BY <1>0, <1>7
<1>13. Up(c[1 .. PTE_CNT]) => Up(b) /\ \A l \in Word : Mirror0(c[1 .. PTE_CNT], old, new, l)
  BY <1>0, <1>10 DEF T, Word
<1>. QED  BY <1>3, <1>12, <1>13 DEF U

\* Entry i of the level 1 tables old and new: a table and its copy.
Mirror1(m, old, new, i) ==
    LET e == m.ram[old][i]
        d == m.ram[new][i]
    IN \/ e = null_pte /\ d = null_pte
       \/ e.kind = "table" /\ d.kind = "table" /\ \A j \in Word : Mirror0(m, e.p, d.p, j)

LEMMA CloneTable ==
    ASSUME NEW m, NEW S, NEW role, Good(m, S, role), NEW old \in Frame, NEW new \in Frame,
           role[old][1] = "l1", role[new][1] = "l1", old # new, NEW i \in Word
    PROVE  LET n == clone_table(m, old, new, i) IN
           /\ \E rn : Works(m, n, S, role, rn, RootOf(role, new))
           /\ Copies(m, n, role, new, i)
           /\ Up(n) => Up(m) /\ Mirror1(n, old, new, i)
<1>. DEFINE n == clone_table(m, old, new, i)
            e == m.ram[old][i]
            a == memory_alloc_page(m)
            p == m.free_list
            r == RootOf(role, new)
<1>0. Points(e, role, "l0", old, i)
  BY DEF Good, Fits
<1>1. CASE ~Up(m)
  <2>1. n = m
    BY <1>1 DEF clone_table
  <2>. QED  BY <1>1, <2>1, WorksNot DEF Copies
<1>2. CASE Up(m) /\ NotValid(e)
  <2>1. n = [m EXCEPT !.ram[new][i] = e]
    BY <1>2 DEF clone_table
  <2>2. e = null_pte
    BY <1>0, <1>2, Words, Sizes DEF Points, NotValid
  <2>. HIDE DEF n, e, r
  <2>3. e \in WordType /\ Points(e, role, "l0", new, i)
    BY <2>2, Words DEF Points
  <2>4. Good(n, S, role)
    BY <2>1, <2>3, PutEntry
  <2>5. Works(m, n, S, role, role, r)
    BY <2>1, <2>3, <2>4, WorksPut DEF r
  <2>6. OneWord(m, n, new, i, e)
    BY <2>1, <2>3, PutWord
  <2>7. Copies(m, n, role, new, i)
    BY <2>6 DEF OneWord, Copies
  <2>8. Mirror1(n, old, new, i)
    BY <2>2, <2>6 DEF OneWord, Mirror1, e
  <2>. QED  BY <1>2, <2>5, <2>7, <2>8 DEF n, r
<1>3. CASE Up(m) /\ ~NotValid(e)
  <2>0. e = ptab_pte(e.p) /\ e.p \in Page /\ e.p \in Frame /\ role[e.p] = <<"l0", old, i>>
        /\ e.kind = "table"
    <3>1. e # null_pte
      BY <1>3, Words DEF NotValid
    <3>2. PICK o \in Page : e = ptab_pte(o) /\ role[o] = <<"l0", old, i>>
      BY <1>0, <3>1 DEF Points
    <3>3. e.p = o /\ e.kind = "table" /\ o \in Frame
      BY <3>2, Words, Sizes
    <3>. QED  BY <3>2, <3>3
  <2>1. CASE p = NULL
    <3>1. a = Stop(m, "panic") /\ ~Up(a)
      BY <1>3, <2>1, AllocPage
    <3>2. n = a
      BY <1>3, <2>0, <3>1 DEF clone_table
    <3>3. a.ram = m.ram
      BY <3>1, StopFacts
    <3>. QED  BY <3>1, <3>2, <3>3, WorksNot DEF Copies
  <2>2. CASE p # NULL
    <3>1. Up(a)
      BY <1>3, <2>2, AllocPage
    <3>2. PICK ra : Taken(m, a, S, role, ra, p)
      BY <1>3, <2>2, AllocPage
    <3>. DEFINE b == [a EXCEPT !.ram[new][i] = ptab_pte(p)]
                o == e.p
    <3>3. n = ClonePages(b, o, p, i)
      BY <1>3, <2>0, <3>1 DEF clone_table, ClonePages
    <3>. HIDE DEF n, a, b, e, p, r, o
    <3>4. /\ Good(a, S, ra) /\ p \in Page /\ p \in Frame /\ ra[p] = None
          /\ a.ram[p] = ClearPage /\ a.satp = m.satp /\ a.stop = m.stop
          /\ \A f \in Frame : role[f][1] # "free" => f # p /\ ra[f] = role[f] /\ a.ram[f] = m.ram[f]
      <4>1. /\ Good(a, S, ra) /\ p \in Page /\ ra[p] = None /\ role[p] = <<"free", NULL, 0>>
            /\ a.ram[p] = ClearPage /\ a.satp = m.satp /\ a.stop = m.stop
        BY <3>2 DEF Taken
      <4>2. \A f \in Frame : f # p => a.ram[f] = m.ram[f]
        BY <3>2 DEF Taken
      <4>3. Kept(role, ra)
        BY <3>2 DEF Taken
      <4>4. p \in Frame
        BY <4>1, Sizes
      <4>5. \A f \in Frame : role[f][1] # "free" => f # p
        BY <4>1
      <4>. QED  BY <4>1, <4>2, <4>3, <4>4, <4>5 DEF Kept
    <3>5. ptab_pte(p) \in WordType /\ ra[new][1] = "l1" /\ new # p
      BY <3>4, Words, Sizes
    <3>. DEFINE rb == Assign(ra, p, <<"l0", new, i>>)
    <3>6. /\ Good(b, S, rb) /\ OneWord(a, b, new, i, ptab_pte(p))
          /\ \A f \in Frame : f # p => rb[f] = ra[f]
          /\ rb[p] = <<"l0", new, i>>
      <4>1. b = [a EXCEPT !.ram[new][i] = ptab_pte(p)]
        BY DEF b
      <4>2. Good(a, S, ra) /\ p \in Page /\ ra[p] = None /\ a.ram[p] = ClearPage
        BY <3>4
      <4>. QED  BY <3>5, <4>1, <4>2, WorksLink
    <3>. HIDE DEF rb
    <3>7. \A f \in Frame : f # new /\ role[f][1] # "free" => b.ram[f] = m.ram[f]
      BY <3>4, <3>6 DEF OneWord
    <3>8. Works(m, b, S, role, rb, r)
      <4>1. Kept(role, rb)
        BY <3>4, <3>6 DEF Kept
      <4>2. b.satp = m.satp
        BY <3>4, <3>6 DEF OneWord
      <4>3. \A f \in Frame : role[f][1] # "free" /\ RootOf(role, f) # r => b.ram[f] = m.ram[f]
        BY <3>7 DEF r
      <4>. QED  BY <3>6, <4>1, <4>2, <4>3, WorksBy
    <3>9. \A f \in Frame : role[f][1] # "free" => f # p /\ rb[f] = role[f]
      BY <3>4, <3>6
    <3>10. o \in Frame /\ role[o][1] = "l0" /\ role[o] = <<"l0", old, i>> /\ o # new
      <4>1. o \in Frame /\ role[o] = <<"l0", old, i>>
        BY <2>0 DEF o
      <4>2. role[o][1] = "l0"
        BY <4>1
      <4>. QED  BY <4>1, <4>2
    <3>11. /\ rb[o][1] = "l0" /\ o # p /\ rb[p][1] = "l0" /\ rb[p][2] = new /\ rb[new][1] = "l1"
           /\ RootOf(rb, p) = r
      <4>1. o # p /\ rb[o] = role[o] /\ rb[new] = role[new]
        BY <3>9, <3>10
      <4>2. rb[p][1] = "l0" /\ rb[p][2] = new
        BY <3>6
      <4>. QED  BY <3>10, <4>1, <4>2 DEF RootOf, r
    <3>12. /\ n \in From(b, S, rb, p, r)
           /\ Up(n) => Up(b) /\ \A j \in Word : Mirror0(n, o, p, j)
      BY <3>3, <3>4, <3>6, <3>10, <3>11, ClonePagesFacts
    <3>13. PICK rn : Works(b, n, S, rb, rn, r)
      BY <3>12 DEF From
    <3>14. Works(m, n, S, role, rn, r)
      BY <3>8, <3>13, WorksNext
    <3>15. \A f \in Frame : role[f][1] # "free" => n.ram[f] = b.ram[f]
      BY <3>9, <3>12 DEF From
    <3>16. /\ Copies(m, n, role, new, i) /\ n.ram[new][i] = ptab_pte(p)
      <4>1. n.ram[new] = b.ram[new] /\ a.ram[new] = m.ram[new]
        BY <3>4, <3>15
      <4>2. /\ b.ram[new][i] = ptab_pte(p)
            /\ \A k \in Word : k # i => b.ram[new][k] = a.ram[new][k]
        BY <3>6 DEF OneWord
      <4>. QED  BY <3>7, <3>15, <4>1, <4>2 DEF Copies
    <3>17. ASSUME Up(n) PROVE Mirror1(n, old, new, i)
      <4>1. n.ram[old][i] = e
        BY <3>7, <3>15 DEF e
      <4>2. ptab_pte(p).kind = "table" /\ ptab_pte(p).p = p
        BY <3>4, Words, Sizes
      <4>3. \A j \in Word : Mirror0(n, e.p, p, j)
        BY <3>12, <3>17 DEF o
      <4>. QED  BY <2>0, <3>16, <4>1, <4>2, <4>3 DEF Mirror1
    <3>. QED  BY <1>3, <3>14, <3>16, <3>17 DEF n, r
  <2>. QED  BY <2>1, <2>2
<1>. QED  BY <1>1, <1>2, <1>3

\* Copies of other tables do not disturb a table and its copy.
LEMMA MirrorsKept ==
    ASSUME NEW m, NEW S, NEW role, Good(m, S, role), NEW old \in Frame, NEW new \in Frame,
           role[old][1] = "l1", role[new][1] = "l1", old # new, NEW i \in Word,
           Mirror1(m, old, new, i), NEW n, NEW k, k # i, Copies(m, n, role, new, k)
    PROVE  Mirror1(n, old, new, i)
<1>. DEFINE e == m.ram[old][i]
            d == m.ram[new][i]
<1>1. Points(e, role, "l0", old, i) /\ Points(d, role, "l0", new, i)
  BY DEF Good, Fits
<1>2. n.ram[old][i] = e /\ n.ram[new][i] = d
  BY DEF Copies
<1>3. CASE e = null_pte /\ d = null_pte
  BY <1>2, <1>3 DEF Mirror1
<1>4. CASE e.kind = "table" /\ d.kind = "table" /\ \A j \in Word : Mirror0(m, e.p, d.p, j)
  <2>. HIDE DEF e, d
  <2>1. /\ e.p \in Page /\ role[e.p] = <<"l0", old, i>>
        /\ d.p \in Page /\ role[d.p] = <<"l0", new, i>>
    <3>1. e # null_pte /\ d # null_pte
      BY <1>4, Words
    <3>2. PICK x \in Page : e = ptab_pte(x) /\ role[x] = <<"l0", old, i>>
      BY <1>1, <3>1 DEF Points
    <3>3. PICK y \in Page : d = ptab_pte(y) /\ role[y] = <<"l0", new, i>>
      BY <1>1, <3>1 DEF Points
    <3>4. e.p = x /\ d.p = y
      BY <3>2, <3>3, Words, Sizes
    <3>. QED  BY <3>2, <3>3, <3>4
  <2>2. e.p \in Frame /\ role[e.p][1] = "l0" /\ d.p \in Frame /\ role[d.p][1] = "l0"
    <3>1. role[e.p][1] = "l0" /\ role[d.p][1] = "l0"
      BY <2>1
    <3>. QED  BY <2>1, <3>1, Sizes
  <2>3. n.ram[e.p] = m.ram[e.p] /\ n.ram[d.p] = m.ram[d.p]
    BY <2>2 DEF Copies
  <2>4. \A f \in Frame : role[f][1] = "user" => n.ram[f] = m.ram[f]
    BY DEF Copies
  <2>5. ASSUME NEW j \in Word PROVE Mirror0(n, e.p, d.p, j)
    <3>. DEFINE x == e.p
                y == d.p
    <3>1. Mirror0(m, x, y, j) /\ n.ram[x][j] = m.ram[x][j] /\ n.ram[y][j] = m.ram[y][j]
      BY <1>4, <2>3
    <3>2. x \in Frame /\ y \in Frame /\ role[x][1] = "l0" /\ role[y][1] = "l0"
      BY <2>2
    <3>. HIDE DEF x, y
    <3>3. Mirror0(n, x, y, j)
      BY <2>4, <3>1, <3>2, MirrorKept
    <3>. QED  BY <3>3 DEF x, y
  <2>. QED  BY <1>2, <1>4, <2>5 DEF Mirror1
<1>. QED  BY <1>3, <1>4 DEF Mirror1

\* The loop over the entries of the level 1 table.
CloneTables(b, old, new) ==
    FoldLeft(LAMBDA x, i : clone_table(x, old, new, i - 1), b, [j \in 1 .. PTE_CNT |-> j])

LEMMA CloneTablesFacts ==
    ASSUME NEW b, NEW S, NEW role, Good(b, S, role), NEW old \in Frame, NEW new \in Frame,
           role[old][1] = "l1", old # new, NEW r, role[new][1] = "l1" /\ role[new][2] = r
    PROVE  LET n == CloneTables(b, old, new) IN
           /\ n \in From(b, S, role, new, r)
           /\ Up(n) => Up(b) /\ \A i \in Word : Mirror1(n, old, new, i)
<1>. DEFINE U == From(b, S, role, new, r)
            q == [j \in 1 .. PTE_CNT |-> j]
            Op(x, u) == clone_table(x, old, new, u - 1)
            h == [k \in 1 .. PTE_CNT |-> [x \in U |-> Op(x, q[k])]]
            F(g) == [t \in SUBSET (1 .. PTE_CNT) |-> IF t = {} THEN b ELSE Op(g[t \ {Max(t)}], q[Max(t)])]
            c == CHOOSE g : g = F(g)
<1>0. /\ PTE_CNT \in Nat /\ DOMAIN q = 1 .. PTE_CNT
      /\ \A k \in 1 .. PTE_CNT : q[k] = k /\ k - 1 \in Word
  BY MemoryAssumption DEF Word
<1>1. b \in U
  BY FromStart
<1>. HIDE DEF q
<1>11. ASSUME NEW x \in U, NEW k \in 1 .. PTE_CNT
       PROVE  /\ Op(x, q[k]) \in U
              /\ Up(Op(x, q[k])) => Up(x) /\ Mirror1(Op(x, q[k]), old, new, k - 1)
              /\ \A l \in Word : l # k - 1 /\ Mirror1(x, old, new, l) =>
                                 Mirror1(Op(x, q[k]), old, new, l)
  <2>1. PICK rx : Works(b, x, S, role, rx, r)
    BY DEF From
  <2>2. \A f \in Frame : f # new /\ role[f][1] # "free" => x.ram[f] = b.ram[f]
    BY DEF From
  <2>3. Good(x, S, rx) /\ Kept(role, rx)
    BY <2>1 DEF Works
  <2>4. rx[new] = role[new] /\ rx[old] = role[old]
    BY <2>3 DEF Kept
  <2>5. rx[old][1] = "l1" /\ rx[new][1] = "l1" /\ RootOf(rx, new) = r
    BY <2>4 DEF RootOf
  <2>. DEFINE z == Op(x, q[k])
  <2>6. /\ \E rn : Works(x, z, S, rx, rn, r)
        /\ Copies(x, z, rx, new, k - 1)
        /\ Up(z) => Up(x) /\ Mirror1(z, old, new, k - 1)
    BY <1>0, <2>3, <2>5, CloneTable
  <2>. HIDE DEF Op, z
  <2>7. z \in U
    BY <2>1, <2>2, <2>6, FromStep
  <2>8. ASSUME NEW l \in Word, l # k - 1, Mirror1(x, old, new, l) PROVE Mirror1(z, old, new, l)
    BY <2>3, <2>5, <2>6, <2>8, MirrorsKept
  <2>. QED  BY <2>6, <2>7, <2>8 DEF z
<1>2. ASSUME NEW x \in U, NEW k \in 1 .. PTE_CNT PROVE Op(x, q[k]) \in U
  BY <1>11
<1>3. CloneTables(b, old, new) = c[1 .. PTE_CNT]
  BY <1>0 DEF CloneTables, q, FoldLeft, MapThenFoldSet
<1>. HIDE DEF U, q, Op
<1>4. h \in [1 .. PTE_CNT -> [U -> U]] /\ \A x \in U, k \in 1 .. PTE_CNT : h[k][x] = Op(x, q[k])
  BY <1>2
<1>. HIDE DEF h
<1>5. c = F(c)
  <2>1. PICK g \in [SUBSET (1 .. PTE_CNT) -> U] : IsFold(PTE_CNT, b, h, g)
    <3>1. h \in [1 .. PTE_CNT -> [U -> U]]
      BY <1>4
    <3>. QED  BY <1>0, <1>1, <3>1, FoldExists
  <2>2. ASSUME NEW t \in SUBSET (1 .. PTE_CNT)
        PROVE  g[t] = IF t = {} THEN b ELSE Op(g[t \ {Max(t)}], q[Max(t)])
    <3>1. t # {} => Max(t) \in 1 .. PTE_CNT /\ t \ {Max(t)} \in SUBSET (1 .. PTE_CNT)
      BY <1>0, MaxIn
    <3>. QED  BY <1>4, <2>1, <3>1 DEF IsFold
  <2>3. g = F(g)
    BY <2>2
  <2>. HIDE DEF F
  <2>. QED  BY <2>3
<1>. HIDE DEF c
<1>6. /\ c[{}] = b
      /\ \A k \in 1 .. PTE_CNT : c[1 .. k] = Op(c[1 .. k - 1], q[k])
  <2>1. \A t \in SUBSET (1 .. PTE_CNT) : c[t] = IF t = {} THEN b ELSE Op(c[t \ {Max(t)}], q[Max(t)])
    BY <1>5
  <2>2. PTE_CNT \in Nat
    BY <1>0
  <2>3. c[{}] = b
    BY <2>1
  <2>4. ASSUME NEW k \in 1 .. PTE_CNT PROVE c[1 .. k] = Op(c[1 .. k - 1], q[k])
    <3>1. /\ 1 .. k \in SUBSET (1 .. PTE_CNT) /\ 1 .. k # {}
          /\ Max(1 .. k) = k /\ (1 .. k) \ {k} = 1 .. k - 1
      BY <2>2, Segments
    <3>. QED  BY <2>1, <3>1
  <2>. QED  BY <2>3, <2>4
<1>7. \A k \in 0 .. PTE_CNT : c[1 .. k] \in U
  <2>1. h \in [1 .. PTE_CNT -> [U -> U]]
    BY <1>4
  <2>2. Follows(PTE_CNT, U, h, c)
    BY <1>4, <1>6 DEF Follows
  <2>. QED  BY <1>0, <1>1, <1>6, <2>1, <2>2, FoldRuns
<1>. DEFINE T == {k \in Nat : k <= PTE_CNT /\ Up(c[1 .. k]) =>
                               Up(b) /\ \A l \in 0 .. k - 1 : Mirror1(c[1 .. k], old, new, l)}
<1>8. 0 \in T
  <2>1. c[1 .. 0] = b /\ 0 .. 0 - 1 = {}
    BY <1>0, <1>6, Segments
  <2>. QED  BY <2>1
<1>9. ASSUME NEW k \in Nat, k \in T PROVE k + 1 \in T
  <2>. SUFFICES ASSUME k + 1 <= PTE_CNT, Up(c[1 .. k + 1])
               PROVE  Up(b) /\ \A l \in 0 .. k : Mirror1(c[1 .. k + 1], old, new, l)
    OBVIOUS
  <2>. DEFINE x == c[1 .. k]
              z == c[1 .. k + 1]
  <2>1. k \in 0 .. PTE_CNT /\ k + 1 \in 1 .. PTE_CNT /\ (k + 1) - 1 = k /\ k <= PTE_CNT
    BY <1>0
  <2>2. x \in U /\ z = Op(x, q[k + 1])
    BY <1>6, <1>7, <2>1
  <2>3. Up(x) /\ Mirror1(z, old, new, k)
    BY <1>11, <2>1, <2>2
  <2>4. Up(b) /\ \A l \in 0 .. k - 1 : Mirror1(x, old, new, l)
    BY <1>9, <2>1, <2>3
  <2>. HIDE DEF x, z
  <2>5. ASSUME NEW l \in 0 .. k PROVE Mirror1(z, old, new, l)
    <3>1. CASE l = k
      BY <2>3, <3>1
    <3>2. CASE l # k
      <4>1. l \in 0 .. k - 1 /\ l \in Word /\ l # (k + 1) - 1
        BY <1>0, <2>1, <3>2 DEF Word
      <4>. QED  BY <1>11, <2>1, <2>2, <2>4, <4>1
    <3>. QED  BY <3>1, <3>2
  <2>. QED  BY <2>4, <2>5 DEF z
<1>. HIDE DEF T
<1>10. PTE_CNT \in T
  BY <1>0, <1>8, <1>9, NatSetInduction
<1>12. c[1 .. PTE_CNT] \in U
  BY <1>0, <1>7
<1>13. Up(c[1 .. PTE_CNT]) => Up(b) /\ \A l \in Word : Mirror1(c[1 .. PTE_CNT], old, new, l)
  BY <1>0, <1>10 DEF T, Word
<1>. QED  BY <1>3, <1>12, <1>13 DEF U
\* A space and its copy look the same.
LEMMA MirrorView ==
    ASSUME NEW m, NEW r, NEW p, NEW old \in Nat, NEW new \in Nat,
           m.ram[r][0] = ptab_pte(old), m.ram[p][0] = ptab_pte(new),
           \A i \in Word : Mirror1(m, old, new, i)
    PROVE  View(m, p) = View(m, r)
<1>. DEFINE Shown(e) == IF e.kind = "leaf" /\ e.p # NULL THEN [w |-> e.w, page |-> m.ram[e.p]]
                        ELSE [w |-> FALSE, page |-> << >>]
<1>1. ASSUME NEW v \in Vpn PROVE Shown(lookup(m, p, v)) = Shown(lookup(m, r, v))
  <2>. DEFINE i == VPN1(v)
              j == VPN0(v)
              e == m.ram[old][i]
              d == m.ram[new][i]
  <2>1. i \in Word /\ j \in Word
    BY VpnParts
  <2>2. Mirror1(m, old, new, i)
    BY <2>1
  <2>3. /\ lookup(m, r, v) = IF e.kind # "table" THEN null_pte ELSE m.ram[e.p][j]
        /\ lookup(m, p, v) = IF d.kind # "table" THEN null_pte ELSE m.ram[d.p][j]
    BY Words DEF lookup
  <2>4. CASE e = null_pte /\ d = null_pte
    <3>1. lookup(m, r, v) = null_pte /\ lookup(m, p, v) = null_pte
      BY <2>3, <2>4, Words
    <3>. HIDE DEF Shown
    <3>. QED  BY <3>1
  <2>5. CASE e.kind = "table" /\ d.kind = "table" /\ \A k \in Word : Mirror0(m, e.p, d.p, k)
    <3>. DEFINE x == m.ram[e.p][j]
                y == m.ram[d.p][j]
    <3>1. lookup(m, r, v) = x /\ lookup(m, p, v) = y
      BY <2>3, <2>5
    <3>2. Mirror0(m, e.p, d.p, j)
      BY <2>1, <2>5
    <3>3. \/ x = null_pte /\ y = null_pte
          \/ /\ x.kind = "leaf" /\ y.kind = "leaf" /\ x.w = y.w
             /\ x.p # NULL /\ y.p # NULL /\ m.ram[x.p] = m.ram[y.p]
      BY <3>2 DEF Mirror0
    <3>. HIDE DEF x, y
    <3>4. Shown(x) = Shown(y)
      BY <3>3
    <3>. HIDE DEF Shown
    <3>. QED  BY <3>1, <3>4
  <2>. QED  BY <2>2, <2>4, <2>5 DEF Mirror1
<1>2. \A s : View(m, s) = [v \in Vpn |-> Shown(lookup(m, s, v))]
  BY DEF View
<1>. HIDE DEF Shown
<1>. QED  BY <1>1, <1>2

\* A page becomes the root of a space that maps nothing.
LEMMA NewRoot ==
    ASSUME NEW m, NEW S, NEW role, Good(m, S, role), NEW p \in Page, role[p] = None,
           m.ram[p] = ClearPage
    PROVE  LET new == Assign(role, p, <<"root", NULL, 0>>) IN
           /\ Good(m, S \cup {p}, new) /\ new[p] = <<"root", NULL, 0>>
           /\ \A f \in Frame : f # p => new[f] = role[f]
<1>. DEFINE new == Assign(role, p, <<"root", NULL, 0>>)
<1>1. p \in Frame /\ new[p] = <<"root", NULL, 0>> /\ \A f \in Frame : f # p => new[f] = role[f]
  BY Sizes DEF Assign
<1>2. Good(m, S, new)
  <2>. HIDE DEF new
  <2>1. m.ram[p][0] = null_pte
    BY Words, Sizes
  <2>2. Fits(m.ram[p], new, p)
    BY <1>1, <2>1 DEF Fits, Points
  <2>. QED  BY <2>2, Retype DEF new
<1>. HIDE DEF new
<1>3. Good(m, S \cup {p}, new)
  BY <1>1, <1>2 DEF Good
<1>. QED  BY <1>1, <1>3 DEF new

LEMMA FewerRoots ==
    ASSUME NEW m, NEW S, NEW role, NEW p, Good(m, S \cup {p}, role), main_pt2 \in S, m.satp \in S
    PROVE  Good(m, S, role)
BY DEF Good

\* memory_space_clone changes no space, and what it makes looks like the active one.
CloneOf(m, c, S) ==
    /\ Sound(c, S) /\ c.satp = m.satp /\ \A s \in S : View(c, s) = View(m, s)
    /\ Up(c) => /\ m.free_list \in Page \ S /\ Sound(c, S \cup {m.free_list})
                /\ View(c, m.free_list) = View(m, m.satp)

LEMMA SpaceClone ==
    ASSUME NEW m, NEW S, NEW role, Good(m, S, role), Up(m)
    PROVE  CloneOf(m, memory_space_clone(m), S)
<1>. DEFINE c == memory_space_clone(m)
            r == m.satp
            e == m.ram[r][0]
            a2 == memory_alloc_page(m)
            a1 == memory_alloc_page(a2)
            p2 == m.free_list
            p1 == a2.free_list
            S2 == S \cup {p2}
<1>0. r \in S /\ r \in Frame /\ role[r] = <<"root", NULL, 0>> /\ main_pt2 \in S /\ S \subseteq Frame
      /\ Points(e, role, "l1", r, 0)
  <2>1. r \in S /\ r \in Frame /\ role[r] = <<"root", NULL, 0>> /\ main_pt2 \in S /\ S \subseteq Frame
    BY DEF Good
  <2>2. Fits(m.ram[r], role, r) /\ role[r][1] = "root"
    BY <2>1 DEF Good
  <2>. QED  BY <2>1, <2>2 DEF Fits
<1>1. CASE p2 = NULL
  <2>1. a2 = Stop(m, "panic") /\ ~Up(a2)
    BY <1>1, AllocPage
  <2>2. c = a2
    BY <2>1 DEF memory_space_clone
  <2>3. Works(m, a2, S, role, role, NULL)
    BY <2>1, WorksNot
  <2>4. \A s \in S : s # NULL
    BY <1>0, Sizes
  <2>. HIDE DEF c, a2, r, p2
  <2>. QED  BY <2>1, <2>2, <2>3, <2>4 DEF CloneOf, Sound, Works, c
<1>2. CASE p2 # NULL
  <2>1. Up(a2)
    BY <1>2, AllocPage
  <2>2. PICK ra : Taken(m, a2, S, role, ra, p2)
    BY <1>2, AllocPage
  <2>3. /\ Good(a2, S, ra) /\ p2 \in Page /\ p2 \in Frame /\ ra[p2] = None /\ a2.satp = r
        /\ a2.ram[p2] = ClearPage /\ Kept(role, ra) /\ p2 \notin S /\ p2 # r
        /\ \A f \in Frame : role[f][1] # "free" => f # p2 /\ a2.ram[f] = m.ram[f]
        /\ \A s \in S : View(a2, s) = View(m, s)
    <3>1. /\ Good(a2, S, ra) /\ p2 \in Page /\ ra[p2] = None /\ a2.satp = r
          /\ a2.ram[p2] = ClearPage /\ Kept(role, ra) /\ role[p2] = <<"free", NULL, 0>>
          /\ \A f \in Frame : f # p2 => a2.ram[f] = m.ram[f]
          /\ \A s \in S : View(a2, s) = View(m, s)
      BY <2>2 DEF Taken
    <3>2. \A s \in S : role[s] = <<"root", NULL, 0>>
      BY DEF Good
    <3>3. <<"root", NULL, 0>> # <<"free", NULL, 0>> /\ role[p2][1] = "free"
      BY <3>1
    <3>4. p2 \notin S
      BY <3>1, <3>2, <3>3
    <3>. HIDE DEF a2, p2, r
    <3>5. \A f \in Frame : role[f][1] # "free" => f # p2 /\ a2.ram[f] = m.ram[f]
      BY <3>1, <3>3
    <3>. QED  BY <1>0, <3>1, <3>4, <3>5, Sizes
  <2>. DEFINE rr == Assign(ra, p2, <<"root", NULL, 0>>)
  <2>4. Good(a2, S2, rr) /\ rr[p2] = <<"root", NULL, 0>> /\ \A f \in Frame : f # p2 => rr[f] = ra[f]
    <3>1. Good(a2, S, ra) /\ p2 \in Page /\ ra[p2] = None /\ a2.ram[p2] = ClearPage
      BY <2>3
    <3>. HIDE DEF a2, p2
    <3>. QED  BY <3>1, NewRoot
  <2>5. c = IF NotValid(e) THEN [a2 EXCEPT !.ram[p2][0] = e]
            ELSE IF e.kind # "table" THEN Stop(a2, "wild")
            ELSE IF ~Up(a1) THEN a1
            ELSE CloneTables([a1 EXCEPT !.ram[p2][0] = ptab_pte(p1)], e.p, p1)
    BY <2>1 DEF memory_space_clone, CloneTables
  <2>. SUFFICES CloneOf(m, c, S)
    OBVIOUS
  <2>. HIDE DEF c, a2, p2, rr, r, e
  <2>6. ASSUME NEW rc, Good(c, S2, rc), c.satp = r, \A s \in S : View(c, s) = View(a2, s),
               Up(c) => View(c, p2) = View(m, r)
        PROVE  CloneOf(m, c, S)
    <3>1. Good(c, S, rc)
      BY <1>0, <2>6, FewerRoots
    <3>. QED  BY <2>3, <2>6, <3>1 DEF CloneOf, Sound, p2, r
  <2>7. CASE NotValid(e)
    <3>1. e = null_pte
      BY <1>0, <2>7, Words, Sizes DEF Points, NotValid
    <3>2. c = [a2 EXCEPT !.ram[p2][0] = e]
      BY <2>5, <2>7
    <3>3. e \in WordType /\ Points(e, rr, "l1", p2, 0) /\ 0 \in Word /\ rr[p2][1] = "root"
      BY <2>4, <3>1, Words, Sizes DEF Points
    <3>. HIDE DEF S2
    <3>4. Good(c, S2, rr)
      BY <2>3, <2>4, <3>2, <3>3, PutEntry
    <3>5. /\ OneWord(a2, c, p2, 0, e)
          /\ \A s \in S2 : s # RootOf(rr, p2) => View(c, s) = View(a2, s)
      BY <2>3, <2>4, <3>2, <3>3, PutWord
    <3>6. \A s \in S : View(c, s) = View(a2, s)
      <4>1. RootOf(rr, p2) = p2
        BY <3>3 DEF RootOf
      <4>. QED  BY <2>3, <3>5, <4>1 DEF S2
    <3>7. c.satp = r
      BY <2>3, <3>5 DEF OneWord
    <3>8. View(c, p2) = View(m, r)
      <4>1. c.ram[p2][0] = null_pte /\ m.ram[r][0] = null_pte
        BY <3>1, <3>5 DEF OneWord, e
      <4>2. \A v : lookup(c, p2, v) = null_pte /\ lookup(m, r, v) = null_pte
        BY <4>1, Words DEF lookup
      <4>. QED  BY <4>2, Words DEF View
    <3>. QED  BY <2>6, <3>4, <3>6, <3>7, <3>8 DEF S2
  <2>8. CASE ~NotValid(e)
    <3>. DEFINE t1 == e.p
    <3>1. /\ e = ptab_pte(t1) /\ t1 \in Page /\ t1 \in Frame /\ role[t1] = <<"l1", r, 0>>
          /\ e.kind = "table"
      <4>1. e # null_pte
        BY <2>8, Words DEF NotValid
      <4>2. PICK o \in Page : e = ptab_pte(o) /\ role[o] = <<"l1", r, 0>>
        BY <1>0, <4>1 DEF Points
      <4>3. e.p = o /\ e.kind = "table" /\ o \in Frame
        BY <4>2, Words, Sizes
      <4>. QED  BY <4>2, <4>3
    <3>. HIDE DEF S2
    <3>2. CASE p1 = NULL
      <4>1. a1 = Stop(a2, "panic") /\ ~Up(a1)
        BY <2>1, <2>4, <3>2, AllocPage
      <4>2. c = a1
        BY <2>5, <2>8, <3>1, <4>1
      <4>3. Works(a2, a1, S2, rr, rr, NULL)
        BY <2>4, <4>1, WorksNot
      <4>4. \A s \in S : s # NULL /\ s \in S2
        BY <1>0, Sizes DEF S2
      <4>. HIDE DEF a1
      <4>5. Good(c, S2, rr) /\ c.satp = r /\ \A s \in S : View(c, s) = View(a2, s)
        BY <2>3, <4>2, <4>3, <4>4 DEF Works
      <4>. QED  BY <2>6, <4>1, <4>2, <4>5 DEF S2
    <3>3. CASE p1 # NULL
      <4>1. Up(a1)
        BY <2>1, <2>4, <3>3, AllocPage
      <4>2. PICK rs : Taken(a2, a1, S2, rr, rs, p1)
        BY <2>1, <2>4, <3>3, AllocPage
      <4>. DEFINE b == [a1 EXCEPT !.ram[p2][0] = ptab_pte(p1)]
      <4>3. c = CloneTables(b, t1, p1)
        BY <2>5, <2>8, <3>1, <4>1
      <4>. HIDE DEF a1, p1, b, t1
      <4>4. /\ Good(a1, S2, rs) /\ p1 \in Page /\ p1 \in Frame /\ rs[p1] = None
            /\ a1.ram[p1] = ClearPage /\ a1.satp = r /\ Kept(rr, rs)
            /\ rr[p1] = <<"free", NULL, 0>> /\ \A f \in Frame : f # p1 => a1.ram[f] = a2.ram[f]
            /\ \A s \in S2 : View(a1, s) = View(a2, s)
        BY <2>3, <4>2, Sizes DEF Taken
      <4>5. /\ rr[t1] = role[t1] /\ rs[t1] = role[t1] /\ rs[p2] = <<"root", NULL, 0>> /\ rs[p2][1] = "root"
            /\ t1 # p2 /\ p2 # p1 /\ t1 # p1 /\ rr[r] = role[r] /\ r # p1 /\ a1.ram[r] = m.ram[r]
        <5>1. role[t1][1] = "l1" /\ role[r][1] = "root"
          BY <1>0, <3>1
        <5>2. t1 # p2 /\ ra[t1] = role[t1] /\ ra[r] = role[r] /\ a2.ram[r] = m.ram[r]
          BY <1>0, <2>3, <3>1, <5>1 DEF Kept
        <5>3. rr[t1] = role[t1] /\ rr[r] = role[r] /\ rr[t1][1] # "free" /\ rr[r][1] # "free"
          BY <1>0, <2>3, <2>4, <3>1, <5>1, <5>2
        <5>4. rr[p1][1] = "free" /\ rr[p2][1] = "root"
          BY <2>4, <4>4
        <5>5. t1 # p1 /\ r # p1 /\ p2 # p1
          BY <5>3, <5>4
        <5>6. rs[t1] = rr[t1] /\ rs[p2] = rr[p2]
          BY <2>3, <3>1, <4>4, <5>3, <5>4 DEF Kept
        <5>7. rs[p2] = <<"root", NULL, 0>> /\ rs[p2][1] = "root"
          BY <2>4, <5>4, <5>6
        <5>. QED  BY <1>0, <4>4, <5>2, <5>3, <5>5, <5>6, <5>7
      <4>6. ptab_pte(p1) \in WordType /\ ptab_pte(p1).p = p1 /\ 0 \in Word
        BY <4>4, Words, Sizes
      <4>. DEFINE rt == Assign(rs, p1, <<"l1", p2, 0>>)
      <4>7. /\ Good(b, S2, rt) /\ OneWord(a1, b, p2, 0, ptab_pte(p1))
            /\ \A s \in S2 : s # RootOf(rs, p2) => View(b, s) = View(a1, s)
            /\ \A f \in Frame : f # p1 => rt[f] = rs[f]
            /\ rt[p1] = <<"l1", p2, 0>>
        <5>1. b = [a1 EXCEPT !.ram[p2][0] = ptab_pte(p1)]
          BY DEF b
        <5>2. Good(a1, S2, rs) /\ p1 \in Page /\ rs[p1] = None /\ a1.ram[p1] = ClearPage
          BY <4>4
        <5>3. p2 \in Frame /\ rs[p2][1] = "root" /\ "l1" # "user"
          BY <2>3, <4>5
        <5>4. /\ Good(b, S2, rt) /\ OneWord(a1, b, p2, 0, ptab_pte(p1))
              /\ \A s \in S2 : s # RootOf(rs, p2) => View(b, s) = View(a1, s)
              /\ \A f \in Frame : f # p1 => rt[f] = rs[f]
          <6>. DEFINE e1 == ptab_pte(p1)
          <6>1. e1 \in WordType /\ e1 = ptab_pte(p1) /\ b = [a1 EXCEPT !.ram[p2][0] = e1]
            BY <4>6, <5>1
          <6>2. 0 \in Word
            BY <4>6
          <6>. HIDE DEF e1, b, a1, p1, p2
          <6>3. /\ Good(b, S2, rt) /\ OneWord(a1, b, p2, 0, e1)
                /\ \A s \in S2 : s # RootOf(rs, p2) => View(b, s) = View(a1, s)
                /\ \A f \in Frame : f # p1 => rt[f] = rs[f]
            BY <5>2, <5>3, <6>1, <6>2, WorksLink
          <6>. QED  BY <6>3 DEF e1
        <5>5. rt[p1] = <<"l1", p2, 0>>
          BY <5>2, Sizes DEF Assign
        <5>. QED  BY <5>4, <5>5
      <4>. HIDE DEF rt
      <4>8. /\ rt[t1][1] = "l1" /\ rt[p1][1] = "l1" /\ rt[p1][2] = p2
            /\ rt[p2][1] = "root"
        <5>1. rt[t1] = role[t1] /\ role[t1][1] = "l1"
          BY <3>1, <4>5, <4>7
        <5>2. rt[p1][1] = "l1" /\ rt[p1][2] = p2
          BY <4>7
        <5>. QED  BY <2>3, <4>5, <4>7, <5>1, <5>2
      <4>9. /\ c \in From(b, S2, rt, p1, p2)
            /\ Up(c) => \A i \in Word : Mirror1(c, t1, p1, i)
        <5>1. t1 \in Frame
          BY <3>1
        <5>. QED  BY <4>3, <4>4, <4>5, <4>7, <4>8, <5>1, CloneTablesFacts
      <4>10. PICK rc : Works(b, c, S2, rt, rc, p2)
        BY <4>9 DEF From
      <4>11. Good(c, S2, rc) /\ c.satp = r
        BY <4>4, <4>7, <4>10 DEF Works, OneWord
      <4>12. ASSUME NEW s \in S PROVE View(c, s) = View(a2, s)
        <5>1. s # p2 /\ s \in S2 /\ RootOf(rs, p2) = p2
          BY <2>3, <4>5 DEF S2, RootOf
        <5>2. View(c, s) = View(b, s)
          BY <4>10, <5>1 DEF Works
        <5>3. View(b, s) = View(a1, s)
          BY <4>7, <5>1
        <5>. QED  BY <4>4, <5>1, <5>2, <5>3
      <4>13. ASSUME Up(c) PROVE View(c, p2) = View(m, r)
        <5>1. c.ram[p2][0] = ptab_pte(p1)
          <6>1. c.ram[p2] = b.ram[p2]
            BY <2>3, <4>5, <4>8, <4>9 DEF From
          <6>. QED  BY <4>7, <6>1 DEF OneWord
        <5>2. c.ram[r][0] = ptab_pte(t1)
          <6>1. rt[r] = <<"root", NULL, 0>> /\ rt[r][1] = "root"
            BY <1>0, <4>7 DEF Good, S2
          <6>2. c.ram[r] = b.ram[r]
            BY <1>0, <4>5, <4>9, <6>1 DEF From
          <6>3. b.ram[r] = a1.ram[r]
            BY <1>0, <2>3, <4>7 DEF OneWord
          <6>. QED  BY <3>1, <4>5, <6>2, <6>3 DEF e
        <5>3. t1 \in Nat /\ p1 \in Nat
          BY <3>1, <4>4, Sizes
        <5>4. \A i \in Word : Mirror1(c, t1, p1, i)
          BY <4>9, <4>13
        <5>5. View(c, p2) = View(c, r)
          BY <5>1, <5>2, <5>3, <5>4, MirrorView
        <5>6. View(c, r) = View(m, r)
          BY <1>0, <2>3, <4>12
        <5>. QED  BY <5>5, <5>6
      <4>. QED  BY <2>6, <4>11, <4>12, <4>13 DEF S2
    <3>. QED  BY <3>2, <3>3
  <2>. QED  BY <2>7, <2>8
<1>. QED  BY <1>1, <1>2
-----------------------------------------------------------------------------
(* memory_init and the free list *)

LEMMA InitSound == Sound(memory_init, {main_pt2})
<1>. DEFINE m == memory_init
            role == [f \in Frame |-> IF f = main_pt2 THEN <<"root", NULL, 0>>
                                     ELSE IF f = 1 THEN <<"free", NULL, 0>>
                                     ELSE <<"free", f - 1, 0>>]
<1>1. \A p \in Page : [ClearPage EXCEPT ![0] = link(IF p = PageCnt THEN NULL ELSE p + 1)] \in Contents
  <2>. SUFFICES ASSUME NEW p \in Page
               PROVE  [ClearPage EXCEPT ![0] = link(IF p = PageCnt THEN NULL ELSE p + 1)] \in Contents
    OBVIOUS
  <2>1. (IF p = PageCnt THEN NULL ELSE p + 1) \in Nat
    BY Sizes DEF NULL
  <2>. DEFINE x == link(IF p = PageCnt THEN NULL ELSE p + 1)
  <2>2. x \in WordType /\ ClearPage \in Contents
    BY <2>1, Words
  <2>. HIDE DEF x
  <2>3. [ClearPage EXCEPT ![0] = x] \in Contents
    BY <2>2 DEF Contents
  <2>. QED  BY <2>3 DEF x
<1>2. /\ m.ram[main_pt2] = ClearPage
      /\ \A p \in Page : m.ram[p][0] = link(IF p = PageCnt THEN NULL ELSE p + 1)
      /\ m.free_list = 1 /\ m.satp = main_pt2 /\ m.heap = {}
  <2>1. m.ram[main_pt2] = ClearPage /\ m.free_list = 1 /\ m.satp = main_pt2 /\ m.heap = {}
    BY DEF memory_init, Frame
  <2>2. ASSUME NEW p \in Page
        PROVE  m.ram[p][0] = link(IF p = PageCnt THEN NULL ELSE p + 1)
    <3>1. m.ram[p] = [ClearPage EXCEPT ![0] = link(IF p = PageCnt THEN NULL ELSE p + 1)]
      BY Sizes DEF memory_init
    <3>. QED  BY <3>1, Sizes DEF ClearPage
  <2>. QED  BY <2>1, <2>2
<1>3. m \in MemType
  <2>1. m.ram \in [Frame -> Contents]
    BY <1>1, Words, Sizes DEF memory_init, Frame
  <2>2. 1 \in Page /\ HeapRoom \in Nat
    BY MemoryAssumption DEF Page
  <2>. QED  BY <2>1, <2>2, Sizes DEF memory_init, MemType, Frame
<1>4. role[main_pt2] = <<"root", NULL, 0>> /\ 1 \in Page /\ role[1] = <<"free", NULL, 0>>
  BY MemoryAssumption, Sizes DEF Page
<1>5. ASSUME NEW f \in Frame PROVE Fits(m.ram[f], role, f)
  <2>1. CASE f = main_pt2
    <3>1. role[f][1] = "root" /\ m.ram[f][0] = null_pte
      BY <1>2, <1>4, <2>1, Words, Sizes
    <3>. HIDE DEF role, m
    <3>. QED  BY <3>1 DEF Fits, Points
  <2>2. CASE f # main_pt2
    <3>1. f \in Page /\ role[f][1] = "free"
      BY <2>2 DEF Frame
    <3>2. CASE f = PageCnt
      <4>1. m.ram[f][0] = null_pte
        BY <1>2, <3>1, <3>2, Words
      <4>. HIDE DEF role, m
      <4>. QED  BY <3>1, <4>1 DEF Fits
    <3>3. CASE f # PageCnt
      <4>1. f + 1 \in Page /\ f + 1 # 1 /\ f + 1 # main_pt2 /\ (f + 1) - 1 = f
        BY <3>1, <3>3, Sizes DEF Page, main_pt2
      <4>2. m.ram[f][0] = link(f + 1) /\ role[f + 1] = <<"free", f, 0>>
        BY <1>2, <3>1, <3>3, <4>1, Sizes
      <4>. HIDE DEF role, m
      <4>. QED  BY <3>1, <4>1, <4>2 DEF Fits
    <3>. QED  BY <3>2, <3>3
  <2>. QED  BY <2>1, <2>2
<1>. HIDE DEF m, role
<1>6. Good(m, {main_pt2}, role)
  BY <1>2, <1>3, <1>4, <1>5, Sizes DEF Good
<1>. QED  BY <1>6 DEF Sound, m

\* What the free list leads to is free.
LEMMA FreeRole ==
    ASSUME NEW m, NEW S, NEW role, Good(m, S, role)
    PROVE  \A p \in FreePages(m) : p \in Page /\ role[p][1] = "free"
<1>. DEFINE U == {x \in Page \cup {NULL} : x # NULL => role[x][1] = "free"}
            n == PageCnt
            Hop(x) == IF x \in {NULL, GARBAGE} THEN x ELSE m.ram[x][0].p
            h == [k \in 1 .. n |-> [x \in U |-> Hop(x)]]
            F(g) == [k \in 0 .. n |-> IF k = 0 THEN m.free_list ELSE Hop(g[k - 1])]
            c == CHOOSE g : g = F(g)
<1>0. n \in Nat
  BY Sizes
<1>1. m.free_list \in U
  BY DEF Good, MemType
<1>2. ASSUME NEW x \in U PROVE Hop(x) \in U
  <2>1. CASE x = NULL
    BY <2>1
  <2>2. CASE x # NULL
    <3>1. x \in Page /\ x \in Frame /\ role[x][1] = "free" /\ x # GARBAGE
      BY <2>2, Sizes
    <3>2. Fits(m.ram[x], role, x)
      BY <3>1 DEF Good
    <3>3. m.ram[x][0] = null_pte \/ \E p \in Page : m.ram[x][0] = link(p) /\ role[p] = <<"free", x, 0>>
      BY <3>1, <3>2 DEF Fits
    <3>4. CASE m.ram[x][0] = null_pte
      BY <2>2, <3>1, <3>4, Words
    <3>5. CASE \E p \in Page : m.ram[x][0] = link(p) /\ role[p] = <<"free", x, 0>>
      <4>1. PICK p \in Page : m.ram[x][0] = link(p) /\ role[p] = <<"free", x, 0>>
        BY <3>5
      <4>2. Hop(x) = p
        BY <2>2, <3>1, <4>1, Words, Sizes
      <4>. QED  BY <4>1, <4>2
    <3>. QED  BY <3>3, <3>4, <3>5
  <2>. QED  BY <2>1, <2>2
<1>3. FreePages(m) = {c[k] : k \in 0 .. n} \cap Page
  BY DEF FreePages
<1>. DEFINE b == m.free_list
<1>. HIDE DEF Hop, U, n, b
<1>4. h \in [1 .. n -> [U -> U]] /\ \A x \in U, k \in 1 .. n : h[k][x] = Hop(x)
  BY <1>2
<1>. HIDE DEF h
<1>5. \E g \in [0 .. n -> U] : g = F(g)
  <2>1. PICK g \in [SUBSET (1 .. n) -> U] : IsFold(n, b, h, g)
    <3>1. h \in [1 .. n -> [U -> U]] /\ b \in U
      BY <1>1, <1>4 DEF b
    <3>. QED  BY <1>0, <3>1, FoldExists
  <2>. DEFINE e == [k \in 0 .. n |-> g[1 .. k]]
  <2>2. ASSUME NEW k \in 0 .. n PROVE 1 .. k \in SUBSET (1 .. n) /\ g[1 .. k] \in U
    <3>1. 1 .. k \in SUBSET (1 .. n)
      BY <1>0
    <3>. QED  BY <3>1
  <2>3. g[1 .. 0] = b
    <3>1. {} \in SUBSET (1 .. n) /\ 1 .. 0 = {}
      BY <1>0, Segments
    <3>. QED  BY <2>1, <3>1 DEF IsFold
  <2>4. ASSUME NEW k \in 1 .. n PROVE g[1 .. k] = Hop(g[1 .. k - 1])
    <3>1. /\ 1 .. k \in SUBSET (1 .. n) /\ 1 .. k # {}
          /\ Max(1 .. k) = k /\ (1 .. k) \ {k} = 1 .. k - 1
      BY <1>0, Segments
    <3>2. g[1 .. k] = h[k][g[1 .. k - 1]]
      BY <2>1, <3>1 DEF IsFold
    <3>3. k - 1 \in 0 .. n
      BY <1>0
    <3>. QED  BY <1>4, <2>2, <3>2, <3>3
  <2>5. e \in [0 .. n -> U]
    BY <2>2
  <2>6. ASSUME NEW k \in 0 .. n PROVE e[k] = IF k = 0 THEN b ELSE Hop(e[k - 1])
    <3>1. CASE k = 0
      BY <2>3, <3>1
    <3>2. CASE k # 0
      <4>1. k \in 1 .. n /\ k - 1 \in 0 .. n
        BY <1>0, <3>2
      <4>2. e[k] = g[1 .. k] /\ e[k - 1] = g[1 .. k - 1]
        BY <4>1
      <4>. HIDE DEF e
      <4>. QED  BY <2>4, <3>2, <4>1, <4>2
    <3>. QED  BY <3>1, <3>2
  <2>7. e = F(e)
    BY <2>6 DEF b
  <2>. HIDE DEF e, F
  <2>. QED  BY <2>5, <2>7
<1>6. c = F(c)
  <2>. HIDE DEF F
  <2>. QED  BY <1>5
<1>. HIDE DEF c
<1>7. c[0] = m.free_list /\ \A k \in 1 .. n : c[k] = Hop(c[k - 1])
  <2>1. \A k \in 0 .. n : c[k] = IF k = 0 THEN m.free_list ELSE Hop(c[k - 1])
    BY <1>6
  <2>2. 0 \in 0 .. n /\ \A k \in 1 .. n : k \in 0 .. n /\ k # 0
    BY <1>0
  <2>. QED  BY <2>1, <2>2
<1>. DEFINE T == {k \in Nat : k <= n => c[k] \in U}
<1>8. 0 \in T
  BY <1>1, <1>7
<1>9. ASSUME NEW k \in Nat, k \in T PROVE k + 1 \in T
  <2>. SUFFICES ASSUME k + 1 <= n PROVE c[k + 1] \in U
    OBVIOUS
  <2>1. k + 1 \in 1 .. n /\ (k + 1) - 1 = k /\ c[k] \in U
    BY <1>0, <1>9
  <2>. QED  BY <1>2, <1>7, <2>1
<1>. HIDE DEF T
<1>10. Nat \subseteq T
  BY <1>8, <1>9, NatSetInduction
<1>11. \A k \in 0 .. n : c[k] \in U
  BY <1>0, <1>10 DEF T
<1>12. ASSUME NEW p \in FreePages(m) PROVE p \in Page /\ role[p][1] = "free"
  <2>1. PICK k \in 0 .. n : p = c[k] /\ p \in Page
    BY <1>3
  <2>2. p \in U /\ p # NULL
    BY <1>11, <2>1, Sizes
  <2>. QED  BY <2>1, <2>2 DEF U
<1>. QED  BY <1>12
-----------------------------------------------------------------------------
(* What a process may do to memory between two steps, which may end in the *)
(* main space: the spaces of S it has not been in look the same.           *)

Still(m, n, S) ==
    /\ Sound(n, S) /\ n.satp \in {m.satp, main_pt2}
    /\ \A s \in S \ {m.satp, n.satp} : View(n, s) = View(m, s)

LEMMA StillTrans ==
    ASSUME NEW m, NEW x, NEW n, NEW S, Still(m, x, S), Still(x, n, S)
    PROVE  Still(m, n, S)
<1>1. Sound(n, S) /\ n.satp \in {m.satp, main_pt2}
  BY DEF Still
<1>2. ASSUME NEW s \in S \ {m.satp, n.satp} PROVE View(n, s) = View(m, s)
  <2>1. s # x.satp
    BY DEF Still
  <2>2. View(n, s) = View(x, s) /\ View(x, s) = View(m, s)
    BY <2>1 DEF Still
  <2>. QED  BY <2>2
<1>. QED  BY <1>1, <1>2 DEF Still

LEMMA StillReach ==
    ASSUME NEW m, NEW S, NEW n \in Reach(m, S, m.satp)
    PROVE  Still(m, n, S)
BY DEF Reach, Still

LEMMA StillWorks ==
    ASSUME NEW m, NEW n, NEW S, NEW role, NEW new, NEW r \in {m.satp, NULL},
           Works(m, n, S, role, new, r)
    PROVE  Still(m, n, S)
<1>1. Sound(n, S) /\ n.satp = m.satp
  BY DEF Works, Sound
<1>2. ASSUME NEW s \in S \ {m.satp, n.satp} PROVE View(n, s) = View(m, s)
  <2>1. s # NULL
    BY Sizes DEF Works, Good
  <2>. QED  BY <2>1 DEF Works
<1>. QED  BY <1>1, <1>2 DEF Still

LEMMA StillSteps ==
    ASSUME NEW m, NEW S, Sound(m, S)
    PROVE  /\ Still(m, m, S) /\ Still(m, Stop(m, "panic"), S) /\ Still(m, kmalloc(m, 1), S)
           /\ Still(m, memory_space_switch(m, main_pt2), S)
           /\ \A v \in Vpn : Still(m, memory_alloc_and_map_page(m, v, TRUE), S)
           /\ \A v \in Vpn, i \in Word, d \in Nat :
                Writable(m, v) => Still(m, store(m, v, i, d), S)
<1>1. PICK role : Good(m, S, role)
  BY DEF Sound
<1>2. Still(m, m, S) /\ Still(m, Stop(m, "panic"), S)
  <2>1. Works(m, m, S, role, role, NULL) /\ Works(m, Stop(m, "panic"), S, role, role, NULL)
    BY <1>1, WorksNot
  <2>. QED  BY <2>1, StillWorks
<1>3. Still(m, kmalloc(m, 1), S)
  <2>1. \E new : Works(m, kmalloc(m, 1), S, role, new, NULL)
    BY <1>1, KmallocFacts
  <2>. QED  BY <2>1, StillWorks
<1>4. Still(m, memory_space_switch(m, main_pt2), S)
  <2>. DEFINE n == memory_space_switch(m, main_pt2)
  <2>1. main_pt2 \in S
    BY <1>1 DEF Good
  <2>2. Good(n, S, role) /\ n.satp = main_pt2 /\ \A s \in S : View(n, s) = View(m, s)
    BY <1>1, <2>1, SwitchFacts
  <2>. HIDE DEF n
  <2>3. Still(m, n, S)
    BY <2>2 DEF Still, Sound
  <2>. QED  BY <2>3 DEF n
<1>5. ASSUME NEW v \in Vpn PROVE Still(m, memory_alloc_and_map_page(m, v, TRUE), S)
  <2>1. VPN1(v) \in Word /\ VPN0(v) \in Word
    BY VpnParts
  <2>2. \E new : Works(m, memory_alloc_and_map_page(m, v, TRUE), S, role, new, m.satp)
    BY <1>1, <2>1, MapPage
  <2>. QED  BY <2>2, StillWorks
<1>6. ASSUME NEW v \in Vpn, NEW i \in Word, NEW d \in Nat, Writable(m, v)
      PROVE  Still(m, store(m, v, i, d), S)
  <2>1. VPN1(v) \in Word /\ VPN0(v) \in Word
    BY VpnParts
  <2>2. lookup(m, m.satp, v).kind = "leaf"
    BY <1>6 DEF Writable
  <2>3. Works(m, store(m, v, i, d), S, role, role, m.satp)
    BY <1>1, <2>1, <2>2, StoreFacts
  <2>. QED  BY <2>3, StillWorks
<1>. QED  BY <1>2, <1>3, <1>4, <1>5, <1>6

-----------------------------------------------------------------------------
(* Processes *)

Obj == Slot \cup {Ser}
IoType == [refcnt : Int, ops : BOOLEAN, flags : {0, 1}, inode : Files]
FsType == [io : [Obj -> IoType], intSpot : Slot]
ProcType == [iotab : [Fd -> Obj \cup {NULL}]]

-----------------------------------------------------------------------------
(* The inductive invariant.  DescriptorKeepsFile needs to know that fs_open *)
(* takes no slot that a descriptor names, and CountCoversDescriptors that   *)
(* counts only go to zero with the last descriptor.                         *)

Shape ==
    /\ fs \in FsType
    /\ proctab \in Seq(ProcType) /\ proctab # << >>
    /\ meant \in [Fd -> Files \cup {NULL}]
    /\ misclosed \in BOOLEAN

\* What is meant to be a file is a slot of fileArray.
FilesNamed == \A d \in Fd : meant[d] # NULL => iotab[d] \in Slot

\* As long as fs_close has not freed the wrong slot, a slot that a descriptor
\* names is taken.
SlotsTaken ==
    phase # "halted" /\ ~misclosed =>
        \A d \in Fd : iotab[d] \in Slot => fs.io[iotab[d]].flags = 1

\* The serial device keeps its operations.
SerialOps == phase # "halted" => fs.io[Ser].ops

IInv ==
    /\ Shape
    /\ SerialOps
    /\ FilesNamed
    /\ SlotsTaken
    /\ CountCoversDescriptors
    /\ DescriptorKeepsFile

-----------------------------------------------------------------------------
(* Naturals *)

LEMMA Constants ==
    /\ 0 \in Fd /\ Fd \subseteq Nat /\ IOMAX \notin Fd /\ -1 \notin Fd
    /\ Slot \subseteq Nat \ {0} /\ 1 \in Slot /\ Ser \notin Slot
    /\ NULL \notin Obj /\ NULL \notin Files
    /\ IsFiniteSet(Fd)
<1>1. IsFiniteSet(Fd)
  <2>1. 0 \in Int /\ IOMAX - 1 \in Int
    BY ProcessAssumption
  <2>2. IsFiniteSet(0 .. IOMAX - 1)
    BY <2>1, FS_Interval
  <2>. QED  BY <2>2 DEF Fd
<1>. QED  BY <1>1, ProcessAssumption DEF Fd, Slot, Ser, NULL, Obj

-----------------------------------------------------------------------------
(* The interfaces *)

\* An interface is replaced by another.
LEMMA SetIo ==
    ASSUME NEW f \in FsType, NEW o \in Obj, NEW r \in IoType
    PROVE  /\ [f EXCEPT !.io[o] = r] \in FsType
           /\ \A x \in Obj : [f EXCEPT !.io[o] = r].io[x] = IF x = o THEN r ELSE f.io[x]
BY DEF FsType

\* The fields of an interface.
LEMMA SetField ==
    ASSUME NEW q \in IoType
    PROVE  LET r == [q EXCEPT !.ops = FALSE]
               s == [q EXCEPT !.flags = 0]
           IN /\ r \in IoType /\ r.refcnt = q.refcnt /\ r.flags = q.flags /\ r.inode = q.inode
              /\ s \in IoType /\ s.refcnt = q.refcnt /\ s.ops = q.ops /\ s.inode = q.inode
<1>1. /\ [q EXCEPT !.ops = FALSE] \in IoType
      /\ [q EXCEPT !.flags = 0] \in IoType
  BY DEF IoType
<1>2. /\ [q EXCEPT !.ops = FALSE].refcnt = q.refcnt
      /\ [q EXCEPT !.ops = FALSE].flags = q.flags
      /\ [q EXCEPT !.ops = FALSE].inode = q.inode
  BY DEF IoType
<1>3. /\ [q EXCEPT !.flags = 0].refcnt = q.refcnt
      /\ [q EXCEPT !.flags = 0].ops = q.ops
      /\ [q EXCEPT !.flags = 0].inode = q.inode
  BY DEF IoType
<1>. QED  BY <1>1, <1>2, <1>3

\* What ioclose may change: the count of the interface, and with its last
\* reference the operations of the file and the slot that was opened last.
CloseOf(f, g, o) ==
    LET last == o \in Slot /\ f.io[o].refcnt = 1 IN
    /\ g \in FsType
    /\ \A x \in Obj :
         /\ g.io[x].inode = f.io[x].inode
         /\ g.io[x].refcnt = IF x = o THEN f.io[x].refcnt - 1 ELSE f.io[x].refcnt
         /\ ~(x = o /\ last) => g.io[x].ops = f.io[x].ops
         /\ ~(x = f.intSpot /\ last) => g.io[x].flags = f.io[x].flags

LEMMA IocloseFacts ==
    ASSUME NEW f \in FsType, NEW o \in Obj
    PROVE  CloseOf(f, ioclose(f, o), o)
<1>. DEFINE n == f.io[o].refcnt - 1
            h == [f EXCEPT !.io[o].refcnt = n]
<1>1. f.io[o].refcnt \in Int /\ n \in Int /\ f.intSpot \in Obj /\ (n = 0 <=> f.io[o].refcnt = 1)
  BY DEF FsType, IoType, Obj
<1>. HIDE DEF n
<1>2. /\ h \in FsType
      /\ \A x \in Obj : /\ h.io[x].inode = f.io[x].inode
                        /\ h.io[x].ops = f.io[x].ops
                        /\ h.io[x].flags = f.io[x].flags
                        /\ h.io[x].refcnt = IF x = o THEN n ELSE f.io[x].refcnt
  BY <1>1 DEF FsType, IoType
<1>. DEFINE j == [h EXCEPT !.io[o].ops = FALSE]
            k == [j EXCEPT !.io[f.intSpot].flags = 0]
<1>. HIDE DEF h
<1>3. /\ j \in FsType
      /\ \A x \in Obj : /\ j.io[x].inode = h.io[x].inode
                        /\ x # o => j.io[x].ops = h.io[x].ops
                        /\ j.io[x].flags = h.io[x].flags
                        /\ j.io[x].refcnt = h.io[x].refcnt
  <2>. DEFINE q == h.io[o]
              r == [q EXCEPT !.ops = FALSE]
  <2>1. q \in IoType /\ j = [h EXCEPT !.io[o] = r]
    BY <1>2 DEF FsType
  <2>. HIDE DEF j, q
  <2>2. r \in IoType /\ r.refcnt = q.refcnt /\ r.flags = q.flags /\ r.inode = q.inode
    BY <2>1, SetField
  <2>. HIDE DEF r
  <2>3. j \in FsType /\ \A x \in Obj : j.io[x] = IF x = o THEN r ELSE h.io[x]
    BY <1>2, <2>1, <2>2, SetIo
  <2>. QED  BY <2>2, <2>3 DEF q
<1>4. [h EXCEPT !.io[o].ops = FALSE, !.io[f.intSpot].flags = 0] = k
  OBVIOUS
<1>. HIDE DEF j
<1>5. /\ k \in FsType
      /\ \A x \in Obj : /\ k.io[x].inode = h.io[x].inode
                        /\ x # o => k.io[x].ops = h.io[x].ops
                        /\ x # f.intSpot => k.io[x].flags = h.io[x].flags
                        /\ k.io[x].refcnt = h.io[x].refcnt
  <2>. DEFINE q == j.io[f.intSpot]
              r == [q EXCEPT !.flags = 0]
  <2>1. q \in IoType /\ k = [j EXCEPT !.io[f.intSpot] = r]
    BY <1>1, <1>3 DEF FsType
  <2>. HIDE DEF k, q
  <2>2. r \in IoType /\ r.refcnt = q.refcnt /\ r.ops = q.ops /\ r.inode = q.inode
    BY <2>1, SetField
  <2>. HIDE DEF r
  <2>3. k \in FsType /\ \A x \in Obj : k.io[x] = IF x = f.intSpot THEN r ELSE j.io[x]
    BY <1>1, <1>3, <2>1, <2>2, SetIo
  <2>. QED  BY <1>3, <2>2, <2>3 DEF q
<1>. HIDE DEF k
<1>6. ioclose(f, o) = IF n = 0 /\ o \in Slot THEN k ELSE h
  BY <1>4 DEF ioclose, h, n
<1>7. n = f.io[o].refcnt - 1
  BY DEF n
<1>8. CASE n = 0 /\ o \in Slot
  BY <1>1, <1>2, <1>5, <1>6, <1>7, <1>8 DEF CloseOf
<1>9. CASE ~(n = 0 /\ o \in Slot)
  BY <1>1, <1>2, <1>6, <1>7, <1>9 DEF CloseOf
<1>. QED  BY <1>8, <1>9

\* fs_open takes the slot s for the file, with one more reference.
OpenOf(f, g, s, name) ==
    /\ g \in FsType
    /\ g.io[s].refcnt = f.io[s].refcnt + 1 /\ g.io[s].ops = TRUE
    /\ g.io[s].flags = 1 /\ g.io[s].inode = name
    /\ \A x \in Obj \ {s} : g.io[x] = f.io[x]

LEMMA OpenFacts ==
    ASSUME NEW f \in FsType, NEW s \in Slot, NEW name \in Files
    PROVE  OpenOf(f, fs_open(f, s, name), s, name)
<1>. DEFINE r == [refcnt |-> f.io[s].refcnt + 1, ops |-> TRUE, flags |-> 1, inode |-> name]
            h == [f EXCEPT !.io[s] = r]
<1>1. s \in Obj /\ f.io \in [Obj -> IoType] /\ f.io[s].refcnt \in Int
  BY DEF FsType, IoType, Obj
<1>2. r \in IoType
  BY <1>1 DEF IoType
<1>3. fs_open(f, s, name) = [h EXCEPT !.intSpot = s]
  BY DEF fs_open
<1>4. /\ r.refcnt = f.io[s].refcnt + 1 /\ r.ops = TRUE /\ r.flags = 1 /\ r.inode = name
  OBVIOUS
<1>. HIDE DEF r
<1>5. h \in FsType /\ \A x \in Obj : h.io[x] = IF x = s THEN r ELSE f.io[x]
  BY <1>1, <1>2 DEF FsType
<1>. HIDE DEF h
<1>6. fs_open(f, s, name) \in FsType /\ fs_open(f, s, name).io = h.io
  BY <1>3, <1>5 DEF FsType
<1>. QED  BY <1>1, <1>4, <1>5, <1>6 DEF OpenOf

\* uart_open.
LEMMA DeviceFacts ==
    ASSUME NEW f \in FsType
    PROVE  LET g == device_open(f)
           IN /\ g \in FsType
              /\ \A x \in Obj : /\ g.io[x].inode = f.io[x].inode
                                /\ g.io[x].ops = f.io[x].ops
                                /\ g.io[x].flags = f.io[x].flags
                                /\ g.io[x].refcnt = IF x = Ser THEN 1 ELSE f.io[x].refcnt
BY DEF device_open, FsType, IoType, Obj

\* process_fork: every interface has one more reference for each descriptor.
LEMMA ForkedFacts ==
    ASSUME NEW f \in FsType,
           \A x \in Obj : Cardinality({d \in Fd : iotab[d] = x}) \in Nat
    PROVE  /\ forked(f) \in FsType
           /\ \A x \in Obj :
                /\ forked(f).io[x].inode = f.io[x].inode
                /\ forked(f).io[x].ops = f.io[x].ops
                /\ forked(f).io[x].flags = f.io[x].flags
                /\ forked(f).io[x].refcnt
                     = f.io[x].refcnt + Cardinality({d \in Fd : iotab[d] = x})
<1>. DEFINE k(x) == Cardinality({d \in Fd : iotab[d] = x})
            r(x) == [f.io[x] EXCEPT !.refcnt = f.io[x].refcnt + k(x)]
            io == [x \in Obj |-> r(x)]
<1>1. forked(f) = [f EXCEPT !.io = io]
  BY DEF forked, Obj
<1>2. \A x \in Obj : k(x) \in Nat /\ k(x) = Cardinality({d \in Fd : iotab[d] = x})
  OBVIOUS
<1>. HIDE DEF k
<1>3. ASSUME NEW x \in Obj
      PROVE  /\ r(x) \in IoType
             /\ r(x).inode = f.io[x].inode /\ r(x).ops = f.io[x].ops
             /\ r(x).flags = f.io[x].flags /\ r(x).refcnt = f.io[x].refcnt + k(x)
  <2>0. k(x) \in Nat
    BY <1>2
  <2>1. f.io[x] \in IoType
    BY DEF FsType
  <2>2. ASSUME NEW q \in IoType, NEW n \in Nat
        PROVE  LET t == [q EXCEPT !.refcnt = q.refcnt + n]
               IN  /\ t \in IoType /\ t.inode = q.inode /\ t.ops = q.ops
                   /\ t.flags = q.flags /\ t.refcnt = q.refcnt + n
    <3>1. [q EXCEPT !.refcnt = q.refcnt + n] \in IoType
      BY DEF IoType
    <3>2. /\ [q EXCEPT !.refcnt = q.refcnt + n].inode = q.inode
          /\ [q EXCEPT !.refcnt = q.refcnt + n].ops = q.ops
          /\ [q EXCEPT !.refcnt = q.refcnt + n].flags = q.flags
          /\ [q EXCEPT !.refcnt = q.refcnt + n].refcnt = q.refcnt + n
      BY DEF IoType
    <3>. QED  BY <3>1, <3>2
  <2>. QED  BY <2>0, <2>1, <2>2
<1>. HIDE DEF r
<1>4. io \in [Obj -> IoType] /\ \A x \in Obj : io[x] = r(x)
  BY <1>3
<1>. HIDE DEF io
<1>5. forked(f) \in FsType /\ forked(f).io = io
  BY <1>1, <1>4 DEF FsType
<1>. QED  BY <1>2, <1>3, <1>4, <1>5

-----------------------------------------------------------------------------
(* The loop of process_exit *)

\* One turn of the loop.
Closes(f, n) ==
    IF iotab[n] # NULL /\ f.io[iotab[n]].ops THEN ioclose(f, iotab[n]) ELSE f

\* The recursive function exists, so it is what it is written to be.
LEMMA ClosedLoop ==
    /\ closed[0] = fs
    /\ \A n \in 1 .. IOMAX : closed[n] = Closes(closed[n - 1], n - 1)
<1>. DEFINE Eqn(g, N) == g = [n \in 0 .. N |-> IF n = 0 THEN fs ELSE Closes(g[n - 1], n - 1)]
            T == {N \in Nat : \E g : Eqn(g, N)}
<1>1. 0 \in T
  <2>1. Eqn([n \in 0 .. 0 |-> fs], 0)
    OBVIOUS
  <2>. QED  BY <2>1
<1>2. ASSUME NEW N \in Nat, N \in T PROVE N + 1 \in T
  <2>1. PICK g : Eqn(g, N)
    BY <1>2
  <2>. DEFINE h == [n \in 0 .. N + 1 |-> IF n <= N THEN g[n] ELSE Closes(g[N], N)]
  <2>2. /\ \A n \in 0 .. N : h[n] = g[n]
        /\ h[N + 1] = Closes(g[N], N)
    OBVIOUS
  <2>3. ASSUME NEW n \in 0 .. N + 1
        PROVE  h[n] = IF n = 0 THEN fs ELSE Closes(h[n - 1], n - 1)
    <3>1. CASE n = 0
      BY <2>1, <2>2, <3>1
    <3>2. CASE n \in 1 .. N
      <4>1. n - 1 \in 0 .. N /\ n \in 0 .. N /\ n # 0
        BY <3>2
      <4>. HIDE DEF h
      <4>. QED  BY <2>1, <2>2, <4>1
    <3>3. CASE n = N + 1
      <4>1. n - 1 = N /\ N \in 0 .. N /\ n # 0
        BY <3>3
      <4>. HIDE DEF h
      <4>. QED  BY <2>2, <3>3, <4>1
    <3>. QED  BY <3>1, <3>2, <3>3
  <2>4. Eqn(h, N + 1)
    BY <2>3
  <2>5. \E k : Eqn(k, N + 1)
    BY <2>4
  <2>. QED  BY <2>5
<1>3. Nat \subseteq T
  <2>. HIDE DEF T
  <2>. QED  BY <1>1, <1>2, NatSetInduction
<1>4. PICK g : Eqn(g, IOMAX)
  BY <1>3, ProcessAssumption
<1>5. closed = [n \in 0 .. IOMAX |-> IF n = 0 THEN fs ELSE Closes(closed[n - 1], n - 1)]
  <2>1. closed = CHOOSE c : c = [n \in 0 .. IOMAX |-> IF n = 0 THEN fs ELSE Closes(c[n - 1], n - 1)]
    BY DEF closed, Closes
  <2>. QED  BY <1>4, <2>1
<1>6. ASSUME NEW n \in 1 .. IOMAX PROVE n \in 0 .. IOMAX /\ n # 0
  BY <1>6
<1>. QED  BY <1>5, <1>6, ProcessAssumption

\* The loop keeps the files of the interfaces.
LEMMA ClosedFacts ==
    ASSUME fs \in FsType, iotab \in [Fd -> Obj \cup {NULL}]
    PROVE  /\ closed[IOMAX] \in FsType
           /\ \A x \in Obj : closed[IOMAX].io[x].inode = fs.io[x].inode
<1>. DEFINE P(f) == f \in FsType /\ \A x \in Obj : f.io[x].inode = fs.io[x].inode
            T == {n \in Nat : n <= IOMAX => P(closed[n])}
<1>1. 0 \in T
  BY ClosedLoop
<1>2. ASSUME NEW n \in Nat, n \in T PROVE n + 1 \in T
  <2>. SUFFICES ASSUME n + 1 <= IOMAX PROVE P(closed[n + 1])
    OBVIOUS
  <2>1. n + 1 \in 1 .. IOMAX /\ (n + 1) - 1 = n /\ n \in Fd /\ n <= IOMAX
    BY ProcessAssumption DEF Fd
  <2>2. closed[n + 1] = Closes(closed[n], n)
    BY <2>1, ClosedLoop
  <2>3. P(closed[n])
    BY <1>2, <2>1
  <2>4. CASE closed[n + 1] = closed[n]
    BY <2>3, <2>4
  <2>5. CASE iotab[n] # NULL /\ closed[n + 1] = ioclose(closed[n], iotab[n])
    <3>1. iotab[n] \in Obj
      BY <2>1, <2>5
    <3>. DEFINE f == closed[n]
                g == ioclose(f, iotab[n])
    <3>2. f \in FsType /\ \A x \in Obj : f.io[x].inode = fs.io[x].inode
      BY <2>3
    <3>. HIDE DEF f
    <3>3. g \in FsType /\ \A x \in Obj : g.io[x].inode = f.io[x].inode
      BY <3>1, <3>2, IocloseFacts DEF CloseOf
    <3>4. closed[n + 1] = g
      BY <2>5 DEF f
    <3>. HIDE DEF g
    <3>. QED  BY <3>2, <3>3, <3>4
  <2>. QED  BY <2>2, <2>4, <2>5 DEF Closes
<1>3. Nat \subseteq T
  <2>. HIDE DEF T
  <2>. QED  BY <1>1, <1>2, NatSetInduction
<1>. QED  BY <1>3, ProcessAssumption

-----------------------------------------------------------------------------
(* The descriptors that name an interface *)

Named(p, o) == {e \in (DOMAIN p) \X Fd : p[e[1]].iotab[e[2]] = o}

LEMMA NamedFinite ==
    ASSUME NEW p \in Seq(ProcType), NEW o
    PROVE  IsFiniteSet(Named(p, o)) /\ Cardinality(Named(p, o)) \in Nat
<1>1. IsFiniteSet(DOMAIN p)
  <2>1. DOMAIN p = 1 .. Len(p) /\ Len(p) \in Int
    OBVIOUS
  <2>. QED  BY <2>1, FS_Interval
<1>2. IsFiniteSet((DOMAIN p) \X Fd)
  BY <1>1, Constants, FS_Product
<1>3. Named(p, o) \in SUBSET ((DOMAIN p) \X Fd)
  BY DEF Named
<1>4. IsFiniteSet(Named(p, o))
  BY <1>2, <1>3, FS_Subset
<1>. QED  BY <1>4, FS_CardinalityType

\* The first process is given or loses a descriptor.
Given(p, d, v) == [p EXCEPT ![1].iotab[d] = v]

LEMMA NamedSet ==
    ASSUME NEW p \in Seq(ProcType), p # << >>, NEW d \in Fd, NEW v \in Obj \cup {NULL}
    PROVE  LET r == Given(p, d, v) IN
           /\ r \in Seq(ProcType) /\ Len(r) = Len(p)
           /\ \A e \in Fd : r[1].iotab[e] = IF e = d THEN v ELSE p[1].iotab[e]
           /\ \A o : /\ o = v => Cardinality(Named(r, o)) <= Cardinality(Named(p, o)) + 1
                     /\ o # v => Cardinality(Named(r, o)) =
                                   IF p[1].iotab[d] = o THEN Cardinality(Named(p, o)) - 1
                                   ELSE Cardinality(Named(p, o))
                     /\ o # v => Named(r, o) \subseteq Named(p, o)
<1>. DEFINE r == Given(p, d, v)
<1>1. Len(p) \in Nat /\ 1 \in DOMAIN p /\ DOMAIN p = 1 .. Len(p) /\ \A k \in DOMAIN p : p[k] \in ProcType
  OBVIOUS
<1>. DEFINE q == [p[1] EXCEPT !.iotab[d] = v]
<1>2. q \in ProcType /\ q.iotab = [p[1].iotab EXCEPT ![d] = v]
  <2>1. p[1] \in ProcType
    BY <1>1
  <2>. QED  BY <2>1 DEF ProcType
<1>3. r = [p EXCEPT ![1] = q]
  BY DEF Given
<1>. HIDE DEF r
<1>4. \A e \in Fd : q.iotab[e] = IF e = d THEN v ELSE p[1].iotab[e]
  <2>1. p[1].iotab \in [Fd -> Obj \cup {NULL}]
    BY <1>1 DEF ProcType
  <2>. QED  BY <1>2, <2>1
<1>. HIDE DEF q
<1>5. /\ r \in Seq(ProcType) /\ Len(r) = Len(p) /\ DOMAIN r = DOMAIN p
      /\ \A k \in DOMAIN p : r[k] = IF k = 1 THEN q ELSE p[k]
  <2>1. [p EXCEPT ![1] = q] \in [1 .. Len(p) -> ProcType]
    BY <1>1, <1>2
  <2>2. r \in [1 .. Len(p) -> ProcType]
    BY <1>3, <2>1
  <2>3. r \in Seq(ProcType) /\ Len(r) = Len(p)
    BY <1>1, <2>2
  <2>. QED  BY <1>1, <1>3, <2>3
<1>6. \A k \in DOMAIN p, e \in Fd : r[k].iotab[e] = IF k = 1 /\ e = d THEN v ELSE p[k].iotab[e]
  BY <1>4, <1>5
<1>7. ASSUME NEW o, o = v
      PROVE  Named(r, o) = Named(p, o) \cup {<<1, d>>}
  <2>1. Named(r, o) \subseteq Named(p, o) \cup {<<1, d>>}
    BY <1>5, <1>6, <1>7 DEF Named
  <2>2. Named(p, o) \cup {<<1, d>>} \subseteq Named(r, o)
    BY <1>1, <1>5, <1>6, <1>7 DEF Named
  <2>. QED  BY <2>1, <2>2
<1>8. ASSUME NEW o, o # v
      PROVE  Named(r, o) = Named(p, o) \ {<<1, d>>}
  <2>1. Named(r, o) \subseteq Named(p, o) \ {<<1, d>>}
    BY <1>1, <1>5, <1>6, <1>8 DEF Named
  <2>2. Named(p, o) \ {<<1, d>>} \subseteq Named(r, o)
    BY <1>5, <1>6, <1>8 DEF Named
  <2>. QED  BY <2>1, <2>2
<1>9. \A o : <<1, d>> \in Named(p, o) <=> p[1].iotab[d] = o
  BY <1>1 DEF Named
<1>10. \A o : o = v => Cardinality(Named(r, o)) <= Cardinality(Named(p, o)) + 1
  <2>. SUFFICES ASSUME NEW o, o = v
                PROVE  Cardinality(Named(r, o)) <= Cardinality(Named(p, o)) + 1
    OBVIOUS
  <2>1. IsFiniteSet(Named(p, o)) /\ Cardinality(Named(p, o)) \in Nat
    BY NamedFinite
  <2>2. Cardinality(Named(p, o) \cup {<<1, d>>})
          = IF <<1, d>> \in Named(p, o) THEN Cardinality(Named(p, o)) ELSE Cardinality(Named(p, o)) + 1
    BY <2>1, FS_AddElement
  <2>3. Named(r, o) = Named(p, o) \cup {<<1, d>>}
    BY <1>7
  <2>4. Cardinality(Named(r, o)) = Cardinality(Named(p, o))
          \/ Cardinality(Named(r, o)) = Cardinality(Named(p, o)) + 1
    BY <2>2, <2>3
  <2>. QED  BY <2>1, <2>4
<1>11. \A o : o # v => Cardinality(Named(r, o)) = IF p[1].iotab[d] = o THEN Cardinality(Named(p, o)) - 1
                                                 ELSE Cardinality(Named(p, o))
  <2>. SUFFICES ASSUME NEW o, o # v
                PROVE  Cardinality(Named(r, o)) = IF p[1].iotab[d] = o THEN Cardinality(Named(p, o)) - 1
                                                  ELSE Cardinality(Named(p, o))
    OBVIOUS
  <2>1. IsFiniteSet(Named(p, o))
    BY NamedFinite
  <2>2. Cardinality(Named(p, o) \ {<<1, d>>})
          = IF <<1, d>> \in Named(p, o) THEN Cardinality(Named(p, o)) - 1 ELSE Cardinality(Named(p, o))
    BY <2>1, FS_RemoveElement
  <2>. QED  BY <1>8, <1>9, <2>2
<1>12. \A o : o # v => Named(r, o) \subseteq Named(p, o)
  BY <1>8
<1>13. \A e \in Fd : r[1].iotab[e] = IF e = d THEN v ELSE p[1].iotab[e]
  BY <1>1, <1>6
<1>. QED  BY <1>5, <1>10, <1>11, <1>12, <1>13 DEF r

\* process_fork copies the descriptors of the first process.
LEMMA NamedFork ==
    ASSUME NEW p \in Seq(ProcType), p # << >>, NEW q \in ProcType, NEW o
    PROVE  LET D == {d \in Fd : q.iotab[d] = o}
           IN /\ Cardinality(D) \in Nat
              /\ Cardinality(Named(Append(p, q), o)) <= Cardinality(Named(p, o)) + Cardinality(D)
              /\ Named(Append(p, q), o) # {} => Named(p, o) # {} \/ D # {}
<1>. DEFINE D == {d \in Fd : q.iotab[d] = o}
            N == Len(p) + 1
            r == Append(p, q)
            E == {e \in {N} \X Fd : q.iotab[e[2]] = o}
<1>1. /\ r \in Seq(ProcType) /\ r # << >> /\ Len(p) \in Nat /\ Len(p) >= 1
      /\ DOMAIN r = 1 .. N /\ DOMAIN p = 1 .. Len(p) /\ r[N] = q
      /\ \A k \in 1 .. Len(p) : r[k] = p[k]
  OBVIOUS
<1>2. IsFiniteSet(D) /\ Cardinality(D) \in Nat
  <2>1. D \in SUBSET Fd
    OBVIOUS
  <2>2. IsFiniteSet(D)
    BY <2>1, Constants, FS_Subset
  <2>. QED  BY <2>2, FS_CardinalityType
<1>. HIDE DEF N, r
<1>3. IsFiniteSet(E) /\ Cardinality(E) <= Cardinality(D) /\ Cardinality(E) \in Nat
  <2>. DEFINE f == [d \in D |-> <<N, d>>]
  <2>1. f \in Surjection(D, E)
    <3>1. f \in [D -> E]
      OBVIOUS
    <3>2. \A e \in E : \E d \in D : f[d] = e
      <4>. SUFFICES ASSUME NEW e \in E PROVE \E d \in D : f[d] = e
        OBVIOUS
      <4>1. e = <<N, e[2]>> /\ e[2] \in D
        OBVIOUS
      <4>. QED  BY <4>1
    <3>. QED  BY <3>1, <3>2 DEF Surjection
  <2>. HIDE DEF f, D, E
  <2>2. IsFiniteSet(E) /\ Cardinality(E) <= Cardinality(D)
    BY <1>2, <2>1, FS_Surjection
  <2>. QED  BY <2>2, FS_CardinalityType
<1>4. Named(r, o) = Named(p, o) \cup E
  <2>1. ASSUME NEW k, NEW d \in Fd
        PROVE  k \in 1 .. N /\ r[k].iotab[d] = o
                 <=> (k \in 1 .. Len(p) /\ p[k].iotab[d] = o) \/ (k = N /\ q.iotab[d] = o)
    <3>1. k \in 1 .. N <=> k \in 1 .. Len(p) \/ k = N
      BY <1>1 DEF N
    <3>2. N \notin 1 .. Len(p)
      BY <1>1 DEF N
    <3>. QED  BY <1>1, <3>1, <3>2
  <2>2. Named(r, o) \subseteq Named(p, o) \cup E
    BY <1>1, <2>1 DEF Named
  <2>3. Named(p, o) \cup E \subseteq Named(r, o)
    BY <1>1, <2>1 DEF Named
  <2>. QED  BY <2>2, <2>3
<1>5. E # {} => D # {}
  OBVIOUS
<1>. HIDE DEF D, E
<1>6. Cardinality(Named(r, o)) <= Cardinality(Named(p, o)) + Cardinality(D)
  <2>1. IsFiniteSet(Named(p, o)) /\ Cardinality(Named(p, o)) \in Nat
    BY NamedFinite
  <2>2. /\ Cardinality(Named(p, o) \cup E)
              = Cardinality(Named(p, o)) + Cardinality(E) - Cardinality(Named(p, o) \cap E)
    BY <1>3, <2>1, FS_Union
  <2>3. Cardinality(Named(p, o) \cap E) \in Nat
    BY <2>1, FS_Intersection, FS_CardinalityType
  <2>. QED  BY <1>2, <1>3, <1>4, <2>1, <2>2, <2>3
<1>7. Named(r, o) # {} => Named(p, o) # {} \/ D # {}
  BY <1>4, <1>5
<1>. QED  BY <1>2, <1>6, <1>7 DEF D, r

-----------------------------------------------------------------------------
(* Every step preserves the invariant. *)

\* The interfaces f cover the descriptors of the processes p.
Covered(p, f) ==
    \A o \in Obj : /\ Cardinality(Named(p, o)) <= f.io[o].refcnt
                   /\ Named(p, o) # {} => f.io[o].ops

LEMMA CoveredNow == CountCoversDescriptors <=> (phase # "halted" => Covered(proctab, fs))
BY DEF CountCoversDescriptors, Covered, Named, Obj

LEMMA CoveredNext == CountCoversDescriptors' <=> (phase' # "halted" => Covered(proctab', fs'))
BY DEF CountCoversDescriptors, Covered, Named, Obj, Slot, Ser, Fd

\* The facts that the steps start from.
LEMMA Now ==
    ASSUME IInv
    PROVE  /\ fs \in FsType /\ proctab \in Seq(ProcType) /\ proctab # << >>
           /\ proctab[1] \in ProcType /\ iotab = proctab[1].iotab
           /\ iotab \in [Fd -> Obj \cup {NULL}]
           /\ meant \in [Fd -> Files \cup {NULL}] /\ misclosed \in BOOLEAN
           /\ \A x \in Obj : fs.io[x].refcnt \in Int /\ fs.io[x].flags \in {0, 1}
<1>1. fs \in FsType /\ proctab \in Seq(ProcType) /\ proctab # << >>
  BY DEF IInv, Shape
<1>2. proctab[1] \in ProcType
  BY <1>1
<1>3. iotab \in [Fd -> Obj \cup {NULL}]
  BY <1>2 DEF iotab, ProcType
<1>4. \A x \in Obj : fs.io[x].refcnt \in Int /\ fs.io[x].flags \in {0, 1}
  BY <1>1 DEF FsType, IoType
<1>. QED  BY <1>1, <1>2, <1>3, <1>4 DEF IInv, Shape, iotab

\* Memory, and calls that only use descriptors.
LEMMA QuietStep ==
    ASSUME IInv, phase # "halted", UNCHANGED <<proctab, fs, misclosed, meant>>
    PROVE  IInv'
<1>1. Shape' /\ SerialOps' /\ FilesNamed' /\ SlotsTaken' /\ DescriptorKeepsFile'
  BY DEF IInv, Shape, SerialOps, FilesNamed, SlotsTaken, DescriptorKeepsFile, iotab, FsType, IoType,
         ProcType, Obj, Slot, Ser, Fd, NULL
<1>2. CountCoversDescriptors'
  BY CoveredNow, CoveredNext DEF IInv
<1>. QED  BY <1>1, <1>2 DEF IInv

\* The table of descriptors of the main process has a new entry at d, and what
\* it names has been prepared so that the rest of the invariant holds.
LEMMA TableStep ==
    ASSUME IInv, phase # "halted", NEW d \in Fd, NEW v \in Obj \cup {NULL}, NEW w \in Files \cup {NULL},
           proctab' = Given(proctab, d, v),
           meant' = [meant EXCEPT ![d] = w],
           fs' \in FsType, misclosed' \in BOOLEAN,
           Covered(proctab', fs'),
           fs'.io[Ser].ops,
           w # NULL => v \in Slot /\ fs'.io[v].inode = w,
           ~misclosed' =>
             /\ ~misclosed
             /\ \A e \in Fd \ {d} : iotab[e] \in Slot =>
                    /\ fs'.io[iotab[e]].flags = 1
                    /\ fs'.io[iotab[e]].inode = fs.io[iotab[e]].inode
             /\ v \in Slot => fs'.io[v].flags = 1
    PROVE  IInv'
<1>0. proctab \in Seq(ProcType) /\ proctab # << >>
  BY Now
<1>1. /\ proctab' \in Seq(ProcType) /\ Len(proctab') = Len(proctab)
      /\ \A e \in Fd : proctab'[1].iotab[e] = IF e = d THEN v ELSE proctab[1].iotab[e]
  BY <1>0, NamedSet
<1>2. /\ iotab'[d] = v /\ \A e \in Fd \ {d} : iotab'[e] = iotab[e]
      /\ meant'[d] = w /\ \A e \in Fd \ {d} : meant'[e] = meant[e]
      /\ meant' \in [Fd -> Files \cup {NULL}]
      /\ proctab' # << >>
  <2>1. /\ iotab'[d] = v /\ \A e \in Fd \ {d} : iotab'[e] = iotab[e]
    BY <1>1 DEF iotab
  <2>2. /\ meant'[d] = w /\ \A e \in Fd \ {d} : meant'[e] = meant[e]
        /\ meant' \in [Fd -> Files \cup {NULL}]
    BY Now
  <2>3. proctab' # << >>
    <3>1. Len(proctab) # 0
      BY <1>0
    <3>. QED  BY <1>1, <3>1
  <2>. QED  BY <2>1, <2>2, <2>3
<1>3. Shape'
  BY <1>1, <1>2 DEF Shape, FsType, IoType, ProcType, Obj, Slot, Ser, Fd, NULL
<1>4. SerialOps'
  BY DEF SerialOps, Ser
<1>5. FilesNamed'
  <2>1. \A e \in Fd : meant'[e] # NULL => iotab'[e] \in Slot
    BY <1>2 DEF IInv, FilesNamed
  <2>. QED  BY <2>1 DEF FilesNamed, Fd, Slot, NULL
<1>6. SlotsTaken'
  <2>1. ~misclosed' => \A e \in Fd : iotab'[e] \in Slot => fs'.io[iotab'[e]].flags = 1
    BY <1>2
  <2>. QED  BY <2>1 DEF SlotsTaken, Fd, Slot
<1>7. CountCoversDescriptors'
  BY CoveredNext
<1>8. DescriptorKeepsFile'
  <2>1. ASSUME ~misclosed', NEW e \in Fd, meant'[e] # NULL
        PROVE  fs'.io[iotab'[e]].inode = meant'[e]
    <3>1. CASE e = d
      BY <1>2, <2>1, <3>1
    <3>2. CASE e # d
      <4>1. iotab[e] \in Slot /\ fs.io[iotab[e]].inode = meant[e]
        BY <1>2, <2>1, <3>2 DEF IInv, FilesNamed, DescriptorKeepsFile
      <4>. QED  BY <1>2, <2>1, <3>2, <4>1
    <3>. QED  BY <3>1, <3>2
  <2>. QED  BY <2>1 DEF DescriptorKeepsFile, Fd, NULL
<1>. QED  BY <1>3, <1>4, <1>5, <1>6, <1>7, <1>8 DEF IInv

\* How the descriptors that name an interface change.
LEMMA NamedNext ==
    ASSUME IInv, NEW d \in Fd, NEW v \in Obj \cup {NULL},
           proctab' = Given(proctab, d, v)
    PROVE  \A o \in Obj :
             /\ Cardinality(Named(proctab, o)) \in Nat /\ Cardinality(Named(proctab', o)) \in Nat
             /\ Named(proctab', o) # {} => Cardinality(Named(proctab', o)) >= 1
             /\ o = v => Cardinality(Named(proctab', o)) <= Cardinality(Named(proctab, o)) + 1
             /\ o # v => Cardinality(Named(proctab', o)) =
                           IF iotab[d] = o THEN Cardinality(Named(proctab, o)) - 1
                           ELSE Cardinality(Named(proctab, o))
             /\ o # v => Named(proctab', o) \subseteq Named(proctab, o)
<1>1. proctab \in Seq(ProcType) /\ proctab # << >> /\ iotab = proctab[1].iotab
  BY Now
<1>2. proctab' \in Seq(ProcType)
  BY <1>1, NamedSet
<1>3. ASSUME NEW o \in Obj
      PROVE  /\ Cardinality(Named(proctab, o)) \in Nat /\ Cardinality(Named(proctab', o)) \in Nat
             /\ Named(proctab', o) # {} => Cardinality(Named(proctab', o)) >= 1
  <2>1. /\ Cardinality(Named(proctab, o)) \in Nat
        /\ IsFiniteSet(Named(proctab', o)) /\ Cardinality(Named(proctab', o)) \in Nat
    BY <1>1, <1>2, NamedFinite
  <2>2. Named(proctab', o) # {} => Cardinality(Named(proctab', o)) # 0
    BY <2>1, FS_EmptySet
  <2>3. \A n \in Nat : n # 0 => n >= 1
    OBVIOUS
  <2>. QED  BY <2>1, <2>2, <2>3
<1>4. ASSUME NEW o \in Obj
      PROVE  /\ o = v => Cardinality(Named(proctab', o)) <= Cardinality(Named(proctab, o)) + 1
             /\ o # v => Cardinality(Named(proctab', o)) =
                           IF iotab[d] = o THEN Cardinality(Named(proctab, o)) - 1
                           ELSE Cardinality(Named(proctab, o))
             /\ o # v => Named(proctab', o) \subseteq Named(proctab, o)
  <2>. DEFINE r == Given(proctab, d, v)
  <2>1. /\ o = v => Cardinality(Named(r, o)) <= Cardinality(Named(proctab, o)) + 1
        /\ o # v => Cardinality(Named(r, o)) =
                      IF proctab[1].iotab[d] = o THEN Cardinality(Named(proctab, o)) - 1
                      ELSE Cardinality(Named(proctab, o))
        /\ o # v => Named(r, o) \subseteq Named(proctab, o)
    BY <1>1, NamedSet, Zenon
  <2>2. r = proctab'
    OBVIOUS
  <2>. HIDE DEF r
  <2>. QED  BY <1>1, <2>1, <2>2, Zenon
<1>. QED  BY <1>3, <1>4

\* The descriptor that a call takes is one.
LEMMA NewFdFacts ==
    ASSUME IInv, NEW fd \in Fd \cup {-1}, NewFd(fd) # IOMAX \/ (fd < 0 => iotab[0] = NULL)
    PROVE  NewFd(fd) \in Fd
<1>. DEFINE free == {d \in Fd : iotab[d] = NULL}
<1>1. CASE fd \in Fd
  BY <1>1, Constants DEF NewFd
<1>2. CASE fd = -1
  <2>1. NewFd(fd) = IF free = {} THEN IOMAX ELSE Min(free)
    BY <1>2 DEF NewFd
  <2>2. free # {}
    BY <1>2, <2>1, Constants
  <2>3. Min(free) \in free
    BY <2>2, LeastNat, Constants
  <2>. QED  BY <2>1, <2>2, <2>3
<1>. QED  BY <1>1, <1>2

\* sysdevopen takes the serial device.
LEMMA DevOpenStep ==
    ASSUME IInv, phase # "halted", NEW d \in Fd, fs.io[Ser].refcnt = 0,
           fs' = device_open(fs), misclosed' = misclosed,
           proctab' = Given(proctab, d, Ser),
           meant' = [meant EXCEPT ![d] = NULL]
    PROVE  IInv'
<1>1. fs' \in FsType /\ \A x \in Obj : /\ fs'.io[x].inode = fs.io[x].inode
                                         /\ fs'.io[x].ops = fs.io[x].ops
                                         /\ fs'.io[x].flags = fs.io[x].flags
                                         /\ fs'.io[x].refcnt = IF x = Ser THEN 1 ELSE fs.io[x].refcnt
  BY Now, DeviceFacts
<1>2. Ser \in Obj /\ Slot \subseteq Obj /\ Covered(proctab, fs) /\ fs.io[Ser].ops
  BY CoveredNow DEF IInv, SerialOps, Obj
<1>3. Covered(proctab', fs')
  <2>1. ASSUME NEW o \in Obj
        PROVE  Cardinality(Named(proctab', o)) <= fs'.io[o].refcnt
    <3>1. CASE o = Ser
      <4>1. Cardinality(Named(proctab, o)) <= 0 /\ fs'.io[o].refcnt = 1
        BY <1>1, <1>2, <3>1 DEF Covered
      <4>2. Cardinality(Named(proctab', o)) <= Cardinality(Named(proctab, o)) + 1
        BY <1>2, <3>1, NamedNext
      <4>3. Cardinality(Named(proctab, o)) \in Nat /\ Cardinality(Named(proctab', o)) \in Nat
        BY <1>2, NamedNext
      <4>. QED  BY <4>1, <4>2, <4>3
    <3>2. CASE o # Ser
      <4>1. Cardinality(Named(proctab, o)) <= fs.io[o].refcnt /\ fs'.io[o].refcnt = fs.io[o].refcnt
        BY <1>1, <1>2, <3>2 DEF Covered
      <4>2. \/ Cardinality(Named(proctab', o)) = Cardinality(Named(proctab, o))
            \/ Cardinality(Named(proctab', o)) = Cardinality(Named(proctab, o)) - 1
        BY <1>2, <3>2, NamedNext
      <4>3. Cardinality(Named(proctab, o)) \in Nat /\ fs.io[o].refcnt \in Int
        BY <1>2, NamedNext, Now
      <4>. QED  BY <4>1, <4>2, <4>3
    <3>. QED  BY <3>1, <3>2
  <2>2. ASSUME NEW o \in Obj, Named(proctab', o) # {} PROVE fs'.io[o].ops
    <3>1. CASE o = Ser
      BY <1>1, <1>2, <3>1
    <3>2. CASE o # Ser
      <4>1. Named(proctab, o) # {}
        BY <1>2, <2>2, <3>2, NamedNext
      <4>. QED  BY <1>1, <1>2, <4>1 DEF Covered
    <3>. QED  BY <3>1, <3>2
  <2>. QED  BY <2>1, <2>2 DEF Covered
<1>4. ~misclosed => \A e \in Fd : iotab[e] \in Slot => fs'.io[iotab[e]].flags = 1
  BY <1>1, <1>2 DEF IInv, SlotsTaken
<1>. QED  BY <1>1, <1>2, <1>3, <1>4, TableStep, Constants, Now

\* sysfsopen has opened a file.
LEMMA FsOpenStep ==
    ASSUME IInv, phase # "halted", NEW d \in Fd, NEW name \in Files, NEW s \in fs_spots(fs),
           fs' = fs_open(fs, s, name),
           misclosed' = (misclosed \/ \A x \in Slot : fs.io[x].flags = 1),
           proctab' = Given(proctab, d, s),
           meant' = [meant EXCEPT ![d] = name]
    PROVE  IInv'
<1>0. Slot \subseteq Obj /\ Covered(proctab, fs) /\ fs.io[Ser].ops /\ Ser \in Obj
  BY CoveredNow DEF IInv, SerialOps, Obj
<1>1. s \in Slot /\ (~misclosed' => fs.io[s].flags = 0)
  <2>. DEFINE free == {x \in Slot : fs.io[x].flags = 0}
  <2>1. CASE free # {}
    <3>1. Min(free) \in free
      BY <2>1, LeastNat, Constants
    <3>. QED  BY <2>1, <3>1 DEF fs_spots
  <2>2. CASE free = {}
    <3>1. \A x \in Slot : fs.io[x].flags = 1
      BY <1>0, <2>2, Now
    <3>. QED  BY <2>2, <3>1 DEF fs_spots
  <2>. QED  BY <2>1, <2>2
<1>2. /\ fs' \in FsType /\ s # Ser /\ s \in Obj
      /\ fs'.io[s].refcnt = fs.io[s].refcnt + 1 /\ fs'.io[s].ops
      /\ fs'.io[s].flags = 1 /\ fs'.io[s].inode = name
      /\ \A x \in Obj \ {s} : fs'.io[x] = fs.io[x]
  <2>1. fs \in FsType
    BY Now
  <2>2. OpenOf(fs, fs', s, name)
    BY <1>1, <2>1, OpenFacts
  <2>3. s # Ser /\ s \in Obj
    BY <1>0, <1>1, Constants
  <2>. QED  BY <2>2, <2>3 DEF OpenOf
<1>3. Covered(proctab', fs')
  <2>1. ASSUME NEW o \in Obj
        PROVE  Cardinality(Named(proctab', o)) <= fs'.io[o].refcnt
    <3>0. /\ Cardinality(Named(proctab, o)) \in Nat /\ Cardinality(Named(proctab', o)) \in Nat
          /\ fs.io[o].refcnt \in Int /\ Cardinality(Named(proctab, o)) <= fs.io[o].refcnt
      BY <1>0, <1>2, NamedNext, Now DEF Covered
    <3>1. CASE o = s
      <4>1. Cardinality(Named(proctab', o)) <= Cardinality(Named(proctab, o)) + 1
        BY <1>2, <3>1, NamedNext
      <4>. QED  BY <1>2, <3>0, <3>1, <4>1
    <3>2. CASE o # s
      <4>1. \/ Cardinality(Named(proctab', o)) = Cardinality(Named(proctab, o))
            \/ Cardinality(Named(proctab', o)) = Cardinality(Named(proctab, o)) - 1
        BY <1>2, <3>2, NamedNext
      <4>. QED  BY <1>2, <3>0, <3>2, <4>1
    <3>. QED  BY <3>1, <3>2
  <2>2. ASSUME NEW o \in Obj, Named(proctab', o) # {} PROVE fs'.io[o].ops
    <3>1. CASE o = s
      BY <1>2, <3>1
    <3>2. CASE o # s
      <4>1. Named(proctab, o) # {}
        BY <1>2, <2>2, <3>2, NamedNext
      <4>. QED  BY <1>0, <1>2, <3>2, <4>1 DEF Covered
    <3>. QED  BY <3>1, <3>2
  <2>. QED  BY <2>1, <2>2 DEF Covered
<1>4. ASSUME ~misclosed', NEW e \in Fd, iotab[e] \in Slot
      PROVE  fs'.io[iotab[e]] = fs.io[iotab[e]] /\ fs'.io[iotab[e]].flags = 1
  <2>1. fs.io[iotab[e]].flags = 1
    BY <1>4 DEF IInv, SlotsTaken
  <2>2. iotab[e] # s
    BY <1>1, <1>4, <2>1
  <2>. QED  BY <1>0, <1>2, <1>4, <2>1, <2>2
<1>5. fs'.io[Ser].ops
  BY <1>0, <1>2
<1>6. misclosed' \in BOOLEAN /\ (~misclosed' => ~misclosed)
  OBVIOUS
<1>7. s \in Obj \cup {NULL} /\ name \in Files \cup {NULL} /\ fs'.io[s].inode = name /\ s \in Slot
  BY <1>1, <1>2
<1>. QED  BY <1>2, <1>3, <1>4, <1>5, <1>6, <1>7, TableStep

\* sysclose has closed what the descriptor names.
LEMMA CloseStep ==
    ASSUME IInv, phase # "halted", NEW d \in Fd, iotab[d] # NULL,
           fs' = ioclose(fs, iotab[d]),
           misclosed' = (misclosed \/ \E s \in Slot \ {iotab[d]} :
                                         fs'.io[s].flags # fs.io[s].flags),
           proctab' = Given(proctab, d, NULL),
           meant' = [meant EXCEPT ![d] = NULL]
    PROVE  IInv'
<1>. DEFINE o == iotab[d]
            last == o \in Slot /\ fs.io[o].refcnt = 1
<1>0. /\ Slot \subseteq Obj /\ Covered(proctab, fs) /\ fs.io[Ser].ops /\ Ser \in Obj
      /\ NULL \notin Obj /\ o \in Obj /\ Ser \notin Slot
  BY CoveredNow, Now, Constants DEF IInv, SerialOps, Obj
<1>1. /\ fs' \in FsType
      /\ \A x \in Obj :
           /\ fs'.io[x].inode = fs.io[x].inode
           /\ fs'.io[x].refcnt = IF x = o THEN fs.io[x].refcnt - 1 ELSE fs.io[x].refcnt
           /\ ~(x = o /\ last) => fs'.io[x].ops = fs.io[x].ops
           /\ ~(x = fs.intSpot /\ last) => fs'.io[x].flags = fs.io[x].flags
  <2>1. fs \in FsType
    BY Now
  <2>2. fs' = ioclose(fs, o)
    OBVIOUS
  <2>. HIDE DEF o
  <2>3. CloseOf(fs, fs', o)
    BY <1>0, <2>1, <2>2, IocloseFacts
  <2>. QED  BY <2>3 DEF CloseOf
<1>. HIDE DEF o, last
<1>2. ASSUME NEW x \in Obj
      PROVE  /\ Cardinality(Named(proctab', x)) <= fs'.io[x].refcnt
             /\ Named(proctab', x) # {} => ~(x = o /\ last)
  <2>0. /\ Cardinality(Named(proctab, x)) \in Nat /\ Cardinality(Named(proctab', x)) \in Nat
        /\ fs.io[x].refcnt \in Int /\ Cardinality(Named(proctab, x)) <= fs.io[x].refcnt
        /\ Named(proctab', x) # {} => Cardinality(Named(proctab', x)) >= 1
    BY <1>0, NamedNext, Now DEF Covered
  <2>1. CASE x = o
    <3>1. Cardinality(Named(proctab', x)) = Cardinality(Named(proctab, x)) - 1
      BY <1>0, <2>1, NamedNext DEF o
    <3>2. fs'.io[x].refcnt = fs.io[x].refcnt - 1
      BY <1>1, <2>1
    <3>3. last => fs.io[x].refcnt = 1
      BY <2>1 DEF last
    <3>. QED  BY <2>0, <3>1, <3>2, <3>3
  <2>2. CASE x # o
    <3>1. Cardinality(Named(proctab', x)) = Cardinality(Named(proctab, x))
      BY <1>0, <2>2, NamedNext DEF o
    <3>2. fs'.io[x].refcnt = fs.io[x].refcnt
      BY <1>1, <2>2
    <3>. QED  BY <2>0, <2>2, <3>1, <3>2
  <2>. QED  BY <2>1, <2>2
<1>3. Covered(proctab', fs')
  <2>1. ASSUME NEW x \in Obj, Named(proctab', x) # {} PROVE fs'.io[x].ops
    <3>1. Named(proctab, x) # {}
      BY <1>0, <2>1, NamedNext
    <3>2. fs.io[x].ops
      BY <1>0, <3>1 DEF Covered
    <3>. QED  BY <1>1, <1>2, <2>1, <3>2
  <2>. QED  BY <1>2, <2>1 DEF Covered
<1>4. fs'.io[Ser].ops
  BY <1>0, <1>1 DEF last
<1>5. ASSUME ~misclosed', NEW e \in Fd \ {d}, iotab[e] \in Slot
      PROVE  fs'.io[iotab[e]].flags = 1
  <2>1. fs.io[iotab[e]].flags = 1
    BY <1>5 DEF IInv, SlotsTaken
  <2>2. CASE iotab[e] # o
    BY <1>5, <2>1, <2>2 DEF o
  <2>3. CASE iotab[e] = o
    <3>1. Named(proctab', o) # {}
      <4>1. /\ proctab' \in Seq(ProcType) /\ Len(proctab') = Len(proctab)
            /\ proctab'[1].iotab[e] = proctab[1].iotab[e]
        <5>1. proctab \in Seq(ProcType) /\ proctab # << >> /\ NULL \in Obj \cup {NULL}
          BY Now
        <5>2. /\ proctab' \in Seq(ProcType) /\ Len(proctab') = Len(proctab)
              /\ \A i \in Fd : proctab'[1].iotab[i] = IF i = d THEN NULL ELSE proctab[1].iotab[i]
          BY <5>1, NamedSet
        <5>. QED  BY <5>2
      <4>2. 1 \in DOMAIN proctab'
        <5>1. Len(proctab) # 0 /\ Len(proctab) \in Nat
          BY Now
        <5>. QED  BY <4>1, <5>1
      <4>3. <<1, e>> \in Named(proctab', o)
        BY <2>3, <4>1, <4>2, Now DEF Named
      <4>. QED  BY <4>3
    <3>2. ~last
      BY <1>0, <1>2, <3>1
    <3>. QED  BY <1>0, <1>1, <2>1, <2>3, <3>2
  <2>. QED  BY <2>2, <2>3
<1>6. misclosed' \in BOOLEAN /\ (~misclosed' => ~misclosed)
  OBVIOUS
<1>7. \A e \in Fd : iotab[e] \in Slot => fs'.io[iotab[e]].inode = fs.io[iotab[e]].inode
  BY <1>0, <1>1
<1>8. NULL \notin Slot
  BY <1>0
<1>. QED  BY <1>1, <1>3, <1>4, <1>5, <1>6, <1>7, <1>8, TableStep

\* process_fork has copied the descriptors.
LEMMA ForkStep ==
    ASSUME IInv, phase # "halted", fs' = forked(fs), UNCHANGED <<misclosed, meant>>,
           proctab' = IF Len(proctab) < NPROC THEN Append(proctab, [iotab |-> iotab]) ELSE proctab
    PROVE  IInv'
<1>. DEFINE q == [iotab |-> iotab]
            D(o) == {d \in Fd : iotab[d] = o}
<1>0. /\ Slot \subseteq Obj /\ Covered(proctab, fs) /\ fs.io[Ser].ops /\ Ser \in Obj
      /\ proctab \in Seq(ProcType) /\ proctab # << >> /\ fs \in FsType
  BY CoveredNow, Now DEF IInv, SerialOps, Obj
<1>1. q \in ProcType /\ q.iotab = iotab
  BY Now DEF ProcType
<1>2. ASSUME NEW o \in Obj
      PROVE  /\ Cardinality(D(o)) \in Nat
             /\ Cardinality(Named(proctab', o)) <= Cardinality(Named(proctab, o)) + Cardinality(D(o))
             /\ Named(proctab', o) # {} => Named(proctab, o) # {}
             /\ proctab' \in Seq(ProcType) /\ proctab' # << >> /\ proctab'[1] = proctab[1]
  <2>. HIDE DEF q
  <2>1. /\ Cardinality(D(o)) \in Nat
        /\ Append(proctab, q) \in Seq(ProcType) /\ Append(proctab, q) # << >>
        /\ Append(proctab, q)[1] = proctab[1]
        /\ Cardinality(Named(Append(proctab, q), o)) <= Cardinality(Named(proctab, o)) + Cardinality(D(o))
        /\ Named(Append(proctab, q), o) # {} => Named(proctab, o) # {} \/ D(o) # {}
    <3>1. {d \in Fd : q.iotab[d] = o} = D(o)
      BY <1>1
    <3>. HIDE DEF D
    <3>2. LET E == {d \in Fd : q.iotab[d] = o}
          IN /\ Cardinality(E) \in Nat
             /\ Cardinality(Named(Append(proctab, q), o)) <= Cardinality(Named(proctab, o)) + Cardinality(E)
             /\ Named(Append(proctab, q), o) # {} => Named(proctab, o) # {} \/ E # {}
      BY <1>0, <1>1, NamedFork, Zenon
    <3>3. /\ Append(proctab, q) \in Seq(ProcType) /\ Append(proctab, q) # << >>
          /\ Append(proctab, q)[1] = proctab[1]
      BY <1>0, <1>1
    <3>. QED  BY <3>1, <3>2, <3>3, Zenon
  <2>2. D(o) # {} => Named(proctab, o) # {}
    <3>. SUFFICES ASSUME NEW d \in Fd, iotab[d] = o PROVE Named(proctab, o) # {}
      OBVIOUS
    <3>1. 1 \in DOMAIN proctab /\ proctab[1].iotab[d] = o
      BY <1>0, Now
    <3>2. <<1, d>> \in Named(proctab, o)
      BY <3>1 DEF Named
    <3>. QED  BY <3>2
  <2>3. Cardinality(Named(proctab, o)) \in Nat
    BY <1>0, NamedFinite
  <2>. HIDE DEF D
  <2>4. CASE proctab' = Append(proctab, q)
    BY <2>1, <2>2, <2>4
  <2>5. CASE proctab' = proctab
    BY <1>0, <2>1, <2>3, <2>5
  <2>. QED  BY <2>4, <2>5 DEF q
<1>3. /\ fs' \in FsType
      /\ \A x \in Obj :
           /\ fs'.io[x].inode = fs.io[x].inode /\ fs'.io[x].ops = fs.io[x].ops
           /\ fs'.io[x].flags = fs.io[x].flags
           /\ fs'.io[x].refcnt = fs.io[x].refcnt + Cardinality(D(x))
  BY <1>0, <1>2, ForkedFacts
<1>. HIDE DEF D
<1>4. Covered(proctab', fs')
  <2>1. ASSUME NEW o \in Obj PROVE Cardinality(Named(proctab', o)) <= fs'.io[o].refcnt
    <3>1. /\ Cardinality(Named(proctab, o)) \in Nat /\ fs.io[o].refcnt \in Int
          /\ Cardinality(Named(proctab, o)) <= fs.io[o].refcnt
      BY <1>0, NamedFinite, Now DEF Covered
    <3>2. Cardinality(Named(proctab', o)) \in Nat
      BY <1>2, NamedFinite
    <3>. QED  BY <1>2, <1>3, <3>1, <3>2
  <2>2. ASSUME NEW o \in Obj, Named(proctab', o) # {} PROVE fs'.io[o].ops
    BY <1>0, <1>2, <1>3, <2>2 DEF Covered
  <2>. QED  BY <2>1, <2>2 DEF Covered
<1>5. proctab' \in Seq(ProcType) /\ proctab' # << >> /\ iotab' = iotab
  BY <1>0, <1>2 DEF iotab
<1>6. Shape'
  BY <1>3, <1>5 DEF IInv, Shape, FsType, IoType, ProcType, Obj, Slot, Ser, Fd, NULL
<1>7. SerialOps'
  BY <1>0, <1>3 DEF SerialOps, Ser
<1>8. FilesNamed'
  BY <1>5 DEF IInv, FilesNamed, Fd, Slot, NULL
<1>9. SlotsTaken'
  <2>1. ~misclosed => \A d \in Fd : iotab[d] \in Slot => fs'.io[iotab[d]].flags = 1
    BY <1>0, <1>3 DEF IInv, SlotsTaken
  <2>. QED  BY <1>5, <2>1 DEF SlotsTaken, Fd, Slot
<1>10. CountCoversDescriptors'
  BY <1>4, CoveredNext
<1>11. DescriptorKeepsFile'
  <2>1. ~misclosed => \A d \in Fd : meant[d] # NULL => fs'.io[iotab[d]].inode = meant[d]
    BY <1>0, <1>3 DEF IInv, FilesNamed, DescriptorKeepsFile
  <2>. QED  BY <1>5, <2>1 DEF DescriptorKeepsFile, Fd, NULL
<1>. QED  BY <1>6, <1>7, <1>8, <1>9, <1>10, <1>11 DEF IInv

\* process_exit halts; the files stay what they are.
LEMMA ExitStep ==
    ASSUME IInv, process_exit
    PROVE  IInv'
<1>1. /\ fs' = closed[IOMAX] /\ phase' = "halted"
      /\ UNCHANGED <<proctab, misclosed, meant>>
  BY DEF process_exit
<1>2. fs' \in FsType /\ \A x \in Obj : fs'.io[x].inode = fs.io[x].inode
  BY <1>1, Now, ClosedFacts
<1>3. Shape'
  BY <1>1, <1>2 DEF IInv, Shape, FsType, IoType, ProcType, Obj, Slot, Ser, Fd, NULL
<1>4. SerialOps' /\ SlotsTaken' /\ CountCoversDescriptors'
  BY <1>1 DEF SerialOps, SlotsTaken, CountCoversDescriptors
<1>5. FilesNamed'
  BY <1>1 DEF IInv, FilesNamed, iotab, Fd, Slot, NULL
<1>6. DescriptorKeepsFile'
  <2>1. ~misclosed => \A d \in Fd : meant[d] # NULL => fs'.io[iotab[d]].inode = meant[d]
    BY <1>2 DEF IInv, FilesNamed, DescriptorKeepsFile, Obj
  <2>2. iotab' = iotab
    BY <1>1 DEF iotab
  <2>. QED  BY <1>1, <2>1, <2>2 DEF DescriptorKeepsFile, Fd, NULL
<1>. QED  BY <1>3, <1>4, <1>5, <1>6 DEF IInv

\* The invariant holds at start: main has no descriptor, and one file is open.
LEMMA InitIInv == Init => IInv
<1>. SUFFICES ASSUME Init PROVE IInv
  OBVIOUS
<1>1. /\ proctab = << [iotab |-> NoFds] >> /\ meant = [d \in Fd |-> NULL]
      /\ misclosed = FALSE /\ iotab = NoFds
  BY DEF Init, iotab
<1>2. NoFds \in [Fd -> Obj \cup {NULL}] /\ \A d \in Fd : NoFds[d] = NULL
  BY DEF NoFds
<1>3. proctab \in Seq(ProcType) /\ proctab # << >>
  <2>1. [iotab |-> NoFds] \in ProcType
    BY <1>2 DEF ProcType
  <2>. QED  BY <1>1, <2>1
<1>. DEFINE r(o) == IF o = 1 THEN [refcnt |-> 1, ops |-> TRUE, flags |-> 1, inode |-> INIT_PROC]
                    ELSE [refcnt |-> 0, ops |-> o = Ser, flags |-> 0, inode |-> INIT_PROC]
            io == [o \in Obj |-> r(o)]
<1>4. ASSUME NEW o \in Obj
      PROVE  r(o) \in IoType /\ r(o).refcnt \in Nat /\ (o = Ser => r(o).ops)
  <2>1. INIT_PROC \in Files /\ o \in Slot \cup {Ser} /\ Ser # 1
    BY ProcessAssumption, Constants DEF Obj, Ser
  <2>2. ASSUME NEW b \in BOOLEAN, NEW n \in {0, 1}, NEW i \in Files
        PROVE  LET t == [refcnt |-> n, ops |-> b, flags |-> n, inode |-> i]
               IN  t \in IoType /\ t.refcnt \in Nat /\ t.ops = b
    BY DEF IoType
  <2>3. CASE o = 1
    <3>1. r(o) = [refcnt |-> 1, ops |-> TRUE, flags |-> 1, inode |-> INIT_PROC]
      BY <2>3
    <3>. HIDE DEF r
    <3>. QED  BY <2>1, <2>2, <2>3, <3>1
  <2>4. CASE o # 1
    <3>. DEFINE b == o = Ser
    <3>1. b \in BOOLEAN
      OBVIOUS
    <3>2. r(o) = [refcnt |-> 0, ops |-> b, flags |-> 0, inode |-> INIT_PROC]
      BY <2>4
    <3>3. b => o = Ser
      OBVIOUS
    <3>4. (o = Ser) = b
      OBVIOUS
    <3>. HIDE DEF r, b
    <3>5. r(o) \in IoType /\ r(o).refcnt \in Nat /\ r(o).ops = b
      BY <2>1, <2>2, <3>1, <3>2
    <3>. QED  BY <3>4, <3>5
  <2>. QED  BY <2>3, <2>4
<1>5. fs = [io |-> io, intSpot |-> 1]
  BY DEF Init, Obj
<1>. HIDE DEF r
<1>6. io \in [Obj -> IoType] /\ \A o \in Obj : io[o] = r(o)
  BY <1>4
<1>. HIDE DEF io
<1>7. fs \in FsType /\ fs.io = io
  BY <1>5, <1>6, Constants DEF FsType
<1>8. Covered(proctab, fs)
  <2>1. ASSUME NEW o \in Obj PROVE Named(proctab, o) = {}
    <3>1. DOMAIN proctab = {1} /\ proctab[1].iotab = NoFds
      BY <1>1
    <3>2. o # NULL
      BY Constants
    <3>. QED  BY <1>2, <3>1, <3>2 DEF Named
  <2>2. ASSUME NEW o \in Obj PROVE Cardinality(Named(proctab, o)) <= fs.io[o].refcnt
    <3>1. Cardinality(Named(proctab, o)) = 0
      BY <2>1, FS_EmptySet
    <3>2. fs.io[o].refcnt \in Nat
      BY <1>4, <1>6, <1>7
    <3>. QED  BY <3>1, <3>2
  <2>. QED  BY <2>1, <2>2 DEF Covered
<1>9. SerialOps
  BY <1>4, <1>6, <1>7 DEF SerialOps, Obj
<1>10. Shape
  BY <1>1, <1>3, <1>7 DEF Shape
<1>11. FilesNamed /\ SlotsTaken /\ DescriptorKeepsFile
  BY <1>1, <1>2, Constants DEF FilesNamed, SlotsTaken, DescriptorKeepsFile, Obj
<1>12. CountCoversDescriptors
  BY <1>8, CoveredNow
<1>. QED  BY <1>9, <1>10, <1>11, <1>12 DEF IInv

\* Every step keeps the inductive invariant.
LEMMA NextIInv == IInv /\ [Next]_vars => IInv'
<1>. SUFFICES ASSUME IInv, [Next]_vars PROVE IInv'
  OBVIOUS
<1>1. ASSUME NEW fd \in Fd \cup {-1}, sysdevopen(fd) PROVE IInv'
  <2>1. phase # "halted"
    BY <1>1 DEF sysdevopen, Call
  <2>2. CASE UNCHANGED <<proctab, fs, meant>>
    BY <1>1, <2>1, <2>2, QuietStep DEF sysdevopen
  <2>3. CASE /\ fd >= 0 \/ iotab[0] = NULL
             /\ fs.io[Ser].refcnt = 0
             /\ fs' = device_open(fs)
             /\ proctab' = [proctab EXCEPT ![1].iotab[NewFd(fd)] = Ser]
             /\ meant' = [meant EXCEPT ![NewFd(fd)] = NULL]
    <3>1. NewFd(fd) \in Fd
      <4>1. fd < 0 => iotab[0] = NULL
        BY <2>3, Constants
      <4>. QED  BY <4>1, NewFdFacts
    <3>2. proctab' = Given(proctab, NewFd(fd), Ser)
      BY <2>3 DEF Given
    <3>3. misclosed' = misclosed
      BY <1>1 DEF sysdevopen
    <3>. QED  BY <2>1, <2>3, <3>1, <3>2, <3>3, DevOpenStep
  <2>. QED  BY <1>1, <2>2, <2>3 DEF sysdevopen
<1>2. ASSUME NEW fd \in Fd \cup {-1}, NEW name \in Files, sysfsopen(fd, name) PROVE IInv'
  <2>1. phase # "halted"
    BY <1>2 DEF sysfsopen, Call
  <2>2. CASE UNCHANGED <<proctab, fs, misclosed, meant>>
    BY <2>1, <2>2, QuietStep
  <2>3. CASE /\ NewFd(fd) # IOMAX
             /\ \E s \in fs_spots(fs) :
                  /\ fs' = fs_open(fs, s, name)
                  /\ misclosed' = (misclosed \/ \A x \in Slot : fs.io[x].flags = 1)
                  /\ proctab' = [proctab EXCEPT ![1].iotab[NewFd(fd)] = s]
             /\ meant' = [meant EXCEPT ![NewFd(fd)] = name]
    <3>1. NewFd(fd) \in Fd
      BY <2>3, NewFdFacts
    <3>2. PICK s \in fs_spots(fs) :
            /\ fs' = fs_open(fs, s, name)
            /\ misclosed' = (misclosed \/ \A x \in Slot : fs.io[x].flags = 1)
            /\ proctab' = [proctab EXCEPT ![1].iotab[NewFd(fd)] = s]
      BY <2>3
    <3>3. proctab' = Given(proctab, NewFd(fd), s)
      BY <3>2 DEF Given
    <3>. QED  BY <2>1, <2>3, <3>1, <3>2, <3>3, FsOpenStep
  <2>. QED  BY <1>2, <2>2, <2>3 DEF sysfsopen
<1>3. ASSUME NEW fd \in Fd, sysclose(fd) PROVE IInv'
  <2>1. phase # "halted"
    BY <1>3 DEF sysclose, Call
  <2>2. CASE UNCHANGED <<proctab, fs, misclosed, meant>>
    BY <2>1, <2>2, QuietStep
  <2>3. CASE /\ iotab[fd] # NULL
             /\ fs' = ioclose(fs, iotab[fd])
             /\ misclosed' = (misclosed \/ \E s \in Slot \ {iotab[fd]} :
                                             fs'.io[s].flags # fs.io[s].flags)
             /\ proctab' = [proctab EXCEPT ![1].iotab[fd] = NULL]
             /\ meant' = [meant EXCEPT ![fd] = NULL]
    <3>1. proctab' = Given(proctab, fd, NULL)
      BY <2>3 DEF Given
    <3>. QED  BY <2>1, <2>3, <3>1, CloseStep
  <2>. QED  BY <1>3, <2>2, <2>3 DEF sysclose
<1>4. ASSUME NEW fd \in Fd, sysioctl(fd) \/ sysexec(fd) PROVE IInv'
  BY <1>4, QuietStep DEF sysioctl, sysexec, Call, watch
<1>5. ASSUME NEW fd \in Fd, NEW v, sysread(fd, v) \/ syswrite(fd, v) PROVE IInv'
  BY <1>5, QuietStep DEF sysread, syswrite, Call, watch
<1>6. ASSUME NEW v, sysmsgout(v) \/ default_excp_handler(v) PROVE IInv'
  BY <1>6, QuietStep DEF sysmsgout, default_excp_handler, Call, watch
<1>7. ASSUME NEW child, syswait(child) PROVE IInv'
  BY <1>7, QuietStep DEF syswait, Call, watch
<1>8. CASE sysusleep
  BY <1>8, QuietStep DEF sysusleep, Call, watch
<1>9. CASE process_fork
  <2>1. /\ phase # "halted" /\ fs' = forked(fs) /\ UNCHANGED <<misclosed, meant>>
        /\ proctab' = IF Len(proctab) < NPROC THEN Append(proctab, [iotab |-> iotab]) ELSE proctab
    BY <1>9 DEF process_fork, Call
  <2>. QED  BY <2>1, ForkStep
<1>10. CASE sysexit
  BY <1>10, ExitStep DEF sysexit
<1>11. CASE elf_load_map \/ elf_load_fill \/ enter_user
  BY <1>11, QuietStep DEF elf_load_map, elf_load_fill, enter_user, watch
<1>12. CASE Preempted
  BY <1>12, QuietStep DEF Preempted, watch
<1>13. ASSUME NEW v, NEW i, UserStore(v, i) PROVE IInv'
  BY <1>13, QuietStep DEF UserStore, watch
<1>14. ASSUME NEW v, NEW sp, memory_handle_page_fault(v, sp) PROVE IInv'
  BY <1>14, QuietStep, ExitStep DEF memory_handle_page_fault, Call, watch
<1>15. CASE UNCHANGED vars
  <2>1. UNCHANGED <<proctab, fs, misclosed, meant, phase>>
    BY <1>15 DEF vars
  <2>2. CASE phase # "halted"
    BY <2>1, <2>2, QuietStep
  <2>3. CASE phase = "halted"
    <3>1. Shape' /\ FilesNamed' /\ DescriptorKeepsFile'
      BY <2>1 DEF IInv, Shape, FilesNamed, DescriptorKeepsFile, iotab, FsType, IoType,
                  ProcType, Obj, Slot, Ser, Fd, NULL
    <3>2. SerialOps' /\ SlotsTaken' /\ CountCoversDescriptors'
      BY <2>1, <2>3 DEF SerialOps, SlotsTaken, CountCoversDescriptors
    <3>. QED  BY <3>1, <3>2 DEF IInv
  <2>. QED  BY <2>2, <2>3
<1>. QED  BY <1>1, <1>2, <1>3, <1>4, <1>5, <1>6, <1>7, <1>8, <1>9, <1>10, <1>11, <1>12, <1>13,
             <1>14, <1>15 DEF Next, syscall

LEMMA Invariance == Spec => []IInv
BY InitIInv, NextIInv, PTL DEF Spec

\* Over any sequence of opens, closes, forks and execs the count of an interface
\* covers the descriptors that name it, so ioclose never takes the operations of
\* an interface that some process still has open.
THEOREM CountSafety == Spec => []CountCoversDescriptors
<1>1. IInv => CountCoversDescriptors
  BY DEF IInv
<1>. QED  BY Invariance, <1>1, PTL

\* A descriptor reads the file that sysfsopen opened for it, however slots of
\* fileArray are reused, until fs_close has freed the slot of another file.
THEOREM FileSafety == Spec => []DescriptorKeepsFile
<1>1. IInv => DescriptorKeepsFile
  BY DEF IInv
<1>. QED  BY Invariance, <1>1, PTL
-----------------------------------------------------------------------------
(* Memory.  As long as freed pages have not been left mapped, memory is     *)
(* sound for the roots of all spaces: every page that a table, the free     *)
(* list or the heap refers to is referred to from one place.                *)

Segment ==
    {g \in [va : Vpn, mem : Nat, file : Nat, w : BOOLEAN] :
        g.va + g.mem <= USER_END /\ g.file <= g.mem}

\* elf_load has its program headers.
Loading == todo \in Seq(Segment) /\ (phase = "fill" => todo # << >>)

MInv ==
    /\ stale \in BOOLEAN
    /\ Loading
    /\ ~stale => Sound(mem, spaces)

\* What a step does to memory.
MemStep ==
    /\ stale' \in BOOLEAN
    /\ ~stale' => /\ ~stale /\ Sound(mem', spaces')
                  /\ \A s \in spaces \ {mem.satp, mem'.satp} : View(mem', s) = View(mem, s)
    /\ spaces' # spaces /\ ~stale => View(mem', mem'.satp) = View(mem, mem.satp)

LEMMA ImageFacts ==
    /\ \A f \in Files : Image[f] \in Seq(Segment)
    /\ << >> \in Seq(Segment)
<1>1. ASSUME NEW f \in Files PROVE Image[f] \in Seq(Segment)
  <2>. DEFINE R == [va : Vpn, mem : Nat, file : Nat, w : BOOLEAN]
              q == Image[f]
  <2>1. q \in Seq(R) /\ \A k \in DOMAIN q : q[k].va + q[k].mem <= USER_END /\ q[k].file <= q[k].mem
    BY ProcessAssumption
  <2>. HIDE DEF R, q
  <2>2. Len(q) \in Nat /\ DOMAIN q = 1 .. Len(q) /\ q = [k \in 1 .. Len(q) |-> q[k]]
    BY <2>1
  <2>3. \A k \in 1 .. Len(q) : q[k] \in R
    BY <2>1, <2>2
  <2>4. \A k \in 1 .. Len(q) : q[k] \in Segment
    BY <2>1, <2>2, <2>3 DEF Segment, R
  <2>5. q \in [1 .. Len(q) -> Segment]
    BY <2>2, <2>4
  <2>6. q \in Seq(Segment)
    BY <2>2, <2>5
  <2>. QED  BY <2>6 DEF q
<1>. QED  BY <1>1

\* The user region: its pages, and the one above it.
LEMMA UserPages ==
    /\ USER_END \in Nat /\ 0 .. USER_END = Vpn /\ 0 .. USER_END - 1 \subseteq Vpn
    /\ PTE_CNT * PTE_CNT = USER_END + 1 /\ Vpn \subseteq Nat
<1>. DEFINE z == PTE_CNT * PTE_CNT
<1>1. z \in Nat \ {0}
  BY MemoryAssumption
<1>2. Vpn = 0 .. z - 1 /\ USER_END = z - 1
  BY DEF Vpn, USER_END
<1>. HIDE DEF z
<1>3. USER_END \in Nat /\ 0 .. USER_END = Vpn /\ 0 .. USER_END - 1 \subseteq Vpn /\ z = USER_END + 1
      /\ Vpn \subseteq Nat
  BY <1>1, <1>2
<1>. QED  BY <1>3 DEF z

LEMMA StillSleep ==
    ASSUME NEW m, NEW S, Sound(m, S), NEW x \in MaySleep(m)
    PROVE  Still(m, x, S) /\ Sound(x, S)
<1>1. Still(m, x, S)
  BY StillSteps DEF MaySleep, Resumed
<1>. QED  BY <1>1 DEF Still

\* A step that makes no space.
LEMMA StillStep ==
    ASSUME MInv, spaces' = spaces, stale' = stale, ~stale => Still(mem, mem', spaces)
    PROVE  MemStep
BY DEF MInv, MemStep, Still

\* A step that leaves memory alone.
LEMMA IdleStep ==
    ASSUME MInv, spaces' = spaces, stale' = stale, mem' = mem
    PROVE  MemStep
BY DEF MInv, MemStep

-----------------------------------------------------------------------------
(* The actions that change memory *)

LEMMA FsOpenMem ==
    ASSUME MInv, NEW fd, NEW f, sysfsopen(fd, f)
    PROVE  MemStep
<1>0. spaces' = spaces /\ stale' = stale
  BY DEF sysfsopen
<1>1. CASE mem' = mem
  BY <1>0, <1>1, IdleStep
<1>2. CASE \E m \in MaySleep(kmalloc(mem, 1)) : mem' = m \/ mem' = kmalloc(m, 1)
  <2>1. PICK m \in MaySleep(kmalloc(mem, 1)) : mem' = m \/ mem' = kmalloc(m, 1)
    BY <1>2
  <2>2. ASSUME ~stale PROVE Still(mem, mem', spaces)
    <3>. DEFINE k == kmalloc(mem, 1)
    <3>1. Sound(mem, spaces)
      BY <2>2 DEF MInv
    <3>2. Still(mem, k, spaces)
      BY <3>1, StillSteps
    <3>3. Sound(k, spaces)
      BY <3>2 DEF Still
    <3>4. Still(k, m, spaces) /\ Sound(m, spaces)
      BY <2>1, <3>3, StillSleep
    <3>5. Still(mem, m, spaces)
      BY <3>2, <3>4, StillTrans
    <3>6. Still(m, kmalloc(m, 1), spaces)
      BY <3>4, StillSteps
    <3>7. Still(mem, kmalloc(m, 1), spaces)
      BY <3>5, <3>6, StillTrans
    <3>. QED  BY <2>1, <3>5, <3>7
  <2>. QED  BY <1>0, <2>2, StillStep
<1>3. mem' = mem \/ \E m \in MaySleep(kmalloc(mem, 1)) : mem' = m \/ mem' = kmalloc(m, 1)
  BY DEF sysfsopen, Halt, Go
<1>. QED  BY <1>1, <1>2, <1>3

LEMMA ReadMem ==
    ASSUME MInv, NEW fd, NEW v \in 0 .. USER_END - 1, sysread(fd, v) \/ syswrite(fd, v)
    PROVE  MemStep
<1>0. spaces' = spaces /\ stale' = stale
  BY DEF sysread, syswrite, watch
<1>1. \/ mem' = mem
      \/ \E m \in MaySleep(mem) : \/ mem' = m \/ mem' = Stop(m, "panic")
                                  \/ Writable(m, v) /\ mem' = store(m, v, 0, Bytes)
  BY DEF sysread, syswrite, Go
<1>2. CASE mem' = mem
  BY <1>0, <1>2, IdleStep
<1>3. CASE mem' # mem
  <2>1. PICK m \in MaySleep(mem) : \/ mem' = m \/ mem' = Stop(m, "panic")
                                   \/ Writable(m, v) /\ mem' = store(m, v, 0, Bytes)
    BY <1>1, <1>3
  <2>2. ASSUME ~stale PROVE Still(mem, mem', spaces)
    <3>1. Sound(mem, spaces)
      BY <2>2 DEF MInv
    <3>2. Still(mem, m, spaces) /\ Sound(m, spaces)
      BY <3>1, StillSleep
    <3>3. v \in Vpn /\ 0 \in Word /\ Bytes \in Nat
      BY UserPages, Sizes DEF Bytes
    <3>4. /\ Still(m, Stop(m, "panic"), spaces)
          /\ Writable(m, v) => Still(m, store(m, v, 0, Bytes), spaces)
      BY <3>2, <3>3, StillSteps
    <3>. QED  BY <2>1, <3>2, <3>4, StillTrans
  <2>. QED  BY <1>0, <2>2, StillStep
<1>. QED  BY <1>2, <1>3

LEMMA OtherMem ==
    ASSUME MInv,
           \/ sysusleep \/ Preempted \/ enter_user \/ (\E v \in Vpn : sysmsgout(v))
           \/ (\E v \in Vpn, i \in Word : UserStore(v, i))
           \/ \E v, sp : memory_handle_page_fault(v, sp)
    PROVE  MemStep
<1>1. CASE \E v, sp : memory_handle_page_fault(v, sp) /\ process_exit
  BY <1>1 DEF MInv, MemStep, process_exit
<1>2. CASE \/ sysusleep \/ Preempted \/ enter_user \/ (\E v \in Vpn : sysmsgout(v))
           \/ (\E v \in Vpn, i \in Word : UserStore(v, i))
           \/ \E v, sp : memory_handle_page_fault(v, sp) /\ ~process_exit
  <2>1. spaces' = spaces /\ stale' = stale
    BY <1>2 DEF sysusleep, Preempted, enter_user, sysmsgout, UserStore, memory_handle_page_fault, watch
  <2>2. ASSUME ~stale PROVE Still(mem, mem', spaces)
    <3>1. Sound(mem, spaces)
      BY <2>2 DEF MInv
    <3>2. CASE sysusleep
      <4>. DEFINE k == kmalloc(mem, 1)
      <4>1. mem' \in MaySleep(k)
        BY <3>2 DEF sysusleep, Go
      <4>2. Still(mem, k, spaces)
        BY <3>1, StillSteps
      <4>3. Sound(k, spaces)
        BY <4>2 DEF Still
      <4>. HIDE DEF k
      <4>4. Still(k, mem', spaces)
        BY <4>1, <4>3, StillSleep
      <4>. QED  BY <4>2, <4>4, StillTrans
    <3>3. CASE Preempted \/ enter_user
      <4>1. mem' \in MaySleep(mem)
        BY <3>3 DEF Preempted, enter_user, Go, Halt, MaySleep
      <4>. QED  BY <3>1, <4>1, StillSleep
    <3>4. CASE \E v \in Vpn : sysmsgout(v)
      <4>1. mem' = mem \/ mem' = Stop(mem, "panic")
        BY <3>4 DEF sysmsgout, Go
      <4>. QED  BY <3>1, <4>1, StillSteps
    <3>5. CASE \E v \in Vpn, i \in Word : UserStore(v, i)
      <4>1. PICK v \in Vpn, i \in Word : Writable(mem, v) /\ mem' = store(mem, v, i, Bytes)
        BY <3>5 DEF UserStore, Go
      <4>2. Bytes \in Nat
        BY DEF Bytes
      <4>. QED  BY <3>1, <4>1, <4>2, StillSteps
    <3>6. CASE \E v, sp : memory_handle_page_fault(v, sp) /\ ~process_exit
      <4>1. PICK sp \in 0 .. USER_END : mem' = memory_alloc_and_map_page(mem, sp, TRUE)
        BY <3>6 DEF memory_handle_page_fault, Go
      <4>2. sp \in Vpn
        BY UserPages
      <4>. QED  BY <3>1, <4>1, <4>2, StillSteps
    <3>. QED  BY <1>2, <3>2, <3>3, <3>4, <3>5, <3>6
  <2>. QED  BY <2>1, <2>2, StillStep
<1>. QED  BY <1>1, <1>2

LEMMA MapMem ==
    ASSUME MInv, elf_load_map
    PROVE  MemStep
<1>0. spaces' = spaces /\ stale' = stale /\ todo # << >>
  BY DEF elf_load_map, watch
<1>. DEFINE g == Head(todo)
<1>1. g \in Segment
  BY <1>0 DEF MInv, Loading
<1>2. PICK m \in MaySleep(mem) : mem' = memory_alloc_and_map_range(m, g.va, g.mem)
  BY DEF elf_load_map, Go
<1>. HIDE DEF g
<1>3. g.va \in Nat /\ g.mem \in Nat /\ g.va + g.mem <= PTE_CNT * PTE_CNT
  BY <1>1, UserPages DEF Segment
<1>4. ASSUME ~stale PROVE Still(mem, mem', spaces)
  <2>1. Still(mem, m, spaces) /\ Sound(m, spaces)
    BY <1>4, StillSleep DEF MInv
  <2>2. mem' \in Reach(m, spaces, m.satp)
    BY <1>2, <1>3, <2>1, MapRange
  <2>3. Still(m, mem', spaces)
    BY <2>2, StillReach
  <2>. QED  BY <2>1, <2>3, StillTrans
<1>. QED  BY <1>0, <1>4, StillStep

LEMMA FillMem ==
    ASSUME MInv, elf_load_fill
    PROVE  MemStep
<1>0. spaces' = spaces /\ stale' = stale /\ todo # << >>
  BY DEF elf_load_fill, watch, MInv, Loading
<1>. DEFINE g == Head(todo)
<1>1. g \in Segment
  BY <1>0 DEF MInv, Loading
<1>2. PICK m \in MaySleep(mem) :
        mem' = fill(memory_set_range_flags(fill(m, g.va, g.file, Bytes), g.va, g.mem, g.w),
                    g.va + g.file, g.mem - g.file, 0)
  BY DEF elf_load_fill, Go
<1>. HIDE DEF g
<1>3. /\ g.va \in Nat /\ g.file \in Nat /\ g.mem \in Nat /\ g.w \in BOOLEAN /\ Bytes \in Nat
      /\ g.va + g.file \in Nat /\ g.mem - g.file \in Nat
      /\ g.va + g.file <= PTE_CNT * PTE_CNT /\ g.va + g.mem <= PTE_CNT * PTE_CNT
      /\ (g.va + g.file) + (g.mem - g.file) <= PTE_CNT * PTE_CNT
  <2>1. /\ g.va \in Nat /\ g.file \in Nat /\ g.mem \in Nat /\ g.w \in BOOLEAN
        /\ g.va + g.mem <= USER_END /\ g.file <= g.mem /\ USER_END \in Nat
    BY <1>1, UserPages DEF Segment
  <2>2. /\ g.va + g.file \in Nat /\ g.mem - g.file \in Nat
        /\ g.va + g.file <= USER_END + 1 /\ g.va + g.mem <= USER_END + 1
        /\ (g.va + g.file) + (g.mem - g.file) <= USER_END + 1
    BY <2>1
  <2>. QED  BY <2>1, <2>2, UserPages DEF Bytes
<1>4. ASSUME ~stale PROVE Still(mem, mem', spaces)
  <2>. DEFINE r == fill(m, g.va, g.file, Bytes)
              s == memory_set_range_flags(r, g.va, g.mem, g.w)
              t == fill(s, g.va + g.file, g.mem - g.file, 0)
  <2>1. Still(mem, m, spaces) /\ Sound(m, spaces)
    BY <1>4, StillSleep DEF MInv
  <2>2. Still(m, r, spaces)
    BY <1>3, <2>1, FillFacts, StillReach
  <2>3. Sound(r, spaces)
    BY <2>2 DEF Still
  <2>. HIDE DEF r
  <2>4. Still(r, s, spaces)
    BY <1>3, <2>3, SetRange, StillReach
  <2>5. Sound(s, spaces)
    BY <2>4 DEF Still
  <2>. HIDE DEF s
  <2>6. Still(s, t, spaces)
    <3>1. 0 \in Nat
      OBVIOUS
    <3>. QED  BY <1>3, <2>5, <3>1, FillFacts, StillReach
  <2>7. mem' = t
    BY <1>2 DEF r, s, t
  <2>. HIDE DEF t
  <2>8. Still(mem, t, spaces)
    BY <2>1, <2>2, <2>4, <2>6, StillTrans
  <2>. QED  BY <2>7, <2>8
<1>. QED  BY <1>0, <1>4, StillStep

LEMMA ExecMem ==
    ASSUME MInv, NEW fd, sysexec(fd)
    PROVE  MemStep
<1>1. CASE iotab[fd] = NULL
  BY <1>1, IdleStep DEF sysexec
<1>2. CASE iotab[fd] # NULL
  <2>1. /\ mem' = memory_unmap_and_free_user(mem) /\ spaces' = spaces
        /\ stale' = (stale \/ \E v \in Vpn : Mapped(mem, v))
    BY <1>2 DEF sysexec, Go
  <2>2. stale' \in BOOLEAN
    BY <2>1
  <2>3. ASSUME ~stale' PROVE ~stale /\ mem' = mem
    <3>1. ~stale /\ \A v \in Vpn : ~Mapped(mem, v)
      BY <2>1, <2>3
    <3>2. Sound(mem, spaces)
      BY <3>1 DEF MInv
    <3>3. memory_unmap_and_free_user(mem) = mem
      BY <3>1, <3>2, UnmapNothing
    <3>. QED  BY <2>1, <3>1, <3>3
  <2>. QED  BY <2>1, <2>2, <2>3 DEF MemStep, MInv
<1>. QED  BY <1>1, <1>2

LEMMA ForkMem ==
    ASSUME MInv, process_fork
    PROVE  MemStep
<1>. DEFINE m == kmalloc(mem, 1)
            c == IF Up(m) THEN memory_space_clone(m) ELSE m
            p == m.free_list
            S == spaces
<1>1. /\ mem' = IF Up(c) THEN memory_space_switch(c, p) ELSE c
      /\ spaces' = IF Up(c) THEN spaces \cup {p} ELSE spaces
      /\ stale' = stale
  BY DEF process_fork, Go
<1>2. stale' \in BOOLEAN
  BY <1>1 DEF MInv
<1>3. CASE stale
  BY <1>1, <1>2, <1>3 DEF MemStep
<1>4. CASE ~stale
  <2>1. PICK role : Good(mem, S, role)
    BY <1>4 DEF MInv, Sound
  <2>2. PICK rm : Works(mem, m, S, role, rm, NULL)
    BY <2>1, KmallocFacts
  <2>3. /\ Good(m, S, rm) /\ m.satp = mem.satp /\ mem.satp \in S
        /\ \A s \in S : View(m, s) = View(mem, s)
    BY <2>1, <2>2, Sizes DEF Works, Good
  <2>. HIDE DEF m, p
  <2>4. CASE ~Up(c)
    <3>1. mem' = c /\ spaces' = spaces
      BY <1>1, <2>4
    <3>2. Sound(c, S) /\ \A s \in S : View(c, s) = View(mem, s)
      <4>1. CASE ~Up(m)
        BY <2>3, <4>1 DEF Sound
      <4>2. CASE Up(m)
        <5>1. CloneOf(m, c, S)
          BY <2>3, <4>2, SpaceClone
        <5>. HIDE DEF c
        <5>. QED  BY <2>3, <5>1 DEF CloneOf
      <4>. QED  BY <4>1, <4>2
    <3>. HIDE DEF c
    <3>. QED  BY <1>1, <1>2, <1>4, <3>1, <3>2 DEF MemStep
  <2>5. CASE Up(c)
    <3>1. Up(m) /\ c = memory_space_clone(m)
      BY <2>5
    <3>2. CloneOf(m, c, S)
      BY <2>3, <3>1, SpaceClone
    <3>. HIDE DEF c
    <3>3. /\ Sound(c, S \cup {p}) /\ View(c, p) = View(m, m.satp)
          /\ \A s \in S : View(c, s) = View(m, s)
      BY <2>5, <3>2 DEF CloneOf, p
    <3>4. mem' = memory_space_switch(c, p) /\ spaces' = S \cup {p}
      BY <1>1, <2>5
    <3>5. PICK rc : Good(c, S \cup {p}, rc)
      BY <3>3 DEF Sound
    <3>. DEFINE n == memory_space_switch(c, p)
    <3>6. Good(n, S \cup {p}, rc) /\ n.satp = p /\ \A s \in S \cup {p} : View(n, s) = View(c, s)
      <4>1. p \in S \cup {p}
        OBVIOUS
      <4>. QED  BY <3>5, <4>1, SwitchFacts
    <3>. HIDE DEF n
    <3>7. Sound(mem', spaces')
      BY <3>4, <3>6 DEF Sound, n
    <3>8. \A s \in S : View(mem', s) = View(mem, s)
      BY <2>3, <3>3, <3>4, <3>6 DEF n
    <3>9. View(mem', mem'.satp) = View(mem, mem.satp)
      <4>1. View(n, n.satp) = View(c, p)
        BY <3>6
      <4>2. View(c, p) = View(mem, mem.satp)
        BY <2>3, <3>3
      <4>. QED  BY <3>4, <4>1, <4>2 DEF n
    <3>. QED  BY <1>1, <1>2, <1>4, <3>7, <3>8, <3>9 DEF MemStep
  <2>. QED  BY <2>4, <2>5
<1>. QED  BY <1>3, <1>4
-----------------------------------------------------------------------------
(* Every step *)

\* The segments that elf_load has still to load are those of a file.
LEMMA LoadingNext ==
    ASSUME IInv, MInv, [Next]_vars
    PROVE  Loading'
<1>0. Loading
  BY DEF MInv
<1>1. CASE todo' = todo /\ phase' # "fill"
  BY <1>0, <1>1 DEF Loading
<1>2. CASE todo' = << >> /\ phase' # "fill"
  BY <1>2, ImageFacts DEF Loading
<1>3. CASE UNCHANGED vars
  <2>1. todo' = todo /\ phase' = phase
    BY <1>3 DEF vars
  <2>. QED  BY <1>0, <2>1 DEF Loading
<1>4. ASSUME NEW fd \in Fd, sysexec(fd) PROVE Loading'
  <2>1. CASE iotab[fd] = NULL
    <3>1. todo' = todo /\ phase' = "user"
      BY <1>4, <2>1 DEF sysexec, Call
    <3>. QED  BY <1>1, <3>1
  <2>2. CASE iotab[fd] # NULL
    <3>1. todo' = elf_header(iotab[fd]) /\ phase' # "fill"
      BY <1>4, <2>2 DEF sysexec, Go
    <3>2. iotab[fd] \in Obj /\ fs \in FsType
      <4>1. 1 \in DOMAIN proctab /\ proctab[1] \in ProcType /\ fs \in FsType
        BY DEF IInv, Shape
      <4>. QED  BY <2>2, <4>1 DEF iotab, ProcType
    <3>3. fs.io[iotab[fd]].inode \in Files
      BY <3>2 DEF FsType, IoType
    <3>4. elf_header(iotab[fd]) \in Seq(Segment)
      BY <3>3, ImageFacts DEF elf_header
    <3>. QED  BY <3>1, <3>4 DEF Loading
  <2>. QED  BY <2>1, <2>2
<1>5. CASE elf_load_map
  <2>1. todo' = todo /\ todo # << >>
    BY <1>5 DEF elf_load_map
  <2>. QED  BY <1>0, <2>1 DEF Loading
<1>6. CASE elf_load_fill
  <2>1. todo' = Tail(todo) /\ phase = "fill" /\ phase' # "fill"
    BY <1>6 DEF elf_load_fill, Go
  <2>2. Tail(todo) \in Seq(Segment)
    BY <1>0, <2>1 DEF Loading
  <2>. QED  BY <2>1, <2>2 DEF Loading
<1>7. CASE enter_user
  BY <1>2, <1>7 DEF enter_user, Go, Halt
<1>8. ASSUME NEW fd, \/ sysdevopen(fd) \/ (\E f \in Files : sysfsopen(fd, f))
                     \/ sysclose(fd) \/ sysioctl(fd)
                     \/ \E v \in 0 .. USER_END - 1 : sysread(fd, v) \/ syswrite(fd, v)
      PROVE  Loading'
  <2>1. todo' = todo /\ (phase' = phase \/ phase' = "halted" \/ phase' = "user") /\ phase = "user"
    BY <1>8 DEF sysdevopen, sysfsopen, sysclose, sysioctl, sysread, syswrite, Call, Halt, Go
  <2>. QED  BY <1>1, <2>1
<1>9. ASSUME NEW v, \/ sysmsgout(v) \/ default_excp_handler(v)
                    \/ (\E i \in Offsets : UserStore(v, i))
                    \/ \E sp \in 0 .. USER_END + 1 : memory_handle_page_fault(v, sp)
      PROVE  Loading'
  <2>1. todo' = todo /\ phase' # "fill"
    BY <1>9 DEF sysmsgout, default_excp_handler, UserStore, memory_handle_page_fault,
                process_exit, Call, Halt, Go
  <2>. QED  BY <1>1, <2>1
<1>10. CASE (\E child \in BOOLEAN : syswait(child)) \/ sysusleep \/ process_fork \/ sysexit \/ Preempted
  <2>1. todo' = todo /\ phase' # "fill"
    BY <1>10 DEF syswait, sysusleep, process_fork, sysexit, process_exit, Preempted, Call, Go
  <2>. QED  BY <1>1, <2>1
<1>. QED  BY <1>3, <1>4, <1>5, <1>6, <1>7, <1>8, <1>9, <1>10 DEF Next, syscall

LEMMA MemNext ==
    ASSUME MInv, [Next]_vars
    PROVE  MemStep
<1>1. ASSUME NEW fd, \/ sysdevopen(fd) \/ sysclose(fd) \/ sysioctl(fd) PROVE MemStep
  <2>1. UNCHANGED <<mem, spaces, stale>>
    BY <1>1 DEF sysdevopen, sysclose, sysioctl, watch, Halt
  <2>. QED  BY <2>1, IdleStep
<1>2. ASSUME NEW x, syswait(x) \/ default_excp_handler(x) PROVE MemStep
  <2>1. UNCHANGED <<mem, spaces, stale>>
    BY <1>2 DEF syswait, default_excp_handler, watch, Halt
  <2>. QED  BY <2>1, IdleStep
<1>3. CASE UNCHANGED vars
  <2>1. UNCHANGED <<mem, spaces, stale>>
    BY <1>3 DEF vars
  <2>. QED  BY <2>1, IdleStep
<1>4. CASE sysexit
  BY <1>4 DEF sysexit, process_exit, MemStep
<1>5. ASSUME NEW fd, \/ (\E f \in Files : sysfsopen(fd, f)) \/ sysexec(fd)
                     \/ \E v \in 0 .. USER_END - 1 : sysread(fd, v) \/ syswrite(fd, v)
      PROVE  MemStep
  BY <1>5, FsOpenMem, ExecMem, ReadMem
<1>6. ASSUME NEW v \in 0 .. USER_END - 1,
             \/ sysmsgout(v) \/ (\E i \in Offsets : UserStore(v, i))
             \/ \E sp \in 0 .. USER_END + 1 : memory_handle_page_fault(v, sp)
      PROVE  MemStep
  <2>1. v \in Vpn /\ Offsets \subseteq Word
    BY UserPages, ProcessAssumption
  <2>. QED  BY <1>6, <2>1, OtherMem
<1>7. CASE sysusleep \/ process_fork \/ enter_user \/ Preempted \/ elf_load_map \/ elf_load_fill
  BY <1>7, OtherMem, ForkMem, MapMem, FillMem
<1>. QED  BY <1>1, <1>2, <1>3, <1>4, <1>5, <1>6, <1>7 DEF Next, syscall

LEMMA InitMInv == Init => MInv
<1>. SUFFICES ASSUME Init PROVE MInv
  OBVIOUS
<1>1. Image[INIT_PROC] \in Seq(Segment)
  BY ProcessAssumption, ImageFacts
<1>. QED  BY <1>1, InitSound DEF Init, MInv, Loading

LEMMA NextMInv == IInv /\ MInv /\ [Next]_vars => MInv'
<1>. SUFFICES ASSUME IInv, MInv, [Next]_vars PROVE MInv'
  OBVIOUS
<1>1. Loading' /\ MemStep
  BY LoadingNext, MemNext
<1>. QED  BY <1>1 DEF MInv, MemStep

LEMMA MemoryInvariance == Spec => []MInv
BY InitMInv, NextMInv, Invariance, PTL DEF Spec

\* A step that does not leave freed pages mapped changes what one space maps and
\* holds, and no other, whatever else the kernel does in between.
THEOREM SpaceSafety == Spec => SpacesAreSeparate
<1>1. MInv /\ [Next]_vars
        => [~stale' => \A s \in spaces \ {mem.satp, mem'.satp} : View(mem', s) = View(mem, s)]_vars
  BY MemNext DEF MemStep
<1>. QED  BY <1>1, MemoryInvariance, PTL DEF Spec, SpacesAreSeparate

\* process_fork goes on in a space of its own that maps the same pages, with the
\* same contents and W flags, for any memory and any tables, unless exec has left
\* freed pages mapped before (stale).
THEOREM ForkSafety == Spec => ForkKeepsMemory
<1>1. MInv /\ [Next]_vars
        => [spaces' # spaces /\ ~stale => View(mem', mem'.satp) = View(mem, mem.satp)]_vars
  BY MemNext DEF MemStep
<1>. QED  BY <1>1, MemoryInvariance, PTL DEF Spec, ForkKeepsMemory
-----------------------------------------------------------------------------
(* The uses of a page: each kind of use needs another role. *)

LEMMA AtMostOne ==
    ASSUME NEW A, NEW x, \A y \in A : y = x
    PROVE  Cardinality(A) \in {0, 1} /\ (Cardinality(A) # 0 => A # {})
<1>1. A = {} \/ A = {x}
  OBVIOUS
<1>. QED  BY <1>1, FS_EmptySet, FS_Singleton

\* The page at the end of a walk tells the root and the page number.
LEMMA UserRole ==
    ASSUME NEW m, NEW S, NEW role, Good(m, S, role), NEW s \in S, NEW v \in Vpn, NEW p \in Page,
           lookup(m, s, v).kind = "leaf", lookup(m, s, v).p = p
    PROVE  /\ role[p][1] = "user" /\ s = RootOf(role, p)
           /\ v = PTE_CNT * role[role[p][2]][3] + role[p][3]
<1>. DEFINE t1 == m.ram[s][0].p
            t0 == m.ram[t1][VPN1(v)].p
            e  == m.ram[t0][VPN0(v)]
<1>1. VPN1(v) \in Word /\ VPN0(v) \in Word /\ v = PTE_CNT * VPN1(v) + VPN0(v)
  BY VpnParts
<1>2. s \in Frame /\ role[s] = <<"root", NULL, 0>> /\ role[s][1] = "root"
  BY DEF Good
<1>3. \/ m.ram[s][0] = null_pte /\ lookup(m, s, v) = null_pte
      \/ /\ m.ram[s][0] = ptab_pte(t1) /\ t1 \in Page /\ role[t1] = <<"l1", s, 0>>
         /\ \/ m.ram[t1][VPN1(v)] = null_pte /\ lookup(m, s, v) = null_pte
            \/ /\ m.ram[t1][VPN1(v)] = ptab_pte(t0) /\ t0 \in Page
               /\ role[t0] = <<"l0", t1, VPN1(v)>>
               /\ lookup(m, s, v) = e /\ Maps(e, role, t0, VPN0(v))
  BY <1>1, <1>2, Walk, Zenon
<1>. HIDE DEF t1, t0, e
<1>4. lookup(m, s, v) # null_pte /\ p # NULL
  BY Words, Sizes
<1>5. role[p] = <<"user", t0, VPN0(v)>>
  BY <1>3, <1>4, LeafPage
<1>6. role[t0] = <<"l0", t1, VPN1(v)>>
  BY <1>3, <1>4
<1>7. role[t1] = <<"l1", s, 0>>
  BY <1>3, <1>4
<1>8. role[p][1] = "user" /\ role[p][2] = t0 /\ role[p][3] = VPN0(v)
  BY <1>5
<1>9. role[t0][2] = t1 /\ role[t0][3] = VPN1(v)
  BY <1>6
<1>10. role[t1][2] = s
  BY <1>7
<1>. QED  BY <1>1, <1>8, <1>9, <1>10 DEF RootOf

LEMMA OneRole ==
    ASSUME NEW role, Good(mem, spaces, role), NEW p \in Page
    PROVE  Uses(p) <= 1
<1>. DEFINE level1 == {mem.ram[r][0].p : r \in {r \in spaces : mem.ram[r][0].kind = "table"}}
            level0 == {e \in level1 \X Word : mem.ram[e[1]][e[2]].kind = "table"}
            A == {r \in spaces : mem.ram[r][0] = ptab_pte(p)}
            B == {e \in level0 : mem.ram[e[1]][e[2]].p = p}
            C == {e \in spaces \X Vpn : lookup(mem, e[1], e[2]).kind = "leaf"
                                         /\ lookup(mem, e[1], e[2]).p = p}
            a == IF p \in FreePages(mem) THEN 1 ELSE 0
            b == IF p \in spaces THEN 1 ELSE 0
            c == IF p \in mem.heap THEN 1 ELSE 0
            x == Cardinality(A)
            y == Cardinality(B)
            z == Cardinality(C)
            k == role[p][1]
<1>1. Uses(p) = a + b + c + x + y + z
  BY DEF Uses
<1>2. a \in {0, 1} /\ (a # 0 => k = "free")
  BY FreeRole
<1>3. b \in {0, 1} /\ (b # 0 => k = "root")
  BY DEF Good
<1>4. c \in {0, 1} /\ (c # 0 => k = "heap")
  BY DEF Good
<1>5. ASSUME NEW r \in spaces, mem.ram[r][0].kind = "table"
      PROVE  \E q \in Page : mem.ram[r][0] = ptab_pte(q) /\ mem.ram[r][0].p = q /\ role[q] = <<"l1", r, 0>>
  <2>1. Fits(mem.ram[r], role, r) /\ role[r][1] = "root"
    BY DEF Good
  <2>2. Points(mem.ram[r][0], role, "l1", r, 0)
    BY <2>1 DEF Fits
  <2>3. PICK q \in Page : mem.ram[r][0] = ptab_pte(q) /\ role[q] = <<"l1", r, 0>>
    <3>1. mem.ram[r][0] # null_pte
      BY <1>5, Words
    <3>. QED  BY <2>2, <3>1 DEF Points
  <2>4. ptab_pte(q).p = q
    BY Words, Sizes
  <2>. QED  BY <2>3, <2>4
<1>6. x \in {0, 1} /\ (x # 0 => k = "l1")
  <2>1. ASSUME NEW r \in A PROVE k = "l1" /\ r = role[p][2]
    <3>1. mem.ram[r][0].kind = "table" /\ mem.ram[r][0].p = p
      BY <2>1, Words, Sizes
    <3>2. role[p] = <<"l1", r, 0>>
      BY <1>5, <3>1
    <3>. QED  BY <3>2
  <2>2. \A r \in A : r = role[p][2]
    BY <2>1
  <2>3. x \in {0, 1} /\ (x # 0 => A # {})
    <3>. HIDE DEF A
    <3>. QED  BY <2>2, AtMostOne
  <2>. QED  BY <2>1, <2>3
<1>7. y \in {0, 1} /\ (y # 0 => k = "l0")
  <2>1. ASSUME NEW e \in B PROVE k = "l0" /\ e = <<role[p][2], role[p][3]>>
    <3>1. /\ e[1] \in level1 /\ e[2] \in Word /\ e = <<e[1], e[2]>>
          /\ mem.ram[e[1]][e[2]].kind = "table" /\ mem.ram[e[1]][e[2]].p = p
      OBVIOUS
    <3>2. PICK r \in spaces : mem.ram[r][0].kind = "table" /\ e[1] = mem.ram[r][0].p
      BY <3>1
    <3>3. e[1] \in Page /\ role[e[1]] = <<"l1", r, 0>>
      BY <1>5, <3>2
    <3>4. role[e[1]][1] = "l1" /\ e[1] \in Frame
      BY <3>3, Sizes
    <3>5. Points(mem.ram[e[1]][e[2]], role, "l0", e[1], e[2])
      BY <3>1, <3>4 DEF Good, Fits
    <3>6. role[p] = <<"l0", e[1], e[2]>>
      BY <3>1, <3>5, Words, Sizes DEF Points
    <3>7. k = "l0" /\ role[p][2] = e[1] /\ role[p][3] = e[2]
      BY <3>6
    <3>. QED  BY <3>1, <3>7
  <2>2. \A e \in B : e = <<role[p][2], role[p][3]>>
    BY <2>1
  <2>3. y \in {0, 1} /\ (y # 0 => B # {})
    <3>. HIDE DEF B
    <3>. QED  BY <2>2, AtMostOne
  <2>. HIDE DEF B
  <2>. QED  BY <2>1, <2>3
<1>8. z \in {0, 1} /\ (z # 0 => k = "user")
  <2>. DEFINE u == <<RootOf(role, p), PTE_CNT * role[role[p][2]][3] + role[p][3]>>
  <2>1. ASSUME NEW e \in C PROVE k = "user" /\ e = u
    <3>1. /\ e[1] \in spaces /\ e[2] \in Vpn /\ e = <<e[1], e[2]>>
          /\ lookup(mem, e[1], e[2]).kind = "leaf" /\ lookup(mem, e[1], e[2]).p = p
      OBVIOUS
    <3>2. /\ role[p][1] = "user" /\ e[1] = RootOf(role, p)
          /\ e[2] = PTE_CNT * role[role[p][2]][3] + role[p][3]
      BY <3>1, UserRole
    <3>. QED  BY <3>1, <3>2
  <2>. HIDE DEF C, u, k
  <2>2. \A e \in C : e = u
    BY <2>1
  <2>3. z \in {0, 1} /\ (z # 0 => C # {})
    BY <2>2, AtMostOne
  <2>. QED  BY <2>1, <2>3
<1>. HIDE DEF a, b, c, x, y, z, k
<1>. QED  BY <1>1, <1>2, <1>3, <1>4, <1>6, <1>7, <1>8

\* Over any page faults, forks, loads and heap growth, for a pool and tables of
\* any size, no page is at once free, a root, a table, mapped or the heap's, and
\* none is a table or mapped twice, until exec leaves freed pages mapped.
THEOREM PageSafety == Spec => []OneUsePerPage
<1>1. MInv => OneUsePerPage
  <2>1. ASSUME MInv, ~stale, NEW p \in Page PROVE Uses(p) <= 1
    BY <2>1, OneRole DEF MInv, Sound
  <2>. QED  BY <2>1 DEF OneUsePerPage
<1>. QED  BY <1>1, MemoryInvariance, PTL
=============================================================================

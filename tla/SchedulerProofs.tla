-------------------------- MODULE SchedulerProofs ---------------------------
(***************************************************************************)
(* What the proofs of the other modules share: the steps of Scheduler keep *)
(* its types, every set of naturals has a least element (the only form of  *)
(* induction the provers accept), and lists of threads.                    *)
(***************************************************************************)
EXTENDS Scheduler, WellFoundedInduction, TLAPS

\* The types that every client of Scheduler relies on.
SchedTypeOK ==
    /\ running \in Threads \cup {Nobody}
    /\ ready \in Seq(Threads)
    /\ waiting \in [Conditions -> Seq(Threads)]

\* A thread that blocks.
LEMMA BlockType ==
    ASSUME SchedTypeOK, NEW c \in Conditions, Block(c)
    PROVE  /\ SchedTypeOK'
           /\ waiting'[c] = Append(waiting[c], running)
           /\ \A d \in Conditions \ {c} : waiting'[d] = waiting[d]
BY DEF SchedTypeOK, Block

\* A broadcast.
LEMMA WakeType ==
    ASSUME SchedTypeOK, NEW c \in Conditions, Wake(c)
    PROVE  /\ SchedTypeOK'
           /\ waiting'[c] = << >>
           /\ \A d \in Conditions \ {c} : waiting'[d] = waiting[d]
<1>1. ready' \in Seq(Threads)
  BY DEF SchedTypeOK, Wake
<1>. QED  BY <1>1 DEF SchedTypeOK, Wake

\* A thread that yields.
LEMMA YieldType ==
    ASSUME SchedTypeOK, YieldHart
    PROVE  SchedTypeOK'
<1>1. running \in Threads
  BY DEF SchedTypeOK, YieldHart
<1>2. CASE running' = Nobody /\ ready' = Append(ready, running)
  BY <1>1, <1>2 DEF SchedTypeOK, YieldHart
<1>3. CASE ready # << >> /\ running' = Head(ready) /\ ready' = Append(Tail(ready), running)
  <2>1. Head(ready) \in Threads /\ Tail(ready) \in Seq(Threads)
    BY <1>3 DEF SchedTypeOK
  <2>. QED  BY <1>1, <1>3, <2>1 DEF SchedTypeOK, YieldHart
<1>. QED  BY <1>2, <1>3 DEF YieldHart

\* A thread that gets the hart.
LEMMA DispatchType ==
    ASSUME SchedTypeOK, Dispatch
    PROVE  SchedTypeOK'
<1>1. Head(ready) \in Threads /\ Tail(ready) \in Seq(Threads)
  BY DEF SchedTypeOK, Dispatch
<1>. QED  BY <1>1 DEF SchedTypeOK, Dispatch

-----------------------------------------------------------------------------
(* Induction *)

\* A set of naturals that is not empty has a least element.
LEMMA LeastNat ==
    ASSUME NEW T \in SUBSET Nat, T # {}
    PROVE  \E m \in T : \A k \in T : m <= k
<1>. DEFINE R == OpToRel(<, Nat)
<1>1. IsWellFoundedOn(R, Nat)
  BY NatLessThanWellFounded, Zenon
<1>2. \A x, y \in Nat : y < x => <<y, x>> \in R
  BY DEF OpToRel
<1>. HIDE DEF R
<1>3. PICK x \in T : \A y \in T : ~ (<<y, x>> \in R)
  BY <1>1, WFMin
<1>4. ASSUME NEW y \in T PROVE x <= y
  <2>1. x \in Nat /\ y \in Nat
    OBVIOUS
  <2>2. ~ (y < x)
    BY <1>2, <1>3, <2>1
  <2>. QED  BY <2>1, <2>2
<1>. QED  BY <1>4

\* Induction on the naturals for a set instead of a predicate.
LEMMA NatSetInduction ==
    ASSUME NEW T, 0 \in T, \A n \in Nat : n \in T => n + 1 \in T
    PROVE  Nat \subseteq T
<1>. SUFFICES ASSUME Nat \ T # {} PROVE FALSE
  OBVIOUS
<1>1. PICK m \in Nat \ T : \A k \in Nat \ T : m <= k
  BY LeastNat
<1>2. m # 0 /\ m - 1 \in Nat
  BY <1>1
<1>3. m - 1 \in T
  BY <1>1, <1>2
<1>. QED  BY <1>2, <1>3

\* The remainder in terms of the quotient.
LEMMA Remainder ==
    ASSUME NEW x \in Int, NEW m \in Nat \ {0}
    PROVE  x % m = x - m * (x \div m) /\ x % m \in 0 .. m - 1 /\ x \div m \in Int
<1>1. x % m = x - m * (x \div m)
  OBVIOUS
<1>2. x % m \in 0 .. m - 1
  OBVIOUS
<1>3. x \div m \in Int
  OBVIOUS
<1>. QED  BY <1>1, <1>2, <1>3

LEMMA RemainderOf ==
    ASSUME NEW m \in Nat \ {0}, NEW q \in Int, NEW r \in 0 .. m - 1
    PROVE  (m * q + r) % m = r
OBVIOUS

-----------------------------------------------------------------------------
(* Lists without repetition *)

Distinct(s) == \A i, j \in 1 .. Len(s) : s[i] = s[j] => i = j

On(x, s) == \E i \in 1 .. Len(s) : s[i] = x

\* The list grows at its end.
LEMMA AppendList ==
    ASSUME NEW S, NEW s \in Seq(S), NEW x \in S
    PROVE  /\ Append(s, x) \in Seq(S)
           /\ \A y : On(y, Append(s, x)) <=> On(y, s) \/ y = x
           /\ Distinct(s) /\ ~On(x, s) => Distinct(Append(s, x))
<1>1. /\ Append(s, x) \in Seq(S) /\ Len(Append(s, x)) = Len(s) + 1
      /\ Append(s, x)[Len(s) + 1] = x
      /\ \A i \in 1 .. Len(s) : Append(s, x)[i] = s[i]
  OBVIOUS
<1>2. Len(s) \in Nat
  OBVIOUS
<1>. DEFINE r == Append(s, x)
<1>. HIDE DEF r
<1>3. ASSUME NEW y PROVE On(y, r) <=> On(y, s) \/ y = x
  <2>1. ASSUME On(y, r) PROVE On(y, s) \/ y = x
    <3>1. PICK i \in 1 .. Len(s) + 1 : r[i] = y
      BY <1>1, <2>1 DEF On, r
    <3>. QED  BY <1>1, <1>2, <3>1 DEF On, r
  <2>2. ASSUME On(y, s) PROVE On(y, r)
    BY <1>1, <1>2, <2>2 DEF On, r
  <2>3. ASSUME y = x PROVE On(y, r)
    <3>1. Len(s) + 1 \in 1 .. Len(r)
      BY <1>1, <1>2 DEF r
    <3>. QED  BY <1>1, <2>3, <3>1 DEF On, r
  <2>. QED  BY <2>1, <2>2, <2>3
<1>4. ASSUME Distinct(s), ~On(x, s) PROVE Distinct(r)
  <2>. SUFFICES ASSUME NEW i \in 1 .. Len(s) + 1, NEW j \in 1 .. Len(s) + 1, r[i] = r[j]
                PROVE  i = j
    BY <1>1 DEF Distinct, r
  <2>1. CASE i \in 1 .. Len(s) /\ j \in 1 .. Len(s)
    BY <1>1, <1>4, <2>1 DEF Distinct, r
  <2>2. CASE i = Len(s) + 1 /\ j \in 1 .. Len(s)
    BY <1>1, <1>4, <2>2 DEF On, r
  <2>3. CASE i \in 1 .. Len(s) /\ j = Len(s) + 1
    BY <1>1, <1>4, <2>3 DEF On, r
  <2>4. CASE i = Len(s) + 1 /\ j = Len(s) + 1
    BY <2>4
  <2>. QED  BY <1>2, <2>1, <2>2, <2>3, <2>4
<1>. QED  BY <1>1, <1>3, <1>4 DEF r

\* The list loses its first element.
LEMMA TailList ==
    ASSUME NEW S, NEW s \in Seq(S), s # << >>
    PROVE  /\ Head(s) \in S /\ Tail(s) \in Seq(S) /\ On(Head(s), s)
           /\ \A y : On(y, s) <=> On(y, Tail(s)) \/ y = Head(s)
           /\ Distinct(s) => Distinct(Tail(s)) /\ ~On(Head(s), Tail(s))
<1>1. /\ Head(s) \in S /\ Tail(s) \in Seq(S) /\ Head(s) = s[1]
      /\ Len(Tail(s)) = Len(s) - 1 /\ Len(s) \in Nat \ {0}
      /\ \A i \in 1 .. Len(s) - 1 : Tail(s)[i] = s[i + 1]
  OBVIOUS
<1>. DEFINE r == Tail(s)
<1>. HIDE DEF r
<1>2. On(Head(s), s)
  BY <1>1 DEF On
<1>3. ASSUME NEW y PROVE On(y, s) <=> On(y, r) \/ y = Head(s)
  <2>1. ASSUME On(y, s), y # Head(s) PROVE On(y, r)
    <3>1. PICK i \in 1 .. Len(s) : s[i] = y
      BY <2>1 DEF On
    <3>2. i - 1 \in 1 .. Len(s) - 1 /\ (i - 1) + 1 = i
      BY <1>1, <2>1, <3>1
    <3>3. r[i - 1] = s[i]
      BY <1>1, <3>2 DEF r
    <3>. QED  BY <1>1, <3>1, <3>2, <3>3 DEF On, r
  <2>2. ASSUME On(y, r) PROVE On(y, s)
    <3>1. PICK i \in 1 .. Len(s) - 1 : r[i] = y
      BY <1>1, <2>2 DEF On, r
    <3>2. i + 1 \in 1 .. Len(s) /\ s[i + 1] = y
      BY <1>1, <3>1 DEF r
    <3>. QED  BY <3>2 DEF On
  <2>. QED  BY <1>2, <2>1, <2>2
<1>4. ASSUME Distinct(s) PROVE Distinct(r) /\ ~On(Head(s), r)
  <2>1. \A i \in 1 .. Len(s) - 1 : i + 1 \in 1 .. Len(s) /\ i + 1 # 1 /\ r[i] = s[i + 1]
    BY <1>1 DEF r
  <2>2. ASSUME NEW i \in 1 .. Len(s) - 1, NEW j \in 1 .. Len(s) - 1, r[i] = r[j]
        PROVE  i = j
    <3>1. i + 1 = j + 1
      BY <1>4, <2>1, <2>2 DEF Distinct
    <3>. QED  BY <3>1
  <2>3. 1 \in 1 .. Len(s)
    BY <1>1
  <2>4. ~On(Head(s), r)
    BY <1>1, <1>4, <2>1, <2>3 DEF On, Distinct, r
  <2>. QED  BY <1>1, <2>2, <2>4 DEF Distinct, r
<1>. QED  BY <1>1, <1>2, <1>3, <1>4 DEF r

\* A list is put behind another one.
LEMMA ConcatList ==
    ASSUME NEW S, NEW s \in Seq(S), NEW u \in Seq(S)
    PROVE  /\ s \o u \in Seq(S)
           /\ \A y : On(y, s \o u) <=> On(y, s) \/ On(y, u)
           /\ Distinct(s) /\ Distinct(u) /\ (\A y \in S : ~(On(y, s) /\ On(y, u)))
                => Distinct(s \o u)
<1>1. /\ s \o u \in Seq(S) /\ Len(s \o u) = Len(s) + Len(u)
      /\ \A i \in 1 .. Len(s) : (s \o u)[i] = s[i]
      /\ \A i \in 1 .. Len(u) : (s \o u)[Len(s) + i] = u[i]
      /\ Len(s) \in Nat /\ Len(u) \in Nat
  OBVIOUS
<1>. DEFINE r == s \o u
<1>. HIDE DEF r
<1>2. ASSUME NEW i \in 1 .. Len(r)
      PROVE  \/ i \in 1 .. Len(s) /\ r[i] = s[i]
             \/ /\ i - Len(s) \in 1 .. Len(u) /\ Len(s) + (i - Len(s)) = i
                /\ r[i] = u[i - Len(s)]
  <2>1. CASE i <= Len(s)
    BY <1>1, <2>1 DEF r
  <2>2. CASE ~(i <= Len(s))
    <3>1. i - Len(s) \in 1 .. Len(u) /\ Len(s) + (i - Len(s)) = i
      BY <1>1, <2>2 DEF r
    <3>2. r[Len(s) + (i - Len(s))] = u[i - Len(s)]
      BY <1>1, <3>1 DEF r
    <3>. QED  BY <3>1, <3>2
  <2>. QED  BY <2>1, <2>2
<1>3. ASSUME NEW y PROVE On(y, r) <=> On(y, s) \/ On(y, u)
  <2>1. ASSUME On(y, r) PROVE On(y, s) \/ On(y, u)
    BY <1>2, <2>1 DEF On
  <2>2. ASSUME On(y, s) PROVE On(y, r)
    BY <1>1, <2>2 DEF On, r
  <2>3. ASSUME On(y, u) PROVE On(y, r)
    <3>1. PICK i \in 1 .. Len(u) : u[i] = y
      BY <2>3 DEF On
    <3>2. Len(s) + i \in 1 .. Len(r) /\ r[Len(s) + i] = y
      BY <1>1, <3>1 DEF r
    <3>. QED  BY <3>2 DEF On
  <2>. QED  BY <2>1, <2>2, <2>3
<1>4. ASSUME Distinct(s), Distinct(u), \A y \in S : ~(On(y, s) /\ On(y, u))
      PROVE  Distinct(r)
  <2>. SUFFICES ASSUME NEW i \in 1 .. Len(r), NEW j \in 1 .. Len(r), r[i] = r[j]
                PROVE  i = j
    BY DEF Distinct
  <2>1. \A k \in 1 .. Len(s), l \in 1 .. Len(u) : s[k] # u[l]
    BY <1>4 DEF On
  <2>2. CASE i \in 1 .. Len(s) /\ r[i] = s[i]
    <3>1. j \in 1 .. Len(s) /\ r[j] = s[j]
      BY <1>2, <2>1, <2>2
    <3>. QED  BY <1>4, <2>2, <3>1 DEF Distinct
  <2>3. CASE /\ i - Len(s) \in 1 .. Len(u) /\ Len(s) + (i - Len(s)) = i
             /\ r[i] = u[i - Len(s)]
    <3>1. CASE j \in 1 .. Len(s) /\ r[j] = s[j]
      BY <2>1, <2>3, <3>1
    <3>2. CASE /\ j - Len(s) \in 1 .. Len(u) /\ Len(s) + (j - Len(s)) = j
               /\ r[j] = u[j - Len(s)]
      <4>1. i - Len(s) = j - Len(s)
        BY <1>4, <2>3, <3>2 DEF Distinct
      <4>. QED  BY <1>1, <4>1, <2>3, <3>2
    <3>. QED  BY <1>2, <3>1, <3>2
  <2>. QED  BY <1>2, <2>2, <2>3
<1>. QED  BY <1>1, <1>3, <1>4 DEF r

\* x is inserted before position p, and the first k elements are cut off.
Inserted(s, p, x) == SubSeq(s, 1, p - 1) \o <<x>> \o SubSeq(s, p, Len(s))
FirstOf(s, k) == SubSeq(s, 1, k)
RestOf(s, k) == SubSeq(s, k + 1, Len(s))

\* The list with x inserted, element by element.
IsInserted(r, s, p, x) ==
    /\ Len(r) = Len(s) + 1
    /\ \A i \in 1 .. Len(s) + 1 : r[i] = IF i < p THEN s[i] ELSE IF i = p THEN x ELSE s[i - 1]

LEMMA InsertElements ==
    ASSUME NEW S, NEW s \in Seq(S), NEW x \in S, NEW p \in 1 .. Len(s) + 1
    PROVE  Inserted(s, p, x) \in Seq(S) /\ IsInserted(Inserted(s, p, x), s, p, x)
<1>. DEFINE r == Inserted(s, p, x)
            a == SubSeq(s, 1, p - 1)
            b == SubSeq(s, p, Len(s))
            m == a \o <<x>>
<1>1. Len(s) \in Nat /\ p \in Nat \ {0}
  OBVIOUS
<1>2. a \in Seq(S) /\ Len(a) = p - 1 /\ \A i \in 1 .. p - 1 : a[i] = s[i]
  OBVIOUS
<1>3. b \in Seq(S) /\ Len(b) = Len(s) - p + 1
  OBVIOUS
<1>4. \A i \in 1 .. Len(s) - p + 1 : b[i] = s[p + i - 1]
  OBVIOUS
<1>. HIDE DEF a, b
<1>5. m \in Seq(S) /\ Len(m) = p /\ m[p] = x /\ \A i \in 1 .. p - 1 : m[i] = s[i]
  BY <1>1, <1>2
<1>6. r = m \o b
  BY DEF a, b, Inserted
<1>. HIDE DEF m, r
<1>7. /\ r \in Seq(S) /\ Len(r) = p + Len(b)
      /\ \A i \in 1 .. p : r[i] = m[i]
      /\ \A i \in 1 .. Len(b) : r[p + i] = b[i]
  <2>1. ASSUME NEW u \in Seq(S), NEW v \in Seq(S)
        PROVE  /\ u \o v \in Seq(S) /\ Len(u \o v) = Len(u) + Len(v)
               /\ \A i \in 1 .. Len(u) : (u \o v)[i] = u[i]
               /\ \A i \in 1 .. Len(v) : (u \o v)[Len(u) + i] = v[i]
    OBVIOUS
  <2>. QED  BY <1>3, <1>5, <1>6, <2>1
<1>8. ASSUME NEW i \in 1 .. Len(s) + 1
      PROVE  r[i] = IF i < p THEN s[i] ELSE IF i = p THEN x ELSE s[i - 1]
  <2>1. CASE i <= p
    BY <1>1, <1>5, <1>7, <2>1
  <2>2. CASE i > p
    <3>1. /\ i - p \in 1 .. Len(b) /\ i - p \in 1 .. Len(s) - p + 1
          /\ p + (i - p) = i /\ p + (i - p) - 1 = i - 1
      BY <1>1, <1>3, <2>2
    <3>2. r[i] = b[i - p] /\ b[i - p] = s[i - 1]
      BY <1>4, <1>7, <3>1
    <3>. QED  BY <2>2, <3>2
  <2>. QED  BY <1>1, <2>1, <2>2
<1>9. Len(r) = Len(s) + 1
  BY <1>1, <1>3, <1>7
<1>10. r \in Seq(S) /\ IsInserted(r, s, p, x)
  BY <1>7, <1>8, <1>9 DEF IsInserted
<1>. QED  BY <1>10 DEF r

LEMMA InsertList ==
    ASSUME NEW S, NEW s \in Seq(S), NEW x \in S, NEW p \in 1 .. Len(s) + 1
    PROVE  /\ \A y : On(y, Inserted(s, p, x)) <=> On(y, s) \/ y = x
           /\ Distinct(s) /\ ~On(x, s) => Distinct(Inserted(s, p, x))
<1>. DEFINE r == Inserted(s, p, x)
<1>0. r \in Seq(S) /\ IsInserted(r, s, p, x)
  BY InsertElements
<1>. HIDE DEF r
<1>1. r \in Seq(S) /\ Len(r) = Len(s) + 1 /\ Len(s) \in Nat
  BY <1>0 DEF IsInserted
<1>2. ASSUME NEW i \in 1 .. Len(s) + 1
      PROVE  r[i] = IF i < p THEN s[i] ELSE IF i = p THEN x ELSE s[i - 1]
  BY <1>0 DEF IsInserted
<1>3. ASSUME NEW y PROVE On(y, r) <=> On(y, s) \/ y = x
  <2>1. ASSUME On(y, r) PROVE On(y, s) \/ y = x
    <3>1. PICK i \in 1 .. Len(s) + 1 : r[i] = y
      BY <1>1, <2>1 DEF On
    <3>2. CASE i < p
      <4>1. i \in 1 .. Len(s) /\ s[i] = y
        BY <1>1, <1>2, <3>1, <3>2
      <4>. QED  BY <4>1 DEF On
    <3>3. CASE i = p
      BY <1>2, <3>1, <3>3
    <3>4. CASE i > p
      <4>1. i - 1 \in 1 .. Len(s) /\ s[i - 1] = y
        BY <1>1, <1>2, <3>1, <3>4
      <4>. QED  BY <4>1 DEF On
    <3>. QED  BY <1>1, <3>2, <3>3, <3>4
  <2>2. ASSUME On(y, s) PROVE On(y, r)
    <3>1. PICK i \in 1 .. Len(s) : s[i] = y
      BY <2>2 DEF On
    <3>2. CASE i < p
      <4>1. i \in 1 .. Len(r) /\ r[i] = y
        BY <1>1, <1>2, <3>1, <3>2
      <4>. QED  BY <4>1 DEF On
    <3>3. CASE i >= p
      <4>1. i + 1 \in 1 .. Len(s) + 1 /\ ~(i + 1 < p) /\ i + 1 # p /\ (i + 1) - 1 = i
        BY <1>1, <3>3
      <4>2. r[i + 1] = y
        BY <1>2, <3>1, <4>1
      <4>. QED  BY <1>1, <4>1, <4>2 DEF On
    <3>. QED  BY <1>1, <3>2, <3>3
  <2>3. ASSUME y = x PROVE On(y, r)
    BY <1>1, <1>2, <2>3 DEF On
  <2>. QED  BY <2>1, <2>2, <2>3
<1>4. ASSUME Distinct(s), ~On(x, s) PROVE Distinct(r)
  <2>. SUFFICES ASSUME NEW i \in 1 .. Len(s) + 1, NEW j \in 1 .. Len(s) + 1, r[i] = r[j], i < j
                PROVE  FALSE
    BY <1>1 DEF Distinct
  <2>1. \A k \in 1 .. Len(s) : s[k] # x
    BY <1>4 DEF On
  <2>2. CASE j < p
    <3>1. i \in 1 .. Len(s) /\ j \in 1 .. Len(s) /\ r[i] = s[i] /\ r[j] = s[j] /\ i # j
      BY <1>1, <1>2, <2>2
    <3>. QED  BY <1>4, <3>1 DEF Distinct
  <2>3. CASE j = p
    <3>1. i \in 1 .. Len(s) /\ r[i] = s[i] /\ r[j] = x
      BY <1>1, <1>2, <2>3
    <3>. QED  BY <2>1, <3>1
  <2>4. CASE j > p
    <3>1. j - 1 \in 1 .. Len(s) /\ r[j] = s[j - 1]
      BY <1>1, <1>2, <2>4
    <3>2. CASE i < p
      <4>1. i \in 1 .. Len(s) /\ r[i] = s[i] /\ i # j - 1
        BY <1>1, <1>2, <3>2, <2>4
      <4>. QED  BY <1>4, <3>1, <4>1 DEF Distinct
    <3>3. CASE i = p
      BY <1>2, <2>1, <3>1, <3>3
    <3>4. CASE i > p
      <4>1. i - 1 \in 1 .. Len(s) /\ r[i] = s[i - 1] /\ i - 1 # j - 1
        <5>1. i - 1 \in 1 .. Len(s) /\ i - 1 # j - 1 /\ ~(i < p) /\ i # p
          BY <1>1, <3>4
        <5>. QED  BY <1>2, <5>1
      <4>. QED  BY <1>4, <3>1, <4>1 DEF Distinct
    <3>. QED  BY <1>1, <3>2, <3>3, <3>4
  <2>. QED  BY <1>1, <2>2, <2>3, <2>4
<1>. QED  BY <1>3, <1>4 DEF r

\* The list is cut in two.
LEMMA CutList ==
    ASSUME NEW S, NEW s \in Seq(S), NEW k \in 0 .. Len(s)
    PROVE  /\ FirstOf(s, k) \in Seq(S) /\ Len(FirstOf(s, k)) = k
           /\ \A i \in 1 .. k : FirstOf(s, k)[i] = s[i]
           /\ RestOf(s, k) \in Seq(S) /\ Len(RestOf(s, k)) = Len(s) - k
           /\ \A i \in 1 .. Len(s) - k : RestOf(s, k)[i] = s[k + i]
           /\ \A y : On(y, s) <=> On(y, FirstOf(s, k)) \/ On(y, RestOf(s, k))
           /\ Distinct(s) => /\ Distinct(FirstOf(s, k)) /\ Distinct(RestOf(s, k))
                             /\ \A y : ~(On(y, FirstOf(s, k)) /\ On(y, RestOf(s, k)))
<1>. DEFINE a == FirstOf(s, k)
            b == RestOf(s, k)
<1>1. /\ a \in Seq(S) /\ Len(a) = k /\ (\A i \in 1 .. k : a[i] = s[i])
      /\ Len(s) \in Nat /\ k \in Nat
  BY DEF FirstOf
<1>2. b \in Seq(S) /\ Len(b) = Len(s) - k
  BY DEF RestOf
<1>3. \A i \in 1 .. Len(s) - k : b[i] = s[k + i]
  BY DEF RestOf
<1>. HIDE DEF a, b
<1>4. ASSUME NEW y PROVE On(y, s) <=> On(y, a) \/ On(y, b)
  <2>1. ASSUME On(y, s) PROVE On(y, a) \/ On(y, b)
    <3>1. PICK i \in 1 .. Len(s) : s[i] = y
      BY <2>1 DEF On
    <3>2. CASE i <= k
      BY <1>1, <3>1, <3>2 DEF On
    <3>3. CASE i > k
      <4>1. i - k \in 1 .. Len(s) - k /\ k + (i - k) = i
        BY <1>1, <3>3
      <4>2. b[i - k] = y
        BY <1>3, <3>1, <4>1
      <4>. QED  BY <1>2, <4>1, <4>2 DEF On
    <3>. QED  BY <1>1, <3>2, <3>3
  <2>2. ASSUME On(y, a) PROVE On(y, s)
    BY <1>1, <2>2 DEF On
  <2>3. ASSUME On(y, b) PROVE On(y, s)
    <3>1. PICK i \in 1 .. Len(s) - k : b[i] = y
      BY <1>2, <2>3 DEF On
    <3>2. k + i \in 1 .. Len(s) /\ s[k + i] = y
      BY <1>1, <1>3, <3>1
    <3>. QED  BY <3>2 DEF On
  <2>. QED  BY <2>1, <2>2, <2>3
<1>5. ASSUME Distinct(s)
      PROVE  Distinct(a) /\ Distinct(b) /\ \A y : ~(On(y, a) /\ On(y, b))
  <2>1. Distinct(a)
    BY <1>1, <1>5 DEF Distinct
  <2>2. ASSUME NEW i \in 1 .. Len(s) - k, NEW j \in 1 .. Len(s) - k, b[i] = b[j]
        PROVE  i = j
    <3>1. k + i \in 1 .. Len(s) /\ k + j \in 1 .. Len(s) /\ s[k + i] = s[k + j]
      BY <1>1, <1>3, <2>2
    <3>2. k + i = k + j
      BY <1>5, <3>1 DEF Distinct
    <3>. QED  BY <1>1, <3>2
  <2>3. ASSUME NEW y, On(y, a), On(y, b) PROVE FALSE
    <3>1. PICK i \in 1 .. k : s[i] = y
      BY <1>1, <2>3 DEF On
    <3>2. PICK j \in 1 .. Len(s) - k : b[j] = y
      BY <1>2, <2>3 DEF On
    <3>3. /\ i \in 1 .. Len(s) /\ k + j \in 1 .. Len(s) /\ i # k + j
          /\ s[k + j] = y
      BY <1>1, <1>3, <3>1, <3>2
    <3>. QED  BY <1>5, <3>1, <3>3 DEF Distinct
  <2>. QED  BY <1>2, <2>1, <2>2, <2>3 DEF Distinct
<1>. QED  BY <1>1, <1>2, <1>3, <1>4, <1>5 DEF a, b
=============================================================================

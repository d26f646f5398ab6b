---------------------------- MODULE IoTermProofs ----------------------------
(***************************************************************************)
(* Proofs about IoTerm, for any characters, buffers, literal and lengths:  *)
(* line endings are normalised in both directions however the streams are  *)
(* cut, and the screen shows the line that is being edited.                *)
(***************************************************************************)
EXTENDS IoTerm, SequenceTheorems, WellFoundedInduction, TLAPS

-----------------------------------------------------------------------------
(* Naturals *)

\* The naturals are well ordered.
LEMMA LeastNat ==
    ASSUME NEW T \in SUBSET Nat, T # {}
    PROVE  Min(T) \in T /\ \A y \in T : Min(T) <= y
<1>. DEFINE R == OpToRel(<, Nat)
<1>1. IsWellFoundedOn(R, Nat)
  BY NatLessThanWellFounded, Zenon
<1>2. \A x, y \in Nat : y < x => <<y, x>> \in R
  BY DEF OpToRel
<1>. HIDE DEF R
<1>3. PICK x \in T : \A y \in T : ~ (<<y, x>> \in R)
  BY <1>1, WFMin
<1>4. ASSUME NEW y \in T PROVE x <= y
  <2>1. x \in Nat /\ y \in Nat
    OBVIOUS
  <2>2. ~ (y < x)
    BY <1>2, <1>3, <2>1
  <2>. QED  BY <2>1, <2>2
<1>. QED  BY <1>4 DEF Min

\* Induction, for a set of numbers.
LEMMA NatSetInduction ==
    ASSUME NEW T, 0 \in T, \A n \in Nat : n \in T => n + 1 \in T
    PROVE  Nat \subseteq T
<1>. SUFFICES ASSUME Nat \ T # {} PROVE FALSE
  OBVIOUS
<1>. DEFINE R == OpToRel(<, Nat)
<1>1. IsWellFoundedOn(R, Nat)
  BY NatLessThanWellFounded, Zenon
<1>2. \A x, y \in Nat : y < x => <<y, x>> \in R
  BY DEF OpToRel
<1>. HIDE DEF R
<1>3. PICK m \in Nat \ T : \A y \in Nat \ T : ~ (<<y, m>> \in R)
  BY <1>1, WFMin
<1>4. m # 0 /\ m - 1 \in Nat /\ m - 1 < m /\ (m - 1) + 1 = m
  BY <1>3
<1>5. m - 1 \in T
  BY <1>2, <1>3, <1>4
<1>. QED  BY <1>3, <1>4, <1>5

\* A nonempty set of bounded numbers has a largest one.
LEMMA MaxIn ==
    ASSUME NEW n \in Nat, NEW t \in SUBSET (1 .. n), t # {}
    PROVE  Max(t) \in t /\ \A y \in t : Max(t) >= y
<1>. DEFINE T == {n - y : y \in t}
<1>1. T \in SUBSET Nat /\ T # {}
  <2>1. \A y \in t : y \in Int /\ n - y \in Nat
    OBVIOUS
  <2>. QED  BY <2>1
<1>. HIDE DEF T
<1>2. Min(T) \in T /\ \A z \in T : Min(T) <= z
  BY <1>1, LeastNat
<1>3. PICK x \in t : Min(T) = n - x
  BY <1>2 DEF T
<1>4. ASSUME NEW y \in t PROVE x >= y
  <2>1. n - y \in T
    BY DEF T
  <2>2. n - x <= n - y
    BY <1>2, <1>3, <2>1
  <2>. QED  BY <2>2
<1>. QED  BY <1>4 DEF Max

-----------------------------------------------------------------------------
(* Loops.  FoldLeft is a function on the sets of indices that it has still  *)
(* to visit.  If every step stays in U, then such a function exists.        *)

IsFold(n, b, h, g) ==
    \A t \in SUBSET (1 .. n) : g[t] = IF t = {} THEN b ELSE h[Max(t)][g[t \ {Max(t)}]]

LEMMA FoldExists ==
    ASSUME NEW n \in Nat, NEW U, NEW b \in U, NEW h \in [1 .. n -> [U -> U]]
    PROVE  \E g \in [SUBSET (1 .. n) -> U] : IsFold(n, b, h, g)
<1>. DEFINE Upto(k) == \E g \in [SUBSET (1 .. k) -> U] : \A t \in SUBSET (1 .. k) :
                        g[t] = IF t = {} THEN b ELSE h[Max(t)][g[t \ {Max(t)}]]
            T == {k \in Nat : k <= n => Upto(k)}
<1>1. 0 \in T
  <2>1. 1 .. 0 = {}
    OBVIOUS
  <2>2. SUBSET (1 .. 0) = {{}}
    BY <2>1
  <2>. DEFINE g == [t \in SUBSET (1 .. 0) |-> b]
  <2>3. g \in [SUBSET (1 .. 0) -> U]
    OBVIOUS
  <2>4. \A t \in SUBSET (1 .. 0) : g[t] = IF t = {} THEN b ELSE h[Max(t)][g[t \ {Max(t)}]]
    BY <2>2
  <2>. QED  BY <2>3, <2>4
<1>2. ASSUME NEW k \in Nat, k \in T PROVE k + 1 \in T
  <2>. HIDE DEF Upto
  <2>. SUFFICES ASSUME k + 1 <= n PROVE Upto(k + 1)
    OBVIOUS
  <2>0. Upto(k)
    BY <1>2
  <2>. USE DEF Upto
  <2>1. PICK g \in [SUBSET (1 .. k) -> U] : \A t \in SUBSET (1 .. k) :
          g[t] = IF t = {} THEN b ELSE h[Max(t)][g[t \ {Max(t)}]]
    BY <2>0
  <2>. DEFINE e == [t \in SUBSET (1 .. k + 1) |->
                      IF k + 1 \in t THEN h[k + 1][g[t \ {k + 1}]] ELSE g[t]]
  <2>2. ASSUME NEW t \in SUBSET (1 .. k + 1), k + 1 \in t
        PROVE  /\ Max(t) = k + 1 /\ t \ {k + 1} \in SUBSET (1 .. k)
               /\ e[t] \in U /\ t # {}
               /\ e[t] = h[Max(t)][e[t \ {Max(t)}]]
    <3>1. Max(t) \in t /\ Max(t) >= k + 1
      <4>1. k + 1 \in Nat /\ t # {}
        BY <2>2
      <4>2. Max(t) \in t /\ \A y \in t : Max(t) >= y
        BY <4>1, MaxIn
      <4>. QED  BY <2>2, <4>2
    <3>2. Max(t) = k + 1
      <4>1. Max(t) \in 1 .. k + 1
        BY <3>1
      <4>. QED  BY <3>1, <4>1
    <3>3. t \ {k + 1} \in SUBSET (1 .. k)
      BY <2>2
    <3>4. t \ {k + 1} \in SUBSET (1 .. k + 1) /\ k + 1 \notin t \ {k + 1}
      OBVIOUS
    <3>5. e[t \ {k + 1}] = g[t \ {k + 1}] /\ e[t] = h[k + 1][g[t \ {k + 1}]]
      BY <2>2, <3>4
    <3>6. k + 1 \in 1 .. n
      OBVIOUS
    <3>. HIDE DEF e
    <3>7. g[t \ {k + 1}] \in U
      BY <3>3
    <3>8. h[k + 1][g[t \ {k + 1}]] \in U
      BY <3>6, <3>7
    <3>. QED  BY <2>2, <3>2, <3>3, <3>5, <3>8
  <2>3. ASSUME NEW t \in SUBSET (1 .. k + 1), k + 1 \notin t
        PROVE  /\ t \in SUBSET (1 .. k) /\ e[t] = g[t] /\ e[t] \in U
               /\ t # {} => e[t \ {Max(t)}] = g[t \ {Max(t)}]
    <3>1. t \in SUBSET (1 .. k) /\ e[t] = g[t]
      BY <2>3
    <3>2. ASSUME NEW x PROVE e[t \ {x}] = g[t \ {x}]
      <4>1. t \ {x} \in SUBSET (1 .. k + 1) /\ k + 1 \notin t \ {x}
        BY <2>3
      <4>. QED  BY <4>1
    <3>. HIDE DEF e
    <3>. QED  BY <3>1, <3>2
  <2>4. e \in [SUBSET (1 .. k + 1) -> U]
    <3>1. \A t \in SUBSET (1 .. k + 1) : e[t] \in U
      BY <2>2, <2>3
    <3>2. e = [t \in SUBSET (1 .. k + 1) |-> e[t]]
      OBVIOUS
    <3>. HIDE DEF e
    <3>. QED  BY <3>1, <3>2
  <2>5. ASSUME NEW t \in SUBSET (1 .. k + 1)
        PROVE  e[t] = IF t = {} THEN b ELSE h[Max(t)][e[t \ {Max(t)}]]
    <3>. HIDE DEF e
    <3>. QED  BY <2>1, <2>2, <2>3
  <2>. HIDE DEF e
  <2>. QED  BY <2>4, <2>5
<1>. HIDE DEF T
<1>3. n \in T
  BY <1>1, <1>2, NatSetInduction
<1>. HIDE DEF Upto
<1>4. Upto(n)
  BY <1>3 DEF T
<1>. QED  BY <1>4 DEF Upto, IsFold

\* The sets of indices that a loop goes through.
LEMMA Segments ==
    ASSUME NEW n \in Nat
    PROVE  /\ {} \in SUBSET (1 .. n) /\ 1 .. 0 = {}
           /\ \A k \in 1 .. n :
                /\ 1 .. k \in SUBSET (1 .. n) /\ 1 .. k # {}
                /\ Max(1 .. k) = k /\ (1 .. k) \ {k} = 1 .. k - 1
<1>. SUFFICES ASSUME NEW k \in 1 .. n
             PROVE  /\ 1 .. k \in SUBSET (1 .. n) /\ 1 .. k # {}
                    /\ Max(1 .. k) = k /\ (1 .. k) \ {k} = 1 .. k - 1
  OBVIOUS
<1>1. 1 .. k \in SUBSET (1 .. n) /\ k \in 1 .. k
  OBVIOUS
<1>2. Max(1 .. k) \in 1 .. k /\ Max(1 .. k) >= k
  BY <1>1, MaxIn
<1>. QED  BY <1>1, <1>2

\* What such a function holds for the first indices: the states of the loop.
Follows(n, U, b, h, f) ==
    /\ f[1 .. 0] = b
    /\ \A k \in 1 .. n : f[1 .. k - 1] \in U => f[1 .. k] = h[k][f[1 .. k - 1]]

Run(n, b, h, c) == c[0] = b /\ \A k \in 1 .. n : c[k] = h[k][c[k - 1]]

LEMMA FoldRun ==
    ASSUME NEW n \in Nat, NEW U, NEW b \in U, NEW h \in [1 .. n -> [U -> U]], NEW f,
           Follows(n, U, b, h, f)
    PROVE  \E c \in [0 .. n -> U] : Run(n, b, h, c) /\ f[1 .. n] = c[n]
<1>. DEFINE c == [k \in 0 .. n |-> f[1 .. k]]
            T == {k \in Nat : k <= n => f[1 .. k] \in U}
<1>1. 0 \in T
  BY DEF Follows
<1>2. ASSUME NEW k \in Nat, k \in T PROVE k + 1 \in T
  <2>. SUFFICES ASSUME k + 1 <= n PROVE f[1 .. k + 1] \in U
    OBVIOUS
  <2>1. f[1 .. k] \in U /\ k + 1 \in 1 .. n /\ (k + 1) - 1 = k
    BY <1>2
  <2>2. f[1 .. k + 1] = h[k + 1][f[1 .. k]]
    BY <2>1 DEF Follows
  <2>. QED  BY <2>1, <2>2
<1>. HIDE DEF T
<1>3. Nat \subseteq T
  BY <1>1, <1>2, NatSetInduction
<1>4. \A k \in 0 .. n : f[1 .. k] \in U
  BY <1>3 DEF T
<1>5. c \in [0 .. n -> U] /\ c[0] = b /\ f[1 .. n] = c[n]
  BY <1>4 DEF Follows
<1>6. ASSUME NEW k \in 1 .. n PROVE c[k] = h[k][c[k - 1]]
  <2>1. k \in 0 .. n /\ k - 1 \in 0 .. n
    OBVIOUS
  <2>2. f[1 .. k] = h[k][f[1 .. k - 1]]
    BY <1>4, <2>1 DEF Follows
  <2>. QED  BY <2>1, <2>2
<1>. HIDE DEF c
<1>7. Run(n, b, h, c)
  BY <1>5, <1>6 DEF Run
<1>. QED  BY <1>5, <1>7

-----------------------------------------------------------------------------
(* The screen *)

Glyph == Keys \cup {BEL, BLANK}
Screen == {r \in [cells : Seq(Glyph), cur : Int] : r.cur <= Len(r.cells)}
Empty == [cells |-> << >>, cur |-> 0]
Shown(e) == FoldLeft(show, Empty, e)

\* What a terminal does with one more byte.
LEMMA ShowFacts ==
    ASSUME NEW x \in Screen, NEW g \in Glyph
    PROVE  /\ show(x, g) \in Screen
           /\ g = BS => show(x, g).cells = x.cells /\ show(x, g).cur = x.cur - 1
           /\ g = BEL => show(x, g) = x
           /\ g \notin {BS, BEL} =>
                /\ show(x, g).cur = x.cur + 1
                /\ Len(show(x, g).cells) = IF x.cur < Len(x.cells) THEN Len(x.cells) ELSE x.cur + 1
                /\ \A i \in 1 .. Len(show(x, g).cells) :
                     show(x, g).cells[i] = IF i = x.cur + 1 THEN g ELSE x.cells[i]
<1>1. x.cells \in Seq(Glyph) /\ x.cur \in Int /\ x.cur <= Len(x.cells) /\ Len(x.cells) \in Nat
      /\ x = [cells |-> x.cells, cur |-> x.cur]
  BY DEF Screen
<1>2. CASE g = BS
  <2>1. show(x, g) = [cells |-> x.cells, cur |-> x.cur - 1]
    BY <1>1, <1>2 DEF show, BS, BEL
  <2>. QED  BY <1>1, <1>2, <2>1 DEF Screen, BS, BEL
<1>3. CASE g = BEL
  <2>1. show(x, g) = x
    BY <1>3 DEF show, BS, BEL
  <2>. QED  BY <1>3, <2>1 DEF BS, BEL
<1>4. CASE g \notin {BS, BEL}
  <2>. DEFINE n == IF x.cur < Len(x.cells) THEN Len(x.cells) ELSE x.cur + 1
              q == [i \in 1 .. n |-> IF i = x.cur + 1 THEN g ELSE x.cells[i]]
  <2>1. show(x, g) = [cells |-> q, cur |-> x.cur + 1]
    BY <1>4 DEF show
  <2>2. n \in Nat /\ x.cur + 1 <= n /\ \A i \in 1 .. n : i = x.cur + 1 \/ i \in 1 .. Len(x.cells)
    BY <1>1
  <2>. HIDE DEF n
  <2>3. \A i \in 1 .. n : q[i] \in Glyph
    BY <1>1, <2>2
  <2>4. q \in Seq(Glyph) /\ Len(q) = n
    BY <2>2, <2>3
  <2>5. \A i \in 1 .. n : q[i] = IF i = x.cur + 1 THEN g ELSE x.cells[i]
    OBVIOUS
  <2>. HIDE DEF q
  <2>6. show(x, g) \in Screen
    BY <1>1, <2>1, <2>2, <2>4 DEF Screen
  <2>. QED  BY <1>4, <2>1, <2>4, <2>5, <2>6 DEF n
<1>. QED  BY <1>2, <1>3, <1>4

LEMMA ShowRun ==
    ASSUME NEW e \in Seq(Glyph)
    PROVE  \E c \in [0 .. Len(e) -> Screen] :
             /\ c[0] = Empty /\ Shown(e) = c[Len(e)]
             /\ \A k \in 1 .. Len(e) : c[k] = show(c[k - 1], e[k])
<1>. DEFINE n == Len(e)
            b == Empty
            U == Screen
            Op(x, k) == show(x, e[k])
            h == [k \in 1 .. n |-> [x \in U |-> Op(x, k)]]
            F(g) == [t \in SUBSET (1 .. n) |-> IF t = {} THEN b ELSE Op(g[t \ {Max(t)}], Max(t))]
            f == CHOOSE g : g = F(g)
<1>0. n \in Nat
  OBVIOUS
<1>1. b \in U
  BY DEF Empty, Screen
<1>2. ASSUME NEW x \in U, NEW k \in 1 .. n PROVE Op(x, k) \in U
  BY ShowFacts
<1>3. Shown(e) = f[1 .. n]
  <2>1. DOMAIN e = 1 .. n
    OBVIOUS
  <2>. QED  BY <2>1 DEF Shown, FoldLeft, MapThenFoldSet
<1>. HIDE DEF n, b, U, Op
<1>4. h \in [1 .. n -> [U -> U]] /\ \A x \in U, k \in 1 .. n : h[k][x] = Op(x, k)
  BY <1>2
<1>. HIDE DEF h
<1>5. f = F(f)
  <2>1. PICK g \in [SUBSET (1 .. n) -> U] : IsFold(n, b, h, g)
    <3>1. h \in [1 .. n -> [U -> U]]
      BY <1>4
    <3>. QED  BY <1>0, <1>1, <3>1, FoldExists
  <2>2. ASSUME NEW t \in SUBSET (1 .. n)
        PROVE  g[t] = IF t = {} THEN b ELSE Op(g[t \ {Max(t)}], Max(t))
    <3>1. t # {} => Max(t) \in 1 .. n /\ t \ {Max(t)} \in SUBSET (1 .. n)
      BY <1>0, MaxIn
    <3>. QED  BY <1>4, <2>1, <3>1 DEF IsFold
  <2>3. g = F(g)
    BY <2>2
  <2>. HIDE DEF F
  <2>. QED  BY <2>3
<1>. HIDE DEF f
<1>6. /\ f[{}] = b
      /\ \A k \in 1 .. n : f[1 .. k] = Op(f[1 .. k - 1], k)
  <2>1. \A t \in SUBSET (1 .. n) : f[t] = IF t = {} THEN b ELSE Op(f[t \ {Max(t)}], Max(t))
    BY <1>5
  <2>2. f[{}] = b
    BY <2>1
  <2>3. ASSUME NEW k \in 1 .. n PROVE f[1 .. k] = Op(f[1 .. k - 1], k)
    <3>1. /\ 1 .. k \in SUBSET (1 .. n) /\ 1 .. k # {}
          /\ Max(1 .. k) = k /\ (1 .. k) \ {k} = 1 .. k - 1
      BY <1>0, Segments
    <3>. QED  BY <2>1, <3>1
  <2>. QED  BY <2>2, <2>3
<1>7. /\ f[1 .. 0] = b
      /\ \A k \in 1 .. n : f[1 .. k - 1] \in U => f[1 .. k] = h[k][f[1 .. k - 1]]
  BY <1>0, <1>4, <1>6, Segments
<1>8. PICK c \in [0 .. n -> U] : Run(n, b, h, c) /\ f[1 .. n] = c[n]
  <2>1. h \in [1 .. n -> [U -> U]]
    BY <1>4
  <2>2. Follows(n, U, b, h, f)
    BY <1>7 DEF Follows
  <2>. QED  BY <1>0, <1>1, <2>1, <2>2, FoldRun
<1>9. \A k \in 1 .. n : c[k] = Op(c[k - 1], k)
  <2>1. \A k \in 1 .. n : k - 1 \in 0 .. n
    BY <1>0
  <2>. QED  BY <1>4, <1>8, <2>1 DEF Run
<1>10. c[0] = b
  BY <1>8 DEF Run
<1>. QED  BY <1>3, <1>8, <1>9, <1>10 DEF n, b, U, Op
\* The screen after one more byte.
LEMMA ShowAppend ==
    /\ Shown(<< >>) = Empty
    /\ \A e \in Seq(Glyph) : Shown(e) \in Screen
    /\ \A e \in Seq(Glyph), g \in Glyph : Shown(e \o <<g>>) = show(Shown(e), g)
<1>1. ASSUME NEW e \in Seq(Glyph) PROVE Shown(e) \in Screen /\ (e = << >> => Shown(e) = Empty)
  <2>1. PICK c \in [0 .. Len(e) -> Screen] : c[0] = Empty /\ Shown(e) = c[Len(e)]
    BY ShowRun
  <2>. QED  BY <2>1
<1>2. ASSUME NEW e \in Seq(Glyph), NEW g \in Glyph PROVE Shown(e \o <<g>>) = show(Shown(e), g)
  <2>. DEFINE d == e \o <<g>>
              n == Len(e)
  <2>1. /\ d \in Seq(Glyph) /\ Len(d) = n + 1 /\ n \in Nat /\ d[n + 1] = g
        /\ \A k \in 1 .. n : d[k] = e[k]
    OBVIOUS
  <2>. HIDE DEF d
  <2>2. PICK c \in [0 .. n -> Screen] : /\ c[0] = Empty /\ Shown(e) = c[n]
                                        /\ \A k \in 1 .. n : c[k] = show(c[k - 1], e[k])
    BY ShowRun
  <2>3. PICK f \in [0 .. Len(d) -> Screen] :
               /\ f[0] = Empty /\ Shown(d) = f[Len(d)]
               /\ \A k \in 1 .. Len(d) : f[k] = show(f[k - 1], d[k])
    BY <2>1, ShowRun
  <2>. DEFINE T == {k \in Nat : k <= n => f[k] = c[k]}
  <2>4. 0 \in T
    BY <2>2, <2>3
  <2>5. ASSUME NEW k \in Nat, k \in T PROVE k + 1 \in T
    <3>. SUFFICES ASSUME k + 1 <= n PROVE f[k + 1] = c[k + 1]
      OBVIOUS
    <3>1. k + 1 \in 1 .. n /\ k + 1 \in 1 .. Len(d) /\ (k + 1) - 1 = k /\ f[k] = c[k]
      BY <2>1, <2>5
    <3>2. f[k + 1] = show(f[k], d[k + 1]) /\ c[k + 1] = show(c[k], e[k + 1])
      BY <2>2, <2>3, <3>1
    <3>. QED  BY <2>1, <3>1, <3>2
  <2>. HIDE DEF T
  <2>6. n \in T
    BY <2>1, <2>4, <2>5, NatSetInduction
  <2>7. f[n] = c[n]
    BY <2>1, <2>6 DEF T
  <2>8. f[n + 1] = show(f[n], d[n + 1])
    <3>1. n + 1 \in 1 .. Len(d) /\ (n + 1) - 1 = n
      BY <2>1
    <3>. QED  BY <2>3, <3>1
  <2>. QED  BY <2>1, <2>2, <2>3, <2>7, <2>8 DEF d
<1>3. Shown(<< >>) = Empty
  BY <1>1, EmptySeq
<1>. QED  BY <1>1, <1>2, <1>3

-----------------------------------------------------------------------------
(* The line editor *)

\* The screen x shows this line.
Shows(x, line) ==
    /\ x \in Screen /\ x.cur = Len(line)
    /\ \A i \in 1 .. Len(line) : x.cells[i] = line[i]
    /\ \A i \in 1 .. Len(x.cells) : i > x.cur => x.cells[i] = BLANK

Letter == Keys \ {CR, LF, BS, ESCAPE}

LEMMA Letters ==
    /\ Letter = Plain /\ BEL \notin Keys /\ Keys \subseteq Glyph
    /\ {BS, BEL, BLANK, CR, LF} \subseteq Glyph
BY IoTermAssumption DEF Letter, Keys, Glyph, CR, LF, BS, BEL, ESCAPE, BLANK

\* A key: what ioterm_getsn does to the line it echoes to the screen.
LEMMA EditFacts ==
    ASSUME NEW line \in Seq(Letter), NEW n \in Nat \ {0}, NEW c \in Keys \ {CR, LF},
           NEW e \in Seq(Glyph), Shows(Shown(e), line)
    PROVE  LET d == edit(line, n, c) IN
           /\ d.line \in Seq(Letter) /\ d.n \in Nat \ {0} /\ d.n + Len(d.line) = n + Len(line)
           /\ d.show \in Seq(Glyph) /\ e \o d.show \in Seq(Glyph)
           /\ Shows(Shown(e \o d.show), d.line)
<1>. DEFINE d == edit(line, n, c)
            x == Shown(e)
<1>. SUFFICES /\ d.line \in Seq(Letter) /\ d.n \in Nat \ {0} /\ d.n + Len(d.line) = n + Len(line)
              /\ d.show \in Seq(Glyph) /\ e \o d.show \in Seq(Glyph)
              /\ Shows(Shown(e \o d.show), d.line)
  OBVIOUS
<1>0. c # LF /\ x \in Screen /\ BS \in Glyph /\ BEL \in Glyph /\ BLANK \in Glyph /\ c \in Glyph
  BY ShowAppend, Letters
<1>1. CASE d = [line |-> line, n |-> n, show |-> << >>]
  <2>1. e \o << >> = e
    OBVIOUS
  <2>2. d.line = line /\ d.n = n /\ d.show = << >>
    BY <1>1
  <2>. HIDE DEF d
  <2>. QED  BY <2>1, <2>2
<1>2. CASE d = [line |-> line, n |-> n, show |-> <<BEL>>]
  <2>1. Shown(e \o <<BEL>>) = x
    BY <1>0, ShowAppend, ShowFacts
  <2>2. d.line = line /\ d.n = n /\ d.show = <<BEL>>
    BY <1>2
  <2>. HIDE DEF d
  <2>. QED  BY <1>0, <2>1, <2>2
<1>3. CASE c \in Letter /\ n > 1 /\ d = [line |-> Append(line, c), n |-> n - 1, show |-> <<c>>]
  <2>1. d.line = Append(line, c) /\ d.n = n - 1 /\ d.show = <<c>>
    BY <1>3
  <2>. HIDE DEF d
  <2>2. c \notin {BS, BEL}
    BY <1>3, Letters DEF Letter
  <2>. DEFINE y == show(x, c)
              l == Append(line, c)
  <2>3. Shown(e \o <<c>>) = y
    BY <1>0, ShowAppend
  <2>4. /\ y \in Screen /\ y.cur = x.cur + 1
        /\ Len(y.cells) = IF x.cur < Len(x.cells) THEN Len(x.cells) ELSE x.cur + 1
        /\ \A i \in 1 .. Len(y.cells) : y.cells[i] = IF i = x.cur + 1 THEN c ELSE x.cells[i]
    BY <1>0, <2>2, ShowFacts
  <2>5. l \in Seq(Letter) /\ Len(l) = Len(line) + 1 /\ l[Len(line) + 1] = c
        /\ \A i \in 1 .. Len(line) : l[i] = line[i]
    BY <1>3
  <2>6. /\ x.cur = Len(line) /\ Len(line) \in Nat /\ Len(x.cells) \in Nat /\ x.cur <= Len(x.cells)
        /\ \A i \in 1 .. Len(line) : x.cells[i] = line[i]
        /\ \A i \in 1 .. Len(x.cells) : i > x.cur => x.cells[i] = BLANK
    BY DEF Shows, Screen
  <2>. HIDE DEF y, l, x
  <2>7. Shows(y, l)
    <3>1. \A i \in 1 .. Len(l) : y.cells[i] = l[i]
      <4>. SUFFICES ASSUME NEW i \in 1 .. Len(l) PROVE y.cells[i] = l[i]
        OBVIOUS
      <4>1. i \in 1 .. Len(y.cells) /\ (i = x.cur + 1 \/ i \in 1 .. Len(line)) /\ x.cur = Len(line)
        BY <2>4, <2>5, <2>6
      <4>2. CASE i = x.cur + 1
        BY <2>4, <2>5, <4>1, <4>2
      <4>3. CASE i \in 1 .. Len(line)
        <5>1. i # x.cur + 1
          BY <2>6, <4>3
        <5>. QED  BY <2>4, <2>5, <2>6, <4>1, <4>3, <5>1
      <4>. QED  BY <4>1, <4>2, <4>3
    <3>2. \A i \in 1 .. Len(y.cells) : i > y.cur => y.cells[i] = BLANK
      BY <2>4, <2>6
    <3>. QED  BY <2>4, <2>5, <2>6, <3>1, <3>2 DEF Shows
  <2>8. n - 1 \in Nat \ {0} /\ (n - 1) + Len(l) = n + Len(line)
    BY <1>3, <2>5, <2>6
  <2>. QED  BY <1>0, <2>1, <2>3, <2>5, <2>7, <2>8 DEF l
<1>4. CASE line # << >> /\ d = [line |-> Front(line), n |-> n + 1, show |-> erase]
  <2>1. d.line = Front(line) /\ d.n = n + 1 /\ d.show = <<BS, BLANK, BS>>
    BY <1>4 DEF erase
  <2>. HIDE DEF d
  <2>. DEFINE y == show(x, BS)
              z == show(y, BLANK)
              w == show(z, BS)
              l == Front(line)
  <2>2. Shown(e \o <<BS, BLANK, BS>>) = w
    <3>. DEFINE e1 == e \o <<BS>>
                e2 == e1 \o <<BLANK>>
    <3>1. e1 \in Seq(Glyph) /\ e2 \in Seq(Glyph)
      BY <1>0
    <3>2. e \o <<BS, BLANK, BS>> = e2 \o <<BS>>
      BY <1>0
    <3>3. Shown(e1) = y
      BY <1>0, ShowAppend
    <3>. HIDE DEF e1
    <3>4. Shown(e2) = z
      BY <1>0, <3>1, <3>3, ShowAppend
    <3>. HIDE DEF e2
    <3>. QED  BY <1>0, <3>1, <3>2, <3>4, ShowAppend
  <2>3. BLANK \notin {BS, BEL}
    BY DEF BLANK, BS, BEL
  <2>4. y \in Screen /\ y.cells = x.cells /\ y.cur = x.cur - 1
    BY <1>0, ShowFacts
  <2>. HIDE DEF y
  <2>5. /\ z \in Screen /\ z.cur = y.cur + 1
        /\ Len(z.cells) = IF y.cur < Len(y.cells) THEN Len(y.cells) ELSE y.cur + 1
        /\ \A i \in 1 .. Len(z.cells) : z.cells[i] = IF i = y.cur + 1 THEN BLANK ELSE y.cells[i]
    BY <1>0, <2>3, <2>4, ShowFacts
  <2>. HIDE DEF z
  <2>6. w \in Screen /\ w.cells = z.cells /\ w.cur = z.cur - 1
    BY <1>0, <2>5, ShowFacts
  <2>. HIDE DEF w
  <2>7. /\ x.cur = Len(line) /\ Len(line) \in Nat \ {0} /\ Len(x.cells) \in Nat /\ x.cur <= Len(x.cells)
        /\ \A i \in 1 .. Len(line) : x.cells[i] = line[i]
        /\ \A i \in 1 .. Len(x.cells) : i > x.cur => x.cells[i] = BLANK
    BY <1>4 DEF Shows, Screen
  <2>8. l \in Seq(Letter) /\ Len(l) = Len(line) - 1 /\ \A i \in 1 .. Len(line) - 1 : l[i] = line[i]
    <3>1. \A i \in 1 .. Len(line) - 1 : line[i] \in Letter
      BY <2>7
    <3>2. Len(line) - 1 \in Int /\ 1 \in Int /\ l = SubSeq(line, 1, Len(line) - 1)
      BY <2>7 DEF Front
    <3>3. /\ l \in Seq(Letter) /\ Len(l) = IF 1 <= Len(line) - 1 THEN (Len(line) - 1) - 1 + 1 ELSE 0
          /\ \A i \in 1 .. (Len(line) - 1) - 1 + 1 : l[i] = line[1 + i - 1]
      BY <3>1, <3>2, SubSeqProperties
    <3>. HIDE DEF l
    <3>4. Len(l) = Len(line) - 1
      <4>1. ASSUME NEW k \in Nat \ {0} PROVE (IF 1 <= k - 1 THEN (k - 1) - 1 + 1 ELSE 0) = k - 1
        OBVIOUS
      <4>2. Len(line) \in Nat \ {0}
        BY <2>7
      <4>3. (IF 1 <= Len(line) - 1 THEN (Len(line) - 1) - 1 + 1 ELSE 0) = Len(line) - 1
        BY <4>1, <4>2
      <4>. QED  BY <3>3, <4>3
    <3>5. ASSUME NEW i \in 1 .. Len(line) - 1 PROVE l[i] = line[i]
      <4>1. i \in 1 .. (Len(line) - 1) - 1 + 1 /\ 1 + i - 1 = i
        BY <2>7
      <4>. QED  BY <3>3, <4>1
    <3>. QED  BY <3>3, <3>4, <3>5
  <2>. HIDE DEF l, x
  <2>9. /\ w.cur = Len(line) - 1 /\ Len(w.cells) = Len(x.cells)
        /\ \A i \in 1 .. Len(x.cells) : w.cells[i] = IF i = Len(line) THEN BLANK ELSE x.cells[i]
    BY <2>4, <2>5, <2>6, <2>7
  <2>10. Shows(w, l)
    <3>1. ASSUME NEW i \in 1 .. Len(l) PROVE w.cells[i] = l[i]
      <4>1. i \in 1 .. Len(line) - 1 /\ i \in 1 .. Len(line) /\ i \in 1 .. Len(x.cells) /\ i # Len(line)
        BY <2>7, <2>8
      <4>. QED  BY <2>7, <2>8, <2>9, <4>1
    <3>2. ASSUME NEW i \in 1 .. Len(w.cells), i > w.cur PROVE w.cells[i] = BLANK
      <4>1. i \in 1 .. Len(x.cells) /\ (i = Len(line) \/ i > x.cur)
        BY <2>7, <2>9, <3>2
      <4>. QED  BY <2>7, <2>9, <4>1
    <3>. QED  BY <2>6, <2>8, <2>9, <3>1, <3>2 DEF Shows
  <2>11. n + 1 \in Nat \ {0} /\ (n + 1) + Len(l) = n + Len(line)
    BY <2>7, <2>8
  <2>12. e \o <<BS, BLANK, BS>> \in Seq(Glyph) /\ <<BS, BLANK, BS>> \in Seq(Glyph)
    BY <1>0
  <2>. QED  BY <2>1, <2>2, <2>8, <2>10, <2>11, <2>12 DEF l
<1>5. \/ d = [line |-> line, n |-> n, show |-> << >>]
      \/ d = [line |-> line, n |-> n, show |-> <<BEL>>]
      \/ c \in Letter /\ n > 1 /\ d = [line |-> Append(line, c), n |-> n - 1, show |-> <<c>>]
      \/ line # << >> /\ d = [line |-> Front(line), n |-> n + 1, show |-> erase]
  <2>1. CASE c = ESCAPE
    BY <2>1 DEF edit, ESCAPE, LF, BS
  <2>2. CASE c = BS
    BY <2>2 DEF edit, ESCAPE, LF, BS
  <2>3. CASE c \notin {ESCAPE, BS, LF, CR}
    BY <2>3 DEF edit, Letter
  <2>. QED  BY <2>1, <2>2, <2>3
<1>. QED  BY <1>1, <1>2, <1>3, <1>4, <1>5
-----------------------------------------------------------------------------
(* Sequences of sequences *)

LEMMA FlatRun ==
    ASSUME NEW X, NEW q \in Seq(Seq(X))
    PROVE  \E c \in [0 .. Len(q) -> Seq(X)] :
             /\ c[0] = << >> /\ FlattenSeq(q) = c[Len(q)]
             /\ \A k \in 1 .. Len(q) : c[k] = c[k - 1] \o q[k]
<1>. DEFINE n == Len(q)
            U == Seq(X)
            b == << >>
            h == [k \in 1 .. n |-> [x \in U |-> x \o q[k]]]
            F(g) == [k \in 1 .. n |-> IF k = 1 THEN q[k] ELSE g[k - 1] \o q[k]]
            f == CHOOSE g : g = F(g)
<1>0. n \in Nat /\ b \in U /\ \A k \in 1 .. n : q[k] \in U
  OBVIOUS
<1>1. ASSUME NEW x \in U, NEW k \in 1 .. n PROVE x \o q[k] \in U
  BY <1>0
<1>2. n # 0 => FlattenSeq(q) = f[n]
  BY DEF FlattenSeq
<1>3. n = 0 => FlattenSeq(q) = << >>
  BY DEF FlattenSeq
<1>4. \A x \in U : b \o x = x
  OBVIOUS
<1>. HIDE DEF n, U, b
<1>5. h \in [1 .. n -> [U -> U]] /\ \A x \in U, k \in 1 .. n : h[k][x] = x \o q[k]
  BY <1>1
<1>. HIDE DEF h
<1>6. PICK c \in [0 .. n -> U] : c[0] = b /\ \A k \in 1 .. n : c[k] = c[k - 1] \o q[k]
  <2>0. h \in [1 .. n -> [U -> U]]
    BY <1>5
  <2>1. PICK g \in [SUBSET (1 .. n) -> U] : IsFold(n, b, h, g)
    BY <1>0, <2>0, FoldExists
  <2>2. Follows(n, U, b, h, g)
    <3>1. g[1 .. 0] = b
      BY <1>0, <2>1, Segments DEF IsFold
    <3>2. ASSUME NEW k \in 1 .. n PROVE g[1 .. k] = h[k][g[1 .. k - 1]]
      <4>1. /\ 1 .. k \in SUBSET (1 .. n) /\ 1 .. k # {}
            /\ Max(1 .. k) = k /\ (1 .. k) \ {k} = 1 .. k - 1
        BY <1>0, Segments
      <4>. QED  BY <2>1, <4>1 DEF IsFold
    <3>. QED  BY <3>1, <3>2 DEF Follows
  <2>3. PICK c \in [0 .. n -> U] : Run(n, b, h, c)
    BY <1>0, <2>0, <2>2, FoldRun
  <2>4. \A k \in 1 .. n : k - 1 \in 0 .. n
    BY <1>0
  <2>5. c[0] = b /\ \A k \in 1 .. n : c[k] = c[k - 1] \o q[k]
    BY <1>5, <2>3, <2>4 DEF Run
  <2>. QED  BY <2>5
<1>7. 1 \in 1 .. n => c[1] = q[1]
  <2>1. 1 \in 1 .. n => c[1] = c[1 - 1] \o q[1] /\ q[1] \in U
    BY <1>0, <1>6
  <2>2. 1 - 1 = 0
    OBVIOUS
  <2>. QED  BY <1>4, <1>6, <2>1, <2>2
<1>8. f = F(f)
  <2>. DEFINE e == [k \in 1 .. n |-> c[k]]
  <2>1. ASSUME NEW k \in 1 .. n PROVE e[k] = IF k = 1 THEN q[k] ELSE e[k - 1] \o q[k]
    <3>1. CASE k = 1
      BY <1>7, <3>1
    <3>2. CASE k # 1
      <4>1. k - 1 \in 1 .. n
        BY <1>0, <3>2
      <4>. QED  BY <1>6, <3>2, <4>1
    <3>. QED  BY <3>1, <3>2
  <2>2. e = F(e)
    BY <2>1
  <2>. HIDE DEF e, F
  <2>. QED  BY <2>2
<1>. HIDE DEF f
<1>9. n # 0 => f[n] = c[n]
  <2>. DEFINE T == {k \in Nat : k + 1 <= n => f[k + 1] = c[k + 1]}
  <2>0. \A k \in 1 .. n : f[k] = IF k = 1 THEN q[k] ELSE f[k - 1] \o q[k]
    BY <1>8
  <2>1. 0 \in T
    <3>1. 1 <= n => 1 \in 1 .. n
      BY <1>0
    <3>2. 1 <= n => f[1] = q[1] /\ c[1] = q[1]
      BY <1>7, <2>0, <3>1
    <3>. QED  BY <3>2
  <2>2. ASSUME NEW k \in Nat, k \in T PROVE k + 1 \in T
    <3>. SUFFICES ASSUME (k + 1) + 1 <= n PROVE f[(k + 1) + 1] = c[(k + 1) + 1]
      OBVIOUS
    <3>. DEFINE j == (k + 1) + 1
    <3>1. j \in 1 .. n /\ j # 1 /\ j - 1 = k + 1 /\ f[k + 1] = c[k + 1]
      BY <1>0, <2>2
    <3>. HIDE DEF j
    <3>2. f[j] = f[j - 1] \o q[j] /\ c[j] = c[j - 1] \o q[j]
      BY <1>6, <2>0, <3>1
    <3>. QED  BY <3>1, <3>2 DEF j
  <2>. HIDE DEF T
  <2>3. Nat \subseteq T
    BY <2>1, <2>2, NatSetInduction
  <2>4. n # 0 => n - 1 \in T /\ (n - 1) + 1 = n
    BY <1>0, <2>3
  <2>. QED  BY <1>0, <2>4 DEF T
<1>10. FlattenSeq(q) = c[n]
  BY <1>0, <1>2, <1>3, <1>6, <1>9 DEF b
<1>. QED  BY <1>6, <1>10 DEF n, U, b

LEMMA FlatAppend ==
    ASSUME NEW X
    PROVE  /\ FlattenSeq(<< >>) = << >>
           /\ \A q \in Seq(Seq(X)) : FlattenSeq(q) \in Seq(X)
           /\ \A q \in Seq(Seq(X)), x \in Seq(X) :
                FlattenSeq(Append(q, x)) = FlattenSeq(q) \o x
<1>1. ASSUME NEW q \in Seq(Seq(X)) PROVE FlattenSeq(q) \in Seq(X)
  <2>1. PICK c \in [0 .. Len(q) -> Seq(X)] : FlattenSeq(q) = c[Len(q)]
    BY FlatRun
  <2>2. Len(q) \in 0 .. Len(q)
    OBVIOUS
  <2>. QED  BY <2>1, <2>2
<1>2. FlattenSeq(<< >>) = << >>
  BY DEF FlattenSeq
<1>3. ASSUME NEW q \in Seq(Seq(X)), NEW x \in Seq(X)
      PROVE  FlattenSeq(Append(q, x)) = FlattenSeq(q) \o x
  <2>. DEFINE d == Append(q, x)
              n == Len(q)
  <2>1. /\ d \in Seq(Seq(X)) /\ Len(d) = n + 1 /\ n \in Nat /\ d[n + 1] = x
        /\ \A k \in 1 .. n : d[k] = q[k]
    OBVIOUS
  <2>. HIDE DEF d
  <2>2. PICK c \in [0 .. n -> Seq(X)] : /\ c[0] = << >> /\ FlattenSeq(q) = c[n]
                                        /\ \A k \in 1 .. n : c[k] = c[k - 1] \o q[k]
    BY FlatRun
  <2>3. PICK f \in [0 .. Len(d) -> Seq(X)] :
               /\ f[0] = << >> /\ FlattenSeq(d) = f[Len(d)]
               /\ \A k \in 1 .. Len(d) : f[k] = f[k - 1] \o d[k]
    BY <2>1, FlatRun
  <2>. DEFINE T == {k \in Nat : k <= n => f[k] = c[k]}
  <2>4. 0 \in T
    BY <2>2, <2>3
  <2>5. ASSUME NEW k \in Nat, k \in T PROVE k + 1 \in T
    <3>. SUFFICES ASSUME k + 1 <= n PROVE f[k + 1] = c[k + 1]
      OBVIOUS
    <3>0. f[k] = c[k]
      <4>1. k <= n
        BY <2>1
      <4>. QED  BY <2>5, <4>1
    <3>1. k + 1 \in 1 .. n /\ k + 1 \in 1 .. Len(d) /\ (k + 1) - 1 = k /\ f[k] = c[k]
      BY <2>1, <3>0
    <3>2. f[k + 1] = f[k] \o d[k + 1] /\ c[k + 1] = c[k] \o q[k + 1]
      BY <2>2, <2>3, <3>1
    <3>. QED  BY <2>1, <3>1, <3>2
  <2>. HIDE DEF T
  <2>6. n \in T
    BY <2>1, <2>4, <2>5, NatSetInduction
  <2>7. f[n] = c[n]
    BY <2>1, <2>6 DEF T
  <2>8. f[n + 1] = f[n] \o d[n + 1]
    <3>1. n + 1 \in 1 .. Len(d) /\ (n + 1) - 1 = n
      BY <2>1
    <3>. QED  BY <2>3, <3>1
  <2>. QED  BY <2>1, <2>2, <2>3, <2>7, <2>8 DEF d
<1>. QED  BY <1>1, <1>2, <1>3
-----------------------------------------------------------------------------
(* What streams mean, one character at a time *)

ReceivedPiece(a, c) ==
    CASE c = CR -> <<LF>>
      [] c = LF /\ a = CR -> << >>
      [] OTHER -> <<c>>

LEMMA ReceivedAppend ==
    /\ Received(<< >>) = << >>
    /\ \A s \in Seq(Keys) : Received(s) \in Seq(Keys)
    /\ \A s \in Seq(Keys), c \in Keys : Received(Append(s, c)) = Received(s) \o ReceivedPiece(At(s, Len(s)), c)
<1>. DEFINE q(s) == [i \in DOMAIN s |-> ReceivedPiece(At(s, i - 1), s[i])]
<1>1. \A s : Received(s) = FlattenSeq(q(s))
  BY DEF Received, ReceivedPiece
<1>2. \A a, c : c \in Keys => ReceivedPiece(a, c) \in Seq(Keys)
  BY DEF ReceivedPiece, Keys
<1>. HIDE DEF q
<1>3. ASSUME NEW s \in Seq(Keys)
      PROVE  /\ q(s) \in Seq(Seq(Keys)) /\ Len(q(s)) = Len(s)
             /\ \A i \in 1 .. Len(s) : q(s)[i] = ReceivedPiece(At(s, i - 1), s[i])
  <2>1. DOMAIN s = 1 .. Len(s) /\ Len(s) \in Nat /\ \A i \in 1 .. Len(s) : s[i] \in Keys
    OBVIOUS
  <2>2. q(s) = [i \in 1 .. Len(s) |-> ReceivedPiece(At(s, i - 1), s[i])]
    BY <2>1 DEF q
  <2>3. \A i \in 1 .. Len(s) : ReceivedPiece(At(s, i - 1), s[i]) \in Seq(Keys)
    BY <1>2, <2>1
  <2>4. q(s) \in [1 .. Len(s) -> Seq(Keys)]
    BY <2>2, <2>3
  <2>. QED  BY <2>1, <2>2, <2>4
<1>4. ASSUME NEW s \in Seq(Keys) PROVE Received(s) \in Seq(Keys)
  BY <1>1, <1>3, FlatAppend
<1>5. Received(<< >>) = << >>
  <2>1. << >> \in Seq(Keys) /\ Len(<< >>) = 0
    OBVIOUS
  <2>2. q(<< >>) \in Seq(Seq(Keys)) /\ Len(q(<< >>)) = 0
    BY <1>3, <2>1
  <2>3. q(<< >>) = << >>
    BY <2>2, EmptySeq
  <2>. QED  BY <1>1, <2>3, FlatAppend
<1>6. ASSUME NEW s \in Seq(Keys), NEW c \in Keys
      PROVE  Received(Append(s, c)) = Received(s) \o ReceivedPiece(At(s, Len(s)), c)
  <2>. DEFINE d == Append(s, c)
              n == Len(s)
              x == ReceivedPiece(At(s, n), c)
  <2>1. /\ d \in Seq(Keys) /\ Len(d) = n + 1 /\ n \in Nat /\ d[n + 1] = c
        /\ (\A k \in 1 .. n : d[k] = s[k]) /\ DOMAIN d = 1 .. n + 1 /\ DOMAIN s = 1 .. n
    OBVIOUS
  <2>2. x \in Seq(Keys)
    BY <1>2
  <2>. HIDE DEF d, x
  <2>3. \A i \in 0 .. n : At(d, i) = At(s, i)
    BY <2>1 DEF At
  <2>4. /\ q(s) \in Seq(Seq(Keys)) /\ Len(q(s)) = n
        /\ \A i \in 1 .. n : q(s)[i] = ReceivedPiece(At(s, i - 1), s[i])
    BY <1>3
  <2>5. /\ q(d) \in Seq(Seq(Keys)) /\ Len(q(d)) = n + 1
        /\ \A i \in 1 .. n + 1 : q(d)[i] = ReceivedPiece(At(d, i - 1), d[i])
    BY <1>3, <2>1
  <2>6. ASSUME NEW i \in 1 .. n PROVE q(d)[i] = q(s)[i]
    <3>1. i \in 1 .. n + 1 /\ i - 1 \in 0 .. n
      BY <2>1
    <3>. QED  BY <2>1, <2>3, <2>4, <2>5, <3>1
  <2>7. q(d)[n + 1] = x
    <3>1. n + 1 \in 1 .. n + 1 /\ (n + 1) - 1 = n /\ n \in 0 .. n
      BY <2>1
    <3>. QED  BY <2>1, <2>3, <2>5, <3>1 DEF x
  <2>8. q(d) = Append(q(s), x)
    <3>. DEFINE a == q(d)
                b == Append(q(s), x)
    <3>1. /\ b \in Seq(Seq(Keys)) /\ Len(b) = n + 1 /\ b[n + 1] = x
          /\ \A i \in 1 .. n : b[i] = q(s)[i]
      BY <2>2, <2>4, AppendProperties
    <3>. HIDE DEF b
    <3>2. \A i \in 1 .. n + 1 : i = n + 1 \/ i \in 1 .. n
      BY <2>1
    <3>3. \A i \in 1 .. Len(a) : a[i] = b[i]
      BY <2>5, <2>6, <2>7, <3>1, <3>2
    <3>4. a \in Seq(Seq(Keys)) /\ Len(a) = Len(b)
      BY <2>5, <3>1
    <3>. HIDE DEF a
    <3>5. a = b
      BY <3>1, <3>3, <3>4, SeqEqual
    <3>. QED  BY <3>5 DEF a, b
  <2>9. FlattenSeq(Append(q(s), x)) = FlattenSeq(q(s)) \o x
    BY <2>2, <2>4, FlatAppend
  <2>. QED  BY <1>1, <2>8, <2>9 DEF d, x
<1>. QED  BY <1>4, <1>5, <1>6

SentPiece(a, c) ==
    CASE c = CR -> <<CR, LF>>
      [] c = LF /\ a = CR -> << >>
      [] c = LF /\ a # CR -> <<CR, LF>>
      [] OTHER -> <<c>>

LEMMA SentAppend ==
    /\ Sent(<< >>) = << >>
    /\ \A s \in Seq(Keys) : Sent(s) \in Seq(Keys)
    /\ \A s \in Seq(Keys), c \in Keys : Sent(Append(s, c)) = Sent(s) \o SentPiece(At(s, Len(s)), c)
<1>. DEFINE q(s) == [i \in DOMAIN s |-> SentPiece(At(s, i - 1), s[i])]
<1>1. \A s : Sent(s) = FlattenSeq(q(s))
  BY DEF Sent, SentPiece
<1>2. \A a, c : c \in Keys => SentPiece(a, c) \in Seq(Keys)
  <2>. SUFFICES ASSUME NEW a, NEW c \in Keys PROVE SentPiece(a, c) \in Seq(Keys)
    OBVIOUS
  <2>1. <<CR, LF>> \in Seq(Keys) /\ << >> \in Seq(Keys) /\ <<c>> \in Seq(Keys)
    BY DEF Keys
  <2>2. SentPiece(a, c) \in {<<CR, LF>>, << >>, <<c>>}
    BY DEF SentPiece
  <2>. QED  BY <2>1, <2>2
<1>. HIDE DEF q
<1>3. ASSUME NEW s \in Seq(Keys)
      PROVE  /\ q(s) \in Seq(Seq(Keys)) /\ Len(q(s)) = Len(s)
             /\ \A i \in 1 .. Len(s) : q(s)[i] = SentPiece(At(s, i - 1), s[i])
  <2>1. DOMAIN s = 1 .. Len(s) /\ Len(s) \in Nat /\ \A i \in 1 .. Len(s) : s[i] \in Keys
    OBVIOUS
  <2>2. q(s) = [i \in 1 .. Len(s) |-> SentPiece(At(s, i - 1), s[i])]
    BY <2>1 DEF q
  <2>3. \A i \in 1 .. Len(s) : SentPiece(At(s, i - 1), s[i]) \in Seq(Keys)
    BY <1>2, <2>1
  <2>4. q(s) \in [1 .. Len(s) -> Seq(Keys)]
    BY <2>2, <2>3
  <2>. QED  BY <2>1, <2>2, <2>4
<1>4. ASSUME NEW s \in Seq(Keys) PROVE Sent(s) \in Seq(Keys)
  BY <1>1, <1>3, FlatAppend
<1>5. Sent(<< >>) = << >>
  <2>1. << >> \in Seq(Keys) /\ Len(<< >>) = 0
    OBVIOUS
  <2>2. q(<< >>) \in Seq(Seq(Keys)) /\ Len(q(<< >>)) = 0
    BY <1>3, <2>1
  <2>3. q(<< >>) = << >>
    BY <2>2, EmptySeq
  <2>. QED  BY <1>1, <2>3, FlatAppend
<1>6. ASSUME NEW s \in Seq(Keys), NEW c \in Keys
      PROVE  Sent(Append(s, c)) = Sent(s) \o SentPiece(At(s, Len(s)), c)
  <2>. DEFINE d == Append(s, c)
              n == Len(s)
              x == SentPiece(At(s, n), c)
  <2>1. /\ d \in Seq(Keys) /\ Len(d) = n + 1 /\ n \in Nat /\ d[n + 1] = c
        /\ (\A k \in 1 .. n : d[k] = s[k]) /\ DOMAIN d = 1 .. n + 1 /\ DOMAIN s = 1 .. n
    OBVIOUS
  <2>2. x \in Seq(Keys)
    BY <1>2
  <2>. HIDE DEF d, x
  <2>3. \A i \in 0 .. n : At(d, i) = At(s, i)
    BY <2>1 DEF At
  <2>4. /\ q(s) \in Seq(Seq(Keys)) /\ Len(q(s)) = n
        /\ \A i \in 1 .. n : q(s)[i] = SentPiece(At(s, i - 1), s[i])
    BY <1>3
  <2>5. /\ q(d) \in Seq(Seq(Keys)) /\ Len(q(d)) = n + 1
        /\ \A i \in 1 .. n + 1 : q(d)[i] = SentPiece(At(d, i - 1), d[i])
    BY <1>3, <2>1
  <2>6. ASSUME NEW i \in 1 .. n PROVE q(d)[i] = q(s)[i]
    <3>1. i \in 1 .. n + 1 /\ i - 1 \in 0 .. n
      BY <2>1
    <3>. QED  BY <2>1, <2>3, <2>4, <2>5, <3>1
  <2>7. q(d)[n + 1] = x
    <3>1. n + 1 \in 1 .. n + 1 /\ (n + 1) - 1 = n /\ n \in 0 .. n
      BY <2>1
    <3>. QED  BY <2>1, <2>3, <2>5, <3>1 DEF x
  <2>8. q(d) = Append(q(s), x)
    <3>. DEFINE a == q(d)
                b == Append(q(s), x)
    <3>1. /\ b \in Seq(Seq(Keys)) /\ Len(b) = n + 1 /\ b[n + 1] = x
          /\ \A i \in 1 .. n : b[i] = q(s)[i]
      BY <2>2, <2>4, AppendProperties
    <3>. HIDE DEF b
    <3>2. \A i \in 1 .. n + 1 : i = n + 1 \/ i \in 1 .. n
      BY <2>1
    <3>3. \A i \in 1 .. Len(a) : a[i] = b[i]
      BY <2>5, <2>6, <2>7, <3>1, <3>2
    <3>4. a \in Seq(Seq(Keys)) /\ Len(a) = Len(b)
      BY <2>5, <3>1
    <3>. HIDE DEF a
    <3>5. a = b
      BY <3>1, <3>3, <3>4, SeqEqual
    <3>. QED  BY <3>5 DEF a, b
  <2>9. FlattenSeq(Append(q(s), x)) = FlattenSeq(q(s)) \o x
    BY <2>2, <2>4, FlatAppend
  <2>. QED  BY <1>1, <2>8, <2>9 DEF d, x
<1>. QED  BY <1>4, <1>5, <1>6
LEMMA Pieces ==
    ASSUME NEW a, NEW c \in Keys
    PROVE  ReceivedPiece(a, c) \in Seq(Keys) /\ SentPiece(a, c) \in Seq(Keys)
<1>1. <<CR, LF>> \in Seq(Keys) /\ <<LF>> \in Seq(Keys) /\ << >> \in Seq(Keys) /\ <<c>> \in Seq(Keys)
  BY DEF Keys
<1>2. ReceivedPiece(a, c) \in {<<LF>>, << >>, <<c>>} /\ SentPiece(a, c) \in {<<CR, LF>>, << >>, <<c>>}
  BY DEF ReceivedPiece, SentPiece
<1>. QED  BY <1>1, <1>2

\* Whether a \r is the last character so far, as cr_in and cr_out keep it.
CrOf(s) == IF At(s, Len(s)) = CR THEN 1 ELSE 0

LEMMA CrFacts ==
    /\ CrOf(<< >>) = 0
    /\ \A s : CrOf(s) \in {0, 1}
    /\ \A s \in Seq(Keys), c \in Keys : CrOf(Append(s, c)) = IF c = CR THEN 1 ELSE 0
<1>1. CrOf(<< >>) = 0
  BY DEF CrOf, At, BLANK, CR
<1>2. ASSUME NEW s \in Seq(Keys), NEW c \in Keys PROVE CrOf(Append(s, c)) = IF c = CR THEN 1 ELSE 0
  <2>1. At(Append(s, c), Len(Append(s, c))) = c
    BY DEF At
  <2>. QED  BY <2>1 DEF CrOf
<1>. QED  BY <1>1, <1>2 DEF CrOf

LEMMA Joins ==
    /\ \A a, b \in Seq(Keys) : a \o b \in Seq(Keys) /\ Len(a \o b) = Len(a) + Len(b)
    /\ \A a, b, c \in Seq(Keys) : (a \o b) \o c = a \o (b \o c)
    /\ \A a \in Seq(Keys) : a \o << >> = a /\ << >> \o a = a
<1>1. ASSUME NEW a \in Seq(Keys), NEW b \in Seq(Keys), NEW c \in Seq(Keys)
      PROVE  (a \o b) \o c = a \o (b \o c)
  BY ConcatAssociative
<1>. QED  BY <1>1

LEMMA Assoc ==
    \A a, b, c \in Seq(Keys) : (a \o b) \o c = a \o (b \o c)
BY Joins

\* A stream and the first characters of the next part.
LEMMA Longer ==
    ASSUME NEW s \in Seq(Keys), NEW b \in Seq(Keys), NEW k \in 1 .. Len(b)
    PROVE  /\ s \o SubSeq(b, 1, k - 1) \in Seq(Keys) /\ b[k] \in Keys
           /\ s \o SubSeq(b, 1, k) = Append(s \o SubSeq(b, 1, k - 1), b[k])
<1>1. Len(b) \in Nat /\ k \in Nat /\ 1 \in 1 .. Len(b) /\ b[k] \in Keys
  OBVIOUS
<1>2. SubSeq(b, 1, k) = SubSeq(b, 1, k - 1) \o <<b[k]>>
  BY <1>1, SubSeqRecursiveSecond
<1>3. SubSeq(b, 1, k - 1) \in Seq(Keys)
  <2>1. \A i \in 1 .. k - 1 : b[i] \in Keys
    BY <1>1
  <2>. QED  BY <1>1, <2>1, SubSeqProperties
<1>. DEFINE u == SubSeq(b, 1, k - 1)
            v == <<b[k]>>
<1>4. u \in Seq(Keys) /\ v \in Seq(Keys)
  BY <1>1, <1>3
<1>. HIDE DEF u, v
<1>5. s \o (u \o v) = (s \o u) \o v /\ s \o u \in Seq(Keys)
  <2>1. s \o (u \o v) = (s \o u) \o v
    BY <1>4, Assoc, Zenon
  <2>. QED  BY <1>4, <2>1, Joins
<1>6. (s \o u) \o v = Append(s \o u, b[k])
  BY <1>1, <1>5, AppendIsConcat DEF v
<1>. QED  BY <1>1, <1>2, <1>5, <1>6 DEF u, v

-----------------------------------------------------------------------------
(* Input *)

InState == [cr_in : {0, 1}, out : Seq(Keys \ {CR})]

LEMMA NormaliseFacts ==
    ASSUME NEW x \in InState, NEW c \in Keys, NEW a, x.cr_in = IF a = CR THEN 1 ELSE 0
    PROVE  /\ normalise(x, c) \in InState
           /\ normalise(x, c).cr_in = IF c = CR THEN 1 ELSE 0
           /\ normalise(x, c).out = x.out \o ReceivedPiece(a, c)
<1>1. LF \in Keys \ {CR} /\ x.out \in Seq(Keys \ {CR}) /\ LF # CR /\ x.out \o << >> = x.out
  BY DEF Keys, LF, CR, InState
<1>2. \A d \in Keys \ {CR} : /\ Append(x.out, d) \in Seq(Keys \ {CR})
                             /\ Append(x.out, d) = x.out \o <<d>>
  BY <1>1
<1>3. CASE c = CR
  <2>1. normalise(x, c) = [cr_in |-> 1, out |-> Append(x.out, LF)] /\ ReceivedPiece(a, c) = <<LF>>
    BY <1>1, <1>3 DEF normalise, ReceivedPiece
  <2>. QED  BY <1>1, <1>2, <1>3, <2>1 DEF InState
<1>4. CASE c = LF /\ a = CR
  <2>1. normalise(x, c) = [cr_in |-> 0, out |-> x.out] /\ ReceivedPiece(a, c) = << >>
    BY <1>1, <1>4 DEF normalise, ReceivedPiece
  <2>. QED  BY <1>1, <1>4, <2>1 DEF InState
<1>5. CASE c # CR /\ (c # LF \/ a # CR)
  <2>1. normalise(x, c) = [cr_in |-> 0, out |-> Append(x.out, c)] /\ ReceivedPiece(a, c) = <<c>>
    BY <1>1, <1>5 DEF normalise, ReceivedPiece
  <2>. QED  BY <1>1, <1>2, <1>5, <2>1 DEF InState
<1>. QED  BY <1>3, <1>4, <1>5

LEMMA NormaliseRun ==
    ASSUME NEW z \in InState, NEW s \in Seq(Keys)
    PROVE  \E c \in [0 .. Len(s) -> InState] :
             /\ c[0] = z /\ FoldLeft(normalise, z, s) = c[Len(s)]
             /\ \A k \in 1 .. Len(s) : c[k] = normalise(c[k - 1], s[k])
<1>. DEFINE n == Len(s)
            b == z
            U == InState
            Op(x, k) == normalise(x, s[k])
            h == [k \in 1 .. n |-> [x \in U |-> Op(x, k)]]
            F(g) == [t \in SUBSET (1 .. n) |-> IF t = {} THEN b ELSE Op(g[t \ {Max(t)}], Max(t))]
            f == CHOOSE g : g = F(g)
<1>0. n \in Nat
  OBVIOUS
<1>1. b \in U
  OBVIOUS
<1>2. ASSUME NEW x \in U, NEW k \in 1 .. n PROVE Op(x, k) \in U
  <2>1. s[k] \in Keys /\ x.cr_in \in {0, 1}
    BY DEF InState
  <2>2. x.cr_in = IF (IF x.cr_in = 1 THEN CR ELSE LF) = CR THEN 1 ELSE 0
    BY <2>1 DEF CR, LF
  <2>. QED  BY <2>1, <2>2, NormaliseFacts
<1>3. FoldLeft(normalise, z, s) = f[1 .. n]
  <2>1. DOMAIN s = 1 .. n
    OBVIOUS
  <2>. QED  BY <2>1 DEF FoldLeft, MapThenFoldSet
<1>. HIDE DEF n, b, U, Op
<1>4. h \in [1 .. n -> [U -> U]] /\ \A x \in U, k \in 1 .. n : h[k][x] = Op(x, k)
  BY <1>2
<1>. HIDE DEF h
<1>5. f = F(f)
  <2>1. PICK g \in [SUBSET (1 .. n) -> U] : IsFold(n, b, h, g)
    <3>1. h \in [1 .. n -> [U -> U]]
      BY <1>4
    <3>. QED  BY <1>0, <1>1, <3>1, FoldExists
  <2>2. ASSUME NEW t \in SUBSET (1 .. n)
        PROVE  g[t] = IF t = {} THEN b ELSE Op(g[t \ {Max(t)}], Max(t))
    <3>1. t # {} => Max(t) \in 1 .. n /\ t \ {Max(t)} \in SUBSET (1 .. n)
      BY <1>0, MaxIn
    <3>. QED  BY <1>4, <2>1, <3>1 DEF IsFold
  <2>3. g = F(g)
    BY <2>2
  <2>. HIDE DEF F
  <2>. QED  BY <2>3
<1>. HIDE DEF f
<1>6. /\ f[{}] = b
      /\ \A k \in 1 .. n : f[1 .. k] = Op(f[1 .. k - 1], k)
  <2>1. \A t \in SUBSET (1 .. n) : f[t] = IF t = {} THEN b ELSE Op(f[t \ {Max(t)}], Max(t))
    BY <1>5
  <2>2. f[{}] = b
    BY <2>1
  <2>3. ASSUME NEW k \in 1 .. n PROVE f[1 .. k] = Op(f[1 .. k - 1], k)
    <3>1. /\ 1 .. k \in SUBSET (1 .. n) /\ 1 .. k # {}
          /\ Max(1 .. k) = k /\ (1 .. k) \ {k} = 1 .. k - 1
      BY <1>0, Segments
    <3>. QED  BY <2>1, <3>1
  <2>. QED  BY <2>2, <2>3
<1>7. /\ f[1 .. 0] = b
      /\ \A k \in 1 .. n : f[1 .. k - 1] \in U => f[1 .. k] = h[k][f[1 .. k - 1]]
  BY <1>0, <1>4, <1>6, Segments
<1>8. PICK c \in [0 .. n -> U] : Run(n, b, h, c) /\ f[1 .. n] = c[n]
  <2>1. h \in [1 .. n -> [U -> U]]
    BY <1>4
  <2>2. Follows(n, U, b, h, f)
    BY <1>7 DEF Follows
  <2>. QED  BY <1>0, <1>1, <2>1, <2>2, FoldRun
<1>9. \A k \in 1 .. n : c[k] = Op(c[k - 1], k)
  <2>1. \A k \in 1 .. n : k - 1 \in 0 .. n
    BY <1>0
  <2>. QED  BY <1>4, <1>8, <2>1 DEF Run
<1>10. c[0] = b
  BY <1>8 DEF Run
<1>. QED  BY <1>3, <1>8, <1>9, <1>10 DEF n, b, U, Op

\* What ioterm_read makes of the bytes that follow the stream s.
LEMMA ReadFacts ==
    ASSUME NEW s \in Seq(Keys), NEW b \in Seq(Keys)
    PROVE  LET st == FoldLeft(normalise, [cr_in |-> CrOf(s), out |-> << >>], b) IN
           /\ st \in InState /\ st.cr_in = CrOf(s \o b)
           /\ Received(s) \o st.out = Received(s \o b)
<1>. DEFINE z == [cr_in |-> CrOf(s), out |-> << >>]
            n == Len(b)
            st == FoldLeft(normalise, z, b)
            u(k) == s \o SubSeq(b, 1, k)
<1>. SUFFICES /\ st \in InState /\ st.cr_in = CrOf(s \o b)
              /\ Received(s) \o st.out = Received(s \o b)
  OBVIOUS
<1>1. z \in InState /\ z.cr_in = CrOf(s) /\ z.out = << >>
  BY CrFacts DEF InState
<1>. HIDE DEF z
<1>2. PICK c \in [0 .. n -> InState] : /\ c[0] = z /\ st = c[n]
                                       /\ \A k \in 1 .. n : c[k] = normalise(c[k - 1], b[k])
  BY <1>1, NormaliseRun
<1>3. n \in Nat /\ u(0) = s /\ u(n) = s \o b
  <2>1. SubSeq(b, 1, 0) = << >> /\ SubSeq(b, 1, Len(b)) = b /\ s \o << >> = s
    BY SubSeqFull
  <2>. QED  BY <2>1
<1>4. ASSUME NEW k \in 1 .. n PROVE /\ u(k - 1) \in Seq(Keys) /\ b[k] \in Keys
                                    /\ u(k) = Append(u(k - 1), b[k])
  BY Longer
<1>. HIDE DEF u, n, st
<1>. DEFINE P(k) == c[k].cr_in = CrOf(u(k)) /\ Received(s) \o c[k].out = Received(u(k))
            T == {k \in Nat : k <= n => P(k)}
<1>5. 0 \in T
  <2>1. Received(s) \o << >> = Received(s)
    BY ReceivedAppend, ConcatEmptySeq
  <2>. QED  BY <1>1, <1>2, <1>3, <2>1
<1>6. ASSUME NEW k \in Nat, k \in T PROVE k + 1 \in T
  <2>. HIDE DEF P
  <2>. SUFFICES ASSUME k + 1 <= n PROVE P(k + 1)
    OBVIOUS
  <2>1. P(k)
    BY <1>3, <1>6
  <2>. DEFINE j == k + 1
              a == At(u(k), Len(u(k)))
              d == b[j]
  <2>2. j \in 1 .. n /\ j - 1 = k /\ k \in 0 .. n
    BY <1>3
  <2>. HIDE DEF j
  <2>3. u(k) \in Seq(Keys) /\ d \in Keys /\ u(j) = Append(u(k), d)
    BY <1>4, <2>2
  <2>4. c[j] = normalise(c[k], d) /\ c[k] \in InState
    BY <1>2, <2>2
  <2>5. c[k].cr_in = IF a = CR THEN 1 ELSE 0
    BY <2>1 DEF P, CrOf
  <2>. HIDE DEF a, d
  <2>6. c[j].cr_in = (IF d = CR THEN 1 ELSE 0) /\ c[j].out = c[k].out \o ReceivedPiece(a, d)
        /\ c[j] \in InState
    <3>. DEFINE y == c[k]
    <3>1. y \in InState /\ y.cr_in = IF a = CR THEN 1 ELSE 0
      BY <2>4, <2>5
    <3>. HIDE DEF y
    <3>2. /\ normalise(y, d) \in InState
          /\ normalise(y, d).cr_in = IF d = CR THEN 1 ELSE 0
          /\ normalise(y, d).out = y.out \o ReceivedPiece(a, d)
      BY <2>3, <3>1, NormaliseFacts
    <3>. QED  BY <2>4, <3>2 DEF y
  <2>7. c[j].cr_in = CrOf(u(j))
    BY <2>3, <2>6, CrFacts
  <2>8. Received(u(j)) = Received(u(k)) \o ReceivedPiece(a, d)
    BY <2>3, ReceivedAppend DEF a
  <2>9. Received(s) \o c[j].out = Received(u(j))
    <3>1. ReceivedPiece(a, d) \in Seq(Keys)
      BY <2>3, Pieces
    <3>2. Received(s) \in Seq(Keys) /\ c[k].out \in Seq(Keys)
      <4>1. c[k].out \in Seq(Keys \ {CR})
        BY <2>4 DEF InState
      <4>2. c[k].out \in Seq(Keys)
        BY <4>1, SeqMonotonic
      <4>. QED  BY <4>2, ReceivedAppend
    <3>. DEFINE o == c[k].out
                p == ReceivedPiece(a, d)
                r == Received(s)
    <3>3. r \o o = Received(u(k))
      BY <2>1 DEF P
    <3>4. c[j].out = o \o p
      BY <2>6
    <3>5. o \in Seq(Keys) /\ p \in Seq(Keys) /\ r \in Seq(Keys)
      BY <3>1, <3>2
    <3>. HIDE DEF o, p, r, T
    <3>6. (r \o o) \o p = r \o (o \o p)
      BY <3>5, Assoc, SMTT(30)
    <3>. QED  BY <2>8, <3>3, <3>4, <3>6 DEF p, r
  <2>. QED  BY <2>7, <2>9 DEF P, j
<1>. HIDE DEF T
<1>7. n \in T
  BY <1>3, <1>5, <1>6, NatSetInduction
<1>. HIDE DEF P
<1>8. P(n)
  BY <1>3, <1>7 DEF T
<1>9. c[n] \in InState
  BY <1>3
<1>. QED  BY <1>2, <1>3, <1>8, <1>9 DEF P
-----------------------------------------------------------------------------
(* Output: the raw interface *)

Raw == {r \in [kind : {"uart", "lit", "closed"}, buf : Seq(Keys), pos : Nat, size : Nat] :
          r.size = Len(r.buf) /\ r.pos <= r.size}

Full(r) == r.kind # "uart" /\ r.pos = r.size

OutState == [wp : Nat \ {0}, acc : Int, cr_out : {0, 1}, rawio : Raw, tx : Seq(Keys),
             done : BOOLEAN]

\* A write takes everything, or fills the literal.
LEMMA RawFacts ==
    ASSUME NEW r \in Raw, NEW s \in Seq(Keys)
    PROVE  LET w == iowrite_raw(r, s) IN
           /\ w.cnt \in 0 .. Len(s) /\ w.io \in Raw
           /\ w.cnt = Len(s) \/ Full(w.io)
           /\ Full(r) => w.cnt = 0
<1>0. /\ r.pos \in Nat /\ r.size \in Nat /\ r.pos <= r.size /\ r.buf \in Seq(Keys)
      /\ r.size = Len(r.buf) /\ r.kind \in {"uart", "lit", "closed"} /\ Len(s) \in Nat
  BY DEF Raw
<1>1. CASE r.kind = "uart"
  <2>1. iowrite_raw(r, s) = [cnt |-> Len(s), io |-> r]
    BY <1>1 DEF iowrite_raw
  <2>. QED  BY <1>0, <1>1, <2>1 DEF Full
<1>2. CASE r.kind # "uart"
  <2>. DEFINE n == Lesser(Len(s), r.size - r.pos)
              q == [i \in DOMAIN r.buf |-> IF i \in r.pos + 1 .. r.pos + n
                                           THEN s[i - r.pos] ELSE r.buf[i]]
              io == [kind |-> r.kind, buf |-> q, pos |-> r.pos + n, size |-> r.size]
  <2>1. n \in Nat /\ n <= Len(s) /\ r.pos + n <= r.size /\ (n = Len(s) \/ r.pos + n = r.size)
        /\ (r.pos = r.size => n = 0)
    BY <1>0 DEF Lesser
  <2>2. iowrite_raw(r, s) = [cnt |-> n, io |-> io]
    <3>1. r = [kind |-> r.kind, buf |-> r.buf, pos |-> r.pos, size |-> r.size]
      BY DEF Raw
    <3>. DEFINE g(z) == [i \in DOMAIN z |-> IF i \in r.pos + 1 .. r.pos + n
                                            THEN s[i - r.pos] ELSE z[i]]
    <3>2. iowrite_raw(r, s) = [cnt |-> n, io |-> [r EXCEPT !.pos = @ + n, !.buf = g(@)]]
      BY <1>2 DEF iowrite_raw, iolit_write
    <3>3. q = g(r.buf)
      OBVIOUS
    <3>. DEFINE p == r.pos + n
    <3>. HIDE DEF n, q, g
    <3>4. [r EXCEPT !.pos = @ + n, !.buf = g(@)] = [r EXCEPT !.pos = p, !.buf = q]
      BY <3>3
    <3>. HIDE DEF p
    <3>5. [r EXCEPT !.pos = p, !.buf = q] = [kind |-> r.kind, buf |-> q, pos |-> p, size |-> r.size]
      <4>. DEFINE k == r.kind
                  b == r.buf
                  o == r.pos
                  z == r.size
                  d == [kind |-> k, buf |-> b, pos |-> p, size |-> z]
      <4>1. r = [kind |-> k, buf |-> b, pos |-> o, size |-> z]
        BY <3>1
      <4>. HIDE DEF k, b, o, z
      <4>2. [r EXCEPT !.pos = p] = d
        BY <4>1
      <4>3. [d EXCEPT !.buf = q] = [kind |-> k, buf |-> q, pos |-> p, size |-> z]
        OBVIOUS
      <4>. HIDE DEF d
      <4>4. [r EXCEPT !.pos = p, !.buf = q] = [d EXCEPT !.buf = q]
        BY <4>2
      <4>5. [r EXCEPT !.pos = p, !.buf = q] = [kind |-> k, buf |-> q, pos |-> p, size |-> z]
        BY <4>3, <4>4
      <4>. QED  BY <4>5 DEF k, z
    <3>. QED  BY <3>2, <3>4, <3>5 DEF p
  <2>. HIDE DEF n
  <2>3. q \in Seq(Keys) /\ Len(q) = Len(r.buf)
    <3>1. DOMAIN r.buf = 1 .. Len(r.buf) /\ Len(r.buf) \in Nat
      BY <1>0
    <3>2. ASSUME NEW i \in 1 .. Len(r.buf) PROVE q[i] \in Keys
      <4>1. i \in r.pos + 1 .. r.pos + n => i - r.pos \in 1 .. Len(s)
        BY <1>0, <2>1
      <4>2. i \in r.pos + 1 .. r.pos + n => s[i - r.pos] \in Keys
        BY <4>1
      <4>. QED  BY <1>0, <3>1, <4>2
    <3>3. q \in [1 .. Len(r.buf) -> Keys]
      BY <3>1, <3>2
    <3>. HIDE DEF q
    <3>. QED  BY <3>1, <3>3
  <2>. HIDE DEF q
  <2>4. io \in Raw /\ (Full(io) <=> r.pos + n = r.size)
    BY <1>0, <1>2, <2>1, <2>3 DEF Raw, Full
  <2>. HIDE DEF io
  <2>. QED  BY <1>2, <2>1, <2>2, <2>4 DEF Full
<1>. QED  BY <1>1, <1>2

\* Flush has put out the first n bytes of s.
FlushedBy(x, s, y, n) ==
    /\ y.wp = x.wp + n /\ y.acc = x.acc + n /\ y.tx = x.tx \o SubSeq(s, 1, n)
    /\ y.done <=> n = 0
    /\ n = Len(s) \/ Full(y.rawio)
    /\ Full(x.rawio) => n = 0

Flushed(x, s, y) ==
    /\ y \in OutState /\ y.cr_out = x.cr_out /\ s \in Seq(Keys)
    /\ s = << >> => y = x
    /\ s # << >> => \E n \in 0 .. Len(s) : FlushedBy(x, s, y, n)

LEMMA FlushFacts ==
    ASSUME NEW x \in OutState, NEW b \in Seq(Keys), NEW u \in 0 .. Len(b)
    PROVE  Flushed(x, SubSeq(b, x.wp, u), Flush(x, b, u))
<1>. DEFINE s == SubSeq(b, x.wp, u)
            w == iowrite_raw(x.rawio, s)
            n == w.cnt
            y == Flush(x, b, u)
<1>. SUFFICES /\ y \in OutState /\ y.cr_out = x.cr_out /\ s \in Seq(Keys)
              /\ s = << >> => y = x
              /\ s # << >> => \E m \in 0 .. Len(s) : FlushedBy(x, s, y, m)
  BY DEF Flushed
<1>0. /\ x.wp \in Nat \ {0} /\ x.acc \in Int /\ x.cr_out \in {0, 1} /\ x.rawio \in Raw
      /\ x.tx \in Seq(Keys) /\ x.done \in BOOLEAN /\ Len(b) \in Nat
      /\ x = [wp |-> x.wp, acc |-> x.acc, cr_out |-> x.cr_out, rawio |-> x.rawio, tx |-> x.tx,
              done |-> x.done]
  BY DEF OutState
<1>1. s \in Seq(Keys)
  <2>1. \A i \in x.wp .. u : b[i] \in Keys
    BY <1>0
  <2>2. x.wp \in Int /\ u \in Int
    BY <1>0
  <2>. QED  BY <2>1, <2>2, SubSeqProperties
<1>2. CASE s = << >>
  <2>1. y = x
    BY <1>2 DEF Flush
  <2>. HIDE DEF y, s
  <2>. QED  BY <1>1, <1>2, <2>1
<1>3. CASE s # << >>
  <2>1. y = [x EXCEPT !.rawio = w.io, !.tx = @ \o SubSeq(s, 1, w.cnt),
                      !.acc = @ + w.cnt, !.wp = @ + w.cnt, !.done = w.cnt = 0]
    BY <1>3 DEF Flush
  <2>2. n \in 0 .. Len(s) /\ w.io \in Raw /\ (n = Len(s) \/ Full(w.io)) /\ (Full(x.rawio) => n = 0)
    BY <1>0, <1>1, RawFacts
  <2>. HIDE DEF w, s, y
  <2>3. SubSeq(s, 1, n) \in Seq(Keys)
    <3>1. \A i \in 1 .. n : s[i] \in Keys
      BY <1>1, <2>2
    <3>2. n \in Int /\ 1 \in Int
      BY <1>1, <2>2
    <3>. QED  BY <3>1, <3>2, SubSeqProperties
  <2>. DEFINE t == x.tx \o SubSeq(s, 1, n)
              f == n = 0
  <2>4. t \in Seq(Keys) /\ x.wp + n \in Nat \ {0} /\ x.acc + n \in Int /\ f \in BOOLEAN
    BY <1>0, <1>1, <2>2, <2>3
  <2>5. y = [wp |-> x.wp + n, acc |-> x.acc + n, cr_out |-> x.cr_out, rawio |-> w.io, tx |-> t,
             done |-> f]
    BY <1>0, <2>1
  <2>. HIDE DEF n, t, f
  <2>6. /\ y \in OutState /\ y.cr_out = x.cr_out /\ y.wp = x.wp + n /\ y.acc = x.acc + n
        /\ y.tx = t /\ y.done = f /\ y.rawio = w.io
    BY <1>0, <2>2, <2>4, <2>5 DEF OutState
  <2>7. \E m \in 0 .. Len(s) : FlushedBy(x, s, y, m)
    <3>1. y.done <=> n = 0
      BY <2>6 DEF f
    <3>2. FlushedBy(x, s, y, n)
      BY <2>2, <2>6, <3>1 DEF t, FlushedBy
    <3>. QED  BY <2>2, <3>2
  <2>. QED  BY <1>1, <1>3, <2>6, <2>7
<1>. QED  BY <1>2, <1>3

LEMMA PutFacts ==
    ASSUME NEW x \in OutState, NEW c \in Keys
    PROVE  LET y == ioputc_raw(x, c) IN
           /\ y \in OutState /\ y.cr_out = x.cr_out /\ y.wp = x.wp
           /\ x.done => y = x
           /\ Full(x.rawio) => y.done
           /\ ~y.done => y.tx = x.tx \o <<c>> /\ y.acc = x.acc
<1>. DEFINE w == iowrite_raw(x.rawio, <<c>>)
            n == w.cnt
            y == ioputc_raw(x, c)
<1>. SUFFICES /\ y \in OutState /\ y.cr_out = x.cr_out /\ y.wp = x.wp
              /\ x.done => y = x
              /\ Full(x.rawio) => y.done
              /\ ~y.done => y.tx = x.tx \o <<c>> /\ y.acc = x.acc
  OBVIOUS
<1>0. /\ x.wp \in Nat \ {0} /\ x.acc \in Int /\ x.cr_out \in {0, 1} /\ x.rawio \in Raw
      /\ x.tx \in Seq(Keys) /\ x.done \in BOOLEAN
      /\ x = [wp |-> x.wp, acc |-> x.acc, cr_out |-> x.cr_out, rawio |-> x.rawio, tx |-> x.tx,
              done |-> x.done]
  BY DEF OutState
<1>1. <<c>> \in Seq(Keys) /\ Len(<<c>>) = 1
  OBVIOUS
<1>2. CASE x.done
  <2>1. y = x
    BY <1>2 DEF ioputc_raw
  <2>. HIDE DEF y
  <2>. QED  BY <1>2, <2>1
<1>3. CASE ~x.done
  <2>1. y = [x EXCEPT !.rawio = w.io, !.tx = @ \o SubSeq(<<c>>, 1, w.cnt),
                      !.done = w.cnt = 0, !.acc = IF w.cnt = 0 THEN EIO ELSE @]
    BY <1>3 DEF ioputc_raw
  <2>2. n \in 0 .. 1 /\ w.io \in Raw /\ (Full(x.rawio) => n = 0)
    BY <1>0, <1>1, RawFacts
  <2>. HIDE DEF w, y
  <2>3. SubSeq(<<c>>, 1, n) \in Seq(Keys) /\ (n # 0 => SubSeq(<<c>>, 1, n) = <<c>>)
    <3>1. CASE n = 0
      <4>1. SubSeq(<<c>>, 1, n) = << >>
        BY <3>1, SubSeqEmpty
      <4>. QED  BY <3>1, <4>1
    <3>2. CASE n = 1
      <4>1. SubSeq(<<c>>, 1, n) = <<c>>
        BY <1>1, <3>2, SubSeqFull
      <4>. QED  BY <1>1, <4>1
    <3>. QED  BY <2>2, <3>1, <3>2
  <2>. DEFINE t == x.tx \o SubSeq(<<c>>, 1, n)
              f == n = 0
              a == IF n = 0 THEN EIO ELSE x.acc
  <2>4. t \in Seq(Keys) /\ a \in Int /\ f \in BOOLEAN
    BY <1>0, <1>1, <2>2, <2>3 DEF EIO
  <2>5. y = [wp |-> x.wp, acc |-> a, cr_out |-> x.cr_out, rawio |-> w.io, tx |-> t, done |-> f]
    BY <1>0, <2>1
  <2>6. (n # 0 => t = x.tx \o <<c>> /\ a = x.acc) /\ (f <=> n = 0)
    BY <2>3
  <2>. HIDE DEF n, t, f, a
  <2>7. /\ y \in OutState /\ y.cr_out = x.cr_out /\ y.wp = x.wp /\ y.acc = a
        /\ y.tx = t /\ y.done = f
    BY <1>0, <2>2, <2>4, <2>5 DEF OutState
  <2>. QED  BY <1>3, <2>2, <2>6, <2>7
<1>. QED  BY <1>2, <1>3

LEMMA SetCrFacts ==
    ASSUME NEW x \in OutState, NEW v \in {0, 1}
    PROVE  LET y == SetCr(x, v) IN
           /\ y \in OutState /\ y.wp = x.wp /\ y.acc = x.acc /\ y.tx = x.tx /\ y.done = x.done
           /\ y.rawio = x.rawio /\ (~x.done => y.cr_out = v)
<1>1. CASE x.done
  <2>1. SetCr(x, v) = x
    BY <1>1 DEF SetCr
  <2>. QED  BY <1>1, <2>1
<1>2. CASE ~x.done
  <2>1. SetCr(x, v) = [x EXCEPT !.cr_out = v]
    BY <1>2 DEF SetCr
  <2>. QED  BY <2>1 DEF OutState
<1>. QED  BY <1>1, <1>2
-----------------------------------------------------------------------------
(* Output: the scan *)

\* A part of the buffer, one character longer.
LEMMA Part ==
    ASSUME NEW b \in Seq(Keys), NEW k \in 0 .. Len(b), NEW w \in 1 .. k + 1
    PROVE  /\ SubSeq(b, w, k) \in Seq(Keys) /\ Len(SubSeq(b, w, k)) = k + 1 - w
           /\ w = k + 1 => SubSeq(b, w, k) = << >>
           /\ k < Len(b) => b[k + 1] \in Keys /\ SubSeq(b, w, k + 1) = SubSeq(b, w, k) \o <<b[k + 1]>>
<1>1. Len(b) \in Nat /\ k \in Int /\ w \in Int
  OBVIOUS
<1>2. SubSeq(b, w, k) \in Seq(Keys) /\ Len(SubSeq(b, w, k)) = k + 1 - w
  <2>1. \A i \in w .. k : b[i] \in Keys
    BY <1>1
  <2>2. SubSeq(b, w, k) \in Seq(Keys) /\ Len(SubSeq(b, w, k)) = IF w <= k THEN k - w + 1 ELSE 0
    BY <1>1, <2>1, SubSeqProperties
  <2>. QED  BY <1>1, <2>2
<1>3. ASSUME w = k + 1 PROVE SubSeq(b, w, k) = << >>
  BY <1>1, <1>3, SubSeqEmpty
<1>4. ASSUME k < Len(b) PROVE b[k + 1] \in Keys /\ SubSeq(b, w, k + 1) = SubSeq(b, w, k) \o <<b[k + 1]>>
  <2>. DEFINE j == k + 1
  <2>1. j \in 1 .. Len(b) /\ w \in 1 .. Len(b) /\ w <= j /\ j - 1 = k
    BY <1>1, <1>4
  <2>2. SubSeq(b, w, j) = SubSeq(b, w, j - 1) \o <<b[j]>>
    BY <2>1, SubSeqRecursiveSecond
  <2>. QED  BY <2>1, <2>2
<1>. QED  BY <1>2, <1>3, <1>4

\* A flush and a byte more, when neither falls short.
LEMMA PutAfter ==
    ASSUME NEW x \in OutState, NEW b \in Seq(Keys), NEW u \in 0 .. Len(b), NEW c \in Keys,
           x.wp \in 1 .. u + 1, ~x.done
    PROVE  LET z == ioputc_raw(Flush(x, b, u), c) IN
           /\ z \in OutState
           /\ ~z.done => /\ z.wp = u + 1 /\ z.acc = x.acc + (u + 1 - x.wp)
                         /\ z.tx = (x.tx \o SubSeq(b, x.wp, u)) \o <<c>>
<1>. DEFINE s == SubSeq(b, x.wp, u)
            y == Flush(x, b, u)
            z == ioputc_raw(y, c)
<1>. SUFFICES /\ z \in OutState
              /\ ~z.done => /\ z.wp = u + 1 /\ z.acc = x.acc + (u + 1 - x.wp)
                            /\ z.tx = (x.tx \o s) \o <<c>>
  OBVIOUS
<1>0. x.tx \in Seq(Keys) /\ x.acc \in Int /\ x.wp \in Nat /\ u \in Nat
  BY DEF OutState
<1>1. s \in Seq(Keys) /\ Len(s) = u + 1 - x.wp
  BY Part
<1>2. /\ y \in OutState
      /\ s = << >> => y = x
      /\ s # << >> => \E n \in 0 .. Len(s) : FlushedBy(x, s, y, n)
  BY FlushFacts DEF Flushed
<1>. HIDE DEF y, s
<1>3. /\ z \in OutState /\ z.wp = y.wp
      /\ y.done => z = y
      /\ Full(y.rawio) => z.done
      /\ ~z.done => z.tx = y.tx \o <<c>> /\ z.acc = y.acc
  BY <1>2, PutFacts
<1>. HIDE DEF z
<1>. SUFFICES ASSUME ~z.done PROVE /\ z.wp = u + 1 /\ z.acc = x.acc + (u + 1 - x.wp)
                                   /\ z.tx = (x.tx \o s) \o <<c>>
  BY <1>3
<1>4. CASE s = << >>
  <2>1. y = x /\ Len(s) = 0 /\ x.tx \o s = x.tx
    BY <1>0, <1>2, <1>4, Joins
  <2>2. z.wp = u + 1 /\ z.acc = x.acc + (u + 1 - x.wp)
    <3>1. z.wp = x.wp /\ z.acc = x.acc /\ u + 1 - x.wp = 0
      BY <1>1, <1>3, <2>1
    <3>. QED  BY <1>0, <3>1
  <2>3. z.tx = x.tx \o <<c>>
    BY <1>3, <2>1
  <2>. QED  BY <2>1, <2>2, <2>3
<1>5. CASE s # << >>
  <2>1. PICK n \in 0 .. Len(s) : FlushedBy(x, s, y, n)
    BY <1>2, <1>5
  <2>2. n = Len(s)
    BY <1>3, <2>1 DEF FlushedBy
  <2>3. SubSeq(s, 1, n) = s
    BY <1>1, <2>2, SubSeqFull
  <2>4. z.wp = u + 1 /\ z.acc = x.acc + (u + 1 - x.wp)
    <3>1. z.wp = x.wp + n /\ z.acc = x.acc + n /\ n = u + 1 - x.wp
      BY <1>1, <1>3, <2>1, <2>2 DEF FlushedBy
    <3>. QED  BY <1>0, <3>1
  <2>5. z.tx = (x.tx \o s) \o <<c>>
    BY <1>3, <2>1, <2>3 DEF FlushedBy
  <2>. QED  BY <2>4, <2>5
<1>. QED  BY <1>4, <1>5

\* What one turn of the scan does.
Turn(b, x, i, d, y) ==
    /\ y \in OutState
    /\ x.done => y = x
    /\ ~x.done /\ d = CR /\ At(b, i + 1) = LF => y = SetCr(x, 0)
    /\ ~x.done /\ d = CR /\ At(b, i + 1) # LF => y = SetCr(ioputc_raw(Flush(x, b, i), LF), 1)
    /\ ~x.done /\ d = LF /\ At(b, i - 1) = CR => y = x
    /\ ~x.done /\ d = LF /\ At(b, i - 1) # CR /\ x.cr_out = 1 =>
         y = [x EXCEPT !.cr_out = 0, !.wp = @ + 1]
    /\ ~x.done /\ d = LF /\ At(b, i - 1) # CR /\ x.cr_out = 0 =>
         y = SetCr(ioputc_raw(Flush(x, b, i - 1), CR), 0)
    /\ ~x.done /\ d \notin {CR, LF} => y = SetCr(x, 0)

LEMMA ScanFacts ==
    ASSUME NEW x \in OutState, NEW b \in Seq(Keys), NEW i \in 1 .. Len(b)
    PROVE  Turn(b, x, i, b[i], scan(b, x, i))
<1>. DEFINE y == scan(b, x, i)
            A == b[i] = CR
            B == b[i] = LF
            N == At(b, i + 1) = LF
            Q == At(b, i - 1) = CR
            v1 == SetCr(x, 0)
            v2 == SetCr(ioputc_raw(Flush(x, b, i), LF), 1)
            v4 == [x EXCEPT !.cr_out = 0, !.wp = @ + 1]
            v5 == SetCr(ioputc_raw(Flush(x, b, i - 1), CR), 0)
<1>. SUFFICES /\ y \in OutState
              /\ x.done => y = x
              /\ ~x.done /\ A /\ N => y = v1
              /\ ~x.done /\ A /\ ~N => y = v2
              /\ ~x.done /\ B /\ Q => y = x
              /\ ~x.done /\ B /\ ~Q /\ x.cr_out = 1 => y = v4
              /\ ~x.done /\ B /\ ~Q /\ x.cr_out = 0 => y = v5
              /\ ~x.done /\ ~A /\ ~B => y = v1
  BY DEF Turn
<1>1. y = IF x.done THEN x
          ELSE CASE A /\ N -> v1 [] A /\ ~N -> v2 [] B /\ Q -> x
                 [] B /\ ~Q /\ x.cr_out = 1 -> v4 [] B /\ ~Q /\ x.cr_out = 0 -> v5 [] OTHER -> v1
  BY DEF scan
<1>2. ~(A /\ B) /\ x.cr_out \in {0, 1}
  BY DEF CR, LF, OutState
<1>3. v1 \in OutState
  BY SetCrFacts
<1>4. v2 \in OutState
  <2>1. LF \in Keys /\ i \in 0 .. Len(b)
    BY DEF Keys
  <2>2. Flush(x, b, i) \in OutState
    BY <2>1, FlushFacts DEF Flushed
  <2>3. ioputc_raw(Flush(x, b, i), LF) \in OutState
    BY <2>1, <2>2, PutFacts
  <2>. QED  BY <2>3, SetCrFacts
<1>5. v4 \in OutState
  <2>1. x.wp + 1 \in Nat \ {0} /\ 0 \in {0, 1}
    BY DEF OutState
  <2>. DEFINE w == x.wp + 1
  <2>2. v4 = [x EXCEPT !.cr_out = 0, !.wp = w]
    OBVIOUS
  <2>. HIDE DEF w, v4
  <2>3. [x EXCEPT !.cr_out = 0] \in OutState
    BY <2>1 DEF OutState
  <2>4. [[x EXCEPT !.cr_out = 0] EXCEPT !.wp = w] \in OutState
    BY <2>1, <2>3 DEF w, OutState
  <2>. QED  BY <2>2, <2>4
<1>6. v5 \in OutState
  <2>1. CR \in Keys /\ i - 1 \in 0 .. Len(b)
    BY DEF Keys
  <2>2. Flush(x, b, i - 1) \in OutState
    BY <2>1, FlushFacts DEF Flushed
  <2>3. ioputc_raw(Flush(x, b, i - 1), CR) \in OutState
    BY <2>1, <2>2, PutFacts
  <2>. QED  BY <2>3, SetCrFacts
<1>. HIDE DEF y, A, B, N, Q, v1, v2, v4, v5
<1>. QED  BY <1>1, <1>2, <1>3, <1>4, <1>5, <1>6
\* The states the scan of a buffer goes through.
Scan(buf, x) == FoldLeft(LAMBDA st, i : scan(buf, st, i), x, [i \in DOMAIN buf |-> i])

LEMMA ScanRun ==
    ASSUME NEW z \in OutState, NEW s \in Seq(Keys)
    PROVE  \E c \in [0 .. Len(s) -> OutState] :
             /\ c[0] = z /\ Scan(s, z) = c[Len(s)]
             /\ \A k \in 1 .. Len(s) : c[k] = scan(s, c[k - 1], k)
<1>. DEFINE IndexSeq == [i \in DOMAIN s |-> i]
<1>. DEFINE n == Len(s)
            b == z
            U == OutState
            Op(x, k) == scan(s, x, IndexSeq[k])
            h == [k \in 1 .. n |-> [x \in U |-> Op(x, k)]]
            F(g) == [t \in SUBSET (1 .. n) |-> IF t = {} THEN b ELSE Op(g[t \ {Max(t)}], Max(t))]
            f == CHOOSE g : g = F(g)
<1>0. n \in Nat
  OBVIOUS
<1>1. b \in U
  OBVIOUS
<1>2. ASSUME NEW x \in U, NEW k \in 1 .. n PROVE Op(x, k) \in U
  <2>1. IndexSeq[k] = k
    OBVIOUS
  <2>2. scan(s, x, k) \in OutState
    BY ScanFacts DEF Turn
  <2>. HIDE DEF IndexSeq
  <2>. QED  BY <2>1, <2>2
<1>3. Scan(s, z) = f[1 .. n]
  <2>1. DOMAIN s = 1 .. n /\ DOMAIN IndexSeq = 1 .. n
    OBVIOUS
  <2>. HIDE DEF IndexSeq
  <2>2. Scan(s, z) = FoldLeft(LAMBDA st, i : scan(s, st, i), z, IndexSeq)
    BY DEF Scan, IndexSeq
  <2>. QED  BY <2>1, <2>2 DEF FoldLeft, MapThenFoldSet
<1>. HIDE DEF n, b, U, Op
<1>4. h \in [1 .. n -> [U -> U]] /\ \A x \in U, k \in 1 .. n : h[k][x] = Op(x, k)
  BY <1>2
<1>. HIDE DEF h
<1>5. f = F(f)
  <2>1. PICK g \in [SUBSET (1 .. n) -> U] : IsFold(n, b, h, g)
    <3>1. h \in [1 .. n -> [U -> U]]
      BY <1>4
    <3>. QED  BY <1>0, <1>1, <3>1, FoldExists
  <2>2. ASSUME NEW t \in SUBSET (1 .. n)
        PROVE  g[t] = IF t = {} THEN b ELSE Op(g[t \ {Max(t)}], Max(t))
    <3>1. t # {} => Max(t) \in 1 .. n /\ t \ {Max(t)} \in SUBSET (1 .. n)
      BY <1>0, MaxIn
    <3>. QED  BY <1>4, <2>1, <3>1 DEF IsFold
  <2>3. g = F(g)
    BY <2>2
  <2>. HIDE DEF F
  <2>. QED  BY <2>3
<1>. HIDE DEF f
<1>6. /\ f[{}] = b
      /\ \A k \in 1 .. n : f[1 .. k] = Op(f[1 .. k - 1], k)
  <2>1. \A t \in SUBSET (1 .. n) : f[t] = IF t = {} THEN b ELSE Op(f[t \ {Max(t)}], Max(t))
    BY <1>5
  <2>2. f[{}] = b
    BY <2>1
  <2>3. ASSUME NEW k \in 1 .. n PROVE f[1 .. k] = Op(f[1 .. k - 1], k)
    <3>1. /\ 1 .. k \in SUBSET (1 .. n) /\ 1 .. k # {}
          /\ Max(1 .. k) = k /\ (1 .. k) \ {k} = 1 .. k - 1
      BY <1>0, Segments
    <3>. QED  BY <2>1, <3>1
  <2>. QED  BY <2>2, <2>3
<1>7. /\ f[1 .. 0] = b
      /\ \A k \in 1 .. n : f[1 .. k - 1] \in U => f[1 .. k] = h[k][f[1 .. k - 1]]
  BY <1>0, <1>4, <1>6, Segments
<1>8. PICK c \in [0 .. n -> U] : Run(n, b, h, c) /\ f[1 .. n] = c[n]
  <2>1. h \in [1 .. n -> [U -> U]]
    BY <1>4
  <2>2. Follows(n, U, b, h, f)
    BY <1>7 DEF Follows
  <2>. QED  BY <1>0, <1>1, <2>1, <2>2, FoldRun
<1>9. \A k \in 1 .. n : c[k] = Op(c[k - 1], k)
  <2>1. \A k \in 1 .. n : k - 1 \in 0 .. n
    BY <1>0
  <2>. QED  BY <1>4, <1>8, <2>1 DEF Run
<1>10. c[0] = b
  BY <1>8 DEF Run
<1>11. \A k \in 1 .. n : Op(c[k - 1], k) = scan(s, c[k - 1], k)
  <2>1. \A k \in 1 .. n : IndexSeq[k] = k
    BY DEF n
  <2>. HIDE DEF IndexSeq
  <2>. QED  BY <2>1 DEF Op
<1>. HIDE DEF Op
<1>12. \A k \in 1 .. n : c[k] = scan(s, c[k - 1], k)
  BY <1>9, <1>11
<1>13. Scan(s, z) = c[n]
  BY <1>3, <1>8, Zenon
<1>. QED  BY <1>8, <1>10, <1>12, <1>13 DEF n, b, U
\* The \r at k is handled together with the \n after it.
Pair(b, k) == k > 0 /\ b[k] = CR /\ At(b, k + 1) = LF

\* The \n the buffer starts with ends the \r \n of an earlier call.
Skip(P, b, k) == IF k > 0 /\ b[1] = LF /\ CrOf(P) = 1 THEN 1 ELSE 0

Stream(P, b, k) == P \o SubSeq(b, 1, k)

\* The state after k characters of b, which follow the stream P: the bytes that
\* the raw interface has got and the ones not yet flushed are what the stream means.
Scanned(P, b, x, k) ==
    /\ x.wp \in 1 .. k + 1
    /\ x.acc = x.wp - 1 - Skip(P, b, k) /\ x.acc \in Nat
    /\ Pair(b, k) => /\ x.cr_out = 0
                     /\ (x.tx \o SubSeq(b, x.wp, k)) \o <<LF>> = Sent(Stream(P, b, k))
    /\ ~Pair(b, k) => /\ x.cr_out = CrOf(Stream(P, b, k))
                      /\ x.tx \o SubSeq(b, x.wp, k) = Sent(Stream(P, b, k))
    /\ k > 0 /\ b[k] = CR /\ ~Pair(b, k) => x.wp = k + 1

\* The characters around position i = k + 1: d there, u before it, a the last of those.
Around(P, b, k, i, d, u, a) ==
    /\ d \in Keys /\ u \in Seq(Keys) /\ Sent(u) \in Seq(Keys)
    /\ Sent(Stream(P, b, i)) = Sent(u) \o SentPiece(a, d)
    /\ CrOf(Stream(P, b, i)) = IF d = CR THEN 1 ELSE 0
    /\ CrOf(u) = 1 <=> a = CR
    /\ At(b, i - 1) = CR <=> k > 0 /\ b[k] = CR
    /\ k > 0 => a = b[k]
    /\ Pair(b, i) <=> d = CR /\ At(b, i + 1) = LF
    /\ Pair(b, k) <=> k > 0 /\ b[k] = CR /\ d = LF
    /\ k > 0 => Skip(P, b, i) = Skip(P, b, k)
    /\ k = 0 => u = P /\ Skip(P, b, k) = 0
    /\ Skip(P, b, i) = IF b[1] = LF /\ CrOf(P) = 1 THEN 1 ELSE 0

LEMMA StreamFacts ==
    ASSUME NEW P \in Seq(Keys), NEW b \in Seq(Keys), NEW k \in 0 .. Len(b) - 1, NEW i, NEW d, NEW u, NEW a,
           i = k + 1, d = b[i], u = Stream(P, b, k), a = At(u, Len(u))
    PROVE  Around(P, b, k, i, d, u, a)
<1>0. Len(b) \in Nat /\ k \in Nat /\ i \in 1 .. Len(b) /\ i - 1 = k /\ i > 0
  OBVIOUS
<1>1. d \in Keys /\ u \in Seq(Keys) /\ Stream(P, b, i) = Append(u, d)
  BY <1>0, Longer DEF Stream
<1>2. Sent(Stream(P, b, i)) = Sent(u) \o SentPiece(a, d) /\ Sent(u) \in Seq(Keys)
  <2>. QED  BY <1>1, SentAppend
<1>3. CrOf(Stream(P, b, i)) = IF d = CR THEN 1 ELSE 0
  <2>1. CrOf(Append(u, d)) = IF d = CR THEN 1 ELSE 0
    BY <1>1, CrFacts, Zenon
  <2>. QED  BY <1>1, <2>1, Zenon
<1>4. CrOf(u) = 1 <=> a = CR
  BY DEF CrOf
<1>5. At(b, i - 1) = CR <=> k > 0 /\ b[k] = CR
  <2>1. k \in DOMAIN b <=> k > 0
    BY <1>0
  <2>. QED  BY <1>0, <2>1 DEF At, BLANK, CR
<1>6. ASSUME k > 0 PROVE a = b[k]
  <2>1. k \in 1 .. Len(b)
    BY <1>0, <1>6
  <2>. DEFINE v == P \o SubSeq(b, 1, k - 1)
  <2>2. v \in Seq(Keys) /\ b[k] \in Keys /\ u = Append(v, b[k])
    BY <2>1, Longer DEF Stream
  <2>. HIDE DEF v
  <2>3. Len(u) \in DOMAIN u /\ u[Len(u)] = b[k]
    BY <2>2
  <2>. QED  BY <2>3 DEF At
<1>7. Pair(b, i) <=> d = CR /\ At(b, i + 1) = LF
  BY <1>0 DEF Pair
<1>8. Pair(b, k) <=> k > 0 /\ b[k] = CR /\ d = LF
  <2>1. At(b, k + 1) = d
    BY <1>0 DEF At
  <2>. QED  BY <2>1 DEF Pair
<1>9. (k > 0 => Skip(P, b, i) = Skip(P, b, k)) /\ (k = 0 => Skip(P, b, k) = 0)
      /\ Skip(P, b, i) = IF b[1] = LF /\ CrOf(P) = 1 THEN 1 ELSE 0
  BY <1>0 DEF Skip
<1>10. ASSUME k = 0 PROVE u = P
  <2>1. SubSeq(b, 1, k) = << >>
    BY <1>10, SubSeqEmpty
  <2>. QED  BY <2>1, Joins DEF Stream
<1>. QED  BY <1>1, <1>2, <1>3, <1>4, <1>5, <1>6, <1>7, <1>8, <1>9, <1>10 DEF Around
\* One more character keeps this relation.
LEMMA ScanStep ==
    ASSUME NEW P \in Seq(Keys), NEW b \in Seq(Keys), NEW k \in 0 .. Len(b) - 1, NEW x \in OutState,
           ~x.done, Scanned(P, b, x, k), ~scan(b, x, k + 1).done
    PROVE  Scanned(P, b, scan(b, x, k + 1), k + 1)
<1>. DEFINE i == k + 1
            d == b[i]
            u == Stream(P, b, k)
            v == Stream(P, b, i)
            a == At(u, Len(u))
            y == scan(b, x, i)
            s == SubSeq(b, x.wp, k)
            t == x.tx
            S == Sent(u)
            sk == Skip(P, b, k)
            si == Skip(P, b, i)
<1>. SUFFICES Scanned(P, b, y, i)
  OBVIOUS
<1>0. /\ k \in Nat /\ i \in 1 .. Len(b) /\ i \in Nat /\ i = k + 1 /\ k \in 0 .. Len(b)
      /\ k < Len(b) /\ i - 1 = k /\ Len(b) \in Nat
  OBVIOUS
<1>1. /\ d \in Keys /\ u \in Seq(Keys) /\ S \in Seq(Keys)
      /\ Sent(v) = S \o SentPiece(a, d)
      /\ CrOf(v) = IF d = CR THEN 1 ELSE 0
      /\ CrOf(u) = 1 <=> a = CR
      /\ At(b, i - 1) = CR <=> k > 0 /\ b[k] = CR
      /\ k > 0 => a = b[k]
      /\ Pair(b, i) <=> d = CR /\ At(b, i + 1) = LF
      /\ Pair(b, k) <=> k > 0 /\ b[k] = CR /\ d = LF
      /\ k > 0 => si = sk
      /\ k = 0 => u = P /\ sk = 0
      /\ si = IF b[1] = LF /\ CrOf(P) = 1 THEN 1 ELSE 0
  <2>1. Around(P, b, k, i, d, u, a)
    BY StreamFacts
  <2>. HIDE DEF i, d, u, a
  <2>. QED  BY <2>1 DEF Around
<1>2. /\ x.wp \in 1 .. k + 1 /\ x.acc = x.wp - 1 - sk /\ x.acc \in Nat
      /\ Pair(b, k) => x.cr_out = 0 /\ (t \o s) \o <<LF>> = S
      /\ ~Pair(b, k) => x.cr_out = CrOf(u) /\ t \o s = S
  BY DEF Scanned
<1>3. /\ s \in Seq(Keys) /\ Len(s) = k + 1 - x.wp /\ SubSeq(b, x.wp, i) = s \o <<d>>
      /\ (x.wp = k + 1 => s = << >>)
  BY <1>0, <1>2, Part
<1>4. /\ y \in OutState
      /\ d = CR /\ At(b, i + 1) = LF => y = SetCr(x, 0)
      /\ d = CR /\ At(b, i + 1) # LF => y = SetCr(ioputc_raw(Flush(x, b, i), LF), 1)
      /\ d = LF /\ At(b, i - 1) = CR => y = x
      /\ d = LF /\ At(b, i - 1) # CR /\ x.cr_out = 1 => y = [x EXCEPT !.cr_out = 0, !.wp = @ + 1]
      /\ d = LF /\ At(b, i - 1) # CR /\ x.cr_out = 0 =>
           y = SetCr(ioputc_raw(Flush(x, b, i - 1), CR), 0)
      /\ d \notin {CR, LF} => y = SetCr(x, 0)
  <2>1. i \in 1 .. Len(b) /\ ~x.done
    BY <1>0
  <2>2. Turn(b, x, i, d, y)
    BY <2>1, ScanFacts
  <2>. HIDE DEF i, d, y
  <2>. QED  BY <2>1, <2>2 DEF Turn
<1>5. ~y.done /\ CR # LF /\ t \in Seq(Keys) /\ x.acc \in Int /\ x.cr_out \in {0, 1}
      /\ <<CR>> \in Seq(Keys) /\ <<LF>> \in Seq(Keys) /\ <<CR>> \o <<LF>> = <<CR, LF>>
      /\ CR \in Keys /\ LF \in Keys
  <2>1. CR # LF /\ CR \in Keys /\ LF \in Keys
    BY DEF CR, LF, Keys
  <2>2. t \in Seq(Keys) /\ x.acc \in Int /\ x.cr_out \in {0, 1}
    BY DEF OutState
  <2>3. <<CR>> \in Seq(Keys) /\ <<LF>> \in Seq(Keys) /\ <<CR>> \o <<LF>> = <<CR, LF>>
    <3>1. <<CR>> \o <<LF>> = Append(<<CR>>, LF) /\ <<CR, LF>> = Append(<<CR>>, LF)
      BY <2>1
    <3>2. <<CR>> \in Seq(Keys) /\ <<LF>> \in Seq(Keys)
      BY <2>1
    <3>. QED  BY <3>1, <3>2, Zenon
  <2>. QED  BY <2>1, <2>2, <2>3
<1>6. t \o s \in Seq(Keys) /\ <<d>> \in Seq(Keys) /\ sk \in {0, 1} /\ si \in {0, 1}
  <2>1. sk \in {0, 1} /\ si \in {0, 1}
    BY DEF Skip
  <2>2. \A e, g \in Seq(Keys) : e \o g \in Seq(Keys)
    BY Joins
  <2>. HIDE DEF s, t, d, sk, si
  <2>3. <<d>> \in Seq(Keys)
    BY <1>1
  <2>4. t \o s \in Seq(Keys)
    BY <1>3, <1>5, <2>2
  <2>. QED  BY <2>1, <2>3, <2>4
<1>7. b[1] = d \/ k > 0
  BY <1>0
<1>. HIDE DEF i, d, u, v, a, y, s, t, S, sk, si
<1>8. (t \o (s \o <<d>>)) = (t \o s) \o <<d>>
  <2>1. t \in Seq(Keys) /\ s \in Seq(Keys) /\ <<d>> \in Seq(Keys)
    BY <1>3, <1>5, <1>6, Zenon
  <2>. QED  BY <2>1, Assoc, SMTT(30)
<1>9. (S \o <<CR>>) \o <<LF>> = S \o <<CR, LF>> /\ S \o << >> = S
  <2>. DEFINE c == <<CR>>
              l == <<LF>>
  <2>1. c \in Seq(Keys) /\ l \in Seq(Keys) /\ c \o l = <<CR, LF>>
    BY <1>5
  <2>. HIDE DEF c, l
  <2>2. (S \o c) \o l = S \o (c \o l) /\ S \o << >> = S
    <3>1. (S \o c) \o l = S \o (c \o l)
      <4>1. S \in Seq(Keys)
        BY <1>1
      <4>. QED  BY <2>1, <4>1, Assoc
    <3>2. S \o << >> = S
      BY <1>1, Joins
    <3>. QED  BY <3>1, <3>2
  <2>. QED  BY <2>1, <2>2 DEF c, l
<1>10. CASE d = CR /\ At(b, i + 1) = LF
  <2>1. y = SetCr(x, 0)
    BY <1>4, <1>10
  <2>2. y.wp = x.wp /\ y.acc = x.acc /\ y.tx = t /\ y.cr_out = 0
    BY <2>1, SetCrFacts DEF t
  <2>3. Pair(b, i) /\ ~Pair(b, k)
    BY <1>1, <1>5, <1>10
  <2>4. SentPiece(a, d) = <<CR, LF>>
    BY <1>5, <1>10 DEF SentPiece
  <2>5. (y.tx \o SubSeq(b, y.wp, i)) \o <<LF>> = Sent(v)
    BY <1>1, <1>2, <1>3, <1>8, <1>9, <1>10, <2>2, <2>3, <2>4
  <2>6. si = sk
    BY <1>0, <1>1, <1>5, <1>7, <1>10
  <2>7. y.wp \in 1 .. i + 1 /\ y.acc = y.wp - 1 - si /\ y.acc \in Nat
    BY <1>0, <1>2, <2>2, <2>6
  <2>. QED  BY <2>2, <2>3, <2>5, <2>7 DEF Scanned, v, si
<1>11. CASE d = CR /\ At(b, i + 1) # LF
  <2>. DEFINE z == ioputc_raw(Flush(x, b, i), LF)
  <2>1. y = SetCr(z, 1)
    BY <1>4, <1>11
  <2>2. /\ z \in OutState
        /\ ~z.done => /\ z.wp = i + 1 /\ z.acc = x.acc + (i + 1 - x.wp)
                      /\ z.tx = (t \o (s \o <<d>>)) \o <<LF>>
    <3>1. i \in 0 .. Len(b) /\ x.wp \in 1 .. i + 1
      BY <1>0, <1>2
    <3>2. /\ z \in OutState
          /\ ~z.done => /\ z.wp = i + 1 /\ z.acc = x.acc + (i + 1 - x.wp)
                        /\ z.tx = (x.tx \o SubSeq(b, x.wp, i)) \o <<LF>>
      BY <1>5, <3>1, PutAfter
    <3>. QED  BY <1>3, <3>2 DEF t
  <2>. HIDE DEF z
  <2>3. y.wp = z.wp /\ y.acc = z.acc /\ y.tx = z.tx /\ y.done = z.done
    BY <2>1, <2>2, SetCrFacts
  <2>4. y.cr_out = 1 /\ ~z.done
    <3>1. ~z.done
      BY <1>5, <2>3
    <3>. QED  BY <2>1, <2>2, <3>1, SetCrFacts
  <2>5. ~Pair(b, i) /\ ~Pair(b, k)
    BY <1>1, <1>5, <1>11
  <2>6. SentPiece(a, d) = <<CR, LF>>
    BY <1>5, <1>11 DEF SentPiece
  <2>7. y.tx = Sent(v) /\ y.tx \in Seq(Keys)
    <3>1. y.tx = Sent(v)
      BY <1>1, <1>2, <1>8, <1>9, <1>11, <2>2, <2>3, <2>4, <2>5, <2>6
    <3>. QED  BY <1>4, <3>1 DEF OutState
  <2>8. y.tx \o SubSeq(b, y.wp, i) = Sent(v)
    <3>1. SubSeq(b, i + 1, i) = << >>
      BY <1>0, SubSeqEmpty
    <3>2. y.wp = i + 1
      BY <2>2, <2>3, <2>4
    <3>3. SubSeq(b, y.wp, i) = << >>
      BY <3>1, <3>2
    <3>4. y.tx \o << >> = y.tx
      BY <2>7, Joins
    <3>. QED  BY <2>7, <3>3, <3>4
  <2>9. si = sk
    BY <1>0, <1>1, <1>5, <1>7, <1>11
  <2>10. y.wp \in 1 .. i + 1 /\ y.acc = y.wp - 1 - si /\ y.acc \in Nat /\ y.wp = i + 1
    <3>1. y.wp = i + 1 /\ y.acc = x.acc + (i + 1 - x.wp)
      BY <2>2, <2>3, <2>4
    <3>2. x.wp \in Nat /\ sk \in Int
      BY <1>0, <1>2, <1>6
    <3>3. i \in Nat /\ x.acc = x.wp - 1 - sk /\ x.acc \in Nat /\ x.wp <= i
      BY <1>0, <1>2
    <3>4. ASSUME NEW w \in Nat, NEW g \in {0, 1}, NEW j \in Nat, NEW c \in Nat, c = w - 1 - g, w <= j
          PROVE  c + (j + 1 - w) = (j + 1) - 1 - g /\ c + (j + 1 - w) \in Nat
      BY <3>4
    <3>5. i + 1 \in 1 .. i + 1
      BY <3>3
    <3>6. x.acc + (i + 1 - x.wp) = (i + 1) - 1 - sk /\ x.acc + (i + 1 - x.wp) \in Nat
      BY <1>6, <3>2, <3>3, <3>4
    <3>. QED  BY <2>9, <3>1, <3>5, <3>6
  <2>11. y.cr_out = CrOf(v)
    BY <1>1, <1>11, <2>4
  <2>. QED  BY <2>5, <2>8, <2>10, <2>11 DEF Scanned, v, si
<1>12. CASE d = LF /\ At(b, i - 1) = CR
  <2>1. y = x
    BY <1>4, <1>12
  <2>2. ~Pair(b, i) /\ Pair(b, k) /\ k > 0 /\ a = CR
    BY <1>1, <1>5, <1>12
  <2>3. SentPiece(a, d) = << >>
    BY <1>5, <1>12, <2>2 DEF SentPiece
  <2>4. y.tx \o SubSeq(b, y.wp, i) = Sent(v)
    BY <1>1, <1>2, <1>3, <1>8, <1>9, <1>12, <2>1, <2>2, <2>3 DEF t
  <2>5. y.cr_out = CrOf(v)
    BY <1>1, <1>2, <1>5, <1>12, <2>1, <2>2
  <2>6. y.wp \in 1 .. i + 1 /\ y.acc = y.wp - 1 - si /\ y.acc \in Nat
    BY <1>0, <1>1, <1>2, <2>1, <2>2
  <2>7. b[i] # CR
    BY <1>5, <1>12 DEF d
  <2>. QED  BY <2>2, <2>4, <2>5, <2>6, <2>7 DEF Scanned, v, si
<1>13. CASE d = LF /\ At(b, i - 1) # CR /\ x.cr_out = 1
  <2>1. y = [x EXCEPT !.cr_out = 0, !.wp = @ + 1]
    BY <1>4, <1>13
  <2>2. y.cr_out = 0 /\ y.wp = x.wp + 1 /\ y.tx = t /\ y.acc = x.acc
    BY <2>1 DEF OutState, t
  <2>3. ~Pair(b, i) /\ ~Pair(b, k) /\ a = CR
    BY <1>1, <1>2, <1>5, <1>13
  <2>4. k = 0
    BY <1>0, <1>1, <1>13, <2>3
  <2>5. x.wp = 1 /\ s = << >> /\ i = 1 /\ CrOf(P) = 1 /\ sk = 0 /\ b[1] = LF
    BY <1>0, <1>1, <1>2, <1>3, <1>13, <2>3, <2>4 DEF d
  <2>6. SentPiece(a, d) = << >>
    BY <1>5, <1>13, <2>3 DEF SentPiece
  <2>7. t = Sent(v)
    BY <1>1, <1>2, <1>5, <1>9, <2>3, <2>5, <2>6, Joins
  <2>8. y.tx \o SubSeq(b, y.wp, i) = Sent(v)
    <3>1. SubSeq(b, 2, 1) = << >>
      BY SubSeqEmpty
    <3>2. y.wp = 2
      BY <2>2, <2>5
    <3>. QED  BY <1>5, <2>2, <2>5, <2>7, <3>1, <3>2, Joins
  <2>9. y.cr_out = CrOf(v)
    BY <1>1, <1>5, <1>13, <2>2
  <2>10. y.wp \in 1 .. i + 1 /\ y.acc = y.wp - 1 - si /\ y.acc \in Nat
    <3>1. si = 1
      BY <1>1, <2>5
    <3>. QED  BY <1>0, <1>2, <2>2, <2>5, <3>1
  <2>11. b[i] # CR
    BY <1>5, <1>13 DEF d
  <2>. QED  BY <2>3, <2>8, <2>9, <2>10, <2>11 DEF Scanned, v, si
<1>14. CASE d = LF /\ At(b, i - 1) # CR /\ x.cr_out = 0
  <2>. DEFINE z == ioputc_raw(Flush(x, b, k), CR)
  <2>1. y = SetCr(z, 0)
    BY <1>0, <1>4, <1>14
  <2>2. /\ z \in OutState
        /\ ~z.done => /\ z.wp = i /\ z.acc = x.acc + (i - x.wp)
                      /\ z.tx = (t \o s) \o <<CR>>
    <3>1. /\ z \in OutState
          /\ ~z.done => /\ z.wp = k + 1 /\ z.acc = x.acc + (k + 1 - x.wp)
                        /\ z.tx = (x.tx \o SubSeq(b, x.wp, k)) \o <<CR>>
      <4>1. k \in 0 .. Len(b) /\ CR \in Keys /\ x.wp \in 1 .. k + 1 /\ ~x.done
        BY <1>0, <1>2, <1>5
      <4>. QED  BY <4>1, PutAfter
    <3>2. i = k + 1
      BY <1>0
    <3>3. (x.tx \o SubSeq(b, x.wp, k)) \o <<CR>> = (t \o s) \o <<CR>>
      BY DEF t, s
    <3>4. /\ z \in OutState
          /\ ~z.done => z.wp = k + 1 /\ z.acc = x.acc + (k + 1 - x.wp)
      BY <3>1
    <3>5. ~z.done => z.wp = i /\ z.acc = x.acc + (i - x.wp)
      <4>1. k + 1 - x.wp = i - x.wp
        <5>1. x.wp \in Int /\ k \in Int
          BY <1>0, <1>2
        <5>. QED  BY <3>2, <5>1
      <4>. QED  BY <3>2, <3>4, <4>1
    <3>. QED  BY <3>1, <3>3, <3>5, Zenon
  <2>. HIDE DEF z
  <2>3. y.wp = z.wp /\ y.acc = z.acc /\ y.tx = z.tx /\ y.done = z.done
    BY <2>1, <2>2, SetCrFacts
  <2>4. y.cr_out = 0 /\ ~z.done
    <3>1. ~z.done
      BY <1>5, <2>3
    <3>. QED  BY <2>1, <2>2, <3>1, SetCrFacts
  <2>5. ~Pair(b, i) /\ ~Pair(b, k) /\ a # CR
    BY <1>1, <1>2, <1>5, <1>14
  <2>6. SentPiece(a, d) = <<CR, LF>>
    BY <1>5, <1>14, <2>5 DEF SentPiece
  <2>7. y.tx \o <<LF>> = Sent(v)
    BY <1>1, <1>2, <1>9, <2>2, <2>3, <2>4, <2>5, <2>6
  <2>8. y.tx \o SubSeq(b, y.wp, i) = Sent(v)
    <3>1. SubSeq(b, i, k) = << >>
      BY <1>0, SubSeqEmpty
    <3>2. SubSeq(b, i, i) = << >> \o <<d>>
      <4>1. i \in 1 .. k + 1
        BY <1>0
      <4>2. SubSeq(b, i, k + 1) = SubSeq(b, i, k) \o <<b[k + 1]>>
        BY <1>0, <4>1, Part
      <4>. QED  BY <1>0, <3>1, <4>2 DEF d
    <3>3. SubSeq(b, i, i) = <<LF>>
      BY <1>5, <1>14, <3>2, Joins
    <3>. QED  BY <2>2, <2>3, <2>4, <2>7, <3>3
  <2>9. y.cr_out = CrOf(v)
    BY <1>1, <1>5, <1>14, <2>4
  <2>10. y.wp \in 1 .. i + 1 /\ y.acc = y.wp - 1 - si /\ y.acc \in Nat
    <3>1. si = sk
      <4>1. CASE k = 0
        BY <1>1, <1>2, <1>14, <2>5, <4>1
      <4>. QED  BY <1>0, <1>1, <4>1
    <3>2. y.wp = i /\ y.acc = x.acc + (i - x.wp)
      BY <2>2, <2>3, <2>4
    <3>3. ASSUME NEW w \in Nat, NEW g \in {0, 1}, NEW j \in Nat, NEW c \in Nat, c = w - 1 - g, w <= j
          PROVE  c + (j - w) = j - 1 - g /\ c + (j - w) \in Nat
      BY <3>3
    <3>4. x.wp \in Nat /\ x.wp <= i /\ i \in Nat /\ x.acc \in Nat /\ x.acc = x.wp - 1 - sk /\ sk \in {0, 1}
      BY <1>0, <1>2, <1>6
    <3>5. i \in 1 .. i + 1
      BY <1>0
    <3>6. x.acc + (i - x.wp) = i - 1 - sk /\ x.acc + (i - x.wp) \in Nat
      BY <3>3, <3>4
    <3>. QED  BY <3>1, <3>2, <3>5, <3>6
  <2>11. b[i] # CR
    BY <1>5, <1>14 DEF d
  <2>. QED  BY <2>5, <2>8, <2>9, <2>10, <2>11 DEF Scanned, v, si
<1>15. CASE d \notin {CR, LF}
  <2>1. y = SetCr(x, 0)
    BY <1>4, <1>15
  <2>2. y.wp = x.wp /\ y.acc = x.acc /\ y.tx = t /\ y.cr_out = 0
    BY <2>1, SetCrFacts DEF t
  <2>3. ~Pair(b, i) /\ ~Pair(b, k)
    BY <1>1, <1>15
  <2>4. SentPiece(a, d) = <<d>>
    BY <1>15 DEF SentPiece
  <2>5. y.tx \o SubSeq(b, y.wp, i) = Sent(v)
    BY <1>1, <1>2, <1>3, <1>8, <2>2, <2>3, <2>4
  <2>6. si = sk
    BY <1>0, <1>1, <1>7, <1>15
  <2>7. y.wp \in 1 .. i + 1 /\ y.acc = y.wp - 1 - si /\ y.acc \in Nat
    BY <1>0, <1>2, <2>2, <2>6
  <2>8. y.cr_out = CrOf(v) /\ b[i] # CR
    BY <1>1, <1>15, <2>2 DEF d
  <2>. QED  BY <2>3, <2>5, <2>7, <2>8 DEF Scanned, v, si
<1>. QED  BY <1>5, <1>10, <1>11, <1>12, <1>13, <1>14, <1>15
\* ioterm_write on buffer b, from a state x.
Begin(q, r, t) == [wp |-> 1, acc |-> 0, cr_out |-> q, rawio |-> r, tx |-> t, done |-> FALSE]
WriteEnd(b, x) == IF Scan(b, x).done THEN Scan(b, x) ELSE Flush(Scan(b, x), b, Len(b))

\* The buffer starts with the \n of a \r \n that an earlier call began.
Joint(P, b) == Len(b) > 0 /\ b[1] = LF /\ CrOf(P) = 1

\* The whole buffer went out.
Whole(P, b, z) ==
    /\ z.tx = Sent(P \o b) /\ z.cr_out = CrOf(P \o b)
    /\ z.acc = Len(b) \/ (z.acc = 0 /\ Joint(P, b) /\ Len(b) = 1)

\* A literal is full before the end of the buffer.
Cut(b, z) == z.acc \in 1 .. Len(b) - 1 /\ Full(z.rawio) /\ z.cr_out = 0

LEMMA WriteType ==
    ASSUME NEW b \in Seq(Keys), NEW x \in OutState
    PROVE  WriteEnd(b, x) \in OutState
<1>1. PICK c \in [0 .. Len(b) -> OutState] : Scan(b, x) = c[Len(b)]
  BY ScanRun
<1>. DEFINE e == Scan(b, x)
<1>2. Len(b) \in 0 .. Len(b)
  OBVIOUS
<1>3. e \in OutState
  BY <1>1, <1>2
<1>4. Flush(e, b, Len(b)) \in OutState
  BY <1>2, <1>3, FlushFacts DEF Flushed
<1>. QED  BY <1>3, <1>4 DEF WriteEnd

\* The scan has put out all of the buffer but the part it still has to flush.
LEMMA ScanAll ==
    ASSUME NEW P \in Seq(Keys), NEW b \in Seq(Keys), NEW x \in OutState, x.wp = 1, x.acc = 0,
           x.tx = Sent(P), x.cr_out = CrOf(P), ~Scan(b, x).done
    PROVE  Scan(b, x) \in OutState /\ Scanned(P, b, Scan(b, x), Len(b))
<1>. DEFINE n == Len(b)
<1>0. n \in Nat /\ x.tx \in Seq(Keys)
  BY DEF OutState
<1>1. PICK c \in [0 .. n -> OutState] : /\ c[0] = x /\ Scan(b, x) = c[n]
                                        /\ \A k \in 1 .. n : c[k] = scan(b, c[k - 1], k)
  BY ScanRun
<1>. DEFINE Good(k) == ~c[k].done => Scanned(P, b, c[k], k)
            T == {k \in Nat : k <= n => Good(k)}
<1>2. Good(0)
  <2>1. SubSeq(b, 1, 0) = << >>
    BY SubSeqEmpty
  <2>2. Stream(P, b, 0) = P
    BY <2>1, Joins DEF Stream
  <2>3. x.tx \o SubSeq(b, x.wp, 0) = x.tx
    BY <1>0, <2>1, Joins
  <2>4. ~Pair(b, 0) /\ Skip(P, b, 0) = 0
    BY DEF Pair, Skip
  <2>5. Scanned(P, b, x, 0)
    BY <2>2, <2>3, <2>4 DEF Scanned
  <2>. QED  BY <1>1, <2>5
<1>3. ASSUME NEW k \in Nat, k + 1 <= n, Good(k) PROVE Good(k + 1)
  <2>. DEFINE i == k + 1
              w == c[k]
              y == c[i]
  <2>1. k \in 0 .. Len(b) - 1 /\ k \in 0 .. n /\ i \in 1 .. n /\ i - 1 = k
    BY <1>0, <1>3
  <2>2. y = scan(b, w, i) /\ w \in OutState
    BY <1>1, <2>1
  <2>3. (~w.done => Scanned(P, b, w, k))
    BY <1>3
  <2>. SUFFICES ASSUME ~y.done PROVE Scanned(P, b, y, i)
    OBVIOUS
  <2>. HIDE DEF w, y
  <2>4. ~w.done
    <3>1. Turn(b, w, i, b[i], y)
      BY <2>1, <2>2, ScanFacts
    <3>. QED  BY <3>1 DEF Turn
  <2>. QED  BY <2>1, <2>2, <2>3, <2>4, ScanStep
<1>. HIDE DEF Good
<1>4. 0 \in T /\ \A k \in Nat : k \in T => k + 1 \in T
  <2>1. ASSUME NEW k \in Nat, k \in T PROVE k + 1 \in T
    <3>. SUFFICES ASSUME k + 1 <= n PROVE Good(k + 1)
      OBVIOUS
    <3>1. Good(k)
      BY <1>0, <2>1
    <3>. QED  BY <1>3, <3>1
  <2>. QED  BY <1>2, <2>1
<1>. HIDE DEF T
<1>5. n \in T
  BY <1>0, <1>4, NatSetInduction
<1>6. Good(n) /\ n \in 0 .. n
  BY <1>0, <1>5 DEF T
<1>. QED  BY <1>1, <1>6 DEF Good

\* What ioterm_write has done when it does not stop early.
LEMMA WriteFacts ==
    ASSUME NEW P \in Seq(Keys), NEW b \in Seq(Keys), NEW x \in OutState, x.wp = 1, x.acc = 0,
           x.tx = Sent(P), x.cr_out = CrOf(P), ~WriteEnd(b, x).done, Joint(P, b) => Len(b) = 1
    PROVE  Whole(P, b, WriteEnd(b, x)) \/ Cut(b, WriteEnd(b, x))
<1>. DEFINE n == Len(b)
            e == Scan(b, x)
            z == WriteEnd(b, x)
            s == SubSeq(b, e.wp, n)
            g == Skip(P, b, n)
<1>0. n \in Nat /\ n \in 0 .. Len(b)
  OBVIOUS
<1>1. ~e.done /\ z = Flush(e, b, n)
  BY DEF WriteEnd
<1>2. e \in OutState /\ Scanned(P, b, e, n)
  BY <1>1, ScanAll
<1>3. /\ e.wp \in 1 .. n + 1 /\ e.acc = e.wp - 1 - g /\ e.acc \in Nat
      /\ ~Pair(b, n) => e.cr_out = CrOf(Stream(P, b, n)) /\ e.tx \o s = Sent(Stream(P, b, n))
      /\ n > 0 /\ b[n] = CR /\ ~Pair(b, n) => e.wp = n + 1
  <2>. HIDE DEF e
  <2>. QED  BY <1>2 DEF Scanned
<1>4. ~Pair(b, n)
  <2>1. n + 1 \notin DOMAIN b
    BY <1>0
  <2>. QED  BY <2>1 DEF Pair, At, BLANK, LF
<1>5. Stream(P, b, n) = P \o b
  BY SubSeqFull DEF Stream
<1>6. g = (IF Joint(P, b) THEN 1 ELSE 0) /\ (g = 1 => n = 1)
  BY DEF Skip, Joint
<1>. HIDE DEF e
<1>7. s \in Seq(Keys) /\ Len(s) = n + 1 - e.wp
  BY <1>0, <1>3, Part
<1>8. /\ z \in OutState /\ z.cr_out = e.cr_out
      /\ s = << >> => z = e
      /\ s # << >> => \E m \in 0 .. Len(s) : FlushedBy(e, s, z, m)
  <2>1. Flushed(e, s, Flush(e, b, n))
    BY <1>0, <1>2, FlushFacts
  <2>2. Flushed(e, s, z)
    BY <1>1, <2>1
  <2>. HIDE DEF z, s
  <2>. QED  BY <2>2 DEF Flushed
<1>9. ~z.done /\ e.tx \in Seq(Keys)
  BY <1>2 DEF OutState
<1>. HIDE DEF z, s, g, n
<1>10. ASSUME z.tx = e.tx \o s, z.acc = n - g PROVE Whole(P, b, z)
  <2>1. z.tx = Sent(P \o b) /\ z.cr_out = CrOf(P \o b)
    BY <1>3, <1>4, <1>5, <1>8, <1>10
  <2>2. z.acc = Len(b) \/ (z.acc = 0 /\ Joint(P, b) /\ Len(b) = 1)
    BY <1>0, <1>6, <1>10 DEF n
  <2>. QED  BY <2>1, <2>2 DEF Whole
<1>11. g \in {0, 1} /\ e.wp \in Nat
  BY <1>0, <1>3, <1>6
<1>12. CASE s = << >>
  <2>1. z = e /\ e.tx \o s = e.tx /\ Len(s) = 0
    BY <1>8, <1>9, <1>12, Joins
  <2>2. z.acc = n - g
    <3>1. z.acc = e.wp - 1 - g /\ n + 1 - e.wp = 0
      BY <1>3, <1>7, <2>1
    <3>. QED  BY <1>0, <1>11, <3>1
  <2>3. z.tx = e.tx \o s
    BY <2>1
  <2>. QED  BY <1>10, <2>2, <2>3 DEF z
<1>13. CASE s # << >>
  <2>1. PICK m \in 0 .. Len(s) : FlushedBy(e, s, z, m)
    BY <1>8, <1>13
  <2>2. m # 0 /\ Len(s) \in Nat /\ z.acc = e.acc + m /\ z.tx = e.tx \o SubSeq(s, 1, m)
        /\ (m = Len(s) \/ Full(z.rawio))
    <3>1. Len(s) \in Nat
      BY <1>7
    <3>. QED  BY <1>9, <2>1, <3>1 DEF FlushedBy
  <2>3. CASE m = Len(s)
    <3>1. SubSeq(s, 1, m) = s
      BY <1>7, <2>3, SubSeqFull
    <3>2. z.acc = n - g
      <4>1. z.acc = e.acc + m /\ m = n + 1 - e.wp /\ e.acc = e.wp - 1 - g
        BY <1>3, <1>7, <2>2, <2>3
      <4>. QED  BY <1>0, <1>11, <4>1
    <3>3. z.tx = e.tx \o s
      BY <2>2, <3>1
    <3>. QED  BY <1>10, <3>2, <3>3 DEF z
  <2>4. CASE m # Len(s)
    <3>1. Full(z.rawio)
      BY <2>2, <2>4
    <3>2. z.acc \in 1 .. Len(b) - 1 /\ e.wp <= n /\ n > 0
      <4>1. z.acc = e.acc + m /\ m < n + 1 - e.wp /\ m >= 1 /\ m \in Nat /\ e.acc = e.wp - 1 - g
            /\ e.acc \in Nat /\ n \in Nat
        BY <1>0, <1>3, <1>7, <2>1, <2>2, <2>4
      <4>2. z.acc \in 1 .. n - 1 /\ e.wp <= n /\ n > 0
        <5>1. ASSUME NEW w \in Nat, NEW q \in Nat, NEW h \in {0, 1}, NEW r \in Nat, NEW c \in Nat,
                     q < r + 1 - w, q >= 1, c = w - 1 - h
              PROVE  c + q \in 1 .. r - 1 /\ w <= r /\ r > 0
          <6>1. w + q < r + 1
            BY <5>1
          <6>2. c + q < r /\ c + q >= 1 /\ c + q \in Int
            BY <5>1, <6>1
          <6>3. w <= r /\ r > 0
            BY <5>1, <6>1
          <6>. QED  BY <6>2, <6>3
        <5>. DEFINE w == e.wp
                    c == e.acc
        <5>2. /\ w \in Nat /\ m \in Nat /\ g \in {0, 1} /\ n \in Nat /\ c \in Nat
              /\ m < n + 1 - w /\ m >= 1 /\ c = w - 1 - g /\ z.acc = c + m
          BY <1>11, <4>1
        <5>. HIDE DEF w, c
        <5>3. c + m \in 1 .. n - 1 /\ w <= n /\ n > 0
          BY <5>1, <5>2
        <5>. QED  BY <5>2, <5>3 DEF w
      <4>. QED  BY <4>2 DEF n
    <3>3. z.cr_out = 0
      <4>1. b[n] # CR
        BY <1>0, <1>3, <1>4, <1>11, <3>2
      <4>. DEFINE k == n - 1
      <4>2. k \in 0 .. Len(b) - 1 /\ n = k + 1
        BY <1>0, <3>2 DEF n
      <4>3. CrOf(Stream(P, b, n)) = IF b[n] = CR THEN 1 ELSE 0
        <5>. DEFINE u == Stream(P, b, k)
        <5>. HIDE DEF k
        <5>1. Around(P, b, k, n, b[n], u, At(u, Len(u)))
          BY <4>2, StreamFacts
        <5>. QED  BY <5>1 DEF Around
      <4>. QED  BY <1>3, <1>4, <1>8, <4>1, <4>3
    <3>4. Cut(b, z)
      BY <3>1, <3>2, <3>3, Zenon DEF Cut
    <3>. QED  BY <3>4 DEF z
  <2>. QED  BY <2>3, <2>4
<1>. QED  BY <1>12, <1>13 DEF z

\* On a full literal the first byte of a buffer stops ioterm_write.
LEMMA WriteFull ==
    ASSUME NEW b \in Seq(Keys), NEW x \in OutState, x.wp = 1, x.cr_out = 0, Full(x.rawio), b # << >>
    PROVE  WriteEnd(b, x).done
<1>. DEFINE n == Len(b)
<1>0. n \in Nat /\ n > 0 /\ n \in 0 .. Len(b)
  OBVIOUS
<1>1. PICK c \in [0 .. n -> OutState] : /\ c[0] = x /\ Scan(b, x) = c[n]
                                        /\ \A k \in 1 .. n : c[k] = scan(b, c[k - 1], k)
  BY ScanRun
<1>. DEFINE Good(k) == ~c[k].done => c[k].wp = 1 /\ c[k].cr_out = 0 /\ Full(c[k].rawio)
            T == {k \in Nat : k <= n => Good(k)}
<1>2. Good(0)
  BY <1>1
<1>3. ASSUME NEW k \in Nat, k + 1 <= n, Good(k) PROVE Good(k + 1)
  <2>. DEFINE i == k + 1
              d == b[i]
              w == c[k]
              y == c[i]
  <2>1. k \in 0 .. n /\ i \in 1 .. n /\ i - 1 = k /\ i \in 0 .. Len(b) /\ k \in 0 .. Len(b)
    BY <1>0, <1>3
  <2>2. y = scan(b, w, i) /\ w \in OutState
    BY <1>1, <2>1
  <2>3. ~w.done => w.wp = 1 /\ w.cr_out = 0 /\ Full(w.rawio)
    BY <1>3
  <2>. SUFFICES ASSUME ~y.done PROVE y.wp = 1 /\ y.cr_out = 0 /\ Full(y.rawio)
    OBVIOUS
  <2>4. Turn(b, w, i, d, y)
    BY <2>1, <2>2, ScanFacts
  <2>. HIDE DEF w, y, d, i
  <2>5. ~w.done /\ w.cr_out = 0 /\ w.wp = 1 /\ Full(w.rawio)
    BY <2>3, <2>4 DEF Turn
  <2>6. ASSUME NEW j \in 0 .. Len(b), NEW l \in Keys, NEW q \in {0, 1}
        PROVE  SetCr(ioputc_raw(Flush(w, b, j), l), q).done
    <3>. DEFINE f == Flush(w, b, j)
                p == ioputc_raw(f, l)
    <3>1. f \in OutState /\ (f.done \/ Full(f.rawio))
      <4>. DEFINE s == SubSeq(b, w.wp, j)
      <4>1. /\ f \in OutState
            /\ s = << >> => f = w
            /\ s # << >> => \E m \in 0 .. Len(s) : FlushedBy(w, s, f, m)
        <5>1. Flushed(w, s, f)
          BY <2>2, FlushFacts
        <5>. HIDE DEF f, s
        <5>. QED  BY <5>1 DEF Flushed
      <4>. HIDE DEF f, s
      <4>. QED  BY <2>5, <4>1 DEF FlushedBy
    <3>. HIDE DEF f
    <3>2. p \in OutState /\ p.done
      BY <3>1, PutFacts
    <3>. HIDE DEF p
    <3>3. SetCr(p, q).done
      BY <3>2, SetCrFacts
    <3>. QED  BY <3>3 DEF p, f
  <2>7. CR # LF /\ LF \in Keys /\ CR \in Keys
    BY DEF CR, LF, Keys
  <2>8. y = SetCr(w, 0) \/ y = w
    <3>1. y # SetCr(ioputc_raw(Flush(w, b, i), LF), 1) /\ y # SetCr(ioputc_raw(Flush(w, b, i - 1), CR), 0)
      BY <2>1, <2>6, <2>7
    <3>2. w.cr_out # 1
      BY <2>5
    <3>. QED  BY <2>4, <2>5, <2>7, <3>1, <3>2 DEF Turn
  <2>9. CASE y = SetCr(w, 0)
    BY <2>2, <2>5, <2>9, SetCrFacts
  <2>10. CASE y = w
    BY <2>5, <2>10
  <2>. QED  BY <2>8, <2>9, <2>10
<1>. HIDE DEF Good
<1>4. 0 \in T /\ \A k \in Nat : k \in T => k + 1 \in T
  <2>1. ASSUME NEW k \in Nat, k \in T PROVE k + 1 \in T
    <3>. SUFFICES ASSUME k + 1 <= n PROVE Good(k + 1)
      OBVIOUS
    <3>1. Good(k)
      BY <1>0, <2>1
    <3>. QED  BY <1>3, <3>1
  <2>. QED  BY <1>2, <2>1
<1>. HIDE DEF T
<1>5. n \in T
  BY <1>0, <1>4, NatSetInduction
<1>6. Good(n) /\ n \in 0 .. n
  BY <1>0, <1>5 DEF T
<1>. DEFINE e == Scan(b, x)
            f == Flush(e, b, n)
<1>7. e \in OutState /\ (~e.done => e.wp = 1 /\ Full(e.rawio))
  BY <1>1, <1>6 DEF Good
<1>8. CASE e.done
  BY <1>8 DEF WriteEnd
<1>9. CASE ~e.done
  <2>1. WriteEnd(b, x) = f
    BY <1>9 DEF WriteEnd
  <2>. HIDE DEF e
  <2>. DEFINE s == SubSeq(b, e.wp, n)
  <2>2. s # << >>
    <3>1. SubSeq(b, 1, n) = b
      BY SubSeqFull
    <3>. QED  BY <1>7, <1>9, <3>1
  <2>3. s # << >> => \E m \in 0 .. Len(s) : FlushedBy(e, s, f, m)
    <3>1. Flushed(e, s, f)
      BY <1>0, <1>7, FlushFacts
    <3>. HIDE DEF f, s
    <3>. QED  BY <3>1 DEF Flushed
  <2>. HIDE DEF f, s
  <2>. QED  BY <1>7, <1>9, <2>1, <2>2, <2>3 DEF FlushedBy
<1>. QED  BY <1>8, <1>9
-----------------------------------------------------------------------------
(* The invariant *)

\* The buffers of one call, the first one apart.
LEMMA FlatHead ==
    ASSUME NEW q \in Seq(Seq(Keys)), q # << >>
    PROVE  FlattenSeq(q) = Head(q) \o FlattenSeq(Tail(q))
<1>. DEFINE r == Tail(q)
            h == Head(q)
            n == Len(r)
<1>1. /\ r \in Seq(Seq(Keys)) /\ h \in Seq(Keys) /\ n \in Nat /\ Len(q) = n + 1
      /\ \A i \in 1 .. n : r[i] = q[i + 1]
  BY HeadTailProperties
<1>2. h = q[1]
  OBVIOUS
<1>. HIDE DEF r, h
<1>3. PICK c \in [0 .. Len(q) -> Seq(Keys)] : /\ c[0] = << >> /\ FlattenSeq(q) = c[Len(q)]
                                              /\ \A k \in 1 .. Len(q) : c[k] = c[k - 1] \o q[k]
  BY FlatRun
<1>4. PICK d \in [0 .. n -> Seq(Keys)] : /\ d[0] = << >> /\ FlattenSeq(r) = d[n]
                                         /\ \A k \in 1 .. n : d[k] = d[k - 1] \o r[k]
  BY <1>1, FlatRun
<1>. DEFINE T == {k \in Nat : k <= n => c[k + 1] = h \o d[k]}
<1>5. 0 \in T
  <2>1. c[1] = c[0] \o q[1]
    <3>1. 1 \in 1 .. Len(q) /\ 1 - 1 = 0
      BY <1>1
    <3>. QED  BY <1>3, <3>1
  <2>2. c[1] = h /\ h \o d[0] = h
    BY <1>1, <1>2, <1>3, <1>4, <2>1, Joins
  <2>. QED  BY <2>2
<1>6. ASSUME NEW k \in Nat, k \in T PROVE k + 1 \in T
  <2>. SUFFICES ASSUME k + 1 <= n PROVE c[(k + 1) + 1] = h \o d[k + 1]
    OBVIOUS
  <2>. DEFINE i == k + 1
              j == i + 1
  <2>1. i \in 1 .. n /\ j \in 1 .. Len(q) /\ i - 1 = k /\ j - 1 = i /\ k \in 0 .. n /\ k <= n
    BY <1>1
  <2>2. c[i] = h \o d[k]
    BY <1>6, <2>1
  <2>. HIDE DEF i, j
  <2>3. c[j] = c[i] \o q[j] /\ d[i] = d[k] \o r[i]
    BY <1>3, <1>4, <2>1
  <2>4. r[i] = q[j] /\ r[i] \in Seq(Keys) /\ d[k] \in Seq(Keys)
    <3>1. r[i] = q[j]
      BY <1>1, <2>1 DEF j
    <3>2. r[i] \in Seq(Keys)
      <4>1. i \in 1 .. Len(r)
        BY <2>1
      <4>. QED  BY <1>1, <4>1
    <3>. QED  BY <1>4, <2>1, <3>1, <3>2
  <2>5. (h \o d[k]) \o r[i] = h \o (d[k] \o r[i])
    BY <1>1, <2>4, Assoc, Zenon
  <2>6. c[j] = h \o d[i]
    BY <2>2, <2>3, <2>4, <2>5
  <2>. QED  BY <2>6 DEF i, j
<1>. HIDE DEF T
<1>7. n \in T
  BY <1>1, <1>5, <1>6, NatSetInduction
<1>8. c[n + 1] = h \o d[n]
  BY <1>1, <1>7 DEF T
<1>. QED  BY <1>1, <1>3, <1>4, <1>8 DEF r, h

\* The key that iogetc makes of one byte.
LEMMA OneKey ==
    ASSUME NEW v \in {0, 1}, NEW b \in Seq(Keys), Len(b) = 1
    PROVE  LET st == FoldLeft(normalise, [cr_in |-> v, out |-> << >>], b) IN
           st.out # << >> => Head(st.out) \in Keys \ {CR} /\ (Head(st.out) = ESCAPE => st.cr_in = 0)
<1>. DEFINE z == [cr_in |-> v, out |-> << >>]
            st == FoldLeft(normalise, z, b)
            d == b[1]
<1>. SUFFICES st.out # << >> => Head(st.out) \in Keys \ {CR} /\ (Head(st.out) = ESCAPE => st.cr_in = 0)
  OBVIOUS
<1>1. z \in InState /\ z.out = << >>
  BY DEF InState
<1>. HIDE DEF z
<1>2. PICK c \in [0 .. Len(b) -> InState] : /\ c[0] = z /\ st = c[Len(b)]
                                            /\ \A k \in 1 .. Len(b) : c[k] = normalise(c[k - 1], b[k])
  BY <1>1, NormaliseRun
<1>3. st = normalise(z, d) /\ d \in Keys
  BY <1>2
<1>. HIDE DEF st, d
<1>4. LF \in Keys /\ LF # CR /\ LF # ESCAPE /\ ESCAPE # CR
  BY DEF LF, CR, ESCAPE, Keys
<1>5. \/ d = CR /\ st = [cr_in |-> 1, out |-> Append(<< >>, LF)]
      \/ d # CR /\ st.cr_in = 0 /\ (st.out = << >> \/ st.out = Append(<< >>, d))
  BY <1>1, <1>3, <1>4 DEF normalise
<1>6. Head(Append(<< >>, LF)) = LF /\ Head(Append(<< >>, d)) = d
  OBVIOUS
<1>. QED  BY <1>3, <1>4, <1>5, <1>6

CallOK ==
    \/ call = None
    \/ call \in [op : {"read"}, n : Nat]
    \/ call \in [op : {"gets"}, n : Nat \ {0}, size : Nat, line : Seq(Letter)]
    \/ call \in [op : {"write"}, how : {"iowrite", "ioputs", "iovprintf"}, buf : Seq(Keys),
                 rest : Seq(Seq(Keys)), acc : Nat]

TInv ==
    /\ iot \in [cr_in : {0, 1}, cr_out : {0, 1}] /\ rawio \in Raw
    /\ rx \in Seq(Keys) /\ taken \in Seq(Keys) /\ got \in Seq(Keys)
    /\ written \in Seq(Keys) /\ tx \in Seq(Keys) /\ echo \in Seq(Glyph)
    /\ clean \in BOOLEAN
    /\ CallOK

\* Input: cr_in tells whether a \r was the last byte, and readers have got
\* what the bytes mean.
InInv == iot.cr_in = CrOf(taken) /\ got = Received(taken)

\* The line editor, on a UART: the screen shows the line, n counts what is left.
EditInv ==
    call.op = "gets" =>
      /\ rawio.kind = "uart" /\ call.n + Len(call.line) = call.size
      /\ Shows(Shown(echo), call.line)

Singles(q) == \A i \in 1 .. Len(q) : Len(q[i]) = 1

\* Output, while nothing went wrong.  Between calls the raw interface has got
\* what the written characters mean.  At the start of a buffer it has got what
\* the characters P before this buffer mean.  A second turn of iowrite finds a
\* literal full.
OutInv ==
    /\ call.op = "write" /\ call.how = "iovprintf" => Len(call.buf) = 1 /\ Singles(call.rest)
    /\ clean /\ call.op # "write" => tx = Sent(written) /\ iot.cr_out = CrOf(written)
    /\ clean /\ call.op = "write" /\ call.acc = 0 =>
         \E P \in Seq(Keys) : /\ written = P \o (call.buf \o FlattenSeq(call.rest))
                              /\ tx = Sent(P) /\ iot.cr_out = CrOf(P)
    /\ clean /\ call.op = "write" /\ call.acc # 0 =>
         Full(rawio) /\ iot.cr_out = 0 /\ call.acc < Len(call.buf)

IInv == TInv /\ InInv /\ EditInv /\ OutInv
LEMMA InitIInv == Init => IInv
<1>. SUFFICES ASSUME Init PROVE IInv
  OBVIOUS
<1>0. /\ iot = [cr_in |-> 0, cr_out |-> 0] /\ rawio \in {Uart, iolit_init(Lit)} /\ call = None
      /\ rx = << >> /\ taken = << >> /\ got = << >> /\ written = << >> /\ tx = << >> /\ echo = << >>
      /\ clean = TRUE
  BY DEF Init
<1>1. rawio \in Raw
  <2>1. Uart \in Raw
    BY DEF Uart, Raw
  <2>2. iolit_init(Lit) \in Raw
    <3>1. Lit \in Seq(Keys)
      BY IoTermAssumption
    <3>. QED  BY <3>1 DEF iolit_init, Raw
  <2>. QED  BY <1>0, <2>1, <2>2
<1>2. TInv
  BY <1>0, <1>1 DEF TInv, CallOK
<1>3. call.op = "none"
  BY <1>0 DEF None
<1>4. InInv
  BY <1>0, CrFacts, ReceivedAppend DEF InInv
<1>5. OutInv
  BY <1>0, <1>3, CrFacts, SentAppend DEF OutInv
<1>. QED  BY <1>2, <1>3, <1>4, <1>5 DEF IInv, EditInv

\* Which call is in progress.
LEMMA Calls ==
    ASSUME CallOK
    PROVE  /\ call.op \in {"none", "read", "gets", "write"}
           /\ call.op = "none" => call = None
           /\ call.op = "read" => call \in [op : {"read"}, n : Nat]
           /\ call.op = "gets" =>
                call \in [op : {"gets"}, n : Nat \ {0}, size : Nat, line : Seq(Letter)]
           /\ call.op = "write" =>
                call \in [op : {"write"}, how : {"iowrite", "ioputs", "iovprintf"}, buf : Seq(Keys),
                          rest : Seq(Seq(Keys)), acc : Nat]
<1>1. CASE call = None
  BY <1>1 DEF None
<1>2. CASE call \in [op : {"read"}, n : Nat]
  BY <1>2
<1>3. CASE call \in [op : {"gets"}, n : Nat \ {0}, size : Nat, line : Seq(Letter)]
  BY <1>3
<1>4. CASE call \in [op : {"write"}, how : {"iowrite", "ioputs", "iovprintf"}, buf : Seq(Keys),
                     rest : Seq(Seq(Keys)), acc : Nat]
  BY <1>4
<1>. QED  BY <1>1, <1>2, <1>3, <1>4 DEF CallOK

\* Steps that leave the streams alone.
LEMMA TypeNext ==
    ASSUME IInv, NEW c \in Keys, Type(c)
    PROVE  IInv'
<1>1. rx' = Append(rx, c) /\ UNCHANGED <<iot, rawio, call, taken, got, written, tx, echo, clean>>
  BY DEF Type
<1>2. TInv'
  BY <1>1 DEF IInv, TInv, CallOK
<1>3. InInv' /\ EditInv' /\ OutInv'
  BY <1>1 DEF IInv, InInv, EditInv, OutInv
<1>. QED  BY <1>2, <1>3 DEF IInv

LEMMA StartReadNext ==
    ASSUME IInv, NEW n \in 1 .. 2, StartRead(n)
    PROVE  IInv'
<1>1. /\ call = None /\ call' = [op |-> "read", n |-> n]
      /\ UNCHANGED <<iot, rawio, rx, taken, got, written, tx, echo, clean>>
  BY DEF StartRead
<1>2. call.op = "none" /\ call'.op = "read" /\ call' \in [op : {"read"}, n : Nat]
  BY <1>1 DEF None
<1>3. TInv'
  BY <1>1, <1>2 DEF IInv, TInv, CallOK
<1>4. InInv' /\ EditInv' /\ OutInv'
  BY <1>1, <1>2 DEF IInv, InInv, EditInv, OutInv
<1>. QED  BY <1>3, <1>4 DEF IInv

LEMMA StartLineNext ==
    ASSUME IInv, NEW n \in 1 .. MaxLine, StartLine(n)
    PROVE  IInv'
<1>1. /\ call = None /\ rawio.kind = "uart"
      /\ call' = [op |-> "gets", n |-> n, size |-> n, line |-> << >>] /\ echo' = << >>
      /\ UNCHANGED <<iot, rawio, rx, taken, got, written, tx, clean>>
  BY DEF StartLine
<1>2. call.op = "none"
  BY <1>1 DEF None
<1>3. /\ call'.op = "gets" /\ call'.n = n /\ call'.line = << >> /\ call'.size = n
      /\ call' \in [op : {"gets"}, n : Nat \ {0}, size : Nat, line : Seq(Letter)]
  BY <1>1
<1>4. TInv'
  BY <1>1, <1>3 DEF IInv, TInv, CallOK
<1>5. InInv' /\ OutInv'
  BY <1>1, <1>2, <1>3 DEF IInv, InInv, OutInv
<1>6. EditInv'
  <2>1. Shown(<< >>) = Empty
    BY ShowAppend
  <2>2. Shows(Empty, << >>)
    BY DEF Shows, Empty, Screen
  <2>3. Shows(Shown(echo'), call'.line)
    BY <1>1, <1>3, <2>1, <2>2
  <2>4. n + Len(<< >>) = n
    OBVIOUS
  <2>. QED  BY <1>1, <1>3, <2>3, <2>4 DEF EditInv, Shown
<1>. QED  BY <1>4, <1>5, <1>6 DEF IInv

LEMMA RawNext ==
    ASSUME IInv, call = None, rawio' \in Raw,
           UNCHANGED <<iot, rx, call, taken, got, written, tx, echo, clean>>
    PROVE  IInv'
<1>1. call.op = "none" /\ call'.op = "none"
  BY DEF None
<1>2. TInv'
  BY DEF IInv, TInv, CallOK
<1>3. InInv' /\ EditInv' /\ OutInv'
  BY <1>1 DEF IInv, InInv, EditInv, OutInv
<1>. QED  BY <1>2, <1>3 DEF IInv

LEMMA CtlNext ==
    ASSUME IInv, NEW cmd, NEW arg \in Nat, NEW through \in BOOLEAN, Ctl(cmd, arg, through)
    PROVE  IInv'
<1>1. /\ call = None
      /\ rawio' \in {rawio, iolit_ctl(rawio, cmd, arg)}
      /\ UNCHANGED <<iot, rx, call, taken, got, written, tx, echo, clean>>
  BY DEF Ctl, ioterm_ioctl
<1>2. rawio \in Raw
  BY DEF IInv, TInv
<1>3. iolit_ctl(rawio, cmd, arg) \in Raw
  <2>1. CASE arg <= rawio.size
    <3>1. [rawio EXCEPT !.pos = arg] \in Raw
      BY <1>2, <2>1 DEF Raw
    <3>. QED  BY <1>2, <3>1 DEF iolit_ctl
  <2>2. CASE ~(arg <= rawio.size)
    BY <1>2, <2>2 DEF iolit_ctl
  <2>. QED  BY <2>1, <2>2
<1>4. rawio' \in Raw
  BY <1>1, <1>2, <1>3
<1>. QED  BY <1>1, <1>4, RawNext

LEMMA CloseNext ==
    ASSUME IInv, ioterm_close
    PROVE  IInv'
<1>1. /\ call = None /\ rawio' \in {rawio, iolit_close(rawio)}
      /\ UNCHANGED <<iot, rx, call, taken, got, written, tx, echo, clean>>
  BY DEF ioterm_close, ioclose
<1>2. iolit_close(rawio) \in Raw /\ rawio \in Raw
  BY DEF iolit_close, Raw, IInv, TInv
<1>. QED  BY <1>1, <1>2, RawNext

\* A call that writes buffers starts.
LEMMA StartWriteNext ==
    ASSUME IInv, NEW how \in {"iowrite", "ioputs", "iovprintf"}, NEW bufs \in Seq(Seq(Keys)),
           StartWrite(how, bufs), how = "iovprintf" => Singles(bufs)
    PROVE  IInv'
<1>. DEFINE h == Head(bufs)
            r == Tail(bufs)
<1>1. /\ call = None /\ bufs # << >>
      /\ call' = [op |-> "write", how |-> how, buf |-> h, rest |-> r, acc |-> 0]
      /\ written' = written \o FlattenSeq(bufs)
      /\ UNCHANGED <<iot, rawio, rx, taken, got, tx, echo, clean>>
  BY DEF StartWrite
<1>2. call.op = "none"
  BY <1>1 DEF None
<1>3. /\ h \in Seq(Keys) /\ r \in Seq(Seq(Keys)) /\ h = bufs[1] /\ Len(r) = Len(bufs) - 1
      /\ \A i \in 1 .. Len(r) : r[i] = bufs[i + 1]
  BY <1>1, HeadTailProperties
<1>4. FlattenSeq(bufs) = h \o FlattenSeq(r) /\ FlattenSeq(bufs) \in Seq(Keys)
  BY <1>1, FlatHead, FlatAppend
<1>5. how = "iovprintf" => Len(h) = 1 /\ Singles(r)
  <2>. SUFFICES ASSUME how = "iovprintf" PROVE Len(h) = 1 /\ Singles(r)
    OBVIOUS
  <2>1. Singles(bufs) /\ Len(bufs) \in Nat /\ 1 \in 1 .. Len(bufs)
    BY <1>1
  <2>2. Len(h) = 1
    BY <1>3, <2>1 DEF Singles
  <2>. HIDE DEF h, r
  <2>3. ASSUME NEW i \in 1 .. Len(r) PROVE Len(r[i]) = 1
    <3>1. i + 1 \in 1 .. Len(bufs)
      BY <1>3, <2>1
    <3>. QED  BY <1>3, <2>1, <3>1 DEF Singles
  <2>. QED  BY <2>2, <2>3 DEF Singles
<1>. HIDE DEF h, r
<1>6. /\ call'.op = "write" /\ call'.how = how /\ call'.buf = h /\ call'.rest = r /\ call'.acc = 0
      /\ call' \in [op : {"write"}, how : {"iowrite", "ioputs", "iovprintf"}, buf : Seq(Keys),
                    rest : Seq(Seq(Keys)), acc : Nat]
  BY <1>1, <1>3
<1>7. TInv'
  <2>1. written' \in Seq(Keys)
    BY <1>1, <1>4, Joins DEF IInv, TInv
  <2>. QED  BY <1>1, <1>6, <2>1 DEF IInv, TInv, CallOK
<1>8. InInv' /\ EditInv'
  BY <1>1, <1>6 DEF IInv, InInv, EditInv
<1>9. OutInv'
  <2>1. written \in Seq(Keys)
    BY DEF IInv, TInv
  <2>2. clean => tx = Sent(written) /\ iot.cr_out = CrOf(written)
    BY <1>2 DEF IInv, OutInv
  <2>3. written' = written \o (call'.buf \o FlattenSeq(call'.rest))
    BY <1>1, <1>4, <1>6
  <2>4. clean' => \E P \in Seq(Keys) : /\ written' = P \o (call'.buf \o FlattenSeq(call'.rest))
                                       /\ tx' = Sent(P) /\ iot'.cr_out = CrOf(P)
    BY <1>1, <2>1, <2>2, <2>3
  <2>5. call'.how = "iovprintf" => Len(call'.buf) = 1 /\ Singles(call'.rest)
    BY <1>5, <1>6
  <2>. QED  BY <1>6, <2>4, <2>5 DEF OutInv, Singles
<1>. QED  BY <1>7, <1>8, <1>9 DEF IInv
\* What a read of the raw interface gives.
LEMMA ChunkFacts ==
    ASSUME TInv, NEW len \in Nat, NEW bytes \in Chunks(len)
    PROVE  /\ bytes \in Seq(Keys) /\ AfterFetch(bytes) \in Raw
           /\ SubSeq(rx, Len(bytes) + 1, Len(rx)) \in Seq(Keys)
           /\ rawio.kind = "uart" /\ len = 1 => Len(bytes) = 1
           /\ rawio.kind # "lit" => AfterFetch(bytes) = rawio
<1>0. /\ rawio \in Raw /\ rx \in Seq(Keys) /\ Len(rx) \in Nat
      /\ rawio.pos \in Nat /\ rawio.size \in Nat /\ rawio.pos <= rawio.size /\ rawio.buf \in Seq(Keys)
      /\ rawio.size = Len(rawio.buf) /\ rawio.kind \in {"uart", "lit", "closed"}
  BY DEF TInv, Raw
<1>1. bytes \in Seq(Keys) /\ (rawio.kind = "uart" /\ len = 1 => Len(bytes) = 1)
  <2>1. CASE rawio.kind = "lit"
    <3>. DEFINE n == Lesser(len, rawio.size - rawio.pos)
    <3>1. bytes = SubSeq(rawio.buf, rawio.pos + 1, rawio.pos + n)
      BY <2>1 DEF Chunks, iolit_read
    <3>2. n \in Nat /\ rawio.pos + n <= rawio.size
      BY <1>0 DEF Lesser
    <3>. HIDE DEF n
    <3>3. \A i \in rawio.pos + 1 .. rawio.pos + n : rawio.buf[i] \in Keys
      BY <1>0, <3>2
    <3>4. rawio.pos + 1 \in Int /\ rawio.pos + n \in Int
      BY <1>0, <3>2
    <3>5. bytes \in Seq(Keys)
      BY <3>1, <3>3, <3>4, SubSeqProperties
    <3>. QED  BY <2>1, <3>5
  <2>2. CASE rawio.kind # "lit"
    <3>1. PICK k \in 1 .. Lesser(len, Len(rx)) : bytes = SubSeq(rx, 1, k)
      BY <2>2 DEF Chunks
    <3>2. k \in 1 .. Len(rx) /\ (len = 1 => k = 1)
      BY <1>0 DEF Lesser
    <3>3. k \in 0 .. Len(rx) /\ 1 \in 1 .. k + 1
      BY <1>0, <3>2
    <3>4. SubSeq(rx, 1, k) \in Seq(Keys) /\ Len(SubSeq(rx, 1, k)) = k + 1 - 1
      BY <1>0, <3>3, Part
    <3>. QED  BY <3>1, <3>2, <3>4
  <2>. QED  BY <2>1, <2>2
<1>2. AfterFetch(bytes) \in Raw /\ (rawio.kind # "lit" => AfterFetch(bytes) = rawio)
  <2>1. CASE rawio.kind = "lit"
    <3>. DEFINE n == Lesser(Len(bytes), rawio.size - rawio.pos)
    <3>1. AfterFetch(bytes) = [rawio EXCEPT !.pos = @ + n]
      BY <2>1 DEF AfterFetch, iolit_read
    <3>2. Len(bytes) \in Nat
      BY <1>1
    <3>3. n \in Nat /\ rawio.pos + n <= rawio.size
      BY <1>0, <3>2 DEF Lesser
    <3>. HIDE DEF n
    <3>4. [rawio EXCEPT !.pos = @ + n] \in Raw
      BY <1>0, <3>3 DEF Raw
    <3>. QED  BY <2>1, <3>1, <3>4
  <2>2. CASE rawio.kind # "lit"
    BY <1>0, <2>2 DEF AfterFetch
  <2>. QED  BY <2>1, <2>2
<1>3. SubSeq(rx, Len(bytes) + 1, Len(rx)) \in Seq(Keys)
  <2>1. Len(bytes) \in Nat
    BY <1>1
  <2>2. \A i \in Len(bytes) + 1 .. Len(rx) : rx[i] \in Keys
    BY <1>0, <2>1
  <2>3. Len(bytes) + 1 \in Int /\ Len(rx) \in Int
    BY <1>0, <2>1
  <2>. QED  BY <2>2, <2>3, SubSeqProperties
<1>. QED  BY <1>1, <1>2, <1>3

\* What the loop of ioterm_read does with the bytes of one read.
LEMMA FetchFacts ==
    ASSUME TInv, InInv, NEW bytes \in Seq(Keys), NEW st,
           st = FoldLeft(normalise, [cr_in |-> iot.cr_in, out |-> << >>], bytes),
           SubSeq(rx, Len(bytes) + 1, Len(rx)) \in Seq(Keys), Fetch(bytes, st)
    PROVE  /\ st \in InState /\ st.out \in Seq(Keys) /\ st.cr_in = CrOf(taken')
           /\ taken' = taken \o bytes /\ taken' \in Seq(Keys)
           /\ got' = Received(taken') /\ got' \in Seq(Keys) /\ rx' \in Seq(Keys)
<1>1. /\ taken \in Seq(Keys) /\ rx \in Seq(Keys)
      /\ iot.cr_in = CrOf(taken) /\ got = Received(taken)
      /\ taken' = taken \o bytes /\ got' = got \o st.out
      /\ rx' \in {SubSeq(rx, Len(bytes) + 1, Len(rx)), rx}
  BY DEF TInv, InInv, Fetch
<1>2. /\ st \in InState /\ st.cr_in = CrOf(taken \o bytes)
      /\ Received(taken) \o st.out = Received(taken \o bytes)
  <2>1. st = FoldLeft(normalise, [cr_in |-> CrOf(taken), out |-> << >>], bytes)
    BY <1>1
  <2>. QED  BY <1>1, <2>1, ReadFacts
<1>3. taken \o bytes \in Seq(Keys)
  BY <1>1, Joins
<1>4. Received(taken \o bytes) \in Seq(Keys)
  BY <1>3, ReceivedAppend
<1>5. st.out \in Seq(Keys)
  <2>1. st.out \in Seq(Keys \ {CR})
    BY <1>2 DEF InState
  <2>. QED  BY <2>1, SeqMonotonic
<1>. QED  BY <1>1, <1>2, <1>3, <1>4, <1>5

LEMMA ReadNext ==
    ASSUME IInv, ioterm_read
    PROVE  IInv'
<1>0. TInv /\ InInv /\ EditInv /\ OutInv /\ call.op = "read" /\ CallOK
  BY DEF IInv, ioterm_read, TInv
<1>1. call \in [op : {"read"}, n : Nat]
  BY <1>0, Calls
<1>2. PICK bytes \in Chunks(call.n) :
        LET s == FoldLeft(normalise, [cr_in |-> iot.cr_in, out |-> << >>], bytes) IN
        /\ Fetch(bytes, s)
        /\ iot' = [iot EXCEPT !.cr_in = s.cr_in]
        /\ rawio' = AfterFetch(bytes)
        /\ call' = IF s.out = << >> THEN call ELSE None
  BY DEF ioterm_read
<1>. DEFINE st == FoldLeft(normalise, [cr_in |-> iot.cr_in, out |-> << >>], bytes)
<1>3. /\ Fetch(bytes, st) /\ iot' = [iot EXCEPT !.cr_in = st.cr_in] /\ rawio' = AfterFetch(bytes)
      /\ call' \in {call, None} /\ UNCHANGED <<written, tx, echo, clean>>
  BY <1>2 DEF ioterm_read
<1>4. /\ bytes \in Seq(Keys) /\ AfterFetch(bytes) \in Raw
      /\ SubSeq(rx, Len(bytes) + 1, Len(rx)) \in Seq(Keys)
  BY <1>0, <1>1, ChunkFacts
<1>5. st = FoldLeft(normalise, [cr_in |-> iot.cr_in, out |-> << >>], bytes)
  OBVIOUS
<1>. HIDE DEF st
<1>6. /\ st \in InState /\ st.cr_in = CrOf(taken') /\ taken' \in Seq(Keys)
      /\ got' = Received(taken') /\ got' \in Seq(Keys) /\ rx' \in Seq(Keys)
  BY <1>0, <1>3, <1>4, <1>5, FetchFacts
<1>7. iot \in [cr_in : {0, 1}, cr_out : {0, 1}] /\ st.cr_in \in {0, 1}
  BY <1>0, <1>6 DEF TInv, InState
<1>8. /\ iot' \in [cr_in : {0, 1}, cr_out : {0, 1}] /\ iot'.cr_in = st.cr_in
      /\ iot'.cr_out = iot.cr_out
  BY <1>3, <1>7
<1>9. call'.op \in {"read", "none"} /\ CallOK'
  BY <1>0, <1>3 DEF CallOK, None
<1>10. TInv'
  BY <1>0, <1>3, <1>4, <1>6, <1>8, <1>9 DEF TInv
<1>11. InInv'
  BY <1>6, <1>8 DEF InInv
<1>12. EditInv' /\ OutInv'
  BY <1>0, <1>3, <1>8, <1>9 DEF EditInv, OutInv
<1>. QED  BY <1>10, <1>11, <1>12 DEF IInv

LEMMA GetsNext ==
    ASSUME IInv, ioterm_getsn
    PROVE  IInv'
<1>0. TInv /\ InInv /\ EditInv /\ OutInv /\ call.op = "gets" /\ CallOK
  BY DEF IInv, ioterm_getsn, TInv
<1>1. call \in [op : {"gets"}, n : Nat \ {0}, size : Nat, line : Seq(Letter)]
  BY <1>0, Calls
<1>2. /\ rawio.kind = "uart" /\ call.n + Len(call.line) = call.size
      /\ Shows(Shown(echo), call.line)
  BY <1>0 DEF EditInv
<1>3. PICK bytes \in Chunks(1) :
        LET s == FoldLeft(normalise, [cr_in |-> iot.cr_in, out |-> << >>], bytes)
            k == Head(s.out)
            f == edit(call.line, call.n, k)
        IN /\ Fetch(bytes, s)
           /\ \/ /\ s.out = << >>
                 /\ iot' = [iot EXCEPT !.cr_in = s.cr_in]
                 /\ UNCHANGED <<call, echo>>
              \/ /\ s.out # << >>
                 /\ iot' = [iot EXCEPT !.cr_in = IF k = ESCAPE THEN 0 ELSE s.cr_in]
                 /\ echo' = echo \o f.show
                 /\ call' = IF k = LF THEN None ELSE [call EXCEPT !.line = f.line, !.n = f.n]
  BY DEF ioterm_getsn
<1>. DEFINE st == FoldLeft(normalise, [cr_in |-> iot.cr_in, out |-> << >>], bytes)
            c == Head(st.out)
            e == edit(call.line, call.n, c)
<1>4. /\ Fetch(bytes, st)
      /\ \/ /\ st.out = << >>
            /\ iot' = [iot EXCEPT !.cr_in = st.cr_in]
            /\ UNCHANGED <<call, echo>>
         \/ /\ st.out # << >>
            /\ iot' = [iot EXCEPT !.cr_in = IF c = ESCAPE THEN 0 ELSE st.cr_in]
            /\ echo' = echo \o e.show
            /\ call' = IF c = LF THEN None ELSE [call EXCEPT !.line = e.line, !.n = e.n]
  BY <1>3
<1>5. UNCHANGED <<rawio, written, tx, clean>>
  BY DEF ioterm_getsn
<1>6. bytes \in Seq(Keys) /\ Len(bytes) = 1 /\ SubSeq(rx, Len(bytes) + 1, Len(rx)) \in Seq(Keys)
  BY <1>0, <1>2, ChunkFacts
<1>7. st = FoldLeft(normalise, [cr_in |-> iot.cr_in, out |-> << >>], bytes)
  OBVIOUS
<1>8. iot \in [cr_in : {0, 1}, cr_out : {0, 1}] /\ iot.cr_in \in {0, 1}
  BY <1>0 DEF TInv
<1>9. st.out # << >> => c \in Keys \ {CR} /\ (c = ESCAPE => st.cr_in = 0)
  BY <1>6, <1>8, OneKey
<1>. HIDE DEF st, c, e
<1>10. /\ st \in InState /\ st.cr_in = CrOf(taken') /\ taken' \in Seq(Keys)
       /\ got' = Received(taken') /\ got' \in Seq(Keys) /\ rx' \in Seq(Keys)
  BY <1>0, <1>4, <1>6, <1>7, FetchFacts
<1>11. iot' = [iot EXCEPT !.cr_in = st.cr_in]
  BY <1>4, <1>9
<1>12. /\ iot' \in [cr_in : {0, 1}, cr_out : {0, 1}] /\ iot'.cr_in = st.cr_in
       /\ iot'.cr_out = iot.cr_out
  <2>1. st.cr_in \in {0, 1}
    BY <1>10 DEF InState
  <2>. QED  BY <1>8, <1>11, <2>1
<1>13. InInv'
  BY <1>10, <1>12 DEF InInv
<1>14. echo \in Seq(Glyph)
  BY <1>0 DEF TInv
<1>15. CallOK' /\ echo' \in Seq(Glyph) /\ call'.op \in {"none", "gets"} /\ EditInv'
  <2>1. CASE st.out = << >>
    <3>1. UNCHANGED <<call, echo>>
      BY <1>4, <2>1
    <3>. QED  BY <1>0, <1>5, <1>14, <3>1 DEF CallOK, EditInv, None
  <2>2. CASE st.out # << >> /\ c = LF
    <3>1. call' = None /\ echo' = echo \o e.show
      BY <1>4, <2>2
    <3>2. e.show = <<CR, LF>>
      BY <2>2 DEF e, edit, LF, ESCAPE, BS
    <3>3. <<CR, LF>> \in Seq(Glyph)
      BY Letters
    <3>4. call'.op = "none"
      BY <3>1 DEF None
    <3>5. echo' \in Seq(Glyph)
      BY <1>14, <3>1, <3>2, <3>3
    <3>. QED  BY <3>1, <3>4, <3>5 DEF CallOK, EditInv
  <2>3. CASE st.out # << >> /\ c # LF
    <3>1. call' = [call EXCEPT !.line = e.line, !.n = e.n] /\ echo' = echo \o e.show
      BY <1>4, <2>3
    <3>2. /\ e.line \in Seq(Letter) /\ e.n \in Nat \ {0} /\ e.n + Len(e.line) = call.n + Len(call.line)
          /\ echo \o e.show \in Seq(Glyph) /\ Shows(Shown(echo \o e.show), e.line)
      <4>. DEFINE l == call.line
                  m == call.n
      <4>1. l \in Seq(Letter) /\ m \in Nat \ {0} /\ c \in Keys \ {CR, LF} /\ Shows(Shown(echo), l)
        BY <1>1, <1>2, <1>9, <2>3
      <4>2. e = edit(l, m, c)
        BY DEF e
      <4>. HIDE DEF l, m
      <4>3. /\ e.line \in Seq(Letter) /\ e.n \in Nat \ {0} /\ e.n + Len(e.line) = m + Len(l)
            /\ echo \o e.show \in Seq(Glyph) /\ Shows(Shown(echo \o e.show), e.line)
        BY <1>14, <4>1, <4>2, EditFacts
      <4>. QED  BY <4>3 DEF l, m
    <3>3. /\ call' \in [op : {"gets"}, n : Nat \ {0}, size : Nat, line : Seq(Letter)]
          /\ call'.op = "gets" /\ call'.line = e.line /\ call'.n = e.n /\ call'.size = call.size
      BY <1>1, <3>1, <3>2
    <3>4. Shows(Shown(echo'), call'.line)
      BY <3>1, <3>2, <3>3
    <3>. QED  BY <1>2, <1>5, <3>1, <3>2, <3>3, <3>4 DEF CallOK, EditInv, Shown
  <2>. QED  BY <2>1, <2>2, <2>3
<1>16. TInv'
  BY <1>0, <1>5, <1>10, <1>12, <1>15 DEF TInv
<1>17. OutInv'
  BY <1>0, <1>5, <1>12, <1>15 DEF OutInv
<1>. QED  BY <1>13, <1>15, <1>16, <1>17 DEF IInv
\* One turn of iowrite.
LEMMA WriteNext ==
    ASSUME IInv, iowrite
    PROVE  IInv'
<1>. DEFINE b == SubSeq(call.buf, call.acc + 1, Len(call.buf))
            st == ioterm_write(b)
            x == Begin(iot.cr_out, rawio, tx)
            r == IF st.acc < 0 THEN st.acc ELSE call.acc + st.acc
            stop == r < 0 \/ (r = 0 /\ call.how = "iovprintf")
            L == Len(call.buf)
<1>0. TInv /\ InInv /\ EditInv /\ OutInv /\ call.op = "write" /\ CallOK
  BY DEF IInv, iowrite, TInv
<1>1. call \in [op : {"write"}, how : {"iowrite", "ioputs", "iovprintf"}, buf : Seq(Keys),
                rest : Seq(Seq(Keys)), acc : Nat]
  BY <1>0, Calls
<1>2. /\ iot \in [cr_in : {0, 1}, cr_out : {0, 1}] /\ rawio \in Raw /\ tx \in Seq(Keys)
      /\ written \in Seq(Keys) /\ clean \in BOOLEAN
  BY <1>0 DEF TInv
<1>3. /\ iot' = [iot EXCEPT !.cr_out = st.cr_out] /\ rawio' = st.rawio /\ tx' = st.tx
      /\ clean' = (clean /\ ~st.done /\ ~Split)
      /\ \/ st.acc > 0 /\ r < L /\ call' = [call EXCEPT !.acc = r]
         \/ /\ (st.acc <= 0 \/ r = L) /\ ~stop /\ call.rest # << >>
            /\ call' = [call EXCEPT !.buf = Head(call.rest), !.rest = Tail(@), !.acc = 0]
         \/ (st.acc <= 0 \/ r = L) /\ (stop \/ call.rest = << >>) /\ call' = None
      /\ UNCHANGED <<rx, taken, got, written, echo>>
  BY DEF iowrite
<1>4. st = WriteEnd(b, x)
  BY DEF ioterm_write, WriteEnd, Scan, Begin
<1>5. L \in Nat /\ call.acc \in Nat /\ call.buf \in Seq(Keys) /\ call.rest \in Seq(Seq(Keys))
  BY <1>1
<1>6. b \in Seq(Keys) /\ (call.acc = 0 => b = call.buf) /\ (call.acc < L => b # << >>)
  <2>. DEFINE s == call.buf
              a == call.acc
  <2>. HIDE DEF s, a
  <2>1. \A i \in a + 1 .. Len(s) : s[i] \in Keys
    BY <1>5 DEF s, a
  <2>2. a + 1 \in Int /\ Len(s) \in Int /\ Len(s) \in Nat /\ a \in Nat
    BY <1>5 DEF s, a
  <2>3. SubSeq(s, a + 1, Len(s)) \in Seq(Keys)
        /\ Len(SubSeq(s, a + 1, Len(s))) = IF a + 1 <= Len(s) THEN Len(s) - (a + 1) + 1 ELSE 0
    BY <2>1, <2>2, SubSeqProperties
  <2>4. a = 0 => SubSeq(s, a + 1, Len(s)) = s
    <3>1. SubSeq(s, 1, Len(s)) = s
      BY <1>5, SubSeqFull DEF s
    <3>. QED  BY <3>1
  <2>5. a < Len(s) => SubSeq(s, a + 1, Len(s)) # << >>
    BY <2>2, <2>3
  <2>. QED  BY <2>3, <2>4, <2>5 DEF s, a
<1>7. /\ x \in OutState /\ x.wp = 1 /\ x.acc = 0 /\ x.cr_out = iot.cr_out /\ x.rawio = rawio
      /\ x.tx = tx
  <2>1. iot.cr_out \in {0, 1}
    BY <1>2
  <2>. DEFINE q == iot.cr_out
  <2>2. q \in {0, 1} /\ x = Begin(q, rawio, tx)
    BY <2>1
  <2>. HIDE DEF q, x
  <2>3. /\ x \in OutState /\ x.wp = 1 /\ x.acc = 0 /\ x.cr_out = q /\ x.rawio = rawio
        /\ x.tx = tx
    BY <1>2, <2>2 DEF Begin, OutState
  <2>. QED  BY <2>3 DEF q
<1>. HIDE DEF b, x, st
<1>8. st \in OutState
  BY <1>4, <1>6, <1>7, WriteType
<1>9. st.cr_out \in {0, 1} /\ st.rawio \in Raw /\ st.tx \in Seq(Keys) /\ st.acc \in Int
  BY <1>8 DEF OutState
<1>10. /\ iot' \in [cr_in : {0, 1}, cr_out : {0, 1}] /\ iot'.cr_out = st.cr_out
       /\ iot'.cr_in = iot.cr_in
  BY <1>2, <1>3, <1>9
<1>11. r \in Int /\ (st.acc > 0 => r \in Nat /\ r # 0)
  BY <1>5, <1>9
<1>. HIDE DEF r, L, stop
<1>. DEFINE R1 == st.acc > 0 /\ r < L /\ call' = [call EXCEPT !.acc = r]
            R2 == /\ (st.acc <= 0 \/ r = L) /\ ~stop /\ call.rest # << >>
                  /\ call' = [call EXCEPT !.buf = Head(call.rest), !.rest = Tail(@), !.acc = 0]
            R3 == (st.acc <= 0 \/ r = L) /\ (stop \/ call.rest = << >>) /\ call' = None
<1>12. R1 \/ R2 \/ R3
  BY <1>3
<1>13. ASSUME R1
       PROVE  /\ call'.op = "write" /\ call'.how = call.how /\ call'.buf = call.buf
              /\ call'.rest = call.rest /\ call'.acc = r /\ r # 0 /\ CallOK'
  <2>1. call' \in [op : {"write"}, how : {"iowrite", "ioputs", "iovprintf"}, buf : Seq(Keys),
                   rest : Seq(Seq(Keys)), acc : Nat]
    BY <1>1, <1>11, <1>13
  <2>. QED  BY <1>1, <1>11, <1>13, <2>1 DEF CallOK
<1>14. ASSUME R2
       PROVE  /\ call'.op = "write" /\ call'.how = call.how /\ call'.buf = Head(call.rest)
              /\ call'.rest = Tail(call.rest) /\ call'.acc = 0 /\ CallOK'
              /\ FlattenSeq(call.rest) = call'.buf \o FlattenSeq(call'.rest)
              /\ Singles(call.rest) => Len(call'.buf) = 1 /\ Singles(call'.rest)
              /\ call'.buf \in Seq(Keys) /\ call'.rest \in Seq(Seq(Keys))
  <2>. DEFINE q == call.rest
              h == Head(q)
              t == Tail(q)
  <2>1. /\ h \in Seq(Keys) /\ t \in Seq(Seq(Keys)) /\ h = q[1] /\ Len(t) = Len(q) - 1
        /\ \A i \in 1 .. Len(t) : t[i] = q[i + 1]
    BY <1>5, <1>14, HeadTailProperties
  <2>2. FlattenSeq(q) = h \o FlattenSeq(t)
    BY <1>5, <1>14, FlatHead
  <2>3. Singles(q) => Len(h) = 1 /\ Singles(t)
    <3>. SUFFICES ASSUME Singles(q) PROVE Len(h) = 1 /\ Singles(t)
      OBVIOUS
    <3>1. Len(q) \in Nat /\ 1 \in 1 .. Len(q)
      BY <1>5, <1>14
    <3>2. Len(h) = 1
      BY <2>1, <3>1 DEF Singles
    <3>. HIDE DEF q, h, t
    <3>3. ASSUME NEW i \in 1 .. Len(t) PROVE Len(t[i]) = 1
      <4>1. i + 1 \in 1 .. Len(q)
        BY <2>1, <3>1
      <4>. QED  BY <2>1, <3>1, <4>1 DEF Singles
    <3>. QED  BY <3>2, <3>3 DEF Singles
  <2>4. call' = [call EXCEPT !.buf = h, !.rest = t, !.acc = 0]
    BY <1>14
  <2>. HIDE DEF h, t
  <2>5. call' = [op |-> call.op, how |-> call.how, buf |-> h, rest |-> t, acc |-> 0]
    BY <1>1, <2>4
  <2>6. /\ call' \in [op : {"write"}, how : {"iowrite", "ioputs", "iovprintf"}, buf : Seq(Keys),
                      rest : Seq(Seq(Keys)), acc : Nat]
        /\ call'.op = "write" /\ call'.how = call.how /\ call'.buf = h /\ call'.rest = t
        /\ call'.acc = 0
    BY <1>1, <2>1, <2>5
  <2>. QED  BY <2>1, <2>2, <2>3, <2>6 DEF CallOK, h, t
<1>15. ASSUME R3 PROVE call'.op = "none" /\ CallOK'
  BY <1>15 DEF None, CallOK
<1>16. CallOK' /\ call'.op \in {"write", "none"}
  <2>1. CASE R1
    BY <1>13, <2>1
  <2>2. CASE R2
    BY <1>14, <2>2
  <2>3. CASE R3
    BY <1>15, <2>3
  <2>. QED  BY <1>12, <2>1, <2>2, <2>3
<1>17. TInv'
  <2>1. clean' \in BOOLEAN
    BY <1>2, <1>3
  <2>. QED  BY <1>0, <1>3, <1>9, <1>10, <1>16, <2>1 DEF TInv
<1>18. InInv' /\ EditInv'
  BY <1>0, <1>3, <1>10, <1>16 DEF InInv, EditInv
<1>19. call'.op = "write" /\ call'.how = "iovprintf" => Len(call'.buf) = 1 /\ Singles(call'.rest)
  <2>1. call.how = "iovprintf" => Len(call.buf) = 1 /\ Singles(call.rest)
    BY <1>0 DEF OutInv
  <2>2. CASE R1
    BY <1>13, <2>1, <2>2
  <2>3. CASE R2
    BY <1>14, <2>1, <2>3
  <2>4. CASE R3
    BY <1>15, <2>4
  <2>. QED  BY <1>12, <2>2, <2>3, <2>4
<1>20. ASSUME clean'
       PROVE  /\ call'.op # "write" => tx' = Sent(written') /\ iot'.cr_out = CrOf(written')
              /\ call'.op = "write" /\ call'.acc = 0 =>
                   \E P \in Seq(Keys) : /\ written' = P \o (call'.buf \o FlattenSeq(call'.rest))
                                        /\ tx' = Sent(P) /\ iot'.cr_out = CrOf(P)
              /\ call'.op = "write" /\ call'.acc # 0 =>
                   Full(rawio') /\ iot'.cr_out = 0 /\ call'.acc < Len(call'.buf)
  <2>1. clean /\ ~st.done /\ ~Split
    BY <1>3, <1>20
  <2>2. call.acc = 0
    <3>. SUFFICES ASSUME call.acc # 0 PROVE FALSE
      OBVIOUS
    <3>1. Full(rawio) /\ iot.cr_out = 0 /\ call.acc < L
      BY <1>0, <2>1 DEF OutInv, L
    <3>2. st.done
      BY <1>4, <1>6, <1>7, <3>1, WriteFull
    <3>. QED  BY <2>1, <3>2
  <2>3. PICK P \in Seq(Keys) : /\ written = P \o (call.buf \o FlattenSeq(call.rest))
                               /\ tx = Sent(P) /\ iot.cr_out = CrOf(P)
    BY <1>0, <2>1, <2>2 DEF OutInv
  <2>4. b = call.buf /\ L = Len(b)
    BY <1>6, <2>2 DEF L
  <2>5. Joint(P, b) => Len(b) = 1 /\ ~(call.how = "iovprintf" /\ call.rest # << >>)
    <3>. SUFFICES ASSUME Joint(P, b) PROVE Len(b) = 1 /\ ~(call.how = "iovprintf" /\ call.rest # << >>)
      OBVIOUS
    <3>1. Len(b) > 0 /\ Len(b) \in Nat /\ b[1] = LF /\ iot.cr_out = 1
      BY <1>6, <2>3 DEF Joint
    <3>2. Head(call.buf) = LF
      BY <1>5, <2>4, <3>1
    <3>3. ~(Len(call.buf) > 1 \/ (call.how = "iovprintf" /\ call.rest # << >>))
      BY <2>1, <2>2, <3>1, <3>2 DEF Split
    <3>4. ~(Len(b) > 1)
      BY <2>4, <3>3
    <3>5. Len(b) = 1
      <4>1. ASSUME NEW q \in Nat, q > 0, ~(q > 1) PROVE q = 1
        BY <4>1
      <4>. QED  BY <3>1, <3>4, <4>1
    <3>. QED  BY <3>3, <3>5
  <2>6. Whole(P, b, st) \/ Cut(b, st)
    BY <1>4, <1>6, <1>7, <2>1, <2>3, <2>5, WriteFacts
  <2>7. r = st.acc /\ L \in Nat
    BY <1>5, <1>9, <2>2 DEF r, L
  <2>8. CASE Cut(b, st)
    <3>1. st.acc \in 1 .. L - 1 /\ Full(st.rawio) /\ st.cr_out = 0
      BY <2>4, <2>8 DEF Cut
    <3>2. R1
      BY <1>9, <1>12, <2>7, <3>1
    <3>3. call'.op = "write" /\ call'.acc = r /\ r # 0 /\ call'.buf = call.buf
      BY <1>13, <3>2
    <3>4. call'.acc < Len(call'.buf)
      BY <2>4, <2>7, <3>1, <3>3
    <3>. QED  BY <1>3, <1>10, <3>1, <3>3, <3>4
  <2>9. CASE Whole(P, b, st)
    <3>1. /\ st.tx = Sent(P \o b) /\ st.cr_out = CrOf(P \o b)
          /\ st.acc = L \/ (st.acc = 0 /\ Joint(P, b))
      BY <2>4, <2>9 DEF Whole
    <3>2. P \o b \in Seq(Keys) /\ FlattenSeq(call.rest) \in Seq(Keys)
      BY <1>5, <1>6, Joins, FlatAppend
    <3>3. written = (P \o b) \o FlattenSeq(call.rest)
      <4>. DEFINE rest == FlattenSeq(call.rest)
      <4>1. written = P \o (b \o rest)
        BY <2>3, <2>4
      <4>2. b \in Seq(Keys) /\ rest \in Seq(Keys)
        BY <1>6, <3>2
      <4>. HIDE DEF rest
      <4>3. (P \o b) \o rest = P \o (b \o rest)
        BY <4>2, Assoc
      <4>. QED  BY <4>1, <4>3 DEF rest
    <3>4. ~R1
      BY <2>7, <3>1
    <3>5. CASE R2
      <4>1. written' = (P \o b) \o (call'.buf \o FlattenSeq(call'.rest))
        BY <1>3, <1>14, <3>3, <3>5
      <4>. QED  BY <1>3, <1>10, <1>14, <3>1, <3>2, <3>5, <4>1
    <3>6. CASE R3
      <4>1. call.rest = << >>
        <5>. SUFFICES ASSUME call.rest # << >> PROVE FALSE
          OBVIOUS
        <5>1. stop
          BY <3>6
        <5>2. r = 0 /\ call.how = "iovprintf"
          BY <2>7, <3>1, <5>1 DEF stop
        <5>3. L = 1
          BY <1>0, <5>2 DEF OutInv, L
        <5>4. Joint(P, b)
          BY <2>7, <3>1, <5>2, <5>3
        <5>. QED  BY <2>5, <5>2, <5>4
      <4>2. FlattenSeq(call.rest) = << >>
        BY <4>1, FlatAppend
      <4>3. written' = P \o b
        BY <1>3, <3>2, <3>3, <4>2, Joins
      <4>4. call'.op = "none"
        BY <1>15, <3>6
      <4>. QED  BY <1>3, <1>10, <3>1, <4>3, <4>4
    <3>. QED  BY <1>12, <3>4, <3>5, <3>6
  <2>. QED  BY <2>6, <2>8, <2>9
<1>21. OutInv'
  BY <1>19, <1>20 DEF OutInv, Singles
<1>. QED  BY <1>17, <1>18, <1>21 DEF IInv

LEMMA NextIInv == IInv /\ [Next]_vars => IInv'
<1>. SUFFICES ASSUME IInv, [Next]_vars PROVE IInv'
  OBVIOUS
<1>1. CASE UNCHANGED vars
  <2>1. UNCHANGED <<iot, rawio, rx, call, taken, got, written, tx, echo, clean>>
    BY <1>1 DEF vars
  <2>2. TInv'
    BY <2>1 DEF IInv, TInv, CallOK
  <2>3. InInv' /\ EditInv' /\ OutInv'
    BY <2>1 DEF IInv, InInv, EditInv, OutInv
  <2>. QED  BY <2>2, <2>3 DEF IInv
<1>2. ASSUME NEW s \in Buffers, StartWrite("iowrite", <<s>>) \/ ioputs(s) \/ iovprintf(s) PROVE IInv'
  <2>1. s \in Seq(Keys) /\ <<LF>> \in Seq(Keys)
    BY IoTermAssumption DEF Keys
  <2>2. CASE StartWrite("iowrite", <<s>>)
    <3>1. <<s>> \in Seq(Seq(Keys))
      BY <2>1
    <3>. QED  BY <2>2, <3>1, StartWriteNext
  <2>3. CASE ioputs(s)
    <3>1. <<s, <<LF>>>> \in Seq(Seq(Keys))
      BY <2>1
    <3>2. StartWrite("ioputs", <<s, <<LF>>>>)
      BY <2>3 DEF ioputs
    <3>. QED  BY <3>1, <3>2, StartWriteNext
  <2>4. CASE iovprintf(s)
    <3>. DEFINE q == [i \in DOMAIN s |-> <<s[i]>>]
    <3>1. q \in Seq(Seq(Keys)) /\ Len(q) = Len(s)
      <4>1. \A i \in 1 .. Len(s) : <<s[i]>> \in Seq(Keys)
        BY <2>1
      <4>2. DOMAIN s = 1 .. Len(s) /\ Len(s) \in Nat
        BY <2>1
      <4>3. q \in [1 .. Len(s) -> Seq(Keys)]
        BY <4>1, <4>2
      <4>. HIDE DEF q
      <4>. QED  BY <4>2, <4>3
    <3>2. Singles(q)
      <4>1. ASSUME NEW i \in 1 .. Len(q) PROVE Len(q[i]) = 1
        <5>1. i \in DOMAIN s
          BY <2>1, <3>1
        <5>2. q[i] = <<s[i]>>
          BY <5>1
        <5>. QED  BY <5>2
      <4>. HIDE DEF q
      <4>. QED  BY <4>1 DEF Singles
    <3>3. StartWrite("iovprintf", q)
      BY <2>4 DEF iovprintf
    <3>. HIDE DEF q
    <3>. QED  BY <3>1, <3>2, <3>3, StartWriteNext
  <2>. QED  BY <1>2, <2>2, <2>3, <2>4
<1>3. ASSUME NEW cmd \in {"GETLEN", "GETPOS", "SETPOS"}, NEW arg \in {0, Len(Lit) + 1},
             NEW through \in BOOLEAN, Ctl(cmd, arg, through)
      PROVE  IInv'
  <2>1. Len(Lit) \in Nat
    BY IoTermAssumption
  <2>2. arg \in Nat
    BY <2>1
  <2>. QED  BY <1>3, <2>2, CtlNext
<1>. QED  BY <1>1, <1>2, <1>3, TypeNext, StartReadNext, StartLineNext, ReadNext, GetsNext,
             WriteNext, CloseNext DEF Next

LEMMA Invariance == Spec => []IInv
BY InitIInv, NextIInv, PTL DEF Spec

-----------------------------------------------------------------------------
(* The theorems *)

\* However the bytes of a stream are cut into reads, keys, writes, puts and
\* prints, readers have received what the raw bytes mean, and between writes the
\* raw interface has got what the written characters mean, unless a write fell
\* short or a \r \n was split (ioterm_read, ioterm_write, cr_in and cr_out).
THEOREM LineEndingSafety == Spec => []LineEndingsNormalised
<1>1. IInv => LineEndingsNormalised
  BY DEF IInv, InInv, OutInv, LineEndingsNormalised
<1>. QED  BY <1>1, Invariance, PTL

\* While ioterm_getsn edits a line, of any length and with any printable or
\* editing keys (Keys), the screen shows exactly the line, the cursor is after it,
\* and it fits in the buffer.
THEOREM ScreenSafety == Spec => []ScreenShowsLine
<1>1. ASSUME IInv PROVE ScreenShowsLine
  <2>. SUFFICES ASSUME call.op = "gets" PROVE ScreenShowsLine
    BY DEF ScreenShowsLine
  <2>. DEFINE scr == Shown(echo)
              l == call.line
  <2>1. call \in [op : {"gets"}, n : Nat \ {0}, size : Nat, line : Seq(Letter)]
    BY <1>1, Calls DEF IInv, TInv
  <2>2. call.n + Len(l) = call.size /\ Shows(scr, l)
    BY <1>1 DEF IInv, EditInv
  <2>3. l \in Seq(Letter) /\ Len(l) \in Nat /\ Len(l) < call.size
    BY <2>1, <2>2
  <2>. HIDE DEF scr, l
  <2>4. /\ scr.cells \in Seq(Glyph) /\ scr.cur = Len(l) /\ scr.cur <= Len(scr.cells)
        /\ \A i \in 1 .. Len(l) : scr.cells[i] = l[i]
        /\ \A i \in 1 .. Len(scr.cells) : i > scr.cur => scr.cells[i] = BLANK
    BY <2>2 DEF Shows, Screen
  <2>5. SubSeq(scr.cells, 1, scr.cur) = l
    <3>. DEFINE c == scr.cells
                n == Len(l)
                v == SubSeq(c, 1, n)
    <3>1. \A i \in 1 .. n : c[i] \in Glyph
      BY <2>3, <2>4
    <3>2. 1 \in Int /\ n \in Int /\ n \in Nat
      BY <2>3
    <3>. HIDE DEF n
    <3>3. /\ v \in Seq(Glyph) /\ Len(v) = IF 1 <= n THEN n - 1 + 1 ELSE 0
          /\ \A i \in 1 .. n - 1 + 1 : v[i] = c[1 + i - 1]
      BY <3>1, <3>2, SubSeqProperties
    <3>4. Len(v) = n
      BY <3>2, <3>3
    <3>5. ASSUME NEW i \in 1 .. n PROVE v[i] = l[i]
      <4>1. i \in 1 .. n - 1 + 1 /\ 1 + i - 1 = i
        BY <3>2
      <4>2. v[i] = c[i]
        BY <3>3, <4>1
      <4>. QED  BY <2>4, <4>2 DEF n
    <3>6. l \in Seq(Glyph)
      <4>1. Letter \subseteq Glyph
        BY DEF Letter, Glyph
      <4>. QED  BY <2>3, <4>1, SeqMonotonic
    <3>. HIDE DEF v
    <3>7. v = l
      BY <3>3, <3>4, <3>5, <3>6, SeqEqual DEF n
    <3>. QED  BY <2>4, <3>7 DEF v, n
  <2>6. \A i \in DOMAIN scr.cells : i > scr.cur => scr.cells[i] = BLANK
    BY <2>4
  <2>. QED  BY <2>3, <2>4, <2>5, <2>6 DEF ScreenShowsLine, scr, l, Shown, Empty
<1>. QED  BY <1>1, Invariance, PTL
=============================================================================

----------------------------- MODULE UartProofs -----------------------------
(***************************************************************************)
(* Proofs about Uart, for any number of threads, any size of the rings and *)
(* any width of their positions: the two rings are queues (every byte once *)
(* and in order, though rbuf_get and rbuf_put run with interrupts on), no  *)
(* wakeup is lost and no interrupt stays disabled with work to do.         *)
(***************************************************************************)
EXTENDS Uart, SchedulerProofs, FiniteSetTheorems

-----------------------------------------------------------------------------
(* Division *)

\* Multiples of the modulus do not change a remainder.
LEMMA RemainderShift ==
    ASSUME NEW m \in Nat \ {0}, NEW x \in Int, NEW k \in Int
    PROVE  (x + m * k) % m = x % m
<1>. DEFINE q == x \div m
            r == x % m
<1>1. q \in Int /\ r \in 0 .. m - 1 /\ r = x - m * q
  BY Remainder
<1>. HIDE DEF q, r
<1>2. m * q \in Int /\ m * k \in Int /\ m * (q + k) \in Int
  BY <1>1
<1>3. x + m * k = m * (q + k) + r
  BY <1>1, <1>2
<1>4. (m * (q + k) + r) % m = r
  BY <1>1, RemainderOf
<1>. QED  BY <1>3, <1>4 DEF r

\* Numbers that differ by less than the modulus have different remainders.
LEMMA RemainderDiffers ==
    ASSUME NEW m \in Nat \ {0}, NEW x \in Int, NEW d \in 1 .. m - 1
    PROVE  (x + d) % m # x % m
<1>. SUFFICES ASSUME (x + d) % m = x % m PROVE FALSE
  OBVIOUS
<1>. DEFINE q == x \div m
            p == (x + d) \div m
            r == x % m
<1>1. q \in Int /\ r \in 0 .. m - 1 /\ r = x - m * q
  BY Remainder
<1>2. p \in Int /\ r = (x + d) - m * p
  <2>1. x + d \in Int
    OBVIOUS
  <2>2. (x + d) % m = (x + d) - m * p /\ p \in Int
    BY <2>1, Remainder
  <2>. QED  BY <2>2
<1>. HIDE DEF q, p, r
<1>3. m * q \in Int /\ m * p \in Int /\ m * (p - q) \in Int /\ p - q \in Int
  BY <1>1, <1>2
<1>4. m * (p - q) = d
  BY <1>1, <1>2, <1>3
<1>5. p - q < 1 => m * (p - q) <= 0
  BY <1>3
<1>6. p - q >= 1 => m * (p - q) >= m
  BY <1>3
<1>. QED  BY <1>3, <1>4, <1>5, <1>6

-----------------------------------------------------------------------------
(* The ring buffer *)

LEMMA RingConstants ==
    /\ RBUFSZ \in Nat \ {0} /\ PosMod \in Nat \ {0} /\ RBUFSZ < PosMod
    /\ \E k \in Int : PosMod = RBUFSZ * k
<1>1. PosMod \in Int /\ RBUFSZ \in Nat \ {0} /\ RBUFSZ < PosMod
  BY RingAssumption DEF PosMod
<1>2. PosMod % RBUFSZ = 0
  BY RingAssumption
<1>3. PosMod % RBUFSZ = PosMod - RBUFSZ * (PosMod \div RBUFSZ) /\ PosMod \div RBUFSZ \in Int
  BY <1>1, Remainder
<1>. DEFINE k == PosMod \div RBUFSZ
<1>4. k \in Int /\ RBUFSZ * k \in Int
  BY <1>1, <1>3
<1>5. PosMod = RBUFSZ * k
  BY <1>1, <1>2, <1>3, <1>4
<1>6. PosMod \in Nat \ {0}
  BY <1>1
<1>. HIDE DEF k
<1>. QED  BY <1>1, <1>4, <1>5, <1>6

\* A position moves by one; its index moves by one too, also where it wraps.
LEMMA NextPos ==
    ASSUME NEW p \in Pos
    PROVE  /\ (p + 1) % PosMod = IF p = PosMod - 1 THEN 0 ELSE p + 1
           /\ (p + 1) % PosMod \in Pos
           /\ \A i \in Int : (((p + 1) % PosMod) + i) % RBUFSZ = (p + 1 + i) % RBUFSZ
<1>1. (p + 1) % PosMod = IF p = PosMod - 1 THEN 0 ELSE p + 1
  <2>1. CASE p = PosMod - 1
    <3>1. p + 1 = PosMod * 1 + 0 /\ 0 \in 0 .. PosMod - 1
      BY <2>1, RingConstants
    <3>2. (PosMod * 1 + 0) % PosMod = 0
      BY <3>1, RemainderOf, RingConstants
    <3>. QED  BY <2>1, <3>1, <3>2
  <2>2. CASE p # PosMod - 1
    <3>1. p + 1 = PosMod * 0 + (p + 1) /\ p + 1 \in 0 .. PosMod - 1
      BY <2>2, RingConstants DEF Pos
    <3>2. (PosMod * 0 + (p + 1)) % PosMod = p + 1
      BY <3>1, RemainderOf, RingConstants
    <3>. QED  BY <2>2, <3>1, <3>2
  <2>. QED  BY <2>1, <2>2
<1>2. (p + 1) % PosMod \in Pos
  BY <1>1, RingConstants DEF Pos
<1>3. ASSUME NEW i \in Int
      PROVE  (((p + 1) % PosMod) + i) % RBUFSZ = (p + 1 + i) % RBUFSZ
  <2>1. CASE p = PosMod - 1
    <3>1. PICK k \in Int : PosMod = RBUFSZ * k
      BY RingConstants
    <3>2. p + 1 + i = i + RBUFSZ * k /\ ((p + 1) % PosMod) + i = i
      BY <1>1, <2>1, <3>1, RingConstants
    <3>3. (i + RBUFSZ * k) % RBUFSZ = i % RBUFSZ
      BY RemainderShift, RingConstants
    <3>. QED  BY <3>2, <3>3
  <2>2. CASE p # PosMod - 1
    BY <1>1, <2>2
  <2>. QED  BY <2>1, <2>2
<1>. QED  BY <1>1, <1>2, <1>3

\* The difference of two positions, truncated to their width.
LEMMA PosDiff ==
    ASSUME NEW h \in Pos, NEW t \in Pos
    PROVE  (t - h) % PosMod = IF t >= h THEN t - h ELSE t - h + PosMod
<1>1. CASE t >= h
  <2>1. t - h = PosMod * 0 + (t - h) /\ t - h \in 0 .. PosMod - 1
    BY <1>1, RingConstants DEF Pos
  <2>2. (PosMod * 0 + (t - h)) % PosMod = t - h
    BY <2>1, RemainderOf, RingConstants
  <2>. QED  BY <1>1, <2>1, <2>2
<1>2. CASE t < h
  <2>1. t - h = PosMod * (-1) + (t - h + PosMod) /\ t - h + PosMod \in 0 .. PosMod - 1
    BY <1>2, RingConstants DEF Pos
  <2>2. ASSUME NEW q \in Int, q = -1
        PROVE  (PosMod * q + (t - h + PosMod)) % PosMod = t - h + PosMod
    BY <2>1, RemainderOf, RingConstants
  <2>. QED  BY <1>2, <2>1, <2>2 DEF Pos
<1>. QED  BY <1>1, <1>2 DEF Pos

\* A ring that holds at most RBUFSZ bytes.
RingOK(r) == r \in Ring /\ rbuf_count(r) <= RBUFSZ

LEMMA RingFacts ==
    ASSUME NEW r, RingOK(r)
    PROVE  /\ r.hpos \in Pos /\ r.tpos \in Pos
           /\ rbuf_count(r) \in 0 .. RBUFSZ
           /\ rbuf_count(r) = IF r.tpos >= r.hpos THEN r.tpos - r.hpos
                              ELSE r.tpos - r.hpos + PosMod
           /\ rbuf_empty(r) <=> rbuf_count(r) = 0
           /\ rbuf_full(r) <=> rbuf_count(r) = RBUFSZ
           /\ rbuf_empty(r) => ~rbuf_full(r)
           /\ r.tpos % RBUFSZ = (r.hpos + rbuf_count(r)) % RBUFSZ
<1>1. r.hpos \in Pos /\ r.tpos \in Pos
  BY DEF RingOK, Ring
<1>2. rbuf_count(r) = IF r.tpos >= r.hpos THEN r.tpos - r.hpos
                      ELSE r.tpos - r.hpos + PosMod
  BY <1>1, PosDiff DEF rbuf_count
<1>3. rbuf_count(r) \in 0 .. RBUFSZ
  BY <1>1, <1>2, RingConstants DEF RingOK, Pos
<1>4. rbuf_empty(r) <=> rbuf_count(r) = 0
  BY <1>1, <1>2, RingConstants DEF rbuf_empty, Pos
<1>5. r.tpos % RBUFSZ = (r.hpos + rbuf_count(r)) % RBUFSZ
  <2>1. CASE r.tpos >= r.hpos
    <3>1. r.hpos + rbuf_count(r) = r.tpos
      BY <1>1, <1>2, <2>1 DEF Pos
    <3>. QED  BY <3>1
  <2>2. CASE ~(r.tpos >= r.hpos)
    <3>1. PICK k \in Int : PosMod = RBUFSZ * k
      BY RingConstants
    <3>2. r.hpos + rbuf_count(r) = r.tpos + RBUFSZ * k
      BY <1>1, <1>2, <2>2, <3>1, RingConstants DEF Pos
    <3>3. (r.tpos + RBUFSZ * k) % RBUFSZ = r.tpos % RBUFSZ
      <4>1. r.tpos \in Int
        BY <1>1 DEF Pos
      <4>. QED  BY <4>1, RemainderShift, RingConstants
    <3>. QED  BY <3>2, <3>3
  <2>. QED  BY <2>1, <2>2
<1>. QED  BY <1>1, <1>2, <1>3, <1>4, <1>5, RingConstants DEF rbuf_full

\* Contents is a sequence of cells, and the cell behind the tail is none of them
\* while the ring is not full.
LEMMA ContentsFacts ==
    ASSUME NEW r, RingOK(r)
    PROVE  /\ Contents(r) \in Seq(Byte \cup {NoByte})
           /\ Len(Contents(r)) = rbuf_count(r)
           /\ \A i \in 1 .. rbuf_count(r) :
                 /\ Contents(r)[i] = r.data[(r.hpos + i - 1) % RBUFSZ]
                 /\ (r.hpos + i - 1) % RBUFSZ \in 0 .. RBUFSZ - 1
                 /\ ~rbuf_full(r) => (r.hpos + i - 1) % RBUFSZ # r.tpos % RBUFSZ
           /\ r.tpos % RBUFSZ \in 0 .. RBUFSZ - 1
           /\ r.hpos % RBUFSZ \in 0 .. RBUFSZ - 1
<1>1. /\ r.hpos \in Int /\ r.tpos \in Int /\ rbuf_count(r) \in 0 .. RBUFSZ
      /\ r.tpos % RBUFSZ = (r.hpos + rbuf_count(r)) % RBUFSZ
      /\ rbuf_full(r) <=> rbuf_count(r) = RBUFSZ
  BY RingFacts DEF Pos
<1>2. ASSUME NEW x \in Int PROVE x % RBUFSZ \in 0 .. RBUFSZ - 1
  BY Remainder, RingConstants
<1>3. ASSUME NEW i \in 1 .. rbuf_count(r)
      PROVE  (r.hpos + i - 1) % RBUFSZ \in 0 .. RBUFSZ - 1
  BY <1>1, <1>2
<1>4. r.data \in [0 .. RBUFSZ - 1 -> Byte \cup {NoByte}]
  BY DEF RingOK, Ring
<1>5. Contents(r) \in [1 .. rbuf_count(r) -> Byte \cup {NoByte}]
  BY <1>3, <1>4 DEF Contents
<1>6. Contents(r) \in Seq(Byte \cup {NoByte}) /\ Len(Contents(r)) = rbuf_count(r)
  BY <1>1, <1>5
<1>7. ASSUME NEW i \in 1 .. rbuf_count(r), ~rbuf_full(r)
      PROVE  (r.hpos + i - 1) % RBUFSZ # r.tpos % RBUFSZ
  <2>. DEFINE x == r.hpos + i - 1
              d == rbuf_count(r) - i + 1
  <2>1. x \in Int /\ d \in 1 .. RBUFSZ - 1 /\ x + d = r.hpos + rbuf_count(r)
    BY <1>1, <1>7, RingConstants
  <2>. HIDE DEF x, d
  <2>2. (x + d) % RBUFSZ # x % RBUFSZ
    BY <2>1, RemainderDiffers, RingConstants
  <2>. QED  BY <1>1, <2>1, <2>2 DEF x
<1>8. \A i \in 1 .. rbuf_count(r) : Contents(r)[i] = r.data[(r.hpos + i - 1) % RBUFSZ]
  BY DEF Contents
<1>. QED  BY <1>1, <1>2, <1>3, <1>6, <1>7, <1>8

\* rbuf_put, the store of the byte: nothing that is queued changes.
LEMMA PutData ==
    ASSUME NEW r, RingOK(r), ~rbuf_full(r), NEW c \in Byte \cup {NoByte}
    PROVE  /\ RingOK(put_data(r, c))
           /\ Contents(put_data(r, c)) = Contents(r)
           /\ rbuf_count(put_data(r, c)) = rbuf_count(r)
           /\ put_data(r, c).hpos = r.hpos /\ put_data(r, c).tpos = r.tpos
           /\ put_data(r, c).data[r.tpos % RBUFSZ] = c
           /\ rbuf_count(r) > 0 => get_data(put_data(r, c)) = get_data(r)
<1>. DEFINE s == put_data(r, c)
<1>0. r \in Ring /\ r.tpos % RBUFSZ \in 0 .. RBUFSZ - 1 /\ r.hpos \in Int
  BY ContentsFacts, RingFacts DEF RingOK, Pos
<1>1. /\ s.hpos = r.hpos /\ s.tpos = r.tpos
      /\ s.data = [r.data EXCEPT ![r.tpos % RBUFSZ] = c]
      /\ s \in Ring
  BY <1>0 DEF put_data, Ring
<1>2. rbuf_count(s) = rbuf_count(r) /\ RingOK(s)
  BY <1>1 DEF rbuf_count, RingOK
<1>3. ASSUME NEW i \in 1 .. rbuf_count(r)
      PROVE  s.data[(r.hpos + i - 1) % RBUFSZ] = r.data[(r.hpos + i - 1) % RBUFSZ]
  BY <1>0, <1>1, ContentsFacts DEF Ring
<1>4. Contents(s) = Contents(r)
  BY <1>1, <1>2, <1>3 DEF Contents
<1>5. ASSUME rbuf_count(r) > 0 PROVE get_data(s) = get_data(r)
  <2>1. 1 \in 1 .. rbuf_count(r) /\ r.hpos + 1 - 1 = r.hpos
    BY <1>0, <1>5, RingFacts
  <2>2. s.data[(r.hpos + 1 - 1) % RBUFSZ] = r.data[(r.hpos + 1 - 1) % RBUFSZ]
    BY <1>3, <2>1
  <2>. QED  BY <1>1, <2>1, <2>2 DEF get_data
<1>6. s.data[r.tpos % RBUFSZ] = c
  BY <1>0, <1>1 DEF Ring
<1>. QED  BY <1>1, <1>2, <1>4, <1>5, <1>6

\* rbuf_put, the store of tpos: the byte behind the tail is queued.
LEMMA PutTpos ==
    ASSUME NEW r, RingOK(r), ~rbuf_full(r)
    PROVE  /\ RingOK(put_tpos(r))
           /\ rbuf_count(put_tpos(r)) = rbuf_count(r) + 1
           /\ Contents(put_tpos(r)) = Append(Contents(r), r.data[r.tpos % RBUFSZ])
           /\ get_data(put_tpos(r)) = get_data(r)
<1>. DEFINE s == put_tpos(r)
            n == rbuf_count(r)
<1>0. /\ r \in Ring /\ r.tpos \in Pos /\ r.hpos \in Pos
      /\ n \in 0 .. RBUFSZ - 1
      /\ n = IF r.tpos >= r.hpos THEN r.tpos - r.hpos ELSE r.tpos - r.hpos + PosMod
  BY RingFacts, RingConstants DEF RingOK
<1>1. /\ s.hpos = r.hpos /\ s.data = r.data
      /\ s.tpos = IF r.tpos = PosMod - 1 THEN 0 ELSE r.tpos + 1
      /\ s.tpos \in Pos
      /\ s \in Ring
  BY <1>0, NextPos DEF put_tpos, Ring
<1>. HIDE DEF s
<1>2. rbuf_count(s) = IF s.tpos >= s.hpos THEN s.tpos - s.hpos ELSE s.tpos - s.hpos + PosMod
  BY <1>0, <1>1, PosDiff DEF rbuf_count
<1>3. rbuf_count(s) = n + 1
  BY <1>0, <1>1, <1>2, RingConstants DEF Pos
<1>4. RingOK(s)
  BY <1>0, <1>1, <1>3, RingConstants DEF RingOK
<1>. DEFINE x == r.data[r.tpos % RBUFSZ]
<1>5. x \in Byte \cup {NoByte} /\ Contents(r) \in Seq(Byte \cup {NoByte}) /\ Len(Contents(r)) = n
  BY <1>0, ContentsFacts DEF Ring
<1>6. /\ Append(Contents(r), x) \in Seq(Byte \cup {NoByte})
      /\ Len(Append(Contents(r), x)) = n + 1
      /\ \A i \in 1 .. n : Append(Contents(r), x)[i] = Contents(r)[i]
      /\ Append(Contents(r), x)[n + 1] = x
  BY <1>5
<1>7. Contents(s) \in Seq(Byte \cup {NoByte}) /\ Len(Contents(s)) = n + 1
  BY <1>3, <1>4, ContentsFacts
<1>8. ASSUME NEW i \in 1 .. n + 1
      PROVE  Contents(s)[i] = Append(Contents(r), x)[i]
  <2>1. Contents(s)[i] = r.data[(r.hpos + i - 1) % RBUFSZ]
    BY <1>1, <1>3, <1>4, ContentsFacts
  <2>2. CASE i \in 1 .. n
    BY <1>6, <2>1, <2>2, ContentsFacts
  <2>3. CASE i = n + 1
    <3>1. r.hpos + i - 1 = r.hpos + n
      BY <1>0, <2>3 DEF Pos
    <3>2. r.tpos % RBUFSZ = (r.hpos + n) % RBUFSZ
      BY RingFacts
    <3>. QED  BY <1>6, <2>1, <2>3, <3>1, <3>2
  <2>4. i \in 1 .. n \/ i = n + 1
    BY <1>0, RingConstants
  <2>. QED  BY <2>2, <2>3, <2>4
<1>9. Contents(s) = Append(Contents(r), x)
  BY <1>0, <1>6, <1>7, <1>8
<1>10. get_data(s) = get_data(r)
  BY <1>1 DEF get_data
<1>. QED  BY <1>3, <1>4, <1>9, <1>10 DEF s

\* rbuf_put in the ISR is the two stores together.
LEMMA RbufPut ==
    ASSUME NEW r, RingOK(r), ~rbuf_full(r), NEW c \in Byte \cup {NoByte}
    PROVE  /\ RingOK(rbuf_put(r, c))
           /\ rbuf_count(rbuf_put(r, c)) = rbuf_count(r) + 1
           /\ Contents(rbuf_put(r, c)) = Append(Contents(r), c)
           /\ rbuf_count(r) > 0 => get_data(rbuf_put(r, c)) = get_data(r)
<1>1. rbuf_put(r, c) = put_tpos(put_data(r, c))
  BY DEF rbuf_put, put_tpos, put_data, RingOK, Ring
<1>2. ~rbuf_full(put_data(r, c))
  BY PutData DEF rbuf_full
<1>. QED  BY <1>1, <1>2, PutData, PutTpos

\* rbuf_get, the store of hpos: the oldest byte goes.
LEMMA GetHpos ==
    ASSUME NEW r, RingOK(r), ~rbuf_empty(r)
    PROVE  /\ RingOK(get_hpos(r))
           /\ rbuf_count(get_hpos(r)) = rbuf_count(r) - 1
           /\ Contents(r) # << >>
           /\ Head(Contents(r)) = get_data(r)
           /\ Contents(get_hpos(r)) = Tail(Contents(r))
           /\ get_hpos(r).tpos = r.tpos /\ get_hpos(r).data = r.data
<1>. DEFINE s == get_hpos(r)
            n == rbuf_count(r)
<1>0. /\ r \in Ring /\ r.tpos \in Pos /\ r.hpos \in Pos
      /\ n \in 1 .. RBUFSZ
      /\ n = IF r.tpos >= r.hpos THEN r.tpos - r.hpos ELSE r.tpos - r.hpos + PosMod
  BY RingFacts, RingConstants DEF RingOK
<1>1. /\ s.tpos = r.tpos /\ s.data = r.data
      /\ s.hpos = (r.hpos + 1) % PosMod
      /\ s.hpos = IF r.hpos = PosMod - 1 THEN 0 ELSE r.hpos + 1
      /\ s.hpos \in Pos
      /\ s \in Ring
  BY <1>0, NextPos DEF get_hpos, Ring
<1>. HIDE DEF s
<1>2. rbuf_count(s) = IF s.tpos >= s.hpos THEN s.tpos - s.hpos ELSE s.tpos - s.hpos + PosMod
  BY <1>0, <1>1, PosDiff DEF rbuf_count
<1>3. rbuf_count(s) = n - 1
  BY <1>0, <1>1, <1>2, RingConstants DEF Pos
<1>4. RingOK(s)
  BY <1>0, <1>1, <1>3, RingConstants DEF RingOK
<1>5. Contents(r) \in Seq(Byte \cup {NoByte}) /\ Len(Contents(r)) = n
  BY ContentsFacts
<1>6. Contents(r) # << >> /\ Head(Contents(r)) = Contents(r)[1]
  BY <1>0, <1>5
<1>7. Contents(r)[1] = get_data(r)
  <2>1. 1 \in 1 .. n /\ r.hpos + 1 - 1 = r.hpos
    BY <1>0 DEF Pos
  <2>2. Contents(r)[1] = r.data[(r.hpos + 1 - 1) % RBUFSZ]
    BY <2>1, ContentsFacts
  <2>. QED  BY <2>1, <2>2 DEF get_data
<1>8. /\ Tail(Contents(r)) \in Seq(Byte \cup {NoByte})
      /\ Len(Tail(Contents(r))) = n - 1
      /\ \A i \in 1 .. n - 1 : Tail(Contents(r))[i] = Contents(r)[i + 1]
  BY <1>0, <1>5, <1>6
<1>9. Contents(s) \in Seq(Byte \cup {NoByte}) /\ Len(Contents(s)) = n - 1
  BY <1>3, <1>4, ContentsFacts
<1>10. ASSUME NEW i \in 1 .. n - 1
       PROVE  Contents(s)[i] = Tail(Contents(r))[i]
  <2>1. Contents(s)[i] = r.data[(s.hpos + i - 1) % RBUFSZ]
    BY <1>1, <1>3, <1>4, ContentsFacts
  <2>2. (((r.hpos + 1) % PosMod) + (i - 1)) % RBUFSZ = (r.hpos + 1 + (i - 1)) % RBUFSZ
    BY <1>0, NextPos
  <2>3. s.hpos + i - 1 = s.hpos + (i - 1) /\ r.hpos + 1 + (i - 1) = r.hpos + (i + 1) - 1
    BY <1>0, <1>1 DEF Pos
  <2>4. Contents(r)[i + 1] = r.data[(r.hpos + (i + 1) - 1) % RBUFSZ]
    BY <1>0, ContentsFacts
  <2>. QED  BY <1>1, <1>8, <2>1, <2>2, <2>3, <2>4
<1>11. Contents(s) = Tail(Contents(r))
  BY <1>0, <1>8, <1>9, <1>10
<1>. QED  BY <1>1, <1>3, <1>4, <1>6, <1>7, <1>11 DEF s

\* rbuf_init and a new ring.
LEMMA RbufInit ==
    /\ RingOK(NewRing) /\ rbuf_empty(NewRing) /\ Contents(NewRing) = << >>
    /\ \A r \in Ring : /\ RingOK(rbuf_init(r)) /\ rbuf_empty(rbuf_init(r))
                       /\ Contents(rbuf_init(r)) = << >>
<1>1. 0 \in Pos
  BY RingConstants DEF Pos
<1>2. ASSUME NEW r \in Ring, r.hpos = 0, r.tpos = 0
      PROVE  RingOK(r) /\ rbuf_empty(r) /\ Contents(r) = << >>
  <2>1. rbuf_count(r) = 0
    BY <1>1, <1>2, PosDiff DEF rbuf_count
  <2>2. RingOK(r) /\ rbuf_empty(r)
    BY <1>2, <2>1, RingConstants DEF RingOK, rbuf_empty
  <2>3. Len(Contents(r)) = 0 /\ Contents(r) \in Seq(Byte \cup {NoByte})
    BY <2>1, <2>2, ContentsFacts
  <2>. QED  BY <2>2, <2>3
<1>3. NewRing \in Ring /\ NewRing.hpos = 0 /\ NewRing.tpos = 0
  BY <1>1 DEF NewRing, Ring
<1>4. ASSUME NEW r \in Ring
      PROVE  rbuf_init(r) \in Ring /\ rbuf_init(r).hpos = 0 /\ rbuf_init(r).tpos = 0
  BY <1>1 DEF rbuf_init, Ring
<1>. QED  BY <1>2, <1>3, <1>4

-----------------------------------------------------------------------------
(* The inductive invariant *)

\* A thread that does not have the hart is outside the driver, or waits in one of
\* its two loops: the rest of uart_read and uart_write is not left half done.
OffHart == \A t \in Threads : t # running => at[t] \in {"out", "r_check", "w_check"}

\* A thread inside the driver has a reference to the device, so uart_open and the
\* uart_close of the last reference find nobody there.
Users == \A t \in Threads : at[t] # "out" => t \in holders

\* Who sleeps on a condition is in the loop that waits for it.
Sleepers ==
    /\ \A i \in 1 .. Len(waiting[rxbnotempty]) : at[waiting[rxbnotempty][i]] = "r_check"
    /\ \A i \in 1 .. Len(waiting[txbnotfull]) : at[waiting[txbnotfull][i]] = "w_check"

\* Between the load and the store of ier |= bit, only uart_isr changes ier, and it
\* only clears bits.
IerFresh == \A t \in Threads : at[t] \in {"r_set", "w_set"} => ier \subseteq ier_read

\* Between the load of the byte and the store of hpos the byte stays the oldest.
ReadAhead ==
    \A t \in Threads : at[t] = "r_adv" =>
        left[t] > 0 /\ ~rbuf_empty(rxbuf) /\ reg[t] = get_data(rxbuf)

\* Between the store of the byte and the store of tpos the ring has room, and the
\* byte stays behind the tail.
WriteAhead ==
    \A t \in Threads : at[t] = "w_adv" =>
        left[t] > 0 /\ ~rbuf_full(txbuf) /\ txbuf.data[txbuf.tpos % RBUFSZ] \in Byte

IInv ==
    /\ TypeOK
    /\ OffHart /\ Users /\ Sleepers
    /\ IerFresh /\ ReadAhead /\ WriteAhead
    /\ NoSleepingReader /\ NoSleepingWriter
    /\ ReceiveEnabled /\ TransmitEnabled

LEMMA Basics ==
    ASSUME IInv
    PROVE  /\ RingOK(rxbuf) /\ RingOK(txbuf) /\ SchedTypeOK
           /\ rxbnotempty \in Conditions /\ txbnotfull \in Conditions
           /\ rxbnotempty # txbnotfull
           /\ Conditions = {rxbnotempty, txbnotfull}
           /\ waiting[rxbnotempty] \in Seq(Threads) /\ waiting[txbnotfull] \in Seq(Threads)
           /\ Nobody \notin Threads /\ NoByte \notin Byte
           /\ rbuf_empty(rxbuf) => ~rbuf_full(rxbuf)
           /\ rbuf_empty(txbuf) => ~rbuf_full(txbuf)
<1>1. RingOK(rxbuf) /\ RingOK(txbuf) /\ SchedTypeOK
  BY DEF IInv, TypeOK, RingOK, SchedTypeOK
<1>2. /\ rxbnotempty \in Conditions /\ txbnotfull \in Conditions
      /\ rxbnotempty # txbnotfull
      /\ Conditions = {rxbnotempty, txbnotfull}
      /\ Nobody \notin Threads /\ NoByte \notin Byte
  BY UartAssumption, RingAssumption
<1>3. /\ rbuf_empty(rxbuf) => ~rbuf_full(rxbuf)
      /\ rbuf_empty(txbuf) => ~rbuf_full(txbuf)
  BY <1>1, RingFacts
<1>. QED  BY <1>1, <1>2, <1>3 DEF SchedTypeOK

\* A thread inside the copy loops or the read-modify-write has the hart, so the
\* others are in none of these places.
LEMMA Alone ==
    ASSUME IInv, NEW t \in Threads, running = t
    PROVE  \A u \in Threads : u # t => at[u] \in {"out", "r_check", "w_check"}
BY DEF IInv, OffHart

LEMMA InitIInv ==
    ASSUME Init
    PROVE  IInv
<1>1. RingOK(NewRing) /\ rbuf_empty(NewRing)
  BY RbufInit
<1>2. ready \in Seq(Threads)
  <2>1. Cardinality(Threads) \in Nat
    BY FS_CardinalityType, UartAssumption
  <2>. QED  BY <2>1 DEF Init
<1>3. TypeOK
  BY <1>1, <1>2 DEF Init, TypeOK, RingOK, Places
<1>4. waiting[rxbnotempty] = << >> /\ waiting[txbnotfull] = << >>
  BY UartAssumption DEF Init
<1>5. OffHart /\ Users /\ Sleepers /\ IerFresh /\ ReadAhead /\ WriteAhead
  BY <1>4 DEF Init, OffHart, Users, Sleepers, IerFresh, ReadAhead, WriteAhead
<1>6. NoSleepingReader /\ NoSleepingWriter /\ ReceiveEnabled /\ TransmitEnabled
  BY <1>4 DEF Init, NoSleepingReader, NoSleepingWriter, ReceiveEnabled, TransmitEnabled
<1>. QED  BY <1>3, <1>5, <1>6 DEF IInv

-----------------------------------------------------------------------------
(* Open, share, close: with no reference left, nobody is in the driver. *)

LEMMA OpenIInv ==
    ASSUME IInv, NEW t \in Threads, Open(t)
    PROVE  IInv'
<1>. USE Basics
<1>1. holders = {}
  <2>1. IsFiniteSet(holders)
    BY FS_Subset, UartAssumption DEF IInv, TypeOK
  <2>. QED  BY <2>1, FS_EmptySet DEF Open, refcnt
<1>2. \A u \in Threads : at[u] = "out"
  BY <1>1 DEF IInv, Users
<1>3. waiting[rxbnotempty] = << >> /\ waiting[txbnotfull] = << >>
  <2>1. ASSUME NEW s \in Seq(Threads), \A i \in 1 .. Len(s) : at[s[i]] \in {"r_check", "w_check"}
        PROVE  s = << >>
    <3>1. ASSUME s # << >> PROVE FALSE
      <4>1. 1 \in 1 .. Len(s) /\ s[1] \in Threads
        BY <3>1
      <4>. QED  BY <1>2, <2>1, <4>1
    <3>. QED  BY <3>1
  <2>. QED  BY <2>1 DEF IInv, Sleepers
<1>4. RingOK(rxbuf') /\ RingOK(txbuf') /\ rbuf_empty(rxbuf') /\ rbuf_empty(txbuf')
  BY RbufInit DEF Open, RingOK
<1>5. TypeOK'
  BY <1>4 DEF IInv, TypeOK, Open, sched, driver, RingOK
<1>6. (OffHart /\ Users /\ Sleepers /\ IerFresh /\ ReadAhead /\ WriteAhead)'
  BY <1>2, <1>3 DEF Open, sched, driver, OffHart, Users, Sleepers, IerFresh, ReadAhead, WriteAhead
<1>7. (NoSleepingReader /\ NoSleepingWriter /\ ReceiveEnabled /\ TransmitEnabled)'
  BY <1>3, <1>4 DEF Open, sched, driver, NoSleepingReader, NoSleepingWriter, ReceiveEnabled,
                    TransmitEnabled
<1>. QED  BY <1>5, <1>6, <1>7 DEF IInv

LEMMA ShareIInv ==
    ASSUME IInv, NEW t \in Threads, NEW u \in Threads, Share(t, u)
    PROVE  IInv'
<1>. USE DEF Share, sched, driver, hardware, Running
<1>1. TypeOK'
  BY DEF IInv, TypeOK
<1>2. (OffHart /\ Users /\ Sleepers /\ IerFresh /\ ReadAhead /\ WriteAhead)'
  BY DEF IInv, OffHart, Users, Sleepers, IerFresh, ReadAhead, WriteAhead
<1>3. (NoSleepingReader /\ NoSleepingWriter /\ ReceiveEnabled /\ TransmitEnabled)'
  BY DEF IInv, NoSleepingReader, NoSleepingWriter, ReceiveEnabled, TransmitEnabled
<1>. QED  BY <1>1, <1>2, <1>3 DEF IInv

LEMMA CloseIInv ==
    ASSUME IInv, NEW t \in Threads, Close(t)
    PROVE  IInv'
<1>. USE DEF Close, sched, driver, Running
<1>1. TypeOK'
  BY DEF IInv, TypeOK
<1>2. (OffHart /\ Users /\ Sleepers /\ ReadAhead /\ WriteAhead)'
  BY DEF IInv, OffHart, Users, Sleepers, ReadAhead, WriteAhead
<1>3. IerFresh'
  BY DEF IInv, IerFresh
<1>4. (NoSleepingReader /\ NoSleepingWriter)'
  BY DEF IInv, NoSleepingReader, NoSleepingWriter
<1>5. (ReceiveEnabled /\ TransmitEnabled)'
  <2>1. CASE refcnt = 1
    <3>1. IsFiniteSet(holders)
      BY FS_Subset, UartAssumption DEF IInv, TypeOK
    <3>2. IsFiniteSet(holders \ {t}) /\ Cardinality(holders \ {t}) = 0
      BY <2>1, <3>1, FS_RemoveElement DEF refcnt
    <3>3. holders' = {}
      BY <3>2, FS_EmptySet
    <3>. QED  BY <3>3 DEF ReceiveEnabled, TransmitEnabled
  <2>2. CASE refcnt # 1
    BY <2>2 DEF IInv, ReceiveEnabled, TransmitEnabled
  <2>. QED  BY <2>1, <2>2
<1>. QED  BY <1>1, <1>2, <1>3, <1>4, <1>5 DEF IInv

-----------------------------------------------------------------------------
(* uart_read *)

\* What a step of the thread that keeps the hart leaves alone, wherever the thread
\* goes: it had a reference, and does not sleep.
LEMMA MoveKeeps ==
    ASSUME IInv, NEW t \in Threads, NEW p \in Places,
           running = t, UNCHANGED <<running, waiting, holders>>,
           at' = [at EXCEPT ![t] = p],
           t \in holders,
           at[t] \in {"r_check", "w_check"} =>
               /\ waiting[rxbnotempty] = << >> \/ at[t] # "r_check"
               /\ waiting[txbnotfull] = << >> \/ at[t] # "w_check"
    PROVE  /\ at' \in [Threads -> Places]
           /\ at'[t] = p
           /\ \A u \in Threads : u # t => at'[u] = at[u]
           /\ OffHart' /\ Users' /\ Sleepers'
<1>1. /\ at \in [Threads -> Places] /\ at' \in [Threads -> Places] /\ at'[t] = p
      /\ \A u \in Threads : u # t => at'[u] = at[u]
  BY DEF IInv, TypeOK
<1>2. OffHart' /\ Users'
  BY <1>1 DEF IInv, OffHart, Users
<1>3. Sleepers'
  <2>1. ASSUME NEW i \in 1 .. Len(waiting[rxbnotempty])
        PROVE  at'[waiting[rxbnotempty][i]] = "r_check"
    <3>1. waiting[rxbnotempty][i] \in Threads /\ waiting[rxbnotempty] # << >>
      BY <2>1, Basics
    <3>2. at[waiting[rxbnotempty][i]] = "r_check"
      BY DEF IInv, Sleepers
    <3>. QED  BY <1>1, <3>1, <3>2
  <2>2. ASSUME NEW i \in 1 .. Len(waiting[txbnotfull])
        PROVE  at'[waiting[txbnotfull][i]] = "w_check"
    <3>1. waiting[txbnotfull][i] \in Threads /\ waiting[txbnotfull] # << >>
      BY <2>2, Basics
    <3>2. at[waiting[txbnotfull][i]] = "w_check"
      BY DEF IInv, Sleepers
    <3>. QED  BY <1>1, <3>1, <3>2
  <2>. QED  BY <2>1, <2>2 DEF Sleepers
<1>. QED  BY <1>1, <1>2, <1>3

\* A thread that starts to wait in one of the loops.
LEMMA BlockKeeps ==
    ASSUME IInv, NEW t \in Threads, running = t, UNCHANGED <<at, holders>>,
           \/ Block(rxbnotempty) /\ at[t] = "r_check"
           \/ Block(txbnotfull) /\ at[t] = "w_check"
    PROVE  SchedTypeOK' /\ OffHart' /\ Users' /\ Sleepers'
<1>. USE Basics
<1>1. SchedTypeOK'
  BY BlockType
<1>2. running' = Nobody
  BY DEF Block
<1>3. OffHart' /\ Users'
  BY <1>2, Alone DEF IInv, OffHart, Users
<1>4. ASSUME NEW s \in Seq(Threads), NEW q, \A i \in 1 .. Len(s) : at[s[i]] = q, at[t] = q
      PROVE  \A i \in 1 .. Len(Append(s, t)) : at[Append(s, t)[i]] = q
  BY <1>4
<1>5. CASE Block(rxbnotempty) /\ at[t] = "r_check"
  <2>1. waiting'[rxbnotempty] = Append(waiting[rxbnotempty], t)
        /\ waiting'[txbnotfull] = waiting[txbnotfull]
    BY <1>5, BlockType
  <2>2. \A i \in 1 .. Len(Append(waiting[rxbnotempty], t)) :
            at[Append(waiting[rxbnotempty], t)[i]] = "r_check"
    BY <1>4, <1>5 DEF IInv, Sleepers
  <2>. QED  BY <1>1, <1>3, <2>1, <2>2 DEF IInv, Sleepers
<1>6. CASE Block(txbnotfull) /\ at[t] = "w_check"
  <2>1. waiting'[txbnotfull] = Append(waiting[txbnotfull], t)
        /\ waiting'[rxbnotempty] = waiting[rxbnotempty]
    BY <1>6, BlockType
  <2>2. \A i \in 1 .. Len(Append(waiting[txbnotfull], t)) :
            at[Append(waiting[txbnotfull], t)[i]] = "w_check"
    BY <1>4, <1>6 DEF IInv, Sleepers
  <2>. QED  BY <1>1, <1>3, <2>1, <2>2 DEF IInv, Sleepers
<1>. QED  BY <1>5, <1>6

LEMMA StartIInv ==
    ASSUME IInv, NEW t \in Threads, NEW n \in Nat, Read(t, n) \/ Write(t, n)
    PROVE  IInv'
<1>. USE DEF Read, Write, Running, Go, sched, hardware
<1>1. /\ at' \in [Threads -> Places] /\ at'[t] \in {"r_check", "w_check"}
      /\ \A u \in Threads : u # t => at'[u] = at[u]
      /\ OffHart' /\ Users' /\ Sleepers'
  <2>1. CASE Read(t, n)
    BY <2>1, MoveKeeps DEF Places
  <2>2. CASE Write(t, n)
    BY <2>2, MoveKeeps DEF Places
  <2>. QED  BY <2>1, <2>2
<1>2. TypeOK'
  <2>1. left' \in [Threads -> Nat]
    BY DEF IInv, TypeOK
  <2>. QED  BY <1>1, <2>1 DEF IInv, TypeOK
<1>3. (IerFresh /\ ReadAhead /\ WriteAhead)'
  BY <1>1, Alone DEF IInv, IerFresh, ReadAhead, WriteAhead
<1>4. (NoSleepingReader /\ NoSleepingWriter)'
  BY DEF IInv, NoSleepingReader, NoSleepingWriter
<1>5. (ReceiveEnabled /\ TransmitEnabled)'
  BY Alone DEF IInv, ReceiveEnabled, TransmitEnabled
<1>. QED  BY <1>1, <1>2, <1>3, <1>4, <1>5 DEF IInv

LEMMA ReadCheckIInv ==
    ASSUME IInv, NEW t \in Threads, ReadCheck(t)
    PROVE  IInv'
<1>. USE DEF ReadCheck, Running, Go, hardware
<1>. USE Basics
<1>1. CASE rbuf_empty(rxbuf) /\ Block(rxbnotempty) /\ UNCHANGED at
  <2>1. SchedTypeOK' /\ OffHart' /\ Users' /\ Sleepers'
    BY <1>1, BlockKeeps
  <2>2. waiting'[txbnotfull] = waiting[txbnotfull]
    BY <1>1, BlockType
  <2>3. TypeOK'
    BY <1>1, <2>1 DEF IInv, TypeOK, SchedTypeOK
  <2>4. (IerFresh /\ ReadAhead /\ WriteAhead)'
    BY <1>1 DEF IInv, IerFresh, ReadAhead, WriteAhead
  <2>5. (NoSleepingReader /\ NoSleepingWriter /\ ReceiveEnabled /\ TransmitEnabled)'
    BY <1>1, <2>2 DEF IInv, NoSleepingReader, NoSleepingWriter, ReceiveEnabled, TransmitEnabled
  <2>. QED  BY <2>1, <2>3, <2>4, <2>5 DEF IInv
<1>2. CASE ~rbuf_empty(rxbuf) /\ Go(t, "r_get") /\ UNCHANGED sched
  <2>. USE DEF sched
  <2>1. waiting[rxbnotempty] = << >>
    BY <1>2 DEF IInv, NoSleepingReader
  <2>2. /\ at' \in [Threads -> Places] /\ at'[t] = "r_get"
        /\ \A u \in Threads : u # t => at'[u] = at[u]
        /\ OffHart' /\ Users' /\ Sleepers'
    BY <1>2, <2>1, MoveKeeps DEF Places, IInv, Users
  <2>3. TypeOK'
    BY <1>2, <2>2 DEF IInv, TypeOK
  <2>4. (IerFresh /\ ReadAhead /\ WriteAhead)'
    BY <1>2, <2>2, Alone DEF IInv, IerFresh, ReadAhead, WriteAhead
  <2>5. (NoSleepingReader /\ NoSleepingWriter /\ ReceiveEnabled)'
    BY <1>2, <2>2 DEF IInv, NoSleepingReader, NoSleepingWriter, ReceiveEnabled
  <2>6. TransmitEnabled'
    BY <1>2, <2>2, Alone DEF IInv, TransmitEnabled
  <2>. QED  BY <2>2, <2>3, <2>4, <2>5, <2>6 DEF IInv
<1>. QED  BY <1>1, <1>2

LEMMA ReadGetIInv ==
    ASSUME IInv, NEW t \in Threads, ReadGet(t)
    PROVE  IInv'
<1>. USE DEF ReadGet, Running, Go, hardware, sched
<1>1. /\ at' \in [Threads -> Places] /\ at'[t] \in {"r_adv", "r_ier"}
      /\ \A u \in Threads : u # t => at'[u] = at[u]
      /\ OffHart' /\ Users' /\ Sleepers'
  <2>1. t \in holders
    BY DEF IInv, Users
  <2>2. CASE Go(t, "r_adv")
    BY <2>1, <2>2, MoveKeeps DEF Places
  <2>3. CASE Go(t, "r_ier")
    BY <2>1, <2>3, MoveKeeps DEF Places
  <2>. QED  BY <2>2, <2>3
<1>2. get_data(rxbuf) \in Byte \cup {NoByte}
  BY Basics, ContentsFacts DEF get_data, RingOK, Ring
<1>3. TypeOK'
  <2>1. reg' \in [Threads -> Byte \cup {NoByte}]
    BY <1>2 DEF IInv, TypeOK
  <2>. QED  BY <1>1, <2>1 DEF IInv, TypeOK
<1>4. (IerFresh /\ WriteAhead)'
  BY <1>1, Alone DEF IInv, IerFresh, WriteAhead
<1>5. ReadAhead'
  <2>1. at'[t] = "r_adv" => /\ left[t] > 0 /\ ~rbuf_empty(rxbuf)
                            /\ reg'[t] = get_data(rxbuf)
    BY <1>1 DEF IInv, TypeOK
  <2>. QED  BY <1>1, <2>1, Alone DEF ReadAhead
<1>6. (NoSleepingReader /\ NoSleepingWriter /\ ReceiveEnabled)'
  BY <1>1 DEF IInv, NoSleepingReader, NoSleepingWriter, ReceiveEnabled
<1>7. TransmitEnabled'
  BY <1>1, Alone DEF IInv, TransmitEnabled
<1>. QED  BY <1>1, <1>3, <1>4, <1>5, <1>6, <1>7 DEF IInv

LEMMA ReadAdvanceIInv ==
    ASSUME IInv, NEW t \in Threads, ReadAdvance(t)
    PROVE  IInv'
<1>. USE DEF ReadAdvance, Running, Go, hardware, sched
<1>1. /\ at' \in [Threads -> Places] /\ at'[t] = "r_get"
      /\ \A u \in Threads : u # t => at'[u] = at[u]
      /\ OffHart' /\ Users' /\ Sleepers'
  BY MoveKeeps DEF Places, IInv, Users
<1>2. left[t] > 0 /\ ~rbuf_empty(rxbuf)
  BY DEF IInv, ReadAhead
<1>3. RingOK(rxbuf')
  BY <1>2, Basics, GetHpos
<1>4. left' \in [Threads -> Nat]
  <2>1. left[t] - 1 \in Nat
    BY <1>2 DEF IInv, TypeOK
  <2>. QED  BY <2>1 DEF IInv, TypeOK
<1>5. TypeOK'
  BY <1>1, <1>3, <1>4 DEF IInv, TypeOK, RingOK
<1>6. (IerFresh /\ ReadAhead /\ WriteAhead)'
  BY <1>1, Alone DEF IInv, IerFresh, ReadAhead, WriteAhead
<1>7. (NoSleepingReader /\ NoSleepingWriter /\ ReceiveEnabled)'
  BY <1>1, <1>2 DEF IInv, NoSleepingReader, NoSleepingWriter, ReceiveEnabled
<1>8. TransmitEnabled'
  BY <1>1, Alone DEF IInv, TransmitEnabled
<1>. QED  BY <1>1, <1>5, <1>6, <1>7, <1>8 DEF IInv

LEMMA LoadIerIInv ==
    ASSUME IInv, NEW t \in Threads, LoadIer(t)
    PROVE  IInv'
<1>. USE DEF LoadIer, Running, Go, hardware, sched
<1>1. /\ at' \in [Threads -> Places]
      /\ at'[t] = IF at[t] = "r_ier" THEN "r_set" ELSE "w_set"
      /\ \A u \in Threads : u # t => at'[u] = at[u]
      /\ OffHart' /\ Users' /\ Sleepers'
  BY MoveKeeps DEF Places, IInv, Users
<1>2. TypeOK'
  BY <1>1 DEF IInv, TypeOK
<1>3. (IerFresh /\ ReadAhead /\ WriteAhead)'
  BY <1>1, Alone DEF IInv, IerFresh, ReadAhead, WriteAhead
<1>4. (NoSleepingReader /\ NoSleepingWriter)'
  BY DEF IInv, NoSleepingReader, NoSleepingWriter
<1>5. (ReceiveEnabled /\ TransmitEnabled)'
  BY <1>1, Alone DEF IInv, ReceiveEnabled, TransmitEnabled
<1>. QED  BY <1>1, <1>2, <1>3, <1>4, <1>5 DEF IInv

\* The store of ier: no bit is lost that was set at the load.
LEMMA StoreIerIInv ==
    ASSUME IInv, NEW t \in Threads, ReadDone(t) \/ WriteDone(t)
    PROVE  IInv'
<1>. USE DEF ReadDone, WriteDone, Running, Go, sched
<1>1. /\ at' \in [Threads -> Places] /\ at'[t] \in {"out", "w_check"}
      /\ \A u \in Threads : u # t => at'[u] = at[u]
      /\ OffHart' /\ Users' /\ Sleepers'
  <2>1. t \in holders
    BY DEF IInv, Users
  <2>2. CASE Go(t, "out")
    BY <2>1, <2>2, MoveKeeps DEF Places
  <2>3. CASE Go(t, "w_check")
    BY <2>1, <2>3, MoveKeeps DEF Places
  <2>4. Go(t, "out") \/ Go(t, "w_check")
    OBVIOUS
  <2>. QED  BY <2>2, <2>3, <2>4
<1>2. /\ ier \subseteq ier'
      /\ ReadDone(t) => "DREIE" \in ier'
      /\ WriteDone(t) => "THREIE" \in ier'
      /\ ReadDone(t) => at[t] = "r_set"
      /\ WriteDone(t) => at[t] = "w_set"
  BY DEF IInv, IerFresh
<1>3. TypeOK'
  <2>1. left' \in [Threads -> Nat]
    <3>1. left' = [left EXCEPT ![t] = 0] \/ left' = left
      OBVIOUS
    <3>2. left \in [Threads -> Nat]
      BY DEF IInv, TypeOK
    <3>. QED  BY <3>1, <3>2
  <2>2. ier' \subseteq {"DREIE", "THREIE"} /\ ier_read' = {}
    BY DEF IInv, TypeOK
  <2>. QED  BY <1>1, <2>1, <2>2 DEF IInv, TypeOK
<1>4. (IerFresh /\ ReadAhead /\ WriteAhead)'
  BY <1>1, Alone DEF IInv, IerFresh, ReadAhead, WriteAhead
<1>5. (NoSleepingReader /\ NoSleepingWriter)'
  BY DEF IInv, NoSleepingReader, NoSleepingWriter
<1>6. (ReceiveEnabled /\ TransmitEnabled)'
  BY <1>1, <1>2, Alone DEF IInv, ReceiveEnabled, TransmitEnabled
<1>. QED  BY <1>1, <1>3, <1>4, <1>5, <1>6 DEF IInv

-----------------------------------------------------------------------------
(* uart_write *)

LEMMA WriteCheckIInv ==
    ASSUME IInv, NEW t \in Threads, WriteCheck(t)
    PROVE  IInv'
<1>. USE DEF WriteCheck, Running, Go, hardware
<1>. USE Basics
<1>1. CASE rbuf_full(txbuf) /\ Block(txbnotfull) /\ UNCHANGED at
  <2>1. SchedTypeOK' /\ OffHart' /\ Users' /\ Sleepers'
    BY <1>1, BlockKeeps
  <2>2. waiting'[rxbnotempty] = waiting[rxbnotempty]
    BY <1>1, BlockType
  <2>3. TypeOK'
    BY <1>1, <2>1 DEF IInv, TypeOK, SchedTypeOK
  <2>4. (IerFresh /\ ReadAhead /\ WriteAhead)'
    BY <1>1 DEF IInv, IerFresh, ReadAhead, WriteAhead
  <2>5. (NoSleepingReader /\ NoSleepingWriter /\ ReceiveEnabled /\ TransmitEnabled)'
    BY <1>1, <2>2 DEF IInv, NoSleepingReader, NoSleepingWriter, ReceiveEnabled, TransmitEnabled
  <2>. QED  BY <2>1, <2>3, <2>4, <2>5 DEF IInv
<1>2. CASE ~rbuf_full(txbuf) /\ Go(t, "w_put") /\ UNCHANGED sched
  <2>. USE DEF sched
  <2>1. waiting[txbnotfull] = << >>
    BY <1>2 DEF IInv, NoSleepingWriter
  <2>2. /\ at' \in [Threads -> Places] /\ at'[t] = "w_put"
        /\ \A u \in Threads : u # t => at'[u] = at[u]
        /\ OffHart' /\ Users' /\ Sleepers'
    BY <1>2, <2>1, MoveKeeps DEF Places, IInv, Users
  <2>3. TypeOK'
    BY <1>2, <2>2 DEF IInv, TypeOK
  <2>4. (IerFresh /\ ReadAhead /\ WriteAhead)'
    BY <1>2, <2>2, Alone DEF IInv, IerFresh, ReadAhead, WriteAhead
  <2>5. (NoSleepingReader /\ NoSleepingWriter /\ TransmitEnabled)'
    BY <1>2, <2>2 DEF IInv, NoSleepingReader, NoSleepingWriter, TransmitEnabled
  <2>6. ReceiveEnabled'
    BY <1>2, <2>2, Alone DEF IInv, ReceiveEnabled
  <2>. QED  BY <2>2, <2>3, <2>4, <2>5, <2>6 DEF IInv
<1>. QED  BY <1>1, <1>2

LEMMA WritePutIInv ==
    ASSUME IInv, NEW t \in Threads, WritePut(t)
    PROVE  IInv'
<1>. USE DEF WritePut, Running, Go, hardware, sched
<1>1. /\ at' \in [Threads -> Places] /\ at'[t] \in {"w_adv", "w_ier"}
      /\ \A u \in Threads : u # t => at'[u] = at[u]
      /\ OffHart' /\ Users' /\ Sleepers'
  <2>1. t \in holders
    BY DEF IInv, Users
  <2>2. CASE Go(t, "w_adv")
    BY <2>1, <2>2, MoveKeeps DEF Places
  <2>3. CASE Go(t, "w_ier")
    BY <2>1, <2>3, MoveKeeps DEF Places
  <2>. QED  BY <2>2, <2>3
<1>2. /\ RingOK(txbuf')
      /\ rbuf_full(txbuf') <=> rbuf_full(txbuf)
      /\ at'[t] = "w_adv" => /\ left[t] > 0 /\ ~rbuf_full(txbuf')
                             /\ txbuf'.data[txbuf'.tpos % RBUFSZ] \in Byte
  <2>1. CASE ~rbuf_full(txbuf) /\ left[t] > 0
    <3>1. PICK c \in Byte : txbuf' = put_data(txbuf, c)
      BY <2>1
    <3>2. /\ RingOK(txbuf') /\ rbuf_count(txbuf') = rbuf_count(txbuf)
          /\ txbuf'.tpos = txbuf.tpos /\ txbuf'.data[txbuf.tpos % RBUFSZ] = c
      BY <2>1, <3>1, Basics, PutData
    <3>3. rbuf_full(txbuf') <=> rbuf_full(txbuf)
      BY <3>2 DEF rbuf_full
    <3>. QED  BY <2>1, <3>2, <3>3
  <2>2. CASE ~(~rbuf_full(txbuf) /\ left[t] > 0)
    BY <2>2, <1>1, Basics DEF IInv, TypeOK
  <2>. QED  BY <2>1, <2>2
<1>3. TypeOK'
  BY <1>1, <1>2 DEF IInv, TypeOK, RingOK
<1>4. (IerFresh /\ ReadAhead)'
  BY <1>1, Alone DEF IInv, IerFresh, ReadAhead
<1>5. WriteAhead'
  BY <1>1, <1>2, Alone DEF IInv, WriteAhead
<1>6. (NoSleepingReader /\ NoSleepingWriter)'
  BY <1>2 DEF IInv, NoSleepingReader, NoSleepingWriter
<1>7. TransmitEnabled'
  BY <1>1 DEF TransmitEnabled
<1>8. ReceiveEnabled'
  BY <1>1, Alone DEF IInv, ReceiveEnabled
<1>. QED  BY <1>1, <1>3, <1>4, <1>5, <1>6, <1>7, <1>8 DEF IInv

LEMMA WriteAdvanceIInv ==
    ASSUME IInv, NEW t \in Threads, WriteAdvance(t)
    PROVE  IInv'
<1>. USE DEF WriteAdvance, Running, Go, hardware, sched
<1>1. /\ at' \in [Threads -> Places] /\ at'[t] = "w_put"
      /\ \A u \in Threads : u # t => at'[u] = at[u]
      /\ OffHart' /\ Users' /\ Sleepers'
  BY MoveKeeps DEF Places, IInv, Users
<1>2. left[t] > 0 /\ ~rbuf_full(txbuf)
  BY DEF IInv, WriteAhead
<1>3. RingOK(txbuf')
  BY <1>2, Basics, PutTpos
<1>4. left' \in [Threads -> Nat]
  <2>1. left[t] - 1 \in Nat
    BY <1>2 DEF IInv, TypeOK
  <2>. QED  BY <2>1 DEF IInv, TypeOK
<1>5. TypeOK'
  BY <1>1, <1>3, <1>4 DEF IInv, TypeOK, RingOK
<1>6. (IerFresh /\ ReadAhead /\ WriteAhead)'
  BY <1>1, Alone DEF IInv, IerFresh, ReadAhead, WriteAhead
<1>7. (NoSleepingReader /\ NoSleepingWriter /\ TransmitEnabled)'
  BY <1>1, <1>2 DEF IInv, NoSleepingReader, NoSleepingWriter, TransmitEnabled
<1>8. ReceiveEnabled'
  BY <1>1, Alone DEF IInv, ReceiveEnabled
<1>. QED  BY <1>1, <1>5, <1>6, <1>7, <1>8 DEF IInv

-----------------------------------------------------------------------------
(* The hart changes hands; the device and its ISR *)

LEMMA SwitchIInv ==
    ASSUME IInv, DispatchNext \/ \E t \in Threads : Yield(t)
    PROVE  IInv'
<1>. USE DEF DispatchNext, Yield, Running, driver, hardware
<1>1. SchedTypeOK' /\ UNCHANGED waiting
  BY Basics, DispatchType, YieldType DEF Dispatch, YieldHart
<1>2. \A t \in Threads : at[t] \in {"out", "r_check", "w_check"}
  BY Basics DEF IInv, OffHart, Dispatch
<1>3. TypeOK'
  BY <1>1 DEF IInv, TypeOK, SchedTypeOK
<1>4. (OffHart /\ Users /\ Sleepers /\ IerFresh /\ ReadAhead /\ WriteAhead)'
  BY <1>1, <1>2 DEF IInv, OffHart, Users, Sleepers, IerFresh, ReadAhead, WriteAhead
<1>5. (NoSleepingReader /\ NoSleepingWriter /\ ReceiveEnabled /\ TransmitEnabled)'
  BY <1>1 DEF IInv, NoSleepingReader, NoSleepingWriter, ReceiveEnabled, TransmitEnabled
<1>. QED  BY <1>3, <1>4, <1>5 DEF IInv

LEMMA DeviceIInv ==
    ASSUME IInv, ByteSent \/ \E b \in Byte : ByteArrives(b)
    PROVE  IInv'
<1>. USE DEF ByteSent, ByteArrives, driver, sched
<1>1. TypeOK'
  BY DEF IInv, TypeOK
<1>2. (OffHart /\ Users /\ Sleepers /\ IerFresh /\ ReadAhead /\ WriteAhead)'
  BY DEF IInv, OffHart, Users, Sleepers, IerFresh, ReadAhead, WriteAhead
<1>3. (NoSleepingReader /\ NoSleepingWriter /\ ReceiveEnabled /\ TransmitEnabled)'
  BY DEF IInv, NoSleepingReader, NoSleepingWriter, ReceiveEnabled, TransmitEnabled
<1>. QED  BY <1>1, <1>2, <1>3 DEF IInv

\* What uart_isr does to the receive buffer.
LEMMA IsrReceives ==
    ASSUME IInv, uart_isr
    PROVE  /\ RingOK(rxbuf')
           /\ rbr' \in Byte \cup {NoByte}
           /\ \/ rxbuf' = rxbuf /\ (rbr = NoByte \/ rbuf_full(rxbuf))
              \/ /\ rbr \in Byte /\ ~rbuf_full(rxbuf)
                 /\ Contents(rxbuf') = Append(Contents(rxbuf), rbr)
           /\ ~rbuf_empty(rxbuf) => /\ ~rbuf_empty(rxbuf')
                                    /\ get_data(rxbuf') = get_data(rxbuf)
<1>. USE Basics
<1>1. CASE rbr # NoByte /\ ~rbuf_full(rxbuf)
  <2>1. rbr \in Byte /\ rxbuf' = rbuf_put(rxbuf, rbr) /\ rbr' = NoByte
    BY <1>1 DEF uart_isr, IInv, TypeOK
  <2>2. /\ RingOK(rxbuf') /\ rbuf_count(rxbuf') = rbuf_count(rxbuf) + 1
        /\ Contents(rxbuf') = Append(Contents(rxbuf), rbr)
        /\ rbuf_count(rxbuf) > 0 => get_data(rxbuf') = get_data(rxbuf)
    BY <1>1, <2>1, RbufPut
  <2>3. rbuf_count(rxbuf) \in Nat /\ (rbuf_empty(rxbuf) <=> rbuf_count(rxbuf) = 0)
    BY RingFacts, RingConstants
  <2>4. rbuf_empty(rxbuf') <=> rbuf_count(rxbuf') = 0
    BY <2>2, RingFacts
  <2>. QED  BY <1>1, <2>1, <2>2, <2>3, <2>4
<1>2. CASE ~(rbr # NoByte /\ ~rbuf_full(rxbuf))
  <2>1. rxbuf' = rxbuf /\ rbr' = rbr
    BY <1>2 DEF uart_isr
  <2>. QED  BY <1>2, <2>1 DEF IInv, TypeOK
<1>. QED  BY <1>1, <1>2

\* What uart_isr does to the transmit buffer.
LEMMA IsrTransmits ==
    ASSUME IInv, uart_isr
    PROVE  /\ RingOK(txbuf')
           /\ txout' \in Byte \cup {NoByte} /\ thre' \in BOOLEAN
           /\ \/ UNCHANGED <<txbuf, txout, thre>> /\ (~thre \/ rbuf_empty(txbuf))
              \/ /\ thre /\ Contents(txbuf) # << >>
                 /\ txout' = Head(Contents(txbuf))
                 /\ Contents(txbuf') = Tail(Contents(txbuf))
           /\ ~rbuf_empty(txbuf') => ~rbuf_empty(txbuf)
           /\ ~rbuf_full(txbuf) => ~rbuf_full(txbuf')
           /\ txbuf'.tpos = txbuf.tpos /\ txbuf'.data = txbuf.data
<1>. USE Basics
<1>1. CASE thre /\ ~rbuf_empty(txbuf)
  <2>1. txbuf' = get_hpos(txbuf) /\ txout' = get_data(txbuf) /\ thre' = FALSE
    BY <1>1 DEF uart_isr
  <2>2. /\ RingOK(txbuf') /\ rbuf_count(txbuf') = rbuf_count(txbuf) - 1
        /\ Contents(txbuf) # << >> /\ Head(Contents(txbuf)) = get_data(txbuf)
        /\ Contents(txbuf') = Tail(Contents(txbuf))
        /\ txbuf'.tpos = txbuf.tpos /\ txbuf'.data = txbuf.data
    BY <1>1, <2>1, GetHpos
  <2>3. get_data(txbuf) \in Byte \cup {NoByte}
    BY ContentsFacts DEF get_data, RingOK, Ring
  <2>4. ~rbuf_full(txbuf')
    <3>1. rbuf_count(txbuf) \in 0 .. RBUFSZ
      BY RingFacts
    <3>. QED  BY <2>2, <3>1, RingConstants DEF rbuf_full
  <2>. QED  BY <1>1, <2>1, <2>2, <2>3, <2>4
<1>2. CASE ~(thre /\ ~rbuf_empty(txbuf))
  <2>1. txbuf' = txbuf /\ txout' = txout /\ thre' = thre
    BY <1>2 DEF uart_isr
  <2>. QED  BY <1>2, <2>1 DEF IInv, TypeOK
<1>. QED  BY <1>1, <1>2

LEMMA IsrIInv ==
    ASSUME IInv, uart_isr
    PROVE  IInv'
<1>. USE Basics, IsrReceives, IsrTransmits
<1>. USE DEF driver
<1>0. UNCHANGED <<at, left, reg, ier_read, holders, rxout, running>>
  BY DEF uart_isr, BroadcastAll
<1>1. /\ SchedTypeOK'
      /\ waiting'[rxbnotempty] \in {waiting[rxbnotempty], << >>}
      /\ waiting'[txbnotfull] \in {waiting[txbnotfull], << >>}
  <2>1. waiting' = [c \in Conditions |-> IF c \in IsrWakes THEN << >> ELSE waiting[c]]
    BY DEF uart_isr, BroadcastAll
  <2>2. ready' \in Seq(Threads)
    <3>1. ASSUME NEW a \in Seq(Threads), NEW b \in Seq(Threads), NEW c \in Seq(Threads)
          PROVE  a \o b \o c \in Seq(Threads)
      OBVIOUS
    <3>2. ready \in Seq(Threads) /\ << >> \in Seq(Threads)
      BY DEF SchedTypeOK
    <3>. QED  BY <3>1, <3>2 DEF uart_isr, BroadcastAll
  <2>3. waiting' \in [Conditions -> Seq(Threads)]
    BY <2>1 DEF SchedTypeOK
  <2>. QED  BY <1>0, <2>1, <2>2, <2>3 DEF SchedTypeOK
<1>2. ier' \subseteq ier
  BY DEF uart_isr
<1>3. TypeOK'
  BY <1>0, <1>1, <1>2 DEF IInv, TypeOK, SchedTypeOK, RingOK
<1>4. (OffHart /\ Users /\ IerFresh)'
  BY <1>0, <1>2 DEF IInv, OffHart, Users, IerFresh
<1>5. Sleepers'
  BY <1>0, <1>1 DEF IInv, Sleepers
<1>6. ReadAhead'
  BY <1>0 DEF IInv, ReadAhead
<1>7. WriteAhead'
  BY <1>0 DEF IInv, WriteAhead
<1>8. NoSleepingReader'
  <2>1. rbr # NoByte /\ rbuf_empty(rxbuf) => waiting'[rxbnotempty] = << >>
    BY DEF uart_isr, BroadcastAll, IsrWakes
  <2>. QED  BY <1>1, <2>1 DEF IInv, NoSleepingReader
<1>9. NoSleepingWriter'
  <2>1. thre /\ ~rbuf_empty(txbuf) /\ rbuf_full(txbuf) => waiting'[txbnotfull] = << >>
    BY DEF uart_isr, BroadcastAll, IsrWakes
  <2>. QED  BY <1>1, <2>1 DEF IInv, NoSleepingWriter
<1>10. ReceiveEnabled'
  <2>1. "DREIE" \in ier \ ier' => rbr # NoByte /\ rbuf_full(rxbuf)
    BY DEF uart_isr
  <2>2. rbuf_full(rxbuf) => rxbuf' = rxbuf
    OBVIOUS
  <2>. QED  BY <1>0, <2>1, <2>2 DEF IInv, ReceiveEnabled
<1>11. TransmitEnabled'
  <2>1. "THREIE" \in ier \ ier' => thre /\ rbuf_empty(txbuf)
    BY DEF uart_isr
  <2>. QED  BY <1>0, <2>1 DEF IInv, TransmitEnabled
<1>. QED  BY <1>3, <1>4, <1>5, <1>6, <1>7, <1>8, <1>9, <1>10, <1>11 DEF IInv

-----------------------------------------------------------------------------
(* The theorems *)

LEMMA StutterIInv ==
    ASSUME IInv, UNCHANGED vars
    PROVE  IInv'
BY DEF IInv, vars, TypeOK, OffHart, Users, Sleepers, IerFresh, ReadAhead, WriteAhead,
       NoSleepingReader, NoSleepingWriter, ReceiveEnabled, TransmitEnabled

\* IInv is an inductive invariant of the driver.
THEOREM Invariance == Spec => []IInv
<1>1. Init => IInv
  BY InitIInv
<1>2. IInv /\ [Next]_vars => IInv'
  <2>. SUFFICES ASSUME IInv, [Next]_vars PROVE IInv'
    OBVIOUS
  <2>1. CASE UNCHANGED vars
    BY <2>1, StutterIInv
  <2>2. ASSUME NEW t \in Threads,
               \/ Open(t) \/ Close(t) \/ Yield(t) \/ ThreadStep(t)
               \/ \E u \in Threads : Share(t, u)
               \/ \E n \in 1 .. MaxRead : Read(t, n)
               \/ \E n \in 1 .. MaxWrite : Write(t, n)
        PROVE  IInv'
    <3>1. CASE ThreadStep(t)
      BY <3>1, ReadCheckIInv, ReadGetIInv, ReadAdvanceIInv, WriteCheckIInv, WritePutIInv,
         WriteAdvanceIInv, LoadIerIInv, StoreIerIInv DEF ThreadStep
    <3>2. CASE \/ \E n \in 1 .. MaxRead : Read(t, n)
               \/ \E n \in 1 .. MaxWrite : Write(t, n)
      <4>1. PICK n \in Nat : Read(t, n) \/ Write(t, n)
        BY <3>2
      <4>. QED  BY <4>1, StartIInv
    <3>3. CASE \/ Open(t) \/ Close(t) \/ Yield(t) \/ \E u \in Threads : Share(t, u)
      BY <3>3, OpenIInv, CloseIInv, SwitchIInv, ShareIInv
    <3>. QED  BY <2>2, <3>1, <3>2, <3>3
  <2>3. CASE DispatchNext
    BY <2>3, SwitchIInv
  <2>4. CASE ByteSent \/ \E b \in Byte : ByteArrives(b)
    BY <2>4, DeviceIInv
  <2>5. CASE uart_isr
    BY <2>5, IsrIInv
  <2>. QED  BY <2>1, <2>2, <2>3, <2>4, <2>5 DEF Next
<1>. QED  BY <1>1, <1>2, PTL DEF Spec

\* The type invariant of the driver and its clients, whatever the threads do: the
\* rings never hold more than RBUFSZ bytes and no count of a copy loop goes below
\* zero.
THEOREM TypeCorrect == Spec => []TypeOK
BY Invariance, PTL DEF IInv

\* No wakeup of uart_read is lost, for any number of threads that share the port.
THEOREM ReaderSafety == Spec => []NoSleepingReader
BY Invariance, PTL DEF IInv

\* No wakeup of uart_write is lost.
THEOREM WriterSafety == Spec => []NoSleepingWriter
BY Invariance, PTL DEF IInv

\* Receive interrupts are never off for good: the read-modify-write of ier in
\* uart_read and uart_write, though uart_isr comes between its load and its store,
\* loses no bit.
THEOREM ReceiveSafety == Spec => []ReceiveEnabled
BY Invariance, PTL DEF IInv

\* Transmit interrupts are on, or about to be, while there are bytes to send.
THEOREM TransmitSafety == Spec => []TransmitEnabled
BY Invariance, PTL DEF IInv

\* Every step of the driver is a step of the receive queue or leaves it alone:
\* uart_isr is Put, the store of hpos in uart_read is Get, uart_open is Reset.
LEMMA RxStep ==
    ASSUME IInv, [Next]_vars
    PROVE  [RxQueue!QueueNext]_RxQueue!queueVars
<1>. USE DEF RxQueue!QueueNext, RxQueue!queueVars, RxQueue!Put, RxQueue!Get, RxQueue!Reset
<1>. USE Basics
<1>1. CASE \E t \in Threads : Open(t)
  <2>1. Contents(rxbuf') = << >> /\ rxout' = rxout
    BY <1>1, RbufInit DEF Open, RingOK
  <2>. QED  BY <2>1
<1>2. CASE \E t \in Threads : ReadAdvance(t)
  <2>1. PICK t \in Threads : ReadAdvance(t)
    BY <1>2
  <2>2. ~rbuf_empty(rxbuf) /\ reg[t] = get_data(rxbuf)
    BY <2>1 DEF ReadAdvance, Running, IInv, ReadAhead
  <2>3. /\ Contents(rxbuf) # << >> /\ rxout' = Head(Contents(rxbuf))
        /\ Contents(rxbuf') = Tail(Contents(rxbuf))
    BY <2>1, <2>2, GetHpos DEF ReadAdvance
  <2>. QED  BY <2>3
<1>3. CASE uart_isr
  <2>1. rxout' = rxout
    BY <1>3 DEF uart_isr
  <2>2. CASE rxbuf' = rxbuf
    BY <2>1, <2>2
  <2>3. CASE /\ rbr \in Byte /\ ~rbuf_full(rxbuf)
             /\ Contents(rxbuf') = Append(Contents(rxbuf), rbr)
    <3>1. Len(Contents(rxbuf)) < RBUFSZ
      <4>1. Len(Contents(rxbuf)) = rbuf_count(rxbuf) /\ rbuf_count(rxbuf) \in 0 .. RBUFSZ
        BY ContentsFacts, RingFacts
      <4>. QED  BY <2>3, <4>1, RingConstants DEF rbuf_full
    <3>. QED  BY <2>1, <2>3, <3>1
  <2>. QED  BY <1>3, <2>2, <2>3, IsrReceives
<1>4. CASE rxbuf' = rxbuf /\ rxout' = rxout
  BY <1>4
<1>5. CASE \/ UNCHANGED vars \/ DispatchNext \/ ByteSent \/ \E b \in Byte : ByteArrives(b)
  BY <1>4, <1>5 DEF vars, DispatchNext, ByteSent, ByteArrives
<1>6. ASSUME NEW t \in Threads,
             \/ Close(t) \/ Yield(t) \/ (ThreadStep(t) /\ ~ReadAdvance(t))
             \/ \E u \in Threads : Share(t, u)
             \/ \E n \in 1 .. MaxRead : Read(t, n)
             \/ \E n \in 1 .. MaxWrite : Write(t, n)
      PROVE  rxbuf' = rxbuf /\ rxout' = rxout
  BY <1>6 DEF Close, Yield, Share, Read, Write, ThreadStep, ReadCheck, ReadGet, ReadDone,
              WriteCheck, WritePut, WriteAdvance, WriteDone, LoadIer
<1>. QED  BY <1>1, <1>2, <1>3, <1>4, <1>5, <1>6 DEF Next, ThreadStep

\* What uart_isr puts in the receive buffer, uart_read takes out: every byte once
\* and in order, for any size of the ring and any width of its positions.
THEOREM RxRefinement == Spec => RxFifo
<1>1. Init => RxQueue!QueueInit
  BY RbufInit DEF Init, RxQueue!QueueInit
<1>2. IInv /\ [Next]_vars => [RxQueue!QueueNext]_RxQueue!queueVars
  BY RxStep
<1>. QED  BY <1>1, <1>2, Invariance, PTL DEF Spec, RxFifo, RxQueue!QueueSpec

\* Every step of the driver is a step of the transmit queue or leaves it alone:
\* the store of tpos in uart_write is Put, uart_isr is Get, uart_open is Reset.
LEMMA TxStep ==
    ASSUME IInv, [Next]_vars
    PROVE  [TxQueue!QueueNext]_TxQueue!queueVars
<1>. USE DEF TxQueue!QueueNext, TxQueue!queueVars, TxQueue!Put, TxQueue!Get, TxQueue!Reset
<1>. USE Basics
<1>1. CASE \E t \in Threads : Open(t)
  <2>1. Contents(txbuf') = << >> /\ txout' = txout
    BY <1>1, RbufInit DEF Open, RingOK
  <2>. QED  BY <2>1
<1>2. CASE \E t \in Threads : WriteAdvance(t)
  <2>1. PICK t \in Threads : WriteAdvance(t)
    BY <1>2
  <2>2. ~rbuf_full(txbuf) /\ txbuf.data[txbuf.tpos % RBUFSZ] \in Byte
    BY <2>1 DEF WriteAdvance, Running, IInv, WriteAhead
  <2>3. /\ Contents(txbuf') = Append(Contents(txbuf), txbuf.data[txbuf.tpos % RBUFSZ])
        /\ txout' = txout
    BY <2>1, <2>2, PutTpos DEF WriteAdvance
  <2>4. Len(Contents(txbuf)) < RBUFSZ
    <3>1. Len(Contents(txbuf)) = rbuf_count(txbuf) /\ rbuf_count(txbuf) \in 0 .. RBUFSZ
      BY ContentsFacts, RingFacts
    <3>. QED  BY <2>2, <3>1, RingConstants DEF rbuf_full
  <2>. QED  BY <2>2, <2>3, <2>4
<1>3. CASE \E t \in Threads : WritePut(t)
  <2>1. PICK t \in Threads : WritePut(t)
    BY <1>3
  <2>2. Contents(txbuf') = Contents(txbuf)
    BY <2>1, PutData DEF WritePut
  <2>3. txout' = txout
    BY <2>1 DEF WritePut
  <2>. QED  BY <2>2, <2>3
<1>4. CASE uart_isr
  BY <1>4, IsrTransmits
<1>5. CASE txbuf' = txbuf /\ txout' = txout
  BY <1>5
<1>6. CASE \/ UNCHANGED vars \/ DispatchNext \/ ByteSent \/ \E b \in Byte : ByteArrives(b)
  BY <1>5, <1>6 DEF vars, DispatchNext, ByteSent, ByteArrives
<1>7. ASSUME NEW t \in Threads,
             \/ Close(t) \/ Yield(t)
             \/ (ThreadStep(t) /\ ~WriteAdvance(t) /\ ~WritePut(t))
             \/ \E u \in Threads : Share(t, u)
             \/ \E n \in 1 .. MaxRead : Read(t, n)
             \/ \E n \in 1 .. MaxWrite : Write(t, n)
      PROVE  txbuf' = txbuf /\ txout' = txout
  BY <1>7 DEF Close, Yield, Share, Read, Write, ThreadStep, ReadCheck, ReadGet, ReadAdvance,
              ReadDone, WriteCheck, WriteDone, LoadIer
<1>. QED  BY <1>1, <1>2, <1>3, <1>4, <1>5, <1>6, <1>7 DEF Next, ThreadStep

\* What uart_write puts in the transmit buffer, uart_isr takes out: every byte once
\* and in order.
THEOREM TxRefinement == Spec => TxFifo
<1>1. Init => TxQueue!QueueInit
  BY RbufInit DEF Init, TxQueue!QueueInit
<1>2. IInv /\ [Next]_vars => [TxQueue!QueueNext]_TxQueue!queueVars
  BY TxStep
<1>. QED  BY <1>1, <1>2, Invariance, PTL DEF Spec, TxFifo, TxQueue!QueueSpec
=============================================================================

------------------------------- MODULE IoTerm -------------------------------
(***************************************************************************)
(* The terminal interface of io.c over a raw interface: CRLF normalisation *)
(* in both directions, the line editor ioterm_getsn, and the loops of      *)
(* iowrite, ioputs and iovprintf that drive it.  The raw interface is a    *)
(* UART (bytes arrive one by one, a write takes everything) or an io_lit   *)
(* (a buffer of fixed size with one position).  One step is one call of    *)
(* ops->read or ops->write, or one key handled by the editor.              *)
(***************************************************************************)
EXTENDS Integers, Sequences, SequencesExt

CONSTANTS Plain,      \* printable characters that nobody treats specially
          Buffers,    \* buffers that callers write
          Lit,        \* contents of the literal
          MaxBytes,   \* bound on the bytes that arrive and are written, together
          MaxLine     \* largest n given to ioterm_getsn

CR == "cr"
LF == "lf"
BS == "bs"                \* '\b' and '\177', which are handled alike
BEL == "bel"
BLANK == "blank"
ESCAPE == "bracket"       \* '\133', octal 133: the key '['
EIO == -1
Keys == Plain \cup {CR, LF, BS, ESCAPE}

ASSUME IoTermAssumption ==
  /\ Plain \cap {CR, LF, BS, BEL, ESCAPE} = {}
  /\ Buffers \subseteq Seq(Keys) /\ Lit \in Seq(Keys)

VARIABLES iot,      \* [cr_in, cr_out]
          rawio,    \* [kind, buf, pos, size]
          rx,       \* bytes typed and not yet read from the UART
          call,     \* the call in progress
          taken, got,               \* history: raw bytes read, bytes delivered
          written, tx,              \* history: bytes callers wrote, bytes they made raw
          echo,                     \* history: raw bytes the editor wrote for this line
          clean     \* history: no write was cut short and no \r \n was split

vars == <<iot, rawio, rx, call, taken, got, written, tx, echo, clean>>

None == [op |-> "none"]

\* io_lit, and the UART of module Uart seen through iowrite.

iolit_init(s) == [kind |-> "lit", buf |-> s, pos |-> 0, size |-> Len(s)]
Uart == [kind |-> "uart", buf |-> <<>>, pos |-> 0, size |-> 0]

Lesser(a, b) == IF a < b THEN a ELSE b

iolit_read(l, len) ==
  LET n == Lesser(len, l.size - l.pos)
  IN [cnt |-> n, bytes |-> SubSeq(l.buf, l.pos + 1, l.pos + n), io |-> [l EXCEPT !.pos = @ + n]]

iolit_write(l, s) ==
  LET n == Lesser(Len(s), l.size - l.pos)
  IN [cnt |-> n,
      io |-> [l EXCEPT !.pos = @ + n,
                       !.buf = [i \in DOMAIN @ |-> IF i \in l.pos + 1 .. l.pos + n
                                                   THEN s[i - l.pos] ELSE @[i]]]]

iolit_ctl(l, cmd, arg) ==
  IF cmd = "SETPOS" /\ arg <= l.size THEN [l EXCEPT !.pos = arg] ELSE l

iolit_close(l) == [kind |-> "closed", buf |-> <<>>, pos |-> 0, size |-> 0]

\* iowrite on the raw interface: everything, or what the literal still takes.
iowrite_raw(r, s) == IF r.kind = "uart" THEN [cnt |-> Len(s), io |-> r] ELSE iolit_write(r, s)

Init ==
  /\ iot = [cr_in |-> 0, cr_out |-> 0]
  /\ rawio \in {Uart, iolit_init(Lit)}
  /\ call = None
  /\ rx = <<>> /\ taken = <<>> /\ got = <<>>
  /\ written = <<>> /\ tx = <<>> /\ echo = <<>>
  /\ clean = TRUE

Volume == Len(rx) + Len(taken) + Len(written)

\* A byte arrives at the UART.
Type(c) ==
  /\ rawio.kind = "uart" /\ Volume < MaxBytes
  /\ rx' = Append(rx, c)
  /\ UNCHANGED <<iot, rawio, call, taken, got, written, tx, echo, clean>>

-----------------------------------------------------------------------------
\* Input.

\* Mutant: the \n after a \r leaves cr_in set.
normalise_Stuck(st, ch) ==
  CASE ch = CR -> [cr_in |-> 1, out |-> Append(st.out, LF)]
    [] ch = LF /\ st.cr_in = 1 -> [cr_in |-> 1, out |-> st.out]
    [] OTHER -> [cr_in |-> 0, out |-> Append(st.out, ch)]

\* One character of the loop of ioterm_read; out is what lies before wp.
normalise(st, ch) ==
  CASE ch = CR -> [cr_in |-> 1, out |-> Append(st.out, LF)]
    [] ch = LF /\ st.cr_in = 1 -> [cr_in |-> 0, out |-> st.out]
    [] OTHER -> [cr_in |-> 0, out |-> Append(st.out, ch)]

\* What ioread on the raw interface may return: a UART gives what has arrived,
\* at least one byte.  At the end of a literal ioterm_read spins: no step.
Chunks(len) ==
  IF rawio.kind = "lit" THEN {iolit_read(rawio, len).bytes} \ {<<>>}
  ELSE {SubSeq(rx, 1, k) : k \in 1 .. Lesser(len, Len(rx))}

AfterFetch(bytes) ==
  IF rawio.kind = "lit" THEN iolit_read(rawio, Len(bytes)).io ELSE rawio

Fetch(bytes, st) ==
  /\ rx' = IF rawio.kind = "uart" THEN SubSeq(rx, Len(bytes) + 1, Len(rx)) ELSE rx
  /\ taken' = taken \o bytes
  /\ got' = got \o st.out

\* One turn of the loop of ioterm_read, which goes on while it has nothing.
ioterm_read ==
  /\ call.op = "read"
  /\ \E bytes \in Chunks(call.n) :
       LET st == FoldLeft(normalise, [cr_in |-> iot.cr_in, out |-> <<>>], bytes) IN
       /\ Fetch(bytes, st)
       /\ iot' = [iot EXCEPT !.cr_in = st.cr_in]
       /\ rawio' = AfterFetch(bytes)
       /\ call' = IF st.out = <<>> THEN call ELSE None
  /\ UNCHANGED <<written, tx, echo, clean>>

StartRead(n) ==
  /\ call = None /\ rawio.kind # "closed"
  /\ rawio.kind = "lit" => Volume < MaxBytes
  /\ call' = [op |-> "read", n |-> n]
  /\ UNCHANGED <<iot, rawio, rx, taken, got, written, tx, echo, clean>>

\* Mutant: the cursor moves back and the character stays on the screen.
erase_CursorOnly == <<BS>>

\* The echo of a deleted character.
erase == <<BS, BLANK, BS>>

\* One turn of ioterm_getsn: iogetc on the terminal, then the switch.  Lines
\* are edited on a UART only, which takes every echo.
edit(line, n, c) ==
  CASE c = ESCAPE -> [line |-> line, n |-> n, show |-> <<>>]
    [] c = LF -> [line |-> line, n |-> n, show |-> <<CR, LF>>]
    [] c = BS /\ line # <<>> ->
         [line |-> Front(line), n |-> n + 1, show |-> erase]
    [] c = BS /\ line = <<>> -> [line |-> line, n |-> n, show |-> <<BEL>>]
    [] c \notin {ESCAPE, LF, BS} /\ n > 1 ->
         [line |-> Append(line, c), n |-> n - 1, show |-> <<c>>]
    [] OTHER -> [line |-> line, n |-> n, show |-> <<BEL>>]

ioterm_getsn ==
  /\ call.op = "gets"
  /\ \E bytes \in Chunks(1) :
       LET st == FoldLeft(normalise, [cr_in |-> iot.cr_in, out |-> <<>>], bytes)
           c == Head(st.out)
           e == edit(call.line, call.n, c)
       IN
       /\ Fetch(bytes, st)
       /\ \/ /\ st.out = <<>>
             /\ iot' = [iot EXCEPT !.cr_in = st.cr_in]
             /\ UNCHANGED <<call, echo>>
          \/ /\ st.out # <<>>
             /\ iot' = [iot EXCEPT !.cr_in = IF c = ESCAPE THEN 0 ELSE st.cr_in]
             /\ echo' = echo \o e.show
             /\ call' = IF c = LF THEN None ELSE [call EXCEPT !.line = e.line, !.n = e.n]
  /\ UNCHANGED <<rawio, written, tx, clean>>

StartLine(n) ==
  /\ call = None /\ rawio.kind = "uart"
  /\ call' = [op |-> "gets", n |-> n, size |-> n, line |-> <<>>]
  /\ echo' = <<>>
  /\ UNCHANGED <<iot, rawio, rx, taken, got, written, tx, clean>>

-----------------------------------------------------------------------------
\* Output.

\* Write buf[wp .. upto] to the raw interface (counted in acc), then one byte
\* more (not counted).  st.done: ioterm_write returns early, with acc.
Flush(st, buf, upto) ==
  LET s == SubSeq(buf, st.wp, upto)
      w == iowrite_raw(st.rawio, s)
  IN IF s = <<>> THEN st
     ELSE [st EXCEPT !.rawio = w.io, !.tx = @ \o SubSeq(s, 1, w.cnt),
                     !.acc = @ + w.cnt, !.wp = @ + w.cnt, !.done = w.cnt = 0]

ioputc_raw(st, c) ==
  LET w == iowrite_raw(st.rawio, <<c>>)
  IN IF st.done THEN st
     ELSE [st EXCEPT !.rawio = w.io, !.tx = @ \o SubSeq(<<c>>, 1, w.cnt),
                     !.done = w.cnt = 0, !.acc = IF w.cnt = 0 THEN EIO ELSE @]

SetCr(st, v) == IF st.done THEN st ELSE [st EXCEPT !.cr_out = v]

At(buf, i) == IF i \in DOMAIN buf THEN buf[i] ELSE BLANK

\* One turn of the scan of ioterm_write, at position i of buf.  A \n that
\* follows a \r in the buffer was stepped over together with it.
scan(buf, st, i) ==
  IF st.done THEN st
  ELSE CASE buf[i] = CR /\ At(buf, i + 1) = LF -> SetCr(st, 0)
         [] buf[i] = CR /\ At(buf, i + 1) # LF ->
              SetCr(ioputc_raw(Flush(st, buf, i), LF), 1)
         [] buf[i] = LF /\ At(buf, i - 1) = CR -> st
         [] buf[i] = LF /\ At(buf, i - 1) # CR /\ st.cr_out = 1 ->
              [st EXCEPT !.cr_out = 0, !.wp = @ + 1]
         [] buf[i] = LF /\ At(buf, i - 1) # CR /\ st.cr_out = 0 ->
              SetCr(ioputc_raw(Flush(st, buf, i - 1), CR), 0)
         [] OTHER -> SetCr(st, 0)

\* The whole scan and the last flush: acc is what ioterm_write returns.
ioterm_write(buf) ==
  LET start == [wp |-> 1, acc |-> 0, cr_out |-> iot.cr_out, rawio |-> rawio,
                tx |-> tx, done |-> FALSE]
      end == FoldLeft(LAMBDA st, i : scan(buf, st, i), start, [i \in DOMAIN buf |-> i])
  IN IF end.done THEN end ELSE Flush(end, buf, Len(buf))

\* The \r of an earlier call and the \n this call starts with: ioterm_write
\* steps over the \n and does not count it, so that iowrite writes the last byte
\* of the buffer once more and ioputc takes the 0 for an error.
Split ==
  /\ iot.cr_out = 1 /\ call.acc = 0 /\ Head(call.buf) = LF
  /\ Len(call.buf) > 1 \/ (call.how = "iovprintf" /\ call.rest # <<>>)

\* One turn of the loop of iowrite on the terminal; r is what iowrite returns
\* when this is the last turn.  ioputs and iovprintf go on with the next buffer.
iowrite ==
  /\ call.op = "write"
  /\ LET st == ioterm_write(SubSeq(call.buf, call.acc + 1, Len(call.buf)))
         r == IF st.acc < 0 THEN st.acc ELSE call.acc + st.acc
         stop == r < 0 \/ (r = 0 /\ call.how = "iovprintf")
     IN
     /\ iot' = [iot EXCEPT !.cr_out = st.cr_out]
     /\ rawio' = st.rawio /\ tx' = st.tx
     /\ clean' = (clean /\ ~st.done /\ ~Split)
     /\ \/ /\ st.acc > 0 /\ r < Len(call.buf)
           /\ call' = [call EXCEPT !.acc = r]
        \/ /\ (st.acc <= 0 \/ r = Len(call.buf)) /\ ~stop /\ call.rest # <<>>
           /\ call' = [call EXCEPT !.buf = Head(call.rest), !.rest = Tail(@), !.acc = 0]
        \/ /\ (st.acc <= 0 \/ r = Len(call.buf)) /\ (stop \/ call.rest = <<>>)
           /\ call' = None
  /\ UNCHANGED <<rx, taken, got, written, echo>>

StartWrite(how, bufs) ==
  /\ call = None /\ rawio.kind # "closed" /\ bufs # <<>>
  /\ Volume + Len(FlattenSeq(bufs)) <= MaxBytes
  /\ call' = [op |-> "write", how |-> how, buf |-> Head(bufs), rest |-> Tail(bufs), acc |-> 0]
  /\ written' = written \o FlattenSeq(bufs)
  /\ UNCHANGED <<iot, rawio, rx, taken, got, tx, echo, clean>>

ioputs(s) == StartWrite("ioputs", <<s, <<LF>>>>)
iovprintf(s) == StartWrite("iovprintf", [i \in DOMAIN s |-> <<s[i]>>])

\* ioterm_ioctl passes everything but SETPOS on to the raw interface; the
\* owner of a literal may move its position below the terminal.
ioterm_ioctl(cmd, arg) ==
  IF cmd = "SETPOS" THEN rawio ELSE iolit_ctl(rawio, cmd, arg)

Ctl(cmd, arg, through) ==
  /\ call = None /\ rawio.kind = "lit"
  /\ rawio' = IF through THEN ioterm_ioctl(cmd, arg) ELSE iolit_ctl(rawio, cmd, arg)
  /\ UNCHANGED <<iot, rx, call, taken, got, written, tx, echo, clean>>

\* What ioclose may leave of a literal: it is closed when the reference count
\* gets to zero, and iolit_init has left the count as it was in memory.
ioclose(l) == {l, iolit_close(l)}

ioterm_close ==
  /\ call = None /\ rawio.kind = "lit"
  /\ rawio' \in ioclose(rawio)
  /\ UNCHANGED <<iot, rx, call, taken, got, written, tx, echo, clean>>

Next ==
  \/ \E c \in Keys : Type(c)
  \/ \E n \in 1 .. 2 : StartRead(n)
  \/ \E n \in 1 .. MaxLine : StartLine(n)
  \/ \E s \in Buffers : StartWrite("iowrite", <<s>>) \/ ioputs(s) \/ iovprintf(s)
  \/ \E cmd \in {"GETLEN", "GETPOS", "SETPOS"}, arg \in {0, Len(Lit) + 1}, through \in BOOLEAN :
       Ctl(cmd, arg, through)
  \/ ioterm_read \/ ioterm_getsn \/ iowrite \/ ioterm_close

Spec == Init /\ [][Next]_vars

-----------------------------------------------------------------------------
\* What a reader should have received for raw bytes s: \r\n, \r and \n are one \n.
Received(s) ==
  FlattenSeq([i \in DOMAIN s |-> CASE s[i] = CR -> <<LF>>
                                   [] s[i] = LF /\ At(s, i - 1) = CR -> <<>>
                                   [] OTHER -> <<s[i]>>])

\* What should have been sent for characters s: \r\n, \r and \n are one \r\n.
Sent(s) ==
  FlattenSeq([i \in DOMAIN s |-> CASE s[i] = CR -> <<CR, LF>>
                                   [] s[i] = LF /\ At(s, i - 1) = CR -> <<>>
                                   [] s[i] = LF /\ At(s, i - 1) # CR -> <<CR, LF>>
                                   [] OTHER -> <<s[i]>>])

\* Line endings are normalised however the stream is cut into reads, keys,
\* writes, puts and prints: readers have received what the raw bytes mean, and
\* between writes the raw interface has got what the written characters mean,
\* as long as no write fell short and no \r \n was split between two calls
\* (ioterm_read, ioterm_write and the bits cr_in and cr_out).
LineEndingsNormalised ==
  /\ got = Received(taken)
  /\ clean /\ call.op # "write" => tx = Sent(written)

\* A terminal that shows the bytes of the echo: cells of the line, cursor.
show(scr, c) ==
  CASE c = BS -> [scr EXCEPT !.cur = @ - 1]
    [] c = BEL -> scr
    [] OTHER -> LET n == IF scr.cur < Len(scr.cells) THEN Len(scr.cells) ELSE scr.cur + 1
                IN [cells |-> [i \in 1 .. n |-> IF i = scr.cur + 1 THEN c ELSE scr.cells[i]],
                    cur |-> scr.cur + 1]

\* While a line is edited the screen shows exactly the characters in the
\* buffer, with the cursor after them, and they fit in n - 1 bytes
\* (ioterm_getsn: p, n and the echo move together).
ScreenShowsLine ==
  call.op = "gets" =>
    LET scr == FoldLeft(show, [cells |-> <<>>, cur |-> 0], echo) IN
    /\ scr.cur = Len(call.line)
    /\ SubSeq(scr.cells, 1, scr.cur) = call.line
    /\ \A i \in DOMAIN scr.cells : i > scr.cur => scr.cells[i] = BLANK
    /\ Len(call.line) < call.size
=============================================================================

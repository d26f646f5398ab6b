------------------------------- MODULE RingBuf ------------------------------
(***************************************************************************)
(* struct ringbuf of kern/uart.c: two free-running positions of POSBITS    *)
(* bits (uint16_t in the code) and RBUFSZ bytes.  Positions wrap at        *)
(* 2^POSBITS, indices are positions modulo RBUFSZ.                         *)
(***************************************************************************)
EXTENDS Integers, Sequences

CONSTANTS
    RBUFSZ,    \* SERIAL_RBUFSZ, 64 in the code
    POSBITS,   \* width of hpos and tpos, 16 in the code
    Byte,      \* the values of a byte
    NoByte     \* contents of a cell that was never written

PosMod == 2 ^ POSBITS
Pos == 0 .. PosMod - 1

\* Otherwise a full buffer could not be told from an empty one, or the index
\* would jump when a position wraps.
ASSUME RingAssumption ==
    /\ RBUFSZ \in Nat \ {0} /\ POSBITS \in Nat
    /\ RBUFSZ < PosMod
    /\ PosMod % RBUFSZ = 0
    /\ NoByte \notin Byte

Ring == [hpos : Pos, tpos : Pos, data : [0 .. RBUFSZ - 1 -> Byte \cup {NoByte}]]

\* The ring of a device that kcalloc has cleared.
NewRing == [hpos |-> 0, tpos |-> 0, data |-> [i \in 0 .. RBUFSZ - 1 |-> NoByte]]

\* rbuf_init leaves the bytes where they are.
rbuf_init(r) == [r EXCEPT !.hpos = 0, !.tpos = 0]

rbuf_count(r) == (r.tpos - r.hpos) % PosMod

rbuf_empty(r) == r.hpos = r.tpos

\* A mutant: the difference is not truncated to the width of a position.
rbuf_full_NoWrap(r) == r.tpos - r.hpos = RBUFSZ

\* A mutant: one byte too many.
rbuf_full_OffByOne(r) == rbuf_count(r) = RBUFSZ + 1

rbuf_full(r) == rbuf_count(r) = RBUFSZ

\* rbuf_put in an ISR, where nothing can come between its two stores.
rbuf_put(r, c) ==
    [r EXCEPT !.data[r.tpos % RBUFSZ] = c, !.tpos = (r.tpos + 1) % PosMod]

\* A mutant: the byte is stored behind the tail.
put_data_Behind(r, c) == [r EXCEPT !.data[(r.tpos + 1) % RBUFSZ] = c]

\* rbuf_put in a thread: the store of the byte, then the store of tpos.
put_data(r, c) == [r EXCEPT !.data[r.tpos % RBUFSZ] = c]
put_tpos(r) == [r EXCEPT !.tpos = (r.tpos + 1) % PosMod]

\* rbuf_get: the load of the byte, then the store of hpos.
get_data(r) == r.data[r.hpos % RBUFSZ]
get_hpos(r) == [r EXCEPT !.hpos = (r.hpos + 1) % PosMod]

\* The bytes between hpos and tpos, oldest first.
Contents(r) == [i \in 1 .. rbuf_count(r) |-> r.data[(r.hpos + i - 1) % RBUFSZ]]
=============================================================================

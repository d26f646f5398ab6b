------------------------------ MODULE ByteQueue -----------------------------
(***************************************************************************)
(* What a ring buffer between a thread and an ISR should be: a queue of at *)
(* most Capacity bytes.  Put appends a byte, Get removes the oldest one    *)
(* and hands it over, Reset drops what is queued.                          *)
(***************************************************************************)
EXTENDS Naturals, Sequences

CONSTANTS Byte, Capacity

VARIABLES
    queue,   \* the bytes that are queued
    out      \* the last byte handed over, or none

queueVars == <<queue, out>>

QueueInit == queue = << >>

Put(b) ==
    /\ Len(queue) < Capacity
    /\ queue' = Append(queue, b)
    /\ UNCHANGED out

Get ==
    /\ queue # << >>
    /\ out' = Head(queue)
    /\ queue' = Tail(queue)

Reset == queue' = << >> /\ UNCHANGED out

QueueNext == (\E b \in Byte : Put(b)) \/ Get \/ Reset

QueueSpec == QueueInit /\ [][QueueNext]_queueVars
=============================================================================

-------------------------------- MODULE Uart --------------------------------
(***************************************************************************)
(* The serial driver, kern/uart.c: threads that read and write a port, the *)
(* interrupt service routine, and the 16550 behind it.  Threads keep the   *)
(* hart until they block (Scheduler); the ISR runs between two steps of a  *)
(* thread wherever interrupts are on.                                      *)
(***************************************************************************)
EXTENDS Scheduler, RingBuf, FiniteSets

CONSTANTS
    rxbnotempty, txbnotfull,  \* the driver's conditions
    MaxRead, MaxWrite         \* bounds on the length of one uart_read, uart_write

ASSUME UartAssumption ==
    /\ rxbnotempty # txbnotfull
    /\ Conditions = {rxbnotempty, txbnotfull}
    /\ IsFiniteSet(Threads) /\ Nobody \notin Threads
    /\ MaxRead \in Nat /\ MaxWrite \in Nat

VARIABLES
    holders,   \* the threads with a reference to the device; they are what
               \* io_intf.refcnt counts
    rxbuf, txbuf,
    ier,       \* interrupt enable register, a set of bits
    rbr,       \* byte waiting in the receiver, or NoByte (LSR_DR clear)
    thre,      \* LSR_THRE: the transmitter can take a byte
    at,        \* where each thread is in the driver
    left,      \* bytes that its read or write may still transfer
    reg,       \* byte that rbuf_get has loaded, or that is to be written
    ier_read,  \* ier as the read-modify-write loaded it
    rxout,     \* last byte given to a reader
    txout      \* last byte given to the transmitter

vars == <<running, ready, waiting, life, holders, rxbuf, txbuf, ier, rbr, thre, at,
          left, reg, ier_read, rxout, txout>>
driver == <<at, left, reg, ier_read>>
hardware == <<ier, rbr, thre>>

Places == {"out", "r_check", "r_get", "r_adv", "r_ier", "r_set",
           "w_check", "w_put", "w_adv", "w_ier", "w_set"}

\* uart_read and uart_write look at the buffer, and wait, with interrupts off.
Masked == running # Nobody /\ at[running] \in {"r_check", "w_check"}

refcnt == Cardinality(holders)

Running(t, place) == running = t /\ at[t] = place

Go(t, place) == at' = [at EXCEPT ![t] = place]

Init ==
    /\ running = Nobody
    /\ ready \in {s \in [1 .. Cardinality(Threads) -> Threads] :
                    \A i, j \in DOMAIN s : s[i] = s[j] => i = j}
    /\ waiting = [c \in Conditions |-> << >>]
    /\ life = [t \in Threads |-> "live"]
    /\ holders = {}
    /\ rxbuf = NewRing /\ txbuf = NewRing
    /\ ier = {} /\ rbr = NoByte /\ thre = TRUE
    /\ at = [t \in Threads |-> "out"]
    /\ left = [t \in Threads |-> 0]
    /\ reg = [t \in Threads |-> NoByte]
    /\ ier_read = {}
    /\ rxout = NoByte /\ txout = NoByte

-----------------------------------------------------------------------------
(* Threads *)

\* uart_open; with refcnt not zero it returns EBUSY and does nothing.
Open(t) ==
    /\ Running(t, "out") /\ refcnt = 0
    /\ rxbuf' = rbuf_init(rxbuf) /\ txbuf' = rbuf_init(txbuf)
    /\ rbr' = NoByte
    /\ ier' = {"DREIE"}
    /\ holders' = {t}
    /\ UNCHANGED <<sched, driver, thre, rxout, txout>>

\* process_fork gives the child the references of its parent.
Share(t, u) ==
    /\ Running(t, "out") /\ t \in holders /\ u \notin holders
    /\ holders' = holders \cup {u}
    /\ UNCHANGED <<sched, driver, hardware, rxbuf, txbuf, rxout, txout>>

\* ioclose; the last one calls uart_close.
Close(t) ==
    /\ Running(t, "out") /\ t \in holders
    /\ holders' = holders \ {t}
    /\ ier' = IF refcnt = 1 THEN {} ELSE ier
    /\ UNCHANGED <<sched, driver, rxbuf, txbuf, rbr, thre, rxout, txout>>

\* uart_read, up to intr_disable.
Read(t, n) ==
    /\ Running(t, "out") /\ t \in holders
    /\ left' = [left EXCEPT ![t] = n]
    /\ Go(t, "r_check")
    /\ UNCHANGED <<sched, hardware, holders, rxbuf, txbuf, reg, ier_read, rxout, txout>>

\* A mutant: the look at the buffer and the wait are not one step.
ReadCheck_Unmasked(t) ==
    /\ running = t
    /\ \/ /\ at[t] = "r_check" /\ ~rbuf_empty(rxbuf)
          /\ Go(t, "r_get") /\ UNCHANGED sched
       \/ /\ at[t] = "r_check" /\ rbuf_empty(rxbuf)
          /\ Go(t, "r_adv") /\ UNCHANGED sched
       \/ /\ at[t] = "r_adv" /\ reg[t] = NoByte
          /\ Block(rxbnotempty) /\ Go(t, "r_check")
    /\ UNCHANGED <<hardware, holders, rxbuf, txbuf, left, reg, ier_read, rxout, txout>>

\* uart_read waits until the buffer is not empty; intr_enable follows.
ReadCheck(t) ==
    /\ Running(t, "r_check")
    /\ \/ rbuf_empty(rxbuf) /\ Block(rxbnotempty) /\ UNCHANGED at
       \/ ~rbuf_empty(rxbuf) /\ Go(t, "r_get") /\ UNCHANGED sched
    /\ UNCHANGED <<hardware, holders, rxbuf, txbuf, left, reg, ier_read, rxout, txout>>

\* The copy loop of uart_read: its test, and rbuf_get up to the store of hpos.
ReadGet(t) ==
    /\ Running(t, "r_get")
    /\ IF ~rbuf_empty(rxbuf) /\ left[t] > 0
       THEN reg' = [reg EXCEPT ![t] = get_data(rxbuf)] /\ Go(t, "r_adv")
       ELSE Go(t, "r_ier") /\ UNCHANGED reg
    /\ UNCHANGED <<sched, hardware, holders, rxbuf, txbuf, left, ier_read, rxout, txout>>

ReadAdvance(t) ==
    /\ Running(t, "r_adv")
    /\ rxbuf' = get_hpos(rxbuf)
    /\ rxout' = reg[t]
    /\ reg' = [reg EXCEPT ![t] = NoByte]
    /\ left' = [left EXCEPT ![t] = @ - 1]
    /\ Go(t, "r_get")
    /\ UNCHANGED <<sched, hardware, holders, txbuf, ier_read, txout>>

\* ier |= bit, a load and a store with interrupts on.
LoadIer(t) ==
    /\ running = t /\ at[t] \in {"r_ier", "w_ier"}
    /\ ier_read' = ier
    /\ Go(t, IF at[t] = "r_ier" THEN "r_set" ELSE "w_set")
    /\ UNCHANGED <<sched, hardware, holders, rxbuf, txbuf, left, reg, rxout, txout>>

\* A mutant: the bit is not set again after the buffer was drained.
ReadDone_NoEnable(t) ==
    /\ Running(t, "r_set")
    /\ ier' = ier_read
    /\ ier_read' = {}
    /\ left' = [left EXCEPT ![t] = 0]
    /\ Go(t, "out")
    /\ UNCHANGED <<sched, holders, rxbuf, txbuf, rbr, thre, reg, rxout, txout>>

ReadDone(t) ==
    /\ Running(t, "r_set")
    /\ ier' = ier_read \cup {"DREIE"}
    /\ ier_read' = {}
    /\ left' = [left EXCEPT ![t] = 0]
    /\ Go(t, "out")
    /\ UNCHANGED <<sched, holders, rxbuf, txbuf, rbr, thre, reg, rxout, txout>>

\* uart_write of n bytes, up to intr_disable; of none, it returns at once.
Write(t, n) ==
    /\ Running(t, "out") /\ t \in holders
    /\ left' = [left EXCEPT ![t] = n]
    /\ Go(t, "w_check")
    /\ UNCHANGED <<sched, hardware, holders, rxbuf, txbuf, reg, ier_read, rxout, txout>>

\* uart_write waits until there is room; intr_enable follows.
WriteCheck(t) ==
    /\ Running(t, "w_check")
    /\ \/ rbuf_full(txbuf) /\ Block(txbnotfull) /\ UNCHANGED at
       \/ ~rbuf_full(txbuf) /\ Go(t, "w_put") /\ UNCHANGED sched
    /\ UNCHANGED <<hardware, holders, rxbuf, txbuf, left, reg, ier_read, rxout, txout>>

\* The copy loop of uart_write: its test, and rbuf_put up to the store of tpos.
WritePut(t) ==
    /\ Running(t, "w_put")
    /\ IF ~rbuf_full(txbuf) /\ left[t] > 0
       THEN /\ \E c \in Byte : txbuf' = put_data(txbuf, c)
            /\ Go(t, "w_adv")
       ELSE Go(t, "w_ier") /\ UNCHANGED txbuf
    /\ UNCHANGED <<sched, hardware, holders, rxbuf, left, reg, ier_read, rxout, txout>>

WriteAdvance(t) ==
    /\ Running(t, "w_adv")
    /\ txbuf' = put_tpos(txbuf)
    /\ left' = [left EXCEPT ![t] = @ - 1]
    /\ Go(t, "w_put")
    /\ UNCHANGED <<sched, hardware, holders, rxbuf, reg, ier_read, rxout, txout>>

\* A mutant: transmit interrupts are only enabled after the last byte.
WriteDone_AtEnd(t) ==
    /\ Running(t, "w_set")
    /\ ier' = IF left[t] = 0 THEN ier_read \cup {"THREIE"} ELSE ier_read
    /\ ier_read' = {}
    /\ Go(t, IF left[t] > 0 THEN "w_check" ELSE "out")
    /\ UNCHANGED <<sched, holders, rxbuf, txbuf, rbr, thre, left, reg, rxout, txout>>

WriteDone(t) ==
    /\ Running(t, "w_set")
    /\ ier' = ier_read \cup {"THREIE"}
    /\ ier_read' = {}
    /\ Go(t, IF left[t] > 0 THEN "w_check" ELSE "out")
    /\ UNCHANGED <<sched, holders, rxbuf, txbuf, rbr, thre, left, reg, rxout, txout>>

\* A thread outside the driver lets the others run.
Yield(t) ==
    /\ Running(t, "out")
    /\ YieldHart
    /\ UNCHANGED <<driver, hardware, holders, rxbuf, txbuf, rxout, txout>>

DispatchNext ==
    /\ Dispatch
    /\ UNCHANGED <<driver, hardware, holders, rxbuf, txbuf, rxout, txout>>

-----------------------------------------------------------------------------
(* Device and ISR *)

\* A byte comes in; an unread one is overwritten (LSR_OE, counted in rxovrcnt).
ByteArrives(b) ==
    /\ rbr' = b
    /\ UNCHANGED <<sched, driver, holders, rxbuf, txbuf, ier, thre, rxout, txout>>

\* The transmitter has sent its byte.
ByteSent ==
    /\ ~thre
    /\ thre' = TRUE
    /\ UNCHANGED <<sched, driver, holders, rxbuf, txbuf, ier, rbr, rxout, txout>>

IrqPending ==
    \/ "DREIE" \in ier /\ rbr # NoByte
    \/ "THREIE" \in ier /\ thre

\* A mutant: the ISR looks at the buffers after it has changed them.
IsrWakes_Late ==
    (IF rbr # NoByte /\ rbuf_empty(rbuf_put(rxbuf, rbr)) THEN {rxbnotempty} ELSE {})
    \cup (IF thre /\ ~rbuf_empty(txbuf) /\ rbuf_full(get_hpos(txbuf))
          THEN {txbnotfull} ELSE {})

\* The conditions that the ISR broadcasts, from the state it finds.
IsrWakes ==
    (IF rbr # NoByte /\ rbuf_empty(rxbuf) THEN {rxbnotempty} ELSE {})
    \cup (IF thre /\ ~rbuf_empty(txbuf) /\ rbuf_full(txbuf) THEN {txbnotfull} ELSE {})

\* condition_broadcast of each, the receiver's first.
BroadcastAll(S) ==
    /\ ready' = ready
                  \o (IF rxbnotempty \in S THEN waiting[rxbnotempty] ELSE << >>)
                  \o (IF txbnotfull \in S THEN waiting[txbnotfull] ELSE << >>)
    /\ waiting' = [c \in Conditions |-> IF c \in S THEN << >> ELSE waiting[c]]
    /\ UNCHANGED <<running, life>>

\* uart_isr: receive if LSR_DR, transmit if LSR_THRE, or disable the
\* interrupt that has nothing to do.
uart_isr ==
    /\ IrqPending /\ ~Masked
    /\ BroadcastAll(IsrWakes)
    /\ IF rbr # NoByte /\ ~rbuf_full(rxbuf)
       THEN rxbuf' = rbuf_put(rxbuf, rbr) /\ rbr' = NoByte
       ELSE UNCHANGED <<rxbuf, rbr>>
    /\ IF thre /\ ~rbuf_empty(txbuf)
       THEN txbuf' = get_hpos(txbuf) /\ txout' = get_data(txbuf) /\ thre' = FALSE
       ELSE UNCHANGED <<txbuf, txout, thre>>
    /\ ier' = ier \ ((IF rbr # NoByte /\ rbuf_full(rxbuf) THEN {"DREIE"} ELSE {})
                     \cup (IF thre /\ rbuf_empty(txbuf) THEN {"THREIE"} ELSE {}))
    /\ UNCHANGED <<driver, holders, rxout>>

ThreadStep(t) ==
    \/ ReadCheck(t) \/ ReadGet(t) \/ ReadAdvance(t) \/ ReadDone(t)
    \/ WriteCheck(t) \/ WritePut(t) \/ WriteAdvance(t) \/ WriteDone(t)
    \/ LoadIer(t)

Next ==
    \/ \E t \in Threads : \/ Open(t) \/ Close(t) \/ Yield(t) \/ ThreadStep(t)
                          \/ \E u \in Threads : Share(t, u)
                          \/ \E n \in 1 .. MaxRead : Read(t, n)
                          \/ \E n \in 1 .. MaxWrite : Write(t, n)
    \/ DispatchNext
    \/ \E b \in Byte : ByteArrives(b)
    \/ ByteSent
    \/ uart_isr

\* The hart runs what is dispatched, and takes a pending interrupt as soon as
\* interrupts are on; the transmitter sends.
Fairness ==
    /\ WF_vars(DispatchNext) /\ WF_vars(ByteSent) /\ SF_vars(uart_isr)
    /\ \A t \in Threads : WF_vars(ThreadStep(t))

Spec == Init /\ [][Next]_vars
FairSpec == Spec /\ Fairness

-----------------------------------------------------------------------------
\* The type invariant of the driver and its clients.
TypeOK ==
    /\ running \in Threads \cup {Nobody}
    /\ ready \in Seq(Threads)
    /\ waiting \in [Conditions -> Seq(Threads)]
    /\ holders \subseteq Threads
    /\ rxbuf \in Ring /\ txbuf \in Ring
    /\ rbuf_count(rxbuf) <= RBUFSZ /\ rbuf_count(txbuf) <= RBUFSZ
    /\ ier \subseteq {"DREIE", "THREIE"} /\ ier_read \subseteq {"DREIE", "THREIE"}
    /\ rbr \in Byte \cup {NoByte} /\ thre \in BOOLEAN
    /\ at \in [Threads -> Places]
    /\ left \in [Threads -> Nat]
    /\ reg \in [Threads -> Byte \cup {NoByte}]
    /\ rxout \in Byte \cup {NoByte} /\ txout \in Byte \cup {NoByte}

\* No lost wakeup in uart_read: while a thread sleeps there, nothing is to be
\* read.
NoSleepingReader == waiting[rxbnotempty] # << >> => rbuf_empty(rxbuf)

\* No lost wakeup in uart_write: while a thread sleeps there, there is no room.
NoSleepingWriter == waiting[txbnotfull] # << >> => rbuf_full(txbuf)

\* uart_isr turns receive interrupts off when the buffer is full, and only
\* uart_read turns them on again: while they are off, the buffer is full or
\* somebody is on the way to turn them on.
ReceiveEnabled ==
    holders # {} /\ "DREIE" \notin ier =>
        \/ rbuf_full(rxbuf)
        \/ \E t \in Threads : at[t] \in {"r_get", "r_adv", "r_ier", "r_set"}

\* Bytes are never left in the transmit buffer: the transmit interrupt is on, or
\* the writer is on the way to turn it on.
TransmitEnabled ==
    holders # {} /\ ~rbuf_empty(txbuf) =>
        \/ "THREIE" \in ier
        \/ \E t \in Threads : at[t] \in {"w_put", "w_adv", "w_ier", "w_set"}

RxQueue == INSTANCE ByteQueue
             WITH queue <- Contents(rxbuf), out <- rxout, Capacity <- RBUFSZ
TxQueue == INSTANCE ByteQueue
             WITH queue <- Contents(txbuf), out <- txout, Capacity <- RBUFSZ

\* What uart_isr puts in the receive buffer, uart_read takes out: every byte
\* once, in order, though rbuf_get runs with interrupts on.
RxFifo == RxQueue!QueueSpec

\* What uart_write puts in the transmit buffer, uart_isr takes out: every byte
\* once, in order, though rbuf_put runs with interrupts on.
TxFifo == TxQueue!QueueSpec

Sleeps(t, c) == \E i \in DOMAIN waiting[c] : waiting[c][i] = t

\* A thread that sleeps in uart_write is woken: the buffer drains without it.
WriterWakes == \A t \in Threads : Sleeps(t, txbnotfull) ~> ~Sleeps(t, txbnotfull)

\* A thread that sleeps in uart_read is woken when a byte has come in.
ReaderWakes ==
    \A t \in Threads :
        Sleeps(t, rxbnotempty) /\ rbr # NoByte ~> ~Sleeps(t, rxbnotempty)
=============================================================================

----------------------------- MODULE Uart16550 -----------------------------
(***************************************************************************)
(* The registers of COM1 (uart16550.cc): what a write, a read and a poll   *)
(* do to them.  Every operation ends in update_status, which recomputes     *)
(* what the guest and the machine see: the interrupt identification.       *)
(*                                                                         *)
(* Left out: the divisor latch and the DLAB bit that puts it in front of   *)
(* RBR, THR and IER, word length and parity (the transfer has no bits),    *)
(* the scratch register, and the transmit FIFO, which is never filled.     *)
(***************************************************************************)
EXTENDS Naturals, Sequences

CONSTANTS FifoCap,     \* bytes the receive FIFO holds (64)
          Triggers     \* what FCR can ask for (1, 4, 8, 14)

ASSUME UartAssumption ==
    FifoCap \in Nat \ {0} /\ Triggers \subseteq Nat \ {0} /\ Triggers # {}

VARIABLE uart

\* Interrupt sources, the most urgent first.
Priority == <<"RLS", "RDA", "THRE", "MS">>

\* MCR outputs, and the MSR input each drives in loopback.
Mirrored == [RTS |-> "CTS", DTR |-> "DSR", OUT1 |-> "RI", OUT2 |-> "DCD"]
Output   == DOMAIN Mirrored

PowerOn == [rx |-> << >>, fifo |-> FALSE, trigger |-> 1,
            ier |-> {}, mcr |-> {}, msr |-> {}, delta |-> {},
            overrun |-> FALSE, threPending |-> FALSE, iir |-> "NONE"]

Full(u)   == Len(u.rx) >= FifoCap
Looped(u) == "LOOP" \in u.mcr
RxTrigger(u) == IF u.fifo THEN u.trigger ELSE 1

Mirror(u) == IF Looped(u) THEN {Mirrored[o] : o \in u.mcr \cap Output} ELSE u.msr

\* Bug: one byte more than asked for.
RaisedLate(u) == [RLS  |-> u.overrun,
                  RDA  |-> Len(u.rx) > RxTrigger(u),
                  THRE |-> u.threPending,
                  MS   |-> u.delta # {}]

Raised(u) == [RLS  |-> u.overrun,
              RDA  |-> Len(u.rx) >= RxTrigger(u),
              THRE |-> u.threPending,
              MS   |-> u.delta # {}]

Pending(u) == {s \in u.ier : Raised(u)[s]}

Highest(u) == IF Pending(u) = {} THEN "NONE"
              ELSE Priority[CHOOSE k \in 1 .. 4 :
                                /\ Priority[k] \in Pending(u)
                                /\ \A j \in 1 .. k - 1 : Priority[j] \notin Pending(u)]

\* The end of every operation, which has made of the card what u is.
UpdateStatus(u) == \E v \in {[u EXCEPT !.msr = Mirror(u)]} :
                       uart' = [v EXCEPT !.iir = Highest(v)]

IrqPending(u) == u.iir # "NONE"

-----------------------------------------------------------------------------
(***************************************************************************)
(* Writes.                                                                 *)
(***************************************************************************)
\* A byte looped back goes into the receive FIFO, or is an overrun.
LoopedBack(b) == IF Full(uart) THEN [uart EXCEPT !.overrun = TRUE]
                               ELSE [uart EXCEPT !.rx = Append(@, b)]

\* THR: the byte leaves at once, and the empty register interrupts again.
WriteThr(b) ==
    UpdateStatus([(IF Looped(uart) THEN LoopedBack(b) ELSE uart)
                  EXCEPT !.threPending = TRUE])

\* Enabling the THR-empty interrupt raises it, the register being empty.
WriteIer(enabled) ==
    UpdateStatus([uart EXCEPT !.ier = enabled, !.threPending = (@ \/ "THRE" \in enabled)])

WriteFcr(on, trigger, clear) ==
    UpdateStatus([uart EXCEPT !.fifo = on, !.trigger = trigger,
                              !.rx = IF clear \/ (on /\ ~uart.fifo) THEN << >> ELSE @])

\* In loopback each input that changes leaves a delta.
WriteMcr(outputs) ==
    LET after   == Mirror([uart EXCEPT !.mcr = outputs])
        changed == (uart.msr \ after) \cup (after \ uart.msr)
    IN  UpdateStatus([uart EXCEPT !.mcr = outputs, !.delta = @ \cup changed])

-----------------------------------------------------------------------------
(***************************************************************************)
(* Reads.                                                                  *)
(***************************************************************************)
\* RBR: what is read (nothing from an empty FIFO), and what is left.
Rbr     == SubSeq(uart.rx, 1, IF uart.rx = << >> THEN 0 ELSE 1)
ReadRbr == UpdateStatus([uart EXCEPT !.rx = IF @ = << >> THEN @ ELSE Tail(@)])

\* IIR: reading it retires a THR-empty interrupt, if that is what it names.
ReadIir == UpdateStatus([uart EXCEPT !.threPending = (@ /\ uart.iir # "THRE")])

ReadLsr == UpdateStatus([uart EXCEPT !.overrun = FALSE])

ReadMsr == UpdateStatus([uart EXCEPT !.delta = {}])

-----------------------------------------------------------------------------
(***************************************************************************)
(* poll: the FIFO takes in what it has room for of what the host has.      *)
(***************************************************************************)
FirstOf(bytes, n) == SubSeq(bytes, 1, IF n < Len(bytes) THEN n ELSE Len(bytes))

RestOf(bytes, n) == SubSeq(bytes, n + 1, Len(bytes))

\* Bug: the byte that finds the FIFO full is taken from the host all the same.
RoomAndOne == FifoCap - Len(uart.rx) + 1

Room == FifoCap - Len(uart.rx)

Untaken(in) == RestOf(in, Room)

\* A push on a full FIFO does nothing.
DoPoll(in) == UpdateStatus([uart EXCEPT !.rx = FirstOf(@ \o FirstOf(in, Room), FifoCap)])
=============================================================================

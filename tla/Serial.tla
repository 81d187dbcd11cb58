------------------------------- MODULE Serial -------------------------------
(***************************************************************************)
(* COM1 between the host and a guest program: the host's two byte queues   *)
(* (Emu88Emulator.mm), the machine's poll (dos_machine.cc) that feeds the  *)
(* card and offers its interrupt, and an interrupt driven guest.           *)
(*                                                                         *)
(* The guest is a program the user runs.  It does what serial drivers do:  *)
(* the foreground, with interrupts off around each register, chooses FIFO  *)
(* mode and modem outputs (loopback among them), and puts bytes into its   *)
(* own buffer; the handler serves the source IIR names until it names none.*)
(***************************************************************************)
EXTENDS Uart16550

CONSTANTS HostByte,    \* what the host sends
          GuestByte,   \* what the guest sends
          MaxIn,       \* bound: bytes from the host
          MaxOut,      \* bound: bytes from the guest
          Chunk        \* bytes forwarded at a time (256)

ASSUME SerialAssumption ==
    /\ HostByte \cap GuestByte = {}
    /\ MaxIn \in Nat /\ MaxOut \in Nat /\ Chunk \in Nat \ {0}

VARIABLES serIn,       \* ser_in: host to guest
          serOut,      \* ser_out: guest to host
          guest,       \* its buffer, its FIFO setting, where its handler is
          removed,     \* what just left the receive FIFO, read or thrown away
          count        \* bytes so far

serialVars == <<uart, serIn, serOut, guest, removed, count>>

SerialInit == /\ uart = PowerOn
        /\ serIn = << >> /\ serOut = << >>
        /\ \E t \in Triggers : guest = [buffer |-> << >>, trigger |-> t, pc |-> "main"]
        /\ removed = << >>
        /\ count = [in |-> 0, out |-> 0]

-----------------------------------------------------------------------------
(***************************************************************************)
(* The host and the machine.                                               *)
(***************************************************************************)
\* sendSerialData, on the host's thread.
PushSerialIn(b) ==
    /\ count.in < MaxIn
    /\ serIn' = Append(serIn, b)
    /\ count' = [count EXCEPT !.in = @ + 1]
    /\ UNCHANGED <<uart, serOut, guest, removed>>

\* Every 1024 instructions.  The request is made only with interrupts on, so
\* not in the handler, and is lost if a later source overwrites it.
Poll == /\ DoPoll(serIn)
        /\ serIn' = Untaken(serIn)
        /\ removed' = << >>
        /\ UNCHANGED <<serOut, count>>

PollUnanswered == Poll /\ UNCHANGED guest

PollInterrupts == /\ Poll
                  /\ IrqPending(uart') /\ guest.pc = "main"
                  /\ guest' = [guest EXCEPT !.pc = "identify"]

DrainSerialOut ==
    /\ serOut # << >>
    /\ serOut' = SubSeq(serOut, (IF Len(serOut) < Chunk THEN Len(serOut) ELSE Chunk) + 1,
                        Len(serOut))
    /\ UNCHANGED <<uart, serIn, guest, removed, count>>

-----------------------------------------------------------------------------
(***************************************************************************)
(* The guest's foreground.                                                 *)
(***************************************************************************)
Wanted == {"RLS", "RDA", "MS"}

SetFifo(on, clear) ==
    /\ guest.pc = "main"
    /\ WriteFcr(on, guest.trigger, clear)
    /\ removed' = IF uart'.rx = << >> THEN uart.rx ELSE << >>
    /\ UNCHANGED <<serIn, serOut, guest, count>>

SetModem(outputs) ==
    /\ guest.pc = "main"
    /\ WriteMcr(outputs)
    /\ UNCHANGED <<serIn, serOut, guest, removed, count>>

\* Receiving begins when the guest enables its interrupts.
Enable ==
    /\ guest.pc = "main" /\ uart.ier = {}
    /\ WriteIer(Wanted)
    /\ UNCHANGED <<serIn, serOut, guest, removed, count>>

\* A byte to send is left to the handler.
Send(b) ==
    /\ guest.pc = "main" /\ count.out < MaxOut
    /\ guest' = [guest EXCEPT !.buffer = Append(@, b)]
    /\ WriteIer(Wanted \cup {"THRE"})
    /\ count' = [count EXCEPT !.out = @ + 1]
    /\ UNCHANGED <<serIn, serOut, removed>>

-----------------------------------------------------------------------------
(***************************************************************************)
(* The guest's handler.                                                    *)
(***************************************************************************)
Identify ==
    /\ guest.pc = "identify"
    /\ ReadIir
    /\ guest' = [guest EXCEPT !.pc = IF IrqPending(uart) THEN uart.iir ELSE "main"]
    /\ removed' = << >>
    /\ UNCHANGED <<serIn, serOut, count>>

Served == guest' = [guest EXCEPT !.pc = "identify"]

ServeReceiver ==
    /\ guest.pc = "RDA" /\ Served
    /\ ReadRbr
    /\ removed' = Rbr
    /\ UNCHANGED <<serIn, serOut, count>>

\* The next byte of the buffer goes to the host, or back into the receiver.
ServeTransmitter ==
    /\ guest.pc = "THRE" /\ guest.buffer # << >>
    /\ WriteThr(Head(guest.buffer))
    /\ serOut' = IF Looped(uart) THEN serOut ELSE Append(serOut, Head(guest.buffer))
    /\ guest' = [guest EXCEPT !.buffer = Tail(@), !.pc = "identify"]
    /\ UNCHANGED <<serIn, removed, count>>

\* With nothing left to send it turns the source off.
QuietTransmitter ==
    /\ guest.pc = "THRE" /\ guest.buffer = << >> /\ Served
    /\ WriteIer(Wanted)
    /\ UNCHANGED <<serIn, serOut, removed, count>>

ServeLineStatus ==
    /\ guest.pc = "RLS" /\ Served
    /\ ReadLsr
    /\ UNCHANGED <<serIn, serOut, removed, count>>

ServeModemStatus ==
    /\ guest.pc = "MS" /\ Served
    /\ ReadMsr
    /\ UNCHANGED <<serIn, serOut, removed, count>>

Handler == \/ Identify \/ ServeReceiver \/ ServeTransmitter
           \/ QuietTransmitter \/ ServeLineStatus \/ ServeModemStatus

Outputs == {{"DTR", "RTS"}, {"DTR", "OUT2", "LOOP"}}

SerialNext == \/ \E b \in HostByte : PushSerialIn(b)
        \/ PollUnanswered \/ PollInterrupts
        \/ DrainSerialOut
        \/ \E on, clear \in BOOLEAN : SetFifo(on, clear)
        \/ \E outputs \in Outputs : SetModem(outputs)
        \/ Enable
        \/ \E b \in GuestByte : Send(b)
        \/ Handler

\* The machine polls, the guest's handler runs, the emulator thread forwards;
\* the interrupt, offered at every poll while the line is up, is taken.
SerialSpec == /\ SerialInit /\ [][SerialNext]_serialVars
        /\ WF_serialVars(Poll /\ UNCHANGED guest) /\ SF_serialVars(PollInterrupts)
        /\ WF_serialVars(Handler) /\ WF_serialVars(DrainSerialOut)

-----------------------------------------------------------------------------
(***************************************************************************)
(* Properties.                                                             *)
(***************************************************************************)
\* The host's bytes leave the receive FIFO in the order the host sent them, and
\* none is missing or read twice, whatever the guest does to the FIFO, the
\* trigger or the loopback while they arrive, and however full the FIFO is
\* (uart16550.cc, poll): the FIFO and the host's queue are one queue.
OfHost(bytes) ==
    LET of[n \in 0 .. Len(bytes)] ==
            IF n = 0 THEN << >>
            ELSE IF bytes[n] \in HostByte THEN Append(of[n - 1], bytes[n])
                                          ELSE of[n - 1]
    IN  of[Len(bytes)]

HostQueue == INSTANCE BoundedFifo WITH
    Item <- HostByte, Bound <- MaxIn,
    queue <- OfHost(uart.rx) \o serIn, delivered <- OfHost(removed)

HostBytesInOrder == HostQueue!Spec

\* A guest that works by interrupts gets everything across.  What it sends is
\* sent: the THR-empty interrupt comes back after each byte, and is not lost when
\* a received byte or a modem change is identified first (uart16550.cc,
\* write_port THR and IER, read_port IIR).  At trigger level 1 it reads every
\* byte the host sends, however many came while it could not be interrupted.
\* (Above level 1 this card, which has no character timeout, leaves the last
\* ones.)  And serving what IIR names removes it, so the handler returns.
BytesGetAcross ==
    /\ guest.buffer # << >> ~> (guest.buffer = << >> /\ serOut = << >>)
    /\ (serIn # << >> /\ "RDA" \in uart.ier /\ guest.trigger = 1)
           ~> (serIn = << >> /\ uart.rx = << >>)
    /\ guest.pc # "main" ~> guest.pc = "main"
=============================================================================

------------------------------ MODULE Network ------------------------------
(***************************************************************************)
(* The NE2000 card between the host's network and a guest driver: the      *)
(* queue of Emu88SlirpNet, the machine's poll that moves one frame at a    *)
(* time from it into the card, and a packet driver that sets the card up,  *)
(* answers its interrupt, reads the ring by remote DMA and sends.          *)
(*                                                                         *)
(* The poll comes between any two guest instructions, so between any two   *)
(* accesses the driver makes.  The driver is a program the user runs; what *)
(* it does is taken from what DP8390 drivers do, and it differs from one   *)
(* to the next: which order the registers are set up in, whether BNRY      *)
(* stands on the next page to read or one page behind it, what is sent.    *)
(***************************************************************************)
EXTENDS Ne2000

CONSTANTS QueueLimit,   \* frames after which enqueue_rx drops the oldest (256)
          TxPage,       \* where the driver puts what it sends
          TxLengths     \* the lengths it sends

ASSUME NetworkAssumption ==
    /\ QueueLimit \in Nat
    /\ TxPage \in BufStart .. DefStart - 1
    /\ \A n \in TxLengths : n \in 0 .. (DefStart - TxPage) * PageSize

VARIABLES rxQueue,     \* frames the host has for the guest
          drv,         \* the driver
          delivered    \* the frame it has read and not handed on, if any

vars == <<card, mem, rxQueue, drv, delivered>>

-----------------------------------------------------------------------------
(***************************************************************************)
(* The host.                                                               *)
(***************************************************************************)
EnqueueRx(q, f) == Append(IF Len(q) > QueueLimit THEN Tail(q) ELSE q, f)

Arrive(f) == /\ rxQueue' = EnqueueRx(rxQueue, f)
             /\ UNCHANGED <<card, mem, drv, delivered>>

\* One frame every 1024 instructions, whether or not the card can take it.
Poll == /\ rxQueue # << >>
        /\ Receive(Head(rxQueue))
        /\ rxQueue' = Tail(rxQueue)
        /\ UNCHANGED <<drv, delivered>>

-----------------------------------------------------------------------------
(***************************************************************************)
(* The driver.  It uses the whole default ring.                            *)
(***************************************************************************)
Wanted == {"PRX", "OVW"}

\* Setting the card up: the registers of page 0 (nothing is received before
\* the start, so they are written in one step), then CURR, which is on page 1,
\* and the start, in either order.
Setups == {<<"page 0", "CURR", "STA">>, <<"page 0", "STA", "CURR">>}

After(page) == IF page = MemEnd - 1 THEN DefStart ELSE page + 1
Before(page) == IF page = DefStart THEN MemEnd - 1 ELSE page - 1

FirstRead == IF drv.behind THEN After(DefStart) ELSE DefStart

\* The page of the next frame to read, as BNRY tells it.
NextRead == IF drv.behind THEN After(card.bnry) ELSE card.bnry

Goto(pc) == drv' = [drv EXCEPT !.pc = pc]

PageZero == /\ card' = [card EXCEPT !.pstart = DefStart, !.pstop = MemEnd,
                                    !.bnry = DefStart, !.imr = Wanted]
            /\ UNCHANGED mem

WriteFor(step) == \/ step = "page 0" /\ PageZero
                  \/ step = "CURR" /\ Write("curr", FirstRead)
                  \/ step = "STA" /\ Command(TRUE)

SetUp ==
    /\ drv.pc = "setup"
    /\ WriteFor(Head(drv.todo))
    /\ drv' = [drv EXCEPT !.todo = Tail(@),
                          !.pc = IF Len(drv.todo) = 1 THEN "idle" ELSE "setup"]
    /\ UNCHANGED <<rxQueue, delivered>>

\* The reset port: the driver begins again.
StartOver == \E setup \in Setups : drv' = [drv EXCEPT !.pc = "setup", !.todo = setup]

ResetCard == /\ drv.pc = "idle"
             /\ Reset
             /\ StartOver
             /\ UNCHANGED <<rxQueue, delivered>>

\* The interrupt handler reads ISR ...
Interrupt == /\ drv.pc = "idle" /\ IrqActive
             /\ drv' = [drv EXCEPT !.pc = "ack", !.seen = card.isr]
             /\ UNCHANGED <<card, mem, rxQueue, delivered>>

\* ... clears what it saw, then looks; an overflow makes it stop the card.
Acknowledge == /\ drv.pc = "ack"
               /\ WriteIsr(drv.seen)
               /\ drv' = [drv EXCEPT !.pc = IF "OVW" \in drv.seen THEN "stop" ELSE "look",
                                     !.seen = {}]
               /\ UNCHANGED <<rxQueue, delivered>>

StopCard == /\ drv.pc = "stop"
            /\ Command(FALSE)
            /\ Goto("look")
            /\ UNCHANGED <<rxQueue, delivered>>

Look == /\ drv.pc = "look" /\ card.curr # NextRead
        /\ BeginDma(NextRead * PageSize, 1)
        /\ Goto("header")
        /\ UNCHANGED <<rxQueue, delivered>>

RingEmpty == /\ drv.pc = "look" /\ card.curr = NextRead
             /\ Command(TRUE)
             /\ Goto("idle")
             /\ UNCHANGED <<rxQueue, delivered>>

\* The header says how much to read; a page that does not begin a frame makes
\* the driver reset the card.
ReadHeader ==
    /\ drv.pc = "header"
    /\ LET found == At(card.rdar) IN
         IF found.kind = "header"
         THEN /\ card' = [DmaStep EXCEPT !.rdar = NextRead * PageSize + 1,
                                         !.rbcr = found.total - 1]
              /\ drv' = [drv EXCEPT !.pc = "copy", !.next = found.next]
              /\ UNCHANGED mem
         ELSE Reset /\ StartOver
    /\ UNCHANGED <<rxQueue, delivered>>

ReadFrame == /\ drv.pc = "copy" /\ card.rbcr # 0
             /\ DmaRead
             /\ drv' = [drv EXCEPT !.copied = Append(@, At(card.rdar))]
             /\ UNCHANGED <<rxQueue, delivered>>

\* The frame is out: BNRY moves, the frame is handed to the program it is for,
\* and the ring is looked at again.
Release == /\ drv.pc = "copy" /\ card.rbcr = 0
           /\ Write("bnry", IF drv.behind THEN Before(drv.next) ELSE drv.next)
           /\ delivered' = drv.copied
           /\ drv' = [drv EXCEPT !.pc = "hand", !.next = DefStart,
                                 !.copied = << >>]
           /\ UNCHANGED rxQueue

HandOver == /\ drv.pc = "hand"
            /\ delivered' = << >>
            /\ Goto("look")
            /\ UNCHANGED <<card, mem, rxQueue>>

\* Sending, with interrupts off: the frame goes up by remote DMA, then TXP; the
\* driver polls for the end of it.
Send(n) ==
    /\ drv.pc = "idle"
    /\ BeginDma(TxPage * PageSize, n)
    /\ drv' = [drv EXCEPT !.pc = "upload", !.txLen = n]
    /\ UNCHANGED <<rxQueue, delivered>>

Packet == [i \in 1 .. drv.txLen |-> Guest(i)]

Upload == /\ drv.pc = "upload" /\ card.rbcr # 0
          /\ DmaWrite(Packet[drv.txLen - card.rbcr + 1])
          /\ UNCHANGED <<rxQueue, drv, delivered>>

SendCommand == /\ drv.pc = "upload" /\ card.rbcr = 0
               /\ Transmit(TxPage, drv.txLen)
               /\ drv' = [drv EXCEPT !.pc = "sent", !.txLen = 0]
               /\ UNCHANGED <<rxQueue, delivered>>

AwaitSent == /\ drv.pc = "sent" /\ {"PTX", "TXE"} \cap card.isr # {}
             /\ WriteIsr({"PTX", "TXE", "RDC"})
             /\ Goto("idle")
             /\ UNCHANGED <<rxQueue, delivered>>

Handler == Acknowledge \/ StopCard \/ Look \/ RingEmpty \/ ReadHeader
              \/ ReadFrame \/ Release \/ HandOver

Sender == Upload \/ SendCommand \/ AwaitSent

-----------------------------------------------------------------------------
Init == /\ CardInit
        /\ rxQueue = << >>
        /\ drv \in [pc : {"setup"}, todo : Setups, behind : BOOLEAN, seen : {{}},
                    next : {DefStart}, copied : {<< >>},
                    txLen : {0}]
        /\ delivered = << >>

Next == \/ \E f \in Frame : Arrive(f)
        \/ Poll
        \/ SetUp
        \/ ResetCard
        \/ Interrupt
        \/ Handler
        \/ \E n \in TxLengths : Send(n)
        \/ Sender

(***************************************************************************)
(* The machine polls as long as the guest runs, and the driver goes on     *)
(* with what it has begun.  The interrupt needs strong fairness, for the   *)
(* driver turns interrupts off whenever it sends: the poll raises the      *)
(* level-triggered request again each time until it is taken (that it is   *)
(* taken is NicIsServed of Interrupts).                                    *)
(***************************************************************************)
Fairness == /\ WF_vars(Poll)
            /\ WF_vars(SetUp)
            /\ WF_vars(Handler)
            /\ WF_vars(Sender)
            /\ SF_vars(Interrupt)

Spec == Init /\ [][Next]_vars /\ Fairness

-----------------------------------------------------------------------------
\* The card is in use from the moment CURR is written.
ToWrite == {drv.todo[i] : i \in DOMAIN drv.todo}

Up == "CURR" \notin ToWrite

OldestRead == IF "page 0" \in ToWrite THEN FirstRead ELSE NextRead

Contents(f) == [i \in 1 .. Size(f) |-> Data(f, i)]

\* The frame the driver would read at a page.
FrameAt(page) ==
    [i \in 1 .. mem[page * PageSize].total - 1 |->
        At(IF page * PageSize + i >= MemEnd * PageSize
           THEN (page - MemEnd + DefStart) * PageSize + i ELSE page * PageSize + i)]

\* What is left to read from each page on, when rest tells it for a frame later.
Follow(rest) ==
    [page \in Page |->
        IF page = card.curr THEN << >>
        ELSE IF mem[page * PageSize].kind # "header" THEN << << >> >>
        ELSE <<FrameAt(page)>> \o rest[mem[page * PageSize].next]]

\* What is left to read, following the headers from the oldest page to CURR;
\* a chain that does not lead there ends in << >>.
Unread ==
    LET ring == MemEnd - DefStart
        from[n \in 0 .. ring] ==
            IF n = 0 THEN [page \in Page |-> IF page = card.curr THEN << >> ELSE << << >> >>]
            ELSE Follow(from[n - 1])
    IN  IF Up THEN from[ring][OldestRead] ELSE << >>

\* A started card whose driver has not written CURR receives at page 0: the
\* station address there stays what it is.
PromIntact == \A a \in 0 .. PageSize - 1 : mem[a] = Prom

\* The free space receive() computes from CURR and BNRY is what the unread
\* frames leave: no page of the ring is lost or counted twice, whichever of
\* its ends has wrapped.
NoPageLeaks ==
    LET pages[n \in 0 .. Len(Unread)] ==
            IF n = 0 THEN 0
            ELSE pages[n - 1] + (Len(Unread[n]) + PageSize) \div PageSize
    IN  Up /\ "page 0" \notin ToWrite =>
            Available = (MemEnd - DefStart) - pages[Len(Unread)]
                            - (IF drv.behind THEN 1 ELSE 0)

\* What goes to the host is what the driver uploaded, although frames were
\* received into the same memory in between.
SentIsUploaded ==
    drv.pc = "upload" /\ card.rbcr = 0 /\ Sendable(drv.txLen) =>
        Transmitted(TxPage, drv.txLen) = Packet

\* The driver reads whole frames in the order they were received, although
\* the card goes on receiving while it reads.
Channel == INSTANCE FrameChannel WITH
              Item <- {Contents(f) : f \in Frame}, up <- Up, queue <- Unread

FramesInOrder == Channel!Spec

\* A frame in the ring is read, or lost to a reset: it does not wait there
\* forever.
FramesAreRead ==
    Unread # << >> ~> (\/ drv.pc = "copy" /\ card.rbcr = 0
                       \/ Unread = << >>)
=============================================================================

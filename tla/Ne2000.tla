------------------------------- MODULE Ne2000 -------------------------------
(***************************************************************************)
(* The NE2000 card of emu88/ne2000.cc: a DP8390 whose ring of receive      *)
(* pages, remote DMA channel and transmit buffer share one memory.         *)
(*                                                                         *)
(* The guest reaches the card through its ports; receive() is called by    *)
(* the machine between guest instructions.  Addresses are those of the     *)
(* card, a page being PageSize of them; the four bytes of a frame's        *)
(* receive header take one address.  What an address holds is either part  *)
(* of a frame or something nobody should take for one.                     *)
(***************************************************************************)
EXTENDS Integers, Sequences

CONSTANTS Frame,       \* frames the network can deliver and the card's filter takes
          Long,        \* those of two addresses, the others have one
          PageSize,    \* addresses in a page (256 bytes)
          BufStart,    \* first page of buffer RAM (BUF_START, 0x40)
          DefStart,    \* ring used when PSTART is 0 (0x46)
          MemEnd,      \* first page past the memory (MEM_TOTAL, 0xC0)
          TxLimit      \* the longest frame the card sends (1600 bytes)

ASSUME CardAssumption ==
    /\ Long \subseteq Frame
    /\ PageSize \in Nat \ {0, 1}
    /\ BufStart \in Nat \ {0}
    /\ DefStart \in Nat /\ MemEnd \in Nat
    /\ BufStart < DefStart /\ DefStart + 1 < MemEnd
    /\ TxLimit \in Nat

VARIABLES card,    \* the registers
          mem      \* mem[]

Page == 0 .. MemEnd - 1
Address == 0 .. MemEnd * PageSize - 1
Ram == BufStart * PageSize .. MemEnd * PageSize - 1

Size(f) == IF f \in Long THEN 2 ELSE 1

Prom == [kind |-> "prom"]
Junk == [kind |-> "junk"]
Header(next, total) == [kind |-> "header", next |-> next, total |-> total]
Data(f, i) == [kind |-> "data", frame |-> f, i |-> i]
Guest(i) == [kind |-> "guest", i |-> i]

\* A read outside the memory returns 0xFF.
At(a) == IF a \in Address THEN mem[a] ELSE Junk

\* reset(), from the constructor, the reset port or init_machine.
Registers == [started |-> FALSE, isr |-> {"RST"}, imr |-> {},
              pstart |-> 0, pstop |-> 0, bnry |-> 0, curr |-> 0,
              rbcr |-> 0, rdar |-> 0]

CardInit == /\ card = Registers
            /\ mem = [a \in Address |-> IF a < PageSize THEN Prom ELSE Junk]

Reset == card' = Registers /\ UNCHANGED mem

\* Raising bits of the interrupt status register.
Raise(bits) == [card EXCEPT !.isr = @ \union bits]

IrqActive == card.isr \cap card.imr # {}

(***************************************************************************)
(* A write of the command register that begins no transfer: start or stop. *)
(***************************************************************************)
Command(start) ==
    /\ card' = [card EXCEPT !.started = start,
                            !.isr = IF start THEN @ \ {"RST"} ELSE @]
    /\ UNCHANGED mem

\* The other registers the ring depends on, and the interrupt registers.
Write(reg, value) == /\ card' = [card EXCEPT ![reg] = value]
                     /\ UNCHANGED mem

\* A one clears the bit.
WriteIsr(bits) == /\ card' = [card EXCEPT !.isr = @ \ bits]
                  /\ UNCHANGED mem

-----------------------------------------------------------------------------
(***************************************************************************)
(* Remote DMA: dma_read_byte and dma_write_byte step the address, which    *)
(* goes from the stop page to the start page, and count down to RDC.       *)
(***************************************************************************)
\* RSAR and RBCR are written, then a command to read or write from there.
BeginDma(a, n) ==
    /\ card' = [card EXCEPT !.rbcr = n, !.rdar = a]
    /\ UNCHANGED mem

DmaStep ==
    LET a == card.rdar + 1
        left == card.rbcr - 1
    IN  [card EXCEPT
           !.rdar = IF card.pstop # 0 /\ a = card.pstop * PageSize
                    THEN card.pstart * PageSize ELSE a,
           !.rbcr = left,
           !.isr = IF left = 0 THEN @ \union {"RDC"} ELSE @]

DmaRead == /\ card.rbcr # 0
           /\ card' = DmaStep
           /\ UNCHANGED mem

\* Bug: the first address of buffer RAM is taken for the PROM.
DmaWriteOffByOne(v) ==
    /\ card.rbcr # 0
    /\ mem' = IF card.rdar \in Ram \ {BufStart * PageSize}
              THEN [mem EXCEPT ![card.rdar] = v] ELSE mem
    /\ card' = DmaStep

DmaWrite(v) == /\ card.rbcr # 0
               /\ mem' = IF card.rdar \in Ram
                         THEN [mem EXCEPT ![card.rdar] = v] ELSE mem
               /\ card' = DmaStep

-----------------------------------------------------------------------------
Stop == IF card.pstop # 0 THEN card.pstop ELSE MemEnd
Start == IF card.pstart # 0 THEN card.pstart ELSE DefStart

\* The address i places on in a ring that wraps from Stop to Start.
RingAddress(a, i) ==
    IF a + i >= Stop * PageSize
    THEN Start * PageSize + (a + i - Stop * PageSize) ELSE a + i

(***************************************************************************)
(* do_transmit: TPSR and TBCR are written, then a command with TXP and STA *)
(* set.  The card refuses a frame of no or too many bytes, otherwise gives *)
(* the host the bytes from that page on.                                   *)
(***************************************************************************)
Sendable(length) == length # 0 /\ length <= TxLimit

Transmitted(page, length) ==
    [i \in 1 .. length |-> At(RingAddress(page * PageSize, i - 1))]

Transmit(page, length) ==
    /\ card' = [card EXCEPT
                  !.started = TRUE,
                  !.isr = (@ \ {"RST"})
                             \union (IF Sendable(length) THEN {"PTX"} ELSE {"TXE"})]
    /\ UNCHANGED mem

-----------------------------------------------------------------------------
(***************************************************************************)
(* receive().                                                              *)
(***************************************************************************)
\* Bug: the header is left out of the frame's size.
PagesNeededBare(f) == (Size(f) + PageSize - 1) \div PageSize

PagesNeeded(f) == (Size(f) + 1 + PageSize - 1) \div PageSize

\* Free pages from CURR round to BNRY, all of them when the two are equal.
Available == IF card.curr >= card.bnry
             THEN (Stop - card.curr) + (card.bnry - Start)
             ELSE card.bnry - card.curr

\* Bug: a frame may fill the ring, and CURR comes to stand on BNRY.
FitsExactly(f) == PagesNeeded(f) <= Available

Fits(f) == PagesNeeded(f) < Available

NextPage(f) ==
    LET next == card.curr + PagesNeeded(f)
    IN  IF next >= Stop THEN Start + (next - Stop) ELSE next

\* The page CURR and the addresses of f after it, header first.
Occupies(f) == {RingAddress(card.curr * PageSize, i) : i \in 0 .. Size(f)}

Image(f, a) ==
    LET i == CHOOSE i \in 0 .. Size(f) : RingAddress(card.curr * PageSize, i) = a
    IN  IF i = 0 THEN Header(NextPage(f), Size(f) + 1) ELSE Data(f, i)

\* Frames are stored by the rule of DmaWrite: nothing below buffer RAM.
Store(f) ==
    mem' = [a \in Address |-> IF a \in Occupies(f) \cap Ram
                              THEN Image(f, a) ELSE mem[a]]

\* Bug: the guest hears of a frame only when the ring was empty.
ReceiveQuietly(f) ==
    IF ~card.started THEN UNCHANGED <<card, mem>>
    ELSE IF ~Fits(f) THEN card' = Raise({"OVW"}) /\ UNCHANGED mem
    ELSE /\ Store(f)
         /\ card' = [Raise(IF card.curr = card.bnry THEN {"PRX"} ELSE {})
                       EXCEPT !.curr = NextPage(f)]

Receive(f) ==
    IF ~card.started THEN UNCHANGED <<card, mem>>
    ELSE IF ~Fits(f) THEN card' = Raise({"OVW"}) /\ UNCHANGED mem
    ELSE /\ Store(f)
         /\ card' = [Raise({"PRX"}) EXCEPT !.curr = NextPage(f)]
=============================================================================

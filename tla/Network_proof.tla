---------------------------- MODULE Network_proof ----------------------------
(***************************************************************************)
(* The card's memory and its ring, for every size of them, every driver    *)
(* and every set of frames: the station address is read-only, the bytes    *)
(* that go to the host are those the driver uploaded, receive() reckons    *)
(* with the right number of free pages, and the driver reads whole frames  *)
(* in the order they came in.                                              *)
(*                                                                         *)
(* The second rests on where the card may put what it receives: the page   *)
(* it writes next is in the ring from the driver's first step on, and the  *)
(* ring begins above the pages the driver sends from (SendInv).            *)
(*                                                                         *)
(* The last two rest on what the ring holds once the driver has written    *)
(* CURR: the unread frames lie one after the other from the page the       *)
(* driver reads next to CURR, each with its header, however the ring has   *)
(* wrapped, and the driver stands somewhere in the first (RingInv).        *)
(***************************************************************************)
EXTENDS Network, SequenceTheorems, FiniteSetTheorems, WellFoundedInduction, TLAPS

\* What the card's memory is, whatever it holds.
IsMemory == mem = [a \in Address |-> mem[a]]

PromInv == IsMemory /\ PromIntact

\* The PROM lies in the memory, below buffer RAM.
LEMMA PromBelowRam ==
    /\ 0 .. PageSize - 1 \subseteq Address
    /\ (0 .. PageSize - 1) \cap Ram = {}
<1>1. /\ PageSize \in Nat /\ PageSize >= 1
      /\ BufStart \in Nat /\ BufStart >= 1
      /\ MemEnd \in Nat /\ MemEnd > BufStart
  BY CardAssumption
<1>2. BufStart * PageSize >= PageSize
  BY <1>1
<1>3. MemEnd * PageSize >= PageSize
  BY <1>1
<1> QED
  BY <1>1, <1>2, <1>3 DEF Address, Ram

\* A write to buffer RAM leaves the PROM alone.
LEMMA RamWrite ==
    ASSUME PromInv, NEW a \in Ram, NEW v, mem' = [mem EXCEPT ![a] = v]
    PROVE  PromInv'
BY PromBelowRam DEF PromInv, IsMemory, PromIntact

LEMMA DmaWriteKeepsProm == ASSUME PromInv, NEW v, DmaWrite(v) PROVE PromInv'
<1>1. CASE card.rdar \in Ram
  BY <1>1, RamWrite DEF DmaWrite
<1>2. CASE card.rdar \notin Ram
  BY <1>2 DEF DmaWrite, PromInv, IsMemory, PromIntact
<1> QED
  BY <1>1, <1>2

LEMMA StoreKeepsProm == ASSUME PromInv, NEW f, Store(f) PROVE PromInv'
BY PromBelowRam DEF Store, PromInv, IsMemory, PromIntact

LEMMA ReceiveKeepsProm == ASSUME PromInv, NEW f, Receive(f) PROVE PromInv'
<1>1. CASE UNCHANGED mem
  BY <1>1 DEF PromInv, IsMemory, PromIntact
<1>2. CASE Store(f)
  BY <1>2, StoreKeepsProm
<1> QED
  BY <1>1, <1>2 DEF Receive

LEMMA InitProm == Init => PromInv
<1> SUFFICES ASSUME mem = [a \in Address |-> IF a < PageSize THEN Prom ELSE Junk]
             PROVE  PromInv
  BY DEF Init, CardInit
<1>1. IsMemory
  BY DEF IsMemory
<1>2. PageSize \in Nat
  BY CardAssumption
<1>3. PromIntact
  BY <1>2, PromBelowRam DEF PromIntact
<1> QED
  BY <1>1, <1>3 DEF PromInv

LEMMA NextProm == PromInv /\ [Next]_vars => PromInv'
<1> SUFFICES ASSUME PromInv, [Next]_vars PROVE PromInv'
  OBVIOUS
<1>1. CASE UNCHANGED mem
  BY <1>1 DEF PromInv, IsMemory, PromIntact
<1>2. CASE Poll
  BY <1>2, ReceiveKeepsProm DEF Poll
<1>3. CASE Upload
  BY <1>3, DmaWriteKeepsProm DEF Upload
<1>4. ASSUME NEW f \in Frame, Arrive(f) PROVE UNCHANGED mem
  BY <1>4 DEF Arrive
<1>5. CASE SetUp
  BY <1>5, <1>1 DEF SetUp, WriteFor, PageZero, Write, Command
<1>6. CASE ResetCard \/ Interrupt
  BY <1>6, <1>1 DEF ResetCard, Interrupt, Reset
<1>7. CASE Handler
  BY <1>7, <1>1 DEF Handler, Acknowledge, StopCard, Look, RingEmpty, ReadHeader,
                    ReadFrame, Release, HandOver, WriteIsr, Command, BeginDma,
                    Reset, DmaRead, Write
<1>8. ASSUME NEW n \in TxLengths, Send(n) PROVE UNCHANGED mem
  BY <1>8 DEF Send, BeginDma
<1>9. CASE SendCommand \/ AwaitSent
  BY <1>9, <1>1 DEF SendCommand, AwaitSent, Transmit, WriteIsr
<1> QED
  BY <1>1, <1>2, <1>3, <1>4, <1>5, <1>6, <1>7, <1>8, <1>9 DEF Next, Sender, vars

\* Nothing that is received, uploaded or reset changes the station address,
\* whatever order the driver sets the card up in.
THEOREM PromIsReadOnly == Spec => []PromIntact
<1>1. PromInv => PromIntact
  BY DEF PromInv
<1> QED
  BY InitProm, NextProm, <1>1, PTL DEF Spec

-----------------------------------------------------------------------------
(***************************************************************************)
(* What is sent is what was uploaded.  Frames are received into the same   *)
(* memory during the upload; they stay off the transmit buffer because     *)
(* CURR, once it is written, never leaves the ring, and the ring begins    *)
(* above the buffer.  The rest of the invariant follows the upload.        *)
(***************************************************************************)
\* What the driver still has to write while it sets the card up.
Steps == Setups \cup {<<"CURR", "STA">>, <<"STA", "CURR">>, <<"STA">>, <<"CURR">>}

Shape == /\ DOMAIN card = {"started", "isr", "imr", "pstart", "pstop", "bnry",
                           "curr", "rbcr", "rdar"}
         /\ DOMAIN drv = {"pc", "todo", "behind", "seen", "next", "copied", "txLen"}
         /\ drv.behind \in BOOLEAN
         /\ drv.pc = "setup" => drv.todo \in Steps
         /\ card.curr \in Nat
         /\ card.pstart \in {0, DefStart} /\ card.pstop \in {0, MemEnd}

Awaited(todo) == Len(todo) # 1 \/ Head(todo) = "CURR"

CurrInRing == \/ drv.pc = "setup" /\ Awaited(drv.todo)
              \/ card.curr >= DefStart

TxBase == TxPage * PageSize

Uploading ==
    drv.pc = "upload" =>
        /\ drv.txLen \in TxLengths /\ card.rbcr \in 0 .. drv.txLen
        /\ card.rdar = TxBase + (drv.txLen - card.rbcr)
        /\ \A i \in 1 .. drv.txLen - card.rbcr : mem[TxBase + i - 1] = Guest(i)

SendInv == IsMemory /\ Shape /\ CurrInRing /\ Uploading

\* A product of pages is monotonic, which is all of it that the proofs use.
LEMMA PagesGrow == ASSUME NEW p \in Nat, NEW q \in Nat, p <= q
                   PROVE  p * PageSize \in Nat /\ p * PageSize <= q * PageSize
<1>1. PageSize \in Nat /\ PageSize >= 1
  BY CardAssumption
<1>2. PICK d \in Nat : q = p + d
  BY <1>1
<1>3. q * PageSize = p * PageSize + d * PageSize
  BY <1>1, <1>2
<1>4. d * PageSize \in Nat /\ p * PageSize \in Nat
  BY <1>1
<1> QED
  BY <1>3, <1>4

\* The transmit buffer lies in buffer RAM, below the ring.
LEMMA BufferBelowRing ==
    /\ TxBase \in Nat /\ BufStart * PageSize \in Nat /\ BufStart * PageSize <= TxBase
    /\ DefStart * PageSize \in Nat /\ MemEnd * PageSize \in Nat
    /\ DefStart * PageSize < MemEnd * PageSize
    /\ \A n \in TxLengths : n \in Nat /\ TxBase + n <= DefStart * PageSize
<1>1. /\ PageSize \in Nat /\ PageSize >= 1 /\ BufStart \in Nat /\ DefStart \in Nat
      /\ MemEnd \in Nat /\ DefStart < MemEnd
  BY CardAssumption
<1>2. TxPage \in Nat /\ BufStart <= TxPage /\ TxPage <= DefStart - 1
  BY <1>1, NetworkAssumption
<1>3. TxBase \in Nat /\ BufStart * PageSize \in Nat /\ BufStart * PageSize <= TxBase
  BY <1>1, <1>2, PagesGrow DEF TxBase
<1>4. DefStart * PageSize \in Nat /\ (DefStart + 1) * PageSize <= MemEnd * PageSize
  BY <1>1, PagesGrow
<1>5. (DefStart + 1) * PageSize = DefStart * PageSize + PageSize
  BY <1>1
<1>6. MemEnd * PageSize \in Nat
  BY <1>1
<1>7. ASSUME NEW n \in TxLengths PROVE n \in Nat /\ TxBase + n <= DefStart * PageSize
  <2>1. n \in 0 .. (DefStart - TxPage) * PageSize
    BY NetworkAssumption
  <2>2. (DefStart - TxPage) * PageSize = DefStart * PageSize - TxPage * PageSize
    BY <1>1, <1>2
  <2> QED
    BY <1>3, <1>4, <2>1, <2>2 DEF TxBase
<1> QED
  BY <1>1, <1>3, <1>4, <1>5, <1>6, <1>7

\* A PSTART or PSTOP of 0 means the default, which is what the driver writes.
LEMMA WholeRing == ASSUME Shape PROVE Start = DefStart /\ Stop = MemEnd
BY DEF Shape, Start, Stop

-----------------------------------------------------------------------------
\* Receiving.
LEMMA SomePages == ASSUME NEW f PROVE PagesNeeded(f) \in Nat
<1>1. PageSize \in Nat /\ PageSize >= 1
  BY CardAssumption
<1>2. Size(f) + 1 + PageSize - 1 \in Nat
  BY <1>1 DEF Size
<1> QED
  BY <1>1, <1>2 DEF PagesNeeded

LEMMA NextInRing ==
    ASSUME SendInv, NEW f
    PROVE  /\ NextPage(f) \in Nat
           /\ card.curr >= DefStart => NextPage(f) >= DefStart
<1>1. Start = DefStart /\ Stop = MemEnd /\ card.curr \in Nat
  BY WholeRing DEF SendInv, Shape
<1>2. DefStart \in Nat /\ MemEnd \in Nat
  BY CardAssumption
<1> QED
  BY <1>1, <1>2, SomePages DEF NextPage

LEMMA StoredInRing ==
    ASSUME SendInv, card.curr >= DefStart, NEW f, NEW a \in Occupies(f)
    PROVE  a >= DefStart * PageSize
<1>1. Start = DefStart /\ Stop = MemEnd /\ card.curr \in Nat
  BY WholeRing DEF SendInv, Shape
<1>2. DefStart * PageSize \in Nat /\ MemEnd * PageSize \in Nat
  BY BufferBelowRing
<1>3. card.curr * PageSize \in Nat /\ DefStart * PageSize <= card.curr * PageSize
  BY <1>1, CardAssumption, PagesGrow
<1>4. PICK i \in 0 .. Size(f) : a = RingAddress(card.curr * PageSize, i)
  BY DEF Occupies
<1>5. i \in Nat
  BY <1>4 DEF Size
<1>6. a = IF card.curr * PageSize + i >= MemEnd * PageSize
          THEN DefStart * PageSize + (card.curr * PageSize + i - MemEnd * PageSize)
          ELSE card.curr * PageSize + i
  BY <1>1, <1>4 DEF RingAddress
<1> QED
  BY <1>2, <1>3, <1>5, <1>6

LEMMA BufferKept ==
    ASSUME SendInv, card.curr >= DefStart, NEW f, Store(f), NEW n \in TxLengths,
           NEW i \in 1 .. n
    PROVE  mem'[TxBase + i - 1] = mem[TxBase + i - 1]
<1>1. TxBase + i - 1 \in Address
  BY BufferBelowRing DEF Address
<1>2. TxBase + i - 1 \notin Occupies(f)
  BY StoredInRing, BufferBelowRing
<1> QED
  BY <1>1, <1>2 DEF Store

LEMMA ReceiveKeepsSend == ASSUME SendInv, Poll PROVE SendInv'
<1> DEFINE f == Head(rxQueue)
<1>1. UNCHANGED drv /\ Receive(f)
  BY DEF Poll
<1>2. CASE UNCHANGED <<card, mem>>
  BY <1>1, <1>2 DEF SendInv, IsMemory, Shape, CurrInRing, Uploading
<1>3. CASE card' = Raise({"OVW"}) /\ UNCHANGED mem
  BY <1>1, <1>3 DEF Raise, SendInv, IsMemory, Shape, CurrInRing, Uploading
<1>4. CASE Store(f) /\ card' = [Raise({"PRX"}) EXCEPT !.curr = NextPage(f)]
  <2>1. /\ DOMAIN card' = DOMAIN card /\ card'.curr = NextPage(f)
        /\ card'.pstart = card.pstart /\ card'.pstop = card.pstop
        /\ card'.rbcr = card.rbcr /\ card'.rdar = card.rdar
    BY <1>4 DEF Raise, SendInv, Shape
  <2>2. IsMemory'
    BY <1>4 DEF Store, IsMemory
  <2>3. Shape' /\ CurrInRing'
    BY <1>1, <2>1, NextInRing DEF SendInv, Shape, CurrInRing
  <2>4. ASSUME drv.pc = "upload"
        PROVE  \A i \in 1 .. drv.txLen - card.rbcr : mem'[TxBase + i - 1] = mem[TxBase + i - 1]
    <3>1. card.curr >= DefStart /\ drv.txLen \in TxLengths /\ card.rbcr \in 0 .. drv.txLen
      BY <2>4 DEF SendInv, CurrInRing, Uploading
    <3>2. \A i \in 1 .. drv.txLen - card.rbcr : i \in 1 .. drv.txLen
      BY <3>1, BufferBelowRing
    <3> QED
      BY <1>4, <3>1, <3>2, BufferKept
  <2>5. Uploading'
    BY <1>1, <2>1, <2>4 DEF SendInv, Uploading
  <2> QED
    BY <2>2, <2>3, <2>5 DEF SendInv
<1> QED
  BY <1>1, <1>2, <1>3, <1>4 DEF Receive

-----------------------------------------------------------------------------
\* Uploading.
LEMMA UploadKeepsSend == ASSUME SendInv, Upload PROVE SendInv'
<1> DEFINE sent == drv.txLen - card.rbcr
           v == Packet[sent + 1]
<1>1. /\ drv.pc = "upload" /\ card.rbcr # 0 /\ UNCHANGED drv
      /\ card' = DmaStep
      /\ mem' = IF card.rdar \in Ram THEN [mem EXCEPT ![card.rdar] = v] ELSE mem
  BY DEF Upload, DmaWrite
<1>2. /\ drv.txLen \in TxLengths /\ card.rbcr \in 0 .. drv.txLen
      /\ card.rdar = TxBase + sent
      /\ \A i \in 1 .. sent : mem[TxBase + i - 1] = Guest(i)
  BY <1>1 DEF SendInv, Uploading
<1>3. drv.txLen \in Nat /\ TxBase + drv.txLen <= DefStart * PageSize
  BY <1>2, BufferBelowRing
<1>4. sent \in Nat /\ sent + 1 \in 1 .. drv.txLen
  BY <1>1, <1>2, <1>3
<1>5. v = Guest(sent + 1)
  BY <1>4 DEF Packet
<1>6. card.rdar \in Ram /\ card.rdar \in Address /\ card.rdar + 1 # MemEnd * PageSize
  BY <1>2, <1>3, <1>4, BufferBelowRing DEF Ram, Address
<1>7. /\ DOMAIN card' = DOMAIN card /\ card'.curr = card.curr
      /\ card'.pstart = card.pstart /\ card'.pstop = card.pstop
      /\ card'.rbcr = card.rbcr - 1
  BY <1>1 DEF DmaStep, SendInv, Shape
<1>8. card'.rdar = card.rdar + 1
  <2>1. card.pstop = 0 \/ card.pstop = MemEnd
    BY DEF SendInv, Shape
  <2> QED
    BY <1>1, <1>6, <2>1 DEF DmaStep, SendInv, Shape
<1>9. Shape' /\ CurrInRing'
  BY <1>1, <1>7 DEF SendInv, Shape, CurrInRing
<1>10. mem' = [mem EXCEPT ![TxBase + sent] = Guest(sent + 1)]
  BY <1>1, <1>2, <1>5, <1>6
<1>11. IsMemory'
  BY <1>10 DEF SendInv, IsMemory
<1>12. \A i \in 1 .. sent + 1 : mem'[TxBase + i - 1] = Guest(i)
  <2>1. mem'[TxBase + sent] = Guest(sent + 1)
    BY <1>2, <1>6, <1>10 DEF SendInv, IsMemory
  <2>2. ASSUME NEW i \in 1 .. sent PROVE mem'[TxBase + i - 1] = Guest(i)
    <3>1. TxBase + i - 1 # TxBase + sent
      BY <1>4, BufferBelowRing
    <3>2. TxBase + i - 1 \in Address
      BY <1>3, <1>4, BufferBelowRing DEF Address
    <3> QED
      BY <1>2, <1>10, <3>1, <3>2 DEF SendInv, IsMemory
  <2>3. \A i \in 1 .. sent + 1 : i \in 1 .. sent \/ i = sent + 1
    BY <1>4
  <2>4. TxBase + (sent + 1) - 1 = TxBase + sent
    BY <1>4, BufferBelowRing
  <2> QED
    BY <2>1, <2>2, <2>3, <2>4
<1>13. drv'.txLen - card'.rbcr = sent + 1
  BY <1>1, <1>2, <1>3, <1>7
<1>14. Uploading'
  BY <1>1, <1>2, <1>3, <1>4, <1>7, <1>8, <1>12, <1>13, BufferBelowRing DEF Uploading
<1> QED
  BY <1>9, <1>11, <1>14 DEF SendInv

-----------------------------------------------------------------------------
\* The rest: memory stays, and an upload begins only with an empty buffer.
LEMMA TailOfThree == ASSUME NEW a, NEW b, NEW c PROVE Tail(<<a, b, c>>) = <<b, c>>
<1> DEFINE S == {a, b, c}
           s == <<a, b, c>>
           t == <<b, c>>
<1>1. s \in Seq(S) /\ Len(s) = 3 /\ s # << >> /\ t \in Seq(S) /\ Len(t) = 2
  OBVIOUS
<1>2. Tail(s) \in Seq(S) /\ Len(Tail(s)) = 2 /\ \A i \in 1 .. 2 : Tail(s)[i] = s[i + 1]
  BY <1>1
<1>3. t[1] = s[2] /\ t[2] = s[3]
  OBVIOUS
<1>4. \A i \in 1 .. 2 : Tail(s)[i] = t[i]
  BY <1>2, <1>3
<1> HIDE DEF s, t
<1>5. Tail(s) = t
  BY <1>1, <1>2, <1>4, SeqEqual
<1> QED
  BY <1>5 DEF s, t

LEMMA Heads ==
    /\ Head(<<"page 0", "CURR", "STA">>) = "page 0" /\ Head(<<"page 0", "STA", "CURR">>) = "page 0"
    /\ Head(<<"CURR", "STA">>) = "CURR" /\ Head(<<"STA", "CURR">>) = "STA"
    /\ Head(<<"STA">>) = "STA" /\ Head(<<"CURR">>) = "CURR"
OBVIOUS

LEMMA Lengths ==
    /\ Len(<<"page 0", "CURR", "STA">>) = 3 /\ Len(<<"page 0", "STA", "CURR">>) = 3
    /\ Len(<<"CURR", "STA">>) = 2 /\ Len(<<"STA", "CURR">>) = 2
    /\ Len(<<"STA">>) = 1 /\ Len(<<"CURR">>) = 1
OBVIOUS

LEMMA Tails ==
    /\ Tail(<<"page 0", "CURR", "STA">>) = <<"CURR", "STA">>
    /\ Tail(<<"page 0", "STA", "CURR">>) = <<"STA", "CURR">>
    /\ Tail(<<"CURR", "STA">>) = <<"STA">> /\ Tail(<<"STA", "CURR">>) = <<"CURR">>
<1>1. /\ Tail(<<"page 0", "CURR", "STA">>) = <<"CURR", "STA">>
      /\ Tail(<<"page 0", "STA", "CURR">>) = <<"STA", "CURR">>
  BY TailOfThree, Zenon
<1>2. Tail(<<"CURR", "STA">>) = <<"STA">> /\ Tail(<<"STA", "CURR">>) = <<"CURR">>
  OBVIOUS
<1> QED
  BY <1>1, <1>2, Zenon

LEMMA Apart == "page 0" # "CURR" /\ "STA" # "CURR" /\ 3 # 1 /\ 2 # 1
OBVIOUS

LEMMA StepsSmaller ==
    ASSUME NEW todo \in Steps
    PROVE  /\ Len(todo) # 1 => Tail(todo) \in Steps
           /\ Awaited(todo) /\ Head(todo) # "CURR" => Len(todo) # 1 /\ Awaited(Tail(todo))
<1> USE Heads, Lengths, Tails, Apart DEF Steps, Setups, Awaited
<1>1. CASE todo = <<"page 0", "CURR", "STA">>
  BY <1>1, Zenon
<1>2. CASE todo = <<"page 0", "STA", "CURR">>
  BY <1>2, Zenon
<1>3. CASE todo = <<"CURR", "STA">>
  BY <1>3, Zenon
<1>4. CASE todo = <<"STA", "CURR">>
  BY <1>4, Zenon
<1>5. CASE todo = <<"STA">>
  BY <1>5, Zenon
<1>6. CASE todo = <<"CURR">>
  BY <1>6, Zenon
<1> QED
  BY <1>1, <1>2, <1>3, <1>4, <1>5, <1>6, Zenon

LEMMA SetupsBegin == ASSUME NEW todo \in Setups PROVE todo \in Steps /\ Awaited(todo)
BY Lengths, Apart, Zenon DEF Steps, Setups, Awaited

\* Nothing but the driver's own page 0 and CURR moves the ring.
KeepsRing == card'.pstart = card.pstart /\ card'.pstop = card.pstop
                /\ card'.curr = card.curr

LEMMA RingUntouched ==
    ASSUME SendInv, UNCHANGED mem, DOMAIN card' = DOMAIN card, KeepsRing,
           DOMAIN drv' = DOMAIN drv, drv'.behind = drv.behind,
           drv.pc # "setup", drv'.pc \notin {"setup", "upload"}
    PROVE  SendInv'
BY DEF SendInv, IsMemory, Shape, CurrInRing, Uploading, KeepsRing

LEMMA ResetKeepsSend ==
    ASSUME SendInv, Reset, StartOver PROVE SendInv'
<1>1. PICK setup \in Setups : drv' = [drv EXCEPT !.pc = "setup", !.todo = setup]
  BY DEF StartOver
<1>2. /\ DOMAIN drv' = DOMAIN drv /\ drv'.pc = "setup" /\ drv'.todo = setup
      /\ drv'.behind = drv.behind
  BY <1>1 DEF SendInv, Shape
<1>3. setup \in Steps /\ Awaited(setup)
  BY SetupsBegin
<1> QED
  BY <1>2, <1>3 DEF Reset, Registers, SendInv, IsMemory, Shape, CurrInRing, Uploading

LEMMA SetUpKeepsSend == ASSUME SendInv, SetUp PROVE SendInv'
<1> DEFINE step == Head(drv.todo)
<1>1. /\ drv.pc = "setup" /\ drv.todo \in Steps /\ WriteFor(step)
      /\ drv' = [drv EXCEPT !.todo = Tail(@),
                            !.pc = IF Len(drv.todo) = 1 THEN "idle" ELSE "setup"]
  BY DEF SetUp, SendInv, Shape
<1>2. /\ DOMAIN drv' = DOMAIN drv /\ drv'.behind = drv.behind
      /\ drv'.todo = Tail(drv.todo)
      /\ drv'.pc = IF Len(drv.todo) = 1 THEN "idle" ELSE "setup"
  BY <1>1 DEF SendInv, Shape
<1>3. FirstRead \in Nat /\ FirstRead >= DefStart
  BY CardAssumption DEF FirstRead, After
<1>4. /\ UNCHANGED mem /\ DOMAIN card' = DOMAIN card
      /\ card'.pstart \in {0, DefStart} /\ card'.pstop \in {0, MemEnd}
      /\ card'.curr = IF step = "CURR" THEN FirstRead ELSE card.curr
  <2>1. CASE step = "page 0" /\ PageZero
    BY <2>1 DEF PageZero, SendInv, Shape
  <2>2. CASE step = "CURR" /\ Write("curr", FirstRead)
    BY <2>2 DEF Write, SendInv, Shape
  <2>3. CASE step = "STA" /\ Command(TRUE)
    BY <2>3 DEF Command, SendInv, Shape
  <2> QED
    BY <1>1, <2>1, <2>2, <2>3 DEF WriteFor
<1>5. Shape'
  BY <1>1, <1>2, <1>3, <1>4, StepsSmaller DEF SendInv, Shape
<1>6. CurrInRing'
  <2>1. CASE step = "CURR"
    BY <1>3, <1>4, <2>1 DEF CurrInRing
  <2>2. CASE step # "CURR" /\ ~ Awaited(drv.todo)
    BY <1>1, <1>4, <2>2 DEF SendInv, CurrInRing
  <2>3. CASE step # "CURR" /\ Awaited(drv.todo)
    <3>1. Len(drv.todo) # 1 /\ Awaited(Tail(drv.todo))
      BY <1>1, <2>3, StepsSmaller
    <3> QED
      BY <1>2, <3>1 DEF CurrInRing
  <2> QED
    BY <2>1, <2>2, <2>3
<1> QED
  BY <1>2, <1>4, <1>5, <1>6 DEF SendInv, IsMemory, Uploading

LEMMA SendKeepsSend == ASSUME SendInv, NEW n \in TxLengths, Send(n) PROVE SendInv'
<1>1. /\ drv.pc = "idle" /\ UNCHANGED mem
      /\ card' = [card EXCEPT !.rbcr = n, !.rdar = TxBase]
      /\ drv' = [drv EXCEPT !.pc = "upload", !.txLen = n]
  BY DEF Send, BeginDma, TxBase
<1>2. /\ DOMAIN card' = DOMAIN card /\ KeepsRing
      /\ card'.rbcr = n /\ card'.rdar = TxBase
      /\ DOMAIN drv' = DOMAIN drv /\ drv'.behind = drv.behind
      /\ drv'.pc = "upload" /\ drv'.txLen = n
  BY <1>1 DEF KeepsRing, SendInv, Shape
<1>3. n \in Nat /\ TxBase \in Nat
  BY BufferBelowRing
<1>4. Uploading'
  <2>1. n - n = 0 /\ TxBase + 0 = TxBase /\ 1 .. 0 = {} /\ n \in 0 .. n
    BY <1>3
  <2> QED
    BY <1>2, <2>1 DEF Uploading
<1> QED
  BY <1>1, <1>2, <1>4 DEF SendInv, IsMemory, Shape, CurrInRing, KeepsRing

LEMMA HandlerKeepsSend == ASSUME SendInv, Handler PROVE SendInv'
<1> USE DEF KeepsRing
<1>1. CASE Acknowledge
  BY <1>1, RingUntouched DEF Acknowledge, WriteIsr, SendInv, Shape
<1>2. CASE StopCard
  BY <1>2, RingUntouched DEF StopCard, Command, Goto, SendInv, Shape
<1>3. CASE Look
  BY <1>3, RingUntouched DEF Look, BeginDma, Goto, SendInv, Shape
<1>4. CASE RingEmpty
  BY <1>4, RingUntouched DEF RingEmpty, Command, Goto, SendInv, Shape
<1>5. CASE ReadHeader
  <2>1. CASE Reset /\ StartOver
    BY <2>1, ResetKeepsSend
  <2>2. CASE /\ card' = [DmaStep EXCEPT !.rdar = NextRead * PageSize + 1,
                                        !.rbcr = At(card.rdar).total - 1]
             /\ drv' = [drv EXCEPT !.pc = "copy", !.next = At(card.rdar).next]
             /\ UNCHANGED mem
    BY <1>5, <2>2, RingUntouched DEF ReadHeader, DmaStep, SendInv, Shape
  <2> QED
    BY <1>5, <2>1, <2>2 DEF ReadHeader
<1>6. CASE ReadFrame
  BY <1>6, RingUntouched DEF ReadFrame, DmaRead, DmaStep, SendInv, Shape
<1>7. CASE Release
  BY <1>7, RingUntouched DEF Release, Write, SendInv, Shape
<1>8. CASE HandOver
  BY <1>8, RingUntouched DEF HandOver, Goto, SendInv, Shape
<1> QED
  BY <1>1, <1>2, <1>3, <1>4, <1>5, <1>6, <1>7, <1>8 DEF Handler

-----------------------------------------------------------------------------
LEMMA InitSend == Init => SendInv
<1> SUFFICES ASSUME Init PROVE SendInv
  OBVIOUS
<1>1. IsMemory
  BY DEF Init, CardInit, IsMemory
<1>2. drv.pc = "setup" /\ drv.todo \in Steps /\ Awaited(drv.todo)
  BY SetupsBegin DEF Init
<1>3. Shape
  BY <1>2 DEF Init, CardInit, Registers, Shape
<1> QED
  BY <1>1, <1>2, <1>3 DEF SendInv, CurrInRing, Uploading

LEMMA NextSend == SendInv /\ [Next]_vars => SendInv'
<1> SUFFICES ASSUME SendInv, [Next]_vars PROVE SendInv'
  OBVIOUS
<1> USE DEF KeepsRing
<1>1. CASE UNCHANGED <<card, mem, drv>>
  BY <1>1 DEF SendInv, IsMemory, Shape, CurrInRing, Uploading
<1>2. ASSUME NEW f \in Frame, Arrive(f) PROVE SendInv'
  BY <1>1, <1>2 DEF Arrive
<1>3. CASE Poll
  BY <1>3, ReceiveKeepsSend
<1>4. CASE SetUp
  BY <1>4, SetUpKeepsSend
<1>5. CASE ResetCard
  BY <1>5, ResetKeepsSend DEF ResetCard
<1>6. CASE Interrupt
  BY <1>6, RingUntouched DEF Interrupt, SendInv, Shape
<1>7. CASE Handler
  BY <1>7, HandlerKeepsSend
<1>8. ASSUME NEW n \in TxLengths, Send(n) PROVE SendInv'
  BY <1>8, SendKeepsSend
<1>9. CASE Upload
  BY <1>9, UploadKeepsSend
<1>10. CASE SendCommand
  BY <1>10, RingUntouched DEF SendCommand, Transmit, SendInv, Shape
<1>11. CASE AwaitSent
  BY <1>11, RingUntouched DEF AwaitSent, WriteIsr, Goto, SendInv, Shape
<1>12. CASE UNCHANGED vars
  BY <1>1, <1>12 DEF vars
<1> QED
  BY <1>2, <1>3, <1>4, <1>5, <1>6, <1>7, <1>8, <1>9, <1>10, <1>11, <1>12 DEF Next, Sender

\* The bytes do_transmit() takes from the card's memory are the packet.
LEMMA WholePacket == SendInv => SentIsUploaded
<1> SUFFICES ASSUME SendInv, drv.pc = "upload", card.rbcr = 0
             PROVE  Transmitted(TxPage, drv.txLen) = Packet
  BY DEF SentIsUploaded
<1>1. /\ drv.txLen \in TxLengths
      /\ \A i \in 1 .. drv.txLen - 0 : mem[TxBase + i - 1] = Guest(i)
  BY DEF SendInv, Uploading
<1>2. drv.txLen \in Nat /\ TxBase + drv.txLen <= DefStart * PageSize
  BY <1>1, BufferBelowRing
<1>3. Stop * PageSize = MemEnd * PageSize
  BY WholeRing DEF SendInv
<1>4. ASSUME NEW i \in 1 .. drv.txLen
      PROVE  At(RingAddress(TxBase, i - 1)) = Guest(i)
  <2>1. /\ TxBase + (i - 1) = TxBase + i - 1 /\ TxBase + i - 1 \in Address
        /\ ~ (TxBase + (i - 1) >= MemEnd * PageSize)
    BY <1>2, BufferBelowRing DEF Address
  <2>2. RingAddress(TxBase, i - 1) = TxBase + i - 1
    BY <1>3, <2>1 DEF RingAddress
  <2>3. mem[TxBase + i - 1] = Guest(i)
    BY <1>1, <1>2
  <2> QED
    BY <2>1, <2>2, <2>3 DEF At
<1> QED
  BY <1>4 DEF Transmitted, Packet, TxBase

\* What goes to the host is what the driver uploaded, although frames were
\* received into the same memory during the upload, for every memory, ring,
\* driver and set of frames.
THEOREM UploadIsWhatIsSent == Spec => []SentIsUploaded
BY InitSend, NextSend, WholePacket, PTL DEF Spec

-----------------------------------------------------------------------------
(***************************************************************************)
(* The ring.  Places in it are counted in pages from the oldest unread     *)
(* frame, so that where the ring wraps matters only in the lemmas about    *)
(* PageAt and Around: two places less than the ring apart are different    *)
(* pages, and their addresses are different addresses.                     *)
(***************************************************************************)
N == MemEnd - DefStart
Held == IF drv.behind THEN 1 ELSE 0
RingPage == DefStart .. MemEnd - 1

PageAt(base, o) == IF base + o >= MemEnd THEN base + o - N ELSE base + o

\* RingAddress in a ring that has its full size.
Around(a, i) == IF a + i >= MemEnd * PageSize
                THEN DefStart * PageSize + (a + i - MemEnd * PageSize) ELSE a + i

\* The address that lies x addresses after the beginning of a page.
AddrAt(base, x) == IF base * PageSize + x >= MemEnd * PageSize
                   THEN base * PageSize + x - N * PageSize ELSE base * PageSize + x

LEMMA Sizes ==
    /\ PageSize \in Nat /\ PageSize >= 2
    /\ DefStart \in Nat /\ MemEnd \in Nat /\ N \in Nat /\ N >= 2 /\ MemEnd = DefStart + N
BY CardAssumption DEF N

LEMMA Distributes ==
    ASSUME NEW p \in Int, NEW q \in Int
    PROVE  /\ p * PageSize \in Int /\ q * PageSize \in Int
           /\ (p + q) * PageSize = p * PageSize + q * PageSize
           /\ (p - q) * PageSize = p * PageSize - q * PageSize
BY Sizes

LEMMA PageBound ==
    ASSUME NEW p \in Int, NEW q \in Int, p < q
    PROVE  p * PageSize + PageSize <= q * PageSize
<1>1. PICK d \in Nat : q = p + 1 + d
  <2>1. q - p - 1 \in Nat /\ q = p + 1 + (q - p - 1)
    OBVIOUS
  <2> QED
    BY <2>1
<1>2. q * PageSize = p * PageSize + 1 * PageSize + d * PageSize
  BY <1>1, Sizes
<1>3. d * PageSize \in Nat /\ 1 * PageSize = PageSize
  BY Sizes
<1> QED
  BY <1>2, <1>3, Sizes, Distributes

\* The products the addresses of the ring are made of, as plain numbers.
LEMMA RingProducts ==
    /\ DefStart * PageSize \in Nat /\ N * PageSize \in Nat
    /\ MemEnd * PageSize = DefStart * PageSize + N * PageSize
    /\ N * PageSize > 0
<1>1. MemEnd * PageSize = DefStart * PageSize + N * PageSize
  BY Sizes, Distributes
<1>2. DefStart * PageSize \in Nat /\ N * PageSize \in Nat
  BY Sizes
<1>3. 0 * PageSize + PageSize <= N * PageSize /\ 0 * PageSize = 0
  BY Sizes, PageBound
<1> QED
  BY <1>1, <1>2, <1>3, Sizes

LEMMA PageProducts ==
    ASSUME NEW p \in RingPage
    PROVE  /\ p \in Nat /\ p * PageSize \in Nat
           /\ DefStart * PageSize <= p * PageSize
           /\ p * PageSize + PageSize <= MemEnd * PageSize
<1>1. p \in Nat /\ DefStart <= p /\ p < MemEnd
  BY Sizes DEF RingPage
<1> QED
  BY <1>1, Sizes, PageBound, PagesGrow

LEMMA PageAtInRing ==
    ASSUME NEW base \in RingPage, NEW o \in Nat, o < N
    PROVE  PageAt(base, o) \in RingPage
BY Sizes DEF PageAt, RingPage

LEMMA PageAtTwice ==
    ASSUME NEW base \in RingPage, NEW o \in Nat, NEW q \in Nat, o + q < N
    PROVE  PageAt(PageAt(base, o), q) = PageAt(base, o + q)
BY Sizes DEF PageAt, RingPage

LEMMA PagesDiffer ==
    ASSUME NEW base \in RingPage, NEW o \in Nat, NEW q \in Nat, o < N, q < N,
           PageAt(base, o) = PageAt(base, q)
    PROVE  o = q
BY Sizes DEF PageAt, RingPage

LEMMA OffsetAddress ==
    ASSUME NEW base \in RingPage, NEW o \in Nat, NEW i \in Nat, o < N,
           o * PageSize + i < N * PageSize
    PROVE  Around(PageAt(base, o) * PageSize, i) = AddrAt(base, o * PageSize + i)
<1>0. base \in Int /\ N \in Int /\ base * PageSize \in Nat /\ o * PageSize \in Nat
  BY Sizes, PageProducts
<1>1. base * PageSize + PageSize <= MemEnd * PageSize
  BY PageProducts
<1>2. CASE base + o >= MemEnd
  <2>1. PageAt(base, o) * PageSize = base * PageSize + o * PageSize - N * PageSize
    BY <1>0, <1>2, Distributes DEF PageAt
  <2>2. MemEnd * PageSize <= base * PageSize + o * PageSize
    BY <1>0, <1>2, Sizes, PagesGrow, Distributes
  <2> QED
    BY <1>0, <1>1, <2>1, <2>2, RingProducts, Sizes DEF Around, AddrAt
<1>3. CASE ~ (base + o >= MemEnd)
  <2>1. PageAt(base, o) * PageSize = base * PageSize + o * PageSize
    BY <1>0, <1>3, Distributes DEF PageAt
  <2> QED
    BY <1>0, <2>1, RingProducts DEF Around, AddrAt
<1> QED
  BY <1>2, <1>3

LEMMA AddrInRing ==
    ASSUME NEW base \in RingPage, NEW x \in Nat, x < N * PageSize
    PROVE  /\ AddrAt(base, x) \in Ram /\ AddrAt(base, x) \in Address
           /\ AddrAt(base, x) >= DefStart * PageSize
<1>1. /\ base * PageSize \in Nat /\ DefStart * PageSize <= base * PageSize
      /\ base * PageSize + PageSize <= MemEnd * PageSize
  BY PageProducts
<1>2. BufStart * PageSize \in Nat /\ BufStart * PageSize <= DefStart * PageSize
  BY CardAssumption, PagesGrow
<1> QED
  BY <1>1, <1>2, RingProducts, Sizes DEF AddrAt, Ram, Address

LEMMA AddressesDiffer ==
    ASSUME NEW base \in RingPage, NEW x \in Nat, NEW y \in Nat, x < N * PageSize, y < N * PageSize,
           AddrAt(base, x) = AddrAt(base, y)
    PROVE  x = y
<1>1. base * PageSize \in Nat
  BY PageProducts
<1> QED
  BY <1>1, RingProducts DEF AddrAt

LEMMA OneWhole ==
    ASSUME NEW p \in Nat, NEW s \in Nat, s < p
    PROVE  (s + p) \div p = 1
<1> DEFINE q == (s + p) \div p
           r == (s + p) % p
<1>1. q \in Int /\ r \in 0 .. p - 1 /\ s + p = p * q + r
  OBVIOUS
<1> HIDE DEF q, r
<1>2. CASE q <= 0
  <2>1. p * q <= 0
    BY <1>2, <1>1
  <2> QED
    BY <1>1, <2>1
<1>3. CASE q >= 2
  <2>1. p * q >= p + p
    BY <1>3, <1>1
  <2> QED
    BY <1>1, <2>1
<1>4. q = 1
  BY <1>1, <1>2, <1>3
<1> QED
  BY <1>4 DEF q

\* A frame and its header fit the pages taken for them.
LEMMA FrameFits ==
    ASSUME NEW f
    PROVE  /\ Size(f) \in Nat /\ Size(f) >= 1 /\ Size(f) <= PageSize
           /\ PagesNeeded(f) \in Nat /\ PagesNeeded(f) >= 1
           /\ PagesNeeded(f) * PageSize \in Nat /\ Size(f) < PagesNeeded(f) * PageSize
           /\ PagesNeeded(f) = (Size(f) + PageSize) \div PageSize
<1>1. Size(f) \in {1, 2}
  BY DEF Size
<1>2. Size(f) + 1 + PageSize - 1 = Size(f) + PageSize
  BY <1>1, Sizes
<1>3. CASE Size(f) = 2 /\ PageSize = 2
  <2>1. (2 + 2) \div 2 = 2
    OBVIOUS
  <2> QED
    BY <1>2, <1>3, <2>1 DEF PagesNeeded
<1>4. CASE Size(f) < PageSize
  <2>1. (Size(f) + PageSize) \div PageSize = 1
    BY <1>1, <1>4, Sizes, OneWhole
  <2>2. 1 * PageSize = PageSize
    BY Sizes
  <2>3. PagesNeeded(f) = 1
    BY <1>2, <2>1 DEF PagesNeeded
  <2> QED
    BY <1>1, <1>4, <2>1, <2>2, <2>3, Sizes
<1> QED
  BY <1>1, <1>3, <1>4, Sizes

-----------------------------------------------------------------------------
\* Unread frames fs, of which the j-th begins at[j] pages after the oldest.
Placed(fs, at) ==
    /\ fs \in Seq(Frame) /\ at \in [1 .. Len(fs) + 1 -> Nat] /\ at[1] = 0
    /\ \A j \in 1 .. Len(fs) : at[j + 1] = at[j] + PagesNeeded(fs[j])
    /\ \A i, j \in 1 .. Len(fs) + 1 : i < j => at[i] < at[j]
    /\ at[Len(fs) + 1] + Held < N

\* The memory holds f, o pages after base.
HoldsAt(base, o, f, i) ==
    mem[Around(PageAt(base, o) * PageSize, i)] =
        IF i = 0 THEN Header(PageAt(base, o + PagesNeeded(f)), Size(f) + 1) ELSE Data(f, i)
Whole(base, o, f) == \A i \in 0 .. Size(f) : HoldsAt(base, o, f, i)

Chain(fs, at) ==
    /\ Placed(fs, at)
    /\ card.curr = PageAt(NextRead, at[Len(fs) + 1])
    /\ \A j \in 1 .. Len(fs) : Whole(NextRead, at[j], fs[j])

\* Bounds of the place of a frame.
LEMMA PlacedBounds ==
    ASSUME NEW fs, NEW at, Placed(fs, at), NEW j \in 1 .. Len(fs)
    PROVE  /\ fs[j] \in Frame /\ at[j] \in Nat /\ at[j + 1] \in Nat /\ at[Len(fs) + 1] \in Nat
           /\ at[j + 1] = at[j] + PagesNeeded(fs[j])
           /\ at[j + 1] <= at[Len(fs) + 1] /\ at[j] < at[Len(fs) + 1]
           /\ at[Len(fs) + 1] < N /\ at[j] < N
<1>1. j \in 1 .. Len(fs) + 1 /\ j + 1 \in 1 .. Len(fs) + 1 /\ Len(fs) + 1 \in 1 .. Len(fs) + 1
      /\ j < Len(fs) + 1 /\ (j + 1 = Len(fs) + 1 \/ j + 1 < Len(fs) + 1)
  BY DEF Placed
<1>2. at[j] \in Nat /\ at[j + 1] \in Nat /\ at[Len(fs) + 1] \in Nat
  BY <1>1 DEF Placed
<1>3. at[j] < at[Len(fs) + 1] /\ at[j + 1] <= at[Len(fs) + 1]
  BY <1>1, <1>2 DEF Placed
<1>4. at[Len(fs) + 1] < N
  BY <1>2, Sizes DEF Placed, Held
<1> QED
  BY <1>2, <1>3, <1>4, Sizes DEF Placed

\* The i-th address of a frame, counted from the oldest page.
LEMMA FrameAddress ==
    ASSUME NEW base \in RingPage, NEW o \in Nat, NEW f, o + PagesNeeded(f) <= N,
           NEW i \in 0 .. Size(f)
    PROVE  /\ Around(PageAt(base, o) * PageSize, i) = AddrAt(base, o * PageSize + i)
           /\ o * PageSize + i \in Nat
           /\ o * PageSize + i < (o + PagesNeeded(f)) * PageSize
           /\ o * PageSize + i < N * PageSize
           /\ Around(PageAt(base, o) * PageSize, i) \in Ram \cap Address
           /\ Around(PageAt(base, o) * PageSize, i) >= DefStart * PageSize
<1> DEFINE n == PagesNeeded(f)
<1>1. n \in Nat /\ n >= 1 /\ i \in Nat /\ i < n * PageSize
  BY FrameFits
<1> HIDE DEF n
<1>2. (o + n) * PageSize = o * PageSize + n * PageSize /\ o * PageSize \in Nat
      /\ n * PageSize \in Nat
  BY <1>1, Distributes, Sizes
<1>3. (o + n) * PageSize <= N * PageSize
  BY <1>1, Sizes, PagesGrow DEF n
<1>4. o * PageSize + i \in Nat /\ o * PageSize + i < (o + n) * PageSize
      /\ o * PageSize + i < N * PageSize
  BY <1>1, <1>2, <1>3, RingProducts
<1>5. o < N
  BY <1>1, Sizes DEF n
<1>6. Around(PageAt(base, o) * PageSize, i) = AddrAt(base, o * PageSize + i)
  BY <1>1, <1>4, <1>5, OffsetAddress
<1> QED
  BY <1>4, <1>6, AddrInRing DEF n

\* Frames that share no page share no address.
LEMMA FramesApart ==
    ASSUME NEW base \in RingPage, NEW o \in Nat, NEW f, NEW q \in Nat, NEW g,
           o + PagesNeeded(f) <= q, q + PagesNeeded(g) <= N,
           NEW i \in 0 .. Size(f), NEW j \in 0 .. Size(g)
    PROVE  Around(PageAt(base, o) * PageSize, i) # Around(PageAt(base, q) * PageSize, j)
<1>1. PagesNeeded(f) \in Nat /\ PagesNeeded(g) \in Nat /\ o + PagesNeeded(f) \in Nat
  BY FrameFits
<1>2. (o + PagesNeeded(f)) * PageSize <= q * PageSize /\ q * PageSize \in Nat
      /\ (o + PagesNeeded(f)) * PageSize \in Nat
  BY <1>1, PagesGrow
<1>3. o + PagesNeeded(f) <= N
  BY <1>1, Sizes
<1>4. /\ Around(PageAt(base, o) * PageSize, i) = AddrAt(base, o * PageSize + i)
      /\ o * PageSize + i \in Nat
      /\ o * PageSize + i < (o + PagesNeeded(f)) * PageSize
      /\ o * PageSize + i < N * PageSize
  BY <1>3, FrameAddress
<1>5. /\ Around(PageAt(base, q) * PageSize, j) = AddrAt(base, q * PageSize + j)
      /\ q * PageSize + j \in Nat
      /\ q * PageSize + j < N * PageSize
  BY FrameAddress
<1>6. o * PageSize + i # q * PageSize + j
  <2>1. j \in Nat
    BY FrameFits
  <2> QED
    BY <1>2, <1>4, <1>5, <2>1
<1> QED
  BY <1>4, <1>5, <1>6, AddressesDiffer

-----------------------------------------------------------------------------
\* The driver's place in what it reads.
Reading(fs, at) ==
    /\ drv.pc = "header" => Len(fs) >= 1 /\ card.rdar = NextRead * PageSize
    /\ drv.pc = "copy" =>
         /\ Len(fs) >= 1 /\ drv.next = PageAt(NextRead, at[2])
         /\ card.rbcr \in 0 .. Size(fs[1])
         /\ drv.copied = [i \in 1 .. Size(fs[1]) - card.rbcr |-> Data(fs[1], i)]
         /\ card.rbcr # 0 =>
              card.rdar = Around(NextRead * PageSize, Size(fs[1]) - card.rbcr + 1)

\* What the driver has read or has still to write is nothing but where it says.
Quiet ==
    /\ drv.pc # "copy" => drv.copied = << >>
    /\ drv.pc # "hand" => delivered = << >>
    /\ drv.pc = "setup" => drv.todo \in Steps
    /\ drv.pc # "setup" => drv.todo = << >>
    /\ rxQueue \in Seq(Frame)

InUse ==
    "page 0" \notin ToWrite =>
        /\ card.pstart = DefStart /\ card.pstop = MemEnd /\ card.bnry \in RingPage
        /\ ~ Up => card.bnry = DefStart

UnreadFrames == \E fs, at : Chain(fs, at) /\ Reading(fs, at)

RingInv == SendInv /\ Quiet /\ InUse /\ (Up => UnreadFrames)

RangeOf(t) == {t[i] : i \in DOMAIN t}

LEMMA RangeOfThree ==
    ASSUME NEW a, NEW b, NEW c
    PROVE  /\ RangeOf(<<a, b, c>>) = {a, b, c}
           /\ <<a, b, c>> # << >> /\ \A d : <<a, b, c>> # <<d>>
<1>0. PICK t : t = <<a, b, c>>
  OBVIOUS
<1>1. t \in Seq({a, b, c}) /\ Len(t) = 3 /\ t[1] = a /\ t[2] = b /\ t[3] = c
  BY <1>0
<1>2. DOMAIN t = {1, 2, 3}
  BY <1>1
<1>3. {t[i] : i \in {1, 2, 3}} = {a, b, c}
  BY <1>1
<1>4. Len(<< >>) = 0 /\ \A d : Len(<<d>>) = 1
  OBVIOUS
<1>5. RangeOf(t) = {a, b, c}
  BY <1>2, <1>3 DEF RangeOf
<1>6. t # << >> /\ \A d : t # <<d>>
  BY <1>1, <1>4
<1> QED
  BY <1>0, <1>5, <1>6, Zenon

\* What is left to write at each stage of the set-up.
ToWriteIs ==
    /\ drv.todo = << >> => ToWrite = {}
    /\ drv.todo \in Setups => ToWrite = {"page 0", "CURR", "STA"}
    /\ drv.todo \in {<<"CURR", "STA">>, <<"STA", "CURR">>} => ToWrite = {"CURR", "STA"}
    /\ drv.todo = <<"STA">> => ToWrite = {"STA"}
    /\ drv.todo = <<"CURR">> => ToWrite = {"CURR"}

LEMMA ToWriteOf == ToWriteIs
<1> USE DEF ToWriteIs
<1>1. drv.todo = << >> => ToWrite = {}
  BY DEF ToWrite
<1>2. ToWrite = RangeOf(drv.todo)
  BY DEF ToWrite, RangeOf
<1>3. drv.todo = <<"page 0", "CURR", "STA">> => ToWrite = {"page 0", "CURR", "STA"}
  BY <1>2, RangeOfThree, Zenon
<1>4. drv.todo = <<"page 0", "STA", "CURR">> => ToWrite = {"page 0", "CURR", "STA"}
  <2>1. {"page 0", "STA", "CURR"} = {"page 0", "CURR", "STA"}
    OBVIOUS
  <2>2. drv.todo = <<"page 0", "STA", "CURR">> => ToWrite = {"page 0", "STA", "CURR"}
    BY <1>2, RangeOfThree, Zenon
  <2> QED
    BY <2>1, <2>2, Zenon
<1>5. drv.todo = <<"CURR", "STA">> => ToWrite = {"CURR", "STA"}
  BY DEF ToWrite
<1>6. drv.todo = <<"STA", "CURR">> => ToWrite = {"CURR", "STA"}
  BY DEF ToWrite
<1>7. (drv.todo = <<"STA">> => ToWrite = {"STA"}) /\ (drv.todo = <<"CURR">> => ToWrite = {"CURR"})
  BY DEF ToWrite
<1> QED
  BY <1>1, <1>3, <1>4, <1>5, <1>6, <1>7, Zenon DEF Setups

UpIs ==
    /\ drv.pc # "setup" => Up /\ "page 0" \notin ToWrite
    /\ Up => "page 0" \notin ToWrite
    /\ Up <=> drv.todo \in {<< >>, <<"STA">>}

LEMMA UpOf == Quiet => UpIs
<1> SUFFICES ASSUME Quiet PROVE UpIs
  OBVIOUS
<1> USE DEF UpIs, ToWriteIs
<1>1. drv.todo = << >> \/ drv.todo \in Steps
  BY DEF Quiet
<1>2. CASE drv.todo = << >>
  BY <1>2, ToWriteOf DEF Up, Quiet
<1>3. CASE drv.todo \in Setups
  <2>1. drv.todo # << >> /\ drv.todo # <<"STA">>
    BY <1>3, RangeOfThree, Zenon DEF Setups
  <2> QED
    BY <1>3, <2>1, ToWriteOf DEF Up, Quiet
<1>4. CASE drv.todo \in {<<"CURR", "STA">>, <<"STA", "CURR">>}
  <2>1. drv.todo # << >> /\ drv.todo # <<"STA">>
    BY <1>4, Lengths
  <2> QED
    BY <1>4, <2>1, ToWriteOf DEF Up, Quiet
<1>5. CASE drv.todo = <<"STA">>
  <2>1. drv.todo # << >>
    BY <1>5, Lengths
  <2> QED
    BY <1>5, <2>1, ToWriteOf DEF Up, Quiet
<1>6. CASE drv.todo = <<"CURR">>
  <2>1. drv.todo # << >> /\ drv.todo # <<"STA">>
    BY <1>6, Lengths
  <2> QED
    BY <1>6, <2>1, ToWriteOf DEF Up, Quiet
<1> QED
  BY <1>1, <1>2, <1>3, <1>4, <1>5, <1>6 DEF Steps

LEMMA NextReadInRing ==
    ASSUME Quiet, InUse, Up
    PROVE  /\ NextRead \in RingPage /\ card.bnry \in RingPage
           /\ card.pstart = DefStart /\ card.pstop = MemEnd
<1>1. /\ card.pstart = DefStart /\ card.pstop = MemEnd /\ card.bnry \in RingPage
  BY UpOf DEF InUse, UpIs
<1> QED
  BY <1>1, Sizes DEF NextRead, After, RingPage

\* Only BNRY, CURR, the convention and the ring's memory matter to the chain.
LEMMA ChainKept ==
    ASSUME Quiet, InUse, Up, NEW fs, NEW at, Chain(fs, at),
           card'.curr = card.curr, card'.bnry = card.bnry, drv'.behind = drv.behind,
           \A a \in Ram : a >= DefStart * PageSize => mem'[a] = mem[a]
    PROVE  Chain(fs, at)'
<1>1. NextRead' = NextRead /\ Held' = Held
  BY DEF NextRead, Held
<1>2. Placed(fs, at)'
  BY <1>1 DEF Chain, Placed
<1>3. ASSUME NEW j \in 1 .. Len(fs) PROVE Whole(NextRead, at[j], fs[j])'
  <2> DEFINE base == NextRead
  <2>1. base \in RingPage
    BY NextReadInRing
  <2>2. at[j] \in Nat /\ at[j] + PagesNeeded(fs[j]) <= N
    BY PlacedBounds, Sizes, FrameFits, SMTT(30) DEF Chain
  <2>3. Whole(base, at[j], fs[j])
    BY DEF Chain
  <2> HIDE DEF base
  <2>4. ASSUME NEW i \in 0 .. Size(fs[j]) PROVE HoldsAt(base, at[j], fs[j], i)'
    <3>1. Around(PageAt(base, at[j]) * PageSize, i) \in Ram \cap Address
          /\ Around(PageAt(base, at[j]) * PageSize, i) >= DefStart * PageSize
      BY <2>1, <2>2, FrameAddress
    <3>2. HoldsAt(base, at[j], fs[j], i)
      BY <2>3 DEF Whole
    <3>3. base' = base
      BY <1>1 DEF base
    <3> QED
      BY <3>1, <3>2, <3>3 DEF HoldsAt
  <2>5. base' = base
    BY <1>1 DEF base
  <2> QED
    BY <2>4, <2>5 DEF Whole, base
<1> QED
  BY <1>1, <1>2, <1>3 DEF Chain

-----------------------------------------------------------------------------
\* What CURR and BNRY say of a chain.
LEMMA AvailableIs ==
    ASSUME Quiet, InUse, Up, NEW fs, NEW at, Chain(fs, at)
    PROVE  /\ Available = N - at[Len(fs) + 1] - Held
           /\ Start = DefStart /\ Stop = MemEnd
<1>1. /\ NextRead \in RingPage /\ card.bnry \in RingPage
      /\ card.pstart = DefStart /\ card.pstop = MemEnd
  BY NextReadInRing
<1>2. Start = DefStart /\ Stop = MemEnd
  BY <1>1 DEF Start, Stop
<1>3. PICK a : a = at[Len(fs) + 1]
  OBVIOUS
<1>4. a \in Nat /\ a + Held < N /\ card.curr = PageAt(NextRead, a)
  <2>1. Len(fs) + 1 \in 1 .. Len(fs) + 1
    BY DEF Chain, Placed
  <2> QED
    BY <1>3, <2>1 DEF Chain, Placed
<1>5. CASE drv.behind
  <2>1. /\ card.bnry \in Nat /\ DefStart <= card.bnry /\ card.bnry < MemEnd
        /\ NextRead = IF card.bnry = MemEnd - 1 THEN DefStart ELSE card.bnry + 1
        /\ a \in Nat /\ a + 1 < N
        /\ card.curr = IF NextRead + a >= MemEnd THEN NextRead + a - N ELSE NextRead + a
        /\ Available = IF card.curr >= card.bnry
                       THEN (MemEnd - card.curr) + (card.bnry - DefStart)
                       ELSE card.bnry - card.curr
    BY <1>1, <1>2, <1>4, <1>5, Sizes DEF Available, NextRead, After, PageAt, RingPage, Held
  <2>2. Available = N - a - 1
    BY <2>1, Sizes
  <2>3. Held = 1
    BY <1>5 DEF Held
  <2> QED
    BY <1>2, <1>3, <1>4, <2>2, <2>3, Sizes
<1>6. CASE ~ drv.behind
  <2>1. /\ NextRead \in Nat /\ DefStart <= NextRead /\ NextRead < MemEnd
        /\ a \in Nat /\ a < N
        /\ card.curr = IF NextRead + a >= MemEnd THEN NextRead + a - N ELSE NextRead + a
        /\ Available = IF card.curr >= NextRead
                       THEN (MemEnd - card.curr) + (NextRead - DefStart)
                       ELSE NextRead - card.curr
    BY <1>1, <1>2, <1>4, <1>6, Sizes DEF Available, NextRead, PageAt, RingPage, Held
  <2>2. Available = N - a
    BY <2>1, Sizes
  <2>3. Held = 0
    BY <1>6 DEF Held
  <2> QED
    BY <1>2, <1>3, <1>4, <2>2, <2>3, Sizes
<1> QED
  BY <1>2, <1>5, <1>6

LEMMA LastPlace ==
    ASSUME NEW fs, NEW at, Placed(fs, at)
    PROVE  /\ Len(fs) \in Nat /\ at[Len(fs) + 1] \in Nat
           /\ at[Len(fs) + 1] + Held < N /\ at[Len(fs) + 1] < N
           /\ Held \in Nat
<1>1. Len(fs) \in Nat /\ Len(fs) + 1 \in 1 .. Len(fs) + 1
  BY DEF Placed
<1> QED
  BY <1>1, Sizes DEF Placed, Held

\* Where a frame goes that fits.
LEMMA StorePlace ==
    ASSUME Quiet, InUse, Up, NEW fs, NEW at, Chain(fs, at), NEW f, Fits(f)
    PROVE  /\ at[Len(fs) + 1] + PagesNeeded(f) + Held < N
           /\ at[Len(fs) + 1] + PagesNeeded(f) < N
           /\ NextPage(f) = PageAt(NextRead, at[Len(fs) + 1] + PagesNeeded(f))
           /\ \A i : RingAddress(card.curr * PageSize, i)
                        = Around(PageAt(NextRead, at[Len(fs) + 1]) * PageSize, i)
<1>1. PICK a : a = at[Len(fs) + 1]
  OBVIOUS
<1>2. a \in Nat /\ Held \in Nat /\ a < N /\ card.curr = PageAt(NextRead, a)
  BY <1>1, LastPlace DEF Chain
<1>3. PagesNeeded(f) \in Nat
  BY FrameFits
<1>4. PagesNeeded(f) < N - a - Held /\ Start = DefStart /\ Stop = MemEnd
  BY <1>1, AvailableIs DEF Fits
<1>5. a + PagesNeeded(f) + Held < N /\ a + PagesNeeded(f) < N
  BY <1>2, <1>3, <1>4, Sizes
<1>6. NextRead \in RingPage
  BY NextReadInRing
<1>7. NextPage(f) = PageAt(card.curr, PagesNeeded(f))
  <2>1. card.curr \in RingPage
    BY <1>2, <1>6, PageAtInRing
  <2> QED
    BY <1>3, <1>4, <2>1, Sizes DEF NextPage, PageAt, RingPage
<1>8. NextPage(f) = PageAt(NextRead, a + PagesNeeded(f))
  BY <1>2, <1>3, <1>5, <1>6, <1>7, PageAtTwice
<1>9. \A i : RingAddress(card.curr * PageSize, i) = Around(card.curr * PageSize, i)
  BY <1>4 DEF RingAddress, Around
<1> QED
  BY <1>1, <1>2, <1>5, <1>8, <1>9

\* What a stored frame leaves in the memory, and what it does not touch.
LEMMA StoredFrame ==
    ASSUME NEW base \in RingPage, NEW a \in Nat, NEW f, a + PagesNeeded(f) < N,
           card.curr = PageAt(base, a), NextPage(f) = PageAt(base, a + PagesNeeded(f)),
           \A i : RingAddress(card.curr * PageSize, i) = Around(PageAt(base, a) * PageSize, i),
           Store(f)
    PROVE  /\ \A i \in 0 .. Size(f) :
                mem'[Around(PageAt(base, a) * PageSize, i)] =
                  IF i = 0 THEN Header(PageAt(base, a + PagesNeeded(f)), Size(f) + 1)
                  ELSE Data(f, i)
           /\ \A o \in Nat : \A g : o + PagesNeeded(g) <= a =>
                \A i \in 0 .. Size(g) :
                  mem'[Around(PageAt(base, o) * PageSize, i)]
                      = mem[Around(PageAt(base, o) * PageSize, i)]
<1> DEFINE A(i) == Around(PageAt(base, a) * PageSize, i)
<1>0. PagesNeeded(f) \in Nat /\ a + PagesNeeded(f) <= N /\ Size(f) \in Nat
  BY FrameFits, Sizes
<1>1. \A i \in 0 .. Size(f) : A(i) \in Ram \cap Address
  BY <1>0, FrameAddress
<1>2. \A i, k \in 0 .. Size(f) : A(i) = A(k) => i = k
  <2> SUFFICES ASSUME NEW i \in 0 .. Size(f), NEW k \in 0 .. Size(f), A(i) = A(k) PROVE i = k
    OBVIOUS
  <2>1. A(i) = AddrAt(base, a * PageSize + i) /\ a * PageSize + i \in Nat
        /\ a * PageSize + i < N * PageSize
    BY <1>0, FrameAddress
  <2>2. A(k) = AddrAt(base, a * PageSize + k) /\ a * PageSize + k \in Nat
        /\ a * PageSize + k < N * PageSize
    BY <1>0, FrameAddress
  <2> HIDE DEF A
  <2>3. a * PageSize + i = a * PageSize + k
    BY <2>1, <2>2, AddressesDiffer
  <2>4. a * PageSize \in Nat /\ i \in Nat /\ k \in Nat
    BY Sizes, <1>0
  <2> QED
    BY <2>3, <2>4
<1> HIDE DEF A
<1>3. Occupies(f) = {A(i) : i \in 0 .. Size(f)}
  BY DEF Occupies, A
<1>4. ASSUME NEW i \in 0 .. Size(f)
      PROVE  mem'[A(i)] = IF i = 0 THEN Header(PageAt(base, a + PagesNeeded(f)), Size(f) + 1)
                          ELSE Data(f, i)
  <2>1. A(i) \in Ram \cap Address /\ A(i) \in Occupies(f)
    BY <1>1, <1>3
  <2>2. mem'[A(i)] = Image(f, A(i))
    BY <2>1 DEF Store
  <2>3. (CHOOSE k \in 0 .. Size(f) : A(k) = A(i)) = i
    BY <1>2
  <2>4. (CHOOSE k \in 0 .. Size(f) : RingAddress(card.curr * PageSize, k) = A(i)) = i
    BY <2>3 DEF A
  <2> QED
    BY <2>2, <2>4 DEF Image
<1>5. ASSUME NEW o \in Nat, NEW g, o + PagesNeeded(g) <= a, NEW i \in 0 .. Size(g)
      PROVE  mem'[Around(PageAt(base, o) * PageSize, i)]
                 = mem[Around(PageAt(base, o) * PageSize, i)]
  <2>1. ASSUME NEW k \in 0 .. Size(f) PROVE Around(PageAt(base, o) * PageSize, i) # A(k)
    <3>1. Around(PageAt(base, o) * PageSize, i) # Around(PageAt(base, a) * PageSize, k)
      BY <1>0, <1>5, FramesApart
    <3> QED
      BY <3>1 DEF A
  <2>2. Around(PageAt(base, o) * PageSize, i) \in Address
    <3>1. PagesNeeded(g) \in Nat /\ o + PagesNeeded(g) <= N
      BY <1>0, <1>5, FrameFits, Sizes
    <3> QED
      BY <3>1, FrameAddress
  <2>3. Around(PageAt(base, o) * PageSize, i) \notin Occupies(f)
    BY <1>3, <2>1
  <2> QED
    BY <2>2, <2>3 DEF Store
<1> QED
  BY <1>4, <1>5 DEF A

\* One frame more, and one less.
OneMore(fs, at, f, gs, gat) ==
    /\ Placed(gs, gat) /\ Len(gs) = Len(fs) + 1
    /\ \A j \in 1 .. Len(fs) : gs[j] = fs[j] /\ gat[j] = at[j]
    /\ gs[Len(fs) + 1] = f /\ gat[Len(fs) + 1] = at[Len(fs) + 1]
    /\ gat[Len(fs) + 2] = at[Len(fs) + 1] + PagesNeeded(f)

LEMMA LongerPlaced ==
    ASSUME NEW fs, NEW at, Placed(fs, at), NEW f \in Frame, NEW gs, NEW gat,
           at[Len(fs) + 1] + PagesNeeded(f) + Held < N,
           gs = Append(fs, f),
           gat = [j \in 1 .. Len(fs) + 2 |-> IF j <= Len(fs) + 1 THEN at[j]
                                             ELSE at[Len(fs) + 1] + PagesNeeded(f)]
    PROVE  OneMore(fs, at, f, gs, gat)
<1>1. PICK m \in Nat : m = Len(fs)
  BY LastPlace
<1>2. PICK a : a = at[m + 1]
  OBVIOUS
<1>3. a \in Nat /\ PagesNeeded(f) \in Nat /\ PagesNeeded(f) >= 1 /\ Held \in Nat
  BY <1>1, <1>2, LastPlace, FrameFits
<1>4. /\ fs \in Seq(Frame) /\ at \in [1 .. m + 1 -> Nat] /\ at[1] = 0
      /\ \A j \in 1 .. m : at[j + 1] = at[j] + PagesNeeded(fs[j])
      /\ \A i, j \in 1 .. m + 1 : i < j => at[i] < at[j]
  BY <1>1 DEF Placed
<1>5. /\ gs \in Seq(Frame) /\ Len(gs) = m + 1 /\ gs[m + 1] = f
      /\ \A j \in 1 .. m : gs[j] = fs[j]
  BY <1>1, <1>4
<1>6. /\ DOMAIN gat = 1 .. m + 2 /\ gat[m + 2] = a + PagesNeeded(f)
      /\ \A j \in 1 .. m + 1 : gat[j] = at[j]
      /\ gat = [j \in 1 .. m + 2 |-> gat[j]]
  BY <1>1, <1>2
<1>7. \A j \in 1 .. m + 2 : gat[j] \in Nat
  <2> SUFFICES ASSUME NEW j \in 1 .. m + 2 PROVE gat[j] \in Nat
    OBVIOUS
  <2>1. j \in 1 .. m + 1 \/ j = m + 2
    OBVIOUS
  <2> QED
    BY <1>3, <1>4, <1>6, <2>1
<1>8. gat \in [1 .. m + 2 -> Nat]
  BY <1>6, <1>7
<1>9. gat[1] = 0
  BY <1>4, <1>6
<1>10. ASSUME NEW j \in 1 .. m + 1 PROVE gat[j + 1] = gat[j] + PagesNeeded(gs[j])
  <2>1. CASE j = m + 1
    BY <1>2, <1>5, <1>6, <2>1
  <2>2. CASE j # m + 1
    <3>1. j \in 1 .. m /\ j + 1 \in 1 .. m + 1
      BY <2>2
    <3> QED
      BY <1>4, <1>5, <1>6, <3>1
  <2> QED
    BY <2>1, <2>2
<1>11. ASSUME NEW i \in 1 .. m + 2, NEW j \in 1 .. m + 2, i < j PROVE gat[i] < gat[j]
  <2>1. CASE j = m + 2
    <3>1. i \in 1 .. m + 1 /\ m + 1 \in 1 .. m + 1
      BY <2>1, <1>11
    <3>2. at[i] \in Nat /\ at[i] <= a
      BY <1>2, <1>3, <1>4, <3>1
    <3> QED
      BY <1>3, <1>6, <2>1, <3>1, <3>2
  <2>2. CASE j # m + 2
    <3>1. i \in 1 .. m + 1 /\ j \in 1 .. m + 1
      BY <2>2, <1>11
    <3> QED
      BY <1>4, <1>6, <1>11, <3>1
  <2> QED
    BY <2>1, <2>2
<1>12. gat[m + 2] + Held < N
  BY <1>1, <1>2, <1>6
<1>13. Len(gs) + 1 = m + 2
  BY <1>5
<1>14. Placed(gs, gat)
  BY <1>5, <1>8, <1>9, <1>10, <1>11, <1>12, <1>13 DEF Placed
<1> QED
  BY <1>1, <1>2, <1>5, <1>6, <1>14 DEF OneMore

OneLess(fs, at, gs, gat) ==
    /\ Placed(gs, gat) /\ Len(gs) = Len(fs) - 1
    /\ \A j \in 1 .. Len(fs) - 1 : gs[j] = fs[j + 1]
    /\ \A j \in 1 .. Len(fs) : /\ gat[j] \in Nat /\ at[j + 1] \in Nat
                               /\ at[j + 1] = at[2] + gat[j]

LEMMA ShorterPlaced ==
    ASSUME NEW fs, NEW at, Placed(fs, at), Len(fs) >= 1, NEW gs, NEW gat,
           gs = Tail(fs), gat = [j \in 1 .. Len(fs) |-> at[j + 1] - at[2]]
    PROVE  OneLess(fs, at, gs, gat)
<1>1. PICK m \in Nat : m = Len(fs) /\ m >= 1
  BY LastPlace
<1>2. /\ fs \in Seq(Frame) /\ at \in [1 .. m + 1 -> Nat]
      /\ \A j \in 1 .. m : at[j + 1] = at[j] + PagesNeeded(fs[j])
      /\ \A i, j \in 1 .. m + 1 : i < j => at[i] < at[j]
      /\ at[m + 1] + Held < N
  BY <1>1 DEF Placed
<1>3. /\ gs \in Seq(Frame) /\ Len(gs) = m - 1
      /\ \A j \in 1 .. m - 1 : gs[j] = fs[j + 1]
  BY <1>1, <1>2
<1>4. PICK b \in Nat : b = at[2]
  <2>1. 2 \in 1 .. m + 1
    BY <1>1
  <2> QED
    BY <1>2, <2>1
<1>5. \A j \in 1 .. m : gat[j] = at[j + 1] - b
  BY <1>1, <1>4
<1>6. ASSUME NEW j \in 1 .. m PROVE gat[j] \in Nat /\ at[j + 1] \in Nat /\ at[j + 1] = b + gat[j]
  <2>1. j + 1 \in 1 .. m + 1 /\ 2 \in 1 .. m + 1 /\ (j + 1 = 2 \/ 2 < j + 1)
    BY <1>1
  <2>2. at[j + 1] \in Nat /\ b <= at[j + 1]
    BY <1>2, <1>4, <2>1
  <2>3. gat[j] = at[j + 1] - b
    BY <1>5
  <2> QED
    BY <2>2, <2>3
<1>7. gat \in [1 .. m -> Nat]
  BY <1>1, <1>6
<1>8. gat[1] = 0
  BY <1>1, <1>4, <1>5
<1>9. ASSUME NEW j \in 1 .. m - 1 PROVE gat[j + 1] = gat[j] + PagesNeeded(gs[j])
  <2>1. j \in 1 .. m /\ j + 1 \in 1 .. m /\ PagesNeeded(fs[j + 1]) \in Nat
    BY <1>1, FrameFits
  <2>2. at[j + 1 + 1] = at[j + 1] + PagesNeeded(fs[j + 1]) /\ gs[j] = fs[j + 1]
    BY <1>2, <1>3, <2>1
  <2>3. at[j + 1] = b + gat[j] /\ at[j + 1 + 1] = b + gat[j + 1] /\ gat[j] \in Nat
        /\ gat[j + 1] \in Nat
    BY <1>6, <2>1
  <2>4. PICK p \in Nat : p = PagesNeeded(fs[j + 1])
    BY <2>1
  <2>5. b + gat[j + 1] = b + gat[j] + p
    BY <2>2, <2>3, <2>4
  <2>6. PICK x, y : x = gat[j] /\ y = gat[j + 1]
    OBVIOUS
  <2>7. b \in Nat /\ p \in Nat /\ x \in Nat /\ y \in Nat /\ b + y = b + x + p
    BY <1>4, <2>3, <2>4, <2>5, <2>6
  <2>8. y = x + p
    BY <2>7
  <2> QED
    BY <2>2, <2>4, <2>6, <2>8
<1>10. ASSUME NEW i \in 1 .. m, NEW j \in 1 .. m, i < j PROVE gat[i] < gat[j]
  <2>1. at[i + 1] = b + gat[i] /\ at[j + 1] = b + gat[j] /\ gat[i] \in Nat /\ gat[j] \in Nat
    BY <1>6
  <2>2. i + 1 \in 1 .. m + 1 /\ j + 1 \in 1 .. m + 1 /\ i + 1 < j + 1
    BY <1>10
  <2>3. at[i + 1] < at[j + 1]
    BY <1>2, <2>2
  <2> QED
    BY <2>1, <2>3
<1>11. gat[m] + Held < N
  <2>1. gat[m] \in Nat /\ at[m + 1] = b + gat[m]
    BY <1>1, <1>6
  <2>2. Held \in Nat
    BY DEF Held
  <2> QED
    BY <1>2, <2>1, <2>2, Sizes, SMTT(30)
<1>12. Len(gs) + 1 = m /\ 1 .. Len(gs) = 1 .. m - 1
  BY <1>3
<1>13. Placed(gs, gat)
  BY <1>3, <1>7, <1>8, <1>9, <1>10, <1>11, <1>12 DEF Placed
<1> QED
  BY <1>1, <1>3, <1>4, <1>6, <1>13 DEF OneLess

-----------------------------------------------------------------------------
\* The steps that leave the ring as it is.
LEMMA RingStays ==
    ASSUME RingInv, Up, NEW fs, NEW at, Chain(fs, at), UNCHANGED mem,
           card'.curr = card.curr, card'.bnry = card.bnry, drv'.behind = drv.behind
    PROVE  Chain(fs, at)'
BY ChainKept DEF RingInv

\* Receiving a frame that fits puts it at the end.
LEMMA ReceivePuts ==
    ASSUME RingInv, Up, NEW fs, NEW at, Chain(fs, at), Reading(fs, at), UNCHANGED drv,
           NEW f \in Frame, Fits(f), Store(f),
           card'.curr = NextPage(f), card'.bnry = card.bnry,
           card'.rbcr = card.rbcr, card'.rdar = card.rdar,
           NEW gs, gs = Append(fs, f)
    PROVE  \E gat : Chain(gs, gat)' /\ Reading(gs, gat)'
<1>1. PICK base \in RingPage : base = NextRead
  BY NextReadInRing DEF RingInv
<1>2. PICK a : a = at[Len(fs) + 1]
  OBVIOUS
<1>3. /\ Len(fs) \in Nat /\ a \in Nat /\ a + PagesNeeded(f) + Held < N
      /\ a + PagesNeeded(f) < N
      /\ NextPage(f) = PageAt(base, a + PagesNeeded(f))
      /\ card.curr = PageAt(base, a)
      /\ \A i : RingAddress(card.curr * PageSize, i) = Around(PageAt(base, a) * PageSize, i)
  BY <1>1, <1>2, StorePlace, LastPlace DEF Chain, RingInv
<1>4. PICK gat : gat = [j \in 1 .. Len(fs) + 2 |-> IF j <= Len(fs) + 1 THEN at[j]
                                                   ELSE at[Len(fs) + 1] + PagesNeeded(f)]
  OBVIOUS
<1>5. /\ Placed(gs, gat) /\ Len(gs) = Len(fs) + 1
      /\ \A j \in 1 .. Len(fs) : gs[j] = fs[j] /\ gat[j] = at[j]
      /\ gs[Len(fs) + 1] = f /\ gat[Len(fs) + 1] = a
      /\ gat[Len(fs) + 2] = a + PagesNeeded(f)
  <2>1. Placed(fs, at)
    BY DEF Chain
  <2>2. at[Len(fs) + 1] + PagesNeeded(f) + Held < N
    BY <1>2, <1>3
  <2>3. OneMore(fs, at, f, gs, gat)
    BY <1>4, <2>1, <2>2, LongerPlaced, Zenon
  <2> QED
    BY <1>2, <2>3 DEF OneMore
<1>6. NextRead' = NextRead /\ Held' = Held /\ base' = base
  BY DEF NextRead, Held
<1>7. Placed(gs, gat)'
  BY <1>5, <1>6 DEF Placed
<1>8. /\ \A i \in 0 .. Size(f) :
           mem'[Around(PageAt(base, a) * PageSize, i)] =
             IF i = 0 THEN Header(PageAt(base, a + PagesNeeded(f)), Size(f) + 1)
             ELSE Data(f, i)
      /\ \A o \in Nat : \A g : o + PagesNeeded(g) <= a =>
           \A i \in 0 .. Size(g) :
             mem'[Around(PageAt(base, o) * PageSize, i)]
                 = mem[Around(PageAt(base, o) * PageSize, i)]
  BY <1>3, StoredFrame
<1>9. ASSUME NEW j \in 1 .. Len(gs) PROVE Whole(base, gat[j], gs[j])'
  <2>1. CASE j = Len(fs) + 1
    BY <1>5, <1>8, <2>1 DEF Whole, HoldsAt
  <2>2. CASE j # Len(fs) + 1
    <3>1. j \in 1 .. Len(fs)
      BY <1>3, <1>5, <2>2
    <3>2. at[j] \in Nat /\ at[j] + PagesNeeded(fs[j]) <= a
      BY <1>2, <3>1, PlacedBounds DEF Chain
    <3>3. Whole(base, at[j], fs[j])
      BY <1>1, <3>1 DEF Chain
    <3> QED
      BY <1>5, <1>8, <3>1, <3>2, <3>3 DEF Whole, HoldsAt
  <2> QED
    BY <2>1, <2>2
<1>10. card'.curr = PageAt(base, gat[Len(gs) + 1])
  <2>1. Len(gs) + 1 = Len(fs) + 2
    BY <1>3, <1>5
  <2> QED
    BY <1>3, <1>5, <2>1
<1>11. Chain(gs, gat)'
  BY <1>1, <1>6, <1>7, <1>9, <1>10 DEF Chain
<1>12. Reading(gs, gat)'
  <2>1. CASE drv.pc \notin {"header", "copy"}
    BY <2>1 DEF Reading
  <2>2. CASE drv.pc \in {"header", "copy"}
    <3>1. Len(fs) >= 1
      BY <2>2 DEF Reading
    <3>2. gs[1] = fs[1] /\ Len(gs) >= 1
      BY <1>3, <1>5, <3>1
    <3>3. gat[2] = at[2]
      <4>1. CASE Len(fs) = 1
        BY <1>2, <1>5, <4>1
      <4>2. CASE Len(fs) # 1
        <5>0. PICK m \in Nat : m = Len(fs)
          BY <1>3
        <5>1. 2 \in 1 .. m
          BY <3>1, <4>2, <5>0
        <5> QED
          BY <1>5, <5>0, <5>1
      <4> QED
        BY <4>1, <4>2
    <3> QED
      BY <1>6, <3>1, <3>2, <3>3 DEF Reading
  <2> QED
    BY <2>1, <2>2
<1> QED
  BY <1>11, <1>12

\* The oldest frame, at the page the driver reads next.
LEMMA FirstFrame ==
    ASSUME RingInv, Up, NEW fs, NEW at, Chain(fs, at), Len(fs) >= 1
    PROVE  /\ NextRead \in RingPage /\ NextRead * PageSize \in Nat
           /\ Size(fs[1]) \in Nat /\ Size(fs[1]) <= PageSize
           /\ at[2] \in Nat /\ at[2] < N
           /\ PageAt(NextRead, at[2]) \in RingPage
           /\ At(NextRead * PageSize) = Header(PageAt(NextRead, at[2]), Size(fs[1]) + 1)
           /\ Around(NextRead * PageSize, 0) = NextRead * PageSize
           /\ \A i \in 1 .. Size(fs[1]) :
                 At(Around(NextRead * PageSize, i)) = Data(fs[1], i)
<1>1. PICK base \in RingPage : base = NextRead
  BY NextReadInRing DEF RingInv
<1>2. PICK f : f = fs[1]
  OBVIOUS
<1>3. Len(fs) \in Nat /\ 1 \in 1 .. Len(fs)
  BY LastPlace DEF Chain
<1>4. /\ at[1] = 0 /\ at[2] \in Nat /\ at[2] < N
      /\ at[2] = PagesNeeded(f)
  <2>1. at[1] = 0 /\ at[1] \in Nat /\ at[1 + 1] \in Nat /\ at[1 + 1] <= at[Len(fs) + 1]
        /\ at[1 + 1] = at[1] + PagesNeeded(fs[1]) /\ at[Len(fs) + 1] \in Nat
        /\ at[Len(fs) + 1] < N
    BY <1>3, PlacedBounds, LastPlace DEF Chain, Placed
  <2>2. PagesNeeded(f) \in Nat /\ N \in Nat /\ 1 + 1 = 2
    BY FrameFits, Sizes
  <2> QED
    BY <1>2, <2>1, <2>2
<1>5. PageAt(base, 0) = base
  BY Sizes DEF PageAt, RingPage
<1>6. base * PageSize \in Nat /\ base * PageSize + PageSize <= MemEnd * PageSize
  BY PageProducts
<1>7. Around(base * PageSize, 0) = base * PageSize
  BY <1>6, Sizes, RingProducts DEF Around
<1>8. PageAt(base, at[2]) \in RingPage
  BY <1>4, PageAtInRing
<1>9. Whole(base, 0, f)
  BY <1>1, <1>2, <1>3, <1>4 DEF Chain
<1>10. ASSUME NEW i \in 0 .. Size(f)
       PROVE  At(Around(base * PageSize, i)) =
                 IF i = 0 THEN Header(PageAt(base, at[2]), Size(f) + 1) ELSE Data(f, i)
  <2>1. 0 + PagesNeeded(f) = at[2] /\ 0 + PagesNeeded(f) <= N
    BY <1>4, Sizes
  <2>2. Around(base * PageSize, i) \in Address
    BY <1>5, <2>1, FrameAddress
  <2>3. mem[Around(base * PageSize, i)] =
          IF i = 0 THEN Header(PageAt(base, at[2]), Size(f) + 1) ELSE Data(f, i)
    BY <1>5, <1>9, <2>1 DEF Whole, HoldsAt
  <2> QED
    BY <2>2, <2>3 DEF At
<1>11. Size(f) \in Nat /\ Size(f) >= 1 /\ Size(f) <= PageSize
  BY FrameFits
<1>12. 0 \in 0 .. Size(f) /\ \A i \in 1 .. Size(f) : i \in 0 .. Size(f) /\ i # 0
  BY <1>11
<1>13. At(base * PageSize) = Header(PageAt(base, at[2]), Size(f) + 1)
  BY <1>7, <1>10, <1>12
<1> QED
  BY <1>1, <1>2, <1>4, <1>6, <1>7, <1>8, <1>10, <1>11, <1>12, <1>13

-----------------------------------------------------------------------------
\* The driver reads.
LEMMA LookReads ==
    ASSUME RingInv, Up, NEW fs, NEW at, Chain(fs, at), Look
    PROVE  Chain(fs, at)' /\ Reading(fs, at)'
<1>1. /\ card.curr # NextRead /\ UNCHANGED mem
      /\ card'.curr = card.curr /\ card'.bnry = card.bnry
      /\ card'.rdar = NextRead * PageSize
      /\ drv'.pc = "header" /\ drv'.behind = drv.behind
  BY DEF Look, BeginDma, Goto, RingInv, SendInv, Shape
<1>2. NextRead' = NextRead
  BY <1>1 DEF NextRead
<1>3. Len(fs) >= 1
  <2>1. PICK m \in Nat : m = Len(fs)
    BY LastPlace DEF Chain
  <2>2. ASSUME m = 0 PROVE FALSE
    <3>1. card.curr = PageAt(NextRead, 0)
      BY <2>1, <2>2 DEF Chain, Placed
    <3>2. NextRead \in RingPage
      BY NextReadInRing DEF RingInv
    <3> QED
      BY <1>1, <3>1, <3>2, Sizes DEF PageAt, RingPage
  <2> QED
    BY <2>1, <2>2
<1>4. Chain(fs, at)'
  BY <1>1, RingStays
<1> QED
  BY <1>1, <1>2, <1>3, <1>4 DEF Reading

LEMMA HeaderReads ==
    ASSUME RingInv, Up, NEW fs, NEW at, Chain(fs, at), Reading(fs, at), ReadHeader
    PROVE  Chain(fs, at)' /\ Reading(fs, at)'
<1>1. Len(fs) >= 1 /\ card.rdar = NextRead * PageSize /\ drv.pc = "header"
  BY DEF ReadHeader, Reading
<1>2. /\ NextRead \in RingPage /\ NextRead * PageSize \in Nat /\ Size(fs[1]) \in Nat
      /\ At(card.rdar) = Header(PageAt(NextRead, at[2]), Size(fs[1]) + 1)
  BY <1>1, FirstFrame
<1>3. At(card.rdar).kind = "header" /\ At(card.rdar).total - 1 = Size(fs[1])
      /\ At(card.rdar).next = PageAt(NextRead, at[2])
  BY <1>2 DEF Header
<1>4. /\ card' = [DmaStep EXCEPT !.rdar = NextRead * PageSize + 1,
                                 !.rbcr = At(card.rdar).total - 1]
      /\ drv' = [drv EXCEPT !.pc = "copy", !.next = At(card.rdar).next]
      /\ UNCHANGED mem
  BY <1>3 DEF ReadHeader
<1>5. /\ card'.curr = card.curr /\ card'.bnry = card.bnry
      /\ card'.rdar = NextRead * PageSize + 1 /\ card'.rbcr = Size(fs[1])
      /\ drv'.pc = "copy" /\ drv'.next = PageAt(NextRead, at[2])
      /\ drv'.copied = drv.copied /\ drv'.behind = drv.behind
  BY <1>3, <1>4 DEF DmaStep, RingInv, SendInv, Shape
<1>6. NextRead' = NextRead
  BY <1>5 DEF NextRead
<1>7. Chain(fs, at)'
  BY <1>4, <1>5, RingStays
<1>8. drv'.copied = << >>
  BY <1>1, <1>5 DEF RingInv, Quiet
<1>9. PICK s \in Nat : s = Size(fs[1])
  BY <1>2
<1>10. s - s = 0 /\ s \in 0 .. s /\ 1 .. 0 = {}
  BY <1>9
<1>11. [i \in 1 .. s - s |-> Data(fs[1], i)] = << >>
  BY <1>10
<1>12. NextRead * PageSize + 1 = Around(NextRead * PageSize, 0 + 1)
  <2>1. NextRead * PageSize + PageSize <= MemEnd * PageSize
    BY <1>2, PageProducts
  <2> QED
    BY <1>2, <2>1, Sizes, RingProducts DEF Around
<1>13. Reading(fs, at)'
  BY <1>1, <1>5, <1>6, <1>8, <1>9, <1>10, <1>11, <1>12 DEF Reading
<1> QED
  BY <1>7, <1>13

LEMMA CopyReads ==
    ASSUME RingInv, Up, NEW fs, NEW at, Chain(fs, at), Reading(fs, at), ReadFrame
    PROVE  Chain(fs, at)' /\ Reading(fs, at)'
<1>1. PICK f : f = fs[1]
  OBVIOUS
<1>2. PICK k : k = Size(f) - card.rbcr
  OBVIOUS
<1>3. /\ Len(fs) >= 1 /\ drv.pc = "copy" /\ card.rbcr \in 0 .. Size(f) /\ card.rbcr # 0
      /\ drv.next = PageAt(NextRead, at[2])
      /\ drv.copied = [i \in 1 .. k |-> Data(f, i)]
      /\ card.rdar = Around(NextRead * PageSize, k + 1)
  BY <1>1, <1>2 DEF ReadFrame, Reading
<1>4. /\ NextRead \in RingPage /\ NextRead * PageSize \in Nat /\ Size(f) \in Nat
      /\ Size(f) <= PageSize
      /\ \A i \in 1 .. Size(f) : At(Around(NextRead * PageSize, i)) = Data(f, i)
  BY <1>1, <1>3, FirstFrame
<1>5. k \in Nat /\ k + 1 \in 1 .. Size(f) /\ k + 1 <= PageSize
      /\ Size(f) - (card.rbcr - 1) = k + 1 /\ card.rbcr - 1 \in 0 .. Size(f)
  BY <1>2, <1>3, <1>4, Sizes, SMTT(30)
<1>6. /\ card' = DmaStep /\ UNCHANGED mem
      /\ drv' = [drv EXCEPT !.copied = Append(drv.copied, At(card.rdar))]
  BY DEF ReadFrame, DmaRead
<1>7. /\ card'.curr = card.curr /\ card'.bnry = card.bnry
      /\ card'.rbcr = card.rbcr - 1
      /\ card'.rdar = IF card.pstop # 0 /\ card.rdar + 1 = card.pstop * PageSize
                      THEN card.pstart * PageSize ELSE card.rdar + 1
      /\ drv'.pc = "copy" /\ drv'.next = drv.next /\ drv'.behind = drv.behind
      /\ drv'.copied = Append(drv.copied, At(card.rdar))
  BY <1>3, <1>6 DEF DmaStep, RingInv, SendInv, Shape
<1>8. NextRead' = NextRead
  BY <1>7 DEF NextRead
<1>9. Chain(fs, at)'
  BY <1>6, <1>7, RingStays
<1>10. drv'.copied = [i \in 1 .. k + 1 |-> Data(f, i)]
  <2>1. At(card.rdar) = Data(f, k + 1)
    BY <1>3, <1>4, <1>5
  <2>2. Append([i \in 1 .. k |-> Data(f, i)], Data(f, k + 1)) = [i \in 1 .. k + 1 |-> Data(f, i)]
    BY <1>5
  <2> QED
    BY <1>3, <1>7, <2>1, <2>2
<1>11. card'.rdar = Around(NextRead * PageSize, k + 1 + 1)
  <2>1. /\ NextRead * PageSize + PageSize <= MemEnd * PageSize
        /\ DefStart * PageSize <= NextRead * PageSize
    BY <1>4, PageProducts
  <2>2. card.pstart = DefStart /\ card.pstop = MemEnd /\ MemEnd # 0
    BY NextReadInRing, Sizes DEF RingInv
  <2>3. card'.rdar = IF card.rdar + 1 = MemEnd * PageSize THEN DefStart * PageSize
                     ELSE card.rdar + 1
    BY <1>7, <2>2
  <2>4. DefStart * PageSize + PageSize < MemEnd * PageSize
    <3>1. (DefStart + 1) * PageSize + PageSize <= MemEnd * PageSize
          /\ (DefStart + 1) * PageSize = DefStart * PageSize + PageSize
      <4>1. DefStart + 1 < MemEnd /\ 1 * PageSize = PageSize
        BY CardAssumption, Sizes
      <4> QED
        BY <4>1, Sizes, PageBound, Distributes
    <3> QED
      BY <3>1, Sizes, RingProducts
  <2>5. PICK x, d, m : x = NextRead * PageSize /\ d = DefStart * PageSize /\ m = MemEnd * PageSize
    OBVIOUS
  <2>6. /\ x \in Nat /\ d \in Nat /\ m \in Nat /\ PageSize \in Nat /\ k \in Nat
        /\ d <= x /\ x + PageSize <= m /\ d + PageSize < m /\ k + 1 <= PageSize
    BY <1>4, <1>5, <2>1, <2>4, <2>5, RingProducts, Sizes
  <2>7. card.rdar = IF x + (k + 1) >= m THEN d + (x + (k + 1) - m) ELSE x + (k + 1)
    BY <1>3, <2>5 DEF Around
  <2>8. card'.rdar = IF card.rdar + 1 = m THEN d ELSE card.rdar + 1
    BY <2>3, <2>5
  <2>9. card'.rdar = IF x + (k + 1 + 1) >= m THEN d + (x + (k + 1 + 1) - m) ELSE x + (k + 1 + 1)
    <3>1. CASE x + (k + 1) >= m
      BY <2>6, <2>7, <2>8, <3>1
    <3>2. CASE x + (k + 1) < m
      BY <2>6, <2>7, <2>8, <3>2
    <3> QED
      BY <2>6, <3>1, <3>2
  <2> QED
    BY <2>5, <2>9 DEF Around
<1>12. card'.rbcr \in 0 .. Size(f) /\ Size(f) - card'.rbcr = k + 1
  BY <1>5, <1>7
<1>13. Reading(fs, at)'
  BY <1>1, <1>3, <1>7, <1>8, <1>10, <1>11, <1>12 DEF Reading
<1> QED
  BY <1>9, <1>13

\* BNRY goes past the frame, and the rest is a chain from there.
LEMMA ReleaseTakes ==
    ASSUME RingInv, Up, NEW fs, NEW at, Chain(fs, at), Reading(fs, at), Release,
           NEW gs, gs = Tail(fs)
    PROVE  /\ \E gat : Chain(gs, gat)' /\ Reading(gs, gat)'
           /\ Len(fs) >= 1 /\ delivered = << >> /\ delivered' = Contents(fs[1])
<1>1. PICK base \in RingPage : base = NextRead
  BY NextReadInRing DEF RingInv
<1>2. PICK q : q = at[2]
  OBVIOUS
<1>3. /\ Len(fs) >= 1 /\ drv.pc = "copy" /\ card.rbcr = 0 /\ drv.next = PageAt(base, q)
      /\ drv.copied = [i \in 1 .. Size(fs[1]) - 0 |-> Data(fs[1], i)]
  BY <1>1, <1>2 DEF Release, Reading
<1>4. q \in Nat /\ q < N /\ drv.next \in RingPage /\ Size(fs[1]) \in Nat
  BY <1>1, <1>2, <1>3, FirstFrame
<1>5. /\ UNCHANGED mem /\ card'.curr = card.curr
      /\ card'.bnry = IF drv.behind THEN Before(drv.next) ELSE drv.next
      /\ drv'.pc = "hand" /\ drv'.behind = drv.behind /\ delivered' = drv.copied
  BY DEF Release, Write, RingInv, SendInv, Shape
<1>6. NextRead' = drv.next
  BY <1>4, <1>5, Sizes DEF NextRead, After, Before, RingPage
<1>7. Held' = Held
  BY <1>5 DEF Held
<1>8. PICK gat : gat = [j \in 1 .. Len(fs) |-> at[j + 1] - at[2]]
  OBVIOUS
<1>9. PICK m \in Nat : m = Len(fs) /\ m >= 1
  BY <1>3, LastPlace DEF Chain
<1>10. /\ Placed(gs, gat) /\ Len(gs) = m - 1
       /\ \A j \in 1 .. m - 1 : gs[j] = fs[j + 1]
       /\ \A j \in 1 .. m : gat[j] \in Nat /\ at[j + 1] \in Nat /\ at[j + 1] = q + gat[j]
  <2>1. Placed(fs, at)
    BY DEF Chain
  <2>2. OneLess(fs, at, gs, gat)
    BY <1>3, <1>8, <2>1, ShorterPlaced, Zenon
  <2> QED
    BY <1>2, <1>9, <2>2 DEF OneLess
<1>11. Placed(gs, gat)'
  BY <1>7, <1>10 DEF Placed
<1>12. ASSUME NEW j \in 1 .. m
       PROVE  at[j + 1] < N /\ PageAt(drv.next, gat[j]) = PageAt(base, at[j + 1])
  <2>1. at[j + 1] <= at[m + 1] /\ at[m + 1] < N /\ at[m + 1] \in Nat /\ at[j + 1] \in Nat
    BY <1>9, PlacedBounds DEF Chain
  <2>2. at[j + 1] < N
    BY <2>1, Sizes
  <2>3. gat[j] \in Nat /\ q + gat[j] < N /\ at[j + 1] = q + gat[j]
    BY <1>10, <2>2
  <2> QED
    BY <1>3, <1>4, <2>2, <2>3, PageAtTwice
<1>13. Len(gs) + 1 = m /\ m \in 1 .. m
  BY <1>9, <1>10
<1>14. card'.curr = PageAt(drv.next, gat[Len(gs) + 1])
  <2>1. card.curr = PageAt(base, at[m + 1])
    BY <1>1, <1>9 DEF Chain
  <2> QED
    BY <1>5, <1>12, <1>13, <2>1
<1>15. ASSUME NEW j \in 1 .. Len(gs), NEW i \in 0 .. Size(gs[j])
       PROVE  mem[Around(PageAt(drv.next, gat[j]) * PageSize, i)] =
                IF i = 0 THEN Header(PageAt(drv.next, gat[j] + PagesNeeded(gs[j])), Size(gs[j]) + 1)
                ELSE Data(gs[j], i)
  <2>1. j \in 1 .. m - 1 /\ j \in 1 .. m /\ j + 1 \in 1 .. m /\ gs[j] = fs[j + 1]
    BY <1>9, <1>10
  <2>2. Whole(base, at[j + 1], gs[j])
    BY <1>1, <1>9, <2>1 DEF Chain
  <2>3. gat[j] + PagesNeeded(gs[j]) = gat[j + 1]
        /\ at[j + 1] + PagesNeeded(gs[j]) = at[j + 1 + 1]
    BY <1>9, <1>10, <2>1, PlacedBounds DEF Chain, Placed
  <2>4. PageAt(drv.next, gat[j]) = PageAt(base, at[j + 1])
        /\ PageAt(drv.next, gat[j + 1]) = PageAt(base, at[j + 1 + 1])
    BY <1>12, <2>1
  <2> QED
    BY <2>2, <2>3, <2>4 DEF Whole, HoldsAt
<1>16. ASSUME NEW j \in 1 .. Len(gs) PROVE Whole(NextRead, gat[j], gs[j])'
  BY <1>5, <1>6, <1>15 DEF Whole, HoldsAt
<1>17. Chain(gs, gat)'
  BY <1>6, <1>11, <1>14, <1>16 DEF Chain
<1>18. Reading(gs, gat)'
  BY <1>5 DEF Reading
<1>19. delivered = << >>
  BY <1>3 DEF RingInv, Quiet
<1>20. delivered' = Contents(fs[1])
  <2>1. Size(fs[1]) - 0 = Size(fs[1])
    BY <1>4
  <2> QED
    BY <1>3, <1>5, <2>1 DEF Contents
<1> QED
  BY <1>3, <1>17, <1>18, <1>19, <1>20

-----------------------------------------------------------------------------
\* What a step makes of the frames while the card stays up.
Stays(fs, gs) == gs = fs /\ (delivered' = delivered \/ delivered' = << >>)

Puts(fs, gs) == /\ \E f \in Frame : gs = Append(fs, f)
                /\ delivered' = delivered

Takes(fs, gs) == /\ Len(fs) >= 1 /\ gs = Tail(fs)
                 /\ delivered = << >> /\ delivered' = Contents(fs[1])

Became(fs, gs) == Stays(fs, gs) \/ Puts(fs, gs) \/ Takes(fs, gs)

RingAfter(fs) == \E gs, gat : Chain(gs, gat)' /\ Reading(gs, gat)' /\ Became(fs, gs)

\* A step that neither reads nor writes the ring.
LEMMA Elsewhere ==
    ASSUME RingInv, Up, NEW fs, NEW at, Chain(fs, at), UNCHANGED mem,
           card'.curr = card.curr, card'.bnry = card.bnry, drv'.behind = drv.behind,
           drv'.pc \notin {"header", "copy"},
           delivered' = delivered \/ delivered' = << >>
    PROVE  RingAfter(fs)
<1>1. Chain(fs, at)'
  BY RingStays
<1>2. Reading(fs, at)'
  BY DEF Reading
<1>3. Became(fs, fs)
  BY DEF Became, Stays
<1> QED
  BY <1>1, <1>2, <1>3 DEF RingAfter

LEMMA PollRing ==
    ASSUME RingInv, Up, NEW fs, NEW at, Chain(fs, at), Reading(fs, at), Poll
    PROVE  RingAfter(fs)
<1>1. PICK f : f = Head(rxQueue)
  OBVIOUS
<1>2. UNCHANGED <<drv, delivered>> /\ Receive(f) /\ f \in Frame
  BY <1>1 DEF Poll, RingInv, Quiet
<1>3. CASE UNCHANGED mem /\ card'.curr = card.curr /\ card'.bnry = card.bnry
           /\ card'.rbcr = card.rbcr /\ card'.rdar = card.rdar
  <2>1. Chain(fs, at)'
    BY <1>2, <1>3, RingStays
  <2>2. Reading(fs, at)'
    BY <1>2, <1>3 DEF Reading, NextRead
  <2>3. Became(fs, fs)
    BY <1>2 DEF Became, Stays
  <2> QED
    BY <2>1, <2>2, <2>3 DEF RingAfter
<1>4. CASE Fits(f) /\ Store(f) /\ card' = [Raise({"PRX"}) EXCEPT !.curr = NextPage(f)]
  <2>1. /\ card'.curr = NextPage(f) /\ card'.bnry = card.bnry
        /\ card'.rbcr = card.rbcr /\ card'.rdar = card.rdar
    BY <1>4 DEF Raise, RingInv, SendInv, Shape
  <2>2. PICK gs : gs = Append(fs, f)
    OBVIOUS
  <2>3. \E gat : Chain(gs, gat)' /\ Reading(gs, gat)'
    BY <1>2, <1>4, <2>1, <2>2, ReceivePuts
  <2>4. Became(fs, gs)
    BY <1>2, <2>2 DEF Became, Puts
  <2> QED
    BY <2>3, <2>4 DEF RingAfter
<1>5. CASE card' = Raise({"OVW"}) /\ UNCHANGED mem
  BY <1>3, <1>5 DEF Raise, RingInv, SendInv, Shape
<1>6. CASE UNCHANGED <<card, mem>>
  BY <1>3, <1>6
<1> QED
  BY <1>2, <1>4, <1>5, <1>6 DEF Receive

LEMMA ReadingRing ==
    ASSUME RingInv, Up, NEW fs, NEW at, Chain(fs, at)', Reading(fs, at)', UNCHANGED delivered
    PROVE  RingAfter(fs)
<1>1. Became(fs, fs)
  BY DEF Became, Stays
<1> QED
  BY <1>1 DEF RingAfter

LEMMA HandlerRing ==
    ASSUME RingInv, Up, NEW fs, NEW at, Chain(fs, at), Reading(fs, at), Handler
    PROVE  RingAfter(fs)
<1> USE DEF RingInv, SendInv, Shape
<1>1. CASE Acknowledge
  BY <1>1, Elsewhere DEF Acknowledge, WriteIsr
<1>2. CASE StopCard
  BY <1>2, Elsewhere DEF StopCard, Command, Goto
<1>3. CASE RingEmpty
  BY <1>3, Elsewhere DEF RingEmpty, Command, Goto
<1>4. CASE HandOver
  BY <1>4, Elsewhere DEF HandOver, Goto
<1>5. CASE Look
  BY <1>5, LookReads, ReadingRing DEF Look
<1>6. CASE ReadHeader
  BY <1>6, HeaderReads, ReadingRing DEF ReadHeader
<1>7. CASE ReadFrame
  BY <1>7, CopyReads, ReadingRing DEF ReadFrame
<1>8. CASE Release
  <2>1. PICK gs : gs = Tail(fs)
    OBVIOUS
  <2>2. /\ \E gat : Chain(gs, gat)' /\ Reading(gs, gat)'
        /\ Len(fs) >= 1 /\ delivered = << >> /\ delivered' = Contents(fs[1])
    BY <1>8, <2>1, ReleaseTakes
  <2>3. Became(fs, gs)
    BY <2>1, <2>2 DEF Became, Takes
  <2> QED
    BY <2>2, <2>3 DEF RingAfter
<1> QED
  BY <1>1, <1>2, <1>3, <1>4, <1>5, <1>6, <1>7, <1>8 DEF Handler

\* An upload stays below the ring.
LEMMA UploadRing ==
    ASSUME RingInv, Up, NEW fs, NEW at, Chain(fs, at), Upload
    PROVE  RingAfter(fs)
<1>1. /\ drv.pc = "upload" /\ card.rbcr # 0 /\ UNCHANGED <<drv, delivered>>
      /\ card' = DmaStep
      /\ mem' = IF card.rdar \in Ram
                THEN [mem EXCEPT ![card.rdar] = Packet[drv.txLen - card.rbcr + 1]] ELSE mem
  BY DEF Upload, DmaWrite
<1>2. /\ drv.txLen \in TxLengths /\ card.rbcr \in 0 .. drv.txLen
      /\ card.rdar = TxBase + (drv.txLen - card.rbcr)
  BY <1>1 DEF RingInv, SendInv, Uploading
<1>3. card.rdar < DefStart * PageSize
  <2>1. drv.txLen \in Nat /\ TxBase \in Nat /\ TxBase + drv.txLen <= DefStart * PageSize
        /\ DefStart * PageSize \in Nat
    BY <1>2, BufferBelowRing
  <2> QED
    BY <1>1, <1>2, <2>1
<1>4. \A a \in Ram : a >= DefStart * PageSize => mem'[a] = mem[a]
  <2> SUFFICES ASSUME NEW a \in Ram, a >= DefStart * PageSize PROVE mem'[a] = mem[a]
    OBVIOUS
  <2>1. a # card.rdar
    <3>1. a \in Int /\ card.rdar \in Int /\ DefStart * PageSize \in Int
      BY <1>2, BufferBelowRing DEF Ram
    <3> QED
      BY <1>3, <3>1
  <2> QED
    BY <1>1, <2>1
<1>5. card'.curr = card.curr /\ card'.bnry = card.bnry
  BY <1>1 DEF DmaStep, RingInv, SendInv, Shape
<1>6. Chain(fs, at)'
  BY <1>1, <1>4, <1>5, ChainKept DEF RingInv
<1>7. Reading(fs, at)'
  BY <1>1 DEF Reading
<1> QED
  BY <1>1, <1>6, <1>7, ReadingRing

LEMMA SetUpRing ==
    ASSUME RingInv, Up, NEW fs, NEW at, Chain(fs, at), SetUp
    PROVE  RingAfter(fs)
<1>1. drv.todo = <<"STA">> /\ drv.pc = "setup"
  <2>1. drv.todo \in {<< >>, <<"STA">>} /\ drv.todo \in Steps /\ drv.pc = "setup"
    BY UpOf DEF SetUp, RingInv, Quiet, UpIs
  <2>2. << >> \notin Steps
    BY Lengths DEF Steps, Setups
  <2> QED
    BY <2>1, <2>2
<1>2. Head(drv.todo) = "STA" /\ Len(drv.todo) = 1
  BY <1>1, Heads, Lengths
<1>3. Command(TRUE)
  BY <1>2, Apart DEF SetUp, WriteFor
<1>4. drv'.pc = "idle" /\ drv'.behind = drv.behind
  BY <1>2 DEF SetUp, RingInv, SendInv, Shape
<1>5. card'.curr = card.curr /\ card'.bnry = card.bnry /\ UNCHANGED mem
  BY <1>3 DEF Command, RingInv, SendInv, Shape
<1> QED
  BY <1>4, <1>5, Elsewhere DEF SetUp

LEMMA UpStep ==
    ASSUME RingInv, [Next]_vars, Up, Up', NEW fs, NEW at, Chain(fs, at), Reading(fs, at)
    PROVE  RingAfter(fs)
<1>1. CASE UNCHANGED <<card, mem, drv, delivered>>
  <2>1. Chain(fs, at)'
    BY <1>1, RingStays
  <2>2. Reading(fs, at)'
    BY <1>1 DEF Reading, NextRead
  <2> QED
    BY <1>1, <2>1, <2>2, ReadingRing
<1>2. ASSUME NEW f \in Frame, Arrive(f) PROVE RingAfter(fs)
  BY <1>1, <1>2 DEF Arrive
<1>3. CASE Poll
  BY <1>3, PollRing
<1>4. CASE SetUp
  BY <1>4, SetUpRing
<1>5. CASE ResetCard
  <2>1. PICK setup \in Setups : drv'.todo = setup
    BY <1>5 DEF ResetCard, StartOver, RingInv, SendInv, Shape
  <2>2. "CURR" \in ToWrite'
    <3>1. ToWrite' = RangeOf(setup)
      BY <2>1 DEF ToWrite, RangeOf
    <3>2. RangeOf(<<"page 0", "CURR", "STA">>) = {"page 0", "CURR", "STA"}
          /\ RangeOf(<<"page 0", "STA", "CURR">>) = {"page 0", "STA", "CURR"}
      BY RangeOfThree, Zenon
    <3> QED
      BY <2>1, <3>1, <3>2 DEF Setups
  <2> QED
    BY <2>2 DEF Up
<1>6. CASE Interrupt
  BY <1>6, Elsewhere DEF Interrupt, RingInv, SendInv, Shape
<1>7. CASE Handler
  BY <1>7, HandlerRing
<1>8. ASSUME NEW n \in TxLengths, Send(n) PROVE RingAfter(fs)
  BY <1>8, Elsewhere DEF Send, BeginDma, RingInv, SendInv, Shape
<1>9. CASE Upload
  BY <1>9, UploadRing
<1>10. CASE SendCommand
  BY <1>10, Elsewhere DEF SendCommand, Transmit, RingInv, SendInv, Shape
<1>11. CASE AwaitSent
  BY <1>11, Elsewhere DEF AwaitSent, WriteIsr, Goto, RingInv, SendInv, Shape
<1>12. CASE UNCHANGED vars
  BY <1>1, <1>12 DEF vars
<1> QED
  BY <1>2, <1>3, <1>4, <1>5, <1>6, <1>7, <1>8, <1>9, <1>10, <1>11, <1>12 DEF Next, Sender

-----------------------------------------------------------------------------
\* The rest of the invariant.
LEMMA TailsOfOne == Tail(<<"STA">>) = << >> /\ Tail(<<"CURR">>) = << >>
OBVIOUS

LEMMA LastStep ==
    ASSUME NEW todo \in Steps, Len(todo) = 1
    PROVE  todo \in {<<"STA">>, <<"CURR">>} /\ Tail(todo) = << >>
BY Lengths, Apart, TailsOfOne, Zenon DEF Steps, Setups

LEMMA SetUpQuiet == ASSUME RingInv, SetUp PROVE Quiet'
<1>1. /\ drv.pc = "setup" /\ drv.todo \in Steps
      /\ drv'.todo = Tail(drv.todo) /\ drv'.copied = drv.copied
      /\ drv'.pc = IF Len(drv.todo) = 1 THEN "idle" ELSE "setup"
      /\ UNCHANGED <<rxQueue, delivered>>
  BY DEF SetUp, RingInv, SendInv, Shape, Quiet
<1>2. Len(drv.todo) = 1 => drv'.todo = << >>
  BY <1>1, LastStep
<1>3. Len(drv.todo) # 1 => drv'.todo \in Steps
  BY <1>1, StepsSmaller
<1> QED
  BY <1>1, <1>2, <1>3 DEF RingInv, Quiet

\* The steps that neither begin nor go on with the set-up.
LEMMA OtherQuiet ==
    ASSUME RingInv, drv.pc # "setup", drv'.pc # "setup", drv'.todo = drv.todo,
           drv'.pc # "copy" => drv'.copied = << >>,
           drv'.pc # "hand" => delivered' = << >>,
           UNCHANGED rxQueue
    PROVE  Quiet'
BY DEF RingInv, Quiet

LEMMA ResetQuiet == ASSUME RingInv, Reset, StartOver, drv.pc # "copy", drv.pc # "hand",
                           UNCHANGED <<rxQueue, delivered>>
                    PROVE  Quiet'
<1>1. PICK setup \in Setups : drv' = [drv EXCEPT !.pc = "setup", !.todo = setup]
  BY DEF StartOver
<1>2. drv'.pc = "setup" /\ drv'.todo \in Steps /\ drv'.copied = drv.copied
  BY <1>1, SetupsBegin DEF RingInv, SendInv, Shape
<1> QED
  BY <1>2 DEF RingInv, Quiet

LEMMA NextQuiet == ASSUME RingInv, [Next]_vars PROVE Quiet'
<1> USE DEF RingInv, SendInv, Shape
<1>1. ASSUME NEW f \in Frame, Arrive(f) PROVE Quiet'
  <2>1. QueueLimit \in Nat
    BY NetworkAssumption
  <2>2. rxQueue \in Seq(Frame)
    BY DEF Quiet
  <2>3. Len(rxQueue) > QueueLimit => Tail(rxQueue) \in Seq(Frame)
    BY <2>1, <2>2
  <2>4. rxQueue' \in Seq(Frame) /\ UNCHANGED <<drv, delivered>>
    BY <1>1, <2>2, <2>3 DEF Arrive, EnqueueRx
  <2> QED
    BY <2>4 DEF Quiet
<1>2. CASE Poll
  <2>1. rxQueue \in Seq(Frame) /\ rxQueue # << >> /\ rxQueue' = Tail(rxQueue)
        /\ UNCHANGED <<drv, delivered>>
    BY <1>2 DEF Poll, Quiet
  <2>2. rxQueue' \in Seq(Frame)
    BY <2>1
  <2> QED
    BY <2>1, <2>2 DEF Quiet
<1>3. CASE SetUp
  BY <1>3, SetUpQuiet
<1>4. CASE ResetCard
  BY <1>4, ResetQuiet DEF ResetCard
<1>5. CASE Interrupt
  BY <1>5, OtherQuiet DEF Interrupt, Quiet
<1>6. CASE Acknowledge
  BY <1>6, OtherQuiet DEF Acknowledge, Quiet
<1>7. CASE StopCard \/ Look \/ RingEmpty
  BY <1>7, OtherQuiet, ZenonT(60) DEF StopCard, Look, RingEmpty, Goto, Quiet
<1>8. CASE ReadHeader
  <2>1. CASE Reset /\ StartOver
    BY <1>8, <2>1, ResetQuiet DEF ReadHeader
  <2>2. CASE drv' = [drv EXCEPT !.pc = "copy", !.next = At(card.rdar).next]
    BY <1>8, <2>2, OtherQuiet DEF ReadHeader, Quiet
  <2> QED
    BY <1>8, <2>1, <2>2 DEF ReadHeader
<1>9. CASE ReadFrame
  BY <1>9, OtherQuiet DEF ReadFrame, Quiet
<1>10. CASE Release
  BY <1>10, OtherQuiet DEF Release, Quiet
<1>11. CASE HandOver
  BY <1>11, OtherQuiet DEF HandOver, Goto, Quiet
<1>12. ASSUME NEW n \in TxLengths, Send(n) PROVE Quiet'
  BY <1>12, OtherQuiet DEF Send, Quiet
<1>13. CASE Upload
  BY <1>13 DEF Upload, Quiet
<1>14. CASE SendCommand
  BY <1>14, OtherQuiet DEF SendCommand, Quiet
<1>15. CASE AwaitSent
  BY <1>15, OtherQuiet DEF AwaitSent, Goto, Quiet
<1>16. CASE UNCHANGED vars
  BY <1>16 DEF vars, Quiet
<1> QED
  BY <1>1, <1>2, <1>3, <1>4, <1>5, <1>6, <1>7, <1>8, <1>9, <1>10, <1>11, <1>12, <1>13,
     <1>14, <1>15, <1>16 DEF Next, Handler, Sender

LEMMA SameStage ==
    ASSUME drv'.todo = drv.todo
    PROVE  ToWrite' = ToWrite /\ Up' = Up
<1>1. ToWrite' = ToWrite
  BY DEF ToWrite
<1> QED
  BY <1>1 DEF Up

\* What a step of the set-up leaves to write.
LEMMA SetUpStages ==
    ASSUME RingInv, SetUp
    PROVE  /\ Head(drv.todo) \in {"page 0", "CURR", "STA"}
           /\ Head(drv.todo) # "page 0" => "page 0" \notin ToWrite /\ "page 0" \notin ToWrite'
           /\ Head(drv.todo) = "CURR" => ~Up /\ Up'
           /\ Head(drv.todo) # "CURR" => (Up' <=> Up)
<1>1. drv.todo \in Steps /\ drv'.todo = Tail(drv.todo)
  BY DEF SetUp, RingInv, Quiet, SendInv, Shape
<1>2. ToWriteIs /\ ToWriteIs'
  BY ToWriteOf, PTL
<1> USE DEF ToWriteIs, Up
<1>3. CASE drv.todo = <<"page 0", "CURR", "STA">>
  <2>1. drv'.todo = <<"CURR", "STA">> /\ Head(drv.todo) = "page 0" /\ drv.todo \in Setups
    BY <1>1, <1>3, Tails, Heads, Zenon DEF Setups
  <2> QED
    BY <1>2, <2>1
<1>4. CASE drv.todo = <<"page 0", "STA", "CURR">>
  <2>1. drv'.todo = <<"STA", "CURR">> /\ Head(drv.todo) = "page 0" /\ drv.todo \in Setups
    BY <1>1, <1>4, Tails, Heads, Zenon DEF Setups
  <2> QED
    BY <1>2, <2>1
<1>5. CASE drv.todo = <<"CURR", "STA">>
  <2>1. drv'.todo = <<"STA">> /\ Head(drv.todo) = "CURR"
    BY <1>1, <1>5, Tails, Heads, Zenon
  <2> QED
    BY <1>2, <1>5, <2>1
<1>6. CASE drv.todo = <<"STA", "CURR">>
  <2>1. drv'.todo = <<"CURR">> /\ Head(drv.todo) = "STA"
    BY <1>1, <1>6, Tails, Heads, Zenon
  <2> QED
    BY <1>2, <1>6, <2>1
<1>7. CASE drv.todo = <<"STA">>
  <2>1. drv'.todo = << >> /\ Head(drv.todo) = "STA"
    BY <1>1, <1>7, TailsOfOne, Heads, Zenon
  <2> QED
    BY <1>2, <1>7, <2>1
<1>8. CASE drv.todo = <<"CURR">>
  <2>1. drv'.todo = << >> /\ Head(drv.todo) = "CURR"
    BY <1>1, <1>8, TailsOfOne, Heads, Zenon
  <2> QED
    BY <1>2, <1>8, <2>1
<1> QED
  BY <1>1, <1>3, <1>4, <1>5, <1>6, <1>7, <1>8 DEF Steps, Setups

LEMMA SetUpInUse == ASSUME RingInv, SetUp PROVE InUse'
<1>1. CASE Head(drv.todo) = "page 0"
  <2>1. PageZero
    BY <1>1, Apart, SetUpStages DEF SetUp, WriteFor
  <2>2. card'.pstart = DefStart /\ card'.pstop = MemEnd /\ card'.bnry = DefStart
    BY <2>1 DEF PageZero, RingInv, SendInv, Shape
  <2>3. DefStart \in RingPage
    BY Sizes DEF RingPage
  <2> QED
    BY <2>2, <2>3 DEF InUse, RingPage
<1>2. CASE Head(drv.todo) # "page 0"
  <2>1. "page 0" \notin ToWrite /\ (~Up' => ~Up)
    BY <1>2, SetUpStages
  <2>2. card'.pstart = card.pstart /\ card'.pstop = card.pstop /\ card'.bnry = card.bnry
    BY <1>2 DEF SetUp, WriteFor, Write, Command, RingInv, SendInv, Shape
  <2> QED
    BY <2>1, <2>2 DEF InUse, RingInv
<1> QED
  BY <1>1, <1>2

LEMMA ResetStage == ASSUME RingInv, StartOver
                    PROVE  "page 0" \in ToWrite' /\ "CURR" \in ToWrite'
<1>1. PICK setup \in Setups : drv'.todo = setup
  BY DEF StartOver, RingInv, SendInv, Shape
<1>2. ToWriteIs'
  BY ToWriteOf, PTL
<1> QED
  BY <1>1, <1>2 DEF ToWriteIs

LEMMA SameInUse ==
    ASSUME RingInv, drv'.todo = drv.todo, card'.pstart = card.pstart,
           card'.pstop = card.pstop, card'.bnry = card.bnry
    PROVE  InUse'
BY SameStage DEF RingInv, InUse

LEMMA ReleaseInUse == ASSUME RingInv, Release PROVE InUse'
<1>1. UpIs /\ drv.pc = "copy" /\ Up
  BY UpOf DEF Release, RingInv, UpIs
<1>2. PICK fs, at : Chain(fs, at) /\ Reading(fs, at)
  BY <1>1 DEF RingInv, UnreadFrames
<1>3. drv.next \in RingPage
  <2>1. Len(fs) >= 1 /\ drv.next = PageAt(NextRead, at[2])
    BY <1>1, <1>2 DEF Reading
  <2> QED
    BY <1>1, <1>2, <2>1, FirstFrame
<1>4. /\ card'.bnry = IF drv.behind THEN Before(drv.next) ELSE drv.next
      /\ card'.pstart = card.pstart /\ card'.pstop = card.pstop
      /\ drv'.todo = drv.todo
  BY DEF Release, Write, RingInv, SendInv, Shape
<1>5. card'.bnry \in RingPage
  BY <1>3, <1>4, Sizes DEF Before, RingPage
<1>6. Up' /\ ToWrite' = ToWrite
  BY <1>1, <1>4, SameStage
<1> QED
  BY <1>4, <1>5, <1>6 DEF RingInv, InUse

LEMMA NextInUse == ASSUME RingInv, [Next]_vars PROVE InUse'
<1> USE DEF RingInv, SendInv, Shape
<1>1. CASE UNCHANGED <<card, drv>>
  BY <1>1, SameInUse
<1>2. ASSUME NEW f \in Frame, Arrive(f) PROVE InUse'
  BY <1>1, <1>2 DEF Arrive
<1>3. CASE Poll
  BY <1>3, SameInUse DEF Poll, Receive, Raise
<1>4. CASE SetUp
  BY <1>4, SetUpInUse
<1>5. CASE ResetCard
  BY <1>5, ResetStage DEF ResetCard, InUse
<1>6. CASE Interrupt
  BY <1>6, SameInUse DEF Interrupt
<1>7. CASE Acknowledge \/ StopCard \/ RingEmpty
  BY <1>7, SameInUse DEF Acknowledge, StopCard, RingEmpty, WriteIsr, Command, Goto
<1>8. CASE Look
  BY <1>8, SameInUse DEF Look, BeginDma, Goto
<1>9. CASE ReadHeader
  <2>1. CASE Reset /\ StartOver
    BY <2>1, ResetStage DEF InUse
  <2>2. CASE /\ card' = [DmaStep EXCEPT !.rdar = NextRead * PageSize + 1,
                                        !.rbcr = At(card.rdar).total - 1]
             /\ drv' = [drv EXCEPT !.pc = "copy", !.next = At(card.rdar).next]
    BY <2>2, SameInUse DEF DmaStep
  <2> QED
    BY <1>9, <2>1, <2>2 DEF ReadHeader
<1>10. CASE ReadFrame
  BY <1>10, SameInUse DEF ReadFrame, DmaRead, DmaStep
<1>11. CASE Release
  BY <1>11, ReleaseInUse
<1>12. CASE HandOver
  BY <1>12, SameInUse DEF HandOver, Goto
<1>13. ASSUME NEW n \in TxLengths, Send(n) PROVE InUse'
  BY <1>13, SameInUse DEF Send, BeginDma
<1>14. CASE Upload
  BY <1>14, SameInUse DEF Upload, DmaWrite, DmaStep
<1>15. CASE SendCommand
  BY <1>15, SameInUse DEF SendCommand, Transmit
<1>16. CASE AwaitSent
  BY <1>16, SameInUse DEF AwaitSent, WriteIsr, Goto
<1>17. CASE UNCHANGED vars
  BY <1>1, <1>17 DEF vars
<1> QED
  BY <1>2, <1>3, <1>4, <1>5, <1>6, <1>7, <1>8, <1>9, <1>10, <1>11, <1>12, <1>13, <1>14,
     <1>15, <1>16, <1>17 DEF Next, Handler, Sender

-----------------------------------------------------------------------------
\* CURR is written: the ring is empty, and BNRY stands where the driver begins.
LEMMA UpComes ==
    ASSUME RingInv, [Next]_vars, ~Up, Up'
    PROVE  SetUp /\ \E at : Chain(<< >>, at)' /\ Reading(<< >>, at)'
<1> USE DEF RingInv, SendInv, Shape
<1>1. drv.pc = "setup"
  BY UpOf DEF UpIs
<1>2. SetUp
  <2>1. drv'.todo # drv.todo
    BY SameStage
  <2>2. ASSUME NEW f \in Frame, Arrive(f) PROVE drv' = drv
    BY <2>2 DEF Arrive
  <2>3. Poll => drv' = drv
    BY DEF Poll
  <2>4. UNCHANGED vars => drv' = drv
    BY DEF vars
  <2> QED
    BY <1>1, <2>1, <2>2, <2>3, <2>4
       DEF Next, ResetCard, Interrupt, Handler, Acknowledge, StopCard, Look, RingEmpty,
           ReadHeader, ReadFrame, Release, HandOver, Send, Sender, Upload, SendCommand,
           AwaitSent
<1>3. Head(drv.todo) = "CURR"
  BY <1>2, SetUpStages
<1>4. Write("curr", FirstRead)
  BY <1>2, <1>3, Apart DEF SetUp, WriteFor
<1>5. "page 0" \notin ToWrite /\ card.bnry = DefStart
  <2>1. "page 0" \notin ToWrite
    BY <1>2, <1>3, Apart, SetUpStages
  <2> QED
    BY <2>1 DEF InUse
<1>6. card'.curr = FirstRead /\ card'.bnry = DefStart
  BY <1>4, <1>5 DEF Write
<1>7. drv'.behind = drv.behind /\ drv'.pc \in {"setup", "idle"}
  BY <1>2 DEF SetUp
<1>8. NextRead' = FirstRead /\ Held' = Held /\ FirstRead \in RingPage
  BY <1>6, <1>7, Sizes DEF NextRead, FirstRead, Held, After, RingPage
<1>9. PICK at : at = [j \in 1 .. 1 |-> 0]
  OBVIOUS
<1>10. PICK none : none = << >>
  OBVIOUS
<1>11. none \in Seq(Frame) /\ Len(none) = 0
  BY <1>10
<1>12. Held \in Nat /\ Held < N
  BY Sizes DEF Held
<1>13. Placed(none, at)
  BY <1>9, <1>11, <1>12, Sizes DEF Placed
<1>14. Placed(none, at)'
  BY <1>8, <1>13 DEF Placed
<1>15. PageAt(FirstRead, 0) = FirstRead
  BY <1>8, Sizes DEF PageAt, RingPage
<1>16. card'.curr = PageAt(FirstRead, at[Len(none) + 1])
  BY <1>6, <1>9, <1>11, <1>15
<1>17. Chain(none, at)'
  BY <1>8, <1>11, <1>14, <1>16 DEF Chain
<1>18. Reading(none, at)'
  BY <1>7 DEF Reading
<1> QED
  BY <1>2, <1>10, <1>17, <1>18

LEMMA NextRing == RingInv /\ [Next]_vars => RingInv'
<1> SUFFICES ASSUME RingInv, [Next]_vars PROVE RingInv'
  OBVIOUS
<1>1. SendInv'
  BY NextSend DEF RingInv
<1>2. Quiet' /\ InUse'
  BY NextQuiet, NextInUse
<1>3. ASSUME Up, Up' PROVE UnreadFrames'
  <2>1. PICK fs, at : Chain(fs, at) /\ Reading(fs, at)
    BY <1>3 DEF RingInv, UnreadFrames
  <2>2. RingAfter(fs)
    BY <1>3, <2>1, UpStep
  <2> QED
    BY <2>2 DEF RingAfter, UnreadFrames
<1>4. ASSUME ~Up, Up' PROVE UnreadFrames'
  BY <1>4, UpComes DEF UnreadFrames
<1> QED
  BY <1>1, <1>2, <1>3, <1>4 DEF RingInv

LEMMA InitRing == Init => RingInv
<1> SUFFICES ASSUME Init PROVE RingInv
  OBVIOUS
<1>1. SendInv
  BY InitSend
<1>2. drv.pc = "setup" /\ drv.todo \in Setups /\ drv.copied = << >> /\ delivered = << >>
      /\ rxQueue = << >>
  BY DEF Init
<1>3. Quiet
  BY <1>2, SetupsBegin DEF Quiet
<1>4. "page 0" \in ToWrite /\ "CURR" \in ToWrite
  BY <1>2, ToWriteOf DEF ToWriteIs
<1> QED
  BY <1>1, <1>3, <1>4 DEF RingInv, InUse, Up

-----------------------------------------------------------------------------
(***************************************************************************)
(* Unread follows the headers; it finds the chain.                         *)
(***************************************************************************)
\* Induction over the naturals, from the well-foundedness of finite sets.
LEMMA Induction ==
    ASSUME NEW S, 0 \in S, \A n \in Nat : n \in S => n + 1 \in S
    PROVE  \A n \in Nat : n \in S
<1> DEFINE bad == {n \in Nat : n \notin S}
           below == {0 .. n : n \in bad}
<1> SUFFICES ASSUME bad # {} PROVE FALSE
  OBVIOUS
<1>1. below \subseteq FiniteSubsetsOf(Nat) /\ below # {}
  <2>1. \A n \in bad : 0 .. n \in SUBSET Nat /\ IsFiniteSet(0 .. n)
    BY FS_Interval
  <2> QED
    BY <2>1 DEF FiniteSubsetsOf
<1>2. IsWellFoundedOn(StrictSubsetOrdering(Nat), FiniteSubsetsOf(Nat))
  BY FS_StrictSubsetOrderingWellFounded
<1> HIDE DEF below
<1>3. PICK x \in below : \A y \in below : <<y, x>> \notin StrictSubsetOrdering(Nat)
  BY <1>1, <1>2, WFMin
<1>4. PICK n \in bad : x = 0 .. n
  BY DEF below
<1>5. n # 0 /\ n - 1 \in Nat /\ n - 1 \notin S
  <2>1. n \in Nat /\ n \notin S /\ n # 0
    OBVIOUS
  <2>2. n - 1 \in Nat /\ (n - 1) + 1 = n
    BY <2>1
  <2> QED
    BY <2>1, <2>2
<1>6. 0 .. (n - 1) \in below
  BY <1>5 DEF below
<1>7. 0 .. (n - 1) \subseteq 0 .. n /\ 0 .. (n - 1) # 0 .. n
  BY <1>5
<1>8. <<0 .. (n - 1), x>> \in StrictSubsetOrdering(Nat)
  BY <1>4, <1>5, <1>7 DEF StrictSubsetOrdering
<1> QED
  BY <1>3, <1>6, <1>8

LEMMA FollowExists ==
    ASSUME NEW a, NEW n \in Nat
    PROVE  \E f : f = [k \in 0 .. n |-> IF k = 0 THEN a ELSE Follow(f[k - 1])]
<1> DEFINE Upto(m) == \E f : f = [k \in 0 .. m |-> IF k = 0 THEN a ELSE Follow(f[k - 1])]
           S == {m \in Nat : Upto(m)}
<1>1. Upto(0)
  <2> DEFINE f == [k \in 0 .. 0 |-> a]
  <2>1. f = [k \in 0 .. 0 |-> IF k = 0 THEN a ELSE Follow(f[k - 1])]
    OBVIOUS
  <2> QED
    BY <2>1
<1>2. ASSUME NEW m \in Nat, Upto(m) PROVE Upto(m + 1)
  <2>1. PICK f : f = [k \in 0 .. m |-> IF k = 0 THEN a ELSE Follow(f[k - 1])]
    BY <1>2
  <2> DEFINE h == [k \in 0 .. m + 1 |-> IF k <= m THEN f[k] ELSE Follow(f[m])]
  <2>2. h = [k \in 0 .. m + 1 |-> IF k = 0 THEN a ELSE Follow(h[k - 1])]
    <3>1. ASSUME NEW k \in 0 .. m + 1 PROVE h[k] = IF k = 0 THEN a ELSE Follow(h[k - 1])
      <4>1. CASE k <= m
        BY <2>1, <4>1
      <4>2. CASE k = m + 1
        BY <4>2
      <4> QED
        BY <4>1, <4>2
    <3> HIDE DEF h
    <3>2. h = [k \in 0 .. m + 1 |-> h[k]]
      BY DEF h
    <3> QED
      BY <3>1, <3>2
  <2> HIDE DEF h
  <2> QED
    BY <2>2
<1> HIDE DEF Upto
<1>3. \A m \in Nat : m \in S
  <2>1. 0 \in S /\ \A m \in Nat : m \in S => m + 1 \in S
    BY <1>1, <1>2
  <2> HIDE DEF S
  <2> QED
    BY <2>1, Induction
<1>4. Upto(n)
  BY <1>3
<1> QED
  BY <1>4 DEF Upto

\* The j-th frame, at the page where it begins.
LEMMA FrameHeld ==
    ASSUME RingInv, Up, NEW fs, NEW at, Chain(fs, at), NEW j \in 1 .. Len(fs),
           NEW page, page = PageAt(NextRead, at[j])
    PROVE  /\ page \in Page /\ page # card.curr
           /\ mem[page * PageSize].kind = "header"
           /\ mem[page * PageSize].next = PageAt(NextRead, at[j + 1])
           /\ FrameAt(page) = Contents(fs[j])
<1>1. PICK base \in RingPage : base = NextRead
  BY NextReadInRing DEF RingInv
<1>2. PICK f, o, q : f = fs[j] /\ o = at[j] /\ q = at[j + 1]
  OBVIOUS
<1>3. /\ o \in Nat /\ o < N /\ q \in Nat /\ q = o + PagesNeeded(f) /\ q <= N
      /\ page = PageAt(base, o)
  <2>1. Placed(fs, at)
    BY DEF Chain
  <2>2. /\ at[j] \in Nat /\ at[j + 1] \in Nat /\ at[Len(fs) + 1] \in Nat
        /\ at[j + 1] = at[j] + PagesNeeded(fs[j])
        /\ at[j + 1] <= at[Len(fs) + 1] /\ at[Len(fs) + 1] < N /\ at[j] < N
    BY <2>1, PlacedBounds
  <2> QED
    BY <1>1, <1>2, <2>2, Sizes
<1>4. page \in RingPage
  BY <1>3, PageAtInRing
<1>5. page \in Page
  BY <1>4, Sizes DEF Page, RingPage
<1>6. page # card.curr
  <2>1. at[j] < at[Len(fs) + 1] /\ at[Len(fs) + 1] \in Nat /\ at[Len(fs) + 1] < N
    BY PlacedBounds DEF Chain
  <2>2. card.curr = PageAt(base, at[Len(fs) + 1])
    BY <1>1 DEF Chain
  <2> QED
    BY <1>2, <1>3, <2>1, <2>2, PagesDiffer
<1>7. Whole(base, o, f) /\ Size(f) \in Nat
  BY <1>1, <1>2, FrameFits DEF Chain
<1>8. ASSUME NEW i \in 0 .. Size(f)
      PROVE  /\ Around(page * PageSize, i) \in Address
             /\ mem[Around(page * PageSize, i)] =
                   IF i = 0 THEN Header(PageAt(base, q), Size(f) + 1) ELSE Data(f, i)
  <2>1. o + PagesNeeded(f) <= N
    BY <1>3
  <2>2. Around(page * PageSize, i) \in Address
    BY <1>3, <2>1, FrameAddress
  <2> QED
    BY <1>3, <1>7, <2>2 DEF Whole, HoldsAt
<1>9. /\ page * PageSize \in Nat /\ page * PageSize + PageSize <= MemEnd * PageSize
      /\ page \in Int
  BY <1>4, PageProducts
<1>10. Around(page * PageSize, 0) = page * PageSize
  BY <1>9, Sizes, RingProducts DEF Around
<1>11. mem[page * PageSize] = Header(PageAt(base, q), Size(f) + 1)
  BY <1>7, <1>8, <1>10
<1>12. FrameAt(page) = Contents(f)
  <2>1. mem[page * PageSize].total - 1 = Size(f)
    BY <1>7, <1>11 DEF Header
  <2>2. (page - MemEnd + DefStart) * PageSize
           = page * PageSize - MemEnd * PageSize + DefStart * PageSize
    <3>1. MemEnd \in Int /\ DefStart \in Int /\ page - MemEnd \in Int
      BY <1>9, Sizes
    <3> QED
      BY <1>9, <3>1, Distributes
  <2>3. ASSUME NEW i \in 1 .. Size(f)
        PROVE  At(IF page * PageSize + i >= MemEnd * PageSize
                  THEN (page - MemEnd + DefStart) * PageSize + i ELSE page * PageSize + i)
                 = Data(f, i)
    <3>1. i \in 0 .. Size(f) /\ i # 0 /\ i \in Nat
      BY <1>7
    <3>2. Around(page * PageSize, i) =
            IF page * PageSize + i >= MemEnd * PageSize
            THEN (page - MemEnd + DefStart) * PageSize + i ELSE page * PageSize + i
      <4>1. PICK x, d, m, z : /\ x = page * PageSize /\ d = DefStart * PageSize
                              /\ m = MemEnd * PageSize
                              /\ z = (page - MemEnd + DefStart) * PageSize
        OBVIOUS
      <4>2. x \in Nat /\ d \in Nat /\ m \in Nat /\ i \in Nat /\ z = x - m + d
        BY <1>9, <2>2, <3>1, <4>1, RingProducts, Sizes
      <4>3. d + (x + i - m) = z + i
        BY <4>2
      <4> QED
        BY <4>1, <4>3 DEF Around
    <3>3. At(Around(page * PageSize, i)) = Data(f, i)
      BY <1>8, <3>1 DEF At
    <3> QED
      BY <3>2, <3>3
  <2> QED
    BY <2>1, <2>3 DEF FrameAt, Contents
<1> QED
  BY <1>1, <1>2, <1>5, <1>6, <1>11, <1>12 DEF Header

\* Every frame takes a page, so there are fewer of them than pages.
LEMMA FewerThanPages ==
    ASSUME NEW fs, NEW at, Placed(fs, at)
    PROVE  Len(fs) < N
<1>1. PICK m \in Nat : m = Len(fs)
  BY LastPlace
<1>2. /\ at \in [1 .. m + 1 -> Nat] /\ at[1] = 0
      /\ \A j \in 1 .. m : at[j + 1] = at[j] + PagesNeeded(fs[j])
  BY <1>1 DEF Placed
<1> DEFINE S == {j \in Nat : j <= m => at[j + 1] >= j}
<1>3. 0 \in S
  BY <1>2
<1>4. ASSUME NEW j \in Nat, j \in S PROVE j + 1 \in S
  <2> SUFFICES ASSUME j + 1 <= m PROVE at[j + 1 + 1] >= j + 1
    OBVIOUS
  <2>1. j + 1 \in 1 .. m /\ j + 1 \in 1 .. m + 1 /\ at[j + 1] >= j
    BY <1>4
  <2>2. PICK p : p = PagesNeeded(fs[j + 1])
    OBVIOUS
  <2>3. p \in Nat /\ p >= 1
    BY <2>2, FrameFits
  <2>4. at[j + 1 + 1] = at[j + 1] + p /\ at[j + 1] \in Nat
    BY <1>2, <2>1, <2>2
  <2> QED
    BY <2>1, <2>3, <2>4
<1> HIDE DEF S
<1>5. m \in S
  BY <1>3, <1>4, Induction
<1>6. at[m + 1] >= m /\ at[m + 1] \in Nat
  BY <1>2, <1>5 DEF S
<1>7. at[m + 1] < N
  BY <1>1, LastPlace
<1> QED
  BY <1>1, <1>6, <1>7, Sizes

\* The contents of the frames from the j-th on.
Rest(fs, j) == [k \in 1 .. Len(fs) + 1 - j |-> Contents(fs[j - 1 + k])]

LEMMA RestStep ==
    ASSUME NEW fs, Len(fs) \in Nat, NEW j \in 1 .. Len(fs)
    PROVE  Rest(fs, j) = <<Contents(fs[j])>> \o Rest(fs, j + 1)
<1>1. PICK n \in Nat : n = Len(fs) - j
  OBVIOUS
<1>2. Len(fs) + 1 - j = n + 1 /\ Len(fs) + 1 - (j + 1) = n
  BY <1>1
<1>3. PICK C : C = [k \in 1 .. n + 1 |-> Contents(fs[j - 1 + k])]
  OBVIOUS
<1>4. Rest(fs, j) = C
  BY <1>2, <1>3 DEF Rest
<1>5. PICK D : D = [k \in 1 .. n |-> Contents(fs[j + k])]
  OBVIOUS
<1>6. Rest(fs, j + 1) = D
  <2>1. (j + 1) - 1 = j
    OBVIOUS
  <2> QED
    BY <1>2, <1>5, <2>1 DEF Rest
<1>7. PICK V : V = {Contents(fs[k]) : k \in 1 .. Len(fs)}
  OBVIOUS
<1>8. C \in Seq(V) /\ Len(C) = n + 1 /\ C[1] = Contents(fs[j])
  <2>1. \A k \in 1 .. n + 1 : j - 1 + k \in 1 .. Len(fs)
    BY <1>1
  <2>2. j - 1 + 1 = j
    OBVIOUS
  <2> QED
    BY <1>3, <1>7, <2>1, <2>2
<1>9. D \in Seq(V) /\ Len(D) = n
  <2>1. \A k \in 1 .. n : j + k \in 1 .. Len(fs)
    BY <1>1
  <2> QED
    BY <1>5, <1>7, <2>1
<1>10. \A k \in 1 .. n : C[k + 1] = D[k]
  <2> SUFFICES ASSUME NEW k \in 1 .. n PROVE C[k + 1] = D[k]
    OBVIOUS
  <2>1. k + 1 \in 1 .. n + 1 /\ j - 1 + (k + 1) = j + k
    BY <1>1
  <2> QED
    BY <1>3, <1>5, <2>1
<1>11. PICK one : one = <<Contents(fs[j])>>
  OBVIOUS
<1>12. one \in Seq(V) /\ Len(one) = 1 /\ one[1] = Contents(fs[j])
  BY <1>7, <1>11
<1>13. PICK E : E = one \o D
  OBVIOUS
<1>14. E \in Seq(V) /\ Len(E) = n + 1 /\ E[1] = C[1]
       /\ \A k \in 1 .. n : E[k + 1] = D[k]
  <2>1. /\ E \in Seq(V) /\ Len(E) = 1 + n
        /\ \A i \in 1 .. 1 + n : E[i] = IF i <= 1 THEN one[i] ELSE D[i - 1]
    <3>1. /\ one \o D \in Seq(V) /\ Len(one \o D) = Len(one) + Len(D)
          /\ \A i \in 1 .. Len(one) + Len(D) :
               (one \o D)[i] = IF i <= Len(one) THEN one[i] ELSE D[i - Len(one)]
      BY <1>9, <1>12, ConcatProperties, Zenon
    <3> QED
      BY <1>9, <1>12, <1>13, <3>1, Zenon
  <2>2. \A k \in 1 .. n : k + 1 \in 1 .. 1 + n /\ ~(k + 1 <= 1) /\ (k + 1) - 1 = k
    OBVIOUS
  <2> QED
    BY <1>8, <1>12, <2>1, <2>2
<1>15. \A i \in 1 .. n + 1 : E[i] = C[i]
  <2> SUFFICES ASSUME NEW i \in 1 .. n + 1, i # 1 PROVE E[i] = C[i]
    BY <1>14
  <2>1. PICK k \in 1 .. n : i = k + 1
    OBVIOUS
  <2> QED
    BY <1>10, <1>14, <2>1
<1>16. E = C
  BY <1>8, <1>14, <1>15, SeqEqual
<1> QED
  BY <1>4, <1>6, <1>11, <1>13, <1>16

\* Following the headers far enough from the page of a frame finds the rest.
LEMMA UnreadIs ==
    ASSUME RingInv, Up, NEW fs, NEW at, Chain(fs, at)
    PROVE  Unread = Rest(fs, 1)
<1>1. PICK m \in Nat : m = Len(fs)
  BY LastPlace DEF Chain
<1>2. PICK none : none = [page \in Page |-> IF page = card.curr THEN << >> ELSE << << >> >>]
  OBVIOUS
<1> DEFINE ring == MemEnd - DefStart
           from[n \in 0 .. ring] == IF n = 0 THEN none ELSE Follow(from[n - 1])
<1>3. Unread = from[ring][OldestRead]
  BY <1>2 DEF Unread
<1>4. from = CHOOSE f : f = [n \in 0 .. ring |-> IF n = 0 THEN none ELSE Follow(f[n - 1])]
  OBVIOUS
<1>5. ring \in Nat /\ ring = N
  BY Sizes DEF N
<1> HIDE DEF from, ring
<1>6. from[0] = none /\ \A n \in 1 .. ring : from[n] = Follow(from[n - 1])
  <2>1. \E f : f = [n \in 0 .. ring |-> IF n = 0 THEN none ELSE Follow(f[n - 1])]
    <3>1. ring \in Nat
      BY <1>5
    <3> QED
      BY <3>1, FollowExists, ZenonT(60)
  <2>2. from = [n \in 0 .. ring |-> IF n = 0 THEN none ELSE Follow(from[n - 1])]
    BY <1>4, <2>1
  <2>3. \A n \in 0 .. ring : from[n] = IF n = 0 THEN none ELSE Follow(from[n - 1])
    BY <2>2, Zenon
  <2>4. 0 \in 0 .. ring /\ \A n \in 1 .. ring : n \in 0 .. ring /\ n # 0
    BY <1>5
  <2> QED
    BY <2>3, <2>4, Zenon
<1> DEFINE Found(n) == \A j \in 1 .. m + 1 :
                          m + 1 - j <= n => from[n][PageAt(NextRead, at[j])] = Rest(fs, j)
           S == {n \in Nat : n <= ring => Found(n)}
<1>7. PageAt(NextRead, at[m + 1]) = card.curr /\ card.curr \in Page
  <2>1. card.curr = PageAt(NextRead, at[m + 1]) /\ at[m + 1] \in Nat /\ at[m + 1] < N
    BY <1>1, LastPlace DEF Chain
  <2>2. NextRead \in RingPage
    BY NextReadInRing DEF RingInv
  <2>3. card.curr \in RingPage
    BY <2>1, <2>2, PageAtInRing
  <2> QED
    BY <2>1, <2>3, Sizes DEF Page, RingPage
<1>8. Rest(fs, m + 1) = << >>
  <2>1. Len(fs) + 1 - (m + 1) = 0 /\ 1 .. 0 = {}
    BY <1>1
  <2>2. Rest(fs, m + 1) = [k \in 1 .. 0 |-> Contents(fs[(m + 1) - 1 + k])]
    BY <2>1 DEF Rest
  <2> QED
    BY <2>1, <2>2
<1>9. 0 \in S
  <2> SUFFICES ASSUME NEW j \in 1 .. m + 1, m + 1 - j <= 0
               PROVE  from[0][PageAt(NextRead, at[j])] = Rest(fs, j)
    OBVIOUS
  <2>1. j = m + 1
    OBVIOUS
  <2>2. from[0][card.curr] = << >>
    BY <1>2, <1>6, <1>7
  <2> QED
    BY <1>7, <1>8, <2>1, <2>2
<1>10. ASSUME NEW n \in Nat, n \in S PROVE n + 1 \in S
  <2> SUFFICES ASSUME n + 1 <= ring, NEW j \in 1 .. m + 1, m + 1 - j <= n + 1
               PROVE  from[n + 1][PageAt(NextRead, at[j])] = Rest(fs, j)
    OBVIOUS
  <2>1. PICK page : page = PageAt(NextRead, at[j])
    OBVIOUS
  <2>2. from[n + 1] = Follow(from[n])
    <3>1. n + 1 \in 1 .. ring /\ (n + 1) - 1 = n
      BY <1>5
    <3> QED
      BY <1>6, <3>1
  <2>3. CASE j = m + 1
    BY <1>7, <1>8, <2>1, <2>2, <2>3 DEF Follow
  <2>4. CASE j # m + 1
    <3>1. j \in 1 .. m /\ j + 1 \in 1 .. m + 1 /\ m + 1 - (j + 1) <= n /\ n <= ring
      BY <1>5, <2>4
    <3>2. /\ page \in Page /\ page # card.curr
          /\ mem[page * PageSize].kind = "header"
          /\ mem[page * PageSize].next = PageAt(NextRead, at[j + 1])
          /\ FrameAt(page) = Contents(fs[j])
      BY <1>1, <2>1, <3>1, FrameHeld, SMTT(30)
    <3>3. from[n][PageAt(NextRead, at[j + 1])] = Rest(fs, j + 1)
      BY <1>10, <3>1
    <3>4. from[n + 1][page] = <<Contents(fs[j])>> \o Rest(fs, j + 1)
      BY <2>2, <3>2, <3>3, SMTT(30) DEF Follow
    <3> QED
      BY <1>1, <2>1, <3>1, <3>4, RestStep
  <2> QED
    BY <2>3, <2>4
<1> HIDE DEF S
<1>11. ring \in S
  BY <1>5, <1>9, <1>10, Induction
<1>12. from[ring][PageAt(NextRead, at[1])] = Rest(fs, 1)
  <2>1. m < N /\ 1 \in 1 .. m + 1 /\ m + 1 - 1 <= ring
    BY <1>1, <1>5, FewerThanPages DEF Chain
  <2> QED
    BY <1>5, <1>11, <2>1 DEF S
<1>13. OldestRead = NextRead /\ PageAt(NextRead, at[1]) = NextRead
  <2>1. "page 0" \notin ToWrite
    BY UpOf DEF UpIs, RingInv
  <2>2. NextRead \in RingPage /\ at[1] = 0
    BY NextReadInRing DEF RingInv, Chain, Placed
  <2>3. PageAt(NextRead, 0) = NextRead
    BY <2>2, Sizes DEF PageAt, RingPage
  <2> QED
    BY <2>1, <2>2, <2>3 DEF OldestRead
<1> QED
  BY <1>3, <1>12, <1>13

\* The shape of the unread frames, as a state predicate.
UnreadShape == Up => \A fs, at : Chain(fs, at) => Unread = Rest(fs, 1)

LEMMA UnreadShaped == RingInv => UnreadShape
BY UnreadIs DEF UnreadShape

-----------------------------------------------------------------------------
\* No page is lost.
LEMMA PagesExist ==
    ASSUME NEW u, NEW n \in Nat
    PROVE  \E f : f = [k \in 0 .. n |->
                        IF k = 0 THEN 0 ELSE f[k - 1] + (Len(u[k]) + PageSize) \div PageSize]
<1> DEFINE More(k, x) == x + (Len(u[k]) + PageSize) \div PageSize
           Upto(m) == \E f : f = [k \in 0 .. m |-> IF k = 0 THEN 0 ELSE More(k, f[k - 1])]
           S == {m \in Nat : Upto(m)}
<1> HIDE DEF More
<1>1. Upto(0)
  <2> DEFINE f == [k \in 0 .. 0 |-> 0]
  <2>1. f = [k \in 0 .. 0 |-> IF k = 0 THEN 0 ELSE More(k, f[k - 1])]
    OBVIOUS
  <2> QED
    BY <2>1
<1>2. ASSUME NEW m \in Nat, Upto(m) PROVE Upto(m + 1)
  <2>1. PICK f : f = [k \in 0 .. m |-> IF k = 0 THEN 0 ELSE More(k, f[k - 1])]
    BY <1>2
  <2> DEFINE h == [k \in 0 .. m + 1 |-> IF k <= m THEN f[k] ELSE More(m + 1, f[m])]
  <2>2. h = [k \in 0 .. m + 1 |-> IF k = 0 THEN 0 ELSE More(k, h[k - 1])]
    <3>1. ASSUME NEW k \in 0 .. m + 1 PROVE h[k] = IF k = 0 THEN 0 ELSE More(k, h[k - 1])
      <4>1. CASE k <= m
        BY <2>1, <4>1
      <4>2. CASE k = m + 1
        BY <4>2
      <4> QED
        BY <4>1, <4>2
    <3> HIDE DEF h
    <3>2. h = [k \in 0 .. m + 1 |-> h[k]]
      BY DEF h
    <3> QED
      BY <3>1, <3>2
  <2> HIDE DEF h
  <2> QED
    BY <2>2
<1> HIDE DEF Upto
<1>3. \A m \in Nat : m \in S
  <2>1. 0 \in S /\ \A m \in Nat : m \in S => m + 1 \in S
    BY <1>1, <1>2
  <2> HIDE DEF S
  <2> QED
    BY <2>1, Induction
<1>4. Upto(n)
  BY <1>3
<1> QED
  BY <1>4 DEF Upto, More

LEMMA LeaksNone == RingInv => NoPageLeaks
<1> SUFFICES ASSUME RingInv, Up PROVE NoPageLeaks
  BY DEF NoPageLeaks
<1>1. PICK fs, at : Chain(fs, at)
  BY DEF RingInv, UnreadFrames
<1>2. PICK m \in Nat : m = Len(fs)
  BY <1>1, LastPlace DEF Chain
<1>4. Len(Unread) = m /\ \A k \in 1 .. m : Unread[k] = Contents(fs[k])
  <2>1. Unread = Rest(fs, 1)
    BY <1>1, UnreadIs
  <2>2. Len(fs) + 1 - 1 = m
    BY <1>2
  <2>3. Unread = [k \in 1 .. m |-> Contents(fs[1 - 1 + k])]
    BY <2>1, <2>2 DEF Rest
  <2>4. \A k \in 1 .. m : 1 - 1 + k = k
    OBVIOUS
  <2> QED
    BY <2>3, <2>4
<1>5. \A k \in 1 .. m : Len(Unread[k]) = Size(fs[k])
  <2> SUFFICES ASSUME NEW k \in 1 .. m PROVE Len(Unread[k]) = Size(fs[k])
    OBVIOUS
  <2>1. Size(fs[k]) \in Nat
    BY FrameFits
  <2> QED
    BY <1>4, <2>1 DEF Contents
<1> DEFINE pages[n \in 0 .. Len(Unread)] ==
               IF n = 0 THEN 0 ELSE pages[n - 1] + (Len(Unread[n]) + PageSize) \div PageSize
<1>6. pages = CHOOSE f : f = [n \in 0 .. Len(Unread) |->
                  IF n = 0 THEN 0 ELSE f[n - 1] + (Len(Unread[n]) + PageSize) \div PageSize]
  OBVIOUS
<1>7. SUFFICES pages[Len(Unread)] = at[m + 1]
  <2>1. Available = N - at[m + 1] - Held
    BY <1>1, <1>2, AvailableIs DEF RingInv
  <2> QED
    BY <1>7, <2>1, Zenon DEF NoPageLeaks, N, Held
<1> HIDE DEF pages
<1>8. pages[0] = 0
      /\ \A n \in 1 .. m : pages[n] = pages[n - 1] + (Len(Unread[n]) + PageSize) \div PageSize
  <2>1. \E f : f = [n \in 0 .. m |->
                     IF n = 0 THEN 0 ELSE f[n - 1] + (Len(Unread[n]) + PageSize) \div PageSize]
    BY PagesExist
  <2>2. pages = [n \in 0 .. m |->
                  IF n = 0 THEN 0 ELSE pages[n - 1] + (Len(Unread[n]) + PageSize) \div PageSize]
    BY <1>4, <1>6, <2>1
  <2>3. \A n \in 0 .. m : pages[n] = IF n = 0 THEN 0
                             ELSE pages[n - 1] + (Len(Unread[n]) + PageSize) \div PageSize
    BY <2>2, Zenon
  <2>4. 0 \in 0 .. m /\ \A n \in 1 .. m : n \in 0 .. m /\ n # 0
    OBVIOUS
  <2> QED
    BY <2>3, <2>4, Zenon
<1> DEFINE S == {n \in Nat : n <= m => pages[n] = at[n + 1]}
<1>9. 0 \in S
  BY <1>1, <1>8 DEF Chain, Placed
<1>10. ASSUME NEW n \in Nat, n \in S PROVE n + 1 \in S
  <2> SUFFICES ASSUME n + 1 <= m PROVE pages[n + 1] = at[n + 1 + 1]
    OBVIOUS
  <2>1. n + 1 \in 1 .. m /\ (n + 1) - 1 = n /\ n <= m
    OBVIOUS
  <2>2. pages[n + 1] = pages[n] + (Size(fs[n + 1]) + PageSize) \div PageSize
    BY <1>5, <1>8, <2>1
  <2>3. (Size(fs[n + 1]) + PageSize) \div PageSize = PagesNeeded(fs[n + 1])
    BY FrameFits
  <2>4. at[n + 1 + 1] = at[n + 1] + PagesNeeded(fs[n + 1])
    BY <1>1, <1>2, <2>1 DEF Chain, Placed
  <2>5. pages[n] = at[n + 1]
    BY <1>10, <2>1
  <2> QED
    BY <2>2, <2>3, <2>4, <2>5
<1> HIDE DEF S
<1>11. m \in S
  BY <1>9, <1>10, Induction
<1> QED
  BY <1>4, <1>11 DEF S

\* The free space receive() reckons with is what the unread frames leave, for
\* every size of the ring, set of frames and convention of the driver.
THEOREM NoPageIsLost == Spec => []NoPageLeaks
BY InitRing, NextRing, LeaksNone, PTL DEF Spec

-----------------------------------------------------------------------------
(***************************************************************************)
(* The ring is a FrameChannel: one more frame, or one less, in the chain   *)
(* is one more, or one less, in what is left to read.                      *)
(***************************************************************************)
LEMMA RestOfTail ==
    ASSUME NEW fs \in Seq(Frame), Len(fs) >= 1
    PROVE  /\ Rest(fs, 1) # << >> /\ Head(Rest(fs, 1)) = Contents(fs[1])
           /\ Tail(Rest(fs, 1)) = Rest(Tail(fs), 1)
<1>1. PICK m \in Nat : m = Len(fs) /\ m >= 1
  OBVIOUS
<1>2. PICK R : R = [k \in 1 .. m |-> Contents(fs[k])]
  OBVIOUS
<1>3. Rest(fs, 1) = R
  <2>1. Len(fs) + 1 - 1 = m /\ \A k \in 1 .. m : 1 - 1 + k = k
    BY <1>1
  <2>2. Rest(fs, 1) = [k \in 1 .. m |-> Contents(fs[1 - 1 + k])]
    BY <2>1 DEF Rest
  <2> QED
    BY <1>2, <2>1, <2>2
<1>4. PICK T : T = Tail(fs)
  OBVIOUS
<1>5. Len(T) = m - 1 /\ \A k \in 1 .. m - 1 : T[k] = fs[k + 1]
  BY <1>1, <1>4
<1>6. Rest(T, 1) = [k \in 1 .. m - 1 |-> Contents(fs[k + 1])]
  <2>1. Len(T) + 1 - 1 = m - 1 /\ \A k \in 1 .. m - 1 : T[1 - 1 + k] = fs[k + 1]
    BY <1>1, <1>5
  <2>2. Rest(T, 1) = [k \in 1 .. m - 1 |-> Contents(T[1 - 1 + k])]
    BY <2>1 DEF Rest
  <2> QED
    BY <2>1, <2>2
<1>7. PICK V : V = {Contents(fs[k]) : k \in 1 .. m}
  OBVIOUS
<1>8. R \in Seq(V) /\ Len(R) = m /\ R[1] = Contents(fs[1]) /\ R # << >>
  BY <1>1, <1>2, <1>7
<1>9. PICK Q : Q = [k \in 1 .. m - 1 |-> Contents(fs[k + 1])]
  OBVIOUS
<1>10. Q \in Seq(V) /\ Len(Q) = m - 1
  <2>1. \A k \in 1 .. m - 1 : k + 1 \in 1 .. m
    BY <1>1
  <2> QED
    BY <1>1, <1>7, <1>9, <2>1
<1>11. Tail(R) \in Seq(V) /\ Len(Tail(R)) = m - 1 /\ \A k \in 1 .. m - 1 : Tail(R)[k] = R[k + 1]
  BY <1>1, <1>8
<1>12. \A k \in 1 .. m - 1 : R[k + 1] = Q[k]
  BY <1>1, <1>2, <1>9
<1>13. Tail(R) = Q
  BY <1>10, <1>11, <1>12, SeqEqual
<1>14. Head(R) = R[1]
  BY <1>8
<1> QED
  BY <1>3, <1>4, <1>6, <1>8, <1>9, <1>13, <1>14, Zenon

LEMMA RestOfAppend ==
    ASSUME NEW fs \in Seq(Frame), NEW f \in Frame
    PROVE  Rest(Append(fs, f), 1) = Append(Rest(fs, 1), Contents(f))
<1>1. PICK m \in Nat : m = Len(fs)
  OBVIOUS
<1>2. PICK g : g = Append(fs, f)
  OBVIOUS
<1>3. Len(g) = m + 1 /\ g[m + 1] = f /\ \A k \in 1 .. m : g[k] = fs[k]
  BY <1>1, <1>2
<1>4. PICK R : R = [k \in 1 .. m |-> Contents(fs[k])]
  OBVIOUS
<1>5. Rest(fs, 1) = R
  <2>1. Len(fs) + 1 - 1 = m /\ \A k \in 1 .. m : 1 - 1 + k = k
    BY <1>1
  <2>2. Rest(fs, 1) = [k \in 1 .. m |-> Contents(fs[1 - 1 + k])]
    BY <2>1 DEF Rest
  <2> QED
    BY <1>4, <2>1, <2>2
<1>6. PICK G : G = [k \in 1 .. m + 1 |-> Contents(g[k])]
  OBVIOUS
<1>7. Rest(g, 1) = G
  <2>1. Len(g) + 1 - 1 = m + 1 /\ \A k \in 1 .. m + 1 : 1 - 1 + k = k
    BY <1>3
  <2>2. Rest(g, 1) = [k \in 1 .. m + 1 |-> Contents(g[1 - 1 + k])]
    BY <2>1 DEF Rest
  <2> QED
    BY <1>6, <2>1, <2>2
<1>8. PICK V : V = {Contents(x) : x \in Frame}
  OBVIOUS
<1>9. Contents(f) \in V /\ R \in Seq(V) /\ Len(R) = m /\ G \in Seq(V) /\ Len(G) = m + 1
  <2>1. \A k \in 1 .. m : fs[k] \in Frame
    BY <1>1
  <2>2. \A k \in 1 .. m + 1 : g[k] \in Frame
    BY <1>3, <2>1
  <2>3. Contents(f) \in V /\ \A k \in 1 .. m : Contents(fs[k]) \in V
    BY <1>8, <2>1
  <2>4. \A k \in 1 .. m + 1 : Contents(g[k]) \in V
    BY <1>8, <2>2
  <2>5. R \in Seq(V) /\ Len(R) = m
    BY <1>4, <2>3
  <2>6. G \in Seq(V) /\ Len(G) = m + 1
    BY <1>6, <2>4
  <2> QED
    BY <2>3, <2>5, <2>6
<1>10. /\ Append(R, Contents(f)) \in Seq(V) /\ Len(Append(R, Contents(f))) = m + 1
       /\ Append(R, Contents(f))[m + 1] = Contents(f)
       /\ \A k \in 1 .. m : Append(R, Contents(f))[k] = R[k]
  BY <1>9
<1>11. \A k \in 1 .. m + 1 : G[k] = Append(R, Contents(f))[k]
  <2> SUFFICES ASSUME NEW k \in 1 .. m + 1 PROVE G[k] = Append(R, Contents(f))[k]
    OBVIOUS
  <2>1. CASE k = m + 1
    BY <1>3, <1>6, <1>10, <2>1
  <2>2. CASE k # m + 1
    BY <1>3, <1>4, <1>6, <1>10, <2>2
  <2> QED
    BY <2>1, <2>2
<1>12. G = Append(R, Contents(f))
  BY <1>9, <1>10, <1>11, SeqEqual
<1> QED
  BY <1>2, <1>5, <1>7, <1>12

\* While the card is not up, or goes down, nothing is handed on.
LEMMA DownKeeps ==
    ASSUME RingInv, [Next]_vars, ~Up \/ ~Up'
    PROVE  UNCHANGED delivered
<1> SUFFICES ASSUME ~ UNCHANGED delivered PROVE FALSE
  OBVIOUS
<1>1. Release \/ HandOver
  <2>1. ASSUME NEW f \in Frame, Arrive(f) PROVE UNCHANGED delivered
    BY <2>1 DEF Arrive
  <2>2. ASSUME NEW n \in TxLengths, Send(n) PROVE UNCHANGED delivered
    BY <2>2 DEF Send
  <2>3. UNCHANGED vars => UNCHANGED delivered
    BY DEF vars
  <2> QED
    BY <2>1, <2>2, <2>3
       DEF Next, Poll, SetUp, ResetCard, Interrupt, Handler, Acknowledge, StopCard, Look,
           RingEmpty, ReadHeader, ReadFrame, Sender, Upload, SendCommand, AwaitSent
<1>2. drv.pc # "setup" /\ drv'.todo = drv.todo
  BY <1>1 DEF Release, HandOver, Goto, RingInv, SendInv, Shape
<1>3. Up
  BY <1>2, UpOf DEF RingInv, UpIs
<1>4. Up'
  BY <1>2, <1>3, SameStage
<1> QED
  BY <1>3, <1>4

LEMMA ChannelStep ==
    RingInv /\ RingInv' /\ [Next]_vars => [Channel!Next]_<<Up, Unread, delivered>>
<1> SUFFICES ASSUME RingInv, RingInv', [Next]_vars
             PROVE  [Channel!Next]_<<Up, Unread, delivered>>
  OBVIOUS
<1>1. UnreadShape /\ UnreadShape'
  BY UnreadShaped, PTL
<1>2. (~Up => Unread = << >>) /\ (~Up' => Unread' = << >>)
  BY DEF Unread
<1>3. CASE Up /\ Up'
  <2>1. PICK fs, at : Chain(fs, at) /\ Reading(fs, at)
    BY <1>3 DEF RingInv, UnreadFrames
  <2>2. PICK gs, gat : Chain(gs, gat)' /\ Became(fs, gs)
    BY <1>3, <2>1, UpStep DEF RingAfter
  <2>3. Unread = Rest(fs, 1) /\ Unread' = Rest(gs, 1) /\ fs \in Seq(Frame)
    BY <1>1, <1>3, <2>1, <2>2 DEF UnreadShape, Chain, Placed
  <2>4. CASE Stays(fs, gs)
    BY <1>3, <2>3, <2>4 DEF Stays, Channel!Next, Channel!HandOver
  <2>5. CASE Puts(fs, gs)
    <3>1. PICK f \in Frame : gs = Append(fs, f)
      BY <2>5 DEF Puts
    <3>2. Unread' = Append(Unread, Contents(f))
      BY <2>3, <3>1, RestOfAppend
    <3> QED
      BY <1>3, <2>5, <3>2 DEF Puts, Channel!Next, Channel!Put
  <2>6. CASE Takes(fs, gs)
    <3>1. /\ Unread # << >> /\ Head(Unread) = Contents(fs[1]) /\ Tail(Unread) = Unread'
      BY <2>3, <2>6, RestOfTail DEF Takes
    <3> QED
      BY <1>3, <2>6, <3>1 DEF Takes, Channel!Next, Channel!Take
  <2> QED
    BY <2>2, <2>4, <2>5, <2>6 DEF Became
<1>a. (~Up => Up = FALSE) /\ (~Up' => Up' = FALSE) /\ (Up => Up = TRUE) /\ (Up' => Up' = TRUE)
  BY DEF Up
<1>4. CASE Up /\ ~Up'
  <2>1. Unread' = << >> /\ UNCHANGED delivered /\ Up' = FALSE
    BY <1>2, <1>4, <1>a, DownKeeps
  <2> QED
    BY <2>1 DEF Channel!Next, Channel!Reset
<1>5. CASE ~Up /\ Up'
  <2>1. PICK at : Chain(<< >>, at)'
    BY <1>5, UpComes
  <2>2. Unread' = Rest(<< >>, 1)
    BY <1>1, <1>5, <2>1 DEF UnreadShape
  <2>3. Rest(<< >>, 1) = << >>
    <3>1. Len(<< >>) + 1 - 1 = 0 /\ 1 .. 0 = {}
      OBVIOUS
    <3>2. Rest(<< >>, 1) = [k \in 1 .. 0 |-> Contents(<< >>[1 - 1 + k])]
      BY <3>1 DEF Rest
    <3> QED
      BY <3>1, <3>2
  <2>4. UNCHANGED delivered /\ Up' = TRUE /\ Unread' = Unread
    BY <1>2, <1>5, <1>a, <2>2, <2>3, DownKeeps
  <2> QED
    BY <1>5, <2>4 DEF Channel!Next, Channel!SetUp
<1>6. CASE ~Up /\ ~Up'
  <2>1. UNCHANGED delivered /\ Up' = Up /\ Unread' = Unread
    BY <1>2, <1>6, <1>a, DownKeeps
  <2> QED
    BY <2>1
<1> QED
  BY <1>3, <1>4, <1>5, <1>6

LEMMA ChannelInit == Init => Channel!Init
<1> SUFFICES ASSUME Init PROVE Channel!Init
  OBVIOUS
<1>1. ~Up
  <2>1. "CURR" \in ToWrite
    BY ToWriteOf DEF ToWriteIs, Init
  <2> QED
    BY <2>1 DEF Up
<1>2. Unread = << >>
  BY <1>1 DEF Unread
<1> QED
  BY <1>1, <1>2 DEF Init, Channel!Init

\* The driver reads whole frames in the order they were received: every run of
\* the card, the host and the driver is a run of the channel.
THEOREM CardIsAChannel == Spec => FramesInOrder
<1>1. Init => Channel!Init
  BY ChannelInit
<1>2. Init => RingInv
  BY InitRing
<1>3. RingInv /\ [Next]_vars => RingInv'
  BY NextRing
<1>4. RingInv /\ RingInv' /\ [Next]_vars => [Channel!Next]_<<Up, Unread, delivered>>
  BY ChannelStep
<1> QED
  BY <1>1, <1>2, <1>3, <1>4, PTL
     DEF Spec, FramesInOrder, Channel!Spec, Channel!channelVars
=============================================================================

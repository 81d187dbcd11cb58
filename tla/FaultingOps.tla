---------------------------- MODULE FaultingOps -----------------------------
(***************************************************************************)
(* The instructions of the emulated 386 that use memory, and may fault     *)
(* half-way, over segments and paged memory (check_segment_limit,          *)
(* translate_linear).  Here are the string instructions                    *)
(* (execute_string_op) and those with an operand in a data segment; the    *)
(* stack's, and the guest that executes them, are in FaultingStack.        *)
(*                                                                         *)
(* An instruction runs to its end within one call of execute(), with its   *)
(* repetitions if it has a prefix.  A fault ends it early, and the         *)
(* handler's return executes it again: the registers must then say what is *)
(* left to do.                                                             *)
(*                                                                         *)
(* The page directory has one entry, which is present and permits          *)
(* everything; DS, ES and SS have the same descriptor, with base 0.  A     *)
(* string's element has one or two bytes; elsewhere a byte stands for a    *)
(* byte, a word or a double word, and DI points to the operand.            *)
(***************************************************************************)
EXTENDS Integers, Sequences, TLC

CONSTANTS
    PageSize, Size,     \* bytes of a page, and of the address space
    ByteValues,         \* values of a byte
    Programs,           \* instructions with their registers and segment
    Contents,           \* what the pages hold at first
    ZeroPages           \* pages that are mapped to the shared frame of zeros

Pages == 0 .. Size \div PageSize - 1
Zeros == [i \in 1 .. PageSize |-> 0]

ASSUME FaultingOpsAssumption ==
    /\ PageSize \in Nat \ {0} /\ Size % PageSize = 0
    /\ \A c \in Contents : c \in [Pages -> [1 .. PageSize -> 0 .. ByteValues - 1]]
    /\ \A z \in ZeroPages : z \subseteq Pages

\* F of the value of v.
Given(v, F(_)) == CHOOSE r \in {F(x) : x \in {v}} : TRUE

NoFault == [vector |-> "none"]
Faulted(t) == t.fault # NoFault

-----------------------------------------------------------------------------
(* Memory accesses. *)

\* check_segment_limit, with its test for an offset that wraps.
WithinLimit(seg, off, width) ==
    LET last == (off + width - 1) % Size
    IN  last >= off /\ IF seg.down THEN off > seg.limit ELSE last <= seg.limit

ProtectionFault(t) == [t EXCEPT !.fault = [vector |-> "GP"]]
FaultAtZero(t, linear, write, present) ==
    [t EXCEPT !.fault = [vector |-> "PF", cr2 |-> 0, present |-> present, write |-> write]]
PageFault(t, linear, write, present) ==
    [t EXCEPT !.fault = [vector |-> "PF", cr2 |-> linear, present |-> present, write |-> write]]

\* translate_linear: the state with the accessed and dirty bits set, or the fault.
CleanIfRead(t, linear, write) ==
    LET page == linear \div PageSize
        pte == t.pte[page]
    IN  IF ~ pte.present THEN PageFault(t, linear, write, FALSE)
        ELSE IF write /\ ~ pte.rw /\ (t.cpl = 3 \/ t.wp) THEN PageFault(t, linear, write, TRUE)
        ELSE IF pte.accessed THEN t
        ELSE [t EXCEPT !.pte[page] = [pte EXCEPT !.accessed = TRUE, !.dirty = @ \/ write]]
Translated(t, linear, write) ==
    LET page == linear \div PageSize
        pte == t.pte[page]
    IN  IF ~ pte.present THEN PageFault(t, linear, write, FALSE)
        ELSE IF write /\ ~ pte.rw /\ (t.cpl = 3 \/ t.wp) THEN PageFault(t, linear, write, TRUE)
        ELSE [t EXCEPT !.pte[page] = [pte EXCEPT !.accessed = TRUE, !.dirty = @ \/ write]]

\* The physical address is 0 after a page fault.
Physical(t, linear) ==
    IF Faulted(t) THEN 0 ELSE t.pte[linear \div PageSize].frame * PageSize + (linear % PageSize)

\* fetch_byte, fetch_word and fetch_dword: only the first byte is translated.
Fetch(t, off, width) ==
    LET u == Translated(t, off, FALSE)
        phys == Physical(u, off)
    IN  IF ~ WithinLimit(t.seg, off, width) THEN ProtectionFault(t)
        ELSE [u EXCEPT !.val = [i \in 1 .. width |-> u.ram[phys + i - 1]]]

\* store_byte, store_word and store_dword.
Store(t, off, val) ==
    LET u == Translated(t, off, TRUE)
        phys == Physical(u, off)
    IN  IF ~ WithinLimit(t.seg, off, Len(val)) THEN ProtectionFault(t)
        ELSE [u EXCEPT !.ram = [a \in DOMAIN @ |->
                IF a \in phys .. phys + Len(val) - 1 THEN val[a - phys + 1] ELSE @[a]]]

-----------------------------------------------------------------------------
(* The string instructions. *)

FromSi == {"movs", "cmps", "lods", "outs"}
ToDi == {"movs", "cmps", "stos", "scas", "ins"}
Comparing == {"cmps", "scas"}

\* do_one.  Of an element that faults nothing is committed to the registers.
Element(t) ==
    LET width == t.width
        next(r) == IF t.down THEN (r - width) % Size ELSE (r + width) % Size
        src == CASE t.op \in FromSi -> Fetch(t, t.si, width)
                 [] t.op = "ins" -> [t EXCEPT !.val = [i \in 1 .. width |-> t.port + i], !.port = @ + width]
                 [] OTHER -> [t EXCEPT !.val = SubSeq(t.ax, 1, width)]
        dst == CASE t.op \in Comparing -> Fetch(src, t.di, width)
                 [] t.op \in ToDi \ Comparing -> Store(src, t.di, src.val)
                 [] OTHER -> src
    IN  IF Faulted(src) THEN src
        ELSE IF Faulted(dst) THEN dst
        ELSE [dst EXCEPT !.si = IF t.op \in FromSi THEN next(@) ELSE @,
                         !.di = IF t.op \in ToDi THEN next(@) ELSE @,
                         !.zf = IF t.op \in Comparing THEN src.val = dst.val ELSE @,
                         !.ax = IF t.op = "lods" THEN src.val \o SubSeq(@, width + 1, 2) ELSE @,
                         !.out = IF t.op = "outs" THEN @ \o src.val ELSE @]

\* Counted(t) is t after an element that did not fault, Ends(t) says it was the last.
Counted(t) == [t EXCEPT !.cx = @ - 1]
Ends(t) == \/ Faulted(t) \/ t.cx = 0
           \/ t.op \in Comparing /\ (IF t.rep = "repz" THEN ~ t.zf ELSE t.zf)

-----------------------------------------------------------------------------
(* Instructions with one operand in memory. *)

\* B of the state t, unless t has faulted.
Unless(t, B(_)) == Given(t, LAMBDA u : IF Faulted(u) THEN u ELSE B(u))

\* Of NOT and NEG, and of INC and DEC.
Negated(t, v) == IF t.op = "not" THEN ByteValues - 1 - v ELSE (ByteValues - v) % ByteValues
Stepped(t, v) == IF t.op = "inc" THEN (v + 1) % ByteValues ELSE (v - 1) % ByteValues
Added(t, v) == v + t.ax[1] + (IF t.op = "adc" /\ t.cf THEN 1 ELSE 0)

\* ADD and ADC, CMP, NOT and NEG, INC and DEC of memory.  The flags are set
\* before the result is stored.
ReadModifyWrite(t) ==
    LET src == Fetch(t, t.di, 1)
        v == src.val[1]
        result == CASE t.op \in {"not", "neg"} -> Negated(t, v)
                    [] t.op \in {"inc", "dec"} -> Stepped(t, v)
                    [] t.op = "cmp" -> (v - t.ax[1]) % ByteValues
                    [] OTHER -> Added(t, v) % ByteValues
        carry == CASE t.op \in {"not", "inc", "dec"} -> t.cf
                   [] t.op = "neg" -> v # 0
                   [] t.op = "cmp" -> v < t.ax[1]
                   [] OTHER -> Added(t, v) >= ByteValues
        flagged == [src EXCEPT !.cf = carry, !.zf = IF t.op = "not" THEN @ ELSE result = 0]
    IN  IF Faulted(src) THEN src
        ELSE IF t.op = "cmp" THEN flagged
        ELSE Store(flagged, t.di, <<result>>)

\* ADD of memory to a register.
AddMemory(t) ==
    LET src == Fetch(t, t.di, 1)
        sum == src.val[1] + t.ax[1]
    IN  IF Faulted(src) THEN src
        ELSE [src EXCEPT !.cf = sum >= ByteValues, !.zf = (sum % ByteValues = 0), !.ax[1] = sum % ByteValues]

\* XCHG with memory.  After a fault the byte form keeps its register (set_reg8)
\* and the word form does not.
Exchange(t) ==
    LET src == Fetch(t, t.di, t.width)
        dst == Store(src, t.di, SubSeq(t.ax, 1, t.width))
    IN  IF Faulted(src) THEN src
        ELSE IF Faulted(dst) /\ t.width = 1 THEN dst
        ELSE [dst EXCEPT !.ax = src.val \o SubSeq(@, t.width + 1, 2)]

\* MOV to a register, and its form with the address in the instruction, which
\* does not look at the fault: the register has what the fetch returns.
Load(t) == Unless(Fetch(t, t.di, 1), LAMBDA u : [u EXCEPT !.ax[1] = u.val[1]])
LoadDirect(t) ==
    LET src == Fetch(t, t.di, 1)
    IN  [src EXCEPT !.ax[1] = IF src.val = <<>> THEN 0 ELSE src.val[1]]
StoreDirect(t) == Store(t, t.di, <<t.ax[1]>>)

Translate(t) ==
    LET src == Fetch(t, (t.si + t.ax[1]) % Size, 1)
    IN  IF Faulted(src) THEN src ELSE [src EXCEPT !.ax[1] = src.val[1]]

\* BOUND: #BR, which no handler mends, unless the register is between the two.
Bound(t) ==
    LET low == Fetch(t, t.di, 1)
        high == Fetch(low, (t.di + 1) % Size, 1)
    IN  IF Faulted(low) THEN low
        ELSE IF Faulted(high) THEN high
        ELSE IF t.ax[1] < low.val[1] \/ t.ax[1] > high.val[1] THEN [high EXCEPT !.fault = [vector |-> "BR"]]
        ELSE high

\* ARPL raises the requested privilege level of the selector in memory.
Arpl(t) ==
    LET dst == Fetch(t, t.di, 1)
        rpl == t.ax[1] % 4
        selector == dst.val[1]
    IN  IF Faulted(dst) THEN dst
        ELSE IF selector % 4 >= rpl THEN [dst EXCEPT !.zf = FALSE]
        ELSE Unless(Store(dst, t.di, <<selector - (selector % 4) + rpl>>), LAMBDA u : [u EXCEPT !.zf = TRUE])

\* load_segment, of a selector whose segment may be absent: the handler of #NP
\* brings it in and the instruction is executed again.
LoadSegment(t, selector) ==
    IF selector \in t.absent THEN [t EXCEPT !.fault = [vector |-> "NP", selector |-> selector]]
    ELSE [t EXCEPT !.es = selector]

\* MOV to and from a segment register.
SegmentFrom(t) == Unless(Fetch(t, t.di, 1), LAMBDA u : LoadSegment(u, u.val[1]))
SegmentTo(t) == Store(t, t.di, <<t.es>>)

\* JMP through memory: the target is not compared with the limit.
Jump(t) == Unless(Fetch(t, t.di, 1), LAMBDA u : [u EXCEPT !.ip = u.val[1]])

\* LES and LDS set the register first, LFS and LGS the segment.  These do not
\* look at a fault of the first fetch before the second, which may raise another.
LoadPointer(t) ==
    LET offset == Fetch(t, t.di, 1)
        segment == Fetch(offset, (t.di + 1) % Size, 1)
    IN  IF Faulted(offset) THEN offset
        ELSE IF Faulted(segment) THEN segment
        ELSE LoadSegment([segment EXCEPT !.ax[1] = offset.val[1]], segment.val[1])
LoadFarPointer(t) ==
    LET offset == Fetch(t, t.di, 1)
        again == Translated([offset EXCEPT !.fault = NoFault], (t.di + 1) % Size, FALSE)
        segment == Fetch(offset, (t.di + 1) % Size, 1)
    IN  IF Faulted(offset) THEN [offset EXCEPT !.wrecked = Faulted(again)]
        ELSE IF Faulted(segment) THEN segment
        ELSE Unless(LoadSegment(segment, segment.val[1]), LAMBDA u : [u EXCEPT !.di = offset.val[1]])
=============================================================================

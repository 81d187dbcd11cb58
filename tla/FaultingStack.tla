---------------------------- MODULE FaultingStack -----------------------------
(***************************************************************************)
(* The instructions of the stack, over the memory of FaultingOps, and the  *)
(* guest that executes one instruction until it is done: a kernel that has *)
(* fewer page frames than pages handles its faults.                        *)
(*                                                                         *)
(* A cell of the stack is one byte of the model, and PUSHA's and POPA's    *)
(* eight registers are three.  "wrecked" says that the code went on after  *)
(* a fault, on what is by then the stack of the fault's handler.           *)
(***************************************************************************)
EXTENDS FaultingOps

VARIABLES
    s,          \* the processor and its memory
    swap,       \* pager: the pages that are not in a frame
    frame,      \* pager: the frame it will use next
    begun       \* history: s and the virtual memory when the instruction began

vars == <<s, swap, frame, begun>>

-----------------------------------------------------------------------------
(* Accesses to the stack. *)

\* check_stack_access, and pending_seg_idx in push_word and pop_word.
OnStack(t) == IF t.fault.vector = "GP" THEN [t EXCEPT !.fault.vector = "SS"] ELSE t

\* stack_peek_word and stack_poke_word.
Peek(t, off) == OnStack(Fetch(t, off % Size, 1))
Poke(t, off, v) == OnStack(Store(t, off % Size, <<v>>))

\* push_word: the stack pointer moves before the store, and even after a fault.
PushCell(t, v) == LET sp == (t.sp - 1) % Size IN Poke([t EXCEPT !.sp = sp], sp, v)
Push(t, v) == Given(t, LAMBDA u : IF Faulted(u) THEN [u EXCEPT !.wrecked = TRUE] ELSE PushCell(u, v))

\* pop_word
PopCell(t) == Unless(Peek(t, t.sp), LAMBDA u : [u EXCEPT !.sp = (@ + 1) % Size])

-----------------------------------------------------------------------------
(* The instructions. *)

Pop(t) == Unless(PopCell(t), LAMBDA u : [u EXCEPT !.ax[1] = u.val[1]])

\* POP to memory or to SP: the destination is written before the stack pointer
\* moves, and has the new stack pointer in its address.
PopToMemory(t) ==
    LET src == Peek(t, t.sp)
        dst == IF t.op = "pop [sp]" THEN OnStack(Store(src, (t.sp + 1) % Size, src.val))
               ELSE Store(src, t.di, src.val)
    IN  IF Faulted(src) THEN src
        ELSE IF t.op = "pop sp" THEN [src EXCEPT !.sp = src.val[1]]
        ELSE Unless(dst, LAMBDA u : [u EXCEPT !.sp = (@ + 1) % Size])

\* pop_segment
PopSegment(t) ==
    LET src == Peek(t, t.sp)
    IN  IF Faulted(src) THEN src
        ELSE Unless(LoadSegment(src, src.val[1]), LAMBDA u : [u EXCEPT !.sp = (@ + 1) % Size])

\* The flags as a number: the carry, IF and IOPL.
FlagsImage(t) == (IF t.cf THEN 1 ELSE 0) + (IF t.if THEN 2 ELSE 0) + 4 * t.iopl
Trapped(t) == t.v86 /\ t.iopl < 3
PushFlags(t) == IF Trapped(t) THEN ProtectionFault(t) ELSE Push(t, FlagsImage(t))
PopFlags(t) ==
    LET src == Peek(t, t.sp)
        v == src.val[1]
    IN  IF Trapped(t) THEN ProtectionFault(t)
        ELSE IF Faulted(src) THEN src
        ELSE [src EXCEPT !.sp = (@ + 1) % Size,
                         !.cf = (v % 2 = 1),
                         !.if = IF t.cpl > t.iopl THEN @ ELSE (v \div 2) % 2 = 1,
                         !.iopl = IF t.cpl > 0 THEN @ ELSE (v \div 4) % 4]

\* RET, which may also drop "alloc" cells; check_code_target.
Return(t) ==
    LET src == Peek(t, t.sp)
        target == src.val[1]
    IN  IF Faulted(src) THEN src
        ELSE IF target > t.codelimit THEN ProtectionFault(src)
        ELSE [src EXCEPT !.ip = target, !.sp = (@ + 1 + t.alloc) % Size]

\* PUSHA, in V86 mode and in protected mode.
PushAllVirtual(t) ==
    Unless(Poke(t, t.sp - 3, t.di), LAMBDA u :
        Unless(Poke(u, t.sp - 2, t.sp), LAMBDA v :
            Unless(Poke(v, t.sp - 1, t.ax[1]), LAMBDA w : [w EXCEPT !.sp = (@ - 3) % Size])))
PushAll(t) == Push(Push(Push(t, t.ax[1]), t.sp), t.di)

\* POPA: the registers are set one by one, in V86 mode without the stack pointer.
PopAllVirtual(t) ==
    Unless(Peek(t, t.sp), LAMBDA u :
        Unless(Peek([u EXCEPT !.di = u.val[1]], t.sp + 1), LAMBDA v :
            Unless(Peek(v, t.sp + 2), LAMBDA w : [w EXCEPT !.ax[1] = w.val[1], !.sp = (@ + 3) % Size])))
PopAll(t) ==
    Unless(PopCell(t), LAMBDA u :
        Unless(PopCell([u EXCEPT !.di = u.val[1]]), LAMBDA v :
            Unless(PopCell(v), LAMBDA w : [w EXCEPT !.ax[1] = w.val[1]])))

\* ENTER in V86 mode: the registers are set when all has been stored.  One frame
\* pointer of an outer procedure is copied if nesting is 2.
EnterVirtual(t) ==
    LET pointer == (t.sp - 1) % Size
        Copied(u) == IF t.nesting < 2 THEN u
                     ELSE Unless(Peek(u, t.bp - 1), LAMBDA v : Poke(v, pointer - 1, v.val[1]))
        Linked(u) == IF t.nesting = 0 THEN u ELSE Poke(u, pointer - t.nesting, pointer)
        Entered(u) == [u EXCEPT !.bp = pointer, !.sp = (pointer - t.nesting - t.alloc) % Size]
    IN  Unless(Poke(t, pointer, t.bp), LAMBDA u :
            Unless(Copied(u), LAMBDA v : Unless(Linked(v), Entered)))

\* ENTER in protected mode: it looks whether it may write to the last cell, and
\* does not look again.
Enter(t) ==
    LET end == (t.sp - 1 - t.nesting - t.alloc) % Size
        pointer == (t.sp - 1) % Size
        probed == IF WithinLimit(t.seg, end, 1) THEN Translated(t, end, TRUE)
                  ELSE OnStack(ProtectionFault(t))
        Copied(u) == IF t.nesting < 2 THEN u
                     ELSE Given(Peek([u EXCEPT !.bp = (@ - 1) % Size], u.bp - 1), LAMBDA v : Push(v, v.val[1]))
        Linked(u) == IF t.nesting = 0 THEN u ELSE Push(u, pointer)
        Entered(u) == [u EXCEPT !.bp = pointer, !.sp = (@ - t.alloc) % Size]
    IN  Unless(probed, LAMBDA u :
            Given(Push(u, t.bp), LAMBDA v : Given(Copied(v), LAMBDA w : Given(Linked(w), Entered))))

Leave(t) ==
    Unless(Peek(t, t.bp), LAMBDA u : [u EXCEPT !.bp = u.val[1], !.sp = (t.bp + 1) % Size])

\* CALL through memory: the target is committed even if the push has faulted.
CallNear(t) ==
    LET target == Fetch(t, t.di, 1)
        pushed == Push(target, t.ip)
    IN  IF Faulted(target) THEN target
        ELSE [pushed EXCEPT !.ip = target.val[1], !.wrecked = Faulted(pushed)]

-----------------------------------------------------------------------------
(* Execution. *)

OnStackOnce(t) ==
    CASE t.op = "push" -> Push(t, t.ax[1])
      [] t.op = "pop" -> Pop(t)
      [] t.op \in {"pop []", "pop [sp]", "pop sp"} -> PopToMemory(t)
      [] t.op = "pop es" -> PopSegment(t)
      [] t.op = "pushf" -> PushFlags(t)
      [] t.op = "popf" -> PopFlags(t)
      [] t.op = "ret" -> Return(t)
      [] t.op = "pusha" -> IF t.v86 THEN PushAllVirtual(t) ELSE PushAll(t)
      [] t.op = "popa" -> IF t.v86 THEN PopAllVirtual(t) ELSE PopAll(t)
      [] t.op = "enter" -> IF t.v86 THEN EnterVirtual(t) ELSE Enter(t)
      [] t.op = "leave" -> Leave(t)
      [] t.op = "call" -> CallNear(t)

StackOps == {"push", "pop", "pop []", "pop [sp]", "pop sp", "pop es", "pushf", "popf", "ret",
             "pusha", "popa", "enter", "leave", "call"}

Once(t) == CASE t.op \in StackOps -> OnStackOnce(t)
             [] t.op \in {"add", "adc", "cmp", "not", "neg", "inc", "dec"} -> ReadModifyWrite(t)
             [] t.op = "add r" -> AddMemory(t)
             [] t.op = "xchg" -> Exchange(t)
             [] t.op = "load" -> Load(t)
             [] t.op = "load []" -> LoadDirect(t)
             [] t.op = "store" -> StoreDirect(t)
             [] t.op = "xlat" -> Translate(t)
             [] t.op = "bound" -> Bound(t)
             [] t.op = "arpl" -> Arpl(t)
             [] t.op = "mov es" -> SegmentFrom(t)
             [] t.op = "mov [], es" -> SegmentTo(t)
             [] t.op = "jmp" -> Jump(t)
             [] t.op = "les" -> LoadPointer(t)
             [] t.op = "lfs" -> LoadFarPointer(t)
             [] OTHER -> Element(t)

\* execute, and execute_string_op.  The instruction is over unless it faulted.
Executed(t) ==
    LET Tried(u) == IF Faulted(u) THEN u ELSE Counted(u)
        Repeat[n \in 0 .. t.cx] ==
            IF n = 0 THEN t
            ELSE Given(Repeat[n - 1],
                       LAMBDA u : IF n > 1 /\ Ends(u) THEN u ELSE Given(Element(u), Tried))
        Done(u) == [u EXCEPT !.over = ~ Faulted(u), !.val = <<>>]
    IN  Given(IF t.rep = "none" THEN Once(t) ELSE Repeat[t.cx], Done)

-----------------------------------------------------------------------------
(* The guest: one instruction, and a kernel that brings in pages, first in *)
(* first out, and copies the frame of zeros when it is written to.         *)

FrameBytes(ram, f) == [i \in 1 .. PageSize |-> ram[f * PageSize + i - 1]]
Mapped(f, rw) == [present |-> TRUE, rw |-> rw, accessed |-> FALSE, dirty |-> FALSE, frame |-> f]
Absent == [Mapped(0, FALSE) EXCEPT !.present = FALSE]

\* What the program sees at each address.
View(t, swapped) ==
    [a \in 0 .. Size - 1 |->
        LET page == a \div PageSize
        IN  IF t.pte[page].present THEN t.ram[t.pte[page].frame * PageSize + (a % PageSize)]
            ELSE swapped[page][(a % PageSize) + 1]]

MemoryInit ==
    /\ frame = 2
    /\ \E p \in Programs, c \in Contents, zeros \in ZeroPages, resident \in BOOLEAN :
        LET held == [page \in Pages |-> IF page \in zeros THEN Zeros ELSE c[page]]
            there == IF resident THEN {0, 1} ELSE {}
        IN  /\ p.resident => resident /\ zeros = {}
            /\ swap = held
            /\ s = p @@ [zf |-> FALSE, val |-> <<>>, port |-> 0, out |-> <<>>,
                         es |-> 0, ip |-> 0, wrecked |-> FALSE, fault |-> NoFault, over |-> FALSE,
                         ram |-> [a \in 0 .. 4 * PageSize - 1 |->
                            IF resident /\ a >= 2 * PageSize
                            THEN held[a \div PageSize - 2][(a % PageSize) + 1] ELSE 0],
                         pte |-> [page \in Pages |->
                            IF page \in zeros THEN Mapped(1, FALSE)
                            ELSE IF page \in there THEN Mapped(2 + page, TRUE) ELSE Absent]]
            /\ begun = [s |-> s, view |-> View(s, swap)]

Execute ==
    /\ ~ s.over /\ ~ Faulted(s)
    /\ s' = Executed(s)
    /\ UNCHANGED <<swap, frame, begun>>

PageIn ==
    /\ s.fault.vector = "PF"
    /\ LET page == s.fault.cr2 \div PageSize
           content == IF s.fault.present THEN Zeros ELSE swap[page]
           out == {p \in Pages : s.pte[p].present /\ s.pte[p].frame = frame}
       IN  /\ s' = [s EXCEPT !.fault = NoFault,
                       !.pte = [p \in Pages |-> IF p = page THEN Mapped(frame, TRUE)
                                                ELSE IF p \in out THEN Absent ELSE @[p]],
                       !.ram = [a \in DOMAIN @ |-> IF a \div PageSize = frame
                                                   THEN content[(a % PageSize) + 1] ELSE @[a]]]
           /\ swap' = [p \in Pages |-> IF p \in out /\ s.pte[p].dirty
                                       THEN FrameBytes(s.ram, frame) ELSE swap[p]]
    /\ frame' = 5 - frame
    /\ UNCHANGED begun

SegmentIn ==
    /\ s.fault.vector = "NP"
    /\ s' = [s EXCEPT !.fault = NoFault, !.absent = @ \ {s.fault.selector}]
    /\ UNCHANGED <<swap, frame, begun>>

MemoryNext == Execute \/ PageIn \/ SegmentIn

-----------------------------------------------------------------------------
(* Properties. *)

\* The instruction as it would be with all of its pages in memory.
Ideal ==
    Executed([begun.s EXCEPT
        !.ram = begun.view,
        !.absent = {},
        !.pte = [page \in Pages |-> Mapped(page, TRUE)]])
Outcome(t, view) ==
    <<t.si, t.di, t.cx, t.sp, t.bp, t.ip, t.es, t.ax, t.zf, t.cf, t.if, t.iopl,
      t.port, t.out, t.fault, t.wrecked, view>>
IdealOutcome == Given(Ideal, LAMBDA t : Outcome(t, t.ram))

Ended == s.over \/ s.fault.vector \notin {"none", "PF", "NP"}

\* An instruction that is over, or that a limit has stopped, has done what it
\* does with all of its pages and segments in memory.
OutcomeIsIdeal == Ended => Outcome(s, View(s, swap)) = IdealOutcome

\* What undoes an instruction of the stack, and the registers that it restores.
Undoing(op) == CASE op = "pusha" -> "popa" [] op = "pushf" -> "popf" [] op = "enter" -> "leave"
Saved(t) == <<t.sp, t.bp, t.di, t.ax, t.cf, t.if, t.iopl>>

\* POPA undoes PUSHA, LEAVE undoes ENTER, and POPF undoes PUSHF, in V86 mode and
\* in protected mode, whatever the privilege.
PairsUndo ==
    s.over /\ s.op \in {"pusha", "pushf", "enter"} =>
        Saved(Executed([Ideal EXCEPT !.op = Undoing(s.op), !.over = FALSE])) = Saved(begun.s)
=============================================================================

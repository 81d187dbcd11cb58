--------------------------- MODULE FaultingPrograms ---------------------------
(***************************************************************************)
(* What the instructions of FaultingStack are run on: four pages of two    *)
(* bytes and two frames to hold them.  An instruction touches two pages at *)
(* most, and words are aligned.  Those that a fault may leave half done    *)
(* have their pages in memory: what happens otherwise is in the README.    *)
(***************************************************************************)
EXTENDS FaultingStack

Up == [limit |-> 5, down |-> FALSE]
Down == [limit |-> 1, down |-> TRUE]
Whole == [limit |-> 7, down |-> FALSE]

Default ==
    [op |-> "none", rep |-> "none", width |-> 1, si |-> 0, di |-> 0, cx |-> 1, down |-> FALSE,
     seg |-> Up, cpl |-> 3, wp |-> TRUE, v86 |-> FALSE, ax |-> <<1, 1>>, sp |-> 0, bp |-> 0,
     cf |-> FALSE, if |-> FALSE, iopl |-> 3, alloc |-> 0, nesting |-> 0, absent |-> {},
     codelimit |-> 15, resident |-> FALSE]
Virtual == [v86 |-> TRUE, seg |-> Whole] @@ Default

-----------------------------------------------------------------------------
(* Strings. *)

Aligned == [width : {1, 2}, si : 0 .. 7, di : 0 .. 7]
Places(op) == {at \in Aligned :
    /\ at.si % at.width = 0 /\ at.di % at.width = 0
    /\ op \in {"stos", "scas", "ins"} => at.si = 0
    /\ op \in {"lods", "outs"} => at.di = 0}
Repeats(op) == IF op \in Comparing THEN {"repz", "repnz"} ELSE {"repz"}

StringPrograms ==
    UNION {{at @@ [op |-> op, rep |-> rep, cx |-> cx, down |-> down, seg |-> seg] @@ Default :
                rep \in Repeats(op), at \in Places(op), cx \in {0, 2, 4}, down \in BOOLEAN, seg \in {Up, Down}} :
           op \in (FromSi \cup ToDi) \ {"ins"}}
    \cup {at @@ [op |-> "ins", rep |-> "repz", cx |-> cx, resident |-> TRUE] @@ Default :
              at \in {p \in Places("ins") : p.di < 4}, cx \in 0 .. 1}
    \cup {at @@ [op |-> op, cpl |-> 0] @@ Default : op \in {"movs", "lods"}, at \in Places("movs")}

-----------------------------------------------------------------------------
(* One operand in memory. *)

OperandPrograms ==
    {[op |-> op, di |-> di, seg |-> seg, ax |-> <<3, 1>>] @@ Default :
        op \in {"add", "cmp", "not", "neg", "inc", "dec", "add r", "xchg", "load", "load []", "store"},
        di \in 0 .. 7, seg \in {Up, Down}}
    \cup {[op |-> op, di |-> di, ax |-> <<x, 1>>] @@ Default : op \in {"bound", "arpl"}, di \in 0 .. 7, x \in 1 .. 3}
    \cup {[op |-> "xlat", si |-> si] @@ Default : si \in 0 .. 7}
    \cup {[op |-> "adc", di |-> di, cf |-> cf, resident |-> TRUE] @@ Default : di \in 0 .. 3, cf \in BOOLEAN}
    \cup {[op |-> op, di |-> di, absent |-> {1}] @@ Default : op \in {"mov es", "mov [], es", "jmp"}, di \in 0 .. 7}
    \cup {[op |-> "les", di |-> di, absent |-> gone] @@ Default : di \in 0 .. 7, gone \in {{}, {1}}}
    \cup {[op |-> "lfs", di |-> di, absent |-> gone, resident |-> TRUE] @@ Default : di \in 0 .. 3, gone \in {{}, {1}}}

-----------------------------------------------------------------------------
(* The stack. *)

Levels == {[cpl |-> 0, iopl |-> 0] @@ Default, [iopl |-> 0] @@ Default, Default, [iopl |-> 0] @@ Virtual, Virtual}

PopPrograms ==
    {[op |-> "pop", sp |-> sp, seg |-> seg] @@ Default : sp \in 0 .. 7, seg \in {Up, Down}}
    \cup {[op |-> "pop []", sp |-> sp, di |-> di, seg |-> seg] @@ Default :
              sp \in {4, 5, 7}, di \in 0 .. 7, seg \in {Up, Down}}
    \cup {[op |-> op, sp |-> sp] @@ mode : op \in {"pop [sp]", "pop sp"}, sp \in 0 .. 7, mode \in {Default, Virtual}}
    \cup {[op |-> "pop es", sp |-> sp, absent |-> gone] @@ Default : sp \in 3 .. 6, gone \in {{}, {1}}}
    \cup {[op |-> "popf", sp |-> sp, if |-> enabled] @@ level : sp \in 4 .. 7, enabled \in BOOLEAN, level \in Levels}
    \cup {[op |-> "ret", sp |-> sp, alloc |-> n, codelimit |-> 5] @@ Default : sp \in 4 .. 7, n \in 0 .. 1}
    \cup {[op |-> "leave", bp |-> bp, seg |-> seg] @@ Default : bp \in 0 .. 7, seg \in {Up, Down}}

FramePrograms ==
    {[op |-> op, sp |-> sp, di |-> 6] @@ Virtual : op \in {"pusha", "popa"}, sp \in 0 .. 7}
    \cup {[op |-> "pusha", sp |-> sp, di |-> 6, resident |-> TRUE] @@ Default : sp \in {3, 4}}
    \cup {[op |-> "popa", sp |-> sp, di |-> 6, resident |-> TRUE] @@ Default : sp \in {0, 1}}
    \cup {[op |-> "pushf", sp |-> sp, cf |-> carry, if |-> enabled, resident |-> TRUE] @@ level :
              sp \in 1 .. 4, carry \in BOOLEAN, enabled \in BOOLEAN, level \in Levels}
    \cup {[op |-> "enter", sp |-> sp, bp |-> (sp + (sp % 2)) % 8, nesting |-> n, alloc |-> m] @@ Virtual :
              sp \in 0 .. 7, n \in 0 .. 2, m \in {0, 2}}
    \cup {[op |-> "enter", sp |-> sp, bp |-> sp, nesting |-> n, alloc |-> m, resident |-> TRUE] @@ Default :
              sp \in 3 .. 4, n \in 0 .. 2, m \in 0 .. 1}
    \cup {[op |-> "call", sp |-> sp, di |-> di, resident |-> TRUE] @@ Default : sp \in {3, 4}, di \in 0 .. 3}

MCPrograms == StringPrograms \cup OperandPrograms \cup PopPrograms \cup FramePrograms
PushPrograms == {[op |-> "push", sp |-> sp, seg |-> seg] @@ Default : sp \in 0 .. 7, seg \in {Up, Down}}

MCContents == {[page \in Pages |-> IF page < 2 THEN <<1, 1>> ELSE IF page = 2 THEN <<1, 6>> ELSE <<1, 13>>]}
MCZeroPages == {{}, {1, 3}}
=============================================================================

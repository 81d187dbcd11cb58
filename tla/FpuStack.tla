------------------------------ MODULE FpuStack ------------------------------
(***************************************************************************)
(* The x87 register stack and its status (src/emu88/emu88_fpu.cc): tags,   *)
(* stack faults, masked and pending exceptions, and the images that FNSAVE *)
(* and FNSTENV write.  What the arithmetic computes is in F80; here it     *)
(* delivers any value and raises any flags it might.  The condition codes  *)
(* other than C1 are not modelled.                                         *)
(***************************************************************************)
EXTENDS Integers, FiniteSets

CONSTANTS
    Depth,      \* registers of the stack: 8 in the program
    Masks,      \* the masks of the control words that programs load
    Images      \* the environments that programs load and did not save

ASSUME DepthAssumption == Depth \in Nat \ {0, 1}

VARIABLES
    x87,        \* FPUState
    fetched     \* the instruction being executed, or Nothing

Flags == {"IE", "DE", "PE"}
Registers == 0..(Depth - 1)

\* Registers hold "num", "indefinite", or "nan": a quiet NaN that wins over the
\* indefinite where both are operands.
TagOf(v) == IF v = "num" THEN "valid" ELSE "special"
Ring(n) == n % Depth
Place(f, i) == Ring(f.top + i)
IsEmpty(f, i) == f.tags[Place(f, i)] = "empty"

\* fpu_init, which keeps the registers, and fpu_power_on.
Initialised(f) ==
    [f EXCEPT !.masked = Flags, !.flags = {}, !.sf = FALSE, !.es = FALSE,
              !.c1 = FALSE, !.top = 0, !.tags = [p \in Registers |-> "empty"]]

PoweredOn == Initialised([regs |-> [p \in Registers |-> "num"], tags |-> {},
                          top |-> 0, masked |-> {}, flags |-> {},
                          sf |-> FALSE, es |-> FALSE, c1 |-> FALSE])

-----------------------------------------------------------------------------
(* An instruction in progress: the state, the flags raised (c.flags), the  *)
(* first stack fault, whether a result was rounded up and whether the      *)
(* instruction placed C1 itself.                                           *)

Begin87(f) == [f |-> f, raised |-> {}, fault |-> "none", up |-> FALSE, own |-> FALSE]

StackFault(q, kind) ==
    [q EXCEPT !.raised = @ \cup {"IE"},
              !.fault = IF @ = "none" THEN kind ELSE @]

\* fpu_get: the substitute and the fault for a register that is empty.
ReadSt(q, i) ==
    IF IsEmpty(q.f, i) THEN "indefinite" ELSE q.f.regs[Place(q.f, i)]
Reading(q, indices) ==
    IF \E i \in indices : IsEmpty(q.f, i) THEN StackFault(q, "under") ELSE q

Retagged(f, p, v) == [f EXCEPT !.regs[p] = v, !.tags[p] = TagOf(v)]
PutSt(q, i, v) == [q EXCEPT !.f = Retagged(@, Place(@, i), v)]

\* WRR: an arithmetic result gives way to the indefinite after a stack fault.
PutResult(q, i, v) == PutSt(q, i, IF q.fault = "none" THEN v ELSE "indefinite")

OntoFullReporting(q) == [q EXCEPT !.raised = @ \cup {"IE"}, !.fault = "over"]
OntoFull(q) == StackFault(q, "over")

PushSt(q, v) ==
    LET below == Ring(q.f.top + Depth - 1)
        full == q.f.tags[below] # "empty"
        tested == IF full THEN OntoFull(q) ELSE q
    IN  [tested EXCEPT !.f = [Retagged(@, below, IF full THEN "indefinite" ELSE v)
                              EXCEPT !.top = below]]

PopSt(q) ==
    [q EXCEPT !.f.tags[q.f.top] = "empty", !.f.top = Ring(@ + 1)]

Pops(q, n) == IF n = 0 THEN q ELSE IF n = 1 THEN PopSt(q) ELSE PopSt(PopSt(q))

Raising(q, flags, up) == [q EXCEPT !.raised = @ \cup flags, !.up = up]

\* What an operation on these operands may deliver.
Delivers(operands) ==
    IF "nan" \in operands THEN {<<"nan", {}, FALSE>>}
    ELSE IF "indefinite" \in operands THEN {<<"indefinite", {}, FALSE>>}
    ELSE {<<"indefinite", {"IE"}, FALSE>>, <<"num", {}, FALSE>>,
          <<"num", {"DE"}, FALSE>>, <<"num", {"PE"}, FALSE>>, <<"num", {"PE"}, TRUE>>}

-----------------------------------------------------------------------------
(* The instructions.  Each operator gives the set of ways one may end.     *)

Arithmetic(q, i, to, pops) ==
    LET read == Reading(q, {0, i})
    IN  {Pops(PutResult(Raising(read, d[2], d[3]), to, d[1]), pops) :
            d \in Delivers({ReadSt(q, 0), ReadSt(q, i)})}

\* A memory operand: a denormal raises DE while it is fetched.
MemoryValues == {<<"num", {}>>, <<"num", {"DE"}>>, <<"nan", {}>>}

ArithmeticMemory(q) ==
    UNION {{PutResult(Raising(Reading(q, {0}), m[2] \cup d[2], d[3]), 0, d[1]) :
               d \in Delivers({ReadSt(q, 0), m[1]})} : m \in MemoryValues}

ComparisonRaises(operands, quiet) ==
    IF operands \subseteq {"num"} THEN {{}, {"DE"}}
    ELSE IF quiet THEN {{}} ELSE {{"IE"}}

Comparing87(q, indices, quiet, pops) ==
    {Pops(Raising(Reading(q, indices), flags, FALSE), pops) :
        flags \in ComparisonRaises({ReadSt(q, i) : i \in indices}, quiet)}

ComparingMemory(q, pops) ==
    UNION {{Pops(Raising(Reading(q, {0}), m[2] \cup flags, FALSE), pops) :
               flags \in ComparisonRaises({ReadSt(q, 0), m[1]}, FALSE)} : m \in MemoryValues}

LoadingMemory(q) == {PushSt(Raising(q, m[2], FALSE), m[1]) : m \in MemoryValues}
LoadingConstant(q) == {PushSt(q, "num")}
LoadingSt(q, i) == {PushSt(Reading(q, {i}), ReadSt(q, i))}

\* A real or an integer: the conversion of a quiet NaN to a real raises nothing.
StoringMemory(q, pops) ==
    LET rounded == IF ReadSt(q, 0) = "num" THEN {<<{"PE"}, FALSE>>, <<{"PE"}, TRUE>>} ELSE {}
    IN  {Pops(Raising(Reading(q, {0}), w[1], w[2]), pops) :
            w \in rounded \cup {<<{}, FALSE>>, <<{"IE"}, FALSE>>}}

StoringSt(q, i, pops) == {Pops(PutSt(Reading(q, {0}), i, ReadSt(q, 0)), pops)}

Exchanging(q, i) ==
    {PutSt(PutSt(Reading(q, {0, i}), 0, ReadSt(q, i)), i, ReadSt(q, 0))}

\* FCHS, FABS; FXAM reads what is there and puts the sign in C1.
ChangingSign(q) == {PutSt(Reading(q, {0}), 0, ReadSt(q, 0))}
Examining(q) == {[q EXCEPT !.f.c1 = sign, !.own = TRUE] : sign \in BOOLEAN}

Moving(q, i) ==
    {PutResult(Reading(q, {0, i}), 0, IF taken THEN ReadSt(q, i) ELSE ReadSt(q, 0)) :
        taken \in BOOLEAN}

\* A trigonometric operand out of range: C2 is set and nothing else.
OutOfRange(q) == IF ReadSt(q, 0) = "num" THEN {[q EXCEPT !.own = TRUE]} ELSE {}

\* F2XM1, FSQRT, FRNDINT; FSIN and FCOS, whose result is not an arithmetic one.
Unary(q) ==
    {PutResult(Raising(Reading(q, {0}), d[2], d[3]), 0, d[1]) : d \in Delivers({ReadSt(q, 0)})}
Sine(q) ==
    OutOfRange(q) \cup
    {PutSt(Raising(Reading(q, {0}), d[2], d[3]), 0, d[1]) : d \in Delivers({ReadSt(q, 0)})}

TwoResultFault(q) ==
    IF q.fault = "none" THEN q
    ELSE [PutSt(PutSt(q, 0, "indefinite"), 1, "indefinite")
             EXCEPT !.raised = @ \ {"DE", "PE"}, !.up = FALSE]

\* FXTRACT; FPTAN and FSINCOS.
Extracting(q) ==
    {TwoResultFault(PushSt(PutSt(Raising(Reading(q, {0}), d[2], d[3]), 0, d[1]), d[1])) :
        d \in Delivers({ReadSt(q, 0)})}
Tangent(q) == OutOfRange(q) \cup Extracting(q)

\* FPREM and FPREM1 write as FXCH does, and put a quotient bit in C1.
Remainders(q) ==
    {[PutSt(Raising(Reading(q, {0, 1}), d[2], FALSE), 0, d[1])
        EXCEPT !.f.c1 = odd, !.own = TRUE] :
        d \in Delivers({ReadSt(q, 0), ReadSt(q, 1)}), odd \in BOOLEAN}

Turning(q, by) == {[q EXCEPT !.f.top = Ring(@ + by)]}
Freeing(q, i, pops) == {Pops([q EXCEPT !.f.tags[Place(q.f, i)] = "empty"], pops)}

-----------------------------------------------------------------------------
(* The environment.  The tag word is in physical order.                    *)

TagWordFromTop(f) == [p \in Registers |-> f.tags[Place(f, p)]]
TagWord(f) == f.tags

Environment(f) ==
    [top |-> f.top, tags |-> TagWord(f), masked |-> f.masked, flags |-> f.flags,
     sf |-> f.sf, es |-> f.es, c1 |-> f.c1]

\* fpu_load_env: of a tag, only whether the register is empty is taken.
Retag(f, tags) ==
    [f EXCEPT !.tags = [p \in Registers |->
        IF tags[p] = "empty" THEN "empty" ELSE TagOf(f.regs[p])]]

WithEnvironment(f, e) ==
    Retag([f EXCEPT !.top = e.top, !.masked = e.masked, !.flags = e.flags,
                    !.sf = e.sf, !.es = e.es, !.c1 = e.c1], e.tags)

\* The registers of FNSAVE's image are in the order of the stack.
SavedRegisters(f) == [i \in Registers |-> f.regs[Place(f, i)]]

Restored87(f, e, saved) ==
    LET g == WithEnvironment(f, e)
    IN  Retag([g EXCEPT !.regs = [p \in Registers |-> saved[Ring(p + Depth - g.top)]]], g.tags)

Control(q, f) == {[q EXCEPT !.f = f, !.own = TRUE]}

\* FNCLEX.
Cleared(f) == [f EXCEPT !.flags = {}, !.sf = FALSE, !.es = FALSE]

\* FRSTOR; the tags were decided before the registers were read.
Restoring(q, e, saved) == Control(q, Restored87(q.f, e, saved))

-----------------------------------------------------------------------------
(* The pointers of the environment, in its four layouts.  The dwords of    *)
(* the fields are [ip, mid, dp, last], the words of the 16-bit forms too.  *)

PackedReal(wide, t) ==
    LET ilin == t.fcs * 16 + t.fip
        dlin == t.fds * 16 + t.fdp
        High(lin) == IF wide THEN (lin \div 2^16) * 2^16
                             ELSE ((lin \div 2^16) % 16) * 2^12
    IN  [ip |-> ilin % 2^16, mid |-> High(ilin) + (t.fop % 2^11),
         dp |-> dlin % 2^16, last |-> High(dlin)]

UnpackedReal(wide, image) ==
    LET High(field) == IF wide THEN (field \div 2^16) * 2^16 ELSE (field \div 2^12) * 2^16
    IN  [fip |-> image.ip + High(image.mid), fdp |-> image.dp + High(image.last),
         fop |-> image.mid % 2^11, fcs |-> 0, fds |-> 0]

PackedProtected(wide, t) ==
    [ip |-> IF wide THEN t.fip ELSE t.fip % 2^16,
     mid |-> IF wide THEN t.fcs + (t.fop % 2^11) * 2^16 ELSE t.fcs,
     dp |-> IF wide THEN t.fdp ELSE t.fdp % 2^16, last |-> t.fds]

UnpackedProtected(wide, image) ==
    [fip |-> image.ip, fcs |-> image.mid % 2^16, fdp |-> image.dp, fds |-> image.last,
     fop |-> IF wide THEN (image.mid \div 2^16) % 2^11 ELSE 0]

-----------------------------------------------------------------------------
(* Decoding.                                                               *)

Indexed(ops) == [op : ops, i : Registers]
ComparingTwice == [op : {"compare", "ucompare"}, i : {1}, pops : {2}]
Sources == [op : {"compare", "ucompare", "store"}, i : Registers, pops : {0, 1}] \cup ComparingTwice

Arithmetics ==
    {n \in [op : {"arith"}, i : Registers, to : Registers, pops : {0, 1}] :
        (n.to = n.i \/ n.to = 0) /\ (n.pops = 1 => n.to = n.i)}

Memory87 == [op : {"arith mem", "load mem"}] \cup
            [op : {"compare mem", "store mem"}, pops : {0, 1}]

Plain == [op : {"test", "load constant", "sign", "examine", "unary", "sine",
                "tangent", "extract", "remainder", "decstp", "incstp", "nop"}]

\* fpu_is_nowait; "store control" is FNSTCW, FNSTSW, FNENI, FNDISI and FNSETPM.
Nowait == [op : {"store control", "clear", "init", "store environment", "save"}]

Loads == [op : {"load control"}, masked : Masks] \cup
         [op : {"load environment", "restore"}, image : Images]

Instructions87 ==
    Arithmetics \cup Sources \cup Indexed({"load", "exchange", "move", "free", "free pop"})
        \cup Memory87 \cup Plain \cup Nowait \cup Loads

TouchesMemory(n) ==
    n \in Memory87 \cup Loads \cup [op : {"store control", "store environment", "save"}]

Endings(q, n) ==
    CASE n.op = "arith" -> Arithmetic(q, n.i, n.to, n.pops)
      [] n.op = "arith mem" -> ArithmeticMemory(q)
      [] n.op = "compare" -> Comparing87(q, {0, n.i}, FALSE, n.pops)
      [] n.op = "ucompare" -> Comparing87(q, {0, n.i}, TRUE, n.pops)
      [] n.op = "test" -> Comparing87(q, {0}, FALSE, 0)
      [] n.op = "compare mem" -> ComparingMemory(q, n.pops)
      [] n.op = "load" -> LoadingSt(q, n.i)
      [] n.op = "load mem" -> LoadingMemory(q)
      [] n.op = "load constant" -> LoadingConstant(q)
      [] n.op = "store" -> StoringSt(q, n.i, n.pops)
      [] n.op = "store mem" -> StoringMemory(q, n.pops)
      [] n.op = "exchange" -> Exchanging(q, n.i)
      [] n.op = "move" -> Moving(q, n.i)
      [] n.op = "sign" -> ChangingSign(q)
      [] n.op = "examine" -> Examining(q)
      [] n.op = "unary" -> Unary(q)
      [] n.op = "sine" -> Sine(q)
      [] n.op = "tangent" -> Tangent(q)
      [] n.op = "extract" -> Extracting(q)
      [] n.op = "remainder" -> Remainders(q)
      [] n.op = "decstp" -> Turning(q, Depth - 1)
      [] n.op = "incstp" -> Turning(q, 1)
      [] n.op = "free" -> Freeing(q, n.i, 0)
      [] n.op = "free pop" -> Freeing(q, n.i, 1)
      [] n.op = "nop" -> {q}
      [] n.op = "store control" -> Control(q, q.f)
      [] n.op = "clear" -> Control(q, Cleared(q.f))
      [] n.op = "store environment" -> Control(q, [q.f EXCEPT !.masked = Flags])
      [] n.op = "load control" -> Control(q, [q.f EXCEPT !.masked = n.masked])
      [] n.op = "load environment" -> Control(q, WithEnvironment(q.f, n.image))
      [] n.op = "restore" -> Restoring(q, n.image, SavedRegisters(q.f))

-----------------------------------------------------------------------------
(* Execution.                                                              *)

\* The end of execute_fpu: C1, the flags, and ES as a function of both words.
Pending(f) == f.flags \ f.masked # {}

Reported(q) ==
    [q.f EXCEPT !.flags = @ \cup IF "IE" \in q.raised THEN q.raised \ {"DE"} ELSE q.raised,
                !.sf = @ \/ q.fault # "none",
                !.c1 = IF q.fault # "none" THEN q.fault = "over"
                       ELSE IF q.own THEN @ ELSE q.up]

Committed(q) == [Reported(q) EXCEPT !.es = Pending(Reported(q))]

Nothing == [op |-> "nothing"]

StackInit == x87 = PoweredOn /\ fetched = Nothing

Fetch87 == fetched = Nothing /\ fetched' \in Instructions87 /\ UNCHANGED x87

\* The error of an earlier instruction is reported in place of this one,
\* unless the board has nowhere to report it.
Signal87 ==
    /\ fetched # Nothing /\ x87.es /\ fetched \notin Nowait
    /\ fetched' = Nothing /\ UNCHANGED x87

\* A memory operand that faults gives back the state as it was.
Fault87 ==
    /\ fetched # Nothing /\ TouchesMemory(fetched)
    /\ fetched' = Nothing /\ UNCHANGED x87

Execute87 ==
    /\ fetched # Nothing /\ fetched' = Nothing
    /\ IF fetched.op \in {"init", "save"}
       THEN x87' = Initialised(x87)
       ELSE \E q \in Endings(Begin87(x87), fetched) : x87' = Committed(q)

StackNext == Fetch87 \/ Signal87 \/ Fault87 \/ Execute87

-----------------------------------------------------------------------------
(* Properties.                                                             *)

\* The registers an instruction reads, and whether it pushes.
Reads87(n) ==
    CASE n.op \in {"arith", "compare", "ucompare", "exchange", "move"} -> {0, n.i}
      [] n.op \in {"arith mem", "test", "compare mem", "store", "store mem", "sign",
                   "unary", "sine", "tangent", "extract"} -> {0}
      [] n.op = "load" -> {n.i}
      [] n.op = "remainder" -> {0, 1}
      [] OTHER -> {}
Pushes(n) == n.op \in {"load", "load mem", "load constant", "tangent", "extract"}

\* The physical registers that get its results.
Results87(n) ==
    CASE n.op = "arith" -> {Place(x87, n.to)}
      [] n.op = "store" -> {Place(x87, n.i)}
      [] n.op \in {"arith mem", "move", "sign", "unary", "sine"} -> {x87.top}
      [] n.op \in {"tangent", "extract"} -> {x87.top, Place(x87, Depth - 1)}
      [] n.op \in {"load", "load mem", "load constant"} -> {Place(x87, Depth - 1)}
      [] OTHER -> {}

Underflows(n) == \E i \in Reads87(n) : IsEmpty(x87, i)
OverflowsStack(n) == Pushes(n) /\ ~IsEmpty(x87, Depth - 1)

FaultIsIndefinite(n) ==
    /\ x87'.sf /\ x87'.flags = x87.flags \cup {"IE"}
    /\ x87'.c1 = ~Underflows(n)
    /\ \A p \in Results87(n) : x87'.regs[p] = "indefinite"

\* Reading a register that is empty, or pushing onto one that is not, delivers
\* the indefinite to every destination and reports exactly that: IE and SF, with
\* C1 for the direction of the first fault (emu88_fpu.cc:161 and :212).  The
\* destinations of FXCH are left out, and those of FPREM and FPREM1, which may
\* get the other operand instead.
FaultsAreIndefinite ==
    fetched # Nothing /\ (Underflows(fetched) \/ OverflowsStack(fetched))
        => x87' = x87 \/ FaultIsIndefinite(fetched)

\* In real mode the image has 20 or 32 bits of the linear addresses, and in
\* protected mode 16 or 32 of the offsets; only the 16-bit one has no opcode.
PointersComeBack ==
    \A t \in [fip : {0, 5, 65535, 70000}, fcs : {0, 4096, 65535}, fop : {0, 2047},
              fdp : {1, 65535}, fds : {8, 65535}], wide \in BOOLEAN :
        LET real == UnpackedReal(wide, PackedReal(wide, t))
            prot == UnpackedProtected(wide, PackedProtected(wide, t))
        IN  /\ (real.fip - (t.fcs * 16 + t.fip)) % 2^20 = 0
            /\ (real.fdp - (t.fds * 16 + t.fdp)) % 2^20 = 0
            /\ wide => (real.fip = t.fcs * 16 + t.fip /\ prot = t)
            /\ real.fop = t.fop /\ (prot.fip - t.fip) % 2^16 = 0
            /\ prot.fcs = t.fcs /\ prot.fds = t.fds

\* An error is pending exactly when an exception that is set is unmasked
\* (emu88_fpu.cc:1142), every tag is its register's, and what FNSAVE saves comes
\* back from FRSTOR whatever was in the registers in between.
StateComesBack ==
    /\ x87.es = Pending(x87)
    /\ \A p \in Registers : x87.tags[p] \in {"empty", TagOf(x87.regs[p])}
    /\ \A f \in {Initialised(x87), PoweredOn} :
           \A q \in Restoring(Begin87(f), Environment(x87), SavedRegisters(x87)) :
               Committed(q) = x87
    /\ fetched.op = "restore" => PointersComeBack
=============================================================================

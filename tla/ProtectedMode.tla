--------------------------- MODULE ProtectedMode ----------------------------
(***************************************************************************)
(* Control transfers of the emulated 386 in protected and virtual-8086     *)
(* mode (emu88_pmode.cc, and RETF, INT and IRET in emu88.cc): segment      *)
(* loads, far calls and jumps through segments, call gates and task        *)
(* segments, interrupts, exceptions with double and triple faults, and the *)
(* returns from all of them.                                               *)
(*                                                                         *)
(* An instruction is an operator from the machine m to the machine after   *)
(* it.  raise_exception delivers the exception at once, in the middle of   *)
(* the instruction, and what the instruction does after that is done to    *)
(* the machine of the handler: the operators keep that order.              *)
(*                                                                         *)
(* Operands and gates are 32-bit, there is no paging, stacks are large     *)
(* enough and descriptors do not change while they are loaded, so that a   *)
(* segment register's cache is the descriptor its selector names.  DS      *)
(* stands for DS, ES, FS and GS.  A stack is the sequence of what is on    *)
(* it, and what a far pointer of no interest points to is address 0.       *)
(***************************************************************************)
EXTENDS Integers, Sequences, SequencesExt, FiniteSets

CONSTANTS
    Table,          \* GDT: what an index names
    Idts,           \* interrupt descriptor tables: what a vector names
    Tasks,          \* tasks: their first stack and where they start
    Calls, Jumps,   \* operands of far calls and jumps
    Loads,          \* operands of segment loads
    SoftwareInts,        \* vectors of INT n
    Returns,        \* what a procedure may put in place of its return selector
    Iopl,           \* EFLAGS.IOPL
    Words, Transfers  \* bounds: words on a stack, transfers to be returned from

VARIABLES
    m,              \* the processor, its stacks and its task segments
    unreturned         \* history: transfers not yet returned from, by task

pm == <<m, unreturned>>

Sel(index, rpl) == [index |-> index, rpl |-> rpl]
Null == Sel("null", 0)
Real == Sel("real", 3)                   \* a segment of virtual-8086 mode
Flags(if, nt, vm) == [if |-> if, nt |-> nt, vm |-> vm]

DescriptorOf(sel) == Table[sel.index]
IsConforming(sel) == DescriptorOf(sel).type = "conforming"
IsCode(sel) == DescriptorOf(sel).type \in {"code", "conforming"}

-----------------------------------------------------------------------------
(* The stack. *)

Stack(n) == n.stack[n.ss.index]
Esp(n) == Len(Stack(n))
Push(n, words) == [n EXCEPT !.stack[n.ss.index] = @ \o words]
WordAt(n, k) == Stack(n)[Esp(n) + 1 - k]
WithEsp(n, esp) == [n EXCEPT !.stack[n.ss.index] = SubSeq(@, 1, esp)]
Pop(n, k) == WithEsp(n, Esp(n) - k)

\* The task segment's stack for ring 0.
ToRing0(n) == [n EXCEPT !.ss = Tasks[n.tr].ss0, !.cpl = 0, !.stack[Tasks[n.tr].ss0.index] = <<>>]

OuterAfterSwitch(n) == <<n.ss, [esp |-> 0]>>
Outer(n) == <<n.ss, [esp |-> Esp(n)]>>
Address(n) == <<n.cs, [ip |-> n.ip]>>

-----------------------------------------------------------------------------
(* Exceptions and interrupts. *)

HasError == {"DF", "TS", "NP", "SS", "GP"}

\* What task_switch saves, of the tasks that do not run.
Context(n) == [ip |-> n.ip, f |-> n.f, cs |-> n.cs, ss |-> n.ss, ds |-> n.ds, esp |-> Esp(n)]

BusyUncleared(n, task, call) == [n.busy EXCEPT ![task] = TRUE]

\* The new task is busy, and the old one stays so when it will be returned to.
BusyAfter(n, task, call) ==
    [t \in DOMAIN Tasks |-> t = task \/ (n.busy[t] /\ (call \/ t # n.tr))]

\* What task_switch faults with, and what it does otherwise.
TaskFault(n, task, iret) ==
    IF DescriptorOf(task).type # "tss" THEN "GP"
    ELSE IF ~ DescriptorOf(task).present THEN "NP"
    ELSE IF ~ iret /\ n.busy[task.index] THEN "GP"
    ELSE IF iret /\ ~ n.busy[task.index] THEN "TS"
    ELSE "none"

TaskSwitched(n, task, call, iret, error) ==
    LET new == n.tss[task.index]
        loaded ==
            [n EXCEPT !.tss = [t \in DOMAIN Tasks \ {task.index} |->
                           IF t = n.tr THEN Context(n) ELSE @[t]],
               !.tr = task.index,
               !.busy = BusyAfter(n, task.index, call),
               !.link[task.index] = IF call THEN n.tr ELSE @,
               !.f = [new.f EXCEPT !.nt = call \/ (~ iret /\ @)],
               !.cs = new.cs, !.ss = new.ss, !.ds = new.ds, !.cpl = new.cs.rpl,
               !.ip = new.ip]
    IN  Push(WithEsp(loaded, new.esp), error)

\* What do_interrupt_pm faults with, and what it does otherwise.
GateLevel(n, gate) ==
    IF IsConforming(gate.target) THEN n.cpl ELSE DescriptorOf(gate.target).dpl

GateFault(n, vector, software) ==
    LET g == n.idt[vector]
    IN  IF vector \notin DOMAIN n.idt THEN "GP"
        ELSE IF ~ g.present THEN "NP"
        ELSE IF software /\ g.dpl < n.cpl THEN "GP"
        ELSE IF g.type = "task" THEN TaskFault(n, g.target, FALSE)
        ELSE IF g.target.index = "null" THEN "GP"
        ELSE IF ~ DescriptorOf(g.target).present THEN "NP"
        ELSE IF n.f.vm /\ GateLevel(n, g) # 0 THEN "GP"
        ELSE IF ~ n.f.vm /\ GateLevel(n, g) > n.cpl THEN "GP"
        ELSE "none"

Delivered(n, vector, error) ==
    LET g == n.idt[vector]
        cpl == GateLevel(n, g)
        frame == <<n.f>> \o Address(n) \o error
        new == IF n.f.vm
               THEN Push([ToRing0(n) EXCEPT !.ds = Null], <<n.ds>> \o Outer(n) \o frame)
               ELSE IF cpl # n.cpl THEN Push(ToRing0(n), Outer(n) \o frame)
               ELSE Push(n, frame)
    IN  IF g.type = "task" THEN TaskSwitched(n, g.target, FALSE, FALSE, error)
        ELSE [new EXCEPT !.f = Flags(@.if /\ g.type # "interrupt", FALSE, FALSE),
                         !.cs = Sel(g.target.index, cpl), !.cpl = cpl, !.ip = 0]

\* raise_exception: a second exception is a double fault, and a third resets.
AtTrap(n) == [n EXCEPT !.exception_pending = TRUE]
AtFault(n) == [n EXCEPT !.ip = n.insn_ip, !.exception_pending = TRUE]
TripleFault(n) == [n EXCEPT !.reset = TRUE]
DoubleFault(n) ==
    IF GateFault(n, "DF", FALSE) = "none" THEN Delivered(n, "DF", <<[error |-> "DF"]>>)
    ELSE TripleFault(n)
Raise(n, v) ==
    LET at == AtFault(n)
    IN  IF GateFault(at, v, FALSE) # "none" THEN DoubleFault(at)
        ELSE Delivered(at, v, IF v \in HasError THEN <<[error |-> v]>> ELSE <<>>)

Interrupt(n, vector, software) ==
    LET fault == GateFault(n, vector, software)
    IN  IF fault = "none" THEN Delivered(n, vector, <<>>) ELSE Raise(n, fault)
TaskSwitch(n, task, call, iret) ==
    LET fault == TaskFault(n, task, iret)
    IN  IF fault = "none" THEN TaskSwitched(n, task, call, iret, <<>>) ELSE Raise(n, fault)

-----------------------------------------------------------------------------
(* Segments. *)

\* The checks of load_segment, in their order.
SegmentFault(reg, sel, cpl) ==
    LET d == DescriptorOf(sel)
        admitted == CASE reg = "cs" -> IF IsConforming(sel) THEN d.dpl <= cpl
                                       ELSE d.type = "code" /\ d.dpl = cpl
                      [] reg = "ss" -> d.type = "data" /\ sel.rpl = cpl /\ d.dpl = cpl
                      [] reg = "ds" -> \/ IsConforming(sel)
                                       \/ /\ d.type \in {"code", "data", "readonly"}
                                          /\ sel.rpl <= d.dpl /\ cpl <= d.dpl
    IN  IF sel.index = "null" THEN (IF reg = "ds" THEN "none" ELSE "GP")
        ELSE IF ~ d.present THEN (IF reg = "ss" THEN "SS" ELSE "NP")
        ELSE IF admitted THEN "none" ELSE "GP"

LoadSegment(n, reg, sel, cpl) ==
    LET fault == SegmentFault(reg, sel, cpl)
        own == reg = "cs" /\ ~ IsConforming(sel)
    IN  IF fault # "none" THEN Raise(n, fault)
        ELSE [n EXCEPT ![reg] = IF own THEN Sel(sel.index, cpl) ELSE sel]

KeptSegments(n) == n

\* invalidate_segments_for_cpl.
Invalidated(n) ==
    IF n.ds \notin {Null, Real} /\ ~ IsConforming(n.ds) /\ DescriptorOf(n.ds).dpl < n.cpl
    THEN [n EXCEPT !.ds = Null] ELSE n

-----------------------------------------------------------------------------
(* Far transfers. *)

\* A call or jump through the call gate sel.
ThroughGate(n, sel, call) ==
    LET d == DescriptorOf(sel)
        target == DescriptorOf(d.target)
        inward == call /\ target.type = "code" /\ target.dpl < n.cpl
        params == SubSeq(Stack(n), Esp(n) - d.params + 1, Esp(n))
    IN  IF ~ d.present THEN Raise(n, "NP")
        ELSE IF n.cpl > d.dpl \/ sel.rpl > d.dpl THEN Raise(n, "GP")
        ELSE IF d.target.index = "null" THEN Raise(n, "GP")
        ELSE IF ~ target.present THEN Raise(n, "NP")
        ELSE IF ~ IsCode(d.target) THEN Raise(n, "GP")
        ELSE IF inward
        THEN [Push(ToRing0(n), Outer(n) \o params \o Address(n))
              EXCEPT !.cs = Sel(d.target.index, target.dpl), !.cpl = target.dpl, !.ip = 0]
        ELSE [(IF call THEN Push(n, Address(n)) ELSE n)
              EXCEPT !.cs = d.target, !.ip = 0,
                     !.cpl = IF IsConforming(d.target) THEN @ ELSE target.dpl]

\* far_call_or_jmp.
FarTransfer(n, sel, call) ==
    LET d == DescriptorOf(sel)
        direct == LoadSegment(IF call THEN Push(n, Address(n)) ELSE n, "cs", sel, n.cpl)
    IN  IF sel.index = "null" THEN Raise(n, "GP")
        ELSE IF d.type = "callGate" THEN ThroughGate(n, sel, call)
        ELSE IF d.type \in {"tss", "taskGate"}
        THEN IF ~ d.present THEN Raise(n, "NP")
             ELSE TaskSwitch(n, IF d.type = "tss" THEN sel ELSE d.target, call, FALSE)
        ELSE IF direct.exception_pending THEN direct
        ELSE [direct EXCEPT !.ip = 0]

\* The end of a return to an outer ring.  Nothing is kept of the stack that is
\* left: it starts anew on the next entry.
Outward(n, left, cpl, ip, esp) ==
    Invalidated(WithEsp([n EXCEPT !.cpl = cpl, !.ip = ip, !.stack[left.index] = <<>>], esp))

\* RETF imm16.  (Putting the stack pointer back after a fault has no effect:
\* set_reg32 ignores it once an exception is pending.)
Retf(n, params) ==
    LET ip == WordAt(n, 1).ip
        cs == WordAt(n, 2)
        popped == Pop(n, 2)
        outer == Pop(popped, params + 2)
        withCs == LoadSegment(outer, "cs", cs, cs.rpl)
        withSs == LoadSegment(withCs, "ss", WordAt(n, params + 4), cs.rpl)
        same == LoadSegment(popped, "cs", cs, n.cpl)
    IN  IF cs.rpl > n.cpl
        THEN IF withCs.exception_pending THEN withCs
             ELSE IF withSs.exception_pending THEN withSs
             ELSE Outward(withSs, n.ss, cs.rpl, ip, WordAt(n, params + 3).esp - params)
        ELSE IF cs.rpl < n.cpl THEN Raise(n, "GP")
        ELSE IF same.exception_pending THEN same
        ELSE Pop([same EXCEPT !.ip = ip], params)

\* IRETD.
Iret(n) ==
    LET ip == WordAt(n, 1).ip
        cs == WordAt(n, 2)
        f == WordAt(n, 3)
        outer == Pop(n, 5)
        withCs == LoadSegment(outer, "cs", cs, cs.rpl)
        withSs == LoadSegment(withCs, "ss", WordAt(n, 5), cs.rpl)
        keepIf == n.cpl > Iopl
        same == [Pop(n, 3) EXCEPT !.f = IF keepIf THEN [f EXCEPT !.if = n.f.if] ELSE f]
    IN  IF n.f.nt THEN TaskSwitch(n, Sel(n.link[n.tr], 0), FALSE, TRUE)
        ELSE IF f.vm /\ n.cpl = 0
        THEN [Outward([n EXCEPT !.f = f, !.cs = cs, !.ss = WordAt(n, 5)], n.ss, 3, ip,
                      WordAt(n, 4).esp)
              EXCEPT !.ds = WordAt(n, 6)]
        ELSE IF cs.rpl > n.cpl
        THEN IF withCs.exception_pending THEN withCs
             ELSE IF withSs.exception_pending THEN withSs
             ELSE Outward([withSs EXCEPT !.f = f], n.ss, cs.rpl, ip, WordAt(n, 4).esp)
        ELSE [LoadSegment(same, "cs", cs, n.cpl) EXCEPT !.ip = ip]

-----------------------------------------------------------------------------
(* What a guest's tables must be like for its transfers to be those it means. *)

IsSelector(s) == s = Sel(s.index, s.rpl) /\ s.rpl \in {0, 3}
Names(s, types) == IsSelector(s) /\ s.index \in DOMAIN Table /\ DescriptorOf(s).type \in types
IsKernelCode(s) == Names(s, {"code"}) /\ s.rpl = 0 /\ DescriptorOf(s).dpl = 0

\* Rings 0 and 3, conforming code of ring 0, and gates into ring-0 code.
TableAssumption ==
    /\ {"null", "real"} \cap DOMAIN Table = {}
    /\ \A x \in DOMAIN Table :
          LET d == Table[x]
          IN  /\ d.dpl \in 0 .. 3 /\ d.present \in BOOLEAN
              /\ d.type = "conforming" => d.dpl = 0
              /\ d.type = "callGate" =>
                    d.params \in Nat /\ (d.target.index = "null" \/ IsKernelCode(d.target))
              /\ d.type = "taskGate" => IsSelector(d.target) /\ d.target.index \in DOMAIN Table
              /\ d.type = "tss" => x \in DOMAIN Tasks

\* Code and stack of one ring, and data that the ring may use.
Fit(cs, ss, ds) ==
    /\ Names(cs, {"code", "conforming"}) /\ SegmentFault("cs", cs, cs.rpl) = "none"
    /\ Names(ss, {"data"}) /\ SegmentFault("ss", ss, cs.rpl) = "none"
    /\ \/ ds = Null
       \/ ds.index \in DOMAIN Table /\ (IsConforming(ds) \/ cs.rpl <= DescriptorOf(ds).dpl)

IsContext(c) ==
    /\ c = [ip |-> c.ip, f |-> c.f, cs |-> c.cs, ss |-> c.ss, ds |-> c.ds, esp |-> c.esp]
    /\ c.f \in [if : BOOLEAN, nt : BOOLEAN, vm : BOOLEAN] /\ c.esp \in Nat
    /\ IF c.f.vm THEN {c.cs, c.ss, c.ds} = {Real} ELSE Fit(c.cs, c.ss, c.ds)

\* Tasks share no stack.
StacksOf(t) == {Tasks[t].ss0} \cup {c.ss : c \in Tasks[t].starts}
StackNames == {s.index : s \in UNION {StacksOf(t) : t \in DOMAIN Tasks}}
TasksAssumption ==
    \A t \in DOMAIN Tasks :
        /\ t \in DOMAIN Table /\ Table[t].type = "tss" /\ Table[t].present
        /\ Names(Tasks[t].ss0, {"data"}) /\ SegmentFault("ss", Tasks[t].ss0, 0) = "none"
        /\ \A c \in Tasks[t].starts : IsContext(c) /\ ~ c.f.nt
        /\ \E c \in Tasks[t].starts : c.esp = 0
        /\ \A u \in DOMAIN Tasks \ {t} : \A s \in StacksOf(t), r \in StacksOf(u) : s.index # r.index

\* Exceptions and interrupt gates are handled in ring 0, exceptions with
\* interrupts off, and IRQs find their handler.
IdtAssumption ==
    \A idt \in Idts :
        /\ \A v \in DOMAIN idt :
              /\ idt[v].type \in {"interrupt", "trap"}
              /\ idt[v].present \in BOOLEAN /\ idt[v].dpl \in 0 .. 3
              /\ \/ idt[v].target.index = "null" \/ IsKernelCode(idt[v].target)
                 \/ /\ idt[v].type = "trap" /\ Names(idt[v].target, {"code", "conforming"})
                    /\ DescriptorOf(idt[v].target).dpl \in {0, 3}
        /\ \A v \in {"UD", "DF", "TS", "NP", "SS", "GP"} \cap DOMAIN idt : idt[v].type = "interrupt"
        /\ "IRQ" \in DOMAIN idt /\ idt["IRQ"].present
        /\ IsKernelCode(idt["IRQ"].target) /\ DescriptorOf(idt["IRQ"].target).present

OperandsAssumption ==
    /\ \A s \in Calls : Names(s, {"code", "callGate", "tss", "taskGate"})
    /\ \A s \in Jumps : s.index = "null" \/ Names(s, {"code", "data", "readonly"})
    /\ \A s \in Loads : s = Null \/ (IsSelector(s) /\ s.index \in DOMAIN Table)
    /\ \A s \in Returns :
          Names(s, {"code", "conforming"}) /\ SegmentFault("cs", s, s.rpl) = "none"

ASSUME ProtectedModeAssumption ==
    /\ Iopl \in 0 .. 3 /\ Words \in Nat /\ Transfers \in Nat
    /\ TableAssumption /\ TasksAssumption /\ IdtAssumption /\ OperandsAssumption

-----------------------------------------------------------------------------
(* Programs.  unreturned is what a program that returns from everything it was *)
(* unreturned by has yet to return from, with the state it must then be in.    *)

Fetched == [m EXCEPT !.insn_ip = m.ip, !.ip = 1 - @, !.exception_pending = FALSE]

HasErrorCode(n) == Esp(n) > 0 /\ "error" \in DOMAIN WordAt(n, 1)

\* insn_ip is not looked at between instructions (an IRQ finds its handler).
Finished(n) == [n EXCEPT !.insn_ip = 0]

\* What a return restores.  DS is the program's own business, but for the
\* modes and tasks whose frames hold it.
Left(n, task) == IF n.f.vm \/ task THEN Context(n) ELSE [Context(n) EXCEPT !.ds = Null]

\* The instruction ends in n, in a procedure, handler or task to return from.
Enters(n, kind, params) ==
    LET fault == n.exception_pending
        task == n.tr # m.tr
        from == Left(IF fault THEN m ELSE Fetched, task)
        popped == IF fault THEN 0 ELSE params
        entry == [kind |-> IF fault THEN "interrupt" ELSE IF task THEN "task" ELSE kind,
                  from |-> [from EXCEPT !.esp = @ - popped],
                  params |-> popped, intact |-> TRUE,
                  ss |-> n.ss, esp |-> Esp(n) - (IF HasErrorCode(n) THEN 1 ELSE 0)]
    IN  m' = Finished(n) /\ unreturned' = [unreturned EXCEPT ![n.tr] = Append(@, entry)]

\* It ends in n, where it may have been returned to.
Continues(n, left) ==
    IF n.exception_pending THEN Enters(n, "interrupt", 0)
    ELSE m' = Finished(n) /\ unreturned' = [unreturned EXCEPT ![m.tr] = left]

Pending == unreturned[m.tr]
Runs ==
    /\ ~ m.reset
    /\ Len(Pending) < Transfers /\ Esp(m) + 6 <= Words
Returning(kind) ==
    /\ ~ m.reset
    /\ Pending # <<>> /\ Last(Pending).kind = kind
    /\ kind # "task" => Last(Pending).ss = m.ss /\ Last(Pending).esp = Esp(m)

PmInit ==
    /\ \E idt \in Idts : \E t \in DOMAIN Tasks : \E start \in Tasks[t].starts :
          m = [ip |-> start.ip, f |-> start.f, cs |-> start.cs, ss |-> start.ss, ds |-> start.ds,
               cpl |-> IF start.f.vm THEN 3 ELSE start.cs.rpl, insn_ip |-> 0,
               exception_pending |-> FALSE, reset |-> FALSE,
               stack |-> [x \in StackNames |->
                            IF x = start.ss.index THEN [i \in 1 .. start.esp |-> [ip |-> 0]] ELSE <<>>],
               tr |-> t, busy |-> [u \in DOMAIN Tasks |-> u = t],
               tss |-> [u \in DOMAIN Tasks \ {t} |-> CHOOSE c \in Tasks[u].starts : c.esp = 0],
               link |-> [u \in DOMAIN Tasks |-> u],
               idt |-> idt]
    /\ unreturned = [t \in DOMAIN Tasks |-> <<>>]

\* (A program does not move to another stack of its ring by itself.)
MovSegment(reg, sel) ==
    /\ Runs /\ ~ m.f.vm
    /\ reg = "ss" => sel = m.ss \/ SegmentFault("ss", sel, m.cpl) # "none"
    /\ Continues(LoadSegment(Fetched, reg, sel, m.cpl), Pending)

FarCall(sel) ==
    /\ Runs /\ ~ m.f.vm
    /\ IsCode(sel) => SegmentFault("cs", sel, m.cpl) = "none"
    /\ LET params == IF DescriptorOf(sel).type = "callGate" THEN DescriptorOf(sel).params ELSE 0
       IN  Esp(m) >= params /\ Enters(FarTransfer(Fetched, sel, TRUE), "call", params)

FarJump(sel) ==
    /\ Runs /\ ~ m.f.vm
    /\ Continues(FarTransfer(Fetched, sel, FALSE), Pending)

IntN(v) ==
    /\ Runs
    /\ Enters(IF m.f.vm /\ Iopl < 3 THEN Raise(Fetched, "GP")
              ELSE Interrupt(Fetched, v, TRUE), "interrupt", 0)

UndefinedOpcode == Runs /\ Enters(Raise(Fetched, "UD"), "interrupt", 0)

\* check_interrupts, between two instructions.  After one that faulted the
\* exception is still pending, and set_esp and clear_flag are ignored: nothing
\* is left on the stack of where the IRQ came from, and IF stays as it is.
Irq ==
    /\ Runs /\ m.f.if
    /\ LET taken == Interrupt(m, "IRQ", FALSE)
           after == IF m.exception_pending
                    THEN [m EXCEPT !.cs = taken.cs, !.ip = taken.ip, !.f.nt = FALSE] ELSE taken
       IN  /\ m' = Finished(after)
           /\ unreturned' = [unreturned EXCEPT ![after.tr] =
                  Append(@, [kind |-> "interrupt", from |-> Left(m, FALSE), params |-> 0,
                             intact |-> TRUE, ss |-> after.ss, esp |-> Esp(after)])]

\* A handler removes the error code; a procedure changes where it returns to.
DropErrorCode == /\ ~ m.reset /\ HasErrorCode(m)
                 /\ Continues(Pop(Fetched, 1), Pending)
ChangeReturn(sel) ==
    /\ \E kind \in {"call", "interrupt"} : Returning(kind) /\ Last(Pending).intact
    /\ WordAt(m, 2) # Real /\ sel.rpl = WordAt(m, 2).rpl
    /\ Continues([Fetched EXCEPT !.stack[m.ss.index][Esp(m) - 1] = sel],
                 Append(Front(Pending), [Last(Pending) EXCEPT !.intact = FALSE]))

ReturnFromCall == /\ Returning("call")
                  /\ Continues(Retf(Fetched, Last(Pending).params), Front(Pending))
ReturnFromInterrupt == Returning("interrupt") /\ Continues(Iret(Fetched), Front(Pending))
ReturnFromTask == /\ Returning("task") /\ m.f.nt
                  /\ Continues(Iret(Fetched), Front(Pending))

PmNext ==
    \/ \E reg \in {"ds", "ss"} : \E sel \in Loads : MovSegment(reg, sel)
    \/ \E sel \in Calls : FarCall(sel)
    \/ \E sel \in Jumps : FarJump(sel)
    \/ \E v \in SoftwareInts : IntN(v)
    \/ UndefinedOpcode \/ Irq \/ DropErrorCode
    \/ \E sel \in Returns : ChangeReturn(sel)
    \/ ReturnFromCall \/ ReturnFromInterrupt \/ ReturnFromTask

PmSpec == PmInit /\ [][PmNext]_pm

-----------------------------------------------------------------------------
(* Properties. *)

\* The privilege level, the selectors and their descriptors agree: code and
\* stack are of the current level, and no data segment is of an inner one.  The
\* busy tasks are the current one and those that wait for it to return.
LevelsAndTasksAgree ==
    LET busy    == {t \in DOMAIN m.busy : m.busy[t]}
        waiting == {t \in DOMAIN m.busy : \E u \in busy \ {t} : m.link[u] = t}
    IN  /\ busy = {m.tr} \cup waiting
        /\ ~ m.reset =>
              IF m.f.vm THEN m.cpl = 3
              ELSE /\ m.cs.rpl = m.cpl
                   /\ m.ss.rpl = m.cpl /\ DescriptorOf(m.ss).dpl = m.cpl
                   /\ m.ds = Null \/ IsConforming(m.ds) \/ m.cpl <= DescriptorOf(m.ds).dpl

\* A return goes back to the instruction, stack, privilege and flags that were
\* left, through any handlers, gates, tasks and modes in between.
ReturnsRestore ==
    [][\A t \in DOMAIN unreturned :
          Len(unreturned'[t]) < Len(unreturned[t]) /\ Last(unreturned[t]).intact =>
              LET from == Last(unreturned[t]).from
              IN  Left(m', Last(unreturned[t]).kind = "task") = from]_pm

\* An exception is delivered with the state before the faulting instruction:
\* the handler can have it executed again.
Described(n, switched) ==
    LET k == IF HasErrorCode(n) THEN 1 ELSE 0
    IN  [ip |-> WordAt(n, k + 1).ip, cs |-> WordAt(n, k + 2), f |-> WordAt(n, k + 3),
         ss |-> IF switched THEN WordAt(n, k + 5) ELSE n.ss,
         esp |-> IF switched THEN WordAt(n, k + 4).esp ELSE Esp(n) - k - 3]
FaultsAreRestartable ==
    [][m'.exception_pending /\ ~ m'.reset =>
        /\ Esp(m') >= 3
        /\ Described(m', m.f.vm \/ m'.cpl # m.cpl) =
              [ip |-> m.ip, cs |-> m.cs, f |-> m.f, ss |-> m.ss, esp |-> Esp(m)]]_pm
=============================================================================

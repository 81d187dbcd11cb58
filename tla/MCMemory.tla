------------------------------ MODULE MCMemory ------------------------------
(***************************************************************************)
(* Extended memory, the DPMI host and protected mode, in one run: each     *)
(* behaviour is of blocks given out to XMS and DPMI clients on a machine   *)
(* of fifteen units with a page of two; of a client that reaches real      *)
(* mode, with loops that nest as deep as Depth; of one that works with     *)
(* descriptors and exceptions; or of a kernel at ring 0, a program at      *)
(* ring 3 or in virtual-8086 mode, and a second task.                      *)
(***************************************************************************)
EXTENDS ExtendedMemory, DpmiCalls, DpmiServices, ProtectedMode

Parts == {Cells, {"data"}}
MCRights == {<<"code", FALSE>>, <<"data", TRUE>>}

Segment(type, dpl) == [type |-> type, dpl |-> dpl, present |-> TRUE]
CallGate(target, dpl, params) ==
    [type |-> "callGate", dpl |-> dpl, present |-> TRUE, target |-> target, params |-> params]

MCTable == [
    kcode |-> Segment("code", 0), ucode |-> Segment("code", 3), udata |-> Segment("data", 3),
    shared |-> Segment("conforming", 0), stack1 |-> Segment("data", 0), stack2 |-> Segment("data", 0),
    absent |-> [Segment("code", 0) EXCEPT !.present = FALSE],
    gate |-> CallGate(Sel("kcode", 0), 3, 1),
    task1 |-> Segment("tss", 0), task2 |-> Segment("tss", 0)]

Gate(type, target, dpl) == [type |-> type, target |-> Sel(target, 0), dpl |-> dpl, present |-> TRUE]

\* No handler for #SS: it becomes a double fault, or a triple fault.
\* Exceptions have interrupt gates: IF is clear until the handler has begun.
Kernel == [UD |-> Gate("interrupt", "kcode", 0), GP |-> Gate("interrupt", "kcode", 0),
           NP |-> Gate("interrupt", "kcode", 0), SS |-> Gate("interrupt", "absent", 0),
           DF |-> Gate("interrupt", "kcode", 0), IRQ |-> Gate("interrupt", "kcode", 0),
           call |-> Gate("trap", "kcode", 3), near |-> Gate("trap", "shared", 3)]
NoDoubleFault == [Kernel EXCEPT !.DF.present = FALSE]
MCIdts == {Kernel, NoDoubleFault}

Start(code, stack, data, vm, esp) ==
    [ip |-> 0, f |-> Flags(TRUE, FALSE, vm), cs |-> code, ss |-> stack, ds |-> data, esp |-> esp]
MCTasks == [
    task1 |-> [ss0 |-> Sel("stack1", 0),
               starts |-> {Start(Sel("ucode", 3), Sel("udata", 3), Sel("udata", 3), FALSE, 1),
                           Start(Real, Real, Real, TRUE, 1),
                           Start(Sel("kcode", 0), Sel("stack1", 0), Null, FALSE, 0)}],
    task2 |-> [ss0 |-> Sel("stack2", 0),
               starts |-> {Start(Sel("kcode", 0), Sel("stack2", 0), Null, FALSE, 0)}]]

MCCalls == {Sel("kcode", 0), Sel("ucode", 3), Sel("gate", 3), Sel("task2", 0)}
MCJumps == {Sel("kcode", 0), Sel("absent", 0)}
MCLoads == {Sel("udata", 3), Sel("stack1", 0), Sel("absent", 0)}
MCInts == {"call", "near"}
MCReturns == {Sel("shared", 3)}

VARIABLE part

\* A processor at rest.
PmIdle ==
    /\ m = [reset |-> TRUE, exception_pending |-> FALSE, tr |-> "task2",
            busy |-> ("task2" :> TRUE), link |-> ("task2" :> "task2")]
    /\ unreturned = <<>>

MCInit ==
    /\ Init /\ CallsInit /\ ServicesInit
    /\ \/ part \in {"blocks", "calls", "services"} /\ PmIdle
       \/ part = "transfers" /\ PmInit /\ (m.idt = NoDoubleFault => m.f.vm)

MCNext ==
    \/ part = "blocks" /\ Next /\ UNCHANGED <<part, calls, services, pm>>
    \/ part = "calls" /\ CallsNext /\ UNCHANGED <<part, vars, services, pm>>
    \/ part = "services" /\ ServicesNext /\ UNCHANGED <<part, vars, calls, pm>>
    \/ part = "transfers" /\ PmNext /\ UNCHANGED <<part, vars, calls, services>>

MCSpec == MCInit /\ [][MCNext]_<<part, vars, calls, services, pm>>
=============================================================================

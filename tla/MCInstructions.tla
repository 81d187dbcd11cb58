---------------------------- MODULE MCInstructions ----------------------------
(***************************************************************************)
(* The instructions of the four units, in one run: each behaviour has an   *)
(* instruction of one unit, and the variables of the others are idle.      *)
(*                                                                         *)
(* The formats have a few bits.                                            *)
(***************************************************************************)
EXTENDS FaultingPrograms, FpuReference, FpuStack, AluReference

MCMasks == {{"DE"}, Flags}

\* One with an error that it says is not pending, and the other the reverse.
MCImages ==
    {[top |-> 1, tags |-> [p \in Registers |-> IF p = 0 THEN "empty" ELSE "valid"],
      masked |-> {"DE"}, flags |-> {"PE"}, sf |-> TRUE, es |-> FALSE, c1 |-> TRUE],
     [top |-> 0, tags |-> [p \in Registers |-> "valid"],
      masked |-> Flags, flags |-> {}, sf |-> FALSE, es |-> TRUE, c1 |-> FALSE]}

VARIABLE unit

memory == <<s, swap, frame, begun>>
fpu == <<a, b, c, done>>
alu == <<x, executed>>
stack == <<x87, fetched>>

MemoryIdle == s = "idle" /\ swap = "idle" /\ frame = "idle" /\ begun = "idle"
FpuIdle == a = "idle" /\ b = "idle" /\ c = "idle" /\ done = <<"idle", "idle">>
AluIdle == x = "idle" /\ executed = <<"idle", "idle">>
StackIdle == x87 = "idle" /\ fetched = "idle"

Init ==
    \/ unit = "memory" /\ MemoryInit /\ FpuIdle /\ AluIdle /\ StackIdle
    \/ unit = "fpu" /\ FpuInit /\ MemoryIdle /\ AluIdle /\ StackIdle
    \/ unit = "alu" /\ AluInit /\ MemoryIdle /\ FpuIdle /\ StackIdle
    \/ unit = "stack" /\ StackInit /\ MemoryIdle /\ FpuIdle /\ AluIdle

MemoryStep == unit = "memory" /\ MemoryNext /\ UNCHANGED <<unit, fpu, alu, stack>>
FpuStep == unit = "fpu" /\ FpuNext /\ UNCHANGED <<unit, memory, alu, stack>>
AluStep == unit = "alu" /\ AluNext /\ UNCHANGED <<unit, memory, fpu, stack>>
StackStep == unit = "stack" /\ StackNext /\ UNCHANGED <<unit, memory, fpu, alu>>

Next == MemoryStep \/ FpuStep \/ AluStep \/ StackStep

all == <<unit, memory, fpu, alu, stack>>
Spec == Init /\ [][Next]_all /\ WF_all(MemoryStep)

-----------------------------------------------------------------------------
(* Properties; those of the units without memory are in their modules. *)

\* Page faults, restarts and the pager's traffic leave no trace in the outcome
\* of an instruction; and those that save registers on the stack save what
\* their inverses restore.
RestartsAreTransparent == unit = "memory" => OutcomeIsIdeal /\ PairsUndo

\* The response of the x87 to a stack fault is the indefinite; see FpuStack.
StackFaultsAreIndefinite == [][unit = "stack" => FaultsAreIndefinite]_stack

\* What the x87 saves comes back; see FpuStack.
SavedStateComesBack == unit = "stack" => StateComesBack

\* Every instruction ends or is stopped by a limit: the pager, which has room
\* for the two pages of an element, does not bring pages in for ever.
Completes == <>(unit = "memory" => Ended)
=============================================================================

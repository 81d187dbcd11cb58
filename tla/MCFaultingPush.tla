---------------------------- MODULE MCFaultingPush ----------------------------
(* A push whose page is not there. *)
EXTENDS FaultingPrograms

Spec == MemoryInit /\ [][MemoryNext]_vars /\ WF_vars(MemoryNext)

\* "A faulting instruction must produce no architectural side effects"
\* (src/emu88/emu88.h:347): the stack pointer of a push that is executed again
\* is the one it had.
RestartsAreTransparent == OutcomeIsIdeal
=============================================================================

----------------------------- MODULE DpmiCalls ------------------------------
(***************************************************************************)
(* How a protected-mode client of the DPMI host reaches real mode and      *)
(* comes back (dos_dpmi.cc).  An interrupt of the client is reflected to   *)
(* real mode (dpmi_reflect_to_rm), or it asks for a real-mode call         *)
(* (functions 0300h to 0302h, dpmi_exec_rm).  Both are host functions that *)
(* run the real-mode handler in an execute loop of their own, inside the   *)
(* instruction that caused them, and leave the loop when                   *)
(* dpmi.in_rm_callback has been cleared by the sentinel the handler        *)
(* returns to, or after so many instructions.  A handler may switch to     *)
(* protected mode by itself (the raw switches of 0306h) and cause another  *)
(* such call there: the loops nest.                                        *)
(*                                                                         *)
(* Real mode and the client want the same low memory.  The host keeps the  *)
(* vectors (rm_int_off, rm_int_seg) and the BIOS and DOS data              *)
(* (original_low_mem), and once it has seen that the client has written    *)
(* over vector 21h it exchanges the two contents around each call.         *)
(*                                                                         *)
(* Low memory is some vectors, among them 21h, by which the host judges    *)
(* whether it was overwritten, and the data area.  What real mode keeps in *)
(* a cell is "a" or "b"; a vector that is "a" points at the BIOS.          *)
(***************************************************************************)
EXTENDS Integers, Sequences, SequencesExt

CONSTANTS
    Depth,          \* bound: loops that nest
    Stacks,         \* RM_REFLECT_STACK_COUNT
    Vectors,        \* interrupt vectors
    Canary,         \* vector 21h
    ClientStores    \* what clients write over: sets of cells

Cells == Vectors \cup {"data"}

ASSUME DpmiAssumption ==
    /\ Canary \in Vectors /\ "data" \notin Vectors
    /\ Depth \in Nat /\ Stacks \in Nat \ {0}
    /\ ClientStores \subseteq SUBSET Cells

VARIABLES
    entered,                 \* dpmi.active
    pe,                     \* CR0.PE
    low,                    \* memory at 0
    rm_int,                 \* dpmi.rm_int_off and rm_int_seg
    original_low_mem, pm_low_mem, pm_overwrote_low_mem,
    in_rm_callback, rm_reflect_stack_depth,
    loops,                  \* the host's loops, the innermost last
    running,                \* history: handler the guest executes, 0: the client
    reentered,              \* history: a handler has switched modes inside a loop
    owned,                  \* history: what real mode last put in each cell
    stale,                  \* history: cells the first exchange did not give back so
    client                  \* history: cells the client has its own data in

memory == <<low, rm_int, original_low_mem, pm_low_mem, pm_overwrote_low_mem>>
control == <<entered, pe, in_rm_callback, rm_reflect_stack_depth, loops, running>>
history == <<reentered, owned, stale, client>>
calls == <<memory, control, history>>

Kinds == {"reflect", "exec"}

CallsInit ==
    /\ entered = FALSE /\ pe = FALSE
    /\ low = [c \in Cells |-> "a"] /\ rm_int = [v \in Vectors |-> "a"]
    /\ original_low_mem = "a" /\ pm_low_mem = low /\ pm_overwrote_low_mem = FALSE
    /\ in_rm_callback = FALSE /\ rm_reflect_stack_depth = 0
    /\ loops = <<>> /\ running = 0
    /\ reentered = FALSE /\ owned = low /\ stale = {} /\ client = {}

\* The guest executes instructions: outside the loops, or in the innermost one.
GuestRuns == loops = <<>> \/ in_rm_callback

-----------------------------------------------------------------------------
(* A session. *)

\* dpmi_mode_switch: the call that a real-mode program enters protected mode with.
FirstSwitch ==
    /\ ~ entered /\ ~ pe /\ GuestRuns
    /\ entered' = TRUE /\ pe' = TRUE
    /\ rm_int' = [v \in Vectors |-> low[v]]
    /\ original_low_mem' = low["data"]
    /\ client' = {}
    /\ UNCHANGED <<low, pm_low_mem, pm_overwrote_low_mem, in_rm_callback,
                   rm_reflect_stack_depth, loops, running, reentered, owned, stale>>

\* dpmi_terminate: the vectors go back and the data area does not.
Exit ==
    /\ entered /\ pe /\ GuestRuns
    /\ entered' = FALSE /\ pe' = FALSE
    /\ low' = [c \in Cells |-> IF c \in Vectors THEN rm_int[c] ELSE low[c]]
    /\ owned' = low'
    /\ client' = {} /\ stale' = {}
    /\ UNCHANGED <<rm_int, original_low_mem, pm_low_mem, pm_overwrote_low_mem, in_rm_callback,
                   rm_reflect_stack_depth, loops, running, reentered>>

\* The raw switches move the guest from one mode to the other and exchange nothing.
RawSwitch ==
    /\ entered /\ GuestRuns
    /\ pe' = ~ pe
    /\ reentered' = (reentered \/ loops # <<>>)
    /\ UNCHANGED <<memory, entered, in_rm_callback, rm_reflect_stack_depth, loops, running,
                   owned, stale, client>>

-----------------------------------------------------------------------------
(* Low memory. *)

ClientWrites ==
    /\ pe /\ GuestRuns
    /\ \E cells \in ClientStores :
          /\ low' = [c \in Cells |-> IF c \in cells THEN "client" ELSE low[c]]
          /\ client' = client \cup cells
    /\ UNCHANGED <<rm_int, original_low_mem, pm_low_mem, pm_overwrote_low_mem, control,
                   reentered, owned, stale>>

\* Real-mode code sets a vector, or keeps something in the data area.  (What a
\* client reaches with a raw switch of its own is the client, and does not.)
RealModeWrites(c) ==
    /\ ~ pe /\ GuestRuns
    /\ entered => loops # <<>>
    /\ \E x \in {"a", "b"} : low' = [low EXCEPT ![c] = x] /\ owned' = [owned EXCEPT ![c] = x]
    /\ stale' = stale \ {c}
    /\ UNCHANGED <<rm_int, original_low_mem, pm_low_mem, pm_overwrote_low_mem, control,
                   reentered, client>>

\* Function 0201h writes through to memory.
SetRealModeVector(v) ==
    /\ pe /\ entered /\ GuestRuns
    /\ \E x \in {"a", "b"} : /\ rm_int' = [rm_int EXCEPT ![v] = x]
                             /\ low' = [low EXCEPT ![v] = x]
                             /\ owned' = [owned EXCEPT ![v] = x]
    /\ client' = client \ {v} /\ stale' = stale \ {v}
    /\ UNCHANGED <<original_low_mem, pm_low_mem, pm_overwrote_low_mem, control, reentered>>

\* dpmi_save_pm_low_mem.
Overwritten == pm_overwrote_low_mem \/ low[Canary] # rm_int[Canary]

Kept == [c \in Cells |-> IF c \in Vectors THEN rm_int[c] ELSE original_low_mem]
ForRealMode == IF Overwritten THEN Kept ELSE low

SavePmLowMem ==
    /\ pm_overwrote_low_mem' = Overwritten
    /\ pm_low_mem' = IF Overwritten THEN low ELSE pm_low_mem
    /\ IF Overwritten /\ ~ pm_overwrote_low_mem
       THEN /\ stale' = {c \in Cells : Kept[c] # owned[c]}
            /\ client' = {c \in Cells : low[c] = "client"}
       ELSE UNCHANGED <<stale, client>>

RestorePmLowMemOnly(left, over, saved) ==
    /\ low' = IF over THEN saved ELSE left
    /\ UNCHANGED <<rm_int, original_low_mem>>

\* dpmi_restore_pm_low_mem, with memory as real mode has left it.
RestorePmLowMem(left, over, saved) ==
    IF over
    THEN /\ rm_int' = [v \in Vectors |-> left[v]]
         /\ original_low_mem' = left["data"]
         /\ low' = saved
    ELSE low' = left /\ UNCHANGED <<rm_int, original_low_mem>>

-----------------------------------------------------------------------------
(* Calls. *)

StackFor(kind) ==
    IF kind = "exec" THEN 0
    ELSE IF rm_reflect_stack_depth >= Stacks THEN Stacks - 1 ELSE rm_reflect_stack_depth

\* The handler is guest code: a loop starts.  A reflection goes by the vector,
\* and so does function 0300h; 0301h and 0302h name a procedure.
CallHandler(kind, handler) ==
    /\ entered /\ pe /\ GuestRuns /\ Len(loops) < Depth
    /\ handler = "procedure" => kind = "exec"
    /\ handler \in Vectors => rm_int[handler] # "a"
    /\ SavePmLowMem
    /\ low' = ForRealMode
    /\ pe' = FALSE
    /\ loops' = Append(loops, [kind |-> kind, caller |-> running, stack |-> StackFor(kind)])
    /\ rm_reflect_stack_depth' = rm_reflect_stack_depth + (IF kind = "reflect" THEN 1 ELSE 0)
    /\ in_rm_callback' = TRUE
    /\ running' = Len(loops')
    /\ UNCHANGED <<entered, rm_int, original_low_mem, reentered, owned>>

\* The vector is the BIOS's: dispatch_bios runs at once and may change its data.
CallBios(v) ==
    /\ entered /\ pe /\ GuestRuns
    /\ rm_int[v] = "a"
    /\ SavePmLowMem
    /\ \E x \in {ForRealMode["data"], "a", "b"} :
          /\ RestorePmLowMem([ForRealMode EXCEPT !["data"] = x], Overwritten, low)
          /\ owned' = IF x = ForRealMode["data"] THEN owned ELSE [owned EXCEPT !["data"] = x]
    /\ UNCHANGED <<control, reentered>>

\* The handler runs into the sentinel it was given as its return address.
Sentinel ==
    /\ loops # <<>> /\ in_rm_callback /\ ~ pe
    /\ in_rm_callback' = FALSE
    /\ UNCHANGED <<memory, history, entered, pe, rm_reflect_stack_depth, loops, running>>

\* The loop finds in_rm_callback cleared, or has counted too many instructions:
\* low memory, mode and the caller's registers are put back.
LoopEnds ==
    /\ loops # <<>>
    /\ RestorePmLowMem(low, pm_overwrote_low_mem, pm_low_mem)
    /\ pe' = TRUE
    /\ loops' = Front(loops) /\ running' = Last(loops).caller
    /\ rm_reflect_stack_depth' =
          rm_reflect_stack_depth - (IF Last(loops).kind = "reflect" THEN 1 ELSE 0)
    /\ UNCHANGED <<entered, in_rm_callback, pm_low_mem, pm_overwrote_low_mem, history>>

CallsNext ==
    \/ FirstSwitch \/ Exit \/ RawSwitch \/ ClientWrites
    \/ \E c \in Cells : RealModeWrites(c)
    \/ \E v \in Vectors : SetRealModeVector(v) \/ CallBios(v)
    \/ \E k \in Kinds : \E h \in Vectors \cup {"procedure"} : CallHandler(k, h)
    \/ Sentinel \/ LoopEnds

CallsSpec == CallsInit /\ [][CallsNext]_calls

-----------------------------------------------------------------------------
(* Properties. *)

\* Each side of the host finds what is its own.  From the first time low memory
\* is exchanged, and until a handler switches modes by itself, real-mode handlers
\* find in it what real mode last put there, the client finds what it wrote
\* itself, and calls go to the handlers real mode has installed; cells that the
\* first exchange already got wrong count from their next write on.  And as many
\* loops as there are stacks run on stacks of their own.
SidesStayApart ==
    LET reflecting == {i \in DOMAIN loops : loops[i].kind = "reflect"}
    IN  /\ pm_overwrote_low_mem /\ ~ reentered =>
              /\ ~ pe /\ loops # <<>> => \A c \in Cells \ stale : low[c] = owned[c]
              /\ pe /\ loops = <<>> =>
                    /\ \A c \in client : low[c] = "client"
                    /\ \A v \in Vectors \ stale : rm_int[v] = owned[v]
        /\ rm_reflect_stack_depth = Cardinality(reflecting)
        /\ Cardinality(reflecting) <= Stacks =>
              \A i, j \in reflecting : loops[i].stack = loops[j].stack => i = j
=============================================================================

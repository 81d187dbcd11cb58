----------------------------- MODULE Dpmi_proof -----------------------------
(***************************************************************************)
(* What holds of every client of the DPMI host, and of the XMS driver.     *)
(*                                                                         *)
(* First, what is in low memory.  SidesStayApart is not inductive: that    *)
(* real mode and the client each find their own rests on what the host     *)
(* keeps meanwhile, the real-mode contents outside the loops and the       *)
(* client's inside one (LowMemory), and stacks differ because the stack of *)
(* a loop counts the reflections below it (StacksApart).                   *)
(*                                                                         *)
(* Then, who has which selector.  SelectorsAgree counts; ServicesInv names *)
(* the entry of each selector instead, and adds that selectors which a     *)
(* register or a saved one holds are not free, and that the saved copy     *)
(* follows its descriptor too: it is the register's again on return.       *)
(*                                                                         *)
(* Last, the memory that XMS and DPMI clients are given: no two owners,    *)
(* and the DPMI host implements BlockAllocator, for every memory, table    *)
(* and set of sizes that stays clear of the 32-bit wrap.                   *)
(***************************************************************************)
EXTENDS DpmiCalls, DpmiServices, ExtendedMemory, FiniteSetTheorems, FunctionTheorems,
        SequenceTheorems, TLAPS

(***************************************************************************)
(* Low memory and the reflection stacks.                                   *)
(***************************************************************************)
Loop == [kind : Kinds, caller : Nat, stack : Nat]

\* Until a handler has switched modes there is one loop at most, and it runs
\* real-mode code.
Orderly ==
    /\ pe => entered
    /\ loops # <<>> => entered /\ ~ pe
    /\ Len(loops) <= 1

CallsType ==
    /\ entered \in BOOLEAN /\ pe \in BOOLEAN
    /\ reentered \in BOOLEAN /\ pm_overwrote_low_mem \in BOOLEAN
    /\ client \subseteq Cells
    /\ low = [c \in Cells |-> low[c]] /\ owned = [c \in Cells |-> owned[c]]
    /\ pm_low_mem = [c \in Cells |-> pm_low_mem[c]]
    /\ rm_int = [v \in Vectors |-> rm_int[v]]
    /\ loops \in Seq(Loop) /\ running \in Nat

\* Outside the loops the host keeps what is real mode's; inside one it keeps
\* what is the client's.
RealModeKept == \A c \in Cells \ stale : Kept[c] = owned[c]
RealModeInPlace == \A c \in Cells \ stale : low[c] = owned[c]
ClientInPlace == \A c \in client : low[c] = "client"
ClientKept == \A c \in client : pm_low_mem[c] = "client"

MemoryApart ==
    ~ reentered =>
        /\ Orderly
        /\ ~ entered => low = owned
        /\ pm_overwrote_low_mem /\ entered =>
              IF loops = <<>> THEN RealModeKept /\ ClientInPlace
              ELSE RealModeInPlace /\ ClientKept

LowMemory == CallsType /\ MemoryApart

-----------------------------------------------------------------------------
LEMMA VectorCells == Vectors \subseteq Cells /\ "data" \in Cells /\ "data" \notin Vectors
                     /\ Cells = Vectors \cup {"data"}
BY DpmiAssumption DEF Cells

LEMMA InitLow == CallsInit => LowMemory
<1> SUFFICES ASSUME CallsInit PROVE LowMemory
  OBVIOUS
<1>1. CallsType
  <2>1. loops \in Seq(Loop)
    BY DEF CallsInit
  <2>2. client \subseteq Cells
    BY DEF CallsInit
  <2>3. /\ low = [c \in Cells |-> low[c]] /\ owned = low /\ pm_low_mem = low
        /\ rm_int = [v \in Vectors |-> rm_int[v]]
    BY DEF CallsInit
  <2> QED
    BY <2>1, <2>2, <2>3 DEF CallsInit, CallsType
<1>2. MemoryApart
  BY DEF CallsInit, MemoryApart, Orderly
<1> QED
  BY <1>1, <1>2 DEF LowMemory

LEMMA FirstSwitchLow == ASSUME LowMemory, FirstSwitch PROVE LowMemory'
<1>1. CallsType'
  BY DEF LowMemory, CallsType, FirstSwitch
<1>2. ASSUME ~ reentered PROVE MemoryApart'
  <2>1. low = owned /\ loops = <<>> /\ Len(loops) <= 1
    BY <1>2 DEF LowMemory, MemoryApart, FirstSwitch, Orderly
  <2>2. Orderly'
    BY <2>1 DEF FirstSwitch, Orderly
  <2>3. \A c \in Cells : Kept'[c] = owned'[c]
    BY <2>1, VectorCells DEF FirstSwitch, Kept
  <2> QED
    BY <2>1, <2>2, <2>3 DEF FirstSwitch, MemoryApart, RealModeKept, ClientInPlace
<1> QED
  BY <1>1, <1>2 DEF LowMemory, MemoryApart, FirstSwitch

LEMMA ExitLow == ASSUME LowMemory, Exit PROVE LowMemory'
<1>1. CallsType'
  BY DEF LowMemory, CallsType, Exit
<1>2. ASSUME ~ reentered PROVE MemoryApart'
  BY <1>2 DEF LowMemory, MemoryApart, Exit, Orderly
<1> QED
  BY <1>1, <1>2 DEF LowMemory, MemoryApart, Exit

LEMMA RawSwitchLow == ASSUME LowMemory, RawSwitch PROVE LowMemory'
<1>1. CallsType'
  BY DEF LowMemory, CallsType, RawSwitch, memory
<1>2. ASSUME ~ reentered, loops = <<>> PROVE MemoryApart'
  BY <1>2 DEF LowMemory, MemoryApart, RawSwitch, Orderly, memory, RealModeKept, Kept,
              ClientInPlace
<1>3. ASSUME reentered \/ loops # <<>> PROVE MemoryApart'
  BY <1>3 DEF RawSwitch, MemoryApart
<1> QED
  BY <1>1, <1>2, <1>3 DEF LowMemory

LEMMA ClientWritesLow == ASSUME LowMemory, ClientWrites PROVE LowMemory'
<1>1. PICK cells \in ClientStores :
          /\ low' = [c \in Cells |-> IF c \in cells THEN "client" ELSE low[c]]
          /\ client' = client \cup cells
  BY DEF ClientWrites
<1>2. cells \subseteq Cells
  BY <1>1, DpmiAssumption
<1>3. CallsType'
  BY <1>1, <1>2 DEF LowMemory, CallsType, ClientWrites, control
<1>4. ASSUME ~ reentered PROVE MemoryApart'
  <2>1. loops = <<>> /\ entered /\ Orderly'
    BY <1>4 DEF LowMemory, MemoryApart, ClientWrites, Orderly, control
  <2>2. ClientInPlace => ClientInPlace'
    BY <1>1, <1>2 DEF ClientInPlace, LowMemory, CallsType
  <2>3. RealModeKept => RealModeKept'
    BY DEF RealModeKept, Kept, ClientWrites
  <2> QED
    BY <1>4, <2>1, <2>2, <2>3 DEF LowMemory, MemoryApart, ClientWrites, control
<1> QED
  BY <1>3, <1>4 DEF LowMemory, MemoryApart, ClientWrites

LEMMA RealModeWritesLow == ASSUME LowMemory, NEW c \in Cells, RealModeWrites(c) PROVE LowMemory'
<1>1. PICK x \in {"a", "b"} : low' = [low EXCEPT ![c] = x] /\ owned' = [owned EXCEPT ![c] = x]
  BY DEF RealModeWrites
<1>2. CallsType'
  BY <1>1 DEF LowMemory, CallsType, RealModeWrites, control
<1>3. ASSUME ~ reentered PROVE MemoryApart'
  <2>1. Orderly' /\ (entered' => loops' # <<>>)
    BY <1>3 DEF LowMemory, MemoryApart, RealModeWrites, Orderly, control
  <2>2. low = owned => low' = owned'
    BY <1>1
  <2>3. RealModeInPlace => RealModeInPlace'
    BY <1>1 DEF RealModeInPlace, RealModeWrites, LowMemory, CallsType
  <2>4. ClientKept => ClientKept'
    BY DEF ClientKept, RealModeWrites
  <2> QED
    BY <1>3, <2>1, <2>2, <2>3, <2>4 DEF LowMemory, MemoryApart, RealModeWrites, control
<1> QED
  BY <1>2, <1>3 DEF LowMemory, MemoryApart, RealModeWrites

LEMMA SetVectorLow ==
    ASSUME LowMemory, NEW v \in Vectors, SetRealModeVector(v) PROVE LowMemory'
<1>1. PICK x \in {"a", "b"} : /\ rm_int' = [rm_int EXCEPT ![v] = x]
                             /\ low' = [low EXCEPT ![v] = x]
                             /\ owned' = [owned EXCEPT ![v] = x]
  BY DEF SetRealModeVector
<1>2. CallsType'
  BY <1>1 DEF LowMemory, CallsType, SetRealModeVector, control
<1>3. ASSUME ~ reentered PROVE MemoryApart'
  <2>1. loops = <<>> /\ entered /\ Orderly'
    BY <1>3 DEF LowMemory, MemoryApart, SetRealModeVector, Orderly, control
  <2>2. ClientInPlace => ClientInPlace'
    BY <1>1, VectorCells DEF ClientInPlace, SetRealModeVector, LowMemory, CallsType
  <2>3. \A c \in Cells : Kept'[c] = IF c = v THEN x ELSE Kept[c]
    BY <1>1, VectorCells DEF Kept, SetRealModeVector, LowMemory, CallsType
  <2>4. \A c \in Cells : owned'[c] = IF c = v THEN x ELSE owned[c]
    BY <1>1, VectorCells DEF LowMemory, CallsType
  <2>5. RealModeKept => RealModeKept'
    BY <2>3, <2>4 DEF RealModeKept, SetRealModeVector
  <2> QED
    BY <1>3, <2>1, <2>2, <2>5 DEF LowMemory, MemoryApart, SetRealModeVector, control
<1> QED
  BY <1>2, <1>3 DEF LowMemory, MemoryApart, SetRealModeVector

-----------------------------------------------------------------------------
\* The exchange: what is saved for the client, and what real mode then finds.
LEMMA Exchanged ==
    ASSUME LowMemory, ~ reentered, entered, loops = <<>>, SavePmLowMem, owned' = owned
    PROVE  /\ pm_overwrote_low_mem' = Overwritten
           /\ Overwritten => /\ \A c \in Cells \ stale' : Kept[c] = owned[c]
                             /\ \A c \in client' : low[c] = "client"
                             /\ pm_low_mem' = low
           /\ client' \subseteq Cells
<1>1. CASE Overwritten /\ ~ pm_overwrote_low_mem
  BY <1>1 DEF SavePmLowMem
<1>2. CASE pm_overwrote_low_mem
  BY <1>2 DEF SavePmLowMem, Overwritten, LowMemory, MemoryApart, CallsType, RealModeKept,
              ClientInPlace
<1>3. CASE ~ Overwritten
  BY <1>3 DEF SavePmLowMem, LowMemory, CallsType
<1> QED
  BY <1>1, <1>2, <1>3

LEMMA SaveType == ASSUME LowMemory, SavePmLowMem
                  PROVE  /\ pm_overwrote_low_mem' \in BOOLEAN /\ client' \subseteq Cells
                         /\ pm_low_mem' = [c \in Cells |-> pm_low_mem'[c]]
BY DEF SavePmLowMem, Overwritten, LowMemory, CallsType

LEMMA KeptCells == /\ Kept = [c \in Cells |-> Kept[c]]
                   /\ \A v \in Vectors : Kept[v] = rm_int[v]
                   /\ Kept["data"] = original_low_mem
BY VectorCells DEF Kept

LEMMA CallHandlerLow ==
    ASSUME LowMemory, NEW kind \in Kinds, NEW h, CallHandler(kind, h),
           loops' \in Seq(Loop), Len(loops') = Len(loops) + 1, running' \in Nat
    PROVE  LowMemory'
<1>1. /\ SavePmLowMem /\ low' = ForRealMode /\ pe' = FALSE /\ entered' = entered
      /\ owned' = owned /\ rm_int' = rm_int /\ reentered' = reentered /\ entered /\ pe
  BY DEF CallHandler
<1>2. CallsType'
  BY <1>1, SaveType, KeptCells DEF ForRealMode, LowMemory, CallsType
<1>3. ASSUME ~ reentered PROVE MemoryApart'
  <2>1. loops = <<>>
    BY <1>1, <1>3 DEF LowMemory, MemoryApart, Orderly
  <2>6. Len(loops) = 0
    BY <2>1
  <2>7. Len(loops') <= 1
    BY <2>6
  <2>2. loops' # <<>>
    <3>1. loops' = <<>> => Len(loops') = 0
      OBVIOUS
    <3> QED
      BY <2>6, <3>1
  <2>3. Overwritten => RealModeInPlace' /\ ClientKept'
    BY <1>1, <1>3, <2>1, Exchanged DEF ForRealMode, RealModeInPlace, ClientKept
  <2>4. pm_overwrote_low_mem' => RealModeInPlace' /\ ClientKept'
    BY <1>1, <1>3, <2>1, <2>3, Exchanged
  <2>5. Orderly'
    <3>1. entered' /\ ~ pe'
      BY DEF CallHandler
    <3> QED
      BY <2>7, <3>1 DEF Orderly
  <2> QED
    BY <1>1, <2>2, <2>4, <2>5 DEF MemoryApart
<1> QED
  BY <1>1, <1>2, <1>3 DEF LowMemory, MemoryApart

LEMMA CallBiosLow == ASSUME LowMemory, NEW v \in Vectors, CallBios(v) PROVE LowMemory'
<1> DEFINE left(x) == [ForRealMode EXCEPT !["data"] = x]
<1>1. PICK x : /\ RestorePmLowMem(left(x), Overwritten, low)
               /\ owned' = IF x = ForRealMode["data"] THEN owned
                           ELSE [owned EXCEPT !["data"] = x]
  BY DEF CallBios
<1>2. SavePmLowMem /\ UNCHANGED <<control, reentered>> /\ entered /\ pe
  BY DEF CallBios
<1>3. ForRealMode = [c \in Cells |-> ForRealMode[c]]
  BY KeptCells DEF ForRealMode, LowMemory, CallsType
<1> HIDE DEF left
<1>4. left(x) = [c \in Cells |-> IF c = "data" THEN x ELSE ForRealMode[c]]
  BY <1>3, VectorCells DEF left
<1>5. CallsType'
  BY <1>1, <1>2, <1>4, SaveType DEF RestorePmLowMem, LowMemory, CallsType, control
<1>6. ASSUME ~ reentered PROVE MemoryApart'
  <2>1. loops = <<>> /\ Orderly'
    BY <1>2, <1>6 DEF LowMemory, MemoryApart, Orderly, control
  <2>2. /\ pm_overwrote_low_mem' = Overwritten
        /\ Overwritten => /\ \A c \in Cells \ stale' : Kept[c] = owned[c]
                          /\ \A c \in client' : low[c] = "client"
    <3>1. SavePmLowMem /\ entered
      BY <1>2
    <3>2. CASE Overwritten /\ ~ pm_overwrote_low_mem
      BY <3>1, <3>2 DEF SavePmLowMem
    <3>3. CASE pm_overwrote_low_mem
      BY <1>6, <2>1, <3>1, <3>3 DEF SavePmLowMem, Overwritten, LowMemory, MemoryApart, RealModeKept,
                  ClientInPlace
    <3>4. CASE ~ Overwritten
      BY <3>1, <3>4 DEF SavePmLowMem
    <3> QED
      BY <3>2, <3>3, <3>4
  <2>3. ASSUME Overwritten PROVE RealModeKept' /\ ClientInPlace'
    <3>1. /\ ForRealMode = Kept /\ low' = low
          /\ rm_int' = [u \in Vectors |-> left(x)[u]] /\ original_low_mem' = left(x)["data"]
      BY <1>1, <2>3 DEF RestorePmLowMem, ForRealMode
    <3>2. original_low_mem' = x /\ \A u \in Vectors : rm_int'[u] = Kept[u]
      BY <1>4, <3>1, VectorCells
    <3>3. Kept'["data"] = x /\ \A u \in Vectors : Kept'[u] = Kept[u]
      BY <3>2, VectorCells DEF Kept
    <3>4. \A u \in Vectors : owned'[u] = owned[u]
      BY <1>1, VectorCells DEF LowMemory, CallsType
    <3>5. x # Kept["data"] => owned'["data"] = x
      BY <1>1, <3>1, VectorCells DEF LowMemory, CallsType
    <3>6. x = Kept["data"] => owned'["data"] = owned["data"]
      BY <1>1, <3>1
    <3>7. RealModeKept'
      BY <2>2, <2>3, <3>3, <3>4, <3>5, <3>6, VectorCells DEF RealModeKept
    <3>8. ClientInPlace'
      BY <2>2, <2>3, <3>1 DEF ClientInPlace
    <3> QED
      BY <3>7, <3>8
  <2> QED
    BY <1>2, <2>1, <2>2, <2>3 DEF MemoryApart, control
<1> QED
  BY <1>2, <1>5, <1>6 DEF LowMemory, MemoryApart

LEMMA SentinelLow == ASSUME LowMemory, Sentinel PROVE LowMemory'
BY DEF Sentinel, LowMemory, CallsType, MemoryApart, Orderly, RealModeKept, RealModeInPlace,
       ClientInPlace, ClientKept, Kept, memory, history

LEMMA LoopEndsLow ==
    ASSUME LowMemory, LoopEnds, loops' \in Seq(Loop), Len(loops') = Len(loops) - 1,
           running' \in Nat
    PROVE  LowMemory'
<1>1. /\ RestorePmLowMem(low, pm_overwrote_low_mem, pm_low_mem) /\ pe' = TRUE /\ loops # <<>>
      /\ UNCHANGED <<entered, in_rm_callback, pm_low_mem, pm_overwrote_low_mem, history>>
  BY DEF LoopEnds
<1>2. CallsType'
  BY <1>1 DEF RestorePmLowMem, LowMemory, CallsType, history
<1>3. ASSUME ~ reentered PROVE MemoryApart'
  <2>1. entered /\ Len(loops) = 1 /\ loops' = <<>>
    BY <1>1, <1>3 DEF LowMemory, MemoryApart, Orderly, CallsType
  <2>2. ASSUME pm_overwrote_low_mem PROVE RealModeKept' /\ ClientInPlace'
    <3>1. RealModeInPlace /\ ClientKept
      BY <1>1, <1>3, <2>1, <2>2 DEF LowMemory, MemoryApart
    <3>2. \A c \in Cells : Kept'[c] = low[c]
      BY <1>1, <2>2, VectorCells DEF RestorePmLowMem, Kept
    <3>3. low' = pm_low_mem
      BY <1>1, <2>2 DEF RestorePmLowMem
    <3> QED
      BY <1>1, <3>1, <3>2, <3>3 DEF RealModeInPlace, RealModeKept, ClientKept, ClientInPlace,
                                    history
  <2> QED
    BY <1>1, <2>1, <2>2 DEF MemoryApart, Orderly
<1> QED
  BY <1>1, <1>2, <1>3 DEF LowMemory, MemoryApart, history

-----------------------------------------------------------------------------
(***************************************************************************)
(* The stacks.  A loop's stack is told by how many reflections run below   *)
(* it, so the loops above or removed do not matter.                        *)
(***************************************************************************)
Reflecting == {i \in DOMAIN loops : loops[i].kind = "reflect"}
Below(j) == {i \in Reflecting : i < j}

StacksApart ==
    /\ rm_reflect_stack_depth = Cardinality(Reflecting)
    /\ \A j \in Reflecting :
          loops[j].stack = IF Cardinality(Below(j)) >= Stacks THEN Stacks - 1
                           ELSE Cardinality(Below(j))

CallsInv == LowMemory /\ StacksApart

LEMMA FewReflect ==
    ASSUME loops \in Seq(Loop)
    PROVE  /\ IsFiniteSet(Reflecting) /\ Cardinality(Reflecting) \in Nat
           /\ \A j : /\ IsFiniteSet(Below(j)) /\ Cardinality(Below(j)) \in Nat
                     /\ Cardinality(Below(j)) <= Cardinality(Reflecting)
                     /\ j \in Reflecting => Cardinality(Below(j)) < Cardinality(Reflecting)
<1>1. IsFiniteSet(1 .. Len(loops)) /\ Reflecting \subseteq 1 .. Len(loops)
  BY FS_Interval DEF Reflecting
<1>2. IsFiniteSet(Reflecting) /\ Cardinality(Reflecting) \in Nat
  BY <1>1, FS_Subset, FS_CardinalityType
<1>3. ASSUME NEW j
      PROVE  /\ IsFiniteSet(Below(j)) /\ Cardinality(Below(j)) \in Nat
             /\ Cardinality(Below(j)) <= Cardinality(Reflecting)
             /\ j \in Reflecting => Cardinality(Below(j)) < Cardinality(Reflecting)
  <2>1. Below(j) \subseteq Reflecting
    BY DEF Below
  <2>2. /\ IsFiniteSet(Below(j)) /\ Cardinality(Below(j)) \in Nat
        /\ Cardinality(Below(j)) <= Cardinality(Reflecting)
    BY <1>2, <2>1, FS_Subset, FS_CardinalityType
  <2>3. ASSUME j \in Reflecting PROVE Cardinality(Below(j)) # Cardinality(Reflecting)
    <3>1. j \notin Below(j)
      BY <1>1, <2>3 DEF Below
    <3> QED
      BY <1>2, <2>1, <2>3, <3>1, FS_Subset
  <2> QED
    BY <1>2, <2>2, <2>3
<1> QED
  BY <1>2, <1>3

LEMMA InitStacks == CallsInit => StacksApart
<1> SUFFICES ASSUME CallsInit PROVE StacksApart
  OBVIOUS
<1>1. Reflecting = {}
  BY DEF CallsInit, Reflecting
<1> QED
  BY <1>1, FS_EmptySet DEF CallsInit, StacksApart

LEMMA LoopStarts ==
    ASSUME CallsInv, NEW kind \in Kinds, NEW h, CallHandler(kind, h)
    PROVE  /\ loops' \in Seq(Loop) /\ Len(loops') = Len(loops) + 1 /\ running' \in Nat
           /\ StacksApart'
<1> DEFINE n == Len(loops)
           r == [kind |-> kind, caller |-> running, stack |-> StackFor(kind)]
<1>1. /\ loops \in Seq(Loop) /\ n \in Nat /\ running \in Nat
      /\ rm_reflect_stack_depth = Cardinality(Reflecting)
      /\ Cardinality(Reflecting) \in Nat
  BY FewReflect DEF CallsInv, StacksApart, LowMemory, CallsType
<1>2. StackFor(kind) \in Nat
  BY <1>1, DpmiAssumption DEF StackFor
<1>3. r \in Loop
  BY <1>1, <1>2 DEF Loop
<1>4. /\ loops' = Append(loops, r) /\ running' = Len(loops')
      /\ rm_reflect_stack_depth' = rm_reflect_stack_depth + (IF kind = "reflect" THEN 1 ELSE 0)
  BY DEF CallHandler
<1>5. r.kind = kind /\ r.stack = StackFor(kind)
  OBVIOUS
<1> HIDE DEF r
<1>6. /\ loops' \in Seq(Loop) /\ Len(loops') = n + 1 /\ running' \in Nat
      /\ \A i \in 1 .. n : loops'[i] = loops[i]
      /\ loops'[n + 1] = r
  BY <1>1, <1>3, <1>4
<1>7. Reflecting' = IF kind = "reflect" THEN Reflecting \cup {n + 1} ELSE Reflecting
  BY <1>1, <1>5, <1>6 DEF Reflecting
<1>10. Reflecting \subseteq 1 .. n /\ n + 1 \notin Reflecting
  BY <1>1 DEF Reflecting
<1>8. \A j \in 1 .. n : Below(j)' = Below(j)
  BY <1>1, <1>7, <1>10 DEF Below
<1>9. {i \in Reflecting' : i < n + 1} = Reflecting
  <2>1. \A i \in Reflecting : i < n + 1
    BY <1>1, <1>10
  <2>2. \A i \in Reflecting' : i < n + 1 <=> i \in Reflecting
    BY <1>1, <1>7, <1>10, <2>1
  <2> QED
    BY <1>7, <2>1, <2>2
<1>11. rm_reflect_stack_depth' = Cardinality(Reflecting')
  <2>1. Cardinality(Reflecting \cup {n + 1}) = Cardinality(Reflecting) + 1
    BY <1>1, <1>10, FewReflect, FS_AddElement
  <2> QED
    BY <1>1, <1>4, <1>7, <2>1
<1>12. ASSUME NEW j \in Reflecting'
       PROVE  loops'[j].stack = IF Cardinality(Below(j)') >= Stacks THEN Stacks - 1
                                ELSE Cardinality(Below(j)')
  <2>1. CASE j \in Reflecting
    <3>1. j \in 1 .. n
      BY <1>1, <2>1 DEF Reflecting
    <3> QED
      BY <1>6, <1>8, <2>1, <3>1 DEF CallsInv, StacksApart
  <2>2. CASE j = n + 1 /\ kind = "reflect"
    <3>1. Below(j)' = Reflecting
      BY <1>9, <2>2 DEF Below
    <3>3. loops'[j].stack = StackFor(kind) /\ Cardinality(Below(j)') = Cardinality(Reflecting)
      BY <1>5, <1>6, <2>2, <3>1
    <3>2. StackFor(kind) = IF Cardinality(Reflecting) >= Stacks THEN Stacks - 1
                           ELSE Cardinality(Reflecting)
      BY <1>1, <2>2 DEF StackFor
    <3> QED
      BY <3>2, <3>3
  <2> QED
    BY <1>7, <2>1, <2>2
<1> QED
  BY <1>6, <1>11, <1>12 DEF StacksApart

LEMMA Prefix ==
    ASSUME NEW S, NEW s, NEW n \in Nat, \A i \in 1 .. n : s[i] \in S
    PROVE  /\ SubSeq(s, 1, n) \in Seq(S) /\ Len(SubSeq(s, 1, n)) = n
           /\ \A i \in 1 .. n : SubSeq(s, 1, n)[i] = s[i]
OBVIOUS

LEMMA LoopStops ==
    ASSUME CallsInv, LoopEnds
    PROVE  /\ loops' \in Seq(Loop) /\ Len(loops') = Len(loops) - 1 /\ running' \in Nat
           /\ StacksApart'
<1> DEFINE n == Len(loops)
<1>1. /\ loops \in Seq(Loop) /\ n \in Nat /\ n # 0
      /\ rm_reflect_stack_depth = Cardinality(Reflecting)
      /\ Cardinality(Reflecting) \in Nat
  BY FewReflect DEF CallsInv, StacksApart, LowMemory, CallsType, LoopEnds
<1>2. /\ loops' = SubSeq(loops, 1, n - 1) /\ running' = loops[n].caller
      /\ rm_reflect_stack_depth' =
            rm_reflect_stack_depth - (IF loops[n].kind = "reflect" THEN 1 ELSE 0)
  BY DEF LoopEnds, Front, Last
<1>3. loops[n] \in Loop
  BY <1>1
<1>4. /\ loops' \in Seq(Loop) /\ Len(loops') = n - 1 /\ running' \in Nat
      /\ \A i \in 1 .. n - 1 : loops'[i] = loops[i]
  <2>1. /\ SubSeq(loops, 1, n - 1) \in Seq(Loop) /\ Len(SubSeq(loops, 1, n - 1)) = n - 1
        /\ \A i \in 1 .. n - 1 : SubSeq(loops, 1, n - 1)[i] = loops[i]
    <3>1. PICK k \in Nat : k = n - 1
      BY <1>1
    <3>2. \A i \in 1 .. k : loops[i] \in Loop
      BY <1>1, <3>1
    <3>3. /\ SubSeq(loops, 1, k) \in Seq(Loop) /\ Len(SubSeq(loops, 1, k)) = k
          /\ \A i \in 1 .. k : SubSeq(loops, 1, k)[i] = loops[i]
      BY <3>2, Prefix
    <3> QED
      BY <3>1, <3>3
  <2>2. loops[n].caller \in Nat
    BY <1>3 DEF Loop
  <2> QED
    BY <1>2, <2>1, <2>2
<1>5. Reflecting' = Reflecting \ {n}
  BY <1>1, <1>4 DEF Reflecting
<1>6. \A j \in 1 .. n - 1 : Below(j)' = Below(j)
  BY <1>1, <1>5 DEF Below, Reflecting
<1>7. n \in Reflecting <=> loops[n].kind = "reflect"
  BY <1>1 DEF Reflecting
<1>8. rm_reflect_stack_depth' = Cardinality(Reflecting')
  <2>1. CASE n \in Reflecting
    BY <1>1, <1>2, <1>5, <1>7, <2>1, FewReflect, FS_RemoveElement
  <2>2. CASE n \notin Reflecting
    <3>1. Reflecting' = Reflecting
      BY <1>5, <2>2
    <3> QED
      BY <1>1, <1>2, <1>7, <2>2, <3>1
  <2> QED
    BY <2>1, <2>2
<1>9. ASSUME NEW j \in Reflecting'
      PROVE  loops'[j].stack = IF Cardinality(Below(j)') >= Stacks THEN Stacks - 1
                               ELSE Cardinality(Below(j)')
  <2>1. j \in Reflecting /\ j \in 1 .. n - 1
    BY <1>1, <1>5 DEF Reflecting
  <2> QED
    BY <1>4, <1>6, <2>1 DEF CallsInv, StacksApart
<1> QED
  BY <1>4, <1>8, <1>9 DEF StacksApart

LEMMA OtherStacks ==
    ASSUME CallsInv, UNCHANGED <<loops, rm_reflect_stack_depth>>
    PROVE  StacksApart'
BY DEF CallsInv, StacksApart, Reflecting, Below

LEMMA NextCalls == CallsInv /\ [CallsNext]_calls => CallsInv'
<1> SUFFICES ASSUME CallsInv, [CallsNext]_calls PROVE CallsInv'
  OBVIOUS
<1> LowMemory
  BY DEF CallsInv
<1> USE DEF CallsInv
<1>1. CASE FirstSwitch
  BY <1>1, FirstSwitchLow, OtherStacks DEF FirstSwitch
<1>2. CASE Exit
  BY <1>2, ExitLow, OtherStacks DEF Exit
<1>3. CASE RawSwitch
  BY <1>3, RawSwitchLow, OtherStacks DEF RawSwitch
<1>4. CASE ClientWrites
  BY <1>4, ClientWritesLow, OtherStacks DEF ClientWrites, control
<1>5. ASSUME NEW c \in Cells, RealModeWrites(c) PROVE CallsInv'
  BY <1>5, RealModeWritesLow, OtherStacks DEF RealModeWrites, control
<1>6. ASSUME NEW v \in Vectors, SetRealModeVector(v) PROVE CallsInv'
  BY <1>6, SetVectorLow, OtherStacks DEF SetRealModeVector, control
<1>7. ASSUME NEW v \in Vectors, CallBios(v) PROVE CallsInv'
  BY <1>7, CallBiosLow, OtherStacks DEF CallBios, control
<1>8. ASSUME NEW k \in Kinds, NEW h, CallHandler(k, h) PROVE CallsInv'
  BY <1>8, CallHandlerLow, LoopStarts
<1>9. CASE Sentinel
  BY <1>9, SentinelLow, OtherStacks DEF Sentinel
<1>10. CASE LoopEnds
  BY <1>10, LoopEndsLow, LoopStops
<1>11. CASE UNCHANGED calls
  BY <1>11, OtherStacks DEF calls, memory, control, history, LowMemory, CallsType, MemoryApart,
      Orderly, RealModeKept, RealModeInPlace, ClientInPlace, ClientKept, Kept
<1> QED
  BY <1>1, <1>2, <1>3, <1>4, <1>5, <1>6, <1>7, <1>8, <1>9, <1>10, <1>11 DEF CallsNext

\* No two reflections share a stack while there are as many stacks as
\* reflections: the one above has more of them below it.
LEMMA StacksOfTheirOwn ==
    ASSUME CallsInv, Cardinality(Reflecting) <= Stacks, NEW i \in Reflecting,
           NEW j \in Reflecting, i < j
    PROVE  loops[i].stack # loops[j].stack
<1>1. loops \in Seq(Loop)
  BY DEF CallsInv, LowMemory, CallsType
<1>2. /\ IsFiniteSet(Below(j)) /\ Below(i) \subseteq Below(j) /\ i \in Below(j)
      /\ i \notin Below(i)
  <2>1. Reflecting \subseteq Nat
    BY <1>1 DEF Reflecting
  <2>2. i \in Nat /\ j \in Nat /\ ~ (i < i)
    BY <2>1
  <2>3. \A x \in Reflecting : x < i => x < j
    BY <2>1
  <2> QED
    BY <1>1, <2>2, <2>3, FewReflect DEF Below
<1>3. Cardinality(Below(i)) <= Cardinality(Below(j)) /\ Cardinality(Below(i)) # Cardinality(Below(j))
  BY <1>2, FS_Subset
<1>4. Cardinality(Below(j)) < Cardinality(Reflecting)
  BY <1>1, FewReflect
<1> QED
  BY <1>1, <1>3, <1>4, FewReflect, DpmiAssumption DEF CallsInv, StacksApart

LEMMA ApartFromInv == CallsInv => SidesStayApart
<1> SUFFICES ASSUME CallsInv PROVE SidesStayApart
  OBVIOUS
<1>1. ASSUME pm_overwrote_low_mem, ~ reentered
      PROVE  /\ ~ pe /\ loops # <<>> => \A c \in Cells \ stale : low[c] = owned[c]
             /\ pe /\ loops = <<>> =>
                    /\ \A c \in client : low[c] = "client"
                    /\ \A v \in Vectors \ stale : rm_int[v] = owned[v]
  BY <1>1, VectorCells, KeptCells DEF CallsInv, LowMemory, MemoryApart, Orderly, RealModeKept,
              RealModeInPlace, ClientInPlace
<1>2. \A i, j \in Reflecting : i < j \/ j < i \/ i = j
  BY DEF Reflecting, CallsInv, LowMemory, CallsType
<1>3. Cardinality(Reflecting) <= Stacks =>
         \A i, j \in Reflecting : loops[i].stack = loops[j].stack => i = j
  BY <1>2, StacksOfTheirOwn
<1> QED
  BY <1>1, <1>3 DEF SidesStayApart, Reflecting, CallsInv, StacksApart

\* Each side of the DPMI host finds in low memory what is its own, and nested
\* reflections have stacks of their own, for every set of vectors and stores,
\* any nesting and any number of stacks.
THEOREM EachSideKeepsItsOwn == CallsSpec => []SidesStayApart
<1>1. CallsInit => CallsInv
  BY InitLow, InitStacks DEF CallsInv
<1> QED
  BY <1>1, NextCalls, ApartFromInv, PTL DEF CallsSpec

-----------------------------------------------------------------------------
(***************************************************************************)
(* Selectors.                                                              *)
(***************************************************************************)
Access == {"none", "code", "data"}
Descriptors == [base : Nat, raw : Nat, g : BOOLEAN, access : Access]
Caches == [base : Nat, limit : Nat, g : BOOLEAN, access : Access]
Uses == {"free", "client", "segment", "dos"}
MapEntries == [used : BOOLEAN, seg : Nat, sel : Nat]

ServicesType ==
    /\ ldt \in [Entries -> Descriptors] /\ held \in [Entries -> Uses]
    /\ seg_map \in [1 .. SegMapMax -> MapEntries] /\ dos_blocks \in [1 .. DosMax -> MapEntries]
    /\ ds \in {0} \cup Entries /\ ds_cache \in Caches
    /\ exc_save \in [ds : {0} \cup Entries, cache : Caches]
    /\ handling \in Nat

\* A selector that is not given out has no descriptor; one that a table names
\* is in use for that, and for nothing else.
TablesKept ==
    /\ ldt_alloc = {i \in Entries : held[i] # "free"}
    /\ \A i \in Entries : held[i] = "free" => ldt[i].access = "none"
    /\ \A k \in 1 .. SegMapMax : seg_map[k].used =>
          /\ seg_map[k].sel \in Entries /\ held[seg_map[k].sel] = "segment"
          /\ Covers(seg_map[k].sel, seg_map[k].seg)
    /\ \A k \in 1 .. DosMax : dos_blocks[k].used =>
          /\ dos_blocks[k].sel \in Entries /\ held[dos_blocks[k].sel] = "dos"
          /\ Covers(dos_blocks[k].sel, dos_blocks[k].seg) /\ dos_blocks[k].seg \in arena

OneEntryEach ==
    /\ \A k, l \in 1 .. DosMax : dos_blocks[k].used /\ dos_blocks[l].used /\ k # l =>
          dos_blocks[k].sel # dos_blocks[l].sel /\ dos_blocks[k].seg # dos_blocks[l].seg
    /\ \A k, l \in 1 .. SegMapMax : seg_map[k].used /\ seg_map[l].used /\ k # l =>
          seg_map[k].sel # seg_map[l].sel

\* While the map has room it has the selector of every segment.
SegmentsMapped ==
    FreeEntries(seg_map) # {} =>
        \A i \in Entries : held[i] = "segment" =>
            \E k \in 1 .. SegMapMax : seg_map[k].used /\ seg_map[k].sel = i

\* What a segment register holds of a descriptor.
Follows(cache, d) ==
    /\ cache.base = d.base /\ cache.g = d.g /\ cache.access = d.access
    /\ Effective(d) - cache.limit \in 0 .. (LimitPage - 1)

\* The register, and what an exception has saved of it, name selectors that
\* are not taken back.
Loaded(i) == i # 0 => held[i] # "free"

CachesKept ==
    /\ Loaded(ds)
    /\ ds # 0 /\ "now" \notin strayed => Follows(ds_cache, ldt[ds])
    /\ handling > 0 =>
          /\ Loaded(exc_save.ds)
          /\ exc_save.ds # 0 /\ "saved" \notin strayed =>
                Follows(exc_save.cache, ldt[exc_save.ds])

ServicesInv == ServicesType /\ TablesKept /\ OneEntryEach /\ SegmentsMapped /\ CachesKept

-----------------------------------------------------------------------------
(* Arithmetic. *)
Reduced(a, n) == a % n
Pages(limit) == limit \div LimitPage

LEMMA Remainder == ASSUME NEW a \in Int, NEW n \in Nat \ {0} PROVE Reduced(a, n) \in Nat
BY DEF Reduced

LEMMA WholePages ==
    ASSUME NEW limit \in Nat
    PROVE  /\ Pages(limit) \in Nat /\ Pages(limit) * LimitPage \in Nat
           /\ (Pages(limit) * LimitPage + LimitPage - 1) - limit \in 0 .. LimitPage - 1
<1>1. LimitPage \in Nat /\ LimitPage >= 1
  BY ServicesAssumption
<1> DEFINE q == limit \div LimitPage
           r == limit % LimitPage
<1>2. q \in Nat /\ r \in 0 .. LimitPage - 1 /\ limit = q * LimitPage + r
  BY <1>1
<1>3. q * LimitPage \in Nat
  BY <1>1, <1>2
<1> HIDE DEF q, r
<1>4. (q * LimitPage + LimitPage - 1) - limit = LimitPage - 1 - r
  BY <1>1, <1>2, <1>3
<1> QED
  BY <1>1, <1>2, <1>3, <1>4 DEF Pages, q

LEMMA EffectiveIsNat == ASSUME NEW d \in Descriptors PROVE Effective(d) \in Nat
<1>1. LimitPage \in Nat /\ LimitPage >= 1 /\ d.raw \in Nat
  BY ServicesAssumption DEF Descriptors
<1>2. d.raw * LimitPage \in Nat
  BY <1>1
<1> QED
  BY <1>1, <1>2 DEF Effective

LEMMA ParsedFollows ==
    ASSUME NEW d \in Descriptors PROVE Parsed(d) \in Caches /\ Follows(Parsed(d), d)
<1>1. LimitPage \in Nat /\ LimitPage >= 1 /\ Effective(d) \in Nat
  BY ServicesAssumption, EffectiveIsNat
<1> QED
  BY <1>1 DEF Parsed, Follows, Caches, Descriptors

LEMMA NewDescriptor ==
    ASSUME NEW base \in Nat, NEW limit \in Int, NEW access \in Access
    PROVE  Descriptor(base, limit, access) \in Descriptors
<1>1. RawMax + 1 \in Nat \ {0}
  BY ServicesAssumption
<1>2. limit % (RawMax + 1) \in Nat
  BY <1>1, Remainder DEF Reduced
<1> QED
  BY <1>2 DEF Descriptor, Descriptors

LEMMA Numbers ==
    /\ Entries \subseteq Nat /\ 0 \notin Entries /\ 1 \in Entries
    /\ Segments \subseteq Nat /\ DosSegments \subseteq Nat /\ Sizes \subseteq Nat
    /\ Bases \subseteq Nat /\ Limits \subseteq Nat
    /\ RawMax \in Nat /\ SegMapMax \in Nat /\ DosMax \in Nat
    /\ LimitPage \in Nat /\ LimitPage >= 1
BY ServicesAssumption DEF Entries

\* A block's descriptor lies over the block.
LEMMA BlockCovered ==
    ASSUME NEW seg \in Nat, NEW n \in Nat
    PROVE  /\ BlockDescriptor(seg, n) \in Descriptors
           /\ BlockDescriptor(seg, n).base = seg * Paragraph
           /\ BlockDescriptor(seg, n).access = "data"
<1>1. RawMax + 1 \in Nat \ {0} /\ n * Paragraph + RawMax \in Int /\ seg * Paragraph \in Nat
  BY Numbers DEF Paragraph
<1>2. (n * Paragraph + RawMax) % (RawMax + 1) \in Nat
  BY <1>1, Remainder DEF Reduced
<1>3. BlockDescriptor(seg, n) \in Descriptors
  BY <1>1, <1>2, NewDescriptor DEF BlockDescriptor, Access
<1> QED
  BY <1>3 DEF BlockDescriptor, Descriptor

-----------------------------------------------------------------------------
\* A table remembers an entry where it had none.
LEMMA Remembered ==
    ASSUME NEW n \in Nat, NEW table \in [1 .. n -> MapEntries], NEW e \in MapEntries,
           NEW new \in Remember(table, e)
    PROVE  /\ new \in [1 .. n -> MapEntries]
           /\ FreeEntries(table) = {} => new = table
           /\ FreeEntries(table) # {} =>
                 \E k \in 1 .. n : /\ ~ table[k].used /\ new[k] = e
                                   /\ \A l \in 1 .. n : l # k => new[l] = table[l]
<1>1. CASE FreeEntries(table) = {}
  BY <1>1 DEF Remember
<1>2. CASE FreeEntries(table) # {}
  <2>1. PICK k \in FreeEntries(table) : new = [table EXCEPT ![k] = e]
    BY <1>2 DEF Remember, Lowest
  <2>2. k \in 1 .. n /\ ~ table[k].used
    BY DEF FreeEntries
  <2> QED
    BY <1>2, <2>1, <2>2
<1> QED
  BY <1>1, <1>2

-----------------------------------------------------------------------------
\* Giving out selectors changes nothing about those that are given out.
LEMMA FreshSelectors ==
    ASSUME ServicesInv, NEW fresh \in SUBSET Entries, fresh \cap ldt_alloc = {},
           ldt_alloc' = ldt_alloc \cup fresh,
           ldt' \in [Entries -> Descriptors], held' \in [Entries -> Uses],
           \A i \in fresh : held'[i] # "free",
           \A i \in Entries \ fresh : ldt'[i] = ldt[i] /\ held'[i] = held[i]
    PROVE  /\ ldt_alloc' = {i \in Entries : held'[i] # "free"}
           /\ \A i \in Entries : held'[i] = "free" => ldt'[i].access = "none"
           /\ \A i \in Entries : held[i] # "free" => held'[i] = held[i] /\ ldt'[i] = ldt[i]
           /\ UNCHANGED <<segment, exceptions>> => CachesKept'
<1>1. /\ ldt_alloc = {i \in Entries : held[i] # "free"}
      /\ \A i \in Entries : held[i] = "free" => ldt[i].access = "none"
  BY DEF ServicesInv, TablesKept
<1>2. ldt_alloc' = {i \in Entries : held'[i] # "free"}
  BY <1>1
<1>3. \A i \in Entries : held[i] # "free" => held'[i] = held[i] /\ ldt'[i] = ldt[i]
  BY <1>1
<1>4. ASSUME UNCHANGED <<segment, exceptions>> PROVE CachesKept'
  BY <1>3, <1>4 DEF ServicesInv, ServicesType, CachesKept, Loaded, segment, exceptions
<1> QED
  BY <1>1, <1>2, <1>3, <1>4

LEMMA GiveOne ==
    ASSUME ServicesInv, NEW i \in Lowest(Entries \ ldt_alloc), NEW d \in Descriptors,
           NEW use \in Uses \ {"free"}, Give(i, d, use)
    PROVE  /\ i \in Entries /\ held[i] = "free"
           /\ ldt' \in [Entries -> Descriptors] /\ held' \in [Entries -> Uses]
           /\ held'[i] = use /\ ldt'[i] = d
           /\ \A j \in Entries \ {i} : ldt'[j] = ldt[j] /\ held'[j] = held[j]
           /\ ldt_alloc' = {j \in Entries : held'[j] # "free"}
           /\ \A j \in Entries : held'[j] = "free" => ldt'[j].access = "none"
           /\ \A j \in Entries : held[j] # "free" => held'[j] = held[j] /\ ldt'[j] = ldt[j]
           /\ UNCHANGED <<segment, exceptions>> => CachesKept'
<1>1. i \in Entries /\ held[i] = "free" /\ i \notin ldt_alloc
  BY DEF Lowest, ServicesInv, TablesKept
<1>2. /\ ldt_alloc' = ldt_alloc \cup {i}
      /\ ldt' \in [Entries -> Descriptors] /\ held' \in [Entries -> Uses]
      /\ held'[i] = use /\ ldt'[i] = d
      /\ \A j \in Entries \ {i} : ldt'[j] = ldt[j] /\ held'[j] = held[j]
  BY <1>1 DEF Give, ServicesInv, ServicesType
<1> DEFINE fresh == {i}
<1>3. /\ fresh \in SUBSET Entries /\ fresh \cap ldt_alloc = {}
      /\ ldt_alloc' = ldt_alloc \cup fresh
      /\ \A j \in fresh : held'[j] # "free"
      /\ \A j \in Entries \ fresh : ldt'[j] = ldt[j] /\ held'[j] = held[j]
  BY <1>1, <1>2
<1> HIDE DEF fresh
<1>4. /\ ldt_alloc' = {j \in Entries : held'[j] # "free"}
      /\ \A j \in Entries : held'[j] = "free" => ldt'[j].access = "none"
      /\ \A j \in Entries : held[j] # "free" => held'[j] = held[j] /\ ldt'[j] = ldt[j]
      /\ UNCHANGED <<segment, exceptions>> => CachesKept'
  BY <1>2, <1>3, FreshSelectors
<1> QED
  BY <1>1, <1>2, <1>4

\* 0000h, 000Ah: the tables are as they were.
LEMMA TablesUntouched ==
    ASSUME ServicesInv, UNCHANGED maps,
           ldt_alloc' = {i \in Entries : held'[i] # "free"},
           \A i \in Entries : held'[i] = "free" => ldt'[i].access = "none",
           \A i \in Entries : held[i] \in {"segment", "dos"} =>
              held'[i] = held[i] /\ ldt'[i].base = ldt[i].base /\ ldt'[i].access = ldt[i].access,
           \A i \in Entries : held'[i] = "segment" => held[i] = "segment"
    PROVE  TablesKept' /\ OneEntryEach' /\ SegmentsMapped'
<1>1. TablesKept'
  BY DEF ServicesInv, TablesKept, Covers, maps
<1> QED
  BY <1>1 DEF ServicesInv, OneEntryEach, SegmentsMapped, FreeEntries, maps

LEMMA AllocateKeeps ==
    ASSUME ServicesInv, NEW count \in 0 .. LdtMax, AllocateDescriptors(count)
    PROVE  ServicesInv'
<1> DEFINE length == IF count = 0 THEN 1 ELSE count
           run(start) == start .. (start + length - 1)
<1>1. PICK start \in Entries :
          /\ IsRun(start, length)
          /\ ldt_alloc' = ldt_alloc \cup run(start)
          /\ ldt' = [i \in Entries |->
                        IF i \in run(start) THEN Descriptor(0, 0, "data") ELSE ldt[i]]
          /\ held' = [i \in Entries |-> IF i \in run(start) THEN "client" ELSE held[i]]
          /\ UNCHANGED <<changes, maps, segment, exceptions>>
  BY DEF AllocateDescriptors, Lowest
<1>2. run(start) \subseteq Entries /\ run(start) \cap ldt_alloc = {}
  BY <1>1, ServicesAssumption DEF IsRun, Entries
<1>3. Descriptor(0, 0, "data") \in Descriptors
  BY NewDescriptor DEF Access
<1> HIDE DEF run
<1>4. /\ ldt' \in [Entries -> Descriptors] /\ held' \in [Entries -> Uses]
      /\ \A i \in run(start) : held'[i] = "client"
      /\ \A i \in Entries \ run(start) : ldt'[i] = ldt[i] /\ held'[i] = held[i]
  BY <1>1, <1>2, <1>3 DEF ServicesInv, ServicesType, Uses
<1>5. /\ ldt_alloc' = {i \in Entries : held'[i] # "free"}
      /\ \A i \in Entries : held'[i] = "free" => ldt'[i].access = "none"
      /\ \A i \in Entries : held[i] # "free" => held'[i] = held[i] /\ ldt'[i] = ldt[i]
      /\ CachesKept'
  BY <1>1, <1>2, <1>4, FreshSelectors
<1>6. \A i \in Entries : held'[i] = "segment" => held[i] = "segment"
  BY <1>4
<1>7. TablesKept' /\ OneEntryEach' /\ SegmentsMapped'
  BY <1>1, <1>5, <1>6, TablesUntouched
<1>8. ServicesType'
  BY <1>1, <1>4 DEF ServicesInv, ServicesType, maps, segment, exceptions
<1> QED
  BY <1>5, <1>7, <1>8 DEF ServicesInv

LEMMA AliasKeeps ==
    ASSUME ServicesInv, NEW i \in Entries, CreateAlias(i)
    PROVE  ServicesInv'
<1> DEFINE d == [ldt[i] EXCEPT !.access = "data"]
<1>1. PICK new \in Lowest(Entries \ ldt_alloc) : Give(new, d, "client")
  BY DEF CreateAlias
<1>2. d \in Descriptors
  BY DEF ServicesInv, ServicesType, Descriptors, Access
<1>3. UNCHANGED <<maps, segment, exceptions>>
  BY DEF CreateAlias
<1> HIDE DEF d
<1>4. /\ new \in Entries /\ held[new] = "free"
      /\ ldt' \in [Entries -> Descriptors] /\ held' \in [Entries -> Uses]
      /\ held'[new] = "client"
      /\ \A j \in Entries \ {new} : ldt'[j] = ldt[j] /\ held'[j] = held[j]
      /\ ldt_alloc' = {j \in Entries : held'[j] # "free"}
      /\ \A j \in Entries : held'[j] = "free" => ldt'[j].access = "none"
      /\ \A j \in Entries : held[j] # "free" => held'[j] = held[j] /\ ldt'[j] = ldt[j]
      /\ UNCHANGED <<segment, exceptions>> => CachesKept'
  BY <1>1, <1>2, GiveOne DEF Uses
<1>5. CachesKept'
  BY <1>3, <1>4
<1>6. \A j \in Entries : held'[j] = "segment" => held[j] = "segment"
  BY <1>4
<1>7. TablesKept' /\ OneEntryEach' /\ SegmentsMapped'
  BY <1>3, <1>4, <1>6, TablesUntouched
<1>8. ServicesType'
  BY <1>3, <1>4 DEF ServicesInv, ServicesType, maps, segment, exceptions
<1> QED
  BY <1>5, <1>7, <1>8 DEF ServicesInv

LEMMA SegmentKeeps ==
    ASSUME ServicesInv, NEW seg \in Segments, SegmentToDescriptor(seg)
    PROVE  ServicesInv'
<1> DEFINE d == Descriptor(seg * Paragraph, (RawMax + 1) \div Paragraph - 1, "data")
<1>1. PICK i \in Lowest(Entries \ ldt_alloc) :
          Give(i, d, "segment") /\ seg_map' \in Remember(seg_map, SegmentEntry(seg, i))
  BY DEF SegmentToDescriptor
<1>2. d \in Descriptors /\ d.base = seg * Paragraph /\ d.access = "data"
  <2>1. seg * Paragraph \in Nat /\ (RawMax + 1) \div Paragraph - 1 \in Int
    BY Numbers DEF Paragraph
  <2>2. d \in Descriptors
    BY <2>1, NewDescriptor DEF Access
  <2> QED
    BY <2>2 DEF Descriptor
<1>3. UNCHANGED <<dos_blocks, arena, segment, exceptions>>
  BY DEF SegmentToDescriptor
<1> HIDE DEF d
<1>4. /\ i \in Entries /\ held[i] = "free"
      /\ ldt' \in [Entries -> Descriptors] /\ held' \in [Entries -> Uses]
      /\ held'[i] = "segment" /\ ldt'[i] = d
      /\ \A j \in Entries \ {i} : ldt'[j] = ldt[j] /\ held'[j] = held[j]
      /\ ldt_alloc' = {j \in Entries : held'[j] # "free"}
      /\ \A j \in Entries : held'[j] = "free" => ldt'[j].access = "none"
      /\ \A j \in Entries : held[j] # "free" => held'[j] = held[j] /\ ldt'[j] = ldt[j]
      /\ UNCHANGED <<segment, exceptions>> => CachesKept'
  BY <1>1, <1>2, GiveOne DEF Uses
<1>5. CachesKept'
  BY <1>3, <1>4
<1>6. SegmentEntry(seg, i) \in MapEntries
  BY <1>4, Numbers DEF SegmentEntry, MapEntries
<1>7. /\ seg_map' \in [1 .. SegMapMax -> MapEntries]
      /\ FreeEntries(seg_map) = {} => seg_map' = seg_map
      /\ FreeEntries(seg_map) # {} =>
            \E k \in 1 .. SegMapMax :
                /\ ~ seg_map[k].used /\ seg_map'[k] = SegmentEntry(seg, i)
                /\ \A l \in 1 .. SegMapMax : l # k => seg_map'[l] = seg_map[l]
  BY <1>1, <1>6, Remembered, Numbers, SMTT(30) DEF ServicesInv, ServicesType
<1>8. \A k \in 1 .. SegMapMax :
          seg_map'[k] = seg_map[k] \/ seg_map'[k] = SegmentEntry(seg, i)
  BY <1>7
<1>9. TablesKept'
  <2>1. ASSUME NEW k \in 1 .. SegMapMax, seg_map'[k].used
        PROVE  /\ seg_map'[k].sel \in Entries /\ held'[seg_map'[k].sel] = "segment"
               /\ Covers(seg_map[k].sel, seg_map[k].seg)'
    <3>1. CASE seg_map'[k] = seg_map[k]
      BY <1>4, <2>1, <3>1 DEF ServicesInv, TablesKept, Covers
    <3>2. CASE seg_map'[k] = SegmentEntry(seg, i)
      BY <1>2, <1>4, <3>2 DEF SegmentEntry, Covers
    <3> QED
      BY <1>8, <3>1, <3>2
  <2>2. ASSUME NEW k \in 1 .. DosMax, dos_blocks'[k].used
        PROVE  /\ dos_blocks'[k].sel \in Entries /\ held'[dos_blocks'[k].sel] = "dos"
               /\ Covers(dos_blocks[k].sel, dos_blocks[k].seg)' /\ dos_blocks'[k].seg \in arena'
    BY <1>3, <1>4, <2>2 DEF ServicesInv, TablesKept, Covers
  <2> QED
    BY <1>4, <2>1, <2>2 DEF TablesKept
<1>10. OneEntryEach'
  <2>1. ASSUME NEW k \in 1 .. SegMapMax, NEW l \in 1 .. SegMapMax,
               seg_map'[k].used, seg_map'[l].used, k # l
        PROVE  seg_map'[k].sel # seg_map'[l].sel
    <3>1. CASE FreeEntries(seg_map) = {}
      BY <1>7, <2>1, <3>1 DEF ServicesInv, OneEntryEach
    <3>2. CASE FreeEntries(seg_map) # {}
      <4>1. PICK n \in 1 .. SegMapMax :
                /\ ~ seg_map[n].used /\ seg_map'[n] = SegmentEntry(seg, i)
                /\ \A q \in 1 .. SegMapMax : q # n => seg_map'[q] = seg_map[q]
        BY <1>7, <3>2
      <4>2. \A q \in 1 .. SegMapMax : seg_map[q].used => seg_map[q].sel # i
        BY <1>4 DEF ServicesInv, TablesKept
      <4>3. seg_map'[n].sel = i
        BY <4>1 DEF SegmentEntry
      <4> QED
        BY <2>1, <4>1, <4>2, <4>3 DEF ServicesInv, OneEntryEach
    <3> QED
      BY <3>1, <3>2
  <2>2. \A k, l \in 1 .. DosMax : dos_blocks'[k].used /\ dos_blocks'[l].used /\ k # l =>
          dos_blocks'[k].sel # dos_blocks'[l].sel /\ dos_blocks'[k].seg # dos_blocks'[l].seg
    BY <1>3 DEF ServicesInv, OneEntryEach
  <2> QED
    BY <2>1, <2>2 DEF OneEntryEach
<1>11. SegmentsMapped'
  <2>1. CASE FreeEntries(seg_map) = {}
    BY <1>7, <2>1 DEF SegmentsMapped, FreeEntries
  <2>2. CASE FreeEntries(seg_map) # {}
    <3>1. PICK n \in 1 .. SegMapMax :
              /\ ~ seg_map[n].used /\ seg_map'[n] = SegmentEntry(seg, i)
              /\ \A q \in 1 .. SegMapMax : q # n => seg_map'[q] = seg_map[q]
      BY <1>7, <2>2
    <3>2. seg_map'[n].used /\ seg_map'[n].sel = i
      BY <3>1 DEF SegmentEntry
    <3>3. \A j \in Entries : held[j] = "segment" =>
              \E k \in 1 .. SegMapMax : seg_map[k].used /\ seg_map[k].sel = j
      BY <2>2 DEF ServicesInv, SegmentsMapped
    <3>4. ASSUME NEW j \in Entries, held'[j] = "segment"
          PROVE  \E k \in 1 .. SegMapMax : seg_map'[k].used /\ seg_map'[k].sel = j
      <4>1. CASE j = i
        BY <3>2, <4>1
      <4>2. CASE j # i
        <5>1. PICK k \in 1 .. SegMapMax : seg_map[k].used /\ seg_map[k].sel = j
          BY <1>4, <3>3, <3>4, <4>2
        <5> QED
          BY <3>1, <5>1
      <4> QED
        BY <4>1, <4>2
    <3> QED
      BY <3>4 DEF SegmentsMapped
  <2> QED
    BY <2>1, <2>2
<1>12. ServicesType'
  BY <1>3, <1>4, <1>7 DEF ServicesInv, ServicesType, segment, exceptions
<1> QED
  BY <1>5, <1>9, <1>10, <1>11, <1>12 DEF ServicesInv

LEMMA AllocateDosKeeps ==
    ASSUME ServicesInv, NEW seg \in DosSegments, NEW n \in Sizes, AllocateDos(seg, n)
    PROVE  ServicesInv'
<1>1. UNCHANGED <<seg_map, segment, exceptions>> /\ seg \notin arena /\ arena' = arena \cup {seg}
  BY DEF AllocateDos
<1>2. CASE Entries \subseteq ldt_alloc
  <2>1. UNCHANGED <<tables, dos_blocks>>
    BY <1>2 DEF AllocateDos
  <2>2. ServicesType'
    BY <1>1, <2>1 DEF ServicesInv, ServicesType, tables, segment, exceptions
  <2>3. TablesKept'
    BY <1>1, <2>1 DEF ServicesInv, TablesKept, Covers, tables
  <2>4. OneEntryEach' /\ SegmentsMapped'
    BY <1>1, <2>1 DEF ServicesInv, OneEntryEach, SegmentsMapped, FreeEntries, tables
  <2>5. CachesKept'
    BY <1>1, <2>1 DEF ServicesInv, CachesKept, Loaded, tables, segment, exceptions
  <2> QED
    BY <2>2, <2>3, <2>4, <2>5 DEF ServicesInv
<1>3. CASE ~ (Entries \subseteq ldt_alloc)
  <2> DEFINE d == BlockDescriptor(seg, n)
  <2>1. PICK i \in Lowest(Entries \ ldt_alloc) :
            Give(i, d, "dos") /\ dos_blocks' \in Remember(dos_blocks, DosEntry(seg, i))
    BY <1>3 DEF AllocateDos
  <2>2. d \in Descriptors /\ d.base = seg * Paragraph /\ d.access = "data"
    <3>1. seg \in Nat /\ n \in Nat
      BY Numbers
    <3> QED
      BY <3>1, BlockCovered
  <2> HIDE DEF d
  <2>4. /\ i \in Entries /\ held[i] = "free"
        /\ ldt' \in [Entries -> Descriptors] /\ held' \in [Entries -> Uses]
        /\ held'[i] = "dos" /\ ldt'[i] = d
        /\ \A j \in Entries \ {i} : ldt'[j] = ldt[j] /\ held'[j] = held[j]
        /\ ldt_alloc' = {j \in Entries : held'[j] # "free"}
        /\ \A j \in Entries : held'[j] = "free" => ldt'[j].access = "none"
        /\ \A j \in Entries : held[j] # "free" => held'[j] = held[j] /\ ldt'[j] = ldt[j]
        /\ UNCHANGED <<segment, exceptions>> => CachesKept'
    BY <2>1, <2>2, GiveOne DEF Uses
  <2>5. CachesKept'
    BY <1>1, <2>4
  <2>6. DosEntry(seg, i) \in MapEntries
    BY <2>4, Numbers DEF DosEntry, MapEntries
  <2>7. /\ dos_blocks' \in [1 .. DosMax -> MapEntries]
        /\ FreeEntries(dos_blocks) = {} => dos_blocks' = dos_blocks
        /\ FreeEntries(dos_blocks) # {} =>
              \E k \in 1 .. DosMax :
                  /\ ~ dos_blocks[k].used /\ dos_blocks'[k] = DosEntry(seg, i)
                  /\ \A l \in 1 .. DosMax : l # k => dos_blocks'[l] = dos_blocks[l]
    <3>1. DosMax \in Nat /\ dos_blocks \in [1 .. DosMax -> MapEntries]
      BY Numbers DEF ServicesInv, ServicesType
    <3> QED
      BY <2>1, <2>6, <3>1, Remembered
  <2>8. \A k \in 1 .. DosMax :
            dos_blocks'[k] = dos_blocks[k] \/ dos_blocks'[k] = DosEntry(seg, i)
    BY <2>7
  <2>9. TablesKept'
    <3>1. ASSUME NEW k \in 1 .. DosMax, dos_blocks'[k].used
          PROVE  /\ dos_blocks'[k].sel \in Entries /\ held'[dos_blocks'[k].sel] = "dos"
                 /\ Covers(dos_blocks[k].sel, dos_blocks[k].seg)'
                 /\ dos_blocks'[k].seg \in arena'
      <4>1. CASE dos_blocks'[k] = dos_blocks[k]
        BY <1>1, <2>4, <3>1, <4>1 DEF ServicesInv, TablesKept, Covers
      <4>2. CASE dos_blocks'[k] = DosEntry(seg, i)
        BY <1>1, <2>2, <2>4, <4>2 DEF DosEntry, Covers
      <4> QED
        BY <2>8, <4>1, <4>2
    <3>2. ASSUME NEW k \in 1 .. SegMapMax, seg_map'[k].used
          PROVE  /\ seg_map'[k].sel \in Entries /\ held'[seg_map'[k].sel] = "segment"
                 /\ Covers(seg_map[k].sel, seg_map[k].seg)'
      BY <1>1, <2>4, <3>2 DEF ServicesInv, TablesKept, Covers
    <3> QED
      BY <2>4, <3>1, <3>2 DEF TablesKept
  <2>10. OneEntryEach'
    <3>1. ASSUME NEW k \in 1 .. DosMax, NEW l \in 1 .. DosMax,
                 dos_blocks'[k].used, dos_blocks'[l].used, k # l
          PROVE  dos_blocks'[k].sel # dos_blocks'[l].sel /\ dos_blocks'[k].seg # dos_blocks'[l].seg
      <4>1. CASE FreeEntries(dos_blocks) = {}
        BY <2>7, <3>1, <4>1 DEF ServicesInv, OneEntryEach
      <4>2. CASE FreeEntries(dos_blocks) # {}
        <5>1. PICK q \in 1 .. DosMax :
                  /\ ~ dos_blocks[q].used /\ dos_blocks'[q] = DosEntry(seg, i)
                  /\ \A r \in 1 .. DosMax : r # q => dos_blocks'[r] = dos_blocks[r]
          BY <2>7, <4>2
        <5>2. \A r \in 1 .. DosMax : dos_blocks[r].used =>
                  dos_blocks[r].sel # i /\ dos_blocks[r].seg # seg
          BY <1>1, <2>4 DEF ServicesInv, TablesKept
        <5>3. dos_blocks'[q].sel = i /\ dos_blocks'[q].seg = seg
          BY <5>1 DEF DosEntry
        <5> QED
          BY <3>1, <5>1, <5>2, <5>3 DEF ServicesInv, OneEntryEach
      <4> QED
        BY <4>1, <4>2
    <3>2. \A k, l \in 1 .. SegMapMax : seg_map'[k].used /\ seg_map'[l].used /\ k # l =>
            seg_map'[k].sel # seg_map'[l].sel
      BY <1>1 DEF ServicesInv, OneEntryEach
    <3> QED
      BY <3>1, <3>2 DEF OneEntryEach
  <2>11. SegmentsMapped'
    BY <1>1, <2>4 DEF ServicesInv, SegmentsMapped, FreeEntries
  <2>12. ServicesType'
    BY <1>1, <2>4, <2>7 DEF ServicesInv, ServicesType, segment, exceptions
  <2> QED
    BY <2>4, <2>5, <2>9, <2>10, <2>11, <2>12 DEF ServicesInv
<1> QED
  BY <1>2, <1>3

-----------------------------------------------------------------------------
\* A selector that is taken back is in no register, and saved for none.
LEMMA TakenBack ==
    ASSUME ServicesInv, NEW i \in Entries, TakeBack(i), UNCHANGED <<ds, ds_cache, exceptions>>
    PROVE  /\ ldt' \in [Entries -> Descriptors] /\ held' \in [Entries -> Uses]
           /\ held'[i] = "free"
           /\ \A j \in Entries \ {i} : ldt'[j] = ldt[j] /\ held'[j] = held[j]
           /\ ldt_alloc' = {j \in Entries : held'[j] # "free"}
           /\ \A j \in Entries : held'[j] = "free" => ldt'[j].access = "none"
           /\ CachesKept'
<1>1. NoDescriptor \in Descriptors /\ NoDescriptor.access = "none"
  BY DEF NoDescriptor, Descriptors, Access
<1>2. /\ ldt' = [ldt EXCEPT ![i] = NoDescriptor] /\ held' = [held EXCEPT ![i] = "free"]
      /\ ldt_alloc' = ldt_alloc \ {i} /\ strayed' = strayed
      /\ ds # i /\ (handling > 0 => exc_save.ds # i)
  BY DEF TakeBack, Saved
<1>3. /\ ldt' \in [Entries -> Descriptors] /\ held' \in [Entries -> Uses]
      /\ held'[i] = "free" /\ ldt'[i] = NoDescriptor
      /\ \A j \in Entries \ {i} : ldt'[j] = ldt[j] /\ held'[j] = held[j]
  BY <1>1, <1>2 DEF ServicesInv, ServicesType, Uses
<1>4. ldt_alloc' = {j \in Entries : held'[j] # "free"}
  BY <1>2, <1>3 DEF ServicesInv, TablesKept
<1>5. \A j \in Entries : held'[j] = "free" => ldt'[j].access = "none"
  BY <1>1, <1>3 DEF ServicesInv, TablesKept
<1>6. CachesKept'
  BY <1>2, <1>3 DEF ServicesInv, ServicesType, CachesKept, Loaded, exceptions
<1> QED
  BY <1>3, <1>4, <1>5, <1>6

LEMMA FreeDosKeeps ==
    ASSUME ServicesInv, NEW k \in 1 .. DosMax, FreeDos(k)
    PROVE  ServicesInv'
<1> DEFINE i == dos_blocks[k].sel
<1>1. /\ dos_blocks[k].used /\ TakeBack(i)
      /\ arena' = arena \ {dos_blocks[k].seg}
      /\ dos_blocks' = [dos_blocks EXCEPT ![k].used = FALSE]
      /\ UNCHANGED <<seg_map, ds, ds_cache, exceptions>>
  BY DEF FreeDos
<1>2. i \in Entries /\ held[i] = "dos"
  BY <1>1 DEF ServicesInv, TablesKept
<1> HIDE DEF i
<1>3. /\ ldt' \in [Entries -> Descriptors] /\ held' \in [Entries -> Uses]
      /\ held'[i] = "free"
      /\ \A j \in Entries \ {i} : ldt'[j] = ldt[j] /\ held'[j] = held[j]
      /\ ldt_alloc' = {j \in Entries : held'[j] # "free"}
      /\ \A j \in Entries : held'[j] = "free" => ldt'[j].access = "none"
      /\ CachesKept'
  BY <1>1, <1>2, TakenBack
<1>4. /\ dos_blocks' \in [1 .. DosMax -> MapEntries] /\ ~ dos_blocks'[k].used
      /\ \A l \in 1 .. DosMax : l # k => dos_blocks'[l] = dos_blocks[l]
  BY <1>1 DEF ServicesInv, ServicesType, MapEntries
<1>5. \A l \in 1 .. DosMax : dos_blocks'[l].used =>
          /\ l # k /\ dos_blocks'[l] = dos_blocks[l]
          /\ dos_blocks[l].sel # i /\ dos_blocks[l].seg # dos_blocks[k].seg
  BY <1>1, <1>4 DEF ServicesInv, OneEntryEach, i
<1>6. TablesKept'
  <2>1. ASSUME NEW l \in 1 .. DosMax, dos_blocks'[l].used
        PROVE  /\ dos_blocks'[l].sel \in Entries /\ held'[dos_blocks'[l].sel] = "dos"
               /\ Covers(dos_blocks[l].sel, dos_blocks[l].seg)' /\ dos_blocks'[l].seg \in arena'
    BY <1>1, <1>3, <1>5, <2>1 DEF ServicesInv, TablesKept, Covers
  <2>2. ASSUME NEW l \in 1 .. SegMapMax, seg_map'[l].used
        PROVE  /\ seg_map'[l].sel \in Entries /\ held'[seg_map'[l].sel] = "segment"
               /\ Covers(seg_map[l].sel, seg_map[l].seg)'
    BY <1>1, <1>2, <1>3, <2>2 DEF ServicesInv, TablesKept, Covers
  <2> QED
    BY <1>3, <2>1, <2>2 DEF TablesKept
<1>7. OneEntryEach'
  BY <1>1, <1>5 DEF ServicesInv, OneEntryEach
<1>8. SegmentsMapped'
  BY <1>1, <1>2, <1>3 DEF ServicesInv, SegmentsMapped, FreeEntries
<1>9. ServicesType'
  BY <1>1, <1>3, <1>4 DEF ServicesInv, ServicesType, exceptions
<1> QED
  BY <1>3, <1>6, <1>7, <1>8, <1>9 DEF ServicesInv

LEMMA FreeDescriptorKeeps ==
    ASSUME ServicesInv, NEW i \in Entries, FreeDescriptor(i)
    PROVE  ServicesInv'
<1>1. held[i] = "client" /\ TakeBack(i) /\ UNCHANGED <<maps, ds, ds_cache, exceptions>>
  BY DEF FreeDescriptor
<1>2. /\ ldt' \in [Entries -> Descriptors] /\ held' \in [Entries -> Uses]
      /\ held'[i] = "free"
      /\ \A j \in Entries \ {i} : ldt'[j] = ldt[j] /\ held'[j] = held[j]
      /\ ldt_alloc' = {j \in Entries : held'[j] # "free"}
      /\ \A j \in Entries : held'[j] = "free" => ldt'[j].access = "none"
      /\ CachesKept'
  BY <1>1, TakenBack
<1>3. \A j \in Entries : held[j] \in {"segment", "dos"} =>
          held'[j] = held[j] /\ ldt'[j].base = ldt[j].base /\ ldt'[j].access = ldt[j].access
  BY <1>1, <1>2
<1>4. \A j \in Entries : held'[j] = "segment" => held[j] = "segment"
  BY <1>2
<1>5. TablesKept' /\ OneEntryEach' /\ SegmentsMapped'
  BY <1>1, <1>2, <1>3, <1>4, TablesUntouched
<1>6. ServicesType'
  BY <1>1, <1>2 DEF ServicesInv, ServicesType, maps, exceptions
<1> QED
  BY <1>2, <1>5, <1>6 DEF ServicesInv

-----------------------------------------------------------------------------
\* 0102h: the block's descriptor still lies over it, and the registers that hold
\* it have strayed.
LEMMA ResizeDosKeeps ==
    ASSUME ServicesInv, NEW k \in 1 .. DosMax, NEW n \in Sizes, ResizeDos(k, n)
    PROVE  ServicesInv'
<1> DEFINE i == dos_blocks[k].sel
           d == BlockDescriptor(dos_blocks[k].seg, n)
<1>1. /\ dos_blocks[k].used /\ ldt' = [ldt EXCEPT ![i] = d]
      /\ strayed' = strayed \cup StraysSaved(i) \cup (IF ds = i THEN {"now"} ELSE {})
      /\ UNCHANGED <<ldt_alloc, held, maps, ds, ds_cache, exceptions>>
  BY DEF ResizeDos
<1>2. /\ i \in Entries /\ held[i] = "dos" /\ dos_blocks[k].seg \in Nat /\ n \in Nat
      /\ ldt[i].base = dos_blocks[k].seg * Paragraph /\ ldt[i].access = "data"
  BY <1>1, Numbers DEF ServicesInv, ServicesType, TablesKept, Covers, MapEntries
<1>3. d \in Descriptors /\ d.base = ldt[i].base /\ d.access = ldt[i].access
  BY <1>2, BlockCovered
<1> HIDE DEF i, d
<1>4. /\ ldt' \in [Entries -> Descriptors] /\ ldt'[i] = d
      /\ \A j \in Entries \ {i} : ldt'[j] = ldt[j]
  BY <1>1, <1>2, <1>3 DEF ServicesInv, ServicesType
<1>5. \A j \in Entries : ldt'[j].base = ldt[j].base /\ ldt'[j].access = ldt[j].access
  BY <1>3, <1>4
<1>6. TablesKept' /\ OneEntryEach' /\ SegmentsMapped'
  <2>1. ldt_alloc' = {j \in Entries : held'[j] # "free"}
    BY <1>1 DEF ServicesInv, TablesKept
  <2>2. \A j \in Entries : held'[j] = "free" => ldt'[j].access = "none"
    BY <1>1, <1>5 DEF ServicesInv, TablesKept
  <2> QED
    BY <1>1, <1>5, <2>1, <2>2, TablesUntouched
<1>7. CachesKept'
  <2>1. Loaded(ds)' /\ (handling' > 0 => Loaded(exc_save.ds)')
    BY <1>1 DEF ServicesInv, CachesKept, Loaded, exceptions
  <2>2. ASSUME ds' # 0, "now" \notin strayed' PROVE Follows(ds_cache, ldt[ds])'
    <3>1. ds # i /\ "now" \notin strayed
      BY <1>1, <2>2
    <3> QED
      BY <1>1, <1>4, <2>2, <3>1 DEF ServicesInv, ServicesType, CachesKept
  <2>3. ASSUME handling' > 0, exc_save'.ds # 0, "saved" \notin strayed'
        PROVE  Follows(exc_save.cache, ldt[exc_save.ds])'
    <3>1. exc_save.ds # i /\ "saved" \notin strayed /\ handling > 0
      BY <1>1, <2>3 DEF StraysSaved, Saved, exceptions
    <3> QED
      BY <1>1, <1>4, <2>3, <3>1 DEF ServicesInv, ServicesType, CachesKept, exceptions
  <2> QED
    BY <2>1, <2>2, <2>3 DEF CachesKept
<1>8. ServicesType'
  BY <1>1, <1>4 DEF ServicesInv, ServicesType, maps, exceptions
<1> QED
  BY <1>6, <1>7, <1>8 DEF ServicesInv

\* A descriptor is changed, and the register that holds it.
LEMMA ChangeKeeps ==
    ASSUME ServicesInv, NEW i \in Entries, NEW d \in Descriptors, NEW c \in Caches,
           Change(i, d, c), ds = i /\ "now" \notin strayed => Follows(c, d)
    PROVE  ServicesInv'
<1>1. /\ held[i] = "client" /\ ldt' = [ldt EXCEPT ![i] = d]
      /\ ds_cache' = IF ds = i THEN c ELSE ds_cache
      /\ strayed' = strayed \cup StraysSaved(i)
      /\ UNCHANGED <<ldt_alloc, held, maps, ds, exceptions>>
  BY DEF Change, UpdateCache
<1>2. /\ ldt' \in [Entries -> Descriptors] /\ ldt'[i] = d /\ ds_cache' \in Caches
      /\ \A j \in Entries \ {i} : ldt'[j] = ldt[j]
  BY <1>1 DEF ServicesInv, ServicesType
<1>3. TablesKept' /\ OneEntryEach' /\ SegmentsMapped'
  <2>1. ldt_alloc' = {j \in Entries : held'[j] # "free"}
    BY <1>1 DEF ServicesInv, TablesKept
  <2>2. \A j \in Entries : held'[j] = "free" => ldt'[j].access = "none"
    BY <1>1, <1>2 DEF ServicesInv, TablesKept
  <2>3. \A j \in Entries : held[j] \in {"segment", "dos"} =>
            held'[j] = held[j] /\ ldt'[j].base = ldt[j].base /\ ldt'[j].access = ldt[j].access
    BY <1>1, <1>2
  <2> QED
    BY <1>1, <2>1, <2>2, <2>3, TablesUntouched
<1>4. CachesKept'
  <2>1. Loaded(ds)' /\ (handling' > 0 => Loaded(exc_save.ds)')
    BY <1>1 DEF ServicesInv, CachesKept, Loaded, exceptions
  <2>2. ASSUME ds' # 0, "now" \notin strayed' PROVE Follows(ds_cache, ldt[ds])'
    <3>1. "now" \notin strayed /\ ds' = ds
      BY <1>1, <2>2
    <3>2. CASE ds = i
      BY <1>1, <1>2, <3>1, <3>2
    <3>3. CASE ds # i
      BY <1>1, <1>2, <2>2, <3>1, <3>3 DEF ServicesInv, ServicesType, CachesKept
    <3> QED
      BY <3>2, <3>3
  <2>3. ASSUME handling' > 0, exc_save'.ds # 0, "saved" \notin strayed'
        PROVE  Follows(exc_save.cache, ldt[exc_save.ds])'
    <3>1. exc_save.ds # i /\ "saved" \notin strayed /\ handling > 0
      BY <1>1, <2>3 DEF StraysSaved, Saved, exceptions
    <3> QED
      BY <1>1, <1>2, <2>3, <3>1 DEF ServicesInv, ServicesType, CachesKept, exceptions
  <2> QED
    BY <2>1, <2>2, <2>3 DEF CachesKept
<1>5. ServicesType'
  BY <1>1, <1>2 DEF ServicesInv, ServicesType, maps, exceptions
<1> QED
  BY <1>3, <1>4, <1>5 DEF ServicesInv

LEMMA SetBaseKeeps ==
    ASSUME ServicesInv, NEW i \in Entries, NEW base \in Bases, SetBase(i, base)
    PROVE  ServicesInv'
<1> DEFINE d == [ldt[i] EXCEPT !.base = base]
           c == [ds_cache EXCEPT !.base = base]
<1>1. base \in Nat /\ ldt[i] \in Descriptors /\ ds_cache \in Caches
  BY Numbers DEF ServicesInv, ServicesType
<1>2. d \in Descriptors /\ c \in Caches
  BY <1>1 DEF Descriptors, Caches
<1>3. /\ d.base = base /\ d.raw = ldt[i].raw /\ d.g = ldt[i].g /\ d.access = ldt[i].access
      /\ c.base = base /\ c.limit = ds_cache.limit /\ c.g = ds_cache.g
      /\ c.access = ds_cache.access
  BY <1>1 DEF Descriptors, Caches
<1>4. Change(i, d, c)
  BY DEF SetBase
<1> HIDE DEF d, c
<1>5. ASSUME ds = i, "now" \notin strayed PROVE Follows(c, d)
  <2>1. Follows(ds_cache, ldt[i])
    BY <1>5, Numbers DEF ServicesInv, CachesKept
  <2>2. Effective(d) = Effective(ldt[i])
    BY <1>3 DEF Effective
  <2> QED
    BY <1>3, <2>1, <2>2 DEF Follows
<1> QED
  BY <1>2, <1>4, <1>5, ChangeKeeps

LEMMA SetLimitKeeps ==
    ASSUME ServicesInv, NEW i \in Entries, NEW limit \in Limits, SetLimit(i, limit)
    PROVE  ServicesInv'
<1> DEFINE large == limit > RawMax
           d == [ldt[i] EXCEPT !.g = large,
                               !.raw = IF large THEN limit \div LimitPage ELSE limit]
           c == [ds_cache EXCEPT !.limit = limit, !.g = large]
<1>1. limit \in Nat /\ ldt[i] \in Descriptors /\ ds_cache \in Caches /\ large \in BOOLEAN
  BY Numbers DEF ServicesInv, ServicesType
<1>2. limit \div LimitPage \in Nat
  BY <1>1, WholePages DEF Pages
<1>3. d \in Descriptors /\ c \in Caches
  BY <1>1, <1>2 DEF Descriptors, Caches
<1>4. /\ d.base = ldt[i].base /\ d.g = large /\ d.access = ldt[i].access
      /\ d.raw = IF large THEN limit \div LimitPage ELSE limit
      /\ c.base = ds_cache.base /\ c.limit = limit /\ c.g = large
      /\ c.access = ds_cache.access
  BY <1>1 DEF Descriptors, Caches
<1>5. Change(i, d, c)
  BY DEF SetLimit
<1>6. Effective(d) - limit \in 0 .. LimitPage - 1
  <2>1. CASE large
    BY <1>1, <1>4, <2>1, WholePages DEF Effective, Pages
  <2>2. CASE ~ large
    <3>1. ~ d.g /\ d.raw = limit
      BY <1>4, <2>2
    <3> HIDE DEF d, c, large
    <3>2. Effective(d) = limit
      BY <3>1 DEF Effective
    <3> QED
      BY <1>1, <3>2, Numbers
  <2> QED
    BY <2>1, <2>2
<1> HIDE DEF d, c, large
<1>7. ASSUME ds = i, "now" \notin strayed PROVE Follows(c, d)
  <2>1. ds_cache.base = ldt[i].base /\ ds_cache.access = ldt[i].access
    BY <1>7, Numbers DEF ServicesInv, CachesKept, Follows
  <2> QED
    BY <1>4, <1>6, <2>1 DEF Follows
<1> QED
  BY <1>3, <1>5, <1>7, ChangeKeeps

LEMMA SetRightsKeeps ==
    ASSUME ServicesInv, NEW i \in Entries, NEW r \in Rights, SetRights(i, r[1], r[2])
    PROVE  ServicesInv'
<1> DEFINE d == [ldt[i] EXCEPT !.access = r[1], !.g = r[2]]
<1>1. r[1] \in Access /\ r[2] \in BOOLEAN /\ ldt[i] \in Descriptors
  BY ServicesAssumption DEF ServicesInv, ServicesType, Access
<1>2. d \in Descriptors
  BY <1>1 DEF Descriptors
<1>3. Change(i, d, Parsed(d))
  BY DEF SetRights
<1> HIDE DEF d
<1> QED
  BY <1>2, <1>3, ParsedFollows, ChangeKeeps

LEMMA SetDescriptorKeeps ==
    ASSUME ServicesInv, NEW i \in Entries, NEW j \in Entries, SetDescriptor(i, j)
    PROVE  ServicesInv'
<1>1. ldt[j] \in Descriptors /\ Change(i, ldt[j], Parsed(ldt[j]))
  BY DEF ServicesInv, ServicesType, SetDescriptor
<1> QED
  BY <1>1, ParsedFollows, ChangeKeeps

-----------------------------------------------------------------------------
\* MOV DS.
LEMMA LoadDsKeeps ==
    ASSUME ServicesInv, NEW i \in {0} \cup Entries, LoadDs(i)
    PROVE  ServicesInv'
<1>1. /\ i # 0 => ldt[i].access # "none"
      /\ ds' = i /\ ds_cache' = IF i = 0 THEN NoCache ELSE Parsed(ldt[i])
      /\ strayed' = strayed \ {"now"}
      /\ UNCHANGED <<tables, maps, exceptions>>
  BY DEF LoadDs
<1>2. NoCache \in Caches
  BY DEF NoCache, Caches, Access
<1>3. ASSUME i # 0
      PROVE  i \in Entries /\ held[i] # "free" /\ Parsed(ldt[i]) \in Caches
             /\ Follows(Parsed(ldt[i]), ldt[i])
  <2>1. i \in Entries /\ ldt[i] \in Descriptors
    BY <1>3 DEF ServicesInv, ServicesType
  <2>2. held[i] # "free"
    BY <1>1, <1>3, <2>1 DEF ServicesInv, TablesKept
  <2> QED
    BY <2>1, <2>2, ParsedFollows
<1>4. TablesKept' /\ OneEntryEach' /\ SegmentsMapped'
  <2>1. TablesKept'
    BY <1>1 DEF ServicesInv, TablesKept, Covers, tables, maps
  <2> QED
    BY <1>1, <2>1 DEF ServicesInv, OneEntryEach, SegmentsMapped, FreeEntries, tables, maps
<1>5. CachesKept'
  <2>1. Loaded(ds)' /\ (ds' # 0 => Follows(ds_cache, ldt[ds])')
    BY <1>1, <1>3 DEF Loaded, tables
  <2>2. handling' > 0 =>
            /\ Loaded(exc_save.ds)'
            /\ exc_save'.ds # 0 /\ "saved" \notin strayed' =>
                  Follows(exc_save.cache, ldt[exc_save.ds])'
    BY <1>1 DEF ServicesInv, CachesKept, Loaded, tables, exceptions
  <2> QED
    BY <2>1, <2>2 DEF CachesKept
<1>6. ds_cache' \in Caches
  BY <1>1, <1>2, <1>3
<1>7. ServicesType'
  BY <1>1, <1>6 DEF ServicesInv, ServicesType, tables, maps, exceptions
<1> QED
  BY <1>4, <1>5, <1>7 DEF ServicesInv

\* The registers of the program that an exception interrupts are as it left them
\* when the handler has returned.
LEMMA TablesStay ==
    ASSUME ServicesInv, UNCHANGED <<tables, maps>>
    PROVE  TablesKept' /\ OneEntryEach' /\ SegmentsMapped'
<1>1. TablesKept'
  BY DEF ServicesInv, TablesKept, Covers, tables, maps
<1> QED
  BY <1>1 DEF ServicesInv, OneEntryEach, SegmentsMapped, FreeEntries, tables, maps

LEMMA ExceptionKeeps == ServicesInv /\ Exception => ServicesInv'
<1> SUFFICES ASSUME ServicesInv, Exception PROVE ServicesInv'
  OBVIOUS
<1>1. /\ exc_save' = [ds |-> ds, cache |-> ds_cache] /\ handling' = handling + 1
      /\ strayed' = IF "now" \in strayed THEN {"now", "saved"} ELSE {}
      /\ UNCHANGED <<tables, maps, ds, ds_cache>>
  BY DEF Exception
<1>2. exc_save'.ds = ds /\ exc_save'.cache = ds_cache
  BY <1>1
<1>3. CachesKept'
  <2>1. Loaded(ds)' /\ Loaded(exc_save.ds)'
    BY <1>1, <1>2 DEF ServicesInv, CachesKept, Loaded, tables
  <2>2. ASSUME ds' # 0, "now" \notin strayed' PROVE Follows(ds_cache, ldt[ds])'
    BY <1>1, <2>2 DEF ServicesInv, CachesKept, tables
  <2>3. ASSUME exc_save'.ds # 0, "saved" \notin strayed'
        PROVE  Follows(exc_save.cache, ldt[exc_save.ds])'
    <3>1. "now" \notin strayed
      BY <1>1, <2>3
    <3> QED
      BY <1>1, <1>2, <2>3, <3>1 DEF ServicesInv, CachesKept, tables
  <2> QED
    BY <2>1, <2>2, <2>3 DEF CachesKept
<1>4. ServicesType'
  BY <1>1 DEF ServicesInv, ServicesType, tables, maps
<1> QED
  BY <1>1, <1>3, <1>4, TablesStay DEF ServicesInv

LEMMA ReturnKeeps == ServicesInv /\ ExceptionReturns => ServicesInv'
<1> SUFFICES ASSUME ServicesInv, ExceptionReturns PROVE ServicesInv'
  OBVIOUS
<1>1. /\ handling > 0 /\ ds' = exc_save.ds /\ ds_cache' = exc_save.cache
      /\ handling' = handling - 1
      /\ strayed' = IF "saved" \in strayed THEN {"now", "saved"} ELSE {}
      /\ exc_save' = IF handling = 1 THEN NoSave ELSE exc_save
      /\ UNCHANGED <<tables, maps>>
  BY DEF ExceptionReturns
<1>2. exc_save.ds \in {0} \cup Entries /\ exc_save.cache \in Caches /\ handling' \in Nat
  BY <1>1 DEF ServicesInv, ServicesType
<1>3. handling' > 0 => exc_save' = exc_save
  BY <1>1 DEF ServicesInv, ServicesType
<1>4. CachesKept'
  <2>1. Loaded(exc_save.ds)
        /\ (exc_save.ds # 0 /\ "saved" \notin strayed =>
                Follows(exc_save.cache, ldt[exc_save.ds]))
    BY <1>1 DEF ServicesInv, CachesKept
  <2>2. Loaded(ds)' /\ (handling' > 0 => Loaded(exc_save.ds)')
    BY <1>1, <1>3, <2>1 DEF Loaded, tables
  <2>3. ASSUME ds' # 0, "now" \notin strayed' PROVE Follows(ds_cache, ldt[ds])'
    BY <1>1, <2>1, <2>3 DEF tables
  <2>4. ASSUME handling' > 0, exc_save'.ds # 0, "saved" \notin strayed'
        PROVE  Follows(exc_save.cache, ldt[exc_save.ds])'
    BY <1>1, <1>3, <2>1, <2>4 DEF tables
  <2> QED
    BY <2>2, <2>3, <2>4 DEF CachesKept
<1>5. exc_save' \in [ds : {0} \cup Entries, cache : Caches]
  <2>1. NoSave \in [ds : {0} \cup Entries, cache : Caches]
    BY DEF NoSave, NoCache, Caches, Access
  <2> QED
    BY <1>1, <2>1 DEF ServicesInv, ServicesType
<1>6. ServicesType'
  BY <1>1, <1>2, <1>5 DEF ServicesInv, ServicesType, tables, maps
<1> QED
  BY <1>1, <1>4, <1>6, TablesStay DEF ServicesInv

-----------------------------------------------------------------------------
LEMMA ServicesBegin == ServicesInit => ServicesInv
<1> SUFFICES ASSUME ServicesInit PROVE ServicesInv
  OBVIOUS
<1> DEFINE flat == Descriptor(0, RawMax, "data")
<1>1. flat \in Descriptors /\ flat.access = "data"
  <2>1. flat \in Descriptors
    BY Numbers, NewDescriptor DEF Access
  <2> QED
    BY <2>1 DEF Descriptor
<1>2. NoDescriptor \in Descriptors /\ NoDescriptor.access = "none"
  BY DEF NoDescriptor, Descriptors, Access
<1>3. Unused \in MapEntries /\ ~ Unused.used
  BY DEF Unused, MapEntries
<1>4. /\ ldt = [i \in Entries |-> IF i = 1 THEN flat ELSE NoDescriptor]
      /\ held = [i \in Entries |-> IF i = 1 THEN "client" ELSE "free"]
      /\ ldt_alloc = {1} /\ ds = 1 /\ ds_cache = Parsed(ldt[1])
      /\ seg_map = [k \in 1 .. SegMapMax |-> Unused]
      /\ dos_blocks = [k \in 1 .. DosMax |-> Unused]
      /\ exc_save = NoSave /\ handling = 0
  BY DEF ServicesInit
<1> HIDE DEF flat
<1>5. ldt \in [Entries -> Descriptors] /\ held \in [Entries -> Uses] /\ 1 \in Entries
  BY <1>1, <1>2, <1>4, Numbers DEF Uses
<1>6. ldt[1] = flat /\ held[1] = "client"
  BY <1>4, <1>5
<1>7. Parsed(ldt[1]) \in Caches /\ Follows(Parsed(ldt[1]), ldt[1])
  BY <1>1, <1>6, ParsedFollows
<1>8. NoSave \in [ds : {0} \cup Entries, cache : Caches]
  BY DEF NoSave, NoCache, Caches, Access
<1>9. ServicesType
  BY <1>3, <1>4, <1>5, <1>7, <1>8 DEF ServicesType
<1>10. TablesKept
  BY <1>2, <1>3, <1>4, <1>5 DEF TablesKept
<1>11. OneEntryEach /\ SegmentsMapped
  BY <1>3, <1>4 DEF OneEntryEach, SegmentsMapped
<1>12. CachesKept
  BY <1>4, <1>5, <1>6, <1>7 DEF CachesKept, Loaded
<1> QED
  BY <1>9, <1>10, <1>11, <1>12 DEF ServicesInv

LEMMA ServicesStep == ServicesInv /\ [ServicesNext]_services => ServicesInv'
<1> SUFFICES ASSUME ServicesInv, [ServicesNext]_services PROVE ServicesInv'
  OBVIOUS
<1>1. ASSUME NEW count \in 0 .. LdtMax, AllocateDescriptors(count) PROVE ServicesInv'
  BY <1>1, AllocateKeeps
<1>2. ASSUME NEW seg \in Segments, SegmentToDescriptor(seg) PROVE ServicesInv'
  BY <1>2, SegmentKeeps
<1>3. ASSUME NEW seg \in DosSegments, NEW n \in Sizes, AllocateDos(seg, n) PROVE ServicesInv'
  BY <1>3, AllocateDosKeeps
<1>4. ASSUME NEW k \in 1 .. DosMax, FreeDos(k) PROVE ServicesInv'
  BY <1>4, FreeDosKeeps
<1>5. ASSUME NEW k \in 1 .. DosMax, NEW n \in Sizes, ResizeDos(k, n) PROVE ServicesInv'
  BY <1>5, ResizeDosKeeps
<1>6. ASSUME NEW i \in Entries, FreeDescriptor(i) PROVE ServicesInv'
  BY <1>6, FreeDescriptorKeeps
<1>7. ASSUME NEW i \in Entries, CreateAlias(i) PROVE ServicesInv'
  BY <1>7, AliasKeeps
<1>8. ASSUME NEW i \in Entries, NEW base \in Bases, SetBase(i, base) PROVE ServicesInv'
  BY <1>8, SetBaseKeeps
<1>9. ASSUME NEW i \in Entries, NEW limit \in Limits, SetLimit(i, limit) PROVE ServicesInv'
  BY <1>9, SetLimitKeeps
<1>10. ASSUME NEW i \in Entries, NEW r \in Rights, SetRights(i, r[1], r[2]) PROVE ServicesInv'
  BY <1>10, SetRightsKeeps
<1>11. ASSUME NEW i \in Entries, NEW j \in Entries, SetDescriptor(i, j) PROVE ServicesInv'
  BY <1>11, SetDescriptorKeeps
<1>12. ASSUME NEW i \in {0} \cup Entries, LoadDs(i) PROVE ServicesInv'
  BY <1>12, LoadDsKeeps
<1>13. CASE Exception
  BY <1>13, ExceptionKeeps
<1>14. CASE ExceptionReturns
  BY <1>14, ReturnKeeps
<1>15. CASE UNCHANGED services
  <2>1. UNCHANGED <<tables, maps>> /\ UNCHANGED <<segment, exceptions>>
    BY <1>15 DEF services
  <2>2. ServicesType'
    BY <2>1 DEF ServicesInv, ServicesType, tables, maps, segment, exceptions
  <2>3. CachesKept'
    BY <2>1 DEF ServicesInv, CachesKept, Loaded, tables, segment, exceptions
  <2> QED
    BY <2>1, <2>2, <2>3, TablesStay DEF ServicesInv
<1> QED
  BY <1>1, <1>2, <1>3, <1>4, <1>5, <1>6, <1>7, <1>8, <1>9, <1>10, <1>11, <1>12, <1>13,
     <1>14, <1>15 DEF ServicesNext

-----------------------------------------------------------------------------
\* As many things as indices, when every index has one of its own.
LEMMA OneForEach ==
    ASSUME NEW n \in Nat, NEW K \in SUBSET (1 .. n), NEW T, NEW f \in [K -> T],
           \A k, l \in K : k # l => f[k] # f[l],
           \A t \in T : \E k \in K : f[k] = t
    PROVE  Cardinality(T) = Cardinality(K)
<1>1. IsFiniteSet(K)
  <2>1. IsFiniteSet(1 .. n)
    BY FS_Interval
  <2> QED
    BY <2>1, FS_Subset
<1>2. f \in Bijection(K, T)
  <2>1. \A k, l \in K : f[k] = f[l] => k = l
    OBVIOUS
  <2> QED
    BY <2>1, Fun_IsBij
<1>3. ExistsBijection(K, T)
  BY <1>2 DEF ExistsBijection
<1> QED
  BY <1>1, <1>3, FS_Bijection

LEMMA InvMeansAgree == ServicesInv => SelectorsAgree
<1> SUFFICES ASSUME ServicesInv PROVE SelectorsAgree
  OBVIOUS
<1>1. /\ DOMAIN seg_map = 1 .. SegMapMax /\ DOMAIN dos_blocks = 1 .. DosMax
      /\ SegMapMax \in Nat /\ DosMax \in Nat
  BY Numbers DEF ServicesInv, ServicesType
<1>2. ldt_alloc = Entries \ HeldFor("free")
  BY DEF ServicesInv, TablesKept, HeldFor
<1>3. \A m \in Used(seg_map) : m.sel \in HeldFor("segment") /\ Covers(m.sel, m.seg)
  BY <1>1 DEF ServicesInv, TablesKept, HeldFor, Used
<1>4. \A b \in Used(dos_blocks) :
          b.sel \in HeldFor("dos") /\ Covers(b.sel, b.seg) /\ b.seg \in arena
  BY <1>1 DEF ServicesInv, TablesKept, HeldFor, Used
<1>5. Cardinality({b.sel : b \in Used(dos_blocks)}) =
          Cardinality({k \in DOMAIN dos_blocks : dos_blocks[k].used})
  <2> DEFINE K == {k \in DOMAIN dos_blocks : dos_blocks[k].used}
             T == {b.sel : b \in Used(dos_blocks)}
             f == [k \in K |-> dos_blocks[k].sel]
  <2>1. K \in SUBSET (1 .. DosMax)
    BY <1>1
  <2>2. \A k \in K : dos_blocks[k] \in Used(dos_blocks)
    BY DEF Used
  <2>3. f \in [K -> T]
    BY <2>2
  <2>4. \A k, l \in K : k # l => f[k] # f[l]
    BY <2>1 DEF ServicesInv, OneEntryEach
  <2>5. \A t \in T : \E k \in K : f[k] = t
    BY DEF Used
  <2> HIDE DEF K, T, f
  <2>6. Cardinality(T) = Cardinality(K)
    BY <1>1, <2>1, <2>3, <2>4, <2>5, OneForEach
  <2> QED
    BY <2>6 DEF K, T
<1>6. ASSUME FreeEntries(seg_map) # {}
      PROVE  Cardinality(HeldFor("segment")) = Cardinality(Used(seg_map))
  <2> DEFINE K == {k \in DOMAIN seg_map : seg_map[k].used}
             f == [k \in K |-> seg_map[k].sel]
             g == [k \in K |-> seg_map[k]]
  <2>1. K \in SUBSET (1 .. SegMapMax)
    BY <1>1
  <2>2. \A k, l \in K : k # l => seg_map[k].sel # seg_map[l].sel
    BY <2>1 DEF ServicesInv, OneEntryEach
  <2>3. Cardinality(HeldFor("segment")) = Cardinality(K)
    <3>1. \A k \in K : seg_map[k].sel \in HeldFor("segment")
      BY <2>1 DEF ServicesInv, TablesKept, HeldFor
    <3>2. f \in [K -> HeldFor("segment")] /\ (\A k, l \in K : k # l => f[k] # f[l])
      BY <2>2, <3>1
    <3>3. \A t \in HeldFor("segment") : \E k \in K : f[k] = t
      BY <1>1, <1>6 DEF ServicesInv, SegmentsMapped, HeldFor
    <3> HIDE DEF K, f
    <3> QED
      BY <1>1, <2>1, <3>2, <3>3, OneForEach
  <2>4. Cardinality(Used(seg_map)) = Cardinality(K)
    <3>1. g \in [K -> Used(seg_map)] /\ (\A t \in Used(seg_map) : \E k \in K : g[k] = t)
      BY DEF Used
    <3>2. \A k, l \in K : k # l => g[k] # g[l]
      BY <2>2
    <3> HIDE DEF K, g
    <3> QED
      BY <1>1, <2>1, <3>1, <3>2, OneForEach
  <2> QED
    BY <2>3, <2>4
<1>7. CachesFollow
  <2> SUFFICES ASSUME ds # 0, "now" \notin strayed
               PROVE  /\ [ds_cache EXCEPT !.limit = Effective(ldt[ds])] = Parsed(ldt[ds])
                      /\ Effective(ldt[ds]) - ds_cache.limit \in 0 .. (LimitPage - 1)
    BY DEF CachesFollow
  <2>1. ds_cache \in Caches /\ Follows(ds_cache, ldt[ds])
    BY DEF ServicesInv, ServicesType, CachesKept
  <2> QED
    BY <2>1 DEF Caches, Follows, Parsed
<1>8. SelectorsHaveOneUse
  BY <1>2, <1>3, <1>4, <1>5, <1>6 DEF SelectorsHaveOneUse
<1> QED
  BY <1>7, <1>8 DEF SelectorsAgree

\* Descriptors, selectors and segment registers agree, however large the tables
\* of the host and whatever the client asks of them.
THEOREM SelectorsStayTrue == ServicesSpec => []SelectorsAgree
<1>1. ServicesInv /\ [ServicesNext]_services => ServicesInv'
  BY ServicesStep
<1>2. ServicesSpec => []ServicesInv
  BY <1>1, ServicesBegin, PTL DEF ServicesSpec
<1> QED
  BY <1>2, InvMeansAgree, PTL

(***************************************************************************)
(* Extended memory: XMS blocks and the memory of DPMI clients.             *)
(***************************************************************************)
\* No request is so large that the end of its block, computed in 32 bits,
\* comes round to a low address.
NoWrap == \A size \in DpmiSizes \cup {1} : DpmiStart + MemSize + Page + size < Word

-----------------------------------------------------------------------------
\* XMS blocks lie above the HMA; those that were not grown share no memory.
XmsInv == /\ \A h \in Allocated(xms) : XmsStart <= xms[h].base
          /\ \A g, h \in Ungrown : g # h => Apart(xms[g], xms[h])

\* What the cursor and the handle counter are worth: nothing live is at or
\* beyond them.
IsPlaced(b) == /\ DpmiStart <= b.base /\ 0 < b.size
               /\ End(b) <= HostBase /\ End(b) <= next_mem_base
               /\ b.handle \in 1 .. next_handle - 1

BlocksApart == \A s, t \in Allocated(mem_blocks) :
                 s # t => /\ Apart(mem_blocks[s], mem_blocks[t])
                          /\ mem_blocks[s].handle # mem_blocks[t].handle

DpmiInv == active => /\ DpmiStart <= next_mem_base
                     /\ next_mem_base <= DpmiStart + MemSize
                     /\ \A s \in Allocated(mem_blocks) : IsPlaced(mem_blocks[s])
                     /\ BlocksApart

IInv == TypeOK /\ XmsInv /\ DpmiInv

-----------------------------------------------------------------------------
(* The constants, and the arithmetic of pages. *)

LEMMA Constants ==
    /\ MemSize \in Nat /\ XmsStart \in Nat /\ DpmiStart \in Nat /\ HostArea \in Nat
    /\ XmsHandles \in Nat /\ MemBlocks \in Nat /\ MaxHandle \in Nat
    /\ Page \in Nat /\ Page > 0 /\ Word \in Nat /\ Word > 0
    /\ HostArea <= MemSize
BY MemoryAssumption

LEMMA ModRange == ASSUME NEW c \in Nat, c > 0, NEW a \in Nat
                  PROVE  a % c \in 0 .. c - 1
BY SMT

LEMMA ModSmall == ASSUME NEW c \in Nat, NEW a \in Nat, a < c PROVE a % c = a
BY SMT

LEMMA ModBelow == ASSUME NEW c \in Nat, c > 0, NEW a \in Nat PROVE a % c <= a
<1>1. CASE a < c
  BY <1>1, ModSmall
<1>2. CASE a >= c
  BY <1>2, ModRange
<1> QED
  BY <1>1, <1>2

LEMMA PageUpRange == ASSUME NEW a \in Nat
                     PROVE  PageUp(a) \in Nat /\ a <= PageUp(a) /\ PageUp(a) < a + Page
<1>1. a % Page \in 0 .. Page - 1
  BY Constants, ModRange
<1> QED
  BY <1>1, Constants DEF PageUp

LEMMA HostBaseRange == HostBase \in Nat /\ HostBase <= MemSize
<1>1. MemSize - HostArea \in Nat
  BY Constants
<1>2. /\ (MemSize - HostArea) % Page \in 0 .. Page - 1
      /\ (MemSize - HostArea) % Page <= MemSize - HostArea
  BY <1>1, Constants, ModRange, ModBelow
<1> QED
  BY <1>1, <1>2, Constants DEF HostBase, PageDown

\* A block that ends below the host's tables goes where the arithmetic says.
LEMMA PlaceOfNew ==
    ASSUME NoWrap, NEW size \in DpmiSizes,
           next_mem_base \in Nat, DpmiStart <= next_mem_base,
           next_mem_base <= DpmiStart + MemSize
    PROVE  /\ Requested(size) \in Nat /\ 0 < Requested(size)
           /\ Place \in Nat /\ next_mem_base <= Place
           /\ EndOfNew(Requested(size)) = Place + Requested(size)
<1>1. Requested(size) \in Nat /\ 0 < Requested(size)
  BY MemoryAssumption DEF Requested
<1>2. DpmiStart + MemSize + Page + Requested(size) < Word
  BY DEF NoWrap, Requested
<1>3. /\ PageUp(next_mem_base) \in Nat
      /\ next_mem_base <= PageUp(next_mem_base)
      /\ PageUp(next_mem_base) < next_mem_base + Page
  BY PageUpRange
<1>4. Place = PageUp(next_mem_base)
  BY <1>1, <1>2, <1>3, Constants, ModSmall DEF Place
<1>5. Place + Requested(size) \in Nat /\ Place + Requested(size) < Word
  BY <1>1, <1>2, <1>3, <1>4, Constants
<1>6. EndOfNew(Requested(size)) = Place + Requested(size)
  BY <1>5, Constants, ModSmall DEF EndOfNew
<1> QED
  BY <1>1, <1>3, <1>4, <1>6

-----------------------------------------------------------------------------
(* Types. *)

XmsBlock == [allocated : BOOLEAN, base : Nat, size : Nat]
MemBlock == [allocated : BOOLEAN, handle : Nat, base : Nat, size : Nat]

LEMMA EndsAreNat == ASSUME TypeOK PROVE Ends \subseteq Nat
BY Constants DEF TypeOK, Ends, Allocated, End

LEMMA PlaceIsNat == ASSUME TypeOK PROVE Place \in Nat
<1>1. PageUp(next_mem_base) \in Nat
  BY PageUpRange DEF TypeOK
<1> QED
  BY <1>1, Constants, ModRange DEF Place

LEMMA EndIsNat == ASSUME TypeOK, NEW size \in DpmiSizes
                  PROVE  Requested(size) \in Nat /\ EndOfNew(Requested(size)) \in Nat
<1>1. Requested(size) \in Nat
  BY MemoryAssumption DEF Requested
<1>2. Place + Requested(size) \in Nat
  BY <1>1, PlaceIsNat
<1> QED
  BY <1>1, <1>2, Constants, ModRange DEF EndOfNew

LEMMA XmsCallType == ASSUME TypeOK, XmsCall PROVE TypeOK'
<1> USE DEF TypeOK, xmsVars, dpmiVars, Allocated
<1>1. ASSUME NEW size \in XmsSizes, XmsAllocate(size) PROVE TypeOK'
  <2>1. PICK h \in Handles, a \in Ends :
           /\ ~ xms[h].allocated
           /\ a + size <= MemSize
           /\ xms' = [xms EXCEPT ![h] = [allocated |-> TRUE, base |-> a, size |-> size]]
    BY <1>1 DEF XmsAllocate, IsFirstFree
  <2>2. a \in Nat /\ size \in Nat /\ MemSize \in Nat
    BY EndsAreNat, MemoryAssumption
  <2>3. [allocated |-> TRUE, base |-> a, size |-> size] \in XmsBlock
    BY <2>2 DEF XmsBlock
  <2>4. xms' \in [Handles -> XmsBlock]
    BY <2>1, <2>3 DEF XmsBlock
  <2>5. \A g \in Handles : InMemory(xms'[g])
    BY <2>1, <2>2 DEF InMemory, End
  <2> QED
    BY <1>1, <2>1, <2>4, <2>5 DEF XmsAllocate, XmsBlock, InMemory, End
<1>2. ASSUME NEW h \in Handles, XmsFree(h) PROVE TypeOK'
  <2>1. NoXmsBlock \in XmsBlock /\ InMemory(NoXmsBlock)
    BY Constants DEF NoXmsBlock, XmsBlock, InMemory, End
  <2>2. xms' \in [Handles -> XmsBlock] /\ \A g \in Handles : InMemory(xms'[g])
    BY <1>2, <2>1 DEF XmsFree, XmsBlock, InMemory, End
  <2>3. grown' \subseteq Allocated(xms)'
    BY <1>2 DEF XmsFree
  <2> QED
    BY <1>2, <2>2, <2>3 DEF XmsFree, XmsBlock
<1>3. ASSUME NEW h \in Handles, NEW size \in XmsSizes, XmsReallocate(h, size) PROVE TypeOK'
  <2>1. size \in Nat
    BY MemoryAssumption
  <2>2. xms' \in [Handles -> XmsBlock]
    BY <1>3, <2>1 DEF XmsReallocate, XmsBlock
  <2>3. \A g \in Handles : InMemory(xms'[g])
    BY <1>3, <2>1, Constants DEF XmsReallocate, InMemory, End
  <2>4. grown' \subseteq Allocated(xms)'
    BY <1>3 DEF XmsReallocate
  <2> QED
    BY <1>3, <2>2, <2>3, <2>4 DEF XmsReallocate, XmsBlock
<1> QED
  BY <1>1, <1>2, <1>3 DEF XmsCall

LEMMA DpmiCallType == ASSUME TypeOK, DpmiCall PROVE TypeOK'
<1> USE DEF TypeOK, xmsVars, dpmiVars, Allocated, InMemory, End
<1>1. CASE ModeSwitch
  <2>1. NoMemBlock \in MemBlock
    BY DEF NoMemBlock, MemBlock
  <2> QED
    BY <1>1, <2>1, Constants DEF ModeSwitch, MemBlock
<1>2. CASE Terminate
  BY <1>2 DEF Terminate
<1>3. ASSUME NEW size \in DpmiSizes, Allocate(Requested(size)) PROVE TypeOK'
  <2>1. Requested(size) \in Nat /\ EndOfNew(Requested(size)) \in Nat /\ Place \in Nat
    BY EndIsNat, PlaceIsNat
  <2>2. [allocated |-> TRUE, handle |-> next_handle, base |-> Place,
         size |-> Requested(size)] \in MemBlock
    BY <2>1 DEF MemBlock
  <2>3. mem_blocks' \in [Slots -> MemBlock]
    BY <1>3, <2>2 DEF Allocate, MemBlock
  <2>4. next_handle' \in 1 .. MaxHandle + 1
    BY <1>3, Constants DEF Allocate
  <2> QED
    BY <1>3, <2>1, <2>3, <2>4 DEF Allocate, MemBlock
<1>4. ASSUME NEW handle \in 1 .. MaxHandle, Free(handle) PROVE TypeOK'
  BY <1>4, ZenonT(60) DEF Free
<1>5. ASSUME NEW handle \in 1 .. MaxHandle, NEW size \in DpmiSizes,
             Resize(handle, Requested(size))
      PROVE  TypeOK'
  <2>1. Requested(size) \in Nat /\ EndOfNew(Requested(size)) \in Nat /\ Place \in Nat
    BY EndIsNat, PlaceIsNat
  <2>2. PICK s \in Slots : Shrink(s, Requested(size)) \/ Grow(s, Requested(size))
    BY <1>5 DEF Resize
  <2>3. mem_blocks' \in [Slots -> MemBlock] /\ next_mem_base' \in Nat
    BY <2>1, <2>2 DEF Shrink, Grow, MemBlock
  <2> QED
    BY <1>5, <2>3 DEF Resize, MemBlock
<1> QED
  BY <1>1, <1>2, <1>3, <1>4, <1>5 DEF DpmiCall

LEMMA InitType == Init => TypeOK
<1> SUFFICES ASSUME Init PROVE TypeOK
  OBVIOUS
<1>1. \A h \in Handles : InMemory(xms[h])
  BY Constants DEF Init, NoXmsBlock, InMemory, End
<1>2. NoXmsBlock \in XmsBlock /\ NoMemBlock \in MemBlock
  BY DEF NoXmsBlock, NoMemBlock, XmsBlock, MemBlock
<1>3. xms \in [Handles -> XmsBlock] /\ mem_blocks \in [Slots -> MemBlock]
  BY <1>2 DEF Init
<1>4. next_handle \in 1 .. MaxHandle + 1
  BY Constants DEF Init
<1> QED
  BY <1>1, <1>3, <1>4 DEF Init, TypeOK, XmsBlock, MemBlock

LEMMA NextType == TypeOK /\ [Next]_vars => TypeOK'
<1>1. ASSUME TypeOK, UNCHANGED vars PROVE TypeOK'
  BY <1>1 DEF TypeOK, vars, Allocated, InMemory, End
<1> QED
  BY <1>1, XmsCallType, DpmiCallType DEF Next

\* The tables and the cursor have their types and XMS blocks lie in memory
\* (xms_dispatch, dpmi_int31h), whatever the sizes.
THEOREM TypeCorrect == Spec => []TypeOK
BY InitType, NextType, PTL DEF Spec

-----------------------------------------------------------------------------
(* The XMS driver. *)

\* A new block goes above all others; a block that shrinks stays apart, and
\* one that grows is not spoken of any more.
LEMMA XmsCallInv == ASSUME TypeOK, XmsInv, XmsCall PROVE XmsInv'
<1>0. /\ xms \in [Handles -> XmsBlock]
      /\ \A h \in Handles : xms[h].base \in Nat /\ xms[h].size \in Nat
  BY DEF TypeOK, XmsBlock
<1>1. ASSUME NEW size \in XmsSizes, XmsAllocate(size) PROVE XmsInv'
  <2>1. PICK h \in Handles, a \in Ends :
           /\ ~ xms[h].allocated /\ IsHighest(a)
           /\ xms' = [xms EXCEPT ![h] = [allocated |-> TRUE, base |-> a, size |-> size]]
    BY <1>1 DEF XmsAllocate, IsFirstFree
  <2>2. a \in Nat /\ size \in Nat /\ XmsStart \in Nat /\ XmsStart <= a
    BY <2>1, EndsAreNat, MemoryAssumption DEF IsHighest, Ends
  <2>3. \A g \in Allocated(xms) : g # h /\ End(xms[g]) <= a
    BY <2>1 DEF IsHighest, Ends, Allocated
  <2>4. /\ xms'[h].base = a /\ xms'[h].size = size
        /\ \A g \in Handles \ {h} : xms'[g] = xms[g]
        /\ Allocated(xms)' \subseteq Allocated(xms) \cup {h}
        /\ Allocated(xms) \subseteq Handles
    BY <2>1, <1>0 DEF Allocated
  <2>5. \A g \in Allocated(xms)' : XmsStart <= xms'[g].base
    BY <2>2, <2>3, <2>4 DEF XmsInv
  <2>6. ASSUME NEW f \in Ungrown', NEW g \in Ungrown', f # g
        PROVE  Apart(xms'[f], xms'[g])
    <3>1. grown' = grown
      BY <1>1 DEF XmsAllocate
    <3>2. CASE f = h
      BY <3>2, <2>2, <2>3, <2>4, <2>6, <1>0 DEF Apart, End, Ungrown
    <3>3. CASE g = h
      BY <3>3, <2>2, <2>3, <2>4, <2>6, <1>0 DEF Apart, End, Ungrown
    <3>4. CASE f # h /\ g # h
      BY <3>4, <3>1, <2>4, <2>6 DEF XmsInv, Ungrown
    <3> QED
      BY <3>2, <3>3, <3>4
  <2> QED
    BY <2>5, <2>6 DEF XmsInv
<1>2. ASSUME NEW h \in Handles, XmsFree(h) PROVE XmsInv'
  <2>1. /\ \A g \in Handles \ {h} : xms'[g] = xms[g]
        /\ ~ xms'[h].allocated /\ grown' = grown \ {h}
        /\ DOMAIN xms' = Handles /\ DOMAIN xms = Handles
    BY <1>2, <1>0 DEF XmsFree, NoXmsBlock
  <2>2. Allocated(xms)' \subseteq Allocated(xms) \ {h} /\ Ungrown' \subseteq Ungrown \ {h}
    BY <2>1 DEF Allocated, Ungrown
  <2> QED
    BY <2>1, <2>2 DEF XmsInv, Allocated, Ungrown
<1>3. ASSUME NEW h \in Handles, NEW size \in XmsSizes, XmsReallocate(h, size) PROVE XmsInv'
  <2>1. /\ size \in Nat
        /\ xms'[h].base = xms[h].base /\ xms'[h].size = size
        /\ \A g \in Handles \ {h} : xms'[g] = xms[g]
        /\ \A g \in Handles : xms'[g].allocated = xms[g].allocated
        /\ DOMAIN xms' = Handles /\ DOMAIN xms = Handles
    BY <1>3, <1>0, MemoryAssumption DEF XmsReallocate, XmsBlock
  <2>2. Allocated(xms)' = Allocated(xms) /\ grown \subseteq grown'
    BY <1>3, <2>1 DEF Allocated, XmsReallocate
  <2>3. h \in Ungrown' => size <= xms[h].size
    BY <1>3, <1>0, <2>1 DEF XmsReallocate, Ungrown
  <2>4. Ungrown' \subseteq Ungrown /\ Ungrown \subseteq Handles
    BY <2>1, <2>2 DEF Ungrown, Allocated
  <2>5. ASSUME NEW f \in Ungrown', NEW g \in Ungrown', f # g
        PROVE  Apart(xms'[f], xms'[g])
    <3>1. Apart(xms[f], xms[g])
      BY <2>4, <2>5 DEF XmsInv
    <3>2. /\ xms'[f].base = xms[f].base /\ xms'[g].base = xms[g].base
          /\ xms'[f].size <= xms[f].size /\ xms'[g].size <= xms[g].size
          /\ xms'[f].size \in Nat /\ xms'[g].size \in Nat
      BY <1>0, <2>1, <2>3, <2>4
    <3> QED
      BY <1>0, <2>4, <3>1, <3>2 DEF Apart, End
  <2>6. \A g \in Allocated(xms)' : XmsStart <= xms'[g].base
    BY <2>1, <2>2 DEF XmsInv, Allocated
  <2> QED
    BY <2>5, <2>6 DEF XmsInv
<1> QED
  BY <1>1, <1>2, <1>3 DEF XmsCall

-----------------------------------------------------------------------------
(* The DPMI host. *)

\* What a call finds: typed blocks and a cursor beyond all of them.
LEMMA SessionFacts ==
    ASSUME TypeOK, DpmiInv, active
    PROVE  /\ next_mem_base \in Nat /\ DpmiStart <= next_mem_base
           /\ next_mem_base <= DpmiStart + MemSize
           /\ next_handle \in Nat /\ 1 <= next_handle
           /\ mem_blocks \in [Slots -> MemBlock]
           /\ Allocated(mem_blocks) \subseteq Slots
           /\ \A s \in Slots : /\ mem_blocks[s].base \in Nat
                               /\ mem_blocks[s].size \in Nat
                               /\ mem_blocks[s].handle \in Nat
           /\ \A s \in Allocated(mem_blocks) : IsPlaced(mem_blocks[s])
           /\ BlocksApart
<1>1. mem_blocks \in [Slots -> MemBlock]
  BY DEF TypeOK, MemBlock
<1>2. \A s \in Slots : mem_blocks[s] \in MemBlock
  BY <1>1
<1> QED
  BY <1>1, <1>2, Constants DEF TypeOK, DpmiInv, MemBlock, Allocated

\* A block in a place of its own: what Allocate and Grow add.
LEMMA NewPlace ==
    ASSUME NoWrap, TypeOK, DpmiInv, active, NEW size \in DpmiSizes,
           EndOfNew(Requested(size)) <= HostBase
    PROVE  /\ Place \in Nat /\ Requested(size) \in Nat /\ 0 < Requested(size)
           /\ next_mem_base <= Place
           /\ EndOfNew(Requested(size)) = Place + Requested(size)
           /\ Place + Requested(size) <= DpmiStart + MemSize
           /\ \A s \in Allocated(mem_blocks) : End(mem_blocks[s]) <= Place
<1>1. /\ Place \in Nat /\ Requested(size) \in Nat /\ 0 < Requested(size)
      /\ next_mem_base <= Place
      /\ EndOfNew(Requested(size)) = Place + Requested(size)
  BY SessionFacts, PlaceOfNew
<1>2. HostBase \in Nat /\ HostBase <= MemSize /\ DpmiStart \in Nat /\ MemSize \in Nat
  BY HostBaseRange, Constants
<1>3. ASSUME NEW s \in Allocated(mem_blocks) PROVE End(mem_blocks[s]) <= Place
  <2>1. /\ mem_blocks[s].base \in Nat /\ mem_blocks[s].size \in Nat
        /\ End(mem_blocks[s]) <= next_mem_base /\ next_mem_base \in Nat
    BY SessionFacts DEF IsPlaced
  <2> QED
    BY <1>1, <2>1 DEF End
<1> QED
  BY <1>1, <1>2, <1>3

LEMMA AllocateInv ==
    ASSUME NoWrap, TypeOK, DpmiInv, NEW size \in DpmiSizes, Allocate(Requested(size))
    PROVE  DpmiInv'
<1> DEFINE new == [allocated |-> TRUE, handle |-> next_handle, base |-> Place,
                   size |-> Requested(size)]
<1>1. PICK s \in Slots : /\ ~ mem_blocks[s].allocated
                         /\ mem_blocks' = [mem_blocks EXCEPT ![s] = new]
  BY DEF Allocate, IsFirstFree
<1>2. active /\ active' = active
  BY DEF Allocate
<1>3. /\ Place \in Nat /\ Requested(size) \in Nat /\ 0 < Requested(size)
      /\ next_mem_base <= Place
      /\ next_mem_base' = Place + Requested(size)
      /\ next_mem_base' <= DpmiStart + MemSize /\ next_mem_base' <= HostBase
      /\ next_handle' = next_handle + 1
      /\ \A t \in Allocated(mem_blocks) : End(mem_blocks[t]) <= Place
  BY <1>2, NewPlace DEF Allocate
<1>4. /\ next_mem_base \in Nat /\ DpmiStart <= next_mem_base
      /\ next_handle \in Nat /\ 1 <= next_handle /\ DpmiStart \in Nat /\ HostBase \in Nat
  BY <1>2, SessionFacts, Constants, HostBaseRange
<1>5. /\ mem_blocks'[s] = new
      /\ \A t \in Slots \ {s} : mem_blocks'[t] = mem_blocks[t]
      /\ Allocated(mem_blocks)' \subseteq Allocated(mem_blocks) \cup {s}
      /\ s \notin Allocated(mem_blocks)
      /\ Allocated(mem_blocks) \subseteq Slots
  BY <1>1, <1>2, SessionFacts DEF Allocated
<1>6. ASSUME NEW t \in Allocated(mem_blocks)' PROVE IsPlaced(mem_blocks[t])'
  <2>1. CASE t = s
    BY <2>1, <1>3, <1>4, <1>5 DEF IsPlaced, End
  <2>2. CASE t # s
    <3>1. t \in Allocated(mem_blocks) /\ mem_blocks'[t] = mem_blocks[t]
      BY <2>2, <1>5
    <3>2. /\ IsPlaced(mem_blocks[t]) /\ mem_blocks[t].base \in Nat
          /\ mem_blocks[t].size \in Nat /\ mem_blocks[t].handle \in Nat
      BY <3>1, <1>2, SessionFacts
    <3> QED
      BY <3>1, <3>2, <1>3, <1>4 DEF IsPlaced, End
  <2> QED
    BY <2>1, <2>2
<1>7. ASSUME NEW t \in Allocated(mem_blocks) PROVE
         /\ Apart(mem_blocks[t], new) /\ Apart(new, mem_blocks[t])
         /\ mem_blocks[t].handle # next_handle
  <2>1. /\ IsPlaced(mem_blocks[t]) /\ mem_blocks[t].base \in Nat
        /\ mem_blocks[t].size \in Nat /\ mem_blocks[t].handle \in Nat
    BY <1>2, SessionFacts
  <2> QED
    BY <2>1, <1>3, <1>4 DEF IsPlaced, Apart, End
<1>8. BlocksApart'
  <2> SUFFICES ASSUME NEW t \in Allocated(mem_blocks)', NEW u \in Allocated(mem_blocks)', t # u
               PROVE  /\ Apart(mem_blocks'[t], mem_blocks'[u])
                      /\ mem_blocks'[t].handle # mem_blocks'[u].handle
    BY DEF BlocksApart, Apart, End
  <2>0. mem_blocks'[s] = new /\ new.handle = next_handle
    BY <1>5
  <2> HIDE DEF new
  <2>1. CASE t = s
    <3>1. u \in Allocated(mem_blocks) /\ mem_blocks'[u] = mem_blocks[u]
      BY <2>1, <1>5
    <3> QED
      BY <2>0, <2>1, <3>1, <1>7
  <2>2. CASE u = s
    <3>1. t \in Allocated(mem_blocks) /\ mem_blocks'[t] = mem_blocks[t]
      BY <2>2, <1>5
    <3> QED
      BY <2>0, <2>2, <3>1, <1>7
  <2>3. CASE t # s /\ u # s
    BY <2>3, <1>2, <1>5, SessionFacts DEF BlocksApart
  <2> QED
    BY <2>1, <2>2, <2>3
<1> QED
  BY <1>3, <1>4, <1>6, <1>8 DEF DpmiInv

LEMMA FreeInv == ASSUME TypeOK, DpmiInv, NEW handle, Free(handle) PROVE DpmiInv'
<1>1. PICK s \in Slots : mem_blocks' = [mem_blocks EXCEPT ![s].allocated = FALSE]
  BY DEF Free
<1>2. active /\ UNCHANGED <<active, next_mem_base, next_handle>>
  BY DEF Free
<1>3. /\ Allocated(mem_blocks)' \subseteq Allocated(mem_blocks) \ {s}
      /\ \A t \in Allocated(mem_blocks)' : mem_blocks'[t] = mem_blocks[t]
  BY <1>1, <1>2, SessionFacts DEF Allocated
<1> QED
  BY <1>2, <1>3, SessionFacts DEF DpmiInv, BlocksApart, IsPlaced, Apart, End

\* Where a block is after a resize: inside its old place, or beyond the cursor.
LEMMA Resized ==
    ASSUME NoWrap, TypeOK, DpmiInv, NEW handle, NEW size \in DpmiSizes,
           Resize(handle, Requested(size))
    PROVE  \E s \in Named(handle) :
             /\ DOMAIN mem_blocks' = DOMAIN mem_blocks
             /\ \A t \in Slots \ {s} : mem_blocks'[t] = mem_blocks[t]
             /\ mem_blocks'[s].allocated /\ mem_blocks'[s].handle = mem_blocks[s].handle
             /\ mem_blocks'[s].size = Requested(size)
             /\ \/ /\ mem_blocks'[s].base = mem_blocks[s].base
                   /\ Requested(size) <= mem_blocks[s].size
                   /\ next_mem_base' = next_mem_base
                \/ /\ mem_blocks'[s].base = Place
                   /\ EndOfNew(Requested(size)) <= HostBase
                   /\ next_mem_base' = EndOfNew(Requested(size))
<1>1. PICK s \in Slots : First(Named(handle), s) /\ (Shrink(s, Requested(size)) \/ Grow(s, Requested(size)))
  BY DEF Resize
<1>2. active
  BY DEF Resize
<1>3. mem_blocks \in [Slots -> MemBlock] /\ s \in Named(handle) /\ mem_blocks[s].allocated
  BY <1>1, <1>2, SessionFacts DEF First, Named, Allocated
<1>4. CASE Shrink(s, Requested(size))
  BY <1>3, <1>4 DEF Shrink, MemBlock
<1>5. CASE Grow(s, Requested(size))
  BY <1>3, <1>5 DEF Grow, MemBlock
<1> QED
  BY <1>1, <1>3, <1>4, <1>5

LEMMA ResizeInv ==
    ASSUME NoWrap, TypeOK, DpmiInv, NEW handle, NEW size \in DpmiSizes,
           Resize(handle, Requested(size))
    PROVE  DpmiInv'
<1>1. PICK s \in Named(handle) :
             /\ DOMAIN mem_blocks' = DOMAIN mem_blocks
             /\ \A t \in Slots \ {s} : mem_blocks'[t] = mem_blocks[t]
             /\ mem_blocks'[s].allocated /\ mem_blocks'[s].handle = mem_blocks[s].handle
             /\ mem_blocks'[s].size = Requested(size)
             /\ \/ /\ mem_blocks'[s].base = mem_blocks[s].base
                   /\ Requested(size) <= mem_blocks[s].size
                   /\ next_mem_base' = next_mem_base
                \/ /\ mem_blocks'[s].base = Place
                   /\ EndOfNew(Requested(size)) <= HostBase
                   /\ next_mem_base' = EndOfNew(Requested(size))
  BY Resized
<1>2. active /\ active' = active /\ next_handle' = next_handle
  BY DEF Resize
<1>3. /\ next_mem_base \in Nat /\ DpmiStart <= next_mem_base
      /\ next_mem_base <= DpmiStart + MemSize
      /\ next_handle \in Nat /\ DpmiStart \in Nat /\ HostBase \in Nat
      /\ Requested(size) \in Nat /\ 0 < Requested(size)
  BY <1>2, SessionFacts, Constants, HostBaseRange, MemoryAssumption DEF Requested
<1>4. /\ s \in Allocated(mem_blocks) /\ Allocated(mem_blocks) \subseteq Slots
      /\ Allocated(mem_blocks)' = Allocated(mem_blocks)
      /\ \A t \in Slots : mem_blocks[t].base \in Nat /\ mem_blocks[t].size \in Nat
  BY <1>1, <1>2, SessionFacts DEF Named, Allocated
<1>5. /\ next_mem_base <= next_mem_base' /\ next_mem_base' \in Nat
      /\ next_mem_base' <= DpmiStart + MemSize
      /\ mem_blocks'[s].base \in Nat
      /\ DpmiStart <= mem_blocks'[s].base
      /\ End(mem_blocks'[s]) <= next_mem_base' /\ End(mem_blocks'[s]) <= HostBase
  <2>1. CASE mem_blocks'[s].base = mem_blocks[s].base
    <3>1. IsPlaced(mem_blocks[s])
      BY <1>2, <1>4, SessionFacts
    <3> QED
      BY <2>1, <3>1, <1>1, <1>2, <1>3, <1>4, NewPlace DEF IsPlaced, End
  <2>2. CASE mem_blocks'[s].base = Place /\ EndOfNew(Requested(size)) <= HostBase
                /\ next_mem_base' = EndOfNew(Requested(size))
    BY <2>2, <1>1, <1>2, <1>3, NewPlace DEF End
  <2> QED
    BY <2>1, <2>2, <1>1
<1>6. ASSUME NEW t \in Allocated(mem_blocks), t # s
      PROVE  /\ Apart(mem_blocks[t], mem_blocks'[s]) /\ Apart(mem_blocks'[s], mem_blocks[t])
             /\ mem_blocks[t].handle # mem_blocks'[s].handle
  <2>1. /\ Apart(mem_blocks[t], mem_blocks[s]) /\ Apart(mem_blocks[s], mem_blocks[t])
        /\ mem_blocks[t].handle # mem_blocks[s].handle
    BY <1>2, <1>4, <1>6, SessionFacts DEF BlocksApart
  <2>2. CASE mem_blocks'[s].base = mem_blocks[s].base /\ Requested(size) <= mem_blocks[s].size
    BY <2>1, <2>2, <1>1, <1>3, <1>4 DEF Apart, End
  <2>3. CASE mem_blocks'[s].base = Place /\ EndOfNew(Requested(size)) <= HostBase
    <3>1. End(mem_blocks[t]) <= Place
      BY <2>3, <1>2, NewPlace
    <3> QED
      BY <2>1, <2>3, <3>1, <1>1 DEF Apart
  <2> QED
    BY <2>2, <2>3, <1>1
<1>7. ASSUME NEW t \in Allocated(mem_blocks)' PROVE IsPlaced(mem_blocks[t])'
  <2>0. /\ IsPlaced(mem_blocks[t]) /\ mem_blocks[t].base \in Nat /\ mem_blocks[t].size \in Nat
        /\ t \in Slots
    BY <1>2, <1>4, SessionFacts
  <2>1. CASE t = s
    BY <2>0, <2>1, <1>1, <1>2, <1>3, <1>5 DEF IsPlaced
  <2>2. CASE t # s
    BY <2>0, <2>2, <1>1, <1>2, <1>3, <1>5 DEF IsPlaced, End
  <2> QED
    BY <2>1, <2>2
<1>8. BlocksApart'
  <2> SUFFICES ASSUME NEW t \in Allocated(mem_blocks)', NEW u \in Allocated(mem_blocks)', t # u
               PROVE  /\ Apart(mem_blocks'[t], mem_blocks'[u])
                      /\ mem_blocks'[t].handle # mem_blocks'[u].handle
    BY DEF BlocksApart, Apart, End
  <2>1. CASE t = s
    BY <2>1, <1>1, <1>4, <1>6
  <2>2. CASE u = s
    BY <2>2, <1>1, <1>4, <1>6
  <2>3. CASE t # s /\ u # s
    BY <2>3, <1>1, <1>2, <1>4, SessionFacts DEF BlocksApart
  <2> QED
    BY <2>1, <2>2, <2>3
<1> QED
  BY <1>3, <1>5, <1>7, <1>8 DEF DpmiInv

LEMMA DpmiCallInv == ASSUME NoWrap, TypeOK, DpmiInv, DpmiCall PROVE DpmiInv'
<1>1. CASE ModeSwitch
  <2>1. Allocated(mem_blocks)' = {}
    BY <1>1 DEF ModeSwitch, Allocated, NoMemBlock
  <2> QED
    BY <1>1, <2>1, Constants DEF ModeSwitch, DpmiInv, BlocksApart
<1>2. CASE Terminate
  BY <1>2 DEF Terminate, DpmiInv
<1>3. ASSUME NEW size \in DpmiSizes, Allocate(Requested(size)) PROVE DpmiInv'
  BY <1>3, AllocateInv
<1>4. ASSUME NEW handle \in 1 .. MaxHandle, Free(handle) PROVE DpmiInv'
  BY <1>4, FreeInv
<1>5. ASSUME NEW handle \in 1 .. MaxHandle, NEW size \in DpmiSizes,
             Resize(handle, Requested(size))
      PROVE  DpmiInv'
  BY <1>5, ResizeInv
<1> QED
  BY <1>1, <1>2, <1>3, <1>4, <1>5 DEF DpmiCall

-----------------------------------------------------------------------------
(* The two services together: neither call touches the other's state. *)

LEMMA InitIInv == Init => IInv
<1> SUFFICES ASSUME Init PROVE XmsInv /\ DpmiInv
  BY InitType DEF IInv
<1>1. Allocated(xms) = {}
  BY DEF Init, Allocated, NoXmsBlock
<1> QED
  BY <1>1 DEF Init, XmsInv, DpmiInv, Ungrown

LEMMA NextIInv == ASSUME NoWrap PROVE IInv /\ [Next]_vars => IInv'
<1> SUFFICES ASSUME IInv, [Next]_vars PROVE XmsInv' /\ DpmiInv'
  BY NextType DEF IInv
<1>1. ASSUME UNCHANGED xmsVars PROVE XmsInv'
  BY <1>1 DEF IInv, XmsInv, xmsVars, Ungrown, Allocated, Apart, End
<1>2. ASSUME UNCHANGED dpmiVars PROVE DpmiInv'
  BY <1>2 DEF IInv, DpmiInv, dpmiVars, Allocated, BlocksApart, IsPlaced, Apart, End
<1>3. CASE XmsCall
  <2>1. UNCHANGED dpmiVars
    BY <1>3 DEF XmsCall, XmsAllocate, XmsFree, XmsReallocate
  <2> QED
    BY <1>2, <1>3, <2>1, XmsCallInv DEF IInv
<1>4. CASE DpmiCall
  <2>1. UNCHANGED xmsVars
    BY <1>4 DEF DpmiCall, ModeSwitch, Terminate, Allocate, Free, Resize
  <2> QED
    BY <1>1, <1>4, <2>1, DpmiCallInv DEF IInv
<1>5. CASE UNCHANGED vars
  BY <1>1, <1>2, <1>5 DEF vars, xmsVars, dpmiVars
<1> QED
  BY <1>3, <1>4, <1>5 DEF Next

LEMMA IInvOneOwner == IInv => OneOwner
<1> SUFFICES ASSUME IInv, active, NEW s \in Allocated(mem_blocks)
             PROVE  /\ Apart(mem_blocks[s], Tables)
                    /\ \A t \in Allocated(mem_blocks) : s # t => Apart(mem_blocks[s], mem_blocks[t])
                    /\ \A h \in Ungrown : End(xms[h]) <= DpmiStart => Apart(xms[h], mem_blocks[s])
  BY DEF OneOwner, IInv, XmsInv
<1>1. /\ IsPlaced(mem_blocks[s]) /\ BlocksApart
      /\ mem_blocks[s].base \in Nat /\ mem_blocks[s].size \in Nat
  BY SessionFacts DEF IInv
<1>2. Apart(mem_blocks[s], Tables)
  BY <1>1 DEF Apart, Tables, IsPlaced, End
<1>3. ASSUME NEW h \in Ungrown, End(xms[h]) <= DpmiStart PROVE Apart(xms[h], mem_blocks[s])
  <2>1. xms[h].base \in Nat /\ xms[h].size \in Nat
    BY DEF IInv, TypeOK, Ungrown, Allocated
  <2> QED
    BY <1>1, <1>3, <2>1, Constants DEF Apart, IsPlaced, End
<1> QED
  BY <1>1, <1>2, <1>3 DEF BlocksApart

\* No memory has two owners, as long as no request is so large that its end
\* wraps (xms_dispatch AH=09h, 0Ah, 0Fh, 89h; dpmi_int31h 0501h to 0503h).
THEOREM NoMemoryHasTwoOwners == ASSUME NoWrap PROVE Spec => []OneOwner
<1>1. Init => IInv
  BY InitIInv
<1>2. IInv /\ [Next]_vars => IInv'
  BY NextIInv
<1>3. IInv => OneOwner
  BY IInvOneOwner
<1> QED
  BY <1>1, <1>2, <1>3, PTL DEF Spec

-----------------------------------------------------------------------------
(* The refinement: each call of a session is a step of BlockAllocator, and *)
(* the XMS driver's are stutters.                                          *)

Promised == [Allocator!Next]_(Allocator!allocatorVars)

\* One entry taken into use.
LEMMA AllocateRefines ==
    ASSUME NoWrap, IInv, NEW size \in DpmiSizes, Allocate(Requested(size))
    PROVE  Allocator!Allocate
<1> DEFINE new == [allocated |-> TRUE, handle |-> next_handle, base |-> Place,
                   size |-> Requested(size)]
           b == HandedOut(new)
<1>1. PICK s \in Slots : /\ ~ mem_blocks[s].allocated
                         /\ mem_blocks' = [mem_blocks EXCEPT ![s] = new]
  BY DEF Allocate, IsFirstFree
<1>2. active /\ active' /\ next_handle' = next_handle + 1
  BY DEF Allocate
<1>3. /\ Place \in Nat /\ Requested(size) \in Nat /\ 0 < Requested(size)
      /\ DpmiStart <= Place /\ Place + Requested(size) <= HostBase
      /\ \A t \in Allocated(mem_blocks) : End(mem_blocks[t]) <= Place
  BY <1>2, NewPlace, SessionFacts, Constants DEF Allocate, IInv
<1>4. LiveBlocks = {HandedOut(mem_blocks[t]) : t \in Allocated(mem_blocks)}
  BY <1>2 DEF LiveBlocks
<1>5. LiveBlocks' = LiveBlocks \cup {b}
  <2>1. mem_blocks \in [Slots -> MemBlock]
    BY <1>2, SessionFacts DEF IInv
  <2>2. /\ Allocated(mem_blocks)' = Allocated(mem_blocks) \cup {s}
        /\ mem_blocks'[s] = new
        /\ \A t \in Allocated(mem_blocks) : mem_blocks'[t] = mem_blocks[t]
    BY <1>1, <2>1 DEF Allocated
  <2>3. LiveBlocks' = {HandedOut(mem_blocks'[t]) : t \in Allocated(mem_blocks)'}
    BY <1>2 DEF LiveBlocks, HandedOut
  <2> HIDE DEF new
  <2> QED
    BY <1>4, <2>2, <2>3
<1>6. \A c \in LiveBlocks : c.base + c.size <= b.base
  BY <1>3, <1>4 DEF HandedOut, End
<1>7. Allocator!FitsBeside(b, LiveBlocks)
  BY <1>3, <1>6 DEF Allocator!FitsBeside, Allocator!Apart, HandedOut
<1>8. next_handle \in Nat /\ 1 <= next_handle
  BY Constants DEF IInv, TypeOK
<1>9. /\ b.handle \notin 1 .. next_handle - 1
      /\ 1 .. next_handle' - 1 = (1 .. next_handle - 1) \cup {b.handle}
  BY <1>2, <1>8 DEF HandedOut
<1>10. b \in LiveBlocks'
  BY <1>5
<1> HIDE DEF b
<1> QED
  BY <1>5, <1>7, <1>9, <1>10 DEF Allocator!Allocate

\* One entry given back: handles tell blocks apart.
LEMMA FreeRefines == ASSUME IInv, NEW handle, Free(handle) PROVE Allocator!Free
<1>1. PICK s \in Slots : /\ First(Named(handle), s)
                         /\ mem_blocks' = [mem_blocks EXCEPT ![s].allocated = FALSE]
  BY DEF Free
<1>2. active /\ active' /\ next_handle' = next_handle
  BY DEF Free
<1>3. mem_blocks \in [Slots -> MemBlock] /\ s \in Allocated(mem_blocks) /\ BlocksApart
  BY <1>1, <1>2, SessionFacts DEF IInv, First, Named
<1>4. /\ Allocated(mem_blocks)' = Allocated(mem_blocks) \ {s}
      /\ \A t \in Allocated(mem_blocks) \ {s} : mem_blocks'[t] = mem_blocks[t]
  BY <1>1, <1>3 DEF Allocated
<1>5. /\ LiveBlocks = {HandedOut(mem_blocks[t]) : t \in Allocated(mem_blocks)}
      /\ LiveBlocks' = {HandedOut(mem_blocks'[t]) : t \in Allocated(mem_blocks)'}
  BY <1>2 DEF LiveBlocks, HandedOut
<1>6. \A t \in Allocated(mem_blocks) \ {s} : HandedOut(mem_blocks[t]) # HandedOut(mem_blocks[s])
  BY <1>3 DEF BlocksApart, HandedOut
<1>7. LiveBlocks' = LiveBlocks \ {HandedOut(mem_blocks[s])}
  BY <1>3, <1>4, <1>5, <1>6
<1>8. HandedOut(mem_blocks[s]) \in LiveBlocks
  BY <1>3, <1>5
<1> QED
  BY <1>2, <1>7, <1>8 DEF Allocator!Free

\* One block made smaller, or moved beyond all others and its old self.
LEMMA ResizeRefines ==
    ASSUME NoWrap, IInv, NEW handle, NEW size \in DpmiSizes, Resize(handle, Requested(size))
    PROVE  Allocator!Resize
<1> TypeOK /\ DpmiInv
  BY DEF IInv
<1>1. PICK s \in Named(handle) :
             /\ DOMAIN mem_blocks' = DOMAIN mem_blocks
             /\ \A t \in Slots \ {s} : mem_blocks'[t] = mem_blocks[t]
             /\ mem_blocks'[s].allocated /\ mem_blocks'[s].handle = mem_blocks[s].handle
             /\ mem_blocks'[s].size = Requested(size)
             /\ \/ /\ mem_blocks'[s].base = mem_blocks[s].base
                   /\ Requested(size) <= mem_blocks[s].size
                   /\ next_mem_base' = next_mem_base
                \/ /\ mem_blocks'[s].base = Place
                   /\ EndOfNew(Requested(size)) <= HostBase
                   /\ next_mem_base' = EndOfNew(Requested(size))
  BY Resized
<1> DEFINE b == HandedOut(mem_blocks[s])
           c == HandedOut(mem_blocks'[s])
<1>2. active /\ active' /\ next_handle' = next_handle
  BY DEF Resize
<1>3. /\ s \in Allocated(mem_blocks) /\ Allocated(mem_blocks) \subseteq Slots /\ BlocksApart
      /\ Allocated(mem_blocks)' = Allocated(mem_blocks)
  BY <1>1, <1>2, SessionFacts DEF Named, Allocated
<1>4. /\ LiveBlocks = {HandedOut(mem_blocks[t]) : t \in Allocated(mem_blocks)}
      /\ LiveBlocks' = {HandedOut(mem_blocks'[t]) : t \in Allocated(mem_blocks)}
  BY <1>2, <1>3 DEF LiveBlocks, HandedOut
<1>5. \A t \in Allocated(mem_blocks) \ {s} : /\ HandedOut(mem_blocks[t]) # b
                                            /\ mem_blocks'[t] = mem_blocks[t]
  BY <1>1, <1>3 DEF BlocksApart, HandedOut
<1>6. b \in LiveBlocks /\ c \in LiveBlocks' /\ LiveBlocks' = (LiveBlocks \ {b}) \cup {c}
  BY <1>3, <1>4, <1>5
<1>7. /\ c.handle = b.handle /\ c.size = Requested(size) /\ b.size = mem_blocks[s].size
      /\ b.base = mem_blocks[s].base /\ c.base = mem_blocks'[s].base
  BY <1>1 DEF HandedOut
<1>8. CASE mem_blocks'[s].base = mem_blocks[s].base /\ Requested(size) <= mem_blocks[s].size
  <2> HIDE DEF b, c
  <2> QED
    BY <1>2, <1>6, <1>7, <1>8 DEF Allocator!Resize
<1>9. CASE mem_blocks'[s].base = Place /\ EndOfNew(Requested(size)) <= HostBase
  <2>1. /\ Place \in Nat /\ Requested(size) \in Nat /\ 0 < Requested(size)
        /\ DpmiStart <= Place /\ Place + Requested(size) <= HostBase
        /\ \A t \in Allocated(mem_blocks) : End(mem_blocks[t]) <= Place
    BY <1>2, <1>9, NewPlace, SessionFacts, Constants
  <2>2. \A d \in LiveBlocks : d.base + d.size <= Place
    BY <1>4, <2>1 DEF HandedOut, End
  <2> HIDE DEF b, c
  <2>3. Allocator!FitsBeside(c, LiveBlocks)
    BY <1>7, <1>9, <2>1, <2>2 DEF Allocator!FitsBeside, Allocator!Apart
  <2> QED
    BY <1>2, <1>6, <1>7, <2>3 DEF Allocator!Resize
<1> QED
  BY <1>1, <1>8, <1>9

LEMMA StepRefines == ASSUME NoWrap PROVE IInv /\ [Next]_vars => Promised
<1> SUFFICES ASSUME IInv, [Next]_vars PROVE Promised
  OBVIOUS
<1> USE DEF Promised, Allocator!Next
<1>1. ASSUME UNCHANGED dpmiVars PROVE Promised
  BY <1>1 DEF dpmiVars, LiveBlocks, HandedOut, Allocated, Allocator!allocatorVars
<1>2. CASE XmsCall \/ UNCHANGED vars
  BY <1>1, <1>2 DEF XmsCall, XmsAllocate, XmsFree, XmsReallocate, vars, dpmiVars
<1>3. CASE ModeSwitch
  <2>1. LiveBlocks = {} /\ LiveBlocks' = {}
    BY <1>3 DEF ModeSwitch, LiveBlocks, Allocated, NoMemBlock
  <2>2. 1 .. next_handle' - 1 = {}
    BY <1>3 DEF ModeSwitch
  <2> QED
    BY <2>1, <2>2 DEF Allocator!Open
<1>4. CASE Terminate
  BY <1>4 DEF Terminate, LiveBlocks, Allocator!Release
<1>5. ASSUME NEW size \in DpmiSizes, Allocate(Requested(size)) PROVE Promised
  BY <1>5, AllocateRefines
<1>6. ASSUME NEW handle \in 1 .. MaxHandle, Free(handle) PROVE Promised
  BY <1>6, FreeRefines
<1>7. ASSUME NEW handle \in 1 .. MaxHandle, NEW size \in DpmiSizes,
             Resize(handle, Requested(size))
      PROVE  Promised
  BY <1>7, ResizeRefines
<1> QED
  BY <1>2, <1>3, <1>4, <1>5, <1>6, <1>7 DEF Next, DpmiCall

LEMMA InitRefines == Init => Allocator!Init
BY DEF Init, Allocator!Init, LiveBlocks

\* The DPMI host's memory services (0501h, 0502h, 0503h, mode switch and
\* termination) implement BlockAllocator, as long as no request wraps.
THEOREM ImplementsAllocator == ASSUME NoWrap PROVE Spec => IsAnAllocator
<1>1. Init => IInv /\ Allocator!Init
  BY InitIInv, InitRefines
<1>2. IInv /\ [Next]_vars => IInv'
  BY NextIInv
<1>3. IInv /\ [Next]_vars => [Allocator!Next]_(Allocator!allocatorVars)
  BY StepRefines DEF Promised
<1> QED
  BY <1>1, <1>2, <1>3, PTL DEF Spec, IsAnAllocator, Allocator!Spec
=============================================================================

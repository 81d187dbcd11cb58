--------------------------- MODULE ExtendedMemory ---------------------------
(***************************************************************************)
(* Memory above 1 MB, as a guest gets it: from the XMS driver              *)
(* (dos_machine::xms_dispatch, dos_bios.cc) and, once a client has         *)
(* switched to protected mode, from the DPMI host (functions 0501h to      *)
(* 0503h of dpmi_int31h, dos_dpmi.cc).  Neither service knows of the       *)
(* other.  Addresses count units of memory; a KB of the XMS driver and a   *)
(* page of the DPMI host are whole numbers of units.                       *)
(*                                                                         *)
(* Both place a block above everything they have placed so far that they   *)
(* remember: the XMS driver above the highest end among its live handles,  *)
(* the DPMI host above a cursor that only a new session sets back.         *)
(***************************************************************************)
EXTENDS Integers, FiniteSets

CONSTANTS
    MemSize,        \* units of memory the machine has
    XmsStart,       \* first unit above the HMA (0x110000)
    XmsHandles,     \* entries in the handle table (XMS_MAX_HANDLES)
    XmsSizes,       \* sizes XMS clients ask for
    DpmiStart,      \* first unit the DPMI host gives out (0x200000)
    HostArea,       \* units the DPMI host keeps at the top (0x20000)
    Page,           \* units in a page (0x1000)
    Word,           \* addresses are kept modulo this (2^32)
    MemBlocks,      \* entries in the block table (MAX_MEM_BLOCKS)
    DpmiSizes,      \* sizes DPMI clients ask for
    MaxHandle       \* bound: no DPMI handle beyond this one is given out

ASSUME MemoryAssumption ==
    /\ {MemSize, XmsStart, DpmiStart, HostArea, XmsHandles, MemBlocks, MaxHandle} \subseteq Nat
    /\ {Page, Word} \subseteq Nat \ {0}
    /\ XmsSizes \subseteq Nat /\ DpmiSizes \subseteq Nat
    /\ HostArea <= MemSize

VARIABLES
    xms,            \* xms_handles
    grown,          \* history: handles whose block was made larger where it was
    active,         \* dpmi.active
    next_mem_base,  \* dpmi.next_mem_base
    next_handle,    \* dpmi.next_handle
    mem_blocks      \* dpmi.mem_blocks

xmsVars == <<xms, grown>>
dpmiVars == <<active, next_mem_base, next_handle, mem_blocks>>
vars == <<xms, grown, active, next_mem_base, next_handle, mem_blocks>>

Handles == 1 .. XmsHandles
Slots == 1 .. MemBlocks

NoXmsBlock == [allocated |-> FALSE, base |-> 0, size |-> 0]
NoMemBlock == [allocated |-> FALSE, handle |-> 0, base |-> 0, size |-> 0]

End(b) == b.base + b.size

Allocated(table) == {i \in DOMAIN table : table[i].allocated}

\* The first entry the table has free.
IsFirstFree(i, table) == /\ ~ table[i].allocated
                         /\ \A j \in DOMAIN table : j < i => table[j].allocated

-----------------------------------------------------------------------------
(* The XMS driver. *)

\* Where the next block goes: the highest end of a live one.
Ends == {XmsStart} \cup {End(xms[h]) : h \in Allocated(xms)}
IsHighest(a) == \A e \in Ends : e <= a

\* AH=09h and 89h: an error, and nothing changed, if no handle is free or the
\* block would end above memory.  The sums cannot wrap: 89h refuses more than
\* 1 GB and the others have 16 bits of KB.
XmsAllocate(size) ==
    /\ \E h \in Handles, a \in Ends :
         /\ IsFirstFree(h, xms) /\ IsHighest(a) /\ a + size <= MemSize
         /\ xms' = [xms EXCEPT ![h] = [allocated |-> TRUE, base |-> a, size |-> size]]
    /\ UNCHANGED <<grown, dpmiVars>>

\* AH=0Ah: the lock count is not looked at.
XmsFree(h) == /\ xms[h].allocated
              /\ xms' = [xms EXCEPT ![h] = NoXmsBlock]
              /\ grown' = grown \ {h}
              /\ UNCHANGED dpmiVars

\* AH=0Fh: in place, as long as memory does not end before.
XmsReallocate(h, size) ==
    /\ xms[h].allocated
    /\ xms[h].base + size <= MemSize
    /\ xms' = [xms EXCEPT ![h].size = size]
    /\ grown' = IF size > xms[h].size THEN grown \cup {h} ELSE grown
    /\ UNCHANGED dpmiVars

-----------------------------------------------------------------------------
(* The DPMI host. *)

PageUp(a) == IF a % Page = 0 THEN a ELSE a + (Page - (a % Page))

PageDown(a) == a - (a % Page)

\* dpmi.base: from here up, the host's own tables and stacks.
HostBase == PageDown(MemSize - HostArea)

\* Size 0 is taken for 1.
Requested(size) == IF size = 0 THEN 1 ELSE size

\* The place for a new block, whose end is computed in 32 bits.
Place == PageUp(next_mem_base) % Word
EndOfNew(size) == (Place + size) % Word

\* A client far-calls the mode switch entry.
ModeSwitch == /\ ~ active
              /\ active' = TRUE
              /\ next_mem_base' = DpmiStart
              /\ next_handle' = 1
              /\ mem_blocks' = [s \in Slots |-> NoMemBlock]
              /\ UNCHANGED xmsVars

\* INT 21h AH=4Ch in protected mode, or an exception nobody handles.  The
\* tables keep what they hold.
Terminate == /\ active
             /\ active' = FALSE
             /\ UNCHANGED <<xmsVars, next_mem_base, next_handle, mem_blocks>>

\* 0501h.  Refused, with nothing changed, if the end is above the host's
\* tables or no entry is free.
Allocate(size) ==
    /\ active /\ next_handle <= MaxHandle
    /\ EndOfNew(size) <= HostBase
    /\ \E s \in Slots :
         /\ IsFirstFree(s, mem_blocks)
         /\ mem_blocks' = [mem_blocks EXCEPT ![s] =
              [allocated |-> TRUE, handle |-> next_handle, base |-> Place, size |-> size]]
    /\ next_handle' = next_handle + 1
    /\ next_mem_base' = EndOfNew(size)
    /\ UNCHANGED <<xmsVars, active>>

\* The entries of live blocks with this handle; the first one is meant.
Named(handle) == {s \in Allocated(mem_blocks) : mem_blocks[s].handle = handle}
First(slots, s) == s \in slots /\ \A t \in slots : s <= t

\* Bug: 0502h takes the cursor back to the block it frees.
FreeToTheCursor(handle) ==
    /\ active
    /\ \E s \in Slots : /\ First(Named(handle), s)
                        /\ mem_blocks' = [mem_blocks EXCEPT ![s].allocated = FALSE]
                        /\ next_mem_base' = mem_blocks[s].base
    /\ UNCHANGED <<xmsVars, active, next_handle>>

\* 0502h: the entry is free again, the memory is not.
Free(handle) ==
    /\ active
    /\ \E s \in Slots : /\ First(Named(handle), s)
                        /\ mem_blocks' = [mem_blocks EXCEPT ![s].allocated = FALSE]
    /\ UNCHANGED <<xmsVars, active, next_mem_base, next_handle>>

\* 0503h, no larger than before: in place.
Shrink(s, size) == /\ size <= mem_blocks[s].size
                   /\ mem_blocks' = [mem_blocks EXCEPT ![s].size = size]
                   /\ UNCHANGED next_mem_base

\* Bug: 0503h makes a block larger where it is.
GrowInPlace(s, size) == /\ size > mem_blocks[s].size
                        /\ mem_blocks[s].base + size <= HostBase
                        /\ mem_blocks' = [mem_blocks EXCEPT ![s].size = size]
                        /\ UNCHANGED next_mem_base

\* 0503h, larger: the contents are copied to a new place.
Grow(s, size) == /\ size > mem_blocks[s].size
                 /\ EndOfNew(size) <= HostBase
                 /\ mem_blocks' = [mem_blocks EXCEPT ![s].base = Place, ![s].size = size]
                 /\ next_mem_base' = EndOfNew(size)

Resize(handle, size) ==
    /\ active
    /\ \E s \in Slots : First(Named(handle), s) /\ (Shrink(s, size) \/ Grow(s, size))
    /\ UNCHANGED <<xmsVars, active, next_handle>>

-----------------------------------------------------------------------------
Init == /\ xms = [h \in Handles |-> NoXmsBlock]
        /\ grown = {}
        /\ active = FALSE
        /\ next_mem_base = 0 /\ next_handle = 1
        /\ mem_blocks = [s \in Slots |-> NoMemBlock]

XmsCall == \/ \E size \in XmsSizes : XmsAllocate(size)
           \/ \E h \in Handles : XmsFree(h)
           \/ \E h \in Handles, size \in XmsSizes : XmsReallocate(h, size)

DpmiCall == \/ ModeSwitch
            \/ Terminate
            \/ \E size \in DpmiSizes : Allocate(Requested(size))
            \/ \E handle \in 1 .. MaxHandle : Free(handle)
            \/ \E handle \in 1 .. MaxHandle, size \in DpmiSizes : Resize(handle, Requested(size))

Next == XmsCall \/ DpmiCall

Spec == Init /\ [][Next]_vars

-----------------------------------------------------------------------------
InMemory(b) == b.base \in 0 .. MemSize /\ b.size \in 0 .. MemSize /\ End(b) <= MemSize

\* Type invariant: handle table, block table, cursor.
TypeOK ==
    /\ xms \in [Handles -> [allocated : BOOLEAN, base : Nat, size : Nat]]
    /\ \A h \in Handles : InMemory(xms[h])
    /\ grown \subseteq Allocated(xms)
    /\ active \in BOOLEAN
    /\ next_mem_base \in Nat /\ next_handle \in 1 .. MaxHandle + 1
    /\ mem_blocks \in [Slots -> [allocated : BOOLEAN, handle : Nat, base : Nat, size : Nat]]

Apart(b, c) == End(b) <= c.base \/ End(c) <= b.base

\* XMS handles that were never grown.
Ungrown == Allocated(xms) \ grown

Tables == [base |-> HostBase, size |-> MemSize - HostBase]

\* No unit of memory has two owners, among: XMS blocks that were not grown and
\* end below the place where the DPMI host starts, the blocks of the DPMI
\* session, and the tables of the DPMI host.
OneOwner ==
    /\ \A g, h \in Ungrown : g # h => Apart(xms[g], xms[h])
    /\ active =>
         \A s \in Allocated(mem_blocks) :
            /\ Apart(mem_blocks[s], Tables)
            /\ \A t \in Allocated(mem_blocks) : s # t => Apart(mem_blocks[s], mem_blocks[t])
            /\ \A h \in Ungrown : End(xms[h]) <= DpmiStart => Apart(xms[h], mem_blocks[s])

\* The DPMI host keeps the promises of BlockAllocator: blocks of a session are
\* disjoint and inside the arena, a block moves only to memory nobody has, and
\* a handle given back is not given out again in the session.
HandedOut(b) == [handle |-> b.handle, base |-> b.base, size |-> b.size]
LiveBlocks == IF active THEN {HandedOut(mem_blocks[s]) : s \in Allocated(mem_blocks)} ELSE {}
Allocator == INSTANCE BlockAllocator
                 WITH Low <- DpmiStart, High <- HostBase,
                      live <- LiveBlocks, issued <- 1 .. next_handle - 1
IsAnAllocator == Allocator!Spec
=============================================================================

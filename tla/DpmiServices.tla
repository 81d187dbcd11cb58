---------------------------- MODULE DpmiServices ----------------------------
(***************************************************************************)
(* The descriptor services of the DPMI host (INT 31h, functions 0000h to   *)
(* 000Ch and 0100h to 0102h, dos_dpmi.cc) and the exceptions it hands to   *)
(* handlers of its client: the local descriptor table, who has which of    *)
(* its selectors, and the copy of a descriptor that a segment register     *)
(* holds.                                                                  *)
(*                                                                         *)
(* A selector is its index.  One segment register, DS, stands for all; it  *)
(* holds a selector and the parsed descriptor (seg_cache).  The memory of  *)
(* DOS is the set of segments it has given out.                            *)
(***************************************************************************)
EXTENDS Integers, FiniteSets

CONSTANTS
    LdtMax,         \* LDT_MAX: entry 0 is not used
    SegMapMax,      \* MAX_SEG_MAP
    DosMax,         \* MAX_DOS_BLOCKS
    RawMax,         \* the largest limit in bytes (0xFFFFF)
    LimitPage,      \* bytes in the unit of the larger ones (4096)
    Segments,       \* real-mode segments that clients name
    DosSegments,    \* those that DOS gives out
    Sizes,          \* paragraphs clients ask for
    Bases, Limits, Rights,      \* what clients put in descriptors
    MaxChanges,     \* bound: times they do
    Nesting         \* bound: exceptions inside the handler of another

ASSUME ServicesAssumption ==
    /\ LdtMax \in Nat /\ LdtMax > 1 /\ SegMapMax \in Nat /\ DosMax \in Nat
    /\ RawMax \in Nat /\ LimitPage \in Nat \ {0}
    /\ Segments \cup DosSegments \cup Sizes \cup Bases \cup Limits \subseteq Nat
    /\ Rights \subseteq {"code", "data"} \X BOOLEAN

VARIABLES
    ldt_alloc,      \* the entries in use
    ldt,            \* the descriptors
    seg_map, dos_blocks,
    arena,          \* DOS: its segments that are given out
    ds, ds_cache,   \* sregs[seg_DS] and seg_cache[seg_DS]; 0 is the null selector
    exc_save,       \* exc_save_ds and exc_save_seg_cache
    handling,       \* handlers that have not returned
    held,           \* history: what the client was given each selector for
    changes,        \* bound: descriptors the client has changed
    strayed         \* history: of the DS of "now" and the "saved" one, those
                    \* whose descriptor has changed without them

tables == <<ldt_alloc, ldt, held, changes>>
maps == <<seg_map, dos_blocks, arena>>
segment == <<ds, ds_cache, strayed>>
exceptions == <<exc_save, handling>>
services == <<tables, maps, segment, exceptions>>

Entries == 1 .. (LdtMax - 1)
Paragraph == 16
NoDescriptor == [base |-> 0, raw |-> 0, g |-> FALSE, access |-> "none"]
NoCache == [base |-> 0, limit |-> 0, g |-> FALSE, access |-> "none"]

NoSave == [ds |-> 0, cache |-> NoCache]   \* what is saved is read by handlers only

\* parse_descriptor.
Effective(d) == IF d.g THEN d.raw * LimitPage + LimitPage - 1 ELSE d.raw
Parsed(d) == [base |-> d.base, limit |-> Effective(d), g |-> d.g, access |-> d.access]

\* dpmi_write_ldt_entry keeps 20 bits of the limit.
Descriptor(base, limit, access) ==
    [base |-> base, raw |-> limit % (RawMax + 1), g |-> FALSE, access |-> access]

Lowest(free) == {i \in free : \A j \in free : i <= j}

-----------------------------------------------------------------------------
(* Giving out selectors.                                                   *)

\* dpmi_alloc_ldt_sel, and a descriptor written there.
Give(i, d, use) ==
    /\ ldt_alloc' = ldt_alloc \cup {i}
    /\ ldt' = [ldt EXCEPT ![i] = d]
    /\ held' = [held EXCEPT ![i] = use]
    /\ UNCHANGED changes

\* 0000h: a run of entries, the first that is long enough.
IsRun(start, count) ==
    start + count <= LdtMax /\ \A j \in start .. (start + count - 1) : j \notin ldt_alloc

AllocateDescriptors(count) ==
    LET runs == {i \in Entries : IsRun(i, IF count = 0 THEN 1 ELSE count)}
        length == IF count = 0 THEN 1 ELSE count
    IN  \E start \in Lowest(runs) :
            LET run == start .. (start + length - 1)
            IN  /\ ldt_alloc' = ldt_alloc \cup run
                /\ ldt' = [i \in Entries |->
                              IF i \in run THEN Descriptor(0, 0, "data") ELSE ldt[i]]
                /\ held' = [i \in Entries |-> IF i \in run THEN "client" ELSE held[i]]
                /\ UNCHANGED <<changes, maps, segment, exceptions>>

Saved(i) == handling > 0 /\ exc_save.ds = i
StraysSaved(i) == IF Saved(i) THEN {"saved"} ELSE {}

\* dpmi_free_ldt_sel.  The client does not free what it has in DS.
TakeBack(i) ==
    /\ ds # i /\ ~ Saved(i)
    /\ ldt_alloc' = ldt_alloc \ {i}
    /\ ldt' = [ldt EXCEPT ![i] = NoDescriptor]
    /\ held' = [held EXCEPT ![i] = "free"]
    /\ UNCHANGED <<changes, strayed>>

\* 0001h; the client does not free the selectors of 0002h and 0100h so.
FreeDescriptor(i) ==
    /\ held[i] = "client"
    /\ TakeBack(i)
    /\ UNCHANGED <<maps, ds, ds_cache, exceptions>>

FreeEntries(table) == {k \in DOMAIN table : ~ table[k].used}
SegmentEntry(seg, i) == [used |-> TRUE, seg |-> seg, sel |-> i]

\* The first entry of the table that is not used; nothing if there is none.
Remember(table, entry) ==
    IF FreeEntries(table) = {} THEN {table}
    ELSE {[table EXCEPT ![k] = entry] : k \in Lowest(FreeEntries(table))}

\* 0002h.
SegmentToDescriptor(seg) ==
    /\ \A k \in DOMAIN seg_map : seg_map[k].used => seg_map[k].seg # seg
    /\ \E i \in Lowest(Entries \ ldt_alloc) :
          /\ Give(i, Descriptor(seg * Paragraph, (RawMax + 1) \div Paragraph - 1, "data"), "segment")
          /\ seg_map' \in Remember(seg_map, SegmentEntry(seg, i))
    /\ UNCHANGED <<dos_blocks, arena, segment, exceptions>>

\* 000Ah: a data descriptor over the same memory.
CreateAlias(i) ==
    /\ held[i] # "free"
    /\ \E new \in Lowest(Entries \ ldt_alloc) :
          Give(new, [ldt[i] EXCEPT !.access = "data"], "client")
    /\ UNCHANGED <<maps, segment, exceptions>>

-----------------------------------------------------------------------------
(* DOS memory.  The paragraphs of a block times 16, less 1, wraps for none. *)

DosEntry(seg, i) == [used |-> TRUE, seg |-> seg, sel |-> i]
BlockDescriptor(seg, paragraphs) ==
    Descriptor(seg * Paragraph, (paragraphs * Paragraph + RawMax) % (RawMax + 1), "data")

\* 0100h: it succeeds without a selector when the table is full.
AllocateDos(seg, paragraphs) ==
    /\ seg \in DosSegments \ arena
    /\ arena' = arena \cup {seg}
    /\ IF Entries \subseteq ldt_alloc
       THEN UNCHANGED <<tables, dos_blocks>>
       ELSE \E i \in Lowest(Entries \ ldt_alloc) :
                /\ Give(i, BlockDescriptor(seg, paragraphs), "dos")
                /\ dos_blocks' \in Remember(dos_blocks, DosEntry(seg, i))
    /\ UNCHANGED <<seg_map, segment, exceptions>>

\* 0101h.
FreeDos(k) ==
    /\ dos_blocks[k].used
    /\ arena' = arena \ {dos_blocks[k].seg}
    /\ TakeBack(dos_blocks[k].sel)
    /\ dos_blocks' = [dos_blocks EXCEPT ![k].used = FALSE]
    /\ UNCHANGED <<seg_map, ds, ds_cache, exceptions>>

\* 0102h: the descriptor alone.
ResizeDos(k, paragraphs) ==
    LET i == dos_blocks[k].sel
    IN  /\ dos_blocks[k].used
        /\ ldt' = [ldt EXCEPT ![i] = BlockDescriptor(dos_blocks[k].seg, paragraphs)]
        /\ strayed' = strayed \cup StraysSaved(i) \cup (IF ds = i THEN {"now"} ELSE {})
        /\ UNCHANGED <<ldt_alloc, held, changes, maps, ds, ds_cache, exceptions>>

-----------------------------------------------------------------------------
(* Changing a descriptor that may be loaded.                               *)

LeaveCache(i, c) == UNCHANGED ds_cache

\* The registers that hold the selector get the change too, and not what an
\* exception has saved of them.
UpdateCache(i, c) == ds_cache' = IF ds = i THEN c ELSE ds_cache

Change(i, d, c) ==
    /\ held[i] = "client" /\ changes < MaxChanges
    /\ changes' = changes + 1
    /\ ldt' = [ldt EXCEPT ![i] = d]
    /\ UpdateCache(i, c)
    /\ strayed' = strayed \cup StraysSaved(i)
    /\ UNCHANGED <<ldt_alloc, held, maps, ds, exceptions>>

\* 0007h.
SetBase(i, base) == Change(i, [ldt[i] EXCEPT !.base = base], [ds_cache EXCEPT !.base = base])

\* 0008h: the copy has the limit that was asked for, the descriptor whole pages.
SetLimit(i, limit) ==
    LET large == limit > RawMax
    IN  Change(i, [ldt[i] EXCEPT !.g = large,
                                 !.raw = IF large THEN limit \div LimitPage ELSE limit],
                  [ds_cache EXCEPT !.limit = limit, !.g = large])

\* 0009h and 000Ch: the copy is parsed anew.
SetRights(i, access, g) ==
    LET d == [ldt[i] EXCEPT !.access = access, !.g = g] IN Change(i, d, Parsed(d))
SetDescriptor(i, j) ==
    held[j] # "free" /\ Change(i, ldt[j], Parsed(ldt[j]))

\* MOV DS: the null selector, or one that is there.
LoadDs(i) ==
    /\ i # 0 => ldt[i].access # "none"
    /\ ds' = i
    /\ ds_cache' = IF i = 0 THEN NoCache ELSE Parsed(ldt[i])
    /\ strayed' = strayed \ {"now"}
    /\ UNCHANGED <<tables, maps, exceptions>>

-----------------------------------------------------------------------------
(* Exceptions.                                                             *)

\* dpmi_dispatch_exception: one place to save the segments.
Exception ==
    /\ handling < Nesting
    /\ exc_save' = [ds |-> ds, cache |-> ds_cache]
    /\ handling' = handling + 1
    /\ strayed' = IF "now" \in strayed THEN {"now", "saved"} ELSE {}
    /\ UNCHANGED <<tables, maps, ds, ds_cache>>

\* The handler's far return reaches the sentinel.
ExceptionReturns ==
    /\ handling > 0
    /\ ds' = exc_save.ds /\ ds_cache' = exc_save.cache
    /\ handling' = handling - 1
    /\ strayed' = IF "saved" \in strayed THEN {"now", "saved"} ELSE {}
    /\ exc_save' = IF handling = 1 THEN NoSave ELSE exc_save
    /\ UNCHANGED <<tables, maps>>

-----------------------------------------------------------------------------
Unused == [used |-> FALSE, seg |-> 0, sel |-> 0]

\* dpmi_mode_switch: of the selectors made for the client, that of DS.
ServicesInit ==
    /\ ldt_alloc = {1}
    /\ ldt = [i \in Entries |-> IF i = 1 THEN Descriptor(0, RawMax, "data") ELSE NoDescriptor]
    /\ held = [i \in Entries |-> IF i = 1 THEN "client" ELSE "free"]
    /\ seg_map = [k \in 1 .. SegMapMax |-> Unused]
    /\ dos_blocks = [k \in 1 .. DosMax |-> Unused]
    /\ arena = {}
    /\ ds = 1 /\ ds_cache = Parsed(ldt[1]) /\ strayed = {}
    /\ changes = 0
    /\ exc_save = NoSave /\ handling = 0

ServicesNext ==
    \/ \E count \in 0 .. LdtMax : AllocateDescriptors(count)
    \/ \E seg \in Segments : SegmentToDescriptor(seg)
    \/ \E seg \in DosSegments, n \in Sizes : AllocateDos(seg, n)
    \/ \E k \in 1 .. DosMax : FreeDos(k) \/ \E n \in Sizes : ResizeDos(k, n)
    \/ \E i \in Entries :
          \/ FreeDescriptor(i) \/ CreateAlias(i)
          \/ \E base \in Bases : SetBase(i, base)
          \/ \E limit \in Limits : SetLimit(i, limit)
          \/ \E r \in Rights : SetRights(i, r[1], r[2])
          \/ \E j \in Entries : SetDescriptor(i, j)
    \/ \E i \in {0} \cup Entries : LoadDs(i)
    \/ Exception \/ ExceptionReturns

ServicesSpec == ServicesInit /\ [][ServicesNext]_services

-----------------------------------------------------------------------------
(* Properties.                                                             *)

HeldFor(use) == {i \in Entries : held[i] = use}
Covers(i, seg) == ldt[i].base = seg * Paragraph /\ ldt[i].access = "data"
Used(table) == {table[k] : k \in {k \in DOMAIN table : table[k].used}}

\* Every selector has one use for as long as the client has it: the entries in
\* use are those the client was given, the segments that 0002h maps and the
\* blocks of 0100h have selectors of their own that cover them, and while the
\* map has room a real-mode segment has one selector only.
SelectorsHaveOneUse ==
    /\ ldt_alloc = Entries \ HeldFor("free")
    /\ \A m \in Used(seg_map) : m.sel \in HeldFor("segment") /\ Covers(m.sel, m.seg)
    /\ \A b \in Used(dos_blocks) :
          b.sel \in HeldFor("dos") /\ Covers(b.sel, b.seg) /\ b.seg \in arena
    /\ Cardinality({b.sel : b \in Used(dos_blocks)}) =
           Cardinality({k \in DOMAIN dos_blocks : dos_blocks[k].used})
    /\ FreeEntries(seg_map) # {} =>
           Cardinality(HeldFor("segment")) = Cardinality(Used(seg_map))

\* The segment register works with the descriptor as it is in the table, to the
\* page where the limit is in pages, whatever services have changed it since the
\* register was loaded.  Two changes are left out because the code does not pass
\* them on: 0102h, and one the handler of an exception makes to the descriptor
\* that the interrupted program has in DS.
CachesFollow ==
    ds # 0 /\ "now" \notin strayed =>
        /\ [ds_cache EXCEPT !.limit = Effective(ldt[ds])] = Parsed(ldt[ds])
        /\ Effective(ldt[ds]) - ds_cache.limit \in 0 .. (LimitPage - 1)

\* What clients hold, the table and the registers agree on every selector.
SelectorsAgree == SelectorsHaveOneUse /\ CachesFollow
=============================================================================

--------------------------- MODULE BlockAllocator ---------------------------
(***************************************************************************)
(* What a memory service promises its client: every block lies in the      *)
(* arena and shares no memory with another, it keeps its place until it is *)
(* moved, and a handle names one block only, also after it is given back.  *)
(***************************************************************************)
EXTENDS Integers

CONSTANTS Low, High   \* the arena is Low .. High - 1

VARIABLES live,       \* the blocks handed out: a handle, a base and a size
          issued      \* the handles ever handed out

allocatorVars == <<live, issued>>

Apart(b, c) == b.base + b.size <= c.base \/ c.base + c.size <= b.base

FitsBeside(b, others) == /\ Low <= b.base /\ b.size > 0 /\ b.base + b.size <= High
                         /\ \A c \in others : Apart(b, c)

Init == live = {} /\ issued = {}

Allocate == \E b \in live' : /\ b.handle \notin issued /\ FitsBeside(b, live)
                             /\ live' = live \cup {b}
                             /\ issued' = issued \cup {b.handle}

Free == \E b \in live : live' = live \ {b} /\ UNCHANGED issued

\* Less of the same place, or another place that also leaves alone the old
\* one, which is still being copied from.
Resize == /\ UNCHANGED issued
          /\ \E b \in live, c \in live' :
                /\ c.handle = b.handle
                /\ live' = (live \ {b}) \cup {c}
                /\ \/ c.base = b.base /\ c.size <= b.size
                   \/ FitsBeside(c, live)

\* The session ends; the next one starts with no blocks and no handles.
Release == live' = {} /\ UNCHANGED issued

Open == live = {} /\ issued' = {} /\ UNCHANGED live

Next == Allocate \/ Free \/ Resize \/ Release \/ Open

Spec == Init /\ [][Next]_allocatorVars
=============================================================================

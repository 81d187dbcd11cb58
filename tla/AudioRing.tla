----------------------------- MODULE AudioRing -----------------------------
(***************************************************************************)
(* The ring of stereo frames between the emulator thread and the audio     *)
(* thread: struct AudioRing of Emu88Emulator.mm, with the refill in        *)
(* -runLoop as its producer and the AVAudioSourceNode render block as its  *)
(* consumer.  No lock: each side loads the other side's cursor once,       *)
(* copies frames one slot at a time, and publishes its own cursor last.    *)
(*                                                                         *)
(* One action is one access to something the other thread can see: the     *)
(* load of a cursor, the copy of one slot, the store of a cursor.  The     *)
(* release store / acquire load pairs of the code order the slot copies    *)
(* against the cursors, so interleaving these steps is what the hardware   *)
(* may do.  Cursors are unsigned and free-running: they wrap at Modulus    *)
(* (2^32 in the code) and a slot index is the cursor modulo Cap.           *)
(***************************************************************************)
EXTENDS Integers, Sequences

CONSTANTS Frame,      \* one stereo sample pair
          Silence,    \* the frame the ring is filled with before first use
          Cap,        \* AudioRing::CAP
          Modulus,    \* 2^32, where a cursor wraps
          Target,     \* how far ahead of playback the refill keeps the ring
          MaxChunk    \* the most frames one refill renders (4096)

\* CAP is a power of two that divides 2^32, and a cursor range is at least
\* two rings long.  The refill target (5292) is below CAP (32768).
ASSUME RingAssumption ==
    /\ Silence \in Frame
    /\ Cap \in Nat \ {0}
    /\ Modulus \in Nat /\ \E k \in 2 .. Modulus : Modulus = k * Cap
    /\ Target \in 1 .. Cap
    /\ MaxChunk \in Nat \ {0}

VARIABLES slot,        \* L[] / R[]
          wpos, rpos,  \* the two atomics
          prod,        \* the producer inside push(): its locals
          cons,        \* the consumer inside pop(): its locals
          out,         \* the buffer pop() has filled so far
          delivered    \* what the last completed pop() gave the sound card

vars == <<slot, wpos, rpos, prod, cons, out, delivered>>

-----------------------------------------------------------------------------
\* uint32_t arithmetic for operands that differ by at most one ring.

Advance(pos, n) == IF pos + n < Modulus THEN pos + n ELSE pos + n - Modulus

Distance(from, to) == IF from <= to THEN to - from ELSE to - from + Modulus

Slot(pos) == pos % Cap

Smaller(a, b) == IF a < b THEN a ELSE b

\* Between two calls the locals of push() and pop() are dead.
Idle == [pc |-> "idle", n |-> 0, i |-> 0]

-----------------------------------------------------------------------------
Init == /\ slot = [s \in 0 .. Cap - 1 |-> Silence]
        /\ wpos = 0
        /\ rpos = 0
        /\ prod = Idle
        /\ cons = Idle
        /\ out = << >>
        /\ delivered = << >>

\* Bug: the refill renders a full chunk however much is buffered.
RefillWhole ==
    /\ prod.pc = "idle"
    /\ Distance(rpos, wpos) < Target
    /\ prod' = [pc |-> "load", n |-> MaxChunk, i |-> 0]
    /\ UNCHANGED <<slot, wpos, rpos, cons, out, delivered>>

(***************************************************************************)
(* -runLoop: have = _ring.count(); when it is short of the target, render  *)
(* the missing frames, at most MaxChunk, and push them.                    *)
(***************************************************************************)
Refill ==
    /\ prod.pc = "idle"
    /\ LET have == Distance(rpos, wpos) IN
         /\ have < Target
         /\ prod' = [pc |-> "load", n |-> Smaller(Target - have, MaxChunk), i |-> 0]
    /\ UNCHANGED <<slot, wpos, rpos, cons, out, delivered>>

\* push(): load rpos once and clip the request to the space it leaves.
PushLoad ==
    /\ prod.pc = "load"
    /\ LET space == Cap - Distance(rpos, wpos) IN
         prod' = [pc |-> "copy", n |-> Smaller(prod.n, space), i |-> 0]
    /\ UNCHANGED <<slot, wpos, rpos, cons, out, delivered>>

PushCopy ==
    /\ prod.pc = "copy" /\ prod.i < prod.n
    /\ \E f \in Frame : slot' = [slot EXCEPT ![Slot(Advance(wpos, prod.i))] = f]
    /\ prod' = [prod EXCEPT !.i = @ + 1]
    /\ UNCHANGED <<wpos, rpos, cons, out, delivered>>

PushPublish ==
    /\ prod.pc = "copy" /\ prod.i = prod.n
    /\ wpos' = Advance(wpos, prod.n)
    /\ prod' = Idle
    /\ UNCHANGED <<slot, rpos, cons, out, delivered>>

\* The render block asks for as many frames as the sound card wants; pop()
\* loads wpos once and clips the request to what it sees.
PopLoad(want) ==
    /\ cons.pc = "idle"
    /\ cons' = [pc |-> "copy", n |-> Smaller(want, Distance(rpos, wpos)), i |-> 0]
    /\ out' = << >>
    /\ UNCHANGED <<slot, wpos, rpos, prod, delivered>>

PopCopy ==
    /\ cons.pc = "copy" /\ cons.i < cons.n
    /\ cons' = [cons EXCEPT !.i = @ + 1]
    /\ out' = Append(out, slot[Slot(Advance(rpos, cons.i))])
    /\ UNCHANGED <<slot, wpos, rpos, prod, delivered>>

\* Bug: the consumer skips to the newest frame instead of past those it took.
PopSkips ==
    /\ cons.pc = "copy" /\ cons.i = cons.n
    /\ rpos' = wpos
    /\ delivered' = out
    /\ cons' = Idle
    /\ out' = << >>
    /\ UNCHANGED <<slot, wpos, prod>>

PopPublish ==
    /\ cons.pc = "copy" /\ cons.i = cons.n
    /\ rpos' = Advance(rpos, cons.n)
    /\ delivered' = out
    /\ cons' = Idle
    /\ out' = << >>
    /\ UNCHANGED <<slot, wpos, prod>>

Push == Refill \/ PushLoad \/ PushCopy \/ PushPublish

Pop == (\E want \in 0 .. Cap : PopLoad(want)) \/ PopCopy \/ PopPublish

Next == Push \/ Pop

Spec == Init /\ [][Next]_vars

-----------------------------------------------------------------------------
Call(pcs) == [pc : pcs, n : 0 .. Cap + MaxChunk, i : 0 .. Cap]

TypeOK == /\ slot \in [0 .. Cap - 1 -> Frame]
          /\ wpos \in 0 .. Modulus - 1
          /\ rpos \in 0 .. Modulus - 1
          /\ prod \in Call({"idle", "load", "copy"})
          /\ cons \in Call({"idle", "copy"})
          /\ out \in Seq(Frame)
          /\ delivered \in Seq(Frame)

\* The slots whose frames the consumer has not been given yet, and the slots
\* the push() in progress writes.
Unread == {Slot(Advance(rpos, j)) : j \in 0 .. Distance(rpos, wpos) - 1}

Writing == {Slot(Advance(wpos, j)) : j \in 0 .. prod.n - 1}

\* The ring never holds more frames than it has slots, however the two
\* threads' stale views of each other's cursor combine and wherever the
\* cursors wrap.
NeverOverfull == Distance(rpos, wpos) <= Cap

\* While push() copies, no slot it writes holds a frame that is still unread:
\* the producer works from a load of rpos that may be old, and a slot index
\* is a truncated cursor.
NoUnreadOverwritten == prod.pc = "copy" => Writing \cap Unread = {}

\* Frames the synthesiser has rendered are never thrown away by the clip in
\* push(): -runLoop asks for no more than the ring can take, although it
\* looked at the ring before it rendered.
RefillNeverClipped ==
    [][prod.pc = "load" /\ prod'.pc = "copy" => prod'.n = prod.n]_vars

\* The two threads together behave as one bounded queue whose operations are
\* atomic: push() takes effect when it stores wpos, pop() when it stores rpos.
Contents == [j \in 1 .. Distance(rpos, wpos) |-> slot[Slot(Advance(rpos, j - 1))]]

Fifo == INSTANCE BoundedFifo WITH Item <- Frame, Bound <- Cap, queue <- Contents

IsAFifo == Fifo!Spec
=============================================================================

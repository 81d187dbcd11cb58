---------------------------- MODULE FrameChannel ----------------------------
(***************************************************************************)
(* What a network card promises the driver that reads it: while the card   *)
(* is up, frames come out whole, one at a time, in the order they were     *)
(* taken in.  The card may refuse a frame, but a frame it has taken is     *)
(* lost only when the driver resets the card.                              *)
(***************************************************************************)
EXTENDS Naturals, Sequences

CONSTANTS Item      \* what can be taken in

VARIABLES up,         \* whether the driver has set the card up
          queue,      \* frames taken in and not yet read
          delivered   \* the one it has read and not handed on, if any

channelVars == <<up, queue, delivered>>

Init == /\ up = FALSE
        /\ queue = << >>
        /\ delivered = << >>

SetUp == /\ ~up /\ up' = TRUE
         /\ UNCHANGED <<queue, delivered>>

Put(item) == /\ up
             /\ queue' = Append(queue, item)
             /\ UNCHANGED <<up, delivered>>

Take == /\ up /\ queue # << >> /\ delivered = << >>
        /\ delivered' = Head(queue)
        /\ queue' = Tail(queue)
        /\ UNCHANGED up

HandOver == /\ delivered' = << >>
            /\ UNCHANGED <<up, queue>>

Reset == /\ up' = FALSE
         /\ queue' = << >>
         /\ UNCHANGED delivered

Next == SetUp \/ (\E item \in Item : Put(item)) \/ Take \/ HandOver \/ Reset

Spec == Init /\ [][Next]_channelVars
=============================================================================

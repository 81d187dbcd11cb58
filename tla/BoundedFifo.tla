---------------------------- MODULE BoundedFifo ----------------------------
(***************************************************************************)
(* What a single-producer single-consumer queue promises, whoever          *)
(* implements it: batches go in whole at one moment, batches come out      *)
(* whole at one moment, in the order they went in, nothing is invented,    *)
(* lost or repeated, and the queue never holds more than Bound items.      *)
(*                                                                         *)
(* `delivered' is the batch the consumer got from its last Take, the only  *)
(* thing it can see.                                                       *)
(***************************************************************************)
EXTENDS Naturals, Sequences

CONSTANTS Item,     \* what is queued
          Bound     \* how many of them the queue can hold

VARIABLES queue, delivered

fifoVars == <<queue, delivered>>

\* Items may be there already when the two sides begin.
Init == /\ Len(queue) <= Bound
        /\ delivered = << >>

Put(batch) == /\ Len(queue) + Len(batch) <= Bound
              /\ queue' = queue \o batch
              /\ UNCHANGED delivered

Take(n) == /\ n <= Len(queue)
           /\ delivered' = SubSeq(queue, 1, n)
           /\ queue' = SubSeq(queue, n + 1, Len(queue))

Next == \/ \E n \in 0 .. Bound : \E batch \in [1 .. n -> Item] : Put(batch)
        \/ \E n \in 0 .. Bound : Take(n)

Spec == Init /\ [][Next]_fifoVars
=============================================================================

---------------------------- MODULE BoundedQueue ----------------------------
(***************************************************************************)
(* What a FIFO promises to both of its sides: words leave in the order in  *)
(* which they entered, Take at a time, none is lost, repeated or           *)
(* overwritten, and there are never more than Capacity.                    *)
(***************************************************************************)
EXTENDS Naturals, Sequences

CONSTANTS Words, Capacity, Take

VARIABLE queue

Put(w) == Len(queue) < Capacity /\ queue' = Append(queue, w)

Get == Len(queue) >= Take /\ queue' = SubSeq(queue, Take + 1, Len(queue))

\* The two sides have clocks of their own.
QueueSpec == queue = <<>> /\ [][(\E w \in Words : Put(w)) \/ Get]_queue
=============================================================================

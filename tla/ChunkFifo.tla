------------------------------ MODULE ChunkFifo ------------------------------
(***************************************************************************)
(* What the shared ring promises its two ends: a bounded queue of chunks   *)
(* that come out in the order they went in, each once. It may be emptied   *)
(* as a whole when a stream begins or ends.                                *)
(***************************************************************************)
EXTENDS Naturals, Sequences

CONSTANT Capacity
VARIABLE queue

Put   == /\ Len(queue) < Capacity
         /\ Len(queue') = Len(queue) + 1
         /\ SubSeq(queue', 1, Len(queue)) = queue
Get   == queue # <<>> /\ queue' = Tail(queue)
Clear == queue' = <<>>

Spec == queue = <<>> /\ [][Put \/ Get \/ Clear]_queue

=============================================================================

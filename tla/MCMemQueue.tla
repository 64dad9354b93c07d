----------------------------- MODULE MCMemQueue -----------------------------
(* Model-checking instance of MemQueue: two producers (one with an ACK     *)
(* callback, one forgetful), two output workers, a ring of 2 entries and a *)
(* push channel of 1, so that a full ring, a full push channel, batches    *)
(* acknowledged out of order and Close racing a reply all occur.  The      *)
(* liveness run (MCMemQueueLive.cfg) has one worker, a ring of 1 entry and *)
(* two calls per producer: the ring is full after one insert, so a Publish *)
(* waits on the output, and a producer calls again after a failed call    *)
(* has set its events channel to nil.                                     *)
EXTENDS MemQueue, TLC

CONSTANTS p1, p2, c1, c2

MCProducers == {p1, p2}
MCAckProducers == {p1}
MCConsumers == {c1, c2}
\* A single output worker, for the liveness run.
MCOneConsumer == {c1}
MCBatchSizes == {1, 2}

\* The two workers run the same loop: interchangeable for safety checking.
ConsumerSymmetry == Permutations(MCConsumers)
=============================================================================

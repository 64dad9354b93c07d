----------------------------- MODULE MCQueueTest -----------------------------
(* The test case "2 producers, 2 consumer, 1 ack, limited batches" of      *)
(* TestMultiProducerConsumer: makeProducer(events, true),                   *)
(* makeProducer(events, false), multiConsumer(2, events*2, batchSize), with *)
(* events = 3 per producer (6 for the workers) and batchSize = 1, on a     *)
(* memory queue of 2 entries, so that the ring fills and producers wait.  *)
EXTENDS QueueTest, TLC

CONSTANTS p1, p2, c1, c2

MCProducers == {p1, p2}
MCAckProducers == {p1}
MCConsumers == {c1, c2}
=============================================================================

----------------------------- MODULE QueueTest -----------------------------
(***************************************************************************)
(* The queuetest harness (package queuetest, in diskqueue/queue.go 296-602)*)
(* run against the memory queue: one test case of runTestCases.            *)
(*                                                                         *)
(* makeProducer: each producer goroutine calls Publish maxEvents times     *)
(* (MaxCalls) and, when waitACK is set (the producer has an ACK callback,  *)
(* AckProducers), waits on ackWG, to which the callback gives one Done per *)
(* acknowledged event.  multiConsumer: the workers share one WaitGroup     *)
(* `events`, loaded with ConsumerEvents, and call events.Done() once per   *)
(* event of every batch before batch.Done().  The test goroutine waits on  *)
(* wg for every producer and the consumer group, then the deferred         *)
(* queue.Close() runs.  Producers are never closed and TryPublish is not   *)
(* used by the harness.                                                    *)
(***************************************************************************)
EXTENDS MemQueue

CONSTANTS
  ConsumerEvents  \* maxEvents of multiConsumer: events the workers wait for

VARIABLES
  eventsWG        \* counter of the consumers' `events` WaitGroup

qtVars == <<vars, eventsWG>>

\* ackWG of a waitACK producer: maxEvents minus the counts its callback got.
AckWG(p) == MaxCalls - ackCount[p]

\* A producer goroutine has returned: all its Publish calls are done and, with
\* waitACK, ackWG.Wait() has returned.
ProducerFinished(p) ==
  /\ calls[p] = MaxCalls
  /\ pc[p] = "idle"
  /\ p \in AckProducers => AckWG(p) = 0

\* wg.Wait() in runTestCases returns.
WGDone == (\A p \in Producers : ProducerFinished(p)) /\ eventsWG = 0

-----------------------------------------------------------------------------

\* for i := 0; i < maxEvents; i++ { producer.Publish(...) }
PublishNext(p) ==
  /\ StartCall(p, "publish")
  /\ UNCHANGED eventsWG

\* Mutant: one events.Done() too many per batch (j <= batch.Count()).
CountBatchOverrun(c) ==
  /\ ConsumerDone(c)
  /\ eventsWG' = eventsWG - (batch[c].count + 1)

\* for j := 0; j < batch.Count(); j++ { events.Done() }; batch.Done()
CountBatch(c) ==
  /\ ConsumerDone(c)
  /\ eventsWG' = eventsWG - batch[c].count

\* Mutant: the queue is closed without waiting for the workers.
CloseQueueEarly ==
  /\ QueueClose
  /\ UNCHANGED eventsWG

\* wg.Wait(), then the deferred queue.Close().
CloseQueue ==
  /\ WGDone
  /\ QueueClose
  /\ UNCHANGED eventsWG

QTInit ==
  /\ Init
  /\ eventsWG = ConsumerEvents

QTNext ==
  \/ \E p \in Producers : PublishNext(p)
  \/ \E p \in Producers : ProducerStep(p) /\ UNCHANGED eventsWG
  \/ BrokerStep /\ UNCHANGED eventsWG
  \/ \E c \in Consumers :
       \/ \E n \in BatchSizes : ConsumerGet(c, n) /\ UNCHANGED eventsWG
       \/ ConsumerExit(c) /\ UNCHANGED eventsWG
       \/ CountBatch(c)
  \/ CloseQueue

\* Every goroutine of the test keeps running: the producer loops, the
\* broker, the workers and the test goroutine itself.
QTFairness ==
  /\ \A p \in Producers : WF_qtVars(PublishNext(p))
  /\ \A p \in Producers : WF_qtVars(ProducerStep(p) /\ UNCHANGED eventsWG)
  /\ WF_qtVars(BrokerStep /\ UNCHANGED eventsWG)
  /\ \A c \in Consumers :
       WF_qtVars(\/ \E n \in BatchSizes : ConsumerGet(c, n) /\ UNCHANGED eventsWG
                 \/ ConsumerExit(c) /\ UNCHANGED eventsWG
                 \/ CountBatch(c))
  /\ WF_qtVars(CloseQueue)

QTSpec == QTInit /\ [][QTNext]_qtVars /\ QTFairness

-----------------------------------------------------------------------------
(* Properties *)

\* sync.WaitGroup panics on a negative counter: the workers never count
\* more events than ConsumerEvents, and no ACK callback gives a waitACK
\* producer more Done calls than the events it published.
NoNegativeWaitGroup ==
  /\ eventsWG >= 0
  /\ \A p \in AckProducers : AckWG(p) >= 0

\* The test case terminates: wg.Wait() returns and the queue is closed.
TestTerminates == <>(WGDone /\ closing)

=============================================================================

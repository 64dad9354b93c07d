CONSTANTS
  p1 = p1
  p2 = p2
  c1 = c1
  c2 = c2
  NoProducer = NoProducer
  NoConsumer = NoConsumer
  Producers <- MCProducers
  AckProducers <- MCAckProducers
  Consumers <- MCConsumers
  BatchSizes <- MCBatchSizes
  Events = 2
  ChanSize = 1
  FlushTimeout = TRUE
  MaxCalls = 2

SPECIFICATION Spec

INVARIANT TypeOK
INVARIANT CursorOrder
INVARIANT AckAccounting
INVARIANT NoDuplicateDelivery
INVARIANT ProducerIDsInOrder



CHECK_DEADLOCK FALSE
SYMMETRY ConsumerSymmetry

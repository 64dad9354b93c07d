CONSTANTS
  p1 = p1
  p2 = p2
  c1 = c1
  c2 = c2
  NoProducer = NoProducer
  NoConsumer = NoConsumer
  Producers <- MCProducers
  AckProducers <- MCAckProducers
  Consumers <- MCConsumers
  BatchSizes <- MCBatchSizes
  Events = 1
  ChanSize = 1
  FlushTimeout = TRUE
  MaxCalls = 1

SPECIFICATION OutputDownSpec

PROPERTY CancelUnblocksPublish

CHECK_DEADLOCK FALSE

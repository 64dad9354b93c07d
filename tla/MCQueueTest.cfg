CONSTANTS
  p1 = p1
  p2 = p2
  c1 = c1
  c2 = c2
  NoProducer = NoProducer
  NoConsumer = NoConsumer
  Producers <- MCProducers
  AckProducers <- MCAckProducers
  Consumers <- MCConsumers
  BatchSizes = {1}
  Events = 2
  ChanSize = 1
  FlushTimeout = TRUE
  MaxCalls = 3
  ConsumerEvents = 6

SPECIFICATION QTSpec

INVARIANT NoNegativeWaitGroup
PROPERTY TestTerminates

CHECK_DEADLOCK FALSE

CONSTANTS
  x1 = x1
  x2 = x2
  q1 = q1
  q2 = q2
  q3 = q3
  SmallSetSize = 2
  Channels = {c1}
  ExchangeNames = {x1, x2}
  QueueNames = {q1, q3}
  Keys = {0, 1}
  Bootstraps <- MCBootstraps
  Embedded <- MCEmbedded
  MaxExchanges = 2
  MaxBindings = 3
  MaxQueueId = 3
SPECIFICATION Spec
INVARIANTS
  RoutesMatchBindings
  PublishReachesBoundQueues

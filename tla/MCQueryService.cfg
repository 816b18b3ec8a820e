CONSTANTS
  p = p
  g = g
  App = {p}
  Agent = {g}
  PoolSize = 1
  RerankAttempts = 2
  LlmAttempts = 2
  FailureThreshold = 2
SPECIFICATION FairSpec
INVARIANTS
  TypeOK
  PoolAccounted
  ServedWithScope
  NothingUsedAfterClose
  LeavesNothingOpen
PROPERTIES
  ImplementsQueryContract
  EveryHandlerEnds
  PodComesBack
  ShutdownEnds
CHECK_DEADLOCK FALSE

CONSTANTS
  p = p
  g = g
  App = {p}
  Agent = {g}
  PoolSize = 1
  RerankAttempts = 1
  LlmAttempts = 1
  FailureThreshold = 1
SPECIFICATION FairSpec
INVARIANT
  AgentsWithScopeAreServed
CHECK_DEADLOCK FALSE

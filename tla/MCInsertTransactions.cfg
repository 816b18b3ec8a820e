CONSTANTS
  j = j
  k = k
  l = l
  h1 = h1
  h2 = h2
  h3 = h3
  Session = {j, k, l}
  Key = {h1, h2, h3}
  Rows <- MCRows
  MaxRetries = 1
SPECIFICATION FairSpec
INVARIANT IInv
PROPERTIES
  ImplementsChunkTable
  EveryJobEnds
\* The jobs end.
CHECK_DEADLOCK FALSE

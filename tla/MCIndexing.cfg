CONSTANTS
  MaxLen = 5
  Texts <- MCTexts
  PageMaps <- MCPageMaps
  Widths <- MCWidths
  MaxInputs = 2
  EmbedAttempts = 2
SPECIFICATION IndexingSpec
INVARIANTS
  TypeOK
  IndicesConsecutive
  EveryWordCited
  NeighboursTogether
  PagesCover
  NestingWhenUnskipped
  RowsCarryTheirOwnVector
\* A call ends.
CHECK_DEADLOCK FALSE

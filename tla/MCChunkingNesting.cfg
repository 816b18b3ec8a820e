CONSTANTS
  MaxLen = 3
  Texts <- MCTexts
  PageMaps <- MCPageMaps
  Widths <- MCWidths
SPECIFICATION Spec
INVARIANT NestingPreserved
CHECK_DEADLOCK FALSE

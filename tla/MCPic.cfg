SPECIFICATION MCSpec
\* Two master lines and one slave line, masks that open none, some or all of them.
CONSTANTS
  Lines = {1, 4, 10}
  Masks = {{}, {4}, {0, 1, 2, 3, 4, 5, 6, 7}}
  Bases = {8}
  DigitCap = 2
  RxDepth = 2
  RxBytes = {"k"}
  RxQueue = 3
  MaxKeys = 4
  MaxPrints = 2
  PrintLen = 2
  MaxFdc = 2
INVARIANT NoSpuriousIack
PROPERTIES EdgePersists ServiceIsNested CascadeServesBoth NoPriorityInversion
  SourcesServed

\* One adapter, polls in order and without lag. The clock ends.
SPECIFICATION Spec
CONSTANTS
  a1 = a1  a2 = a2
  h1 = h1  h2 = h2
  Adapters <- OneAdapter
  Hexes <- OneHex
  Threshold = 2
  MaxLag = 0
  MaxTime = 4
PROPERTY CountsNewFix
CHECK_DEADLOCK FALSE

\* Two adapters with polls up to a tick late, which may cross.  The clock ends.
SPECIFICATION Spec
CONSTANTS
  a1 = a1  a2 = a2
  h1 = h1  h2 = h2
  Adapters <- TwoAdapters
  Hexes <- OneHex
  Threshold = 2
  MaxLag = 1
  MaxTime = 4
INVARIANT NoInflation
PROPERTY AbsentLongEnough
CHECK_DEADLOCK FALSE

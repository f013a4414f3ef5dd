\* Two connections to the daemon one after the other, data events that end inside an
\* escape, of the frame or of a byte in it, files written one at a time,
\* and a daemon that publishes one window with telemetry, perhaps after one without.
\* The clock ends.
SPECIFICATION ChainSpec
CONSTANTS
  w1 = w1  w2 = w2  f1 = f1
  Writers <- OneWriter
  Flushers <- OneFlusher
  MaxTime = 2
  MaxLinks = 2
  MaxSockets = 2
  MaxCuts = 1
  MaxBatches = 1
  Undeletable <- FirstFile
  Cuts <- InEscapes
INVARIANTS
  WindowsDisjoint
  DataAccounted
  CapturesAccounted
  SplitInverts
  FramesCounted
CHECK_DEADLOCK FALSE

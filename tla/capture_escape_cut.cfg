\* A data event that ends inside an escape. The clock ends.
SPECIFICATION ChainSpec
CONSTANTS
  w1 = w1  w2 = w2  f1 = f1
  Writers <- OneWriter
  Flushers <- OneFlusher
  MaxTime = 2
  MaxLinks = 2
  MaxSockets = 2
  MaxCuts = 1
  MaxBatches = 1
  Undeletable <- FirstFile
  Cuts <- InEscapes
INVARIANT CountExact
CHECK_DEADLOCK FALSE

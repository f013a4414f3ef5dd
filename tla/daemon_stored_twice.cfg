\* The answer of one createRecord is lost.
CONSTANTS
  a1 = a1
  a2 = a2
  h1 = h1
  h2 = h2
  f1 = f1
  f2 = f2
  Hexes <- OneAircraft
  Categories <- NoCategories
  Handlers <- OneHandler
  Flushers <- OneFlusher
  Captures <- NoCaptures
  RawCaptureEnabled = FALSE
  MinFlushes = 1
  LostResponses = TRUE
  MaxTransits = 2
  MaxWindows = 2
  MaxFailures = 1
  MaxRestarts = 0
SPECIFICATION Spec
INVARIANT ExactlyOneSighting

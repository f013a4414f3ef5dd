\* Two aircraft may depart in one message; their windows are split into chunks and
\* published at the same time; raw captures and category updates take part.
SPECIFICATION Spec
SYMMETRY Symmetry
CONSTANTS
  a1 = a1
  a2 = a2
  h1 = h1
  h2 = h2
  f1 = f1
  f2 = f2
  Hexes <- TwoAircraft
  Categories = {"A1"}
  Handlers <- OneHandler
  Flushers <- TwoFlushers
  Captures = {"raw"}
  RawCaptureEnabled = TRUE
  MinFlushes = 1
  LostResponses = TRUE
  MaxTransits = 1
  MaxWindows = 2
  MaxFailures = 1
  MaxRestarts = 0
INVARIANTS
  OneSightingPerAircraft
  TelemetryAccounted

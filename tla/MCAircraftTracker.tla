-------------------------- MODULE MCAircraftTracker --------------------------
(* The instances of AircraftTracker that TLC checks. *)
EXTENDS AircraftTracker, TLC

CONSTANTS a1, a2,   \* adapters
          h1, h2    \* aircraft

OneAdapter == {a1}
TwoAdapters == {a1, a2}
OneHex == {h1}
TwoHexes == {h1, h2}

=============================================================================

---------------------------- MODULE MCStationStats ----------------------------
(* The instances of StationStats that TLC checks. *)
EXTENDS StationStats

CONSTANTS a1,       \* an aircraft
          h1,       \* a call of onAircraft
          d1, d2    \* drains

OneAircraft == {a1}
OneHandler == {h1}
TwoDrains == {d1, d2}

=============================================================================

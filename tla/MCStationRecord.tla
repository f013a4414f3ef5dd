--------------------------- MODULE MCStationRecord ---------------------------
(* The instances of StationRecord that TLC checks. *)
EXTENDS StationRecord, TLC

CONSTANTS k1, k2,   \* keys
          e1, e2,   \* endpoints
          c1        \* a consumer

TwoKeys == {k1, k2}
TwoEndpoints == {e1, e2}
OneEndpoint == {e1}
OneConsumer == {c1}
NoConsumers == {}
Symmetric == Permutations(TwoKeys)

=============================================================================

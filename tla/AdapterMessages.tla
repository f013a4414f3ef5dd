---------------------------- MODULE AdapterMessages ----------------------------
(***************************************************************************)
(* What becomes of readsb's JSON on its way to the daemon's callbacks:     *)
(* the mapping to messages (src/server/src/adapters/readsb-mapping.ts),    *)
(* JSON.stringify and JSON.parse, and the validation of what comes out of  *)
(* the socket (src/server/src/normalized.ts).                              *)
(*                                                                         *)
(* An object is a function from field names to values; a field that is not *)
(* in its domain is absent.  A number is 0, 1 or infinite, a string is     *)
(* known by its length.  readsb's names of the fields of an aircraft are   *)
(* written as the daemon's, seen_pos as seenPos.                           *)
(***************************************************************************)
EXTENDS Naturals, Sequences

Undefined == [is |-> "undefined"]
Null == [is |-> "null"]
Infinite == [is |-> "infinity"]   \* 1e999 in JSON
Number(n) == [is |-> "number", n |-> n]
String(text, length) == [is |-> "string", text |-> text, length |-> length]
Object(fields) == [is |-> "object", fields |-> fields]
Array(items) == [is |-> "array", items |-> items]
Ground == String("ground", 6)

Get(obj, f) == IF f \in DOMAIN obj THEN obj[f] ELSE Undefined

RequiredNumbers == {"seen", "rssi", "messages"}
OptionalNumbers == {"lat", "lon", "seenPos", "altGeom", "gs", "track", "baroRate",
                    "navQnh", "nic", "rc"}
OptionalStrings == {"flight", "squawk", "category"}
AircraftFields ==
  {"icaoHex", "source", "altBaro"} \cup RequiredNumbers \cup OptionalNumbers
    \cup OptionalStrings

-----------------------------------------------------------------------------
\* The operator ?? of the code.
Coalesce(v, w) == IF v \in {Undefined, Null} THEN w ELSE v

UpperCase(s) == [s EXCEPT !.text = "ABC123"]

\* readsb's lastPosition is an object of its own, or absent.
mapReadsbToNormalized(ac, sourceOverride) ==
  [f \in AircraftFields |->
     CASE f = "icaoHex" -> UpperCase(ac.hex)
       [] f = "source" ->
            Coalesce(sourceOverride, Coalesce(Get(ac, "type"), String("mode_s", 6)))
       [] f \in {"nic", "rc"} ->
            IF "lastPosition" \in DOMAIN ac THEN Get(ac.lastPosition, f) ELSE Undefined
       [] OTHER -> Get(ac, f)]

AircraftMessage(now, aircraft, sourceOverride) ==
  [type |-> String("aircraft", 8), timestamp |-> now,
   aircraft |-> Array([i \in DOMAIN aircraft |->
                         mapReadsbToNormalized(aircraft[i], sourceOverride)])]

\* local: the object last1min.local of stats.json.
StatsMessage(valid, positions, local) ==
  [type |-> String("stats", 5), protocol |-> String("adsb", 4),
   messagesReceived |-> valid, positionsDecoded |-> positions,
   signal |-> Object([meanDbfs |-> Get(local, "signal"),
                      noiseDbfs |-> Get(local, "noise"),
                      strongCount |-> Get(local, "strongSignals")])]

HandshakeMessage(sourceId) ==
  [type |-> String("handshake", 9), sourceId |-> sourceId,
   protocol |-> String("adsb", 4), version |-> Number(1)]

Moment == String("2026-01-01T00:00:00.000Z", 24)
RawCaptureMessage(filePath) ==
  [type |-> String("rawCapture", 10), filePath |-> filePath, windowStart |-> Moment,
   windowEnd |-> Moment]

\* JSON.stringify and JSON.parse: an undefined field is left out, an infinite number
\* is null.
Flat(obj) ==
  [f \in {g \in DOMAIN obj : obj[g] # Undefined} |->
     IF obj[f] = Infinite THEN Null ELSE obj[f]]

OnWire(message) ==
  [f \in DOMAIN Flat(message) |->
     CASE message[f].is = "object" -> Object(Flat(message[f].fields))
       [] message[f].is = "array" ->
            Array([i \in DOMAIN message[f].items |-> Flat(message[f].items[i])])
       [] OTHER -> Flat(message)[f]]

-----------------------------------------------------------------------------
isNonEmptyString(v) == v.is = "string" /\ v.length > 0

isNumber(v) == v.is = "number"

\* Mutant of Kept: if (value) instead of value !== undefined.
KeptIfTruthy(v) == v \notin {Undefined, Null, Number(0)}

\* An optional field is taken over unless it is undefined.
Kept(v) == v # Undefined

validateNormalizedAircraft(obj) ==
  IF /\ isNonEmptyString(Get(obj, "icaoHex"))
     /\ isNonEmptyString(Get(obj, "source"))
     /\ obj["source"].length <= 32
     /\ \A f \in RequiredNumbers : isNumber(Get(obj, f))
     /\ \A f \in OptionalNumbers \cup {"altBaro"} :
          \/ Get(obj, f) = Undefined
          \/ isNumber(Get(obj, f))
          \/ f = "altBaro" /\ obj[f] = Ground
     /\ \A f \in OptionalStrings : Get(obj, f).is \in {"undefined", "string"}
  THEN [f \in {g \in AircraftFields : g \in RequiredNumbers \/ Kept(Get(obj, g))} |->
          obj[f]]
  ELSE Null

\* One aircraft that is refused, and the message is.
validateAircraftMessage(obj) ==
  LET validated == [i \in DOMAIN obj.aircraft.items |->
                      validateNormalizedAircraft(obj.aircraft.items[i])]
  IN  IF ~isNumber(Get(obj, "timestamp")) \/ \E i \in DOMAIN validated : validated[i] = Null
      THEN Null
      ELSE [obj EXCEPT !.aircraft = Array(validated)]

validateStatsMessage(obj) ==
  IF /\ isNonEmptyString(Get(obj, "protocol"))
     /\ isNumber(Get(obj, "messagesReceived"))
     /\ isNumber(Get(obj, "positionsDecoded"))
     /\ "signal" \in DOMAIN obj =>
          \A f \in {"meanDbfs", "noiseDbfs", "strongCount"} : isNumber(Get(obj.signal.fields, f))
  THEN obj ELSE Null

validateHandshakeMessage(obj) ==
  IF /\ isNonEmptyString(Get(obj, "sourceId"))
     /\ isNonEmptyString(Get(obj, "protocol"))
     /\ Get(obj, "version") = Number(1)
  THEN obj ELSE Null

validateRawCaptureMessage(obj) ==
  IF \A f \in {"filePath", "windowStart", "windowEnd"} : isNonEmptyString(Get(obj, f))
  THEN obj ELSE Null

\* The message, or Null when it is refused.
validateAdapterMessage(obj) ==
  CASE obj.type.text = "handshake"  -> validateHandshakeMessage(obj)
    [] obj.type.text = "aircraft"   -> validateAircraftMessage(obj)
    [] obj.type.text = "stats"      -> validateStatsMessage(obj)
    [] obj.type.text = "rawCapture" -> validateRawCaptureMessage(obj)

=============================================================================

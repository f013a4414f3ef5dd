----------------------------- MODULE AdapterFeed -----------------------------
(***************************************************************************)
(* The readsb adapter with what it writes: the connection and the polls of *)
(* ReadsbAdapter, whose messages carry what readsb answered and are        *)
(* validated by the daemon (AdapterMessages).                              *)
(*                                                                         *)
(* heard is what the last step brought to the daemon's processBuffer, with *)
(* what it was made from; a message that does not follow a handshake is    *)
(* not looked at.                                                          *)
(***************************************************************************)
EXTENDS ReadsbAdapter, AdapterMessages

CONSTANTS Overrides,   \* values of sourceOverride in the configuration
          OddPolls     \* bound: slots whose polls get other aircraft than the ordinary one

\* The command line trims it, and takes an empty one for none.
ASSUME OverrideAssumption ==
  \A v \in Overrides : v = Undefined \/ (isNonEmptyString(v) /\ v.length \in Nat)

VARIABLES sourceOverride,  \* config.sourceOverride
          heard            \* [of, said, given], or Nothing

feedVars == <<adapterVars, sourceOverride, heard>>

Nothing == [of |-> "nothing"]

FeedInit == AdapterInit /\ sourceOverride \in Overrides /\ heard = Nothing

-----------------------------------------------------------------------------
\* What readsb may say of an aircraft (external): the least, with up to two fields
\* more or otherwise.
Least == [hex |-> String("abc123", 6), seen |-> Number(0), rssi |-> Number(1),
          messages |-> Number(1)]
Without(obj, f) == [g \in DOMAIN obj \ {f} |-> obj[g]]
With(obj, f, v) == [g \in DOMAIN obj \cup {f} |-> IF g = f THEN v ELSE obj[g]]
Values == {Null, Infinite, Number(0), Number(1), Ground, String("", 0)}

Plain == (OptionalNumbers \ {"nic", "rc"}) \cup OptionalStrings
           \cup {"altBaro"}
SaidAircraft ==
  {Least} \cup {Without(Least, f) : f \in RequiredNumbers}
    \cup {With(Least, f, v) : f \in Plain \cup RequiredNumbers, v \in Values}
    \cup {With(Least, "type", v) :
            v \in {Null, String("adsb_icao", 9), String("a long name", 33)}}
    \cup {With(Least, "lastPosition", [nic |-> n, rc |-> r]) :
            n, r \in {Undefined, Number(0), Number(1)}}
    \cup {With(With(Least, "lat", v), "lon", w) :
            v, w \in {Undefined, Null, Number(0), Number(1)}}

SaidLocal ==
  {[signal |-> s, noise |-> Number(0), strongSignals |-> n] :
     s \in {Undefined, Null, Number(0), Number(1)}, n \in {Number(0), Number(1)}}

\* A message in the daemon, when it follows a handshake.
Heard(of, said, message) ==
  heard' = IF Accepted THEN [of |-> of, said |-> said,
                             given |-> validateAdapterMessage(OnWire(message))]
           ELSE Nothing

-----------------------------------------------------------------------------
\* pollOnce: two aircraft, of which the first is the ordinary one.
FeedAircraft(p) ==
  \E ac \in SaidAircraft :
    /\ p \in OddPolls \/ ac = Least
    /\ Aircraft(p)
    /\ Heard("aircraft", <<Least, ac>>,
             AircraftMessage(Number(1), <<Least, ac>>, sourceOverride))

FeedStats(p) ==
  \E local \in SaidLocal, count \in {Number(0), Number(1)} :
    LET message == StatsMessage(count, count, local)
    IN  /\ Stats(p, validateAdapterMessage(OnWire(message)) # Null)
        /\ IF last' = last THEN heard' = Nothing
           ELSE Heard("stats", [local |-> local, count |-> count], message)

\* flushBatchWindow tells the daemon of a file it has written, over whatever socket
\* it has; like a poll, the writing may outlast the wait for a reconnect.
FeedCapture ==
  /\ link \in {"connecting", "open"}
  /\ slow' = slow + IF link = "connecting" THEN 1 ELSE 0
  /\ slow' <= MaxSlow
  /\ Write
  /\ Heard("rawCapture", "/tmp/atrx", RawCaptureMessage(String("/tmp/atrx", 9)))
  /\ UNCHANGED <<link, retry, delay, tries, lastWait, polling, poll, stats, window,
                 daemonUp, outages>>

\* The handshake, the first message of a connection unless a poll wrote before it.
FeedHandshake ==
  /\ Connected
  /\ LET sourceId == String("readsb-1090", 11)
     IN  heard' = IF first # Unset THEN Nothing
                  ELSE [of |-> "handshake", said |-> sourceId,
                        given |-> validateAdapterMessage(
                                    OnWire(HandshakeMessage(sourceId)))]

\* The steps that bring the daemon nothing.
Quiet ==
  \/ Errored \/ Finished \/ Closed \/ Reconnect \/ StopAdapter \/ PollTimer
  \/ \E p \in Polls : Answer(p) \/ PollFails(p)
  \/ NextWindow \/ DaemonStops \/ DaemonStarts

FeedNext ==
  /\ UNCHANGED sourceOverride
  /\ \/ Quiet /\ heard' = Nothing
     \/ \E p \in Polls : FeedAircraft(p) \/ FeedStats(p)
     \/ FeedHandshake \/ FeedCapture

FeedSpec == FeedInit /\ [][FeedNext]_feedVars /\ Fairness

-----------------------------------------------------------------------------
IsFinite(v) == v \in {Number(0), Number(1)}

\* The aircraft is as the type ReadsbAircraft (readsb.ts) declares it, its altitude a
\* number or "ground", and its source not longer than normalized.ts allows.
Declared(ac) ==
  /\ \A f \in RequiredNumbers : IsFinite(Get(ac, f))
  /\ \A f \in OptionalNumbers \cap DOMAIN ac : ac[f] = Undefined \/ IsFinite(ac[f])
  /\ \A f \in OptionalStrings \cap DOMAIN ac : ac[f].is = "string"
  /\ "altBaro" \in DOMAIN ac => IsFinite(ac.altBaro) \/ ac.altBaro = Ground
  /\ LET source == Coalesce(sourceOverride, Get(ac, "type"))
     IN  source = Undefined \/ (source.is = "string" /\ source.length <= 32)

\* What readsb says of an aircraft, zero or not, is what the daemon has of it.
SameAircraft(said, given) ==
  /\ given.icaoHex = UpperCase(said.hex)
  /\ \A f \in AircraftFields \ {"icaoHex", "source", "nic", "rc"} :
       Get(given, f) = Get(said, f)
  /\ \A f \in {"nic", "rc"} :
       "lastPosition" \in DOMAIN said => Get(given, f) = said.lastPosition[f]
  /\ given.source \in {sourceOverride, Get(said, "type"), String("mode_s", 6)}
  /\ sourceOverride # Undefined => given.source = sourceOverride

\* What readsb declares reaches the daemon's callbacks as it was said: no field is lost
\* because it is zero or empty, and no message is refused, a stats window with
\* nothing in it included.
DeclaredIsHeard ==
  /\ heard.of = "aircraft" /\ (\A i \in {1, 2} : Declared(heard.said[i])) =>
       /\ heard.given # Null
       /\ \A i \in {1, 2} : SameAircraft(heard.said[i], heard.given.aircraft.items[i])
  /\ heard.of = "stats" /\ IsFinite(heard.said.local.signal) =>
       /\ heard.given # Null
       /\ heard.given.messagesReceived = heard.said.count
       /\ heard.given.signal.fields.meanDbfs = heard.said.local.signal
       /\ heard.given.signal.fields.strongCount = heard.said.local.strongSignals
  /\ heard.of \in {"handshake", "rawCapture"} => heard.given # Null

\* Whatever readsb says, the callbacks get no aircraft without the numbers and the
\* strings they use unseen (buildAircraftUpdate, tracker.update: a throw there ends
\* the handling of the whole message, its departures included).
HeardIsUsable ==
  heard.of = "aircraft" /\ heard.given # Null =>
    \A i \in {1, 2} :
      LET ac == heard.given.aircraft.items[i]
      IN  /\ \A f \in RequiredNumbers : IsFinite(Get(ac, f))
          /\ \A f \in {"icaoHex", "source"} : Get(ac, f).is = "string"
          /\ \A f \in OptionalNumbers \cap DOMAIN ac : IsFinite(ac[f])
          /\ \A f \in OptionalStrings \cap DOMAIN ac : ac[f].is = "string"

\* Both: from readsb's answer through the wire and the validators to the callbacks
\* nothing declared is lost or changed, and nothing unusable gets through.
HeardAsSaid == DeclaredIsHeard /\ HeardIsUsable

\* Extra, violated: a stats window counts as sent only when the daemon has it.
NoWindowSkipped == last # Unset => reported[last] > 0

=============================================================================

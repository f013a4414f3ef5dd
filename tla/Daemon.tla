------------------------------- MODULE Daemon -------------------------------
(***************************************************************************)
(* The provenance pipeline of the daemon (src/server/src/daemon.ts,        *)
(* runDaemon): position reports are gathered in a window, each window      *)
(* becomes one or more sighting records at the PDS, and an aircraft that   *)
(* departs gets a flight record that refers to its identity record and to  *)
(* the sightings it appears in.                                            *)
(*                                                                         *)
(* One process runs everything, and switches between callbacks only where  *)
(* one awaits a call: an action is the code from one await to the next.    *)
(* Handlers are the calls of onAircraft that still work on departures,     *)
(* Flushers the callbacks of the batch timer that still publish a window;  *)
(* neither waits for an earlier one.  What handlers share with flushers is *)
(* index (batchIndex): the references gathered for each aircraft.          *)
(*                                                                         *)
(* The tracker appears by what the pipeline sees of it (AircraftTracker    *)
(* models it), the publish queue by its contract (PublishQueue implements  *)
(* it): a queued record stays until a drain has stored it.                 *)
(*                                                                         *)
(* The PDS gives every record it creates a key of its own: pds is the set  *)
(* of what it holds, twice the part of it that it holds under more keys    *)
(* than one.                                                               *)
(***************************************************************************)
EXTENDS Integers

CONSTANTS Hexes,              \* ICAO addresses
          Categories,         \* emitter categories an aircraft may report
          Handlers, Flushers, \* slots for concurrent callbacks
          Captures,           \* raw capture files
          RawCaptureEnabled,  \* config.rawCaptureEnabled
          MinFlushes,         \* window ends in 60 s of absence, rounded down
          LostResponses,      \* TRUE: a call may fail after the PDS acted
          MaxTransits,        \* bound: transits of one aircraft
          MaxWindows,         \* bound: windows with telemetry
          MaxFailures,        \* bound: calls that fail
          MaxRestarts         \* bound: process deaths and restarts

ASSUME SwitchAssumption == LostResponses \in BOOLEAN /\ RawCaptureEnabled \in BOOLEAN
ASSUME BoundAssumption ==
  /\ MinFlushes \in Nat
  /\ MaxTransits \in Nat
  /\ MaxWindows \in Nat \ {0}
  /\ MaxFailures \in Nat
  /\ MaxRestarts \in Nat
ASSUME SlotAssumption == "final" \notin Flushers
ASSUME CategoryAssumption == {"unknown", "none"} \cap Categories = {}

VARIABLES
  tracked,     \* hex -> the tracker's entry
  telemetry,   \* transits with reports in the open window
  window,      \* number of the open window
  rawPaths,    \* capture files reported in the open window
  files,       \* capture file -> "unused", "disk" or "deleted"
  index,       \* batchIndex: hex -> sightings
  cache,       \* identity cache: hex -> category, or "unknown"
  handler,     \* slot -> departures in progress
  job,         \* slot -> window in progress
  mode,        \* "up", or where shutdown stands
  queued,      \* [sightings, flights] in the publish queue
  sent,        \* queued records that a drain has stored: the row is deleted
               \* or about to be
  pds,         \* [sightings, flights, identities: hex -> Nat] at the PDS
  twice,       \* [sightings, flights] that the PDS has more than once
  failures,    \* calls failed so far
  restarts,    \* restarts so far
  heard,       \* history of this run: reports, by window and transit
  dropped,     \* history of this run: those of windows given up
  gone         \* history of this run: departed transits with a position

memory == <<tracked, telemetry, window, rawPaths>>
store == <<queued, sent, pds, twice>>
history == <<heard, dropped, gone>>
vars == <<memory, files, index, cache, handler, job, mode, store,
          failures, restarts, history>>

Transit == [hex : Hexes, n : 1 .. MaxTransits]
Sighting == [win : 1 .. MaxWindows, reports : SUBSET Transit]
Flight == [transit : Transit, refs : SUBSET Sighting]
Category == Categories \cup {"none"}
Departure == [transit : Transit, fixed : BOOLEAN, category : Category]
Jobs == Flushers \cup {"final"}

Tracked == [n : 0 .. MaxTransits, live : BOOLEAN, fixed : BOOLEAN,
            flushes : 0 .. MinFlushes]
HandlerState == [stage : {"idle", "signing", "identity", "category", "flight"},
                 stored : BOOLEAN, todo : SUBSET Departure,
                 now : SUBSET Departure, refs : SUBSET Sighting]
JobState == [stage : {"idle", "raw", "upload", "create"}, stored : BOOLEAN,
             win : 1 .. MaxWindows, raw : SUBSET Captures,
             rest : SUBSET SUBSET Transit, chunk : SUBSET Transit]

NotTracked(n) == [n |-> n, live |-> FALSE, fixed |-> FALSE, flushes |-> 0]
NoHandler == [stage |-> "idle", stored |-> FALSE, todo |-> {}, now |-> {},
              refs |-> {}]
NoJob == [stage |-> "idle", stored |-> FALSE, win |-> 1, raw |-> {},
          rest |-> {}, chunk |-> {}]

Init ==
  /\ tracked = [hex \in Hexes |-> NotTracked(0)]
  /\ telemetry = {}
  /\ window = 1
  /\ rawPaths = {}
  /\ files = [file \in Captures |-> "unused"]
  /\ index = [hex \in Hexes |-> {}]
  /\ cache = [hex \in Hexes |-> "unknown"]
  /\ handler = [h \in Handlers |-> NoHandler]
  /\ job = [j \in Jobs |-> NoJob]
  /\ mode = "up"
  /\ queued = [sightings |-> {}, flights |-> {}]
  /\ sent = [sightings |-> {}, flights |-> {}]
  /\ pds = [sightings |-> {}, flights |-> {}, identities |-> [hex \in Hexes |-> 0]]
  /\ twice = [sightings |-> {}, flights |-> {}]
  /\ failures = 0
  /\ restarts = 0
  /\ heard = {}
  /\ dropped = {}
  /\ gone = {}

Manifest(reports) == {t.hex : t \in reports}
InWindow(win, reports) == {[win |-> win, transit |-> t] : t \in reports}

\* A call to the PDS may fail; if it had already acted only under LostResponses.
MayFail(stored) == failures < MaxFailures /\ (stored => LostResponses)

\* The PDS creates a record, whether or not it has the like of it already.
StoreSighting(s) ==
  /\ pds' = [pds EXCEPT !.sightings = @ \cup {s}]
  /\ twice' = [twice EXCEPT !.sightings = @ \cup (pds.sightings \cap {s})]

StoreFlight(f) ==
  /\ pds' = [pds EXCEPT !.flights = @ \cup {f}]
  /\ twice' = [twice EXCEPT !.flights = @ \cup (pds.flights \cap {f})]

-----------------------------------------------------------------------------
(* onAircraft: the departures of one message.                              *)

NeedsUpdate(ac, known) ==
  ac.category # "none" /\ ac.category # known[ac.transit.hex]

\* Handling the departure awaits nothing: no position, or an identity that is
\* known and up to date but no sighting to refer to.
Silent(ac, known) ==
  \/ ~ac.fixed
  \/ /\ known[ac.transit.hex] # "unknown"
     /\ ~NeedsUpdate(ac, known)
     /\ index[ac.transit.hex] = {}

\* The call a departure that is not silent awaits first.
FirstCall(ac, known) ==
  IF known[ac.transit.hex] = "unknown" THEN "identity"
  ELSE IF NeedsUpdate(ac, known) THEN "category" ELSE "flight"

\* The loop over the departures runs to its next await: silent ones are done
\* at once, and each departure reached takes its references out of the index.
Outcomes(todo, known) ==
  LET silent == {ac \in todo : Silent(ac, known)}
  IN  (IF silent = todo THEN {[state |-> NoHandler, done |-> todo]} ELSE {})
      \cup
      {[state |-> [stage |-> FirstCall(p[1], known), stored |-> FALSE,
                   todo |-> (todo \ p[2]) \ {p[1]}, now |-> {p[1]},
                   refs |-> index[p[1].transit.hex]],
        done |-> p[2] \cup {p[1]}] : p \in (todo \ silent) \X SUBSET silent}

LoopOnKeepingRefs(h, todo, known) ==
  /\ \E outcome \in Outcomes(todo, known) :
       handler' = [handler EXCEPT ![h] = outcome.state]
  /\ UNCHANGED index

LoopOn(h, todo, known) ==
  \E outcome \in Outcomes(todo, known) :
    /\ handler' = [handler EXCEPT ![h] = outcome.state]
    /\ index' = [hex \in Hexes |->
         IF \E ac \in outcome.done : ac.transit.hex = hex THEN {} ELSE index[hex]]

\* The identity is settled: buildFlightRecord gives no record without a
\* reference; otherwise the flight is sent.
FlightOrStuck(h, ac, known) ==
  /\ handler' = IF handler[h].refs = {} THEN handler
                ELSE [handler EXCEPT ![h].stage = "flight", ![h].stored = FALSE]
  /\ UNCHANGED index

FlightOrOn(h, ac, known) ==
  IF handler[h].refs = {}
  THEN LoopOn(h, handler[h].todo, known)
  ELSE /\ handler' = [handler EXCEPT ![h].stage = "flight", ![h].stored = FALSE]
       /\ UNCHANGED index

FlightOf(h, ac) == [transit |-> ac.transit, refs |-> handler[h].refs]

\* The flight record goes to the publish queue.
ForgetFlight(h, ac) == queued
QueueFlight(h, ac) == [queued EXCEPT !.flights = @ \cup {FlightOf(h, ac)}]

\* tracker.update for a message with the aircraft in seen, of which those in
\* fixes have a new position.
SightAnew(seen, fixes, departed) ==
  [hex \in Hexes |->
     IF hex \in seen THEN [tracked[hex] EXCEPT !.n = @ + 1, !.live = TRUE]
     ELSE tracked[hex]]

Sight(seen, fixes, departed) ==
  [hex \in Hexes |->
     LET entry == tracked[hex] IN
     CASE hex \in seen -> [n |-> IF entry.live THEN entry.n ELSE entry.n + 1,
                           live |-> TRUE,
                           fixed |-> entry.fixed \/ hex \in fixes,
                           flushes |-> 0]
       [] hex \in departed -> NotTracked(entry.n)
       [] OTHER -> entry]

TransitOf(table, hex) == [hex |-> hex, n |-> table[hex].n]

\* A message arrives: update the tracker, add the new positions to the open
\* window, then await the signature of the broadcast frame.  A departure takes
\* 60 s of absence, in which the batch timer fired MinFlushes times.
Message(seen, fixes, departed) ==
  /\ mode = "up"
  /\ \A hex \in seen : tracked[hex].live \/ tracked[hex].n < MaxTransits
  /\ \A hex \in departed : tracked[hex].live /\ tracked[hex].flushes >= MinFlushes
  /\ fixes # {} => window <= MaxWindows
  /\ tracked' = Sight(seen, fixes, departed)
  /\ LET new == {TransitOf(tracked', hex) : hex \in fixes} IN
       /\ telemetry' = telemetry \cup new
       /\ heard' = heard \cup InWindow(window, new)
  /\ gone' = gone \cup {TransitOf(tracked, hex) :
                          hex \in {x \in departed : tracked[x].fixed}}
  /\ IF departed = {}
     THEN UNCHANGED handler
     ELSE \E h \in Handlers, category \in [departed -> Category] :
            /\ handler[h].stage = "idle"
            /\ handler' = [handler EXCEPT ![h] =
                 [NoHandler EXCEPT
                    !.stage = "signing",
                    !.todo = {[transit |-> TransitOf(tracked, hex),
                               fixed |-> tracked[hex].fixed,
                               category |-> category[hex]] : hex \in departed}]]
  /\ UNCHANGED <<window, rawPaths, files, index, cache, job, mode, store,
                 failures, restarts, dropped>>

\* The frame is signed and sent: the departures are taken up.
Signed(h) ==
  /\ handler[h].stage = "signing"
  /\ LoopOn(h, handler[h].todo, cache)
  /\ UNCHANGED <<memory, files, cache, job, mode, store, failures, restarts,
                 history>>

\* Signing throws: the outer catch gives up every departure of the message, and
\* their references stay in the index.
SigningFailed(h) ==
  /\ handler[h].stage = "signing"
  /\ MayFail(FALSE)
  /\ failures' = failures + 1
  /\ handler' = [handler EXCEPT ![h] = NoHandler]
  /\ UNCHANGED <<memory, files, index, cache, job, mode, store, restarts, history>>

\* The PDS creates the record a handler asked for.
Create(h, ac) ==
  /\ ac \in handler[h].now
  /\ handler[h].stage \in {"identity", "flight"}
  /\ ~handler[h].stored
  /\ handler' = [handler EXCEPT ![h].stored = TRUE]
  /\ IF handler[h].stage = "identity"
     THEN /\ pds' = [pds EXCEPT !.identities[ac.transit.hex] = @ + 1]
          /\ UNCHANGED twice
     ELSE StoreFlight(FlightOf(h, ac))
  /\ UNCHANGED <<memory, files, index, cache, job, mode, queued, sent, failures,
                 restarts, history>>

\* createRecord or putRecord of the identity succeeds: cache it and go on.
IdentityDone(h, ac) ==
  /\ ac \in handler[h].now
  /\ \/ handler[h].stage = "identity" /\ handler[h].stored
     \/ handler[h].stage = "category"
  /\ cache' = [cache EXCEPT ![ac.transit.hex] = ac.category]
  /\ FlightOrOn(h, ac, cache')
  /\ UNCHANGED <<memory, files, job, mode, store, failures, restarts, history>>

\* createRecord of the identity fails: the departure is skipped, with its
\* references already taken.
IdentityFailedGoesOn(h) ==
  /\ handler[h].stage = "identity"
  /\ MayFail(handler[h].stored)
  /\ failures' = failures + 1
  /\ \E ac \in handler[h].now : FlightOrOn(h, ac, cache)
  /\ UNCHANGED <<memory, files, cache, job, mode, store, restarts, history>>

IdentityFailed(h) ==
  /\ handler[h].stage = "identity"
  /\ MayFail(handler[h].stored)
  /\ failures' = failures + 1
  /\ LoopOn(h, handler[h].todo, cache)
  /\ UNCHANGED <<memory, files, cache, job, mode, store, restarts, history>>

\* putRecord of the identity fails: the flight refers to the cached one.
CategoryFailed(h, ac) ==
  /\ ac \in handler[h].now
  /\ handler[h].stage = "category"
  /\ MayFail(FALSE)
  /\ failures' = failures + 1
  /\ FlightOrOn(h, ac, cache)
  /\ UNCHANGED <<memory, files, cache, job, mode, store, restarts, history>>

FlightDone(h) ==
  /\ handler[h].stage = "flight"
  /\ handler[h].stored
  /\ LoopOn(h, handler[h].todo, cache)
  /\ UNCHANGED <<memory, files, cache, job, mode, store, failures, restarts,
                 history>>

FlightFailed(h, ac) ==
  /\ ac \in handler[h].now
  /\ handler[h].stage = "flight"
  /\ MayFail(handler[h].stored)
  /\ failures' = failures + 1
  /\ queued' = QueueFlight(h, ac)
  /\ LoopOn(h, handler[h].todo, cache)
  /\ UNCHANGED <<memory, files, cache, job, mode, sent, pds, twice, restarts,
                 history>>

-----------------------------------------------------------------------------
(* The batch timer.                                                        *)

\* chunkTelemetry: a partition of the reports that keeps those of an aircraft
\* together.
OverlappingPlans(reports) ==
  {{reports, {t \in reports : t.hex = g}} \ {{}} : g \in Hexes}

Plans(reports) ==
  {{{t \in reports : group[t.hex] = g} : g \in Hexes} \ {{}} :
     group \in [Hexes -> Hexes]}

\* The loop over the chunks goes on to the next upload, or ends.
NextChunkOnlyOnce(win, rest) ==
  {[NoJob EXCEPT !.stage = "upload", !.win = win, !.chunk = chunk] : chunk \in rest}
    \cup {NoJob}

NextChunk(win, rest) ==
  IF rest = {} THEN {NoJob}
  ELSE {[NoJob EXCEPT !.stage = "upload", !.win = win, !.rest = rest \ {chunk},
                      !.chunk = chunk] : chunk \in rest}

RawCapture(file) ==
  /\ mode = "up"
  /\ files[file] = "unused"
  /\ files' = [files EXCEPT ![file] = "disk"]
  /\ rawPaths' = rawPaths \cup {file}
  /\ UNCHANGED <<tracked, telemetry, window, index, cache, handler, job, mode,
                 store, failures, restarts, history>>

\* What is left of the window is published in slot j; an empty window ends
\* here, capture files or not.
StartJob(j) ==
  IF telemetry = {}
  THEN UNCHANGED <<window, job>>
  ELSE /\ job[j].stage = "idle"
       /\ window' = window + 1
       /\ \E plan \in Plans(telemetry) :
            IF RawCaptureEnabled /\ rawPaths # {}
            THEN job' = [job EXCEPT ![j] =
                   [NoJob EXCEPT !.stage = "raw", !.win = window,
                                 !.raw = rawPaths, !.rest = plan]]
            ELSE \E next \in NextChunk(window, plan) :
                   job' = [job EXCEPT ![j] = next]

\* The timer fires: the window and its capture paths are reset before the
\* first await.
Flush(j) ==
  /\ mode = "up"
  /\ tracked' = [hex \in Hexes |->
       [tracked[hex] EXCEPT
          !.flushes = IF tracked[hex].live /\ @ < MinFlushes THEN @ + 1 ELSE @]]
  /\ telemetry' = {}
  /\ rawPaths' = {}
  /\ StartJob(j)
  /\ UNCHANGED <<files, index, cache, handler, mode, store, failures, restarts,
                 history>>

\* The capture files are read and deleted and the raw capture is uploaded;
\* whether that fails or not, the telemetry comes next.
RawDone(j) ==
  /\ job[j].stage = "raw"
  /\ files' = [file \in Captures |->
       IF file \in job[j].raw THEN "deleted" ELSE files[file]]
  /\ \E next \in NextChunk(job[j].win, job[j].rest) :
       job' = [job EXCEPT ![j] = next]
  /\ UNCHANGED <<memory, index, cache, handler, mode, store, failures, restarts,
                 history>>

Uploaded(j) ==
  /\ job[j].stage = "upload"
  /\ job' = [job EXCEPT ![j].stage = "create"]
  /\ UNCHANGED <<memory, files, index, cache, handler, mode, store, failures,
                 restarts, history>>

\* The loop is left for good: this chunk and those after it are given up.
GiveUp(j) ==
  /\ job' = [job EXCEPT ![j] = NoJob]
  /\ dropped' = dropped \cup
       InWindow(job[j].win, job[j].chunk \cup UNION job[j].rest)

\* uploadBlob fails (or chunkTelemetry throws, on telemetry of one aircraft
\* that is too large): the outer catch ends the callback.
UploadFailed(j) ==
  /\ job[j].stage = "upload"
  /\ MayFail(FALSE)
  /\ failures' = failures + 1
  /\ GiveUp(j)
  /\ UNCHANGED <<memory, files, index, cache, handler, mode, store, restarts,
                 heard, gone>>

SightingOf(j) == [win |-> job[j].win, reports |-> job[j].chunk]

\* The sighting record goes to the publish queue.
ForgetSighting(j) == queued
QueueSighting(j) == [queued EXCEPT !.sightings = @ \cup {SightingOf(j)}]

\* The PDS creates the sighting record.
CreateSighting(j) ==
  /\ job[j].stage = "create"
  /\ ~job[j].stored
  /\ job' = [job EXCEPT ![j].stored = TRUE]
  /\ StoreSighting(SightingOf(j))
  /\ UNCHANGED <<memory, files, index, cache, handler, mode, queued, sent, failures,
                 restarts, history>>

\* The answer arrives: the reference goes to every aircraft of the manifest
\* (the shutdown flush keeps no index).
SightingDone(j) ==
  /\ job[j].stage = "create"
  /\ job[j].stored
  /\ index' = IF j = "final" THEN index
              ELSE [hex \in Hexes |->
                      IF hex \in Manifest(job[j].chunk)
                      THEN index[hex] \cup {SightingOf(j)} ELSE index[hex]]
  /\ \E next \in NextChunk(job[j].win, job[j].rest) :
       job' = [job EXCEPT ![j] = next]
  /\ UNCHANGED <<memory, files, cache, handler, mode, store, failures, restarts,
                 history>>

\* createRecord fails: the record is queued and never indexed.  The shutdown
\* flush does not queue: it gives up what is left.
SightingFailed(j) ==
  /\ job[j].stage = "create"
  /\ MayFail(job[j].stored)
  /\ failures' = failures + 1
  /\ IF j = "final"
     THEN GiveUp(j) /\ UNCHANGED queued
     ELSE /\ queued' = QueueSighting(j)
          /\ \E next \in NextChunk(job[j].win, job[j].rest) :
               job' = [job EXCEPT ![j] = next]
          /\ UNCHANGED dropped
  /\ UNCHANGED <<memory, files, index, cache, handler, mode, sent, pds, twice,
                 restarts, heard, gone>>

-----------------------------------------------------------------------------
(* The publish queue, by its contract.                                     *)

\* A drain sends a row, whether or not the PDS has its record from the call that
\* failed, and again if another drain or a lost answer has it sent once more.
DeliverSighting(s) ==
  /\ s \in queued.sightings
  /\ StoreSighting(s)
  /\ sent' = [sent EXCEPT !.sightings = @ \cup {s}]

DeliverFlight(f) ==
  /\ f \in queued.flights
  /\ StoreFlight(f)
  /\ sent' = [sent EXCEPT !.flights = @ \cup {f}]

\* A row leaves the table once a drain has stored it.
Release ==
  queued' \in {[queued EXCEPT !.sightings = @ \ {s}] :
                 s \in queued.sightings \cap sent.sightings}
          \cup {[queued EXCEPT !.flights = @ \ {f}] :
                 f \in queued.flights \cap sent.flights}

Drain ==
  /\ \/ /\ \/ \E s \in queued.sightings : DeliverSighting(s)
           \/ \E f \in queued.flights : DeliverFlight(f)
        /\ UNCHANGED queued
     \/ Release /\ UNCHANGED <<sent, pds, twice>>
  /\ UNCHANGED <<memory, files, index, cache, handler, job, mode, failures,
                 restarts, history>>

-----------------------------------------------------------------------------
(* Shutdown, crash and restart.                                            *)

\* SIGTERM: the timers and the adapter server stop; callbacks in flight go on.
Shutdown ==
  /\ mode = "up"
  /\ restarts < MaxRestarts
  /\ mode' = "stopping"
  /\ UNCHANGED <<memory, files, index, cache, handler, job, store, failures,
                 restarts, history>>

\* flushBatchOnShutdown starts on the open window.
FinalFlush ==
  /\ mode = "stopping"
  /\ mode' = "flushing"
  /\ IF telemetry = {} THEN UNCHANGED job
     ELSE \E plan \in Plans(telemetry) :
            \E next \in NextChunk(window, plan) :
              job' = [job EXCEPT !["final"] = next]
  /\ UNCHANGED <<memory, files, index, cache, handler, store, failures, restarts,
                 history>>

\* The process ends and starts again: the queue, the identity cache and the
\* PDS are what they were, everything in memory is gone; rows that are left are
\* sent whether or not a drain had stored them.
Restart ==
  /\ tracked' = [hex \in Hexes |-> NotTracked(tracked[hex].n)]
  /\ telemetry' = {}
  /\ window' = IF telemetry = {} THEN window ELSE window + 1
  /\ rawPaths' = {}
  /\ index' = [hex \in Hexes |-> {}]
  /\ handler' = [h \in Handlers |-> NoHandler]
  /\ job' = [j \in Jobs |-> NoJob]
  /\ mode' = "up"
  /\ heard' = {}
  /\ dropped' = {}
  /\ gone' = {}
  /\ restarts' = restarts + 1
  /\ sent' = [sightings |-> sent.sightings \ queued.sightings,
              flights |-> sent.flights \ queued.flights]
  /\ UNCHANGED <<files, cache, queued, pds, twice, failures>>

\* process.exit, once the final flush is over.
Exit == mode = "flushing" /\ job["final"].stage = "idle" /\ Restart

Crash == restarts < MaxRestarts /\ Restart

-----------------------------------------------------------------------------
HandlerStep(h) ==
  \/ Signed(h) \/ FlightDone(h)
  \/ \E ac \in handler[h].now : Create(h, ac) \/ IdentityDone(h, ac)

HandlerFailure(h) ==
  \/ SigningFailed(h) \/ IdentityFailed(h)
  \/ \E ac \in handler[h].now : CategoryFailed(h, ac) \/ FlightFailed(h, ac)

JobStep(j) == RawDone(j) \/ Uploaded(j) \/ CreateSighting(j) \/ SightingDone(j)

JobFailure(j) == UploadFailed(j) \/ SightingFailed(j)

Receive ==
  \E seen \in SUBSET Hexes :
    \E fixes \in SUBSET seen, departed \in SUBSET (Hexes \ seen) :
      Message(seen, fixes, departed)

Next ==
  \/ Receive
  \/ \E h \in Handlers : HandlerStep(h) \/ HandlerFailure(h)
  \/ \E file \in Captures : RawCapture(file)
  \/ \E j \in Flushers : Flush(j)
  \/ \E j \in Jobs : JobStep(j) \/ JobFailure(j)
  \/ Drain
  \/ Shutdown \/ FinalFlush \/ Exit \/ Crash

Spec == Init /\ [][Next]_vars

\* A call that is not one of the boundedly many that fail is answered, and
\* the publish queue delivers (PublishQueue: EventuallyDrained).
Fairness ==
  /\ \A h \in Handlers : WF_vars(HandlerStep(h))
  /\ \A j \in Jobs : WF_vars(JobStep(j))
  /\ WF_vars(Drain)

FairSpec == Spec /\ Fairness

-----------------------------------------------------------------------------
TypeOK ==
  /\ tracked \in [Hexes -> Tracked]
  /\ \A hex \in Hexes : tracked[hex].live => tracked[hex].n > 0
  /\ telemetry \subseteq Transit
  /\ window \in 1 .. MaxWindows + 1
  /\ telemetry # {} => window <= MaxWindows
  /\ rawPaths \subseteq Captures
  /\ files \in [Captures -> {"unused", "disk", "deleted"}]
  /\ index \in [Hexes -> SUBSET Sighting]
  /\ cache \in [Hexes -> Category \cup {"unknown"}]
  /\ handler \in [Handlers -> HandlerState]
  /\ job \in [Jobs -> JobState]
  /\ mode \in {"up", "stopping", "flushing"}
  /\ queued \in [sightings : SUBSET Sighting, flights : SUBSET Flight]
  /\ sent \in [sightings : SUBSET Sighting, flights : SUBSET Flight]
  /\ pds \in [sightings : SUBSET Sighting, flights : SUBSET Flight,
              identities : [Hexes -> Nat]]
  /\ twice \in [sightings : SUBSET Sighting, flights : SUBSET Flight]
  /\ failures \in Nat
  /\ restarts \in Nat

\* Flight records wherever they are: the one a handler is about to publish,
\* the queued and the published ones.
InHand == UNION {{FlightOf(h, ac) : ac \in handler[h].now} : h \in Handlers}
Built == UNION {{FlightOf(h, ac) : ac \in handler[h].now} :
                  h \in {x \in Handlers : handler[x].stage = "flight"}}
Records == queued.flights \cup pds.flights

\* The provenance chain can be walked (provenance-chain.test.ts: "flight record
\* -> batch sightings -> manifest contains aircraft"): a flight only refers to
\* sightings that are at the PDS and name the aircraft, although the flight is
\* built from an index other callbacks write, and may be published late from
\* the queue; and its identity record is at the PDS.
ChainWalkable ==
  \A f \in Built \cup Records :
    /\ pds.identities[f.transit.hex] > 0
    /\ \A s \in f.refs : s \in pds.sightings /\ f.transit.hex \in Manifest(s.reports)

\* Records whose createRecord failed, if only for the answer: the queue takes
\* them, and its drains send them.
RetriedSightings == queued.sightings \cup sent.sightings
RetriedFlights == queued.flights \cup sent.flights

\* A sighting counts once: a reference of an aircraft is in the index, in the
\* hands of one handler, or in one flight that was built, never in two of them.
\* The PDS may hold that flight under two keys (daemon.ts stores what failed
\* again, and the answer of a call that failed may have been lost), but only one
\* that came through the queue, when no handler has it in hand any more.
RefUsedOnce ==
  /\ \A f, g \in InHand \cup Records :
       (f.transit.hex = g.transit.hex /\ f.refs \cap g.refs # {}) => f = g
  /\ \A h, g \in Handlers : \A a \in handler[h].now, b \in handler[g].now :
       (h # g /\ a.transit.hex = b.transit.hex) => handler[h].refs \cap handler[g].refs = {}
  /\ \A f \in InHand \cup Records : f.refs \cap index[f.transit.hex] = {}
  /\ twice.flights \subseteq RetriedFlights
  /\ Built \cap RetriedFlights = {}

\* Sightings that a flight refers to, or will.
Referred == (UNION {index[hex] : hex \in Hexes})
              \cup (UNION {f.refs : f \in InHand \cup Records})

\* Reports of aircraft go into one sighting that is built (blobs.ts: "each
\* aircraft's positions land in exactly one sighting record"): two different
\* ones of a window name different aircraft, whether published or queued.  The
\* PDS may hold one of them under two keys, but only one that came through the
\* queue; and no flight refers to such a one, so the record a reference names is
\* the only one with these reports.
OneSightingPerAircraft ==
  /\ \A s, t \in queued.sightings \cup pds.sightings :
       (s.win = t.win /\ s # t) => Manifest(s.reports) \cap Manifest(t.reports) = {}
  /\ twice.sightings \subseteq RetriedSightings
  /\ Referred \cap RetriedSightings = {}

\* Where reports of a window may be while the process runs.
InJobs == UNION {InWindow(job[j].win, job[j].chunk \cup UNION job[j].rest) : j \in Jobs}
InRecords == UNION {InWindow(s.win, s.reports) : s \in queued.sightings \cup pds.sightings}

\* Every report heard is in the open window, in a window being published, in a
\* sighting record at the PDS or in the queue, or in a window given up after a
\* failed upload: the reset of the window before the first await, the split
\* into chunks and the failure of a chunk between two others lose nothing.
TelemetryAccounted ==
  heard \subseteq InWindow(window, telemetry) \cup InJobs \cup InRecords \cup dropped

\* Every queued flight record reaches the PDS, over shutdowns and crashes, and
\* so does one a handler is about to publish while its process lives on.
FlightPublished ==
  \A t \in Transit :
    (\/ \E f \in queued.flights : f.transit = t
     \/ restarts = MaxRestarts /\ \E f \in Built : f.transit = t)
      ~> (\E f \in pds.flights : f.transit = t)

\* Departures do not starve: a handler that waits its way through the
\* departures of a message ends.
DeparturesHandled ==
  \A h \in Handlers : (handler[h].stage # "idle") ~> (handler[h].stage = "idle")

-----------------------------------------------------------------------------
(* What documents and comments say, and the code does not do.              *)

InProgress == UNION {handler[h].todo \cup handler[h].now : h \in Handlers}

\* SPECIFICATION.md, Flight Record: "Created when an aircraft departs the
\* receiver's coverage area." Once a departure has been handled there is a
\* flight record of the transit, published or queued.
FlightForEveryDeparture ==
  \A t \in gone :
    \/ \E ac \in InProgress : ac.transit = t
    \/ \E f \in Records : f.transit = t

\* flight/record.json: "Strong references to all at.adsb.receiver.sighting
\* batch records where this aircraft appeared".  (A sighting may reach the PDS
\* after the flight that should have waited for it.)
FlightListsItsSightings ==
  \A f \in pds.flights : \A s \in pds.sightings :
    f.transit \in s.reports => s \in f.refs

\* flight/record.json: a flight record "References all contributing batch
\* sightings": each one it lists has reports of that very transit.
FlightListsContributors ==
  \A f \in Records : \A s \in f.refs : f.transit \in s.reports

\* SPECIFICATION.md, Durability: transient network issues are handled "without
\* data loss": no window is given up.
NoWindowGivenUp == dropped = {}

\* SPECIFICATION.md, Durability: "Failed writes to the PDS are queued": the
\* record of a createRecord that failed is in the queue.
FailedSightingQueued ==
  [][\A j \in Jobs :
       (job[j].stage = "create" /\ failures' > failures /\ job'[j] # job[j])
         => SightingOf(j) \in queued'.sightings]_vars

\* blobs.ts: "each aircraft's positions land in exactly one sighting record": the
\* PDS has no sighting under two keys.
ExactlyOneSighting == twice.sightings = {}

\* SPECIFICATION.md, Aircraft Identity: "One per unique ICAO hex code per
\* account."
OneIdentityPerHex == \A hex \in Hexes : pds.identities[hex] <= 1

=============================================================================

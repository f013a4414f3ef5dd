# A formal model of at-adsb-server

TLA+ modules, TLC configurations and TLAPS proofs for the daemon and the readsb
adapter of at-adsb-server. Paths below are relative to the repository. Line
numbers of every definition are in `PROJECT.json` ("map").

    tlc -workers 2 -config daemon_restart.cfg MCDaemon     # one configuration
    tlapm DaemonProofs.tla                                 # one proof module

## 1. The system

An adapter polls a decoder (readsb) over HTTP, and optionally reads raw frames
from its BEAST port. It sends what it learns over a Unix socket to the daemon.
The daemon tracks aircraft, publishes records to an AT Protocol server (the PDS)
and broadcasts signed events to WebSocket consumers.

    readsb --HTTP--> adapter --Unix socket--> AdapterServer --> onAircraft
      \--BEAST--> BeastClient --capture file + rawCapture message--> |
                                                                     v
       AircraftTracker.update --> positions --> batch window --> sightings --+
              |                                                   |  batchIndex
              +--> departures --> identity, flight record <-------+          |
                                      |                                      v
                                      +---- fails ----> publish queue ----> PDS
       every message --> signed frame --> StreamBroadcaster --> consumers

Everything in the daemon runs in one Node process. Handlers are asynchronous
functions: they interleave at every `await`, and nothing waits for an earlier
call of the same handler. The timers (drain, batch, stats) are `setInterval`s
that do not wait either.

### Components

**Publish queue** (`server/src/queue.ts`, `drainQueue` of `daemon.ts`).
State: the SQLite table `publish_queue` of rows with attempts and next_retry_at,
and the snapshots of the drains in flight. Operations: enqueue, getReady,
markDone, markFailed; the drain loop every 30 s; HTTP 429 with Retry-After ends a
drain. Hard: overlapping drains on stale snapshots; an answer that is lost after
the PDS stored the record; a crash between the store and markDone. Correct when
no record is lost, a deleted row stays deleted, every row eventually goes, and a record
is stored again only for a cause: an answer nobody heard, a second drain, a crash.

**Provenance pipeline** (`runDaemon` of `daemon.ts`, `batch.ts`, `blobs.ts`,
`identity-cache.ts`). State: the open window of telemetry, `batchIndex` (hex to
references of published sightings), raw capture paths, the identity cache (on
disk), the handlers and window publications in flight. Operations: onAircraft
(track, collect positions, for each departure take the references, make or update
the identity, publish the flight), rawCapture, the batch timer (reset the window,
read captures, split into chunks, upload, create the sighting, index it), drain,
shutdown with a final flush. Hard: `batchIndex` is shared by callbacks that
interleave at each PDS call; one chunk of several fails; shutdown overtakes
callbacks in flight. Correct when the chain flight, sighting, manifest and
identity can be walked, references are used once, telemetry is accounted for, built
flights reach the PDS, and the PDS holds nothing twice but what the queue had.

**Aircraft tracker** (`tracker.ts`). State: a map of aircraft with last seen time,
age of the last counted fix, and the track. One operation, update(poll), which
counts new fixes and reports departures after 60 s. Hard: polls of several
adapters carry their decoder's stamp and arrive late or crossed. Correct when no
fix is counted twice and nobody departs while seen.

**Adapter server** (`adapter-server.ts`). State: pending connections with their
handshake timers, the registry source to connection. Operations: connection, data
(handshake, data, rejection), timeout, error, close, stop. Hard: the close event of
a replaced connection comes after its successor registered; repeated handshakes in
one data event; stop waits for sockets nobody registered. Correct when data is
attributed only from the registered connection and no open connection is
unsupervised.

**Station record and signed stream** (`key-rotation.ts`,
`stream-endpoint-update.ts`, `frame-signer.ts`, `cli.ts`, `records.ts`). State: the record
on the PDS, the daemon's startup stage and copy of it, the strongRef of the events.
Operations: rotation (announce, write), endpoint
update, refresh, events, `register`, `generate-stream-key`. Hard: read-modify-write
of one record by several writers, each step may fail, also after it was stored;
consumers are told to refetch before the record is written. Correct when signing
key, published key and announcements agree.

**readsb adapter, connection and polls** (`adapters/readsb.ts`,
`readsb-mapping.ts`). State: socket, reconnect timer and delay, poll loop, polls
in flight, last stats window. Operations: connect, error, close, reconnect, poll
(two requests), stop. Hard: error and close both schedule; fetches have no timeout,
so polls overlap and outlast connections. Correct when a connection's handshake is spoiled
only by what is older than the connection, a stats window is counted again only where a
poll was overtaken, and the adapter gets back without hammering.

**readsb adapter, raw capture** (`beast-client.ts`, `flushBatchWindow` of
`adapters/readsb.ts`). State: BEAST sockets, gathered chunks, window start, files
being written. Operations: start, connect, close, reconnect, data, flush, file
written or failed, stop. Hard: data arrives while a file is written; the daemon
connection restarts while the BEAST one goes on; TCP cuts frames anywhere. Correct when
windows do not overlap, data is on disk or knowingly given up, and a frame that was cut
does no more harm than to itself.

**ATRX container** (`atrx.ts`). No state: build, parse, concatenate, split, and the
count of frames in a piece of BEAST data. Hard: data that looks like a header, a blob
cut anywhere, a section of version 1, which has no length. Correct when splitting
undoes concatenating and a cut blob is recognised.

**A capture's way to the verifier** (`flushBatchWindow`, `onRawCapture` and the batch
timer of `daemon.ts`). State: the files named and not yet read, the batch callbacks in
flight. Hard: two timers that are not in step; files read, stamped anew and deleted one
by one, and perhaps not deleted; a window that ends without telemetry. Correct when a
capture is in one sighting, whole, or given up.

**Adapter messages** (`normalized.ts`, `readsb-mapping.ts`). No state: what readsb says
is mapped, goes through JSON and is validated. Hard: zero and the empty string are legal
values, undefined and null are not the same, one bad aircraft refuses a whole poll.
Correct when what readsb declares arrives as it was said, and nothing that would make a
callback throw gets through.

**Broadcast stream server** (`stream.ts`, the broadcasting part of onAircraft). State: the
sequence number, the signatures awaited, the listeners, and of each subscriber the queue
and the place of its async generator. Operations: message, signature done or failed, info
frame, subscribe, first pull, wake, pull, return, abort, stop. Hard: the sequence number is
taken before an await and emitted after it; a frame or the abort comes between the emptied
queue and the next wait. Correct when a reader sees one log from where it joined, gaps in
the numbers mean what a consumer thinks, and nothing is left behind or waited for for ever.

**Stats accumulation** (`daemon.ts`, `records.ts`). State: the open period, the handlers
that will still credit to it, the records on their way, the publish queue. Operations:
onStats, onAircraft, the stats timer, shutdown. Hard: the accumulators are replaced before
an await while handlers sleep over it; a failed record goes through the queue; shutdown has
rules of its own. Correct when everything credited counts once and every record arrives.

**Command line and configuration**, **stream client**, **lexicons**, **deployment**: see
section 8.

`PROJECT.json` ("hazards") lists what is hard to test, each at its line, with the
properties about it.

## 2. Modules

| module | models | composed with |
|---|---|---|
| `AtLeastOnce` | the promise of a durable outbox | implemented by `PublishQueue` |
| `PublishQueue` | table and drains | `INSTANCE AtLeastOnce` as `KeepsPromise` |
| `Daemon` | provenance pipeline | sees the queue and the tracker by their contracts |
| `StationStats` | accumulators, stats records, shutdown | `INSTANCE PublishQueue`: one next-state relation |
| `AircraftTracker` | `update` and the polls that reach it | |
| `AdapterServer` | connections, handshakes, registry, stop | |
| `StationRecord` | the record, its writers, the consumers | |
| `EventLog` | the promise of a broadcast log | implemented by `EventStream` |
| `EventStream` | sequence numbers, signing, generators | `INSTANCE EventLog` as `ReadsTheLog` |
| `ReadsbAdapter` | connection and polls | sees the daemon by `AdapterServer`'s rules |
| `AdapterMessages` | mapping, JSON and validation, as operators | |
| `AdapterFeed` | the adapter with what it writes | extends `ReadsbAdapter` and `AdapterMessages` |
| `RawCapture` | BEAST client and capture windows | |
| `Atrx` | the container format, as operators | |
| `CaptureChain` | from the BEAST socket to the verifier | extends `RawCapture` and `Atrx` |
| `MC...` | model values for TLC | |
| `...Proofs` | theorems | extend their module, `AdapterProofs` both ends of the adapter socket, `StationStatsProofs` with `INSTANCE PublishQueueProofs` |

One action is the code from one `await` (or event) to the next.

*PublishQueue.* `rows` is the table (key to attempts and remaining wait), `drain`
the slots of drains in flight with their snapshot, `copies` what the PDS holds.
`Enqueue`, `StartDrain` (getReady's snapshot), `Store` (createRecord takes effect),
`Succeed` (markDone), `Answer` (markFailed with back-off), `RateLimited`,
`RateLimitedUntilDate` (Retry-After as a date), `Tick`, `Crash`. `unheard` counts the
copies whose answer nobody heard: it was lost, or the process died before markDone. Times
are relative:
wait 0 means next_retry_at has come. The growing delay `Backoff` is capped as in
the code. The refinement maps rows to "held" and rows with a copy to "delivered";
a second copy is a stutter.

*Daemon.* A report is the transit it belongs to; a sighting is its window and the
reports in it; a flight its transit and references. `Message` is the part of
onAircraft before its first await, `Signed` the entry to the loop over departures,
`Create`/`IdentityDone`/`IdentityFailed`/`CategoryFailed` the identity,
`FlightDone`/`FlightFailed` the flight. `Flush`, `RawDone`, `Uploaded`,
`UploadFailed`, `CreateSighting`, `SightingDone`, `SightingFailed` are the batch
callback; the job "final" is flushBatchOnShutdown. `SigningFailed` is the outer catch of
onAircraft: the departures of the message are given up, their references stay in the
index. `Drain` is the contract `PublishQueue` is shown to keep: it sends every queued
record (`DeliverSighting`, `DeliverFlight`), whether or not the PDS has it, and `Release`
deletes the row of one that is `sent`. `LostResponses` lets a call fail after the PDS
acted, so that the record is queued and sent again; `pds` holds what is stored, `twice`
what is stored under more than one key. `MinFlushes` says how many window ends fit in the
60 s to a departure: 1 for
windows up to 60 s, 0 for longer ones (the configuration allows 600 s).

*StationStats.* A sum is the set of what was added to it: a stats window is its number,
the positions of a transit are the pair of aircraft and number. `OnAircraft`,
`FrameSent`, `FlightHandled`, `IdentityFails` are one call of the handler between its
awaits; `Advance` runs on to its next await and credits on the way. `Flush` is the timer up
to its await, `Published` and `PublishFails` are the answers, and `Keep` enqueues in the
composed queue, whose drains are the actions of `PublishQueue`; `unanswered` remembers the
records whose own call was stored and not heard. `FrameFails` is the outer catch of
onAircraft. `Shutdown`, `FinalStats`,
`Exit` are SIGTERM; `Crash` and `Restart` are not asked for.

*AircraftTracker.* Decoders (external) hear, fix and lose aircraft; `Poll` takes a
stamped snapshot, `Deliver` runs `Update` on it up to `MaxLag` later. A report also
keeps the stamp of its poll, for the properties.

*AdapterServer.* `Data` begins a run of processBuffer on a connection's lines, and
`Handshake`, `Reject`, `EndCall` are its steps; nothing else runs meanwhile
(`inCall`). `Destroy` is `socket.destroy()`: no data follows, close comes later.

*StationRecord.* The startup is a sequence of stages; each putRecord writes the
whole record read some stages earlier and gives it a new cid. `RotationFails` ends
the process, `EndpointFails` and `RefreshFails` do not, as in the code. `Valid` are the
endpoints that pass validateStreamEndpoint; another one is warned of and skipped. Consumers
(external) follow `docs/stream-signature-verification.md`: fetch at first, fetch
again at KeyRotated, verify. `edited` remembers that a command wrote the record.

*EventStream.* `pc` says where the generator of a subscription stands: connected and not
yet pulled, waiting for its promise, suspended at a yield, done. `Continue` is the loop of
subscribe() from one such place to the next, `Leave` its finally block. `pending` are the
handlers between taking a sequence number and their signature. `InOrderSigning` says that
signatures settle in the order they were asked for: each of them takes the same number of
turns of the event loop. The refinement attaches a reader while it is connected and
listening; the queue and the frame in hand are what the abstract log has and the reader
has not.

*ReadsbAdapter.* The connection (`link`, `first` message, `retry`, `delay`), the poll
loop, each poll's stage. Polls are any number at once and answer in any order; what a poll
writes goes to the socket there is then. A poll may outlast the wait for a reconnect
(`slow` counts these, `MaxSlow` bounds them), and so may the write of a capture file, which
is a poll in this respect; `spoiled` counts the connections that got something before their
handshake, `late` the answers that came after that of a later window.

*AdapterMessages, AdapterFeed.* A value is what a validator can tell apart: undefined,
null, a number that is zero, not zero or not finite, a string of a length. `OnWire` is
JSON.stringify and JSON.parse. `AdapterFeed` lets readsb (external) answer with the least
its type declares and up to two fields more or otherwise, refines the adapter's steps by
what they write, and keeps in `heard` what the last step brought to the daemon. `OddPolls`
are the polls whose answers vary, a bound: the others are answered with the least.

*RawCapture.* A frame is six bytes and named by its tick; data events bring it in parts,
which may end behind any byte in `Cuts` (any set of them in the proofs). chunks are the
parts gathered. `Flush` takes the chunks and starts a write, `Written` tells the daemon if
there is a socket, and begins the next window. `StopCapture` is stop() and the end of the
process: what was gathered is given up.

*Atrx, CaptureChain.* A blob is a sequence of cells: magic, version, length, metadata,
data. A frame is 0x1a, its type, and data that holds an escaped 0x1a, a byte like a frame
type and the letters ATRX; `countBeastFrames` reads these bytes as the code does.
`CaptureChain` adds the daemon's half: `OnRawCapture`, `Batch` (the batch timer to its first
await), `Restamp` and `RestampFails` (one file each), `Publish` and `UploadFails`. `Unlink`
may fail for the files in `Undeletable`: they stay, `stuck`, and
the capture is published all the same. `rawCaptureEnabled` is the switch of the
configuration. A capture is known by its place in `captures`.

## 3. Properties and runs

Every property of a passing run has a mutant in `PROJECT.json`: a plausible bug in
a mapped definition under which TLC finds it violated. The mutated forms stand
before the definition they would replace, marked "Mutant of". The type invariant of a
module is a property of its own or the first conjunct of the first property of its run
(`StatsAccounted`, `NoInflation`, `RefIsCurrent`, `RepeatedOnlyOvertaken`, `SeqTellsGaps`,
`CapturesAccounted`).

| run | shows | bounds |
|---|---|---|
| `queue_overlap` | `NoLoss`, `RepeatsExplained`, the refinement `KeepsPromise`, `EventuallyDrained` | 2 drains, 2 records, 2 failures (lost answers, Retry-After 0, 1 or a date), 1 crash |
| `stats_to_pds` | `StatsAccounted`, `RepeatedForCause`, `StatsArrive` | 1 aircraft, 2 transits, 1 stats window, 1 flush, 1 handler, 2 drains, 1 queued record, 2 failures (lost answers, dates), 1 shutdown or crash |
| `daemon_restart` | `ChainWalkable`, `RefUsedOnce`, `TelemetryAccounted`, `FlightPublished`, `DeparturesHandled` over shutdown and crash | 1 aircraft, 2 transits, 2 handlers, 2 flushers, 2 windows, 1 failure (lost answers), 1 restart |
| `daemon_two_aircraft` | `OneSightingPerAircraft`, `TelemetryAccounted` with chunks, captures and category updates | 2 aircraft, 1 handler, 2 flushers, 2 windows, 1 failure (lost answers) |
| `server_registry` | `OwnsItsSource`, `Supervised`, `HandshakeOrClosed`, `StopCompletes` | 3 connections, 2 sources, repeated handshakes |
| `tracker_lag` | `NoInflation`, `AbsentLongEnough` | 2 adapters, 1 aircraft, lag 1, threshold 2, 5 instants |
| `station_startup` | `RefIsCurrent`, `RotationAnnounced`, `FreshFollowersVerify` | 3 starts, 2 keys, 2 endpoints, one of them invalid, 1 command, 1 failure, 1 consumer |
| `event_stream` | `SeqTellsGaps`, the refinement `ReadsTheLog`, `ListenerReleased`, `FramesArrive`, `StopEnds` | 2 clients, 2 messages, 1 info frame, signed or not |
| `adapter_polls` | `RepeatedOnlyOvertaken`, `SpoiledBySlowOnly`, `HeardAsSaid`, `Reconnects` | 2 polls at once, 1 of them slower than a reconnect, 2 outages, delays 1 to 4, 2 stats windows |
| `capture_chain` | `WindowsDisjoint`, `DataAccounted`, `CapturesAccounted`, `SplitInverts`, `FramesCounted` | 2 connections, 2 sockets, 1 write at a time, 2 instants, 1 cut (between 0x1a and type, or inside an escaped 0x1a), 1 batch with telemetry, the first file undeletable |

Why the bounds are enough for what is asked: two slots of each concurrent callback
show every pairwise interleaving; two transits show an aircraft that returns while
its departure is handled, two windows a sighting that overtakes or is overtaken;
one failure and one restart can hit any step of any other activity; three
connections show a replacement of a replacement; three starts show a key that
changes and changes back. Tracker and captures are about orders of events, for
which a lag of one tick and two instants suffice to invert every pair. Two messages and an
info frame give a log in which a number is missing before, between and behind others; two
transits of an aircraft let one handler be suspended over the flush that publishes the
other; two drains and two failures give a record a lost answer and an overlap. Two polls
overtake each other both ways. A frame cut between 0x1a and its type byte is counted in
neither capture, one cut inside an escape once too often: the cuts at which the count goes
wrong. Two fields that deviate show every pair of conditions of a validator.

`RefUsedOnce` and `ChainWalkable` range over references in the index, in a
handler's hands, queued and published. `TelemetryAccounted` counts a window given up
after a failed upload (`dropped`) as accounted; what is said about that window is
in section 5. `DataAccounted` says of repetition only that nothing is gathered twice for
one connection: each reconnect to the daemon starts one more BEAST socket
(`BeastClient.start` does not look at the one it has), so the data comes once per
connection made. `StatsAccounted` lets the final record hold what is still in the open
period: shutdown builds it without replacing the accumulators, and the process ends.
`SplitInverts` says both that splitting undoes concatenating and that no proper prefix
passes for a blob, but for one that ends between two sections, which is a blob.

A record may be stored twice: a call that failed may have been heard by the PDS, and drains
overlap. Four properties say that nothing else does it, with those cases in the run.
`RepeatsExplained` counts, of the queue, the copies of a row against the answers that were
not heard and the drains; `RepeatedForCause` adds, of a stats record, that one whose own
call was answered is never queued. `OneSightingPerAircraft` and `RefUsedOnce` say of the
pipeline that two records with the same aircraft and window, or the same reference, are the
same record, that the PDS has such a record under two keys (`twice`) only if the queue had
it, and that no flight refers to a sighting of that kind, so what a reference names is not
one of two.

`SpoiledBySlowOnly` and `RepeatedOnlyOvertaken` bound the damage done by polls that outlast
a connection or one another, by the number of these; that it is never done does not hold
(section 5). `FramesCounted` bounds in the same way what a cut does to the count in the
metadata: by the parts of torn frames in the capture.

## 4. Fairness

Fairness is stated only where the code's scheduling gives it, and used only by the
runs of the liveness properties.

- `PublishQueue`: weak on the clock, on starting a drain (the interval timer) and on
  the success of a call. Failures and crashes are bounded, so a call not made to
  fail is answered. Nothing is assumed of the order of rows.
- `StationStats`: weak on the answers to createRecord, on the queue's drain and clock, on the
  steps of shutdown once it was asked for, and on the process being started again: a row
  is sent in a later life. None on messages, on the stats timer, or on being shut down.
- `Daemon`: weak on each handler's and job's next step (a promise that settles runs
  its continuation) and on `Drain`, which `EventuallyDrained` of `PublishQueue`
  justifies. No fairness on messages, flushes or shutdown: the world may stop.
  `FlightPublished` asks for queued flights over restarts, and for one in a handler's
  hands only when the process lives on: what is in memory dies with it.
- `AdapterServer`: weak on the end of a processBuffer run and on server.close's
  callback; strong on the handshake timer and on the close event after destroy,
  because a run of processBuffer for another connection disables them for its
  (finite) duration over and over.
- `EventStream`: weak on the signatures settling, on each generator's start, wake and pull
  (a client that is connected reads: a slow one is served slowly, not never), on the close
  of a connection that stop() asked to close (ws destroys the socket after its timeout), and
  on the callback of httpServer.close. None on messages or on clients coming and going.
- `ReadsbAdapter` and `AdapterFeed`: weak on timers and socket events (`Linking`), on a poll's
  end, and on the daemon being started again, which is what `Reconnects` presupposes.
- `AircraftTracker`, `StationRecord`, `RawCapture`, `CaptureChain`: safety only, no fairness.

Deadlock is checked for `Daemon`. The other systems stop by design: everything is
delivered, the server has stopped, the starts or the clock are used up.

## 5. Where the code and its documentation differ

Two runs show a statement of the documentation violated by what the code does:

- `daemon_missing_sighting`, `FlightListsItsSightings`: `lexicons/at/adsb/flight/record.json:52`
  promises references to all sightings "where this aircraft appeared". The references
  are taken at the departure (`daemon.ts:262`); a window still being published then is
  indexed too late. No call need fail.
- `station_race`, `FollowersVerify`: KeyRotated is broadcast before putRecord
  (`key-rotation.ts:43`). A consumer that refetches at once, as
  `docs/stream-signature-verification.md:109` tells it, gets the old key and rejects
  what follows. `FreshFollowersVerify` is what does hold.

Further statements are kept with the modules, marked "Extra, violated" or under a heading
of their own; they are outside the regular runs. The configuration named shows the
behaviour, as it is or (marked +) with the definition as its INVARIANT, or as its PROPERTY
where it is one of steps (`ExitKeepsWindows`).

| configuration | definition | what happens |
|---|---|---|
| `queue_http_date` | `FailedSendBacksOff` | a date as Retry-After makes markFailed throw: the row stays due and the drain ends |
| `queue_early_retry` | `HonoursRetryTime` | an overlapping drain resends from its snapshot within the back-off |
| `daemon_long_window` | `FlightForEveryDeparture` | a departure within a window longer than 60 s has no indexed sighting: no flight record |
| `daemon_missing_sighting` + | `FlightListsContributors` | a sighting indexed after the departure goes to the aircraft's next flight |
| `daemon_window_lost` | `NoWindowGivenUp` | a failed uploadBlob gives up the chunk and those after it; only createRecord is queued |
| `daemon_shutdown_loss` | `FailedSightingQueued` | the final flush only logs a failed createRecord |
| `daemon_two_identities` | `OneIdentityPerHex` | two handlers miss the cache and both create an identity |
| `server_two_sources` | `NoStaleSource` | cleanupConnection removes one entry of a connection that shook hands for two sources |
| `tracker_missed_fix` | `CountsNewFix` | a new fix whose age is not below that of the last counted one is missed |
| `stream_slow_reader` | `BacklogBounded` | the queue of a subscriber has no bound: ConsumerTooSlow of the lexicon is never raised |
| `adapter_backoff` | `DocumentedBackoff` | a refused connection emits error and close, both schedule, and the delay doubles twice per try; `docs/HOSTING.md:299` says 1 s, 2 s, 4 s |
| `adapter_overlapping_polls` | `WindowReportedOnce` | answers that overtake each other report a stats window twice |
| `adapter_slow_poll` | `HandshakeFirst` | a poll from an earlier connection, or a capture file written meanwhile, writes before the next one's handshake |
| `adapter_polls` + | `NoWindowSkipped` | a stats window counts as sent although the socket was gone or the daemon refused it |
| `stats_to_pds` +, `MaxFlushes = 2` | `PositionsHaveAircraft` | a handler that slept over a flush credits positions to one record and the aircraft to another |
| `stats_to_pds` + | `ExitKeepsWindows` | the final record is written only when an aircraft was seen: stats windows go with the process |
| `capture_chain` + | `FramesInSightingWindow` | the capture is stamped with the sighting's window, its frames are of the adapter's |
| `capture_chain` + | `FilesReclaimed` | captures of a window without telemetry, or with captures not enabled, are taken off the list and their files stay; so does a file that unlink fails for twice |
| `capture_chain` + | `FramesWhole` | the flush cuts a frame of which only the head has come |
| `capture_chain` + | `NoOrphans` | a file written while the daemon is away is announced to nobody |
| `capture_escape_cut` | `CountExact` | a cut inside an escaped 0x1a makes its second half look like the begin of a frame |
| `daemon_stored_twice` | `ExactlyOneSighting` | a createRecord whose answer was lost is queued and sent again: two records of one window and aircraft |

Three properties carry an exception that is such a behaviour too. `NoInflation`
excepts a poll overtaken by one stamped later: ages are compared without their
stamps. `AbsentLongEnough` takes the lag off the threshold: a late poll sets lastSeen
back, and the bound is reached. The properties of `StationRecord` except a
record written by a command: `generate-stream-key` publishes a key that the next
start finds unchanged and does not announce, and `register` replaces the record by
one without a key beside a daemon that signs. `WindowsDisjoint` assumes that a file
is written before the next flush (`Writers` has one element); with two it fails.

## 6. What is proved

TLAPS checks these for every value of the constants that satisfies the named
assumptions of the module: any number of drains, records, aircraft, handlers,
connections, clients, failures and restarts.

`PublishQueueProofs`
- `TypeCorrect`, `NothingIsLost` (`NoLoss`), `DeletedStaysDeleted` (`NeverResurrected`,
  which no run repeats) and `ImplementsOutbox` (`KeepsPromise`, the refinement of
  `AtLeastOnce`).
- `NoLoss` is not inductive: Succeed deletes a row because the PDS has answered, and
  nothing in `NoLoss` says that the answer means a copy. `IndInv` adds `StoredHasCopy`
  (a drain in stage "stored" stands at a record with a copy) and `TypeOK`, which
  keeps snapshots within the keys handed out, so that the key of an `Enqueue` is in no
  snapshot. The refinement uses the same invariant: Succeed maps to `Release`, which
  needs the copy; Store to `Deliver` the first time and to a stutter afterwards.
- `CopiesExplained` (`RepeatsExplained`), for any number of drains, delays, lost answers and
  crashes. `Copied` counts the drains that wait for an answer that will come and those that
  may still send: while the row is there a copy at the PDS is of an answer unheard or on its
  way; once it is gone each drain with the record in its snapshot can add one more, and none
  takes it up anew. That drains overlap is no assumption, it is what the bound counts.

`DaemonProofs`
- `TypeCorrect`, and `ProvenanceChain` (`ChainWalkable`).
- `ChainInv` says of every place a reference passes through what `ChainWalkable` says of
  flight records: the job whose record is created but not answered (`JobsBacked`), the
  index (`IndexChained`), a handler's hands (`HandsChained`), records (`RecordsChained`);
  and of identities: a cached category means an identity record (`CacheBacked`), and so
  does a handler past that point (`HandlersBacked`). `OneInHand` ties the references a
  handler holds to the departure they were taken for. `PdsGrows` is the monotonicity that
  keeps all of it.

- `NoReportLost` (`TelemetryAccounted`), `OneRecordPerAircraft`
  (`OneSightingPerAircraft`), `ReferencesUsedOnce` (`RefUsedOnce`).
- A new sighting must differ in its aircraft from those of its window that exist already,
  published, queued or still in a job. `Ledger` says so of everything a window was split
  into: `WindowsInTurn` (a window is in one job, and the open one in none), `ChunksApart`
  (the chunks of a job, and the sightings made of earlier ones, name different aircraft),
  `JobsShaped`. `References` adds `NotYetReferred`: nobody refers to the sighting that a job
  is about to publish, which needs `Ledger` to tell that sighting from all others, and
  `ChainInv`.
- The second parts of the last two are about keys. `Copies` says that a record not yet
  created is nowhere, neither at the PDS nor with the queue (`FlightsOnce`, `SightingsOnce`),
  so that its first key is given by its own call and any other by the queue; that a sighting
  the queue had is in no index and no hand; and that two handlers have no reference of an
  aircraft in common (`HandsApart`), so that they do not create the same flight.

`AdapterProofs`
- Of the server: `TypeCorrect`, `SourcesAreOwned` (`OwnsItsSource`), `ConnectionsAreSupervised`
  (`Supervised`).
- `Registry` conjoins the two with `TypeOK` and `Begun` (who has not connected is in no set);
  they need each other: a replacement is right because the connection replaced is
  destroyed, and it can be destroyed because it is found in the registry.
- Of the adapter, for any number of polls at once: `OnlySlowSpoils` (`SpoiledBySlowOnly`),
  `WindowsRepeatedWhenOvertaken` (`RepeatedOnlyOvertaken`), `BackOffDoubles`
  (`WaitsDouble`, the safety half of `Reconnects`)
  and `DeclaredArrives` (`HeardAsSaid`).
- A write spoils a connection only while it is being made. `Greeted` says that no poll begins
  then, and that one still under way outlasted a wait that no connection was spoiled for yet;
  after the handshake, or after what took its place, nothing can spoil the connection again.
- `Overtaken` bounds what was told of each window by where the last one sent stands: it may
  be told again only after an older one was, and that one came late. Polls may answer in any
  order.
- `Waits` carries the doubling through `error` and `close`, which schedule a reconnect one
  after the other: the time that is set and the next delay are at least twice the last wait.
- `HeardAsSaid` is about data. `Shaped` is what every answer of readsb has in common
  (`SaidShaped`); `MappedFields`, `FlatField`, `WireFields` and `AcceptedFields` say what
  the mapping, JSON and the validator do to one field; `DeclaredAccepted` that what is
  declared passes unchanged, `Usable` that what passes can be used; `AircraftGiven`,
  `StatsGiven`, `HandshakeGiven` and `CaptureGiven` take the four messages through the wire.
  `Made` keeps of each step what `heard` was made from. It needs `OverrideAssumption`: a
  source override is not empty, because `cli.ts` trims it and drops an empty one.

`AircraftTrackerProofs`
- `NothingInflated` (`NoInflation`), `DeparturesAreAbsences` (`AbsentLongEnough`).
- `NoInflation` compares neighbours of a track; `Remembered` ties the last report to the
  age the tracker compares the next one with. `Lagging` says how far lastSeen may be behind
  the latest poll: one that was overtaken sets it back, to its own stamp, which `Clocked`
  bounds by the lag.

`StationRecordProofs`
- `ReferenceIsCurrent` (`RefIsCurrent`), `KeyChangesAnnounced` (`RotationAnnounced`),
  `FollowersCanVerify` (`FreshFollowersVerify`).
- `Keyed` follows the key through the startup: every stage after the rotation writes a
  whole record it read earlier, and still the record has the daemon's key, unless a command
  wrote it since. `LastSigned` carries the key of the last signed event over restarts: until
  KeyRotated goes out the record has it, so a start with another key finds the difference.
  `Heard` says that an inbox holds frames of this process only.

`EventStreamProofs`
- `NumbersTellGaps` (`SeqTellsGaps`), `ImplementsLog` (`ReadsTheLog`, the refinement of
  `EventLog`), under the assumption `InOrderSigning`.
- `LogOrdered` says that what is awaited is above what was emitted, which makes the numbers
  of the log increase and a missing one that of a failure. `ReadsOn` says that what a reader
  received, the frame in its hand and its queue are, in this order, the log from where it
  joined: each step of the generator moves the boundary between them and changes nothing
  else.

`CaptureChainProofs`
- `NothingUnaccounted` (`DataAccounted`), for any cuts, and `WindowsInTurn`
  (`WindowsDisjoint`) under the
  assumption that there is one writer.
- The daemon's half of the chain leaves the adapter's variables alone (`AdapterSteps`), so
  both are proved of `RawCapture`. `Paired` counts sockets and the armed timer against the
  connections to the daemon; `Numbered` says that what is gathered was heard and that what
  is to come was not, so that a data event brings a part that is not in the data yet and
  `FewCopies` can count it. `Behind` orders the captures, the window being written and the
  one that is open.
- `EveryCaptureAccounted` (`CapturesAccounted`) counts the places of a capture; `DaemonInv`
  says it with lists and sets. `Lists`: no list names a capture twice; `Placed`: each capture
  the daemon was told of is waiting, in a batch, in a sighting or given up; `Apart`: in one
  of these only; `Deleted`: a file is deleted, or cannot be, when its capture is read, and
  not before;
  `Stamps`: the blobs of a batch are as many as the captures read. Any number of batch
  callbacks may be in flight.
- `CountOffByTorn` (`FramesCounted`) and `SplittingInverts` (`SplitInverts`) are about functions
  that call themselves, `count`, `split` and the `flatten` of `FlattenSeq`. The library's
  induction takes a predicate as an operator, which no prover here instantiates; `Induct`
  takes a set instead, from `<` being well-founded on the naturals. With it `CountDefined`,
  `SplitDefined` and `FlattenDefined` show that the functions exist, each calling itself
  only further on in its buffer. `Offset(s, k)` is where section k of a concatenation ends;
  `Placement` says what cells are between two offsets.
- `CountOfParts` goes from the last part to the first: before a part the count is that
  behind it and one for the frame that begins in it, off by at most one more if the part is
  of a torn frame (`PartCounted`). A part that ends in half an escape takes the first byte of
  the next one along, so `Off` bounds two counts at each boundary, with that byte and
  without; `PartScanned` follows both through the six bytes, for every begin and end a part
  can have (`Across`). No cut is assumed away.
- `ParseInverts` unrolls `parseAtrxBlob` over what `buildAtrxBlob` made. `SplitOfConcat`
  goes from the last section to the first: at the offset of a section (`SectionAt`) the
  split takes its length from the lengths in it, whatever bytes are in the payload, and is
  that section before the split of the rest. `CutBetween` does the same with a buffer that
  ends early, where the section that is cut is `Truncated`; `ParsedWhole` is that of the
  parser. `Carried` ties the data to the state: the blobs of a batch and of a sighting are
  the captures named, built anew under the window of the batch. It is inductive over
  `DaemonInv`, which says that the captures named exist, because captures are only added
  and `Restamp` parses what `File` built (`Reread`). A wrong count does no harm here: it is
  written and checked by the same function.

`StationStatsProofs`
- `EveryCountAccounted` (`StatsAccounted`), `RecordsRepeatedForCause` (`RepeatedForCause`)
  and `NoRecordForgotten` (`RecordsHeld`: a record that was
  built is in flight, at the PDS, in the queue's table, or went down with the process).
- `StatsAccounted` counts records with cardinalities. `Split` says the same with sets: what
  was received or credited is the disjoint union of the records, the open period and what a
  dying process dropped; `Sums` has it of windows and of transits. That a handler credits
  something new is `Departures`: a transit that ended is at one place, in the list of one
  handler or credited, so a handler that sleeps over a flush credits the next period.
- `RowsApart` ties a record to the queue: no two rows are of one record, and a row's record
  is not in flight, nor was its own call answered. `QueueKept` says that each step of the
  composition keeps the invariants of the queue beneath, `Copied` with them, by the queue's
  own lemmas, instantiated as `QueueProofs`.

Assumptions on constants are typing and bounds (`DelayAssumption`, `RetryAssumption`,
`SwitchAssumption`, `BoundAssumption`, `TimeAssumption`, `StreamAssumption`,
`RehandshakeAssumption`, `CutsAssumption`, `ChainAssumption`, `CountAssumption`;
`QueueAssumption` repeats those of the queue for its instance), that the fleet and the drains
are finite (`FleetAssumption`, `DrainsAssumption`), that the model's own marks are nobody's
values (`NoneAssumption`, `UnsetAssumption`, `SlotAssumption`, `CategoryAssumption`), and
`OverrideAssumption`. Only two need more of the environment and say so in their own ASSUME:
`WindowsInTurn` one writer at a time, and the theorems of `EventStreamProofs`
`InOrderSigning`.

## 7. What is only model-checked

All liveness (`EventuallyDrained`, `StatsArrive`, `FlightPublished`, `DeparturesHandled`,
`HandshakeOrClosed`, `StopCompletes`, the first half of `Reconnects`, `ListenerReleased`,
`FramesArrive`, `StopEnds`): the proof system handles neither ENABLED nor fairness.
Every other property of a run that passes is proved; the constants of the runs satisfy the
two assumptions named at the end of section 6.

## 8. Not modelled

- Data nothing depends on: callsigns, coordinates, snapshots, record text, logging.
- Of the stats record: maximum range, signal levels and the breakdown by protocol.
- Of ATRX: `countUatFrames`, for which nothing produces input, payloads without compression,
  and the reserved bytes of the header.
- Signatures, manifests and hashes: a signature is the key that made it, a manifest the
  set of aircraft.
- The delay between BEAST reconnects: a reconnect may come at any time after the close. Of
  several BEAST sockets `BeastClient.stop` destroys the one it knows; the others end with the
  process, which stop() is followed by.
- The Unix socket file, SQLite itself (its operations are atomic and durable), the PDS
  (external: it stores what it is given and may answer or not).
- The parsing of options and configuration; the commands are in `StationRecord` as far as
  they touch the record.
- The stream client, the lexicons and the deployment files have no state.

## 9. Plan

Written first, in this order: queue, pipeline, adapter server, tracker, station
record, adapter, captures, because the pipeline and the queue hold what users lose when
something goes wrong; then the stream, the statistics over the queue, the containers with
the capture chain, and the adapter's messages. Left:

1. `AdapterFeed` composed with `AdapterServer` in place of its sketch of the server, with
   two adapters.
2. `Daemon` over `PublishQueue` in place of its contract, as `StationStats` is: the
   fairness of `Drain` would be derived.
3. Theorems: `LogOrdered` without `InOrderSigning`, as far as it holds.

---------------------------- MODULE ReadsbAdapter ----------------------------
(***************************************************************************)
(* The readsb adapter (src/server/src/adapters/readsb.ts): its connection  *)
(* to the daemon with the reconnect timer, and the polls it makes of       *)
(* readsb, whose answers it writes to whatever socket it has then.         *)
(*                                                                         *)
(* A failed connection emits error and then close; both schedule a         *)
(* reconnect.  A poll is two requests, for aircraft and for stats, and     *)
(* fetch has no timeout: a poll may outlast its connection.  A socket      *)
(* that is still connecting takes messages and sends them first.  The      *)
(* daemon appears by what its AdapterServer does: it ends a connection     *)
(* whose first message is no handshake, and all of them when it stops.     *)
(***************************************************************************)
EXTENDS Integers

CONSTANTS Polls,         \* slots for polls in flight
          BaseDelay,     \* reconnectDelayMs, in ticks
          MaxDelay,      \* maxReconnectDelayMs, in ticks
          Unset,         \* no timer, no message, no window yet
          MaxWindow,     \* bound: stats windows of readsb
          MaxTries,      \* bound: tries that are told apart
          MaxOutages,    \* bound: stops of the daemon
          MaxSlow        \* bound: waits for a reconnect that a poll or a write outlasts

ASSUME DelayAssumption ==
  BaseDelay \in Nat \ {0} /\ MaxDelay \in Nat /\ BaseDelay <= MaxDelay
ASSUME BoundAssumption ==
  /\ MaxWindow \in Nat \ {0} /\ MaxTries \in Nat
  /\ MaxOutages \in Nat /\ MaxSlow \in Nat
ASSUME UnsetAssumption == Unset \notin Nat /\ Unset \notin {"handshake", "data"}

VARIABLES link,      \* this.socket: see Links
          first,     \* kind of the first message written to it, or Unset
          spoiled,   \* connections whose first message was not the handshake
          slow,      \* waits for a reconnect that a poll or a write outlasted
          retry,     \* delay of the armed reconnectTimer, or Unset
          delay,     \* currentReconnectDelayMs
          tries,     \* retries since the last connection
          lastWait,  \* wait before the last of them
          polling,   \* pollTimer is set
          poll,      \* slot -> [stage, window] of a poll in flight
          last,      \* lastStatsWindowStart
          window,    \* readsb's last1min window
          reported,  \* window -> stats messages the daemon accepted
          late,      \* answers reported after one of a later window
          daemonUp, outages

connection == <<link, first, spoiled, slow, retry, delay, tries, lastWait>>
stats == <<last, reported, late>>
adapterVars == <<connection, polling, poll, stats, window, daemonUp, outages>>

Links == {"connecting", "open", "closing", "failed", "down", "stopped"}
Windows == 1 .. MaxWindow
Idle == [stage |-> "idle", window |-> 1]

\* start() connects at once.
AdapterInit ==
  /\ link = "connecting"
  /\ first = Unset
  /\ spoiled = 0
  /\ slow = 0
  /\ retry = Unset
  /\ delay = BaseDelay
  /\ tries = 0
  /\ lastWait = 0
  /\ polling = FALSE
  /\ poll = [p \in Polls |-> Idle]
  /\ last = Unset
  /\ window = 1
  /\ reported = [w \in Windows |-> 0]
  /\ late = 0
  /\ daemonUp \in BOOLEAN
  /\ outages = 0

-----------------------------------------------------------------------------
AtMost(n, max) == IF n < max THEN n ELSE max

\* calculateBackoffDelay
NextDelay == AtMost(2 * delay, MaxDelay)

\* scheduleReconnect: a timer that is armed already is replaced.
Schedule ==
  /\ retry' = delay
  /\ delay' = NextDelay

\* A poll is begun in a free slot, if the bound on polls leaves one.
Begin ==
  \/ \E p \in Polls : /\ poll[p].stage = "idle"
                      /\ poll' = [poll EXCEPT ![p].stage = "aircraft"]
  \/ (\A p \in Polls : poll[p].stage # "idle") /\ UNCHANGED poll

\* The socket connects: handshake, and the poll loop starts with a poll.  What
\* was written while it was connecting goes out before the handshake.
Connected ==
  /\ link = "connecting"
  /\ daemonUp
  /\ link' = "open"
  /\ first' = IF first = Unset THEN "handshake" ELSE first
  /\ delay' = BaseDelay
  /\ tries' = 0
  /\ lastWait' = 0
  /\ polling' = TRUE
  /\ Begin
  /\ UNCHANGED <<spoiled, slow, retry, stats, window, daemonUp, outages>>

\* An error event: the connection is refused, or one that the daemon has ended
\* is reset.
Ended == link = "open" /\ (~daemonUp \/ first = "data")

Errored ==
  /\ (link = "connecting" /\ ~daemonUp) \/ Ended
  /\ link' = "failed"
  /\ Schedule
  /\ UNCHANGED <<first, spoiled, slow, tries, lastWait, polling, poll, stats, window,
                 daemonUp, outages>>

\* The daemon ends the connection without an error.
Finished ==
  /\ Ended
  /\ link' = "closing"
  /\ UNCHANGED <<first, spoiled, slow, retry, delay, tries, lastWait, polling, poll, stats,
                 window, daemonUp, outages>>

\* Mutant of Closed: only an error schedules a reconnect.
ClosedQuietly ==
  /\ link \in {"closing", "failed"}
  /\ link' = "down"
  /\ polling' = FALSE
  /\ UNCHANGED <<first, spoiled, slow, retry, delay, tries, lastWait, poll, stats, window,
                 daemonUp, outages>>

\* Mutant of Closed: the poll loop goes on.
ClosedStillPolling ==
  /\ link \in {"closing", "failed"}
  /\ link' = "down"
  /\ Schedule
  /\ UNCHANGED <<first, spoiled, slow, tries, lastWait, polling, poll, stats, window, daemonUp,
                 outages>>

\* The close event.
Closed ==
  /\ link \in {"closing", "failed"}
  /\ link' = "down"
  /\ polling' = FALSE
  /\ Schedule
  /\ UNCHANGED <<first, spoiled, slow, tries, lastWait, poll, stats, window, daemonUp, outages>>

\* The reconnect timer fires.  Close follows error at once, long before the
\* shortest delay.
Reconnect ==
  /\ link = "down"
  /\ retry # Unset
  /\ slow' = slow + IF \E p \in Polls : poll[p].stage # "idle" THEN 1 ELSE 0
  /\ slow' <= MaxSlow
  /\ link' = "connecting"
  /\ first' = Unset
  /\ retry' = Unset
  /\ lastWait' = retry
  /\ tries' = AtMost(tries + 1, MaxTries)
  /\ UNCHANGED <<spoiled, delay, polling, poll, stats, window, daemonUp, outages>>

\* stop(), then the process exits.
StopAdapter ==
  /\ link # "stopped"
  /\ link' = "stopped"
  /\ polling' = FALSE
  /\ retry' = Unset
  /\ poll' = [p \in Polls |-> Idle]
  /\ UNCHANGED <<first, spoiled, slow, delay, tries, lastWait, stats, window, daemonUp, outages>>

-----------------------------------------------------------------------------
\* The poll timer.
PollTimer ==
  /\ polling
  /\ \E p \in Polls : poll[p].stage = "idle"
  /\ Begin
  /\ UNCHANGED <<connection, polling, stats, window, daemonUp, outages>>

\* writeMessage takes a message unless the socket is destroyed; no handshake goes
\* before what is written while the socket connects.
Write ==
  IF first = Unset /\ link \in {"connecting", "open"}
  THEN first' = "data" /\ spoiled' = spoiled + 1
  ELSE UNCHANGED <<first, spoiled>>

\* The aircraft arrive and are written; the stats are asked for.
Aircraft(p) ==
  /\ poll[p].stage = "aircraft"
  /\ Write
  /\ poll' = [poll EXCEPT ![p].stage = "stats"]
  /\ UNCHANGED <<link, slow, retry, delay, tries, lastWait, polling, stats, window,
                 daemonUp, outages>>

\* readsb answers with the window it has now (external).
Answer(p) ==
  /\ poll[p].stage = "stats"
  /\ poll' = [poll EXCEPT ![p] = [stage |-> "answered", window |-> window]]
  /\ UNCHANGED <<connection, polling, stats, window, daemonUp, outages>>

\* The daemon accepts a message that follows a handshake.
Accepted == link = "open" /\ first = "handshake" /\ daemonUp

\* The window of the answer is the last one reported from here on; it may be older.
Report(w, valid) ==
  /\ last' = w
  /\ late' = late + IF last # Unset /\ w < last THEN 1 ELSE 0
  /\ reported' = IF Accepted /\ valid THEN [reported EXCEPT ![w] = @ + 1] ELSE reported
  /\ Write

\* Mutant of Stats: every answer is reported.
StatsAlways(p, valid) ==
  /\ poll[p].stage = "answered"
  /\ Report(poll[p].window, valid)
  /\ poll' = [poll EXCEPT ![p] = Idle]
  /\ UNCHANGED <<link, slow, retry, delay, tries, lastWait, polling, window, daemonUp,
                 outages>>

\* The stats arrive: buildStatsMessage reports a window other than the last
\* one; it counts as sent whether or not the socket took it, and whether or not
\* it is valid to the daemon.
Stats(p, valid) ==
  /\ poll[p].stage = "answered"
  /\ IF poll[p].window = last THEN UNCHANGED <<stats, first, spoiled>>
     ELSE Report(poll[p].window, valid)
  /\ poll' = [poll EXCEPT ![p] = Idle]
  /\ UNCHANGED <<link, slow, retry, delay, tries, lastWait, polling, window, daemonUp,
                 outages>>

\* A request to readsb fails: the poll is over.
PollFails(p) ==
  /\ poll[p].stage # "idle"
  /\ poll' = [poll EXCEPT ![p] = Idle]
  /\ UNCHANGED <<connection, polling, stats, window, daemonUp, outages>>

\* readsb starts its next window (external).
NextWindow ==
  /\ window < MaxWindow
  /\ window' = window + 1
  /\ UNCHANGED <<connection, polling, poll, stats, daemonUp, outages>>

\* The daemon stops and starts (external).
DaemonStops ==
  /\ daemonUp
  /\ outages < MaxOutages
  /\ daemonUp' = FALSE
  /\ outages' = outages + 1
  /\ UNCHANGED <<connection, polling, poll, stats, window>>

DaemonStarts ==
  /\ ~daemonUp
  /\ daemonUp' = TRUE
  /\ UNCHANGED <<connection, polling, poll, stats, window, outages>>

Running(p) == Aircraft(p) \/ Answer(p) \/ \E valid \in BOOLEAN : Stats(p, valid)

Linking == Connected \/ Errored \/ Finished \/ Closed \/ Reconnect

AdapterNext ==
  \/ Linking \/ StopAdapter \/ PollTimer
  \/ \E p \in Polls : Running(p) \/ PollFails(p)
  \/ NextWindow \/ DaemonStops \/ DaemonStarts

AdapterSpec == AdapterInit /\ [][AdapterNext]_adapterVars

\* Timers fire, sockets report, requests end, and the daemon is started again.
Fairness ==
  /\ WF_adapterVars(Linking)
  /\ WF_adapterVars(DaemonStarts)
  /\ \A p \in Polls : WF_adapterVars(Running(p) \/ PollFails(p))

-----------------------------------------------------------------------------
Delays == 0 .. MaxDelay

AdapterTypeOK ==
  /\ link \in Links
  /\ first \in {"handshake", "data", Unset}
  /\ spoiled \in Nat /\ slow \in 0 .. MaxSlow
  /\ retry \in Delays \cup {Unset}
  /\ delay \in Delays
  /\ tries \in 0 .. MaxTries
  /\ lastWait \in Delays
  /\ polling \in BOOLEAN
  /\ poll \in [Polls -> [stage : {"idle", "aircraft", "stats", "answered"},
                         window : Windows]]
  /\ last \in Windows \cup {Unset}
  /\ window \in Windows
  /\ reported \in [Windows -> Nat]
  /\ late \in Nat
  /\ daemonUp \in BOOLEAN
  /\ outages \in Nat

\* Types, and: the daemon is told a stats window again only where polls that overlap
\* (setInterval, and fetch without a timeout) overtook each other: however many
\* polls read it and reconnects begin further ones, the repeats of a window are at
\* most the answers that came after one of a later window.  Where none does, a
\* window is reported once (readsb-mapping.ts:36).
RepeatedOnlyOvertaken ==
  AdapterTypeOK /\ \A w \in Windows : reported[w] <= 1 + late

\* The daemon ends a connection whose first message is not the handshake.  A poll or a
\* file write that outlasts the wait for a reconnect costs at most the connection
\* made after that wait: nothing else is written before the handshake, and the
\* connections after it are greeted again.
SpoiledBySlowOnly == spoiled <= slow

\* Extra, violated where polls overtake each other: "a window is reported only once"
\* (readsb-mapping.ts:36).
WindowReportedOnce == \A w \in Windows : reported[w] <= 1

\* Extra, violated where a poll outlasts the wait for a reconnect: the first message of
\* every connection is the handshake, the only one the daemon accepts there.
HandshakeFirst == first # "data"

\* The n-th retry waits BaseDelay * 2^(n-1), up to the maximum: "exponential
\* backoff (1s, 2s, 4s... up to 60s)" (HOSTING.md).
DocumentedBackoff ==
  (link = "down" /\ retry # Unset /\ tries < MaxTries)
    => retry = AtMost(BaseDelay * 2 ^ tries, MaxDelay)

\* While the daemon is away the waits between tries double, up to the maximum:
\* no error and close of one connection cut the next wait short.
WaitsDouble ==
  [][(tries' # tries /\ tries' > 1)
       => lastWait' >= AtMost(2 * lastWait, MaxDelay)]_adapterVars

\* An adapter that is not stopped is connected again and again, with its
\* handshake accepted, however often the daemon goes away; and it never hammers.
Reconnects ==
  /\ []<>((link = "open" /\ first = "handshake") \/ link = "stopped")
  /\ WaitsDouble

=============================================================================

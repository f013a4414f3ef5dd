---------------------------- MODULE StationStats ----------------------------
(***************************************************************************)
(* The statistics of the station, from the adapters to the PDS: the        *)
(* accumulators stats and protocolStats of runDaemon in                    *)
(* src/server/src/daemon.ts, what onStats and onAircraft credit to them,   *)
(* the timer that turns them into a record, and shutdown, composed with    *)
(* the publish queue that takes the records the PDS would not.             *)
(*                                                                         *)
(* stats is a variable that the timer replaces before its await; handlers  *)
(* of aircraft messages suspend between the credits they make, and credit  *)
(* to whatever period is open when they go on.                             *)
(*                                                                         *)
(* A stats window of an adapter is its number, the positions of a transit  *)
(* are the pair <<aircraft, number>>: a sum is the set of what was added.  *)
(***************************************************************************)
EXTENDS Integers, Sequences, FiniteSets, SequencesExt, Functions

CONSTANTS Aircraft,
          Handlers,      \* calls of onAircraft in flight
          MaxWindows,    \* bound: stats windows the adapters send
          MaxTransits,   \* bound: transits of an aircraft
          MaxFlushes,    \* bound: records the timer builds
          \* those of the publish queue
          Drains, BaseDelay, MaxDelay, RetryAfters, HttpDates, LostResponses,
          MaxEnqueued, MaxFailures, MaxCrashes

ASSUME CountAssumption ==
  MaxWindows \in Nat /\ MaxTransits \in Nat /\ MaxFlushes \in Nat
ASSUME FleetAssumption == IsFiniteSet(Aircraft)

VARIABLES open,       \* stats and protocolStats: [seen, positions, windows]
          windows,    \* stats windows received so far
          tracked,    \* aircraft in the tracker
          transit,    \* aircraft -> the number of its last transit
          handler,    \* onAircraft in flight: [todo, present, stage, began]
          credited,   \* transits whose positions were credited
          records,    \* the records built, in order
          sent,       \* those whose createRecord is in flight
          published,  \* those the PDS has from that call
          unanswered, \* those of them whose answer never came
          rowOf,      \* row of the queue -> its record
          lost,       \* records nobody has any more
          dropped,    \* windows and transits that no record will ever hold
          phase       \* of the process: see Phases

VARIABLES rows, nextId, drain, copies, unheard, failures, crashes

Queue == INSTANCE PublishQueue

ASSUME QueueAssumption ==
  /\ Queue!DrainsAssumption /\ Queue!DelayAssumption /\ Queue!RetryAssumption
  /\ Queue!SwitchAssumption /\ Queue!BoundAssumption

queue == <<rows, nextId, drain, copies, unheard, failures, crashes>>
traffic == <<windows, tracked, transit, handler, credited>>
output == <<records, sent, published, unanswered, rowOf, lost, dropped>>
vars == <<open, traffic, output, phase, queue>>

\* "final": the final record is on its way; "skipped": there is none.
Phases == {"running", "flushing", "final", "closing", "skipped", "down"}

\* createStatsAccumulator, and protocolStats.clear()
Fresh == [seen |-> {}, positions |-> {}, windows |-> {}]
Idle == [todo |-> << >>, present |-> {}, stage |-> "idle", began |-> 0]
Transits == Aircraft \X (1 .. MaxTransits)

Numbers == 1 .. MaxFlushes + MaxCrashes   \* of records: a final one per process

Init ==
  /\ open = Fresh
  /\ windows = 0
  /\ tracked = {}
  /\ transit = [a \in Aircraft |-> 0]
  /\ handler = [h \in Handlers |-> Idle]
  /\ credited = {}
  /\ records = << >>
  /\ sent = {}
  /\ published = {}
  /\ unanswered = {}
  /\ rowOf = << >>
  /\ lost = {}
  /\ dropped = [windows |-> {}, positions |-> {}]
  /\ phase = "running"
  /\ Queue!Init

-----------------------------------------------------------------------------
\* Messages come in: shutdown destroys the sockets before anything else.
Accepting == phase = "running"

\* onStats
OnStats ==
  /\ Accepting
  /\ windows < MaxWindows
  /\ windows' = windows + 1
  /\ open' = [open EXCEPT !.windows = @ \cup {windows'}]
  /\ UNCHANGED <<tracked, transit, handler, credited, output, phase, queue>>

\* The tracker after a message.
Tracked(present, gone) == (tracked \cup present) \ gone

\* tracker.update, and the frame of the message that is now being signed.
OnAircraft(h, present, gone) ==
  /\ Accepting
  /\ handler[h].stage = "idle"
  /\ \A a \in present \ tracked : transit[a] < MaxTransits
  /\ tracked' = Tracked(present, gone)
  /\ transit' = [a \in Aircraft |-> IF a \in present \ tracked
                                    THEN transit[a] + 1 ELSE transit[a]]
  /\ \E todo \in SetToSeqs({<<a, transit[a]>> : a \in gone}) :
       handler' = [handler EXCEPT ![h] = [todo |-> todo, present |-> present,
                                          stage |-> "signing",
                                          began |-> Len(records)]]
  /\ UNCHANGED <<open, windows, credited, output, phase, queue>>

\* The loop over the departed aircraft goes on with todo, over n of them that have
\* no positions, to the next whose records it awaits; after the last one the
\* aircraft of the message are credited.  period: the accumulators so far.
Advance(h, todo, period) ==
  \E n \in 0 .. Len(todo) :
    LET done == n = Len(todo)
        met  == {todo[i][1] : i \in 1 .. IF done THEN n ELSE n + 1}
    IN  /\ open' = [period EXCEPT !.seen = @ \cup met \cup
                      IF done THEN handler[h].present ELSE {}]
        /\ handler' =
             [handler EXCEPT ![h] =
                IF done THEN Idle
                ELSE [@ EXCEPT !.todo = SubSeq(todo, n + 1, Len(todo)),
                               !.stage = "awaiting"]]

\* The frame is signed and emitted.
FrameSent(h) ==
  /\ handler[h].stage = "signing"
  /\ Advance(h, handler[h].todo, open)
  /\ UNCHANGED <<windows, tracked, transit, credited, output, phase, queue>>

\* Signing throws: the message is not credited at all.
FrameFails(h) ==
  /\ handler[h].stage = "signing"
  /\ failures < MaxFailures
  /\ failures' = failures + 1
  /\ handler' = [handler EXCEPT ![h] = Idle]
  /\ UNCHANGED <<open, windows, tracked, transit, credited, output, phase, rows,
                 nextId, drain, copies, unheard, crashes>>

\* Mutant of Credit: the handler keeps the accumulator it began with.
CreditToCaptured(h) ==
  IF handler[h].began = Len(records)
  THEN [open EXCEPT !.positions = @ \cup {Head(handler[h].todo)}] ELSE open

\* The period that is open now takes the positions of the departed aircraft.
Credit(h) == [open EXCEPT !.positions = @ \cup {Head(handler[h].todo)}]

\* Its flight record is published, queued, or not to be written.
FlightHandled(h) ==
  /\ handler[h].stage = "awaiting"
  /\ credited' = credited \cup {Head(handler[h].todo)}
  /\ Advance(h, Tail(handler[h].todo), Credit(h))
  /\ UNCHANGED <<windows, tracked, transit, output, phase, queue>>

\* Its identity could not be created: its positions are not credited.
IdentityFails(h) ==
  /\ handler[h].stage = "awaiting"
  /\ failures < MaxFailures
  /\ failures' = failures + 1
  /\ Advance(h, Tail(handler[h].todo), open)
  /\ UNCHANGED <<windows, tracked, transit, credited, output, phase, rows, nextId,
                 drain, copies, unheard, crashes>>

-----------------------------------------------------------------------------
\* buildStatsRecord, and createRecord goes out.
Send ==
  /\ records' = Append(records, open)
  /\ sent' = sent \cup {Len(records')}

\* The error is logged and nothing else.
Forget(r) == UNCHANGED <<rowOf, rows, nextId, drain, copies, unheard, crashes>>

\* queue.enqueue
Keep(r) ==
  /\ nextId <= MaxEnqueued
  /\ rows' = Queue!Insert(rows, nextId)
  /\ nextId' = nextId + 1
  /\ rowOf' = Append(rowOf, r)
  /\ UNCHANGED <<drain, copies, unheard, crashes>>

\* Mutant of Flush: the record goes through the queue and is sent at once too.
FlushTwice ==
  /\ phase = "running"
  /\ Len(records) < MaxFlushes
  /\ Send
  /\ Keep(Len(records'))
  /\ open' = Fresh
  /\ UNCHANGED <<traffic, published, unanswered, lost, dropped, phase, failures>>

\* statsTimer up to its await: the accumulators are reset before it.
Flush ==
  /\ phase = "running"
  /\ Len(records) < MaxFlushes
  /\ Send
  /\ open' = Fresh
  /\ UNCHANGED <<traffic, published, unanswered, rowOf, lost, dropped, phase, queue>>

\* The answer to the call for the final record ends the flush of shutdown.
AfterAnswer(r) ==
  phase' = IF phase = "final" /\ r = Len(records) THEN "closing" ELSE phase

Published(r) ==
  /\ r \in sent \ published
  /\ published' = published \cup {r}
  /\ sent' = sent \ {r}
  /\ AfterAnswer(r)
  /\ UNCHANGED <<open, traffic, records, unanswered, rowOf, lost, dropped, queue>>

\* createRecord throws, perhaps after the PDS stored the record.  The timer
\* enqueues it; shutdown only logs the failure of the final one.
PublishFails(r) ==
  /\ r \in sent
  /\ failures < MaxFailures
  /\ failures' = failures + 1
  /\ \E stored \in SUBSET {r} :
       /\ stored # {} => LostResponses
       /\ published' = published \cup stored
       /\ unanswered' = unanswered \cup stored
  /\ sent' = sent \ {r}
  /\ IF phase = "final" /\ r = Len(records)
     THEN Forget(r) /\ lost' = (lost \cup {r}) \ published'
     ELSE Keep(r) /\ UNCHANGED lost
  /\ AfterAnswer(r)
  /\ UNCHANGED <<open, traffic, records, dropped>>

\* drainQueue, started by a timer that shutdown clears.
Drain ==
  /\ phase # "down"
  /\ \E d \in Drains :
       \/ phase = "running" /\ Queue!StartDrain(d)
       \/ Queue!Succeed(d) \/ Queue!Answer(d) \/ Queue!RateLimitedUntilDate(d)
  /\ UNCHANGED <<open, traffic, output, phase>>

Tick == Queue!Tick /\ UNCHANGED <<open, traffic, output, phase>>

-----------------------------------------------------------------------------
\* SIGTERM: the timers are cleared and the adapters cut off; the partial batch is
\* flushed next.
Shutdown ==
  /\ phase = "running"
  /\ crashes < MaxCrashes
  /\ phase' = "flushing"
  /\ UNCHANGED <<open, traffic, output, queue>>

\* Partial stats: only when an aircraft was seen; stats is not replaced.
FinalStats ==
  /\ phase = "flushing"
  /\ IF open.seen # {}
     THEN Send /\ phase' = "final"
     ELSE UNCHANGED <<records, sent>> /\ phase' = "skipped"
  /\ UNCHANGED <<open, traffic, published, unanswered, rowOf, lost, dropped, queue>>

InRecords(field) == UNION {records[r][field] : r \in DOMAIN records}

\* The process is gone, and with it what only it knew; of the calls in flight the
\* PDS may still take some.
Die ==
  /\ phase' = "down"
  /\ Queue!Crash
  /\ \E taken \in SUBSET sent : /\ published' = published \cup taken
                              /\ unanswered' = unanswered \cup taken
                              /\ lost' = lost \cup (sent \ taken)
  /\ sent' = {}
  /\ dropped' =
       [windows |-> dropped.windows \cup (open.windows \ InRecords("windows")),
        positions |->
          dropped.positions \cup (open.positions \ InRecords("positions"))]
  /\ open' = Fresh
  /\ tracked' = {}
  /\ handler' = [h \in Handlers |-> Idle]
  /\ UNCHANGED <<windows, transit, credited, records, rowOf>>

\* process.exit, with createRecord of earlier records perhaps still in flight.
Exit == phase \in {"closing", "skipped"} /\ Die

Crash == phase \in {"running", "flushing", "final"} /\ Die

Restart ==
  /\ phase = "down"
  /\ phase' = "running"
  /\ UNCHANGED <<open, traffic, output, queue>>

Handle(h) ==
  \/ \E present, gone \in SUBSET Aircraft :
       gone \subseteq tracked \ present /\ OnAircraft(h, present, gone)
  \/ FrameSent(h) \/ FrameFails(h) \/ FlightHandled(h) \/ IdentityFails(h)

Next ==
  \/ OnStats
  \/ \E h \in Handlers : Handle(h)
  \/ Flush
  \/ \E r \in Numbers : Published(r) \/ PublishFails(r)
  \/ Drain
  \/ Tick
  \/ Shutdown \/ FinalStats \/ Exit \/ Crash \/ Restart

Spec == Init /\ [][Next]_vars

\* The process is started again and goes on to its end once asked to, the calls it
\* makes are answered (a bounded number fails), and the drain timer fires.
Fairness ==
  /\ WF_vars(\E r \in Numbers : Published(r))
  /\ WF_vars(Drain)
  /\ WF_vars(Tick)
  /\ WF_vars(FinalStats) /\ WF_vars(Exit) /\ WF_vars(Restart)

FairSpec == Spec /\ Fairness

-----------------------------------------------------------------------------
Periods == [seen : SUBSET Aircraft, positions : SUBSET Transits,
            windows : SUBSET (1 .. windows)]

\* Types; what a handler waits for, and what is credited, has departed.
TypeOK ==
  /\ open \in Periods
  /\ windows \in 0 .. MaxWindows
  /\ tracked \subseteq Aircraft
  /\ transit \in [Aircraft -> 0 .. MaxTransits]
  /\ \A h \in Handlers :
       /\ ToSet(handler[h].todo) \subseteq
            {t \in Transits : t[2] <= transit[t[1]]} \ credited
       /\ handler[h].present \subseteq Aircraft
       /\ handler[h].stage \in {"idle", "signing", "awaiting"}
       /\ handler[h].began \in 0 .. Len(records)
  /\ credited \subseteq Transits
  /\ records \in Seq(Periods)
  /\ sent \cup published \cup lost \subseteq DOMAIN records
  /\ sent \cap (published \cup lost) = {}
  /\ unanswered \subseteq published
  /\ rowOf \in Seq(DOMAIN records)
  /\ Len(rowOf) = nextId - 1
  /\ phase \in Phases
  /\ Queue!TypeOK

\* How many records count a token, a drop with the process included.
Homes(token, field) ==
  Cardinality({r \in DOMAIN records : token \in records[r][field]})
    + IF token \in dropped[field] THEN 1 ELSE 0

\* Types, and: every window an adapter reported and every transit whose handling ended counts in
\* exactly one record, or still in the open period: what is credited while a record
\* is on its way goes to the next one and nothing is counted twice (daemon.ts:
\* "credited to the next period rather than dropped").  The final record is built
\* without replacing the accumulators.
Accounted(token, field) ==
  \/ /\ Homes(token, field) = 1
     /\ token \in open[field] => phase \in {"final", "closing"}
  \/ Homes(token, field) = 0 /\ token \in open[field]

StatsAccounted ==
  /\ TypeOK
  /\ \A w \in 1 .. windows : Accounted(w, "windows")
  /\ \A t \in credited : Accounted(t, "positions")

Rows(r) == {id \in DOMAIN rowOf : rowOf[id] = r}
AtPds(r) == r \in published \/ \E id \in Rows(r) : copies[id] > 0

\* A period is stored at the PDS more than once only for a reason: a record whose call
\* was answered is never queued and no record is queued twice, so what is stored twice
\* was stored by the direct call or by the queue's without their answer arriving, or by
\* drains that overlap (SPECIFICATION.md:188, "queued", "retried", against daemon.ts's
\* statsTimer and drainQueue).
RepeatedForCause ==
  /\ Queue!RepeatsExplained
  /\ \A r \in DOMAIN records :
       /\ r \in published \ unanswered => Rows(r) = {}
       /\ \A i, j \in Rows(r) : i = j

\* Only proved: a record that was built is on its way, at the PDS, in the queue's table,
\* or lost with the process or with the failed call of shutdown.
RecordsHeld ==
  \A r \in DOMAIN records :
    r \in sent \cup lost \/ AtPds(r) \/ Rows(r) \cap DOMAIN rows # {}

\* Every record reaches the PDS in the end, if it is not lost with a process: those
\* the queue took in one life of the daemon are sent in another.
StatsArrive ==
  \A r \in Numbers :
    r \in DOMAIN records ~> AtPds(r) \/ r \in lost

\* Extra, violated: a record that counts positions of an aircraft counts the
\* aircraft ("Unique aircraft observed during the period", stats.json).
PositionsHaveAircraft ==
  \A r \in DOMAIN records : \A t \in records[r].positions :
    t[1] \in records[r].seen

\* Extra, violated: nothing an adapter reported is lost at an orderly end.
ExitKeepsWindows ==
  [][(phase \in {"closing", "skipped"} /\ phase' = "down") =>
       open.windows \subseteq InRecords("windows")]_vars

=============================================================================

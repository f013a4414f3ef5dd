---------------------------- MODULE DaemonProofs ----------------------------
(***************************************************************************)
(* Proofs about Daemon for any number of aircraft, transits, windows,      *)
(* handlers, flushers, failures and restarts: type correctness,            *)
(* ChainWalkable (the walk from a flight record to its sightings),         *)
(* TelemetryAccounted, OneSightingPerAircraft and RefUsedOnce.             *)
(*                                                                         *)
(* ChainWalkable speaks of flight records; what makes it inductive is      *)
(* ChainInv, which says the same of every place a reference passes through *)
(* on its way: the job whose record the PDS has created but not answered,  *)
(* the index, the hands of a handler, and the records themselves; and, for *)
(* identities, the cache and the handler.                                  *)
(*                                                                         *)
(* Ledger, further down, is about reports: no two jobs publish the same    *)
(* window, and the chunks of a window, those published and those to come,  *)
(* have no aircraft in common.  References is about what handlers and      *)
(* flushers share: nobody has a reference to the sighting a job is about   *)
(* to publish, so the reference it adds to the index is new.               *)
(*                                                                         *)
(* Copies is about the keys the PDS gives: a record that a job or a        *)
(* handler has yet to create is nowhere, so that only the queue, which is  *)
(* given what failed, can create it again.                                 *)
(***************************************************************************)
EXTENDS Daemon, TLAPS

USE DEF store

-----------------------------------------------------------------------------
(* Type correctness.                                                       *)

\* Where the loop over the departures goes next is a handler's state, and it
\* has only taken departures it had to do.
LEMMA OutcomesTyped ==
  ASSUME TypeOK, NEW todo \in SUBSET Departure, NEW known,
         NEW outcome \in Outcomes(todo, known)
  PROVE  outcome.state \in HandlerState /\ outcome.done \subseteq todo
<1> DEFINE silent == {ac \in todo : Silent(ac, known)}
<1>1. CASE outcome = [state |-> NoHandler, done |-> todo]
  BY <1>1 DEF NoHandler, HandlerState
<1>2. ASSUME NEW p \in (todo \ silent) \X SUBSET silent,
             outcome = [state |-> [stage |-> FirstCall(p[1], known),
                                   stored |-> FALSE,
                                   todo |-> (todo \ p[2]) \ {p[1]},
                                   now |-> {p[1]},
                                   refs |-> index[p[1].transit.hex]],
                        done |-> p[2] \cup {p[1]}]
      PROVE  outcome.state \in HandlerState /\ outcome.done \subseteq todo
  <2>1. p[1] \in todo /\ p[2] \subseteq todo
    OBVIOUS
  <2>2. p[1].transit.hex \in Hexes
    BY <2>1 DEF Departure, Transit
  <2>3. index[p[1].transit.hex] \subseteq Sighting
    BY <2>2 DEF TypeOK
  <2>4. FirstCall(p[1], known) \in {"identity", "category", "flight"}
    BY DEF FirstCall
  <2> QED
    BY <1>2, <2>1, <2>3, <2>4 DEF HandlerState
<1> QED
  BY <1>1, <1>2 DEF Outcomes

LEMMA LoopTyped ==
  ASSUME TypeOK, NEW h \in Handlers, NEW known,
         NEW todo \in SUBSET Departure, LoopOn(h, todo, known)
  PROVE  /\ handler' \in [Handlers -> HandlerState]
         /\ index' \in [Hexes -> SUBSET Sighting]
<1>1. PICK outcome \in Outcomes(todo, known) :
        /\ handler' = [handler EXCEPT ![h] = outcome.state]
        /\ index' = [hex \in Hexes |->
             IF \E ac \in outcome.done : ac.transit.hex = hex
             THEN {} ELSE index[hex]]
  BY DEF LoopOn
<1>2. outcome.state \in HandlerState
  BY OutcomesTyped
<1> QED
  BY <1>1, <1>2 DEF TypeOK

LEMMA FlightOrOnTyped ==
  ASSUME TypeOK, NEW h \in Handlers, NEW ac, NEW known,
         FlightOrOn(h, ac, known)
  PROVE  /\ handler' \in [Handlers -> HandlerState]
         /\ index' \in [Hexes -> SUBSET Sighting]
<1>1. handler[h] \in HandlerState /\ handler[h].todo \in SUBSET Departure
  BY DEF TypeOK, HandlerState
<1>2. CASE LoopOn(h, handler[h].todo, known)
  BY <1>1, <1>2, LoopTyped
<1>3. CASE /\ handler' = [handler EXCEPT ![h].stage = "flight",
                                         ![h].stored = FALSE]
           /\ UNCHANGED index
  BY <1>1, <1>3 DEF TypeOK, HandlerState
<1> QED
  BY <1>2, <1>3 DEF FlightOrOn

LEMMA FlightTyped ==
  ASSUME TypeOK, NEW h \in Handlers, NEW ac \in handler[h].now
  PROVE  /\ ac \in Departure
         /\ ac.transit.hex \in Hexes
         /\ FlightOf(h, ac) \in Flight
BY DEF TypeOK, HandlerState, Departure, Transit, FlightOf, Flight

\* The chunks of a window are sets of its reports.
LEMMA PlansTyped ==
  ASSUME NEW reports \in SUBSET Transit, NEW plan \in Plans(reports)
  PROVE  plan \in SUBSET SUBSET Transit
BY DEF Plans

LEMMA NextChunkTyped ==
  ASSUME TypeOK, NEW win \in 1 .. MaxWindows,
         NEW rest \in SUBSET SUBSET Transit, NEW next \in NextChunk(win, rest)
  PROVE  next \in JobState
<1>1. NoJob \in JobState
  BY BoundAssumption DEF NoJob, JobState
<1>2. ASSUME NEW chunk \in rest,
             next = [NoJob EXCEPT !.stage = "upload", !.win = win,
                                  !.rest = rest \ {chunk}, !.chunk = chunk]
      PROVE  next \in JobState
  BY <1>2 DEF NoJob, JobState
<1> QED
  BY <1>1, <1>2 DEF NextChunk

PdsTyped == pds \in [sightings : SUBSET Sighting, flights : SUBSET Flight,
                      identities : [Hexes -> Nat]]
TwiceTyped == twice \in [sightings : SUBSET Sighting, flights : SUBSET Flight]

LEMMA StoreTyped ==
  ASSUME TypeOK
  PROVE  /\ \A s \in Sighting : StoreSighting(s) => PdsTyped' /\ TwiceTyped'
         /\ \A f \in Flight : StoreFlight(f) => PdsTyped' /\ TwiceTyped'
<1>1. PdsTyped /\ TwiceTyped
  BY DEF TypeOK, PdsTyped, TwiceTyped
<1>2. ASSUME NEW s \in Sighting, StoreSighting(s) PROVE PdsTyped' /\ TwiceTyped'
  <2>1. /\ pds' = [pds EXCEPT !.sightings = pds.sightings \cup {s}]
        /\ twice' = [twice EXCEPT !.sightings =
                       twice.sightings \cup (pds.sightings \cap {s})]
    BY <1>2 DEF StoreSighting
  <2> QED
    BY <1>1, <2>1 DEF PdsTyped, TwiceTyped
<1>3. ASSUME NEW f \in Flight, StoreFlight(f) PROVE PdsTyped' /\ TwiceTyped'
  <2>1. /\ pds' = [pds EXCEPT !.flights = pds.flights \cup {f}]
        /\ twice' = [twice EXCEPT !.flights =
                       twice.flights \cup (pds.flights \cap {f})]
    BY <1>3 DEF StoreFlight
  <2> QED
    BY <1>1, <2>1 DEF PdsTyped, TwiceTyped
<1> QED
  BY <1>2, <1>3

LEMMA StoreSteps ==
  ASSUME TypeOK
  PROVE  /\ \A s : StoreSighting(s) =>
              /\ pds'.sightings = pds.sightings \cup {s}
              /\ pds'.flights = pds.flights
              /\ pds'.identities = pds.identities
              /\ twice'.sightings = twice.sightings \cup (pds.sightings \cap {s})
              /\ twice'.flights = twice.flights
         /\ \A f : StoreFlight(f) =>
              /\ pds'.flights = pds.flights \cup {f}
              /\ pds'.sightings = pds.sightings
              /\ pds'.identities = pds.identities
              /\ twice'.flights = twice.flights \cup (pds.flights \cap {f})
              /\ twice'.sightings = twice.sightings
BY DEF StoreSighting, StoreFlight, TypeOK

\* What one step of a drain does to the records of each kind.
DrainedTo(q, r, p, t, q2, r2, p2, t2) ==
  /\ q2 \subseteq q /\ q \subseteq q2 \cup r
  /\ r \subseteq r2 /\ r2 \subseteq r \cup q /\ r2 \subseteq r \cup p2
  /\ p \subseteq p2 /\ p2 \subseteq p \cup q
  /\ t2 \subseteq t \cup q

LEMMA DrainSteps ==
  ASSUME TypeOK, Drain
  PROVE  /\ DrainedTo(queued.sightings, sent.sightings, pds.sightings, twice.sightings,
                      queued'.sightings, sent'.sightings, pds'.sightings, twice'.sightings)
         /\ DrainedTo(queued.flights, sent.flights, pds.flights, twice.flights,
                      queued'.flights, sent'.flights, pds'.flights, twice'.flights)
         /\ pds'.identities = pds.identities
         /\ queued' \in [sightings : SUBSET Sighting, flights : SUBSET Flight]
         /\ sent' \in [sightings : SUBSET Sighting, flights : SUBSET Flight]
         /\ PdsTyped' /\ TwiceTyped'
<1>1. /\ queued \in [sightings : SUBSET Sighting, flights : SUBSET Flight]
      /\ sent \in [sightings : SUBSET Sighting, flights : SUBSET Flight]
      /\ PdsTyped /\ TwiceTyped
  BY DEF TypeOK, PdsTyped, TwiceTyped
<1>2. ASSUME NEW s \in queued.sightings, DeliverSighting(s), UNCHANGED queued
      PROVE  /\ sent' = [sent EXCEPT !.sightings = sent.sightings \cup {s}]
             /\ pds' = [pds EXCEPT !.sightings = pds.sightings \cup {s}]
             /\ twice' = [twice EXCEPT !.sightings =
                            twice.sightings \cup (pds.sightings \cap {s})]
             /\ queued' = queued
             /\ PdsTyped' /\ TwiceTyped'
  BY <1>1, <1>2, StoreTyped DEF DeliverSighting, StoreSighting
<1>3. ASSUME NEW f \in queued.flights, DeliverFlight(f), UNCHANGED queued
      PROVE  /\ sent' = [sent EXCEPT !.flights = sent.flights \cup {f}]
             /\ pds' = [pds EXCEPT !.flights = pds.flights \cup {f}]
             /\ twice' = [twice EXCEPT !.flights =
                            twice.flights \cup (pds.flights \cap {f})]
             /\ queued' = queued
             /\ PdsTyped' /\ TwiceTyped'
  BY <1>1, <1>3, StoreTyped DEF DeliverFlight, StoreFlight
<1>4. ASSUME NEW s \in queued.sightings \cap sent.sightings,
             queued' = [queued EXCEPT !.sightings = queued.sightings \ {s}],
             UNCHANGED <<sent, pds, twice>>
      PROVE  /\ queued' \in [sightings : SUBSET Sighting, flights : SUBSET Flight]
             /\ queued'.sightings = queued.sightings \ {s}
             /\ queued'.flights = queued.flights
             /\ UNCHANGED <<sent, pds, twice>>
             /\ PdsTyped' /\ TwiceTyped'
  BY <1>1, <1>4 DEF PdsTyped, TwiceTyped
<1>5. ASSUME NEW f \in queued.flights \cap sent.flights,
             queued' = [queued EXCEPT !.flights = queued.flights \ {f}],
             UNCHANGED <<sent, pds, twice>>
      PROVE  /\ queued' \in [sightings : SUBSET Sighting, flights : SUBSET Flight]
             /\ queued'.flights = queued.flights \ {f}
             /\ queued'.sightings = queued.sightings
             /\ UNCHANGED <<sent, pds, twice>>
             /\ PdsTyped' /\ TwiceTyped'
  BY <1>1, <1>5 DEF PdsTyped, TwiceTyped
<1>6. \/ \E s \in queued.sightings : DeliverSighting(s) /\ UNCHANGED queued
      \/ \E f \in queued.flights : DeliverFlight(f) /\ UNCHANGED queued
      \/ /\ \E s \in queued.sightings \cap sent.sightings :
              queued' = [queued EXCEPT !.sightings = queued.sightings \ {s}]
         /\ UNCHANGED <<sent, pds, twice>>
      \/ /\ \E f \in queued.flights \cap sent.flights :
              queued' = [queued EXCEPT !.flights = queued.flights \ {f}]
         /\ UNCHANGED <<sent, pds, twice>>
  BY DEF Drain, Release
<1>7. ASSUME NEW s \in queued.sightings, DeliverSighting(s), UNCHANGED queued
      PROVE  /\ sent' \in [sightings : SUBSET Sighting, flights : SUBSET Flight]
             /\ sent'.sightings = sent.sightings \cup {s}
             /\ sent'.flights = sent.flights
             /\ pds'.sightings = pds.sightings \cup {s}
             /\ pds'.flights = pds.flights
             /\ pds'.identities = pds.identities
             /\ twice'.sightings = twice.sightings \cup (pds.sightings \cap {s})
             /\ twice'.flights = twice.flights
  BY <1>1, <1>2, <1>7 DEF PdsTyped, TwiceTyped
<1>8. ASSUME NEW f \in queued.flights, DeliverFlight(f), UNCHANGED queued
      PROVE  /\ sent' \in [sightings : SUBSET Sighting, flights : SUBSET Flight]
             /\ sent'.flights = sent.flights \cup {f}
             /\ sent'.sightings = sent.sightings
             /\ pds'.flights = pds.flights \cup {f}
             /\ pds'.sightings = pds.sightings
             /\ pds'.identities = pds.identities
             /\ twice'.flights = twice.flights \cup (pds.flights \cap {f})
             /\ twice'.sightings = twice.sightings
  BY <1>1, <1>3, <1>8 DEF PdsTyped, TwiceTyped
<1> QED
  BY <1>1, <1>2, <1>3, <1>4, <1>5, <1>6, <1>7, <1>8 DEF DrainedTo

LEMMA TypeInit == Init => TypeOK
BY BoundAssumption DEF Init, TypeOK, Tracked, NotTracked, HandlerState, NoHandler,
   JobState, NoJob

LEMMA TypeMessage ==
  ASSUME TypeOK, Receive
  PROVE  TypeOK'
<1>1. PICK seen \in SUBSET Hexes :
        \E fixes \in SUBSET seen, departed \in SUBSET (Hexes \ seen) :
          Message(seen, fixes, departed)
  BY DEF Receive
<1>2. PICK fixes \in SUBSET seen, departed \in SUBSET (Hexes \ seen) :
        Message(seen, fixes, departed)
  BY <1>1
<1>3. /\ \A hex \in seen : tracked[hex].live \/ tracked[hex].n < MaxTransits
      /\ \A hex \in departed : tracked[hex].live
      /\ fixes # {} => window <= MaxWindows
      /\ tracked' = Sight(seen, fixes, departed)
      /\ telemetry' = telemetry \cup {TransitOf(tracked', hex) : hex \in fixes}
  BY <1>2 DEF Message
<1>4. \A hex \in Hexes :
        /\ tracked'[hex] \in Tracked
        /\ tracked'[hex].live => tracked'[hex].n > 0
        /\ hex \in seen => tracked'[hex].n > 0
  <2> TAKE hex \in Hexes
  <2>1. tracked[hex] \in Tracked /\ (tracked[hex].live => tracked[hex].n > 0)
    BY DEF TypeOK
  <2>2. CASE hex \in seen
    <3>1. tracked'[hex] = [n |-> IF tracked[hex].live THEN tracked[hex].n
                                 ELSE tracked[hex].n + 1,
                           live |-> TRUE,
                           fixed |-> tracked[hex].fixed \/ hex \in fixes,
                           flushes |-> 0]
      BY <1>3, <2>2 DEF Sight
    <3>2. (tracked[hex].fixed \/ hex \in fixes) \in BOOLEAN
      OBVIOUS
    <3> QED
      BY <1>3, <2>1, <2>2, <3>1, <3>2, BoundAssumption DEF Tracked
  <2>3. CASE hex \notin seen /\ hex \in departed
    <3>1. tracked'[hex] = NotTracked(tracked[hex].n)
      BY <1>3, <2>3 DEF Sight
    <3> QED
      BY <2>1, <2>3, <3>1, BoundAssumption DEF Tracked, NotTracked
  <2>4. CASE hex \notin seen /\ hex \notin departed
    BY <1>3, <2>1, <2>4 DEF Sight
  <2> QED
    BY <2>2, <2>3, <2>4
<1>5. tracked' \in [Hexes -> Tracked]
  <2>1. tracked' = [hex \in Hexes |-> tracked'[hex]]
    BY <1>3 DEF Sight
  <2> QED
    BY <1>4, <2>1
<1>6. telemetry' \subseteq Transit /\ (telemetry' # {} => window <= MaxWindows)
  <2>1. \A hex \in fixes : TransitOf(tracked', hex) \in Transit
    BY <1>4, BoundAssumption DEF Tracked, TransitOf, Transit
  <2> QED
    BY <1>3, <2>1 DEF TypeOK
<1>7. handler' \in [Handlers -> HandlerState]
  <2>1. CASE departed = {}
    BY <1>2, <2>1 DEF Message, TypeOK
  <2>2. CASE departed # {}
    <3> DEFINE left(category) ==
          {[transit |-> TransitOf(tracked, hex), fixed |-> tracked[hex].fixed,
            category |-> category[hex]] : hex \in departed}
    <3>1. PICK h \in Handlers, category \in [departed -> Category] :
            handler' = [handler EXCEPT ![h] =
              [NoHandler EXCEPT !.stage = "signing", !.todo = left(category)]]
      BY <1>2, <2>2 DEF Message
    <3>2. \A hex \in departed : /\ TransitOf(tracked, hex) \in Transit
                                /\ tracked[hex].fixed \in BOOLEAN
      BY <1>3, BoundAssumption DEF TypeOK, Tracked, TransitOf, Transit
    <3>3. left(category) \subseteq Departure
      BY <3>2 DEF Departure
    <3>4. [NoHandler EXCEPT !.stage = "signing", !.todo = left(category)]
            \in HandlerState
      BY <3>3 DEF NoHandler, HandlerState
    <3> QED
      BY <3>1, <3>4 DEF TypeOK
  <2> QED
    BY <2>1, <2>2
<1> QED
  BY <1>2, <1>4, <1>5, <1>6, <1>7 DEF Message, TypeOK

LEMMA TypeHandler ==
  ASSUME TypeOK, NEW h \in Handlers, HandlerStep(h) \/ HandlerFailure(h)
  PROVE  TypeOK'
<1> USE DEF memory, history
<1>1. handler[h] \in HandlerState /\ handler[h].todo \in SUBSET Departure
  BY DEF TypeOK, HandlerState
<1>2. CASE Signed(h) \/ FlightDone(h)
  <2>1. LoopOn(h, handler[h].todo, cache)
    BY <1>2 DEF Signed, FlightDone
  <2> QED
    BY <1>1, <1>2, <2>1, LoopTyped DEF Signed, FlightDone, TypeOK
<1>3. ASSUME NEW ac \in handler[h].now, Create(h, ac)
      PROVE  TypeOK'
  <2>1. handler' \in [Handlers -> HandlerState]
    BY <1>1, <1>3 DEF Create, TypeOK, HandlerState
  <2>2. PdsTyped' /\ TwiceTyped'
    <3>1. ac.transit.hex \in Hexes /\ FlightOf(h, ac) \in Flight
      BY FlightTyped
    <3>2. /\ pds \in [sightings : SUBSET Sighting, flights : SUBSET Flight,
                      identities : [Hexes -> Nat]]
          /\ pds.identities[ac.transit.hex] + 1 \in Nat
      BY <3>1 DEF TypeOK
    <3>3. CASE handler[h].stage = "identity"
      <4>1. /\ pds' = [pds EXCEPT !.identities =
                 [pds.identities EXCEPT ![ac.transit.hex] = @ + 1]]
            /\ twice' = twice
        BY <1>3, <3>3 DEF Create
      <4>2. pds' \in [sightings : SUBSET Sighting, flights : SUBSET Flight,
                      identities : [Hexes -> Nat]]
        BY <3>1, <3>2, <4>1
      <4> QED
        BY <4>1, <4>2 DEF PdsTyped, TwiceTyped, TypeOK
    <3>4. CASE handler[h].stage # "identity"
      <4>1. StoreFlight(FlightOf(h, ac))
        BY <1>3, <3>4 DEF Create
      <4> QED
        BY <3>1, <4>1, StoreTyped
    <3> QED
      BY <3>3, <3>4
  <2> QED
    BY <1>3, <2>1, <2>2 DEF Create, TypeOK, PdsTyped, TwiceTyped
<1>4. ASSUME NEW ac \in handler[h].now, IdentityDone(h, ac)
      PROVE  TypeOK'
  <2>1. cache' \in [Hexes -> Category \cup {"unknown"}]
    BY <1>4, FlightTyped DEF IdentityDone, TypeOK, Departure
  <2>2. FlightOrOn(h, ac, cache')
    BY <1>4 DEF IdentityDone
  <2>3. /\ handler' \in [Handlers -> HandlerState]
        /\ index' \in [Hexes -> SUBSET Sighting]
    BY <2>2, FlightOrOnTyped
  <2> QED
    BY <1>4, <2>1, <2>3 DEF IdentityDone, TypeOK
<1>5. CASE IdentityFailed(h)
  <2>1. LoopOn(h, handler[h].todo, cache)
    BY <1>5 DEF IdentityFailed
  <2> QED
    BY <1>1, <1>5, <2>1, LoopTyped DEF IdentityFailed, TypeOK
<1>6. ASSUME NEW ac \in handler[h].now, CategoryFailed(h, ac)
      PROVE  TypeOK'
  <2>1. FlightOrOn(h, ac, cache)
    BY <1>6 DEF CategoryFailed
  <2> QED
    BY <1>6, <2>1, FlightOrOnTyped DEF CategoryFailed, TypeOK
<1>7. ASSUME NEW ac \in handler[h].now, FlightFailed(h, ac)
      PROVE  TypeOK'
  <2>1. LoopOn(h, handler[h].todo, cache)
    BY <1>7 DEF FlightFailed
  <2>2. queued' \in [sightings : SUBSET Sighting, flights : SUBSET Flight]
    BY <1>7, FlightTyped DEF FlightFailed, QueueFlight, TypeOK
  <2> QED
    BY <1>1, <1>7, <2>1, <2>2, LoopTyped DEF FlightFailed, TypeOK
<1>8. CASE SigningFailed(h)
  <2>1. NoHandler \in HandlerState
    BY DEF NoHandler, HandlerState
  <2>2. failures' \in Nat
    BY <1>8 DEF SigningFailed, TypeOK
  <2> QED
    BY <1>8, <2>1, <2>2 DEF SigningFailed, TypeOK
<1> QED
  BY <1>2, <1>3, <1>4, <1>5, <1>6, <1>7, <1>8 DEF HandlerStep, HandlerFailure

LEMMA SightingTyped ==
  ASSUME TypeOK, NEW j \in Jobs
  PROVE  /\ job[j] \in JobState
         /\ SightingOf(j) \in Sighting
         /\ job[j].win \in 1 .. MaxWindows
         /\ job[j].rest \in SUBSET SUBSET Transit
BY DEF TypeOK, JobState, SightingOf, Sighting

LEMMA TypeFlush ==
  ASSUME TypeOK, NEW j \in Flushers, Flush(j)
  PROVE  TypeOK'
<1> USE DEF history
<1>0. StartJob(j)
  BY DEF Flush
<1>1. \A hex \in Hexes : /\ tracked'[hex] \in Tracked
                         /\ tracked'[hex].live => tracked'[hex].n > 0
  <2> TAKE hex \in Hexes
  <2> DEFINE entry == tracked[hex]
             flushes == IF entry.live /\ entry.flushes < MinFlushes
                        THEN entry.flushes + 1 ELSE entry.flushes
  <2>1. entry \in Tracked /\ (entry.live => entry.n > 0)
    BY DEF TypeOK
  <2>2. flushes \in 0 .. MinFlushes
    BY <2>1, BoundAssumption DEF Tracked
  <2>3. tracked'[hex] = [entry EXCEPT !.flushes = flushes]
    BY DEF Flush
  <2> HIDE DEF flushes
  <2> QED
    BY <2>1, <2>2, <2>3 DEF Tracked
<1>2. tracked' \in [Hexes -> Tracked]
  BY <1>1 DEF Flush
<1>3. window' \in 1 .. MaxWindows + 1 /\ job' \in [Jobs -> JobState]
  <2>1. CASE telemetry = {}
    <3>1. UNCHANGED <<window, job>>
      BY <1>0, <2>1 DEF StartJob
    <3> QED
      BY <3>1 DEF TypeOK
  <2>2. CASE telemetry # {}
    <3>1. window \in 1 .. MaxWindows /\ window' = window + 1
      <4>1. window \in 1 .. MaxWindows + 1 /\ window <= MaxWindows
        BY <2>2 DEF TypeOK
      <4>2. window' = window + 1
        BY <1>0, <2>2, Zenon DEF StartJob
      <4> QED
        BY <4>1, <4>2, BoundAssumption
    <3>2. PICK plan \in Plans(telemetry) :
            IF RawCaptureEnabled /\ rawPaths # {}
            THEN job' = [job EXCEPT ![j] =
                   [NoJob EXCEPT !.stage = "raw", !.win = window,
                                 !.raw = rawPaths, !.rest = plan]]
            ELSE \E next \in NextChunk(window, plan) :
                   job' = [job EXCEPT ![j] = next]
      BY <1>0, <2>2 DEF StartJob
    <3>3. plan \in SUBSET SUBSET Transit
      BY PlansTyped DEF TypeOK
    <3>4. [NoJob EXCEPT !.stage = "raw", !.win = window, !.raw = rawPaths,
                        !.rest = plan] \in JobState
      BY <3>1, <3>3 DEF NoJob, JobState, TypeOK
    <3>5. \A next \in NextChunk(window, plan) : next \in JobState
      BY <3>1, <3>3, NextChunkTyped
    <3>6. job' \in [Jobs -> JobState]
      BY <3>2, <3>4, <3>5 DEF TypeOK
    <3> QED
      BY <3>1, <3>6, BoundAssumption
  <2> QED
    BY <2>1, <2>2
<1> QED
  BY <1>1, <1>2, <1>3 DEF Flush, TypeOK

LEMMA TypeJob ==
  ASSUME TypeOK, NEW j \in Jobs, JobStep(j) \/ JobFailure(j)
  PROVE  TypeOK'
<1> USE DEF memory, history
<1>1. \A next \in NextChunk(job[j].win, job[j].rest) : next \in JobState
  BY SightingTyped, NextChunkTyped
<1>2. NoJob \in JobState
  BY BoundAssumption DEF NoJob, JobState
<1>3. CASE RawDone(j)
  <2>1. files' \in [Captures -> {"unused", "disk", "deleted"}]
    BY <1>3 DEF RawDone, TypeOK
  <2>2. job' \in [Jobs -> JobState]
    BY <1>1, <1>3 DEF RawDone, TypeOK
  <2> QED
    BY <1>3, <2>1, <2>2 DEF RawDone, TypeOK
<1>4. CASE Uploaded(j)
  <2>1. job' \in [Jobs -> JobState]
    BY <1>4 DEF Uploaded, TypeOK, JobState
  <2> QED
    BY <1>4, <2>1 DEF Uploaded, TypeOK
<1>5. CASE UploadFailed(j)
  BY <1>2, <1>5 DEF UploadFailed, GiveUp, TypeOK
<1>6. CASE CreateSighting(j)
  <2>1. job' \in [Jobs -> JobState]
    <3>1. job' = [job EXCEPT ![j] = [job[j] EXCEPT !.stored = TRUE]]
      BY <1>6 DEF CreateSighting
    <3>2. [job[j] EXCEPT !.stored = TRUE] \in JobState
      BY SightingTyped DEF JobState
    <3> QED
      BY <3>1, <3>2 DEF TypeOK
  <2>2. PdsTyped' /\ TwiceTyped'
    BY <1>6, SightingTyped, StoreTyped DEF CreateSighting
  <2> QED
    BY <1>6, <2>1, <2>2 DEF CreateSighting, TypeOK, PdsTyped, TwiceTyped
<1>7. CASE SightingDone(j)
  <2>1. index' \in [Hexes -> SUBSET Sighting]
    BY <1>7, SightingTyped DEF SightingDone, TypeOK
  <2>2. job' \in [Jobs -> JobState]
    BY <1>1, <1>7 DEF SightingDone, TypeOK
  <2> QED
    BY <1>7, <2>1, <2>2 DEF SightingDone, TypeOK
<1>8. CASE SightingFailed(j)
  <2>1. job' \in [Jobs -> JobState]
    BY <1>1, <1>2, <1>8 DEF SightingFailed, GiveUp, TypeOK
  <2>2. queued' \in [sightings : SUBSET Sighting, flights : SUBSET Flight]
    BY <1>8, SightingTyped DEF SightingFailed, QueueSighting, TypeOK
  <2> QED
    BY <1>8, <2>1, <2>2 DEF SightingFailed, TypeOK
<1> QED
  BY <1>3, <1>4, <1>5, <1>6, <1>7, <1>8 DEF JobStep, JobFailure

LEMMA TypeRestart ==
  ASSUME TypeOK, Restart
  PROVE  TypeOK'
<1>1. tracked' \in [Hexes -> Tracked] /\ \A hex \in Hexes : ~tracked'[hex].live
  BY BoundAssumption DEF Restart, TypeOK, Tracked, NotTracked
<1>2. NoHandler \in HandlerState /\ NoJob \in JobState
  BY BoundAssumption DEF NoHandler, HandlerState, NoJob, JobState
<1>3. window' \in 1 .. MaxWindows + 1
  BY BoundAssumption DEF Restart, TypeOK
<1>4. sent' \in [sightings : SUBSET Sighting, flights : SUBSET Flight]
  BY DEF Restart, TypeOK
<1> QED
  BY <1>1, <1>2, <1>3, <1>4 DEF Restart, TypeOK

LEMMA TypeNext == TypeOK /\ [Next]_vars => TypeOK'
<1> SUFFICES ASSUME TypeOK, [Next]_vars PROVE TypeOK'
  OBVIOUS
<1> USE DEF memory, history
<1>1. ASSUME NEW file \in Captures, RawCapture(file) PROVE TypeOK'
  BY <1>1 DEF RawCapture, TypeOK
<1>2. CASE Drain
  BY <1>2, DrainSteps DEF Drain, TypeOK, PdsTyped, TwiceTyped
<1>3. CASE Shutdown
  BY <1>3 DEF Shutdown, TypeOK
<1>4. CASE FinalFlush
  <2>1. CASE telemetry = {}
    BY <1>4, <2>1 DEF FinalFlush, TypeOK
  <2>2. CASE telemetry # {}
    <3>1. window \in 1 .. MaxWindows
      BY <2>2, BoundAssumption DEF TypeOK
    <3>2. \A plan \in Plans(telemetry) : \A next \in NextChunk(window, plan) :
            next \in JobState
      BY <3>1, PlansTyped, NextChunkTyped DEF TypeOK
    <3> QED
      BY <1>4, <2>2, <3>2 DEF FinalFlush, TypeOK
  <2> QED
    BY <2>1, <2>2
<1>5. CASE UNCHANGED vars
  BY <1>5 DEF vars, TypeOK
<1> QED
  BY <1>1, <1>2, <1>3, <1>4, <1>5, TypeMessage, TypeHandler, TypeFlush, TypeJob,
     TypeRestart DEF Next, Exit, Crash

\* Every variable keeps its type: callbacks that interleave never mix up slots,
\* windows or transits.
THEOREM TypeCorrect == Spec => []TypeOK
BY TypeInit, TypeNext, PTL DEF Spec

-----------------------------------------------------------------------------
(* The provenance chain.                                                   *)

GoodRef(hex, s) == s \in pds.sightings /\ hex \in Manifest(s.reports)
HasIdentity(hex) == pds.identities[hex] > 0

IndexChained == \A hex \in Hexes : \A s \in index[hex] : GoodRef(hex, s)

HandsChained ==
  \A h \in Handlers : \A ac \in handler[h].now : \A s \in handler[h].refs :
    GoodRef(ac.transit.hex, s)

RecordsChained ==
  \A f \in Records :
    /\ HasIdentity(f.transit.hex)
    /\ \A s \in f.refs : GoodRef(f.transit.hex, s)

CacheBacked == \A hex \in Hexes : cache[hex] # "unknown" => HasIdentity(hex)

HandlersBacked ==
  \A h \in Handlers : \A ac \in handler[h].now :
    (handler[h].stage # "identity" \/ handler[h].stored)
      => HasIdentity(ac.transit.hex)

JobsBacked ==
  \A j \in Jobs : job[j].stored =>
    job[j].stage = "create" /\ SightingOf(j) \in pds.sightings

OneInHand == \A h \in Handlers : \A a, b \in handler[h].now : a = b

ChainInv ==
  /\ OneInHand
  /\ IndexChained /\ HandsChained /\ RecordsChained
  /\ CacheBacked /\ HandlersBacked /\ JobsBacked

\* The loop over the departures hands references on and starts a flight only
\* under a known identity.
LEMMA LoopChain ==
  ASSUME TypeOK, ChainInv, NEW h \in Handlers, NEW known,
         NEW todo \in SUBSET Departure, LoopOn(h, todo, known),
         \A hex \in Hexes : known[hex] # "unknown" => HasIdentity(hex),
         UNCHANGED pds
  PROVE  OneInHand' /\ IndexChained' /\ HandsChained' /\ HandlersBacked'
<1>1. PICK outcome \in Outcomes(todo, known) :
        /\ handler' = [handler EXCEPT ![h] = outcome.state]
        /\ index' = [hex \in Hexes |->
             IF \E ac \in outcome.done : ac.transit.hex = hex
             THEN {} ELSE index[hex]]
  BY DEF LoopOn
<1>2. IndexChained'
  BY <1>1 DEF ChainInv, IndexChained, GoodRef
<1>3. \A ac \in outcome.state.now :
        /\ \A s \in outcome.state.refs : GoodRef(ac.transit.hex, s)
        /\ outcome.state.stage # "identity" => HasIdentity(ac.transit.hex)
        /\ ~outcome.state.stored
  <2> DEFINE silent == {ac \in todo : Silent(ac, known)}
  <2>1. CASE outcome = [state |-> NoHandler, done |-> todo]
    BY <2>1 DEF NoHandler
  <2>2. ASSUME NEW p \in (todo \ silent) \X SUBSET silent,
               outcome = [state |-> [stage |-> FirstCall(p[1], known),
                                     stored |-> FALSE,
                                     todo |-> (todo \ p[2]) \ {p[1]},
                                     now |-> {p[1]},
                                     refs |-> index[p[1].transit.hex]],
                          done |-> p[2] \cup {p[1]}]
        PROVE  \A ac \in outcome.state.now :
                 /\ \A s \in outcome.state.refs : GoodRef(ac.transit.hex, s)
                 /\ outcome.state.stage # "identity" => HasIdentity(ac.transit.hex)
                 /\ ~outcome.state.stored
    <3>1. p[1] \in todo /\ p[1].transit.hex \in Hexes
      BY DEF Departure, Transit
    <3>2. FirstCall(p[1], known) # "identity" => HasIdentity(p[1].transit.hex)
      BY <3>1 DEF FirstCall
    <3>3. \A s \in index[p[1].transit.hex] : GoodRef(p[1].transit.hex, s)
      BY <3>1 DEF ChainInv, IndexChained
    <3> QED
      BY <2>2, <3>2, <3>3
  <2> QED
    BY <2>1, <2>2 DEF Outcomes
<1>4. handler'[h] = outcome.state /\ \A g \in Handlers \ {h} : handler'[g] = handler[g]
  BY <1>1 DEF TypeOK
<1>5. OneInHand'
  <2>1. \A a, b \in outcome.state.now : a = b
    BY DEF Outcomes, NoHandler
  <2> QED
    BY <1>4, <2>1 DEF ChainInv, OneInHand
<1>6. HandsChained' /\ HandlersBacked'
  <2>1. ASSUME NEW g \in Handlers, NEW ac \in handler'[g].now
        PROVE  /\ \A s \in handler'[g].refs : GoodRef(ac.transit.hex, s)
               /\ (handler'[g].stage # "identity" \/ handler'[g].stored)
                    => HasIdentity(ac.transit.hex)
    BY <1>3, <1>4 DEF ChainInv, HandsChained, HandlersBacked
  <2> QED
    BY <2>1 DEF HandsChained, HandlersBacked, GoodRef, HasIdentity
<1> QED
  BY <1>2, <1>5, <1>6

LEMMA FlightOrOnChain ==
  ASSUME TypeOK, ChainInv, NEW h \in Handlers, NEW ac \in handler[h].now,
         NEW known, FlightOrOn(h, ac, known),
         \A hex \in Hexes : known[hex] # "unknown" => HasIdentity(hex),
         HasIdentity(ac.transit.hex),
         UNCHANGED pds
  PROVE  OneInHand' /\ IndexChained' /\ HandsChained' /\ HandlersBacked'
<1>1. handler[h].todo \in SUBSET Departure
  BY DEF TypeOK, HandlerState
<1>2. CASE LoopOn(h, handler[h].todo, known)
  BY <1>1, <1>2, LoopChain
<1>3. CASE /\ handler' = [handler EXCEPT ![h].stage = "flight",
                                         ![h].stored = FALSE]
           /\ UNCHANGED index
  <2>1. /\ handler'[h].now = handler[h].now
        /\ handler'[h].refs = handler[h].refs
        /\ \A g \in Handlers \ {h} : handler'[g] = handler[g]
    BY <1>3 DEF TypeOK, HandlerState
  <2>2. \A a \in handler[h].now : a = ac
    BY DEF ChainInv, OneInHand
  <2>3. OneInHand'
    BY <2>1 DEF ChainInv, OneInHand
  <2>4. HandsChained'
    BY <2>1 DEF ChainInv, HandsChained, GoodRef
  <2>5. HandlersBacked'
    BY <2>1, <2>2 DEF ChainInv, HandlersBacked, HasIdentity
  <2> QED
    BY <1>3, <2>3, <2>4, <2>5 DEF ChainInv, IndexChained, GoodRef
<1> QED
  BY <1>2, <1>3 DEF FlightOrOn

LEMMA ChainInit == Init => ChainInv
BY DEF Init, ChainInv, OneInHand, IndexChained, HandsChained, RecordsChained,
   Records, CacheBacked, HandlersBacked, JobsBacked, NoHandler, NoJob

\* What the PDS has it keeps.
PdsGrows ==
  /\ pds.sightings \subseteq pds'.sightings
  /\ \A hex \in Hexes : HasIdentity(hex) => HasIdentity(hex)'

\* A step that touches only the PDS, and the bookkeeping around it, keeps
\* every part that speaks of the PDS and of nothing the step changes.
LEMMA GrowthKeeps ==
  ASSUME TypeOK, ChainInv, PdsGrows
  PROVE  /\ UNCHANGED index => IndexChained'
         /\ UNCHANGED handler => OneInHand' /\ HandsChained' /\ HandlersBacked'
         /\ UNCHANGED cache => CacheBacked'
         /\ UNCHANGED job => JobsBacked'
         /\ \A f \in Records :
              /\ HasIdentity(f.transit.hex)'
              /\ \A s \in f.refs : GoodRef(f.transit.hex, s)'
<1> USE DEF PdsGrows, GoodRef
<1>1. UNCHANGED index => IndexChained'
  BY DEF ChainInv, IndexChained
<1>2. UNCHANGED handler => OneInHand' /\ HandsChained' /\ HandlersBacked'
  <2>1. \A h \in Handlers : \A ac \in handler[h].now : ac.transit.hex \in Hexes
    BY FlightTyped
  <2> QED
    BY <2>1 DEF ChainInv, OneInHand, HandsChained, HandlersBacked
<1>3. UNCHANGED cache => CacheBacked'
  BY DEF ChainInv, CacheBacked
<1>4. UNCHANGED job => JobsBacked'
  BY DEF ChainInv, JobsBacked, SightingOf
<1>5. \A f \in Records : f.transit.hex \in Hexes
  BY DEF TypeOK, Records, Flight, Transit
<1>6. \A f \in Records : /\ HasIdentity(f.transit.hex)'
                         /\ \A s \in f.refs : GoodRef(f.transit.hex, s)'
  BY <1>5 DEF ChainInv, RecordsChained
<1> QED
  BY <1>1, <1>2, <1>3, <1>4, <1>6

LEMMA ChainHandler ==
  ASSUME TypeOK, ChainInv, NEW h \in Handlers, HandlerStep(h) \/ HandlerFailure(h)
  PROVE  ChainInv'
<1>1. handler[h].todo \in SUBSET Departure
  BY DEF TypeOK, HandlerState
<1>2. \A hex \in Hexes : cache[hex] # "unknown" => HasIdentity(hex)
  BY DEF ChainInv, CacheBacked
<1>3. CASE Signed(h) \/ FlightDone(h) \/ IdentityFailed(h)
  <2>1. /\ LoopOn(h, handler[h].todo, cache)
        /\ UNCHANGED <<cache, job, queued, pds>>
    BY <1>3 DEF Signed, FlightDone, IdentityFailed
  <2>2. OneInHand' /\ IndexChained' /\ HandsChained' /\ HandlersBacked'
    BY <1>1, <1>2, <2>1, LoopChain
  <2>3. PdsGrows
    BY <2>1 DEF PdsGrows, HasIdentity
  <2>4. RecordsChained' /\ CacheBacked' /\ JobsBacked'
    BY <2>1, <2>3, GrowthKeeps DEF RecordsChained, Records
  <2> QED
    BY <2>2, <2>4 DEF ChainInv
<1>4. ASSUME NEW ac \in handler[h].now, Create(h, ac)
      PROVE  ChainInv'
  <2>1. ac.transit.hex \in Hexes
    BY FlightTyped
  <2>2. handler' = [handler EXCEPT ![h].stored = TRUE]
        /\ UNCHANGED <<index, cache, job, queued>>
    BY <1>4 DEF Create
  <2>3. /\ \A g \in Handlers : /\ handler'[g].now = handler[g].now
                               /\ handler'[g].refs = handler[g].refs
                               /\ handler'[g].stage = handler[g].stage
        /\ \A g \in Handlers \ {h} : handler'[g] = handler[g]
    BY <2>2 DEF TypeOK, HandlerState
  <2>4. \A a \in handler[h].now : a = ac
    BY DEF ChainInv, OneInHand
  <2>5. CASE handler[h].stage = "identity"
    <3>1. pds' = [pds EXCEPT !.identities =
            [pds.identities EXCEPT ![ac.transit.hex] = @ + 1]]
      BY <1>4, <2>5 DEF Create
    <3>2. /\ pds'.sightings = pds.sightings
          /\ pds'.flights = pds.flights
          /\ pds'.identities[ac.transit.hex] = pds.identities[ac.transit.hex] + 1
          /\ \A hex \in Hexes : /\ pds.identities[hex] \in Nat
                                /\ pds'.identities[hex] \in Nat
                                /\ pds'.identities[hex] >= pds.identities[hex]
      BY <2>1, <3>1 DEF TypeOK
    <3>3. PdsGrows /\ HasIdentity(ac.transit.hex)'
      BY <2>1, <3>2 DEF PdsGrows, HasIdentity
    <3>4. OneInHand' /\ HandsChained'
      BY <2>3, <3>2 DEF ChainInv, OneInHand, HandsChained, GoodRef
    <3>5. HandlersBacked'
      <4> SUFFICES ASSUME NEW g \in Handlers, NEW a \in handler[g].now,
                          handler'[g].stage # "identity" \/ handler'[g].stored
                   PROVE  HasIdentity(a.transit.hex)'
        BY <2>3 DEF HandlersBacked
      <4>1. a.transit.hex \in Hexes
        BY FlightTyped
      <4>2. CASE g = h
        BY <2>4, <3>3, <4>2
      <4>3. CASE g # h
        BY <2>3, <3>3, <4>1, <4>3 DEF ChainInv, HandlersBacked, PdsGrows
      <4> QED
        BY <4>2, <4>3
    <3>6. RecordsChained'
      BY <2>2, <3>2, <3>3, GrowthKeeps DEF RecordsChained, Records
    <3> QED
      BY <2>2, <3>3, <3>4, <3>5, <3>6, GrowthKeeps DEF ChainInv
  <2>6. CASE handler[h].stage # "identity"
    <3>1. StoreFlight(FlightOf(h, ac))
      BY <1>4, <2>6 DEF Create
    <3>2. /\ pds'.sightings = pds.sightings
          /\ pds'.flights = pds.flights \cup {FlightOf(h, ac)}
          /\ pds'.identities = pds.identities
      BY <3>1, StoreSteps
    <3>3. PdsGrows
      BY <3>2 DEF PdsGrows, HasIdentity
    <3>4. OneInHand' /\ HandsChained'
      BY <2>3, <3>2 DEF ChainInv, OneInHand, HandsChained, GoodRef
    <3>5. HandlersBacked'
      BY <2>3, <2>6, <3>2 DEF ChainInv, HandlersBacked, HasIdentity
    <3>6. /\ HasIdentity(ac.transit.hex)
          /\ \A s \in handler[h].refs : GoodRef(ac.transit.hex, s)
      BY <2>6 DEF ChainInv, HandlersBacked, HandsChained
    <3>7. RecordsChained'
      BY <2>2, <3>2, <3>3, <3>6, GrowthKeeps
         DEF RecordsChained, Records, FlightOf, GoodRef, HasIdentity
    <3> QED
      BY <2>2, <3>3, <3>4, <3>5, <3>7, GrowthKeeps DEF ChainInv
  <2> QED
    BY <2>5, <2>6
<1>5. ASSUME NEW ac \in handler[h].now, IdentityDone(h, ac)
      PROVE  ChainInv'
  <2>1. /\ cache' = [cache EXCEPT ![ac.transit.hex] = ac.category]
        /\ FlightOrOn(h, ac, cache')
        /\ UNCHANGED <<job, queued, pds>>
    BY <1>5 DEF IdentityDone
  <2>2. HasIdentity(ac.transit.hex)
    BY <1>5 DEF IdentityDone, ChainInv, HandlersBacked
  <2>3. \A hex \in Hexes : cache'[hex] # "unknown" => HasIdentity(hex)
    BY <1>2, <2>1, <2>2 DEF TypeOK
  <2>4. OneInHand' /\ IndexChained' /\ HandsChained' /\ HandlersBacked'
    BY <2>1, <2>2, <2>3, FlightOrOnChain
  <2>5. PdsGrows
    BY <2>1 DEF PdsGrows, HasIdentity
  <2>6. RecordsChained' /\ JobsBacked' /\ CacheBacked'
    BY <2>1, <2>3, <2>5, GrowthKeeps
       DEF RecordsChained, Records, CacheBacked, HasIdentity
  <2> QED
    BY <2>4, <2>6 DEF ChainInv
<1>6. ASSUME NEW ac \in handler[h].now, CategoryFailed(h, ac)
      PROVE  ChainInv'
  <2>1. FlightOrOn(h, ac, cache) /\ UNCHANGED <<cache, job, queued, pds>>
    BY <1>6 DEF CategoryFailed
  <2>2. HasIdentity(ac.transit.hex)
    BY <1>6 DEF CategoryFailed, ChainInv, HandlersBacked
  <2>3. OneInHand' /\ IndexChained' /\ HandsChained' /\ HandlersBacked'
    BY <1>2, <2>1, <2>2, FlightOrOnChain
  <2>4. PdsGrows
    BY <2>1 DEF PdsGrows, HasIdentity
  <2> QED
    BY <2>1, <2>3, <2>4, GrowthKeeps DEF ChainInv, RecordsChained, Records
<1>7. ASSUME NEW ac \in handler[h].now, FlightFailed(h, ac)
      PROVE  ChainInv'
  <2>1. /\ LoopOn(h, handler[h].todo, cache)
        /\ queued' = [queued EXCEPT !.flights = @ \cup {FlightOf(h, ac)}]
        /\ UNCHANGED <<cache, job, pds>>
    BY <1>7 DEF FlightFailed, QueueFlight
  <2>2. OneInHand' /\ IndexChained' /\ HandsChained' /\ HandlersBacked'
    BY <1>1, <1>2, <2>1, LoopChain
  <2>3. PdsGrows
    BY <2>1 DEF PdsGrows, HasIdentity
  <2>4. /\ HasIdentity(ac.transit.hex)
        /\ \A s \in handler[h].refs : GoodRef(ac.transit.hex, s)
    BY <1>7 DEF FlightFailed, ChainInv, HandlersBacked, HandsChained
  <2>5. Records' = Records \cup {FlightOf(h, ac)}
    BY <2>1 DEF Records, TypeOK
  <2>6. RecordsChained'
    BY <2>1, <2>3, <2>4, <2>5, GrowthKeeps
       DEF RecordsChained, FlightOf, GoodRef, HasIdentity
  <2> QED
    BY <2>1, <2>2, <2>3, <2>6, GrowthKeeps DEF ChainInv
<1>8. CASE SigningFailed(h)
  <2>1. /\ handler' = [handler EXCEPT ![h] = NoHandler]
        /\ UNCHANGED <<index, cache, job, queued, pds>>
    BY <1>8 DEF SigningFailed
  <2>2. \A g \in Handlers : handler'[g] = IF g = h THEN NoHandler ELSE handler[g]
    BY <2>1 DEF TypeOK
  <2>3. NoHandler.now = {}
    BY DEF NoHandler
  <2>4. PdsGrows
    BY <2>1 DEF PdsGrows, HasIdentity
  <2>5. OneInHand' /\ HandsChained' /\ HandlersBacked'
    BY <2>1, <2>2, <2>3 DEF ChainInv, OneInHand, HandsChained, HandlersBacked,
       GoodRef, HasIdentity
  <2> QED
    BY <2>1, <2>4, <2>5, GrowthKeeps DEF ChainInv, RecordsChained, Records
<1> QED
  BY <1>3, <1>4, <1>5, <1>6, <1>7, <1>8 DEF HandlerStep, HandlerFailure

\* A chunk that is taken up next is not at the PDS yet.
LEMMA NextChunkFresh ==
  ASSUME NEW win, NEW rest, NEW next \in NextChunk(win, rest)
  PROVE  ~next.stored
<1>1. ASSUME NEW chunk,
             next = [NoJob EXCEPT !.stage = "upload", !.win = win,
                                  !.rest = rest \ {chunk}, !.chunk = chunk]
      PROVE  ~next.stored
  BY <1>1 DEF NoJob
<1>2. ~NoJob.stored
  BY DEF NoJob
<1> QED
  BY <1>1, <1>2 DEF NextChunk

LEMMA ChainJob ==
  ASSUME TypeOK, ChainInv, NEW j \in Jobs, JobStep(j) \/ JobFailure(j)
  PROVE  ChainInv'
<1>1. \A next \in NextChunk(job[j].win, job[j].rest) : ~next.stored
  BY NextChunkFresh
<1>2. CASE CreateSighting(j)
  <2>1. /\ job' = [job EXCEPT ![j].stored = TRUE]
        /\ StoreSighting(SightingOf(j))
        /\ UNCHANGED <<index, cache, handler, queued>>
    BY <1>2 DEF CreateSighting
  <2>2. /\ pds'.sightings = pds.sightings \cup {SightingOf(j)}
        /\ pds'.flights = pds.flights
        /\ pds'.identities = pds.identities
    BY <2>1, StoreSteps
  <2>3. PdsGrows
    BY <2>2 DEF PdsGrows, HasIdentity
  <2>4. \A i \in Jobs : /\ job'[i].win = job[i].win
                        /\ job'[i].chunk = job[i].chunk
                        /\ i # j => job'[i] = job[i]
    BY <2>1 DEF TypeOK, JobState
  <2>5. JobsBacked'
    <3>1. job'[j].stage = "create"
      BY <1>2, <2>1 DEF CreateSighting, TypeOK, JobState
    <3> QED
      BY <2>2, <2>4, <3>1 DEF ChainInv, JobsBacked, SightingOf
  <2>6. RecordsChained'
    BY <2>1, <2>2, <2>3, GrowthKeeps DEF RecordsChained, Records
  <2> QED
    BY <2>1, <2>3, <2>5, <2>6, GrowthKeeps DEF ChainInv
<1>3. CASE SightingDone(j)
  <2>1. /\ SightingOf(j) \in pds.sightings
        /\ UNCHANGED <<cache, handler, queued, pds>>
    BY <1>3 DEF SightingDone, ChainInv, JobsBacked
  <2>2. PdsGrows
    BY <2>1 DEF PdsGrows, HasIdentity
  <2>3. IndexChained'
    <3>1. \A hex \in Hexes : \A s \in index'[hex] :
            s \in index[hex] \/ (s = SightingOf(j) /\ hex \in Manifest(job[j].chunk))
      BY <1>3 DEF SightingDone
    <3>2. SightingOf(j).reports = job[j].chunk
      BY DEF SightingOf
    <3> QED
      BY <2>1, <3>1, <3>2 DEF ChainInv, IndexChained, GoodRef
  <2>4. JobsBacked'
    BY <1>1, <1>3, <2>1 DEF SightingDone, ChainInv, JobsBacked, SightingOf, TypeOK
  <2>5. RecordsChained'
    BY <2>1, <2>2, GrowthKeeps DEF RecordsChained, Records
  <2> QED
    BY <2>1, <2>2, <2>3, <2>4, <2>5, GrowthKeeps DEF ChainInv
<1>4. CASE RawDone(j) \/ Uploaded(j) \/ JobFailure(j)
  <2>1. /\ UNCHANGED <<index, cache, handler, pds>>
        /\ queued'.flights = queued.flights
    BY <1>4 DEF RawDone, Uploaded, JobFailure, UploadFailed, SightingFailed,
       QueueSighting, TypeOK
  <2>2. PdsGrows
    BY <2>1 DEF PdsGrows, HasIdentity
  <2>3. \A i \in Jobs \ {j} : job'[i] = job[i]
    BY <1>4 DEF RawDone, Uploaded, JobFailure, UploadFailed, SightingFailed,
       GiveUp, TypeOK
  <2>4. ~job'[j].stored
    <3>1. CASE RawDone(j) \/ UploadFailed(j) \/ SightingFailed(j)
      <4>1. PICK next \in NextChunk(job[j].win, job[j].rest) \cup {NoJob} :
              job' = [job EXCEPT ![j] = next]
        BY <3>1, Zenon DEF RawDone, UploadFailed, SightingFailed, GiveUp
      <4>2. ~next.stored
        BY <1>1 DEF NoJob
      <4> QED
        BY <4>1, <4>2 DEF TypeOK
    <3>2. CASE Uploaded(j)
      <4>1. ~job[j].stored
        BY <3>2 DEF ChainInv, JobsBacked, Uploaded
      <4> QED
        BY <3>2, <4>1 DEF Uploaded, TypeOK, JobState
    <3> QED
      BY <1>4, <3>1, <3>2 DEF JobFailure
  <2>5. JobsBacked'
    BY <2>1, <2>3, <2>4 DEF ChainInv, JobsBacked, SightingOf
  <2>6. RecordsChained'
    BY <2>1, <2>2, GrowthKeeps DEF RecordsChained, Records
  <2> QED
    BY <2>1, <2>2, <2>5, <2>6, GrowthKeeps DEF ChainInv
<1> QED
  BY <1>2, <1>3, <1>4 DEF JobStep

LEMMA ChainNext == TypeOK /\ ChainInv /\ [Next]_vars => ChainInv'
<1> SUFFICES ASSUME TypeOK, ChainInv, [Next]_vars PROVE ChainInv'
  OBVIOUS
<1>1. CASE Receive
  <2>1. UNCHANGED <<index, cache, job, queued, pds>>
    BY <1>1 DEF Receive, Message
  <2>2. PdsGrows
    BY <2>1 DEF PdsGrows, HasIdentity
  <2>3. \A g \in Handlers : handler'[g] = handler[g] \/ handler'[g].now = {}
    <3>1. PICK seen, fixes, departed : Message(seen, fixes, departed)
      BY <1>1 DEF Receive
    <3>2. CASE UNCHANGED handler
      BY <3>2
    <3>3. ASSUME NEW h \in Handlers, NEW todo,
                 handler' = [handler EXCEPT ![h] =
                   [NoHandler EXCEPT !.stage = "signing", !.todo = todo]]
          PROVE  \A g \in Handlers : handler'[g] = handler[g] \/ handler'[g].now = {}
      BY <3>3 DEF NoHandler, TypeOK
    <3> QED
      BY <3>1, <3>2, <3>3, Zenon DEF Message
  <2>4. OneInHand' /\ HandsChained' /\ HandlersBacked'
    BY <2>1, <2>3 DEF ChainInv, OneInHand, HandsChained, HandlersBacked, GoodRef,
       HasIdentity
  <2> QED
    BY <2>1, <2>2, <2>4, GrowthKeeps DEF ChainInv, RecordsChained, Records
<1>2. ASSUME NEW j \in Flushers, Flush(j) PROVE ChainInv'
  <2>1. UNCHANGED <<index, cache, handler, queued, pds>>
    BY <1>2 DEF Flush
  <2>2. PdsGrows
    BY <2>1 DEF PdsGrows, HasIdentity
  <2>3. ASSUME NEW next, job' = [job EXCEPT ![j] = next], ~next.stored
        PROVE  JobsBacked'
    BY <2>1, <2>3 DEF ChainInv, JobsBacked, SightingOf, TypeOK, Jobs
  <2>4. JobsBacked'
    <3>1. CASE telemetry = {}
      <4>1. UNCHANGED job
        BY <1>2, <3>1 DEF Flush, StartJob
      <4> QED
        BY <2>2, <4>1, GrowthKeeps
    <3>2. CASE telemetry # {}
      <4>1. PICK plan \in Plans(telemetry) :
              IF RawCaptureEnabled /\ rawPaths # {}
              THEN job' = [job EXCEPT ![j] =
                     [NoJob EXCEPT !.stage = "raw", !.win = window,
                                   !.raw = rawPaths, !.rest = plan]]
              ELSE \E next \in NextChunk(window, plan) :
                     job' = [job EXCEPT ![j] = next]
        BY <1>2, <3>2, Zenon DEF Flush, StartJob
      <4>2. ~[NoJob EXCEPT !.stage = "raw", !.win = window, !.raw = rawPaths,
                           !.rest = plan].stored
        BY DEF NoJob
      <4> QED
        BY <2>3, <4>1, <4>2, NextChunkFresh, Zenon
    <3> QED
      BY <3>1, <3>2
  <2>5. RecordsChained'
    BY <2>1, <2>2, GrowthKeeps DEF RecordsChained, Records
  <2> QED
    BY <2>1, <2>2, <2>4, <2>5, GrowthKeeps DEF ChainInv
<1>3. CASE Drain
  <2>1. UNCHANGED <<index, cache, handler, job>>
    BY <1>3 DEF Drain, memory
  <2>2. /\ pds.sightings \subseteq pds'.sightings
        /\ pds'.identities = pds.identities
        /\ Records' \subseteq Records
    BY <1>3, DrainSteps DEF DrainedTo, Records
  <2>3. PdsGrows
    BY <2>2 DEF PdsGrows, HasIdentity
  <2> QED
    BY <2>1, <2>2, <2>3, GrowthKeeps DEF ChainInv, RecordsChained
<1>4. CASE FinalFlush
  <2>1. UNCHANGED <<index, cache, handler, queued, pds>>
    BY <1>4 DEF FinalFlush
  <2>2. PdsGrows
    BY <2>1 DEF PdsGrows, HasIdentity
  <2>3. ASSUME NEW next, job' = [job EXCEPT !["final"] = next], ~next.stored
        PROVE  JobsBacked'
    BY <2>1, <2>3 DEF ChainInv, JobsBacked, SightingOf, TypeOK, Jobs
  <2>4. JobsBacked'
    <3>1. CASE telemetry = {}
      <4>1. UNCHANGED job
        BY <1>4, <3>1 DEF FinalFlush
      <4> QED
        BY <2>2, <4>1, GrowthKeeps
    <3>2. CASE telemetry # {}
      BY <1>4, <2>3, <3>2, NextChunkFresh, Zenon DEF FinalFlush
    <3> QED
      BY <3>1, <3>2
  <2>5. RecordsChained'
    BY <2>1, <2>2, GrowthKeeps DEF RecordsChained, Records
  <2> QED
    BY <2>1, <2>2, <2>4, <2>5, GrowthKeeps DEF ChainInv
<1>5. CASE Restart
  <2>1. UNCHANGED <<cache, queued, pds>>
    BY <1>5 DEF Restart
  <2>2. PdsGrows
    BY <2>1 DEF PdsGrows, HasIdentity
  <2>3. OneInHand' /\ IndexChained' /\ HandsChained' /\ HandlersBacked' /\ JobsBacked'
    BY <1>5 DEF Restart, OneInHand, IndexChained, HandsChained, HandlersBacked,
       JobsBacked, NoHandler, NoJob
  <2> QED
    BY <2>1, <2>2, <2>3, GrowthKeeps DEF ChainInv, RecordsChained, Records
<1>6. ASSUME \/ \E file \in Captures : RawCapture(file)
             \/ Shutdown
             \/ UNCHANGED vars
      PROVE  ChainInv'
  <2>1. UNCHANGED <<index, cache, handler, job, queued, pds>>
    BY <1>6 DEF RawCapture, Shutdown, vars
  <2>2. PdsGrows
    BY <2>1 DEF PdsGrows, HasIdentity
  <2> QED
    BY <2>1, <2>2, GrowthKeeps DEF ChainInv, RecordsChained, Records
<1> QED
  BY <1>1, <1>2, <1>3, <1>4, <1>5, <1>6, ChainHandler, ChainJob
     DEF Next, Exit, Crash

\* A flight record only refers to sightings that are at the PDS and name the
\* aircraft, and to an identity that is there: whatever callbacks overlap,
\* calls fail and processes die on the way.
THEOREM ProvenanceChain == Spec => []ChainWalkable
<1>1. TypeOK /\ ChainInv => ChainWalkable
  <2> SUFFICES ASSUME TypeOK, ChainInv, NEW f \in Built \cup Records
               PROVE  /\ pds.identities[f.transit.hex] > 0
                      /\ \A s \in f.refs : /\ s \in pds.sightings
                                           /\ f.transit.hex \in Manifest(s.reports)
    BY DEF ChainWalkable
  <2>1. CASE f \in Records
    BY <2>1 DEF ChainInv, RecordsChained, HasIdentity, GoodRef
  <2>2. ASSUME NEW h \in Handlers, handler[h].stage = "flight",
               NEW ac \in handler[h].now, f = FlightOf(h, ac)
        PROVE  /\ pds.identities[f.transit.hex] > 0
               /\ \A s \in f.refs : /\ s \in pds.sightings
                                    /\ f.transit.hex \in Manifest(s.reports)
    BY <2>2 DEF ChainInv, HandsChained, HandlersBacked, HasIdentity, GoodRef, FlightOf
  <2> QED
    BY <2>1, <2>2 DEF Built
<1>2. Init => TypeOK /\ ChainInv
  BY TypeInit, ChainInit
<1>3. (TypeOK /\ ChainInv) /\ [Next]_vars => (TypeOK /\ ChainInv)'
  BY TypeNext, ChainNext
<1> QED
  BY <1>1, <1>2, <1>3, PTL DEF Spec

-----------------------------------------------------------------------------
(* A row that a drain has sent leaves nothing behind that is not at the PDS. *)

SentStored == /\ sent.sightings \subseteq pds.sightings
              /\ sent.flights \subseteq pds.flights

LEMMA SentInit == Init => SentStored
BY DEF Init, SentStored

LEMMA SentNext == TypeOK /\ SentStored /\ [Next]_vars => SentStored'
<1> SUFFICES ASSUME TypeOK, SentStored, [Next]_vars PROVE SentStored'
  OBVIOUS
<1>1. CASE UNCHANGED vars
  BY <1>1 DEF vars, SentStored
<1>2. CASE UNCHANGED <<sent, pds>>
  BY <1>2 DEF SentStored
<1>3. ASSUME NEW h \in Handlers, NEW ac \in handler[h].now, Create(h, ac)
      PROVE  SentStored'
  <2>1. UNCHANGED sent
    BY <1>3 DEF Create
  <2>2. CASE handler[h].stage = "identity"
    BY <1>3, <2>1, <2>2 DEF Create, SentStored, TypeOK
  <2>3. CASE handler[h].stage # "identity"
    BY <1>3, <2>1, <2>3, StoreSteps DEF Create, SentStored
  <2> QED
    BY <2>2, <2>3
<1>4. ASSUME NEW h \in Handlers, HandlerStep(h) \/ HandlerFailure(h)
      PROVE  SentStored'
  <2>1. CASE \/ Signed(h) \/ FlightDone(h) \/ IdentityFailed(h) \/ SigningFailed(h)
             \/ \E ac \in handler[h].now : IdentityDone(h, ac) \/ CategoryFailed(h, ac)
                                            \/ FlightFailed(h, ac)
    BY <1>2, <2>1 DEF Signed, FlightDone, IdentityFailed, SigningFailed, IdentityDone,
       CategoryFailed, FlightFailed
  <2> QED
    BY <1>3, <1>4, <2>1 DEF HandlerStep, HandlerFailure
<1>5. ASSUME NEW j \in Jobs, CreateSighting(j) PROVE SentStored'
  BY <1>5, StoreSteps DEF CreateSighting, SentStored
<1>6. ASSUME NEW j \in Jobs, JobStep(j) \/ JobFailure(j) PROVE SentStored'
  <2>1. CASE RawDone(j) \/ Uploaded(j) \/ SightingDone(j) \/ JobFailure(j)
    BY <1>2, <2>1 DEF RawDone, Uploaded, SightingDone, JobFailure, UploadFailed,
       SightingFailed
  <2> QED
    BY <1>5, <1>6, <2>1 DEF JobStep
<1>7. CASE Receive
  BY <1>2, <1>7 DEF Receive, Message
<1>8. CASE \/ \E file \in Captures : RawCapture(file)
           \/ \E j \in Flushers : Flush(j)
           \/ Shutdown \/ FinalFlush
  BY <1>2, <1>8 DEF RawCapture, Flush, Shutdown, FinalFlush
<1>9. CASE Drain
  BY <1>9, DrainSteps DEF DrainedTo, SentStored
<1>10. CASE Restart
  BY <1>10 DEF Restart, SentStored, TypeOK
<1> QED
  BY <1>1, <1>4, <1>6, <1>7, <1>8, <1>9, <1>10 DEF Next, Exit, Crash

-----------------------------------------------------------------------------
(* Reports, windows and references.                                        *)

Sightings == queued.sightings \cup pds.sightings
Apart(a, b) == Manifest(a) \cap Manifest(b) = {}

\* The reports a job has yet to publish.
Load(r) == r.chunk \cup UNION r.rest

\* An idle slot holds nothing, and the final flush runs in its mode only.
JobsShaped ==
  /\ \A j \in Jobs : /\ job[j].stage = "idle" => job[j] = NoJob
                     /\ job[j].stage = "raw" => job[j].chunk = {}
                     /\ {} \notin job[j].rest
  /\ job["final"].stage # "idle" => mode = "flushing" /\ telemetry # {}

\* Records and jobs are of windows before the open one, but for the final flush, which
\* publishes the open one; and jobs are of different windows.
WindowsInTurn ==
  /\ \A s \in Sightings :
       s.win < window \/ (s.win = window /\ mode = "flushing" /\ telemetry # {})
  /\ \A j \in Flushers : job[j].stage # "idle" => job[j].win < window
  /\ job["final"].stage # "idle" => job["final"].win = window
  /\ \A j, k \in Jobs :
       job[j].stage # "idle" /\ job[k].stage # "idle" /\ j # k => job[j].win # job[k].win

\* The chunks of a job have no aircraft in common, with each other or with a record of
\* their window, except with their own.
ChunksApart ==
  \A j \in Jobs :
    /\ \A c \in job[j].rest : Apart(c, job[j].chunk)
    /\ \A c, d \in job[j].rest : c # d => Apart(c, d)
    /\ \A s \in Sightings : s.win = job[j].win =>
         /\ \A c \in job[j].rest : Apart(c, s.reports)
         /\ s = SightingOf(j) \/ Apart(job[j].chunk, s.reports)

\* So have the records of a window.
SightingsApart ==
  \A s, t \in Sightings : (s.win = t.win /\ s # t) => Apart(s.reports, t.reports)

Ledger == /\ JobsShaped /\ WindowsInTurn /\ ChunksApart
          /\ SightingsApart /\ TelemetryAccounted

-----------------------------------------------------------------------------
(* Windows, plans and jobs.                                                *)

\* Where a report is, without the unions.
Located(x) ==
  \/ x \in InWindow(window, telemetry)
  \/ \E j \in Jobs : x \in InWindow(job[j].win, Load(job[j]))
  \/ \E s \in Sightings : x \in InWindow(s.win, s.reports)
  \/ x \in dropped

LEMMA Accounted == TelemetryAccounted <=> \A x \in heard : Located(x)
BY DEF TelemetryAccounted, Located, InJobs, InRecords, Load, Sightings

\* The same, after a step.
LEMMA AccountedNext == (\A x \in heard' : Located(x)') => TelemetryAccounted'
BY DEF TelemetryAccounted, Located, InJobs, InRecords, Load, Sightings

\* What a job begins with: the reports of a window, split.
Fresh(r, win, reports) ==
  /\ r \in JobState
  /\ r.stage \in {"raw", "upload"} /\ ~r.stored /\ r.win = win
  /\ Load(r) = reports
  /\ r.stage = "raw" => r.chunk = {}
  /\ r.stage = "upload" => r.chunk # {}
  /\ {} \notin r.rest
  /\ \A c \in r.rest : Apart(c, r.chunk)
  /\ \A c, d \in r.rest : c # d => Apart(c, d)

\* A plan splits the reports by aircraft.
LEMMA PlanSplits ==
  ASSUME NEW reports \in SUBSET Transit, NEW plan \in Plans(reports)
  PROVE  /\ UNION plan = reports
         /\ {} \notin plan
         /\ \A c, d \in plan : c # d => Apart(c, d)
<1>1. PICK group \in [Hexes -> Hexes] :
        plan = {{t \in reports : group[t.hex] = g} : g \in Hexes} \ {{}}
  BY DEF Plans
<1>2. \A t \in reports : t.hex \in Hexes /\ group[t.hex] \in Hexes
  BY DEF Transit
<1>3. UNION plan = reports
  <2>1. ASSUME NEW t \in reports
        PROVE  \E c \in plan : t \in c
    <3>1. t \in {u \in reports : group[u.hex] = group[t.hex]}
      OBVIOUS
    <3>2. {u \in reports : group[u.hex] = group[t.hex]} \in plan
      BY <1>1, <1>2, <3>1
    <3> QED
      BY <3>1, <3>2
  <2>2. \A c \in plan : c \subseteq reports
    BY <1>1
  <2> QED
    BY <2>1, <2>2
<1>4. ASSUME NEW c \in plan, NEW d \in plan, c # d
      PROVE  Apart(c, d)
  <2>1. PICK g \in Hexes : c = {t \in reports : group[t.hex] = g}
    BY <1>1
  <2>2. PICK h \in Hexes : d = {t \in reports : group[t.hex] = h}
    BY <1>1
  <2>3. \A t \in c, u \in d : t.hex # u.hex
    BY <1>4, <2>1, <2>2
  <2> QED
    BY <2>3 DEF Apart, Manifest
<1> QED
  BY <1>1, <1>3, <1>4

\* The loop over chunks takes one of them, or ends.
LEMMA ChunkTaken ==
  ASSUME NEW win, NEW rest, NEW next \in NextChunk(win, rest)
  PROVE  \/ rest = {} /\ next = NoJob
         \/ /\ next.stage = "upload" /\ ~next.stored /\ next.win = win
            /\ next.chunk \in rest /\ next.rest = rest \ {next.chunk}
            /\ Load(next) = UNION rest
<1>1. CASE rest = {}
  BY <1>1 DEF NextChunk
<1>2. CASE rest # {}
  <2>1. PICK chunk \in rest :
          next = [NoJob EXCEPT !.stage = "upload", !.win = win,
                               !.rest = rest \ {chunk}, !.chunk = chunk]
    BY <1>2 DEF NextChunk
  <2>2. /\ next.stage = "upload" /\ ~next.stored /\ next.win = win
        /\ next.chunk = chunk /\ next.rest = rest \ {chunk}
    BY <2>1 DEF NoJob
  <2>3. Load(next) = UNION rest
    BY <2>1, <2>2 DEF Load
  <2> QED
    BY <2>1, <2>2, <2>3
<1> QED
  BY <1>1, <1>2

\* A chunk taken from the plan of a window that has reports.
LEMMA FirstChunkFresh ==
  ASSUME TypeOK, NEW win \in 1 .. MaxWindows, telemetry # {},
         NEW plan \in Plans(telemetry), NEW next \in NextChunk(win, plan)
  PROVE  Fresh(next, win, telemetry)
<1>1. telemetry \in SUBSET Transit
  BY DEF TypeOK
<1>2. /\ UNION plan = telemetry /\ {} \notin plan
      /\ \A c, d \in plan : c # d => Apart(c, d)
  BY <1>1, PlanSplits
<1>3. plan # {} /\ plan \in SUBSET SUBSET Transit
  BY <1>1, <1>2, PlansTyped
<1>4. next \in JobState
  BY <1>3, NextChunkTyped
<1>5. /\ next.stage = "upload" /\ ~next.stored /\ next.win = win
      /\ next.chunk \in plan /\ next.rest = plan \ {next.chunk}
      /\ Load(next) = telemetry
  <2>1. \/ plan = {} /\ next = NoJob
        \/ /\ next.stage = "upload" /\ ~next.stored /\ next.win = win
           /\ next.chunk \in plan /\ next.rest = plan \ {next.chunk}
           /\ Load(next) = UNION plan
    BY ChunkTaken
  <2> QED
    BY <1>2, <1>3, <2>1
<1> QED
  BY <1>2, <1>4, <1>5 DEF Fresh

\* StartJob begins a job on what there is in the open window.
LEMMA JobStarts ==
  ASSUME TypeOK, NEW j \in Jobs, StartJob(j), telemetry # {}
  PROVE  /\ job[j].stage = "idle" /\ window' = window + 1
         /\ \E new : Fresh(new, window, telemetry) /\ job' = [job EXCEPT ![j] = new]
<1>1. /\ window \in 1 .. MaxWindows /\ telemetry \in SUBSET Transit
      /\ rawPaths \subseteq Captures
  BY DEF TypeOK
<1>2. PICK plan \in Plans(telemetry) :
        IF RawCaptureEnabled /\ rawPaths # {}
        THEN job' = [job EXCEPT ![j] =
               [NoJob EXCEPT !.stage = "raw", !.win = window,
                             !.raw = rawPaths, !.rest = plan]]
        ELSE \E next \in NextChunk(window, plan) : job' = [job EXCEPT ![j] = next]
  BY DEF StartJob
<1>3. CASE RawCaptureEnabled /\ rawPaths # {}
  <2> DEFINE new == [NoJob EXCEPT !.stage = "raw", !.win = window,
                                  !.raw = rawPaths, !.rest = plan]
  <2>1. /\ UNION plan = telemetry /\ {} \notin plan
        /\ \A c, d \in plan : c # d => Apart(c, d)
        /\ plan \in SUBSET SUBSET Transit
    BY <1>1, PlanSplits, PlansTyped
  <2>2. /\ new.stage = "raw" /\ ~new.stored /\ new.win = window /\ new.chunk = {}
        /\ new.rest = plan /\ new.raw = rawPaths
        /\ new \in JobState
    BY <1>1, <2>1 DEF NoJob, JobState
  <2>3. job' = [job EXCEPT ![j] = new]
    BY <1>2, <1>3
  <2> HIDE DEF new
  <2>4. Load(new) = telemetry
    BY <2>1, <2>2 DEF Load
  <2>5. \A c \in new.rest : Apart(c, new.chunk)
    BY <2>2 DEF Apart, Manifest
  <2>6. Fresh(new, window, telemetry)
    BY <2>1, <2>2, <2>4, <2>5 DEF Fresh
  <2> QED
    BY <2>3, <2>6 DEF StartJob
<1>4. CASE ~(RawCaptureEnabled /\ rawPaths # {})
  BY <1>1, <1>2, <1>4, FirstChunkFresh DEF StartJob
<1> QED
  BY <1>3, <1>4

-----------------------------------------------------------------------------
(* Ledger.                                                                 *)

LEMMA LedgerInit == Init => Ledger
<1> SUFFICES ASSUME Init PROVE Ledger
  OBVIOUS
<1>1. /\ Sightings = {} /\ telemetry = {} /\ heard = {} /\ window = 1
      /\ \A j \in Jobs : job[j] = NoJob
      /\ "final" \in Jobs
  BY DEF Init, Sightings, Jobs
<1>2. \A j \in Jobs : job[j].stage = "idle" /\ job[j].chunk = {} /\ job[j].rest = {}
  BY <1>1 DEF NoJob
<1>3. JobsShaped /\ WindowsInTurn /\ ChunksApart
  BY <1>1, <1>2 DEF JobsShaped, WindowsInTurn, ChunksApart, Jobs
<1> QED
  BY <1>1, <1>3 DEF Ledger, SightingsApart, TelemetryAccounted

\* Steps that touch neither reports nor jobs nor sightings.
LEMMA LedgerQuiet ==
  ASSUME Ledger, UNCHANGED <<job, window, telemetry, heard, dropped>>,
         Sightings' = Sightings, mode = "flushing" => mode' = "flushing"
  PROVE  Ledger'
<1>1. JobsShaped' /\ WindowsInTurn' /\ ChunksApart'
  BY DEF Ledger, JobsShaped, WindowsInTurn, ChunksApart, SightingOf
<1>2. SightingsApart'
  BY DEF Ledger, SightingsApart
<1>3. \A x \in heard' : Located(x)'
  <2>1. \A x \in heard : Located(x)
    BY Accounted DEF Ledger
  <2> QED
    BY <2>1 DEF Located
<1> QED
  BY <1>1, <1>2, <1>3, AccountedNext DEF Ledger

\* New reports go to the open window.
LEMMA LedgerMessage ==
  ASSUME TypeOK, Ledger, NEW new, mode = "up",
         telemetry' = telemetry \cup new, heard' = heard \cup InWindow(window, new),
         UNCHANGED <<job, window, mode, dropped, queued, pds>>
  PROVE  Ledger'
<1>1. Sightings' = Sightings
  BY DEF Sightings
<1>2. JobsShaped' /\ WindowsInTurn' /\ ChunksApart'
  BY <1>1 DEF Ledger, JobsShaped, WindowsInTurn, ChunksApart, SightingOf
<1>3. SightingsApart'
  BY <1>1 DEF Ledger, SightingsApart
<1>4. \A x \in heard' : Located(x)'
  <2>1. \A x \in heard : Located(x)
    BY Accounted DEF Ledger
  <2>2. \A x \in InWindow(window, telemetry) \cup InWindow(window, new) :
          x \in InWindow(window, telemetry')
    BY DEF InWindow
  <2> QED
    BY <1>1, <2>1, <2>2 DEF Located
<1> QED
  BY <1>2, <1>3, <1>4, AccountedNext DEF Ledger

\* A job begins: on the open window, which a flusher closes.
LEMMA LedgerStarts ==
  ASSUME TypeOK, Ledger, NEW j \in Jobs, NEW new, Fresh(new, window, telemetry),
         job[j].stage = "idle", job' = [job EXCEPT ![j] = new],
         UNCHANGED <<heard, dropped, queued, pds>>,
         mode # "flushing", telemetry # {},
         \/ /\ j # "final" /\ window' = window + 1 /\ telemetry' = {} /\ mode' = mode
         \/ /\ j = "final" /\ window' = window /\ telemetry' = telemetry
            /\ mode' = "flushing"
  PROVE  Ledger'
<1>1. /\ Sightings' = Sightings /\ window \in Nat
      /\ \A k \in Jobs : job'[k] = IF k = j THEN new ELSE job[k]
      /\ "final" \in Jobs /\ Flushers \subseteq Jobs
  BY DEF Sightings, TypeOK, Jobs
<1>2. /\ \A s \in Sightings : s.win < window /\ s.win \in Nat
      /\ \A k \in Jobs : job[k].stage # "idle" => k # "final" /\ k \in Flushers
                                                  /\ job[k].win < window
      /\ \A k \in Jobs : job[k].win \in Nat
      /\ new.win = window /\ new.stage # "idle"
  <2>1. \A s \in Sightings : s.win < window /\ s.win \in Nat
    BY DEF Ledger, WindowsInTurn, TypeOK, Sightings, Sighting
  <2>2. \A k \in Jobs : job[k].stage # "idle" => k # "final" /\ k \in Flushers
                                                 /\ job[k].win < window
    BY DEF Ledger, WindowsInTurn, JobsShaped, Jobs
  <2>3. \A k \in Jobs : job[k].win \in Nat
    BY DEF TypeOK, JobState
  <2> QED
    BY <2>1, <2>2, <2>3 DEF Fresh
<1>3. JobsShaped'
  <2>1. \A k \in Jobs : /\ job'[k].stage = "idle" => job'[k] = NoJob
                        /\ job'[k].stage = "raw" => job'[k].chunk = {}
                        /\ {} \notin job'[k].rest
    BY <1>1, <1>2 DEF Ledger, JobsShaped, Fresh
  <2>2. job'["final"].stage # "idle" => mode' = "flushing" /\ telemetry' # {}
    BY <1>1, <1>2
  <2> QED
    BY <2>1, <2>2 DEF JobsShaped
<1>4. WindowsInTurn'
  <2>1. \A s \in Sightings' : s.win < window'
    BY <1>1, <1>2
  <2>2. \A k \in Flushers : job'[k].stage # "idle" => job'[k].win < window'
    BY <1>1, <1>2, SlotAssumption
  <2>3. job'["final"].stage # "idle" => job'["final"].win = window'
    BY <1>1, <1>2
  <2>4. \A k, l \in Jobs : job'[k].stage # "idle" /\ job'[l].stage # "idle" /\ k # l
                             => job'[k].win # job'[l].win
    <3>1. \A k, l \in Jobs : job[k].stage # "idle" /\ job[l].stage # "idle" /\ k # l
                               => job[k].win # job[l].win
      BY DEF Ledger, WindowsInTurn
    <3> QED
      BY <1>1, <1>2, <3>1
  <2> QED
    BY <2>1, <2>2, <2>3, <2>4 DEF WindowsInTurn
<1>5. ChunksApart'
  <2> SUFFICES ASSUME NEW k \in Jobs
               PROVE  /\ \A c \in job'[k].rest : Apart(c, job'[k].chunk)
                      /\ \A c, d \in job'[k].rest : c # d => Apart(c, d)
                      /\ \A s \in Sightings : s.win = job'[k].win =>
                           /\ \A c \in job'[k].rest : Apart(c, s.reports)
                           /\ s = SightingOf(k)' \/ Apart(job'[k].chunk, s.reports)
    BY <1>1 DEF ChunksApart
  <2>1. CASE k = j
    BY <1>1, <1>2, <2>1 DEF Fresh
  <2>2. CASE k # j
    BY <1>1, <2>2 DEF Ledger, ChunksApart, SightingOf
  <2> QED
    BY <2>1, <2>2
<1>6. SightingsApart'
  BY <1>1 DEF Ledger, SightingsApart
<1>7. \A x \in heard' : Located(x)'
  <2> SUFFICES ASSUME NEW x \in heard PROVE Located(x)'
    OBVIOUS
  <2>1. Located(x)
    BY Accounted DEF Ledger
  <2>2. InWindow(job[j].win, Load(job[j])) = {}
    BY DEF Ledger, JobsShaped, NoJob, Load, InWindow
  <2>3. InWindow(window, telemetry) = InWindow(job'[j].win, Load(job'[j]))
    BY <1>1 DEF Fresh
  <2> QED
    BY <1>1, <2>1, <2>2, <2>3 DEF Located
<1> QED
  BY <1>3, <1>4, <1>5, <1>6, <1>7, AccountedNext DEF Ledger

\* A job goes on: it drops what it publishes, queues or gives up, and its next chunk is
\* the one it has or one of the rest.
LEMMA LedgerMoves ==
  ASSUME TypeOK, Ledger, NEW j \in Jobs, job[j].stage # "idle",
         NEW next, job' = [job EXCEPT ![j] = next],
         UNCHANGED <<window, telemetry, mode, heard>>, dropped \subseteq dropped',
         Sightings' = Sightings \/ Sightings' = Sightings \cup {SightingOf(j)},
         \/ next = NoJob
         \/ /\ next.stage \in {"upload", "create"} /\ next.win = job[j].win
            /\ next.rest \subseteq job[j].rest
            /\ next.chunk = job[j].chunk \/ next.chunk \in job[j].rest \ next.rest,
         \A x \in InWindow(job[j].win, Load(job[j])) :
           \/ x \in InWindow(next.win, Load(next))
           \/ x \in dropped'
           \/ \E s \in Sightings' : x \in InWindow(s.win, s.reports)
  PROVE  Ledger'
<1>1. /\ \A k \in Jobs : job'[k] = IF k = j THEN next ELSE job[k]
      /\ \A k \in Jobs : k # j => SightingOf(k)' = SightingOf(k)
      /\ "final" \in Jobs /\ Flushers \subseteq Jobs
  BY DEF TypeOK, Jobs, SightingOf
<1>2. /\ SightingOf(j).win = job[j].win /\ SightingOf(j).reports = job[j].chunk
      /\ \A s \in Sightings' : s \in Sightings \/ s = SightingOf(j)
      /\ \A s \in Sightings : s \in Sightings'
  BY DEF SightingOf
<1>3. next = NoJob => next.stage = "idle" /\ next.chunk = {} /\ next.rest = {}
  BY DEF NoJob
<1>4. JobsShaped'
  <2>1. /\ next.stage = "idle" => next = NoJob
        /\ next.stage # "raw"
        /\ {} \notin next.rest
    BY <1>3 DEF Ledger, JobsShaped
  <2> QED
    BY <1>1, <2>1 DEF Ledger, JobsShaped
<1>5. WindowsInTurn'
  <2>1. \A s \in Sightings' :
          s.win < window \/ (s.win = window /\ mode = "flushing" /\ telemetry # {})
    BY <1>2 DEF Ledger, WindowsInTurn, JobsShaped, Jobs
  <2>2. \A k \in Jobs : job'[k].stage # "idle" =>
          job[k].stage # "idle" /\ job'[k].win = job[k].win
    BY <1>1, <1>3
  <2> QED
    BY <1>1, <2>1, <2>2 DEF Ledger, WindowsInTurn
<1>6. ChunksApart'
  <2> SUFFICES ASSUME NEW k \in Jobs
               PROVE  /\ \A c \in job'[k].rest : Apart(c, job'[k].chunk)
                      /\ \A c, d \in job'[k].rest : c # d => Apart(c, d)
                      /\ \A s \in Sightings' : s.win = job'[k].win =>
                           /\ \A c \in job'[k].rest : Apart(c, s.reports)
                           /\ s = SightingOf(k)' \/ Apart(job'[k].chunk, s.reports)
    BY DEF ChunksApart
  <2>1. /\ \A c \in job[k].rest : Apart(c, job[k].chunk) /\ Apart(job[k].chunk, c)
        /\ \A c, d \in job[k].rest : c # d => Apart(c, d)
        /\ \A s \in Sightings : s.win = job[k].win =>
             /\ \A c \in job[k].rest : Apart(c, s.reports)
             /\ s = SightingOf(k) \/ Apart(job[k].chunk, s.reports)
    BY DEF Ledger, ChunksApart, Apart
  <2>2. CASE k = j /\ next = NoJob
    <3>1. job'[k].rest = {} /\ job'[k].chunk = {}
      BY <1>1, <1>3, <2>2
    <3> QED
      BY <3>1 DEF Apart, Manifest
  <2>3. CASE k = j /\ next # NoJob
    <3>1. /\ job'[k] = next /\ next.win = job[k].win
          /\ next.rest \subseteq job[k].rest
          /\ next.chunk = job[k].chunk \/ next.chunk \in job[k].rest \ next.rest
      BY <1>1, <2>3
    <3>2. next.chunk = job[k].chunk => SightingOf(k)' = SightingOf(k)
      BY <3>1 DEF SightingOf
    <3>3. /\ \A c \in next.rest : Apart(c, next.chunk)
          /\ \A c, d \in next.rest : c # d => Apart(c, d)
      BY <2>1, <3>1
    <3>4. ASSUME NEW s \in Sightings', s.win = next.win
          PROVE  /\ \A c \in next.rest : Apart(c, s.reports)
                 /\ s = SightingOf(k)' \/ Apart(next.chunk, s.reports)
      <4>1. CASE s \in Sightings
        BY <2>1, <3>1, <3>2, <3>4, <4>1
      <4>2. CASE s = SightingOf(j)
        BY <1>2, <2>1, <2>3, <3>1, <3>2, <4>2
      <4> QED
        BY <1>2, <4>1, <4>2
    <3> QED
      BY <3>1, <3>3, <3>4
  <2>4. CASE k # j
    <3>1. job'[k] = job[k] /\ SightingOf(k)' = SightingOf(k)
      BY <1>1, <2>4
    <3>2. CASE job[k].stage = "idle"
      <4>1. job[k].chunk = {} /\ job[k].rest = {}
        BY <3>2 DEF Ledger, JobsShaped, NoJob
      <4> QED
        BY <3>1, <4>1 DEF Apart, Manifest
    <3>3. CASE job[k].stage # "idle"
      <4>1. SightingOf(j).win # job[k].win
        BY <1>2, <2>4, <3>3 DEF Ledger, WindowsInTurn
      <4> QED
        BY <1>2, <2>1, <3>1, <4>1
    <3> QED
      BY <3>2, <3>3
  <2> QED
    BY <2>2, <2>3, <2>4
<1>7. SightingsApart'
  <2>1. \A s \in Sightings : s.win = job[j].win =>
          s = SightingOf(j) \/ Apart(job[j].chunk, s.reports)
    BY DEF Ledger, ChunksApart
  <2>2. \A s, t \in Sightings : s.win = t.win /\ s # t => Apart(s.reports, t.reports)
    BY DEF Ledger, SightingsApart
  <2>3. \A s, t \in Sightings' : s.win = t.win /\ s # t => Apart(s.reports, t.reports)
    BY <1>2, <2>1, <2>2 DEF Apart
  <2> QED
    BY <2>3 DEF SightingsApart
<1>8. \A x \in heard' : Located(x)'
  <2> SUFFICES ASSUME NEW x \in heard PROVE Located(x)'
    OBVIOUS
  <2>1. Located(x)
    BY Accounted DEF Ledger
  <2>2. CASE x \in InWindow(job[j].win, Load(job[j]))
    BY <1>1, <2>2 DEF Located
  <2>3. CASE x \notin InWindow(job[j].win, Load(job[j]))
    BY <1>1, <1>2, <2>1, <2>3 DEF Located
  <2> QED
    BY <2>2, <2>3
<1> QED
  BY <1>4, <1>5, <1>6, <1>7, <1>8, AccountedNext DEF Ledger

\* The process dies or ends: what is left is at the PDS or in the queue.
LEMMA LedgerRestart ==
  ASSUME TypeOK, Ledger, Restart
  PROVE  Ledger'
<1>1. /\ Sightings' = Sightings /\ heard' = {} /\ telemetry' = {} /\ mode' = "up"
      /\ \A j \in Jobs : job'[j] = NoJob
      /\ window' = IF telemetry = {} THEN window ELSE window + 1
      /\ "final" \in Jobs
  BY DEF Restart, Sightings, Jobs
<1>2. \A j \in Jobs : job'[j].stage = "idle" /\ job'[j].chunk = {} /\ job'[j].rest = {}
  BY <1>1 DEF NoJob
<1>3. \A s \in Sightings : s.win < window'
  <2>1. window \in Nat /\ \A s \in Sightings : s.win \in Nat
    BY DEF TypeOK, Sightings, Sighting
  <2> QED
    BY <1>1, <2>1 DEF Ledger, WindowsInTurn
<1>4. JobsShaped' /\ WindowsInTurn' /\ ChunksApart'
  BY <1>1, <1>2, <1>3 DEF JobsShaped, WindowsInTurn, ChunksApart, Apart, Manifest, Jobs
<1>5. SightingsApart'
  BY <1>1 DEF Ledger, SightingsApart
<1> QED
  BY <1>1, <1>4, <1>5, AccountedNext DEF Ledger

\* The steps of a job, each as a case of LedgerMoves.
LEMMA LedgerJob ==
  ASSUME TypeOK, JobsBacked, Ledger, NEW j \in Jobs, JobStep(j) \/ JobFailure(j)
  PROVE  Ledger'
<1>1. job[j] \in JobState /\ job \in [Jobs -> JobState]
  BY DEF TypeOK
<1>2. \A next \in NextChunk(job[j].win, job[j].rest) :
        /\ \/ next = NoJob
           \/ /\ next.stage \in {"upload", "create"} /\ next.win = job[j].win
              /\ next.rest \subseteq job[j].rest
              /\ next.chunk \in job[j].rest \ next.rest
        /\ InWindow(job[j].win, Load(job[j])) \subseteq
             InWindow(next.win, Load(next)) \cup InWindow(job[j].win, job[j].chunk)
  <2> TAKE next \in NextChunk(job[j].win, job[j].rest)
  <2>1. CASE job[j].rest = {} /\ next = NoJob
    BY <2>1 DEF Load, InWindow
  <2>2. CASE /\ next.stage = "upload" /\ ~next.stored /\ next.win = job[j].win
             /\ next.chunk \in job[j].rest /\ next.rest = job[j].rest \ {next.chunk}
             /\ Load(next) = UNION job[j].rest
    <3>1. Load(job[j]) = job[j].chunk \cup Load(next)
      BY <2>2 DEF Load
    <3> QED
      BY <2>2, <3>1 DEF InWindow
  <2> QED
    BY <2>1, <2>2, ChunkTaken
<1>3. InWindow(job[j].win, job[j].chunk) =
        InWindow(SightingOf(j).win, SightingOf(j).reports)
  BY DEF SightingOf
<1>4. CASE RawDone(j)
  <2>1. /\ job[j].stage = "raw" /\ job[j].chunk = {}
        /\ UNCHANGED <<window, telemetry, mode, heard, dropped, queued, pds>>
    BY <1>4 DEF RawDone, memory, history, Ledger, JobsShaped
  <2>2. PICK next \in NextChunk(job[j].win, job[j].rest) : job' = [job EXCEPT ![j] = next]
    BY <1>4 DEF RawDone
  <2>3. InWindow(job[j].win, job[j].chunk) = {}
    BY <2>1 DEF InWindow
  <2>4. Sightings' = Sightings
    BY <2>1 DEF Sightings
  <2>5. \A x \in InWindow(job[j].win, Load(job[j])) : x \in InWindow(next.win, Load(next))
    BY <1>2, <2>3
  <2> QED
    BY <1>2, <2>1, <2>2, <2>4, <2>5, LedgerMoves
<1>5. CASE Uploaded(j) \/ CreateSighting(j)
  <2>1. /\ job[j].stage # "idle"
        /\ UNCHANGED <<window, telemetry, mode, heard, dropped>>
    BY <1>5 DEF Uploaded, CreateSighting, memory, history
  <2>2. PICK next :
          /\ job' = [job EXCEPT ![j] = next]
          /\ next.stage = "create" /\ next.win = job[j].win
          /\ next.chunk = job[j].chunk /\ next.rest = job[j].rest
    <3>1. CASE Uploaded(j)
      <4>1. job' = [job EXCEPT ![j] = [job[j] EXCEPT !.stage = "create"]]
        BY <1>1, <3>1 DEF Uploaded
      <4>2. WITNESS [job[j] EXCEPT !.stage = "create"]
      <4> QED
        BY <1>1, <4>1 DEF JobState
    <3>2. CASE CreateSighting(j)
      <4>1. job' = [job EXCEPT ![j] = [job[j] EXCEPT !.stored = TRUE]]
        BY <1>1, <3>2 DEF CreateSighting
      <4>2. job[j].stage = "create"
        BY <3>2 DEF CreateSighting
      <4>3. WITNESS [job[j] EXCEPT !.stored = TRUE]
      <4> QED
        BY <1>1, <4>1, <4>2 DEF JobState
    <3> QED
      BY <1>5, <3>1, <3>2
  <2>3. Sightings' = Sightings \/ Sightings' = Sightings \cup {SightingOf(j)}
    <3>1. CASE Uploaded(j)
      BY <3>1 DEF Uploaded, Sightings
    <3>2. CASE CreateSighting(j)
      BY <3>2, StoreSteps DEF CreateSighting, Sightings
    <3> QED
      BY <1>5, <3>1, <3>2
  <2>4. Load(next) = Load(job[j])
    BY <2>2 DEF Load
  <2> QED
    BY <2>1, <2>2, <2>3, <2>4, LedgerMoves
<1>6. CASE SightingDone(j)
  <2>1. /\ job[j].stage = "create" /\ job[j].stored
        /\ UNCHANGED <<window, telemetry, mode, heard, dropped, queued, pds>>
    BY <1>6 DEF SightingDone, memory, history
  <2>2. PICK next \in NextChunk(job[j].win, job[j].rest) : job' = [job EXCEPT ![j] = next]
    BY <1>6 DEF SightingDone
  <2>3. Sightings' = Sightings /\ SightingOf(j) \in Sightings'
    BY <2>1 DEF Sightings, JobsBacked
  <2>4. \A x \in InWindow(job[j].win, Load(job[j])) :
          \/ x \in InWindow(next.win, Load(next))
          \/ \E s \in Sightings' : x \in InWindow(s.win, s.reports)
    BY <1>2, <1>3, <2>3
  <2> QED
    BY <1>2, <2>1, <2>2, <2>3, <2>4, LedgerMoves
<1>7. CASE SightingFailed(j) /\ j # "final"
  <2>1. /\ job[j].stage = "create"
        /\ UNCHANGED <<window, telemetry, mode, heard, dropped, pds>>
        /\ queued' = QueueSighting(j)
    BY <1>7 DEF SightingFailed, memory
  <2>2. PICK next \in NextChunk(job[j].win, job[j].rest) : job' = [job EXCEPT ![j] = next]
    BY <1>7 DEF SightingFailed
  <2>3. Sightings' = Sightings \cup {SightingOf(j)}
    BY <2>1 DEF QueueSighting, Sightings, TypeOK
  <2>4. \A x \in InWindow(job[j].win, Load(job[j])) :
          \/ x \in InWindow(next.win, Load(next))
          \/ \E s \in Sightings' : x \in InWindow(s.win, s.reports)
    BY <1>2, <1>3, <2>3
  <2> QED
    BY <1>2, <2>1, <2>2, <2>3, <2>4, LedgerMoves
<1>8. CASE UploadFailed(j) \/ (SightingFailed(j) /\ j = "final")
  <2>1. /\ job[j].stage # "idle" /\ GiveUp(j)
        /\ UNCHANGED <<window, telemetry, mode, heard, queued, pds>>
    BY <1>8 DEF UploadFailed, SightingFailed, memory
  <2>2. Sightings' = Sightings
    BY <2>1 DEF Sightings
  <2>3. /\ job' = [job EXCEPT ![j] = NoJob]
        /\ dropped' = dropped \cup InWindow(job[j].win, Load(job[j]))
    BY <2>1 DEF GiveUp, Load
  <2> QED
    BY <2>1, <2>2, <2>3, LedgerMoves
<1> QED
  BY <1>4, <1>5, <1>6, <1>7, <1>8 DEF JobStep, JobFailure

\* Handlers keep the sightings as they are.
LEMMA HandlersAside ==
  ASSUME TypeOK, NEW h \in Handlers, HandlerStep(h) \/ HandlerFailure(h)
  PROVE  /\ UNCHANGED <<job, window, telemetry, mode, heard, dropped>>
         /\ Sightings' = Sightings
<1>1. ASSUME NEW ac \in handler[h].now, Create(h, ac)
      PROVE  /\ UNCHANGED <<job, window, telemetry, mode, heard, dropped>>
             /\ Sightings' = Sightings
  <2>1. UNCHANGED <<job, window, telemetry, mode, heard, dropped, queued>>
    BY <1>1 DEF Create, memory, history
  <2>2. pds'.sightings = pds.sightings
    BY <1>1, StoreSteps DEF Create, TypeOK
  <2> QED
    BY <2>1, <2>2 DEF Sightings
<1>2. ASSUME NEW ac \in handler[h].now, FlightFailed(h, ac)
      PROVE  /\ UNCHANGED <<job, window, telemetry, mode, heard, dropped>>
             /\ Sightings' = Sightings
  BY <1>2 DEF FlightFailed, QueueFlight, Sightings, TypeOK, memory, history
<1>3. ASSUME NEW ac \in handler[h].now, IdentityDone(h, ac) \/ CategoryFailed(h, ac)
      PROVE  /\ UNCHANGED <<job, window, telemetry, mode, heard, dropped>>
             /\ Sightings' = Sightings
  BY <1>3 DEF IdentityDone, CategoryFailed, Sightings, memory, history
<1>4. CASE Signed(h) \/ FlightDone(h) \/ IdentityFailed(h) \/ SigningFailed(h)
  BY <1>4 DEF Signed, FlightDone, IdentityFailed, SigningFailed, Sightings, memory, history
<1> QED
  BY <1>1, <1>2, <1>3, <1>4 DEF HandlerStep, HandlerFailure

\* The publish queue moves a sighting on, and removes it when it has arrived.
LEMMA DrainKeepsSightings ==
  ASSUME TypeOK, SentStored, Drain
  PROVE  Sightings' = Sightings
BY DrainSteps DEF DrainedTo, SentStored, Sightings

LEMMA LedgerNext ==
  TypeOK /\ SentStored /\ ChainInv /\ Ledger /\ [Next]_vars => Ledger'
<1> SUFFICES ASSUME TypeOK, SentStored, ChainInv, Ledger, [Next]_vars PROVE Ledger'
  OBVIOUS
<1>1. CASE UNCHANGED vars
  BY <1>1, LedgerQuiet DEF vars, memory, history, Sightings
<1>2. CASE Receive
  <2>1. PICK seen \in SUBSET Hexes :
          \E fixes \in SUBSET seen, departed \in SUBSET (Hexes \ seen) :
            Message(seen, fixes, departed)
    BY <1>2 DEF Receive
  <2>2. PICK fixes \in SUBSET seen, departed \in SUBSET (Hexes \ seen) :
          Message(seen, fixes, departed)
    BY <2>1
  <2> QED
    BY <2>2, LedgerMessage DEF Message
<1>3. ASSUME NEW h \in Handlers, HandlerStep(h) \/ HandlerFailure(h)
      PROVE  Ledger'
  BY <1>3, HandlersAside, LedgerQuiet
<1>4. ASSUME NEW file \in Captures, RawCapture(file)
      PROVE  Ledger'
  BY <1>4, LedgerQuiet DEF RawCapture, Sightings, history
<1>5. ASSUME NEW j \in Flushers, Flush(j)
      PROVE  Ledger'
  <2>1. /\ j \in Jobs /\ j # "final" /\ StartJob(j) /\ mode = "up" /\ telemetry' = {}
        /\ UNCHANGED <<mode, queued, pds, heard, dropped>>
    BY <1>5, SlotAssumption DEF Flush, Jobs, history
  <2>2. CASE telemetry = {}
    BY <2>1, <2>2, LedgerQuiet DEF StartJob, Sightings
  <2>3. CASE telemetry # {}
    BY <2>1, <2>3, JobStarts, LedgerStarts
  <2> QED
    BY <2>2, <2>3
<1>6. ASSUME NEW j \in Jobs, JobStep(j) \/ JobFailure(j)
      PROVE  Ledger'
  BY <1>6, LedgerJob DEF ChainInv
<1>7. CASE Drain
  BY <1>7, DrainKeepsSightings, LedgerQuiet DEF Drain, memory, history
<1>8. CASE Shutdown
  BY <1>8, LedgerQuiet DEF Shutdown, Sightings, memory, history
<1>9. CASE FinalFlush
  <2>1. /\ mode = "stopping" /\ mode' = "flushing" /\ "final" \in Jobs
        /\ UNCHANGED <<telemetry, window, queued, pds, heard, dropped>>
    BY <1>9 DEF FinalFlush, Jobs, memory, history
  <2>2. CASE telemetry = {}
    BY <1>9, <2>1, <2>2, LedgerQuiet DEF FinalFlush, Sightings
  <2>3. CASE telemetry # {}
    <3>1. PICK plan \in Plans(telemetry) :
            \E next \in NextChunk(window, plan) : job' = [job EXCEPT !["final"] = next]
      BY <1>9, <2>3 DEF FinalFlush
    <3>2. PICK next \in NextChunk(window, plan) : job' = [job EXCEPT !["final"] = next]
      BY <3>1
    <3>3. window \in 1 .. MaxWindows
      BY <2>3 DEF TypeOK
    <3>4. Fresh(next, window, telemetry)
      BY <2>3, <3>3, FirstChunkFresh
    <3>5. job["final"].stage = "idle"
      BY <2>1 DEF Ledger, JobsShaped
    <3> QED
      BY <2>1, <2>3, <3>2, <3>4, <3>5, LedgerStarts
  <2> QED
    BY <2>2, <2>3
<1>10. CASE Exit \/ Crash
  BY <1>10, LedgerRestart DEF Exit, Crash
<1> QED
  BY <1>1, <1>2, <1>3, <1>4, <1>5, <1>6, <1>7, <1>8, <1>9, <1>10 DEF Next

-----------------------------------------------------------------------------
(* References.                                                             *)

Flights == InHand \cup Records

\* Nobody has a reference to s.
Unreferred(s) ==
  /\ \A hex \in Hexes : s \notin index[hex]
  /\ \A f \in Flights : s \notin f.refs

NotYetReferred == \A j \in Jobs : job[j].chunk # {} => Unreferred(SightingOf(j))

\* A reference is in one place.
RefsApart ==
  /\ \A f, g \in Flights :
       (f.transit.hex = g.transit.hex /\ f.refs \cap g.refs # {}) => f = g
  /\ \A f \in Flights : f.refs \cap index[f.transit.hex] = {}

References == NotYetReferred /\ RefsApart

LEMMA FlightsTyped ==
  ASSUME TypeOK
  PROVE  \A f \in Flights : f \in Flight /\ f.transit.hex \in Hexes
<1>1. \A f \in InHand : f \in Flight
  BY FlightTyped DEF InHand
<1>2. \A f \in Records : f \in Flight
  BY DEF Records, TypeOK
<1> QED
  BY <1>1, <1>2 DEF Flights, Flight, Transit

\* References are to sightings at the PDS, so there is none to any other.
LEMMA UnpublishedUnreferred ==
  ASSUME TypeOK, ChainInv, NEW s, s \notin pds.sightings
  PROVE  Unreferred(s)
<1>1. \A hex \in Hexes : s \notin index[hex]
  BY DEF ChainInv, IndexChained, GoodRef
<1>2. \A f \in Records : s \notin f.refs
  BY DEF ChainInv, RecordsChained, GoodRef
<1>3. \A f \in InHand : s \notin f.refs
  BY DEF ChainInv, HandsChained, GoodRef, InHand, FlightOf
<1> QED
  BY <1>1, <1>2, <1>3 DEF Unreferred, Flights

LEMMA ReferencesInit == Init => References
<1> SUFFICES ASSUME Init PROVE References
  OBVIOUS
<1>1. /\ \A j \in Jobs : job[j].chunk = {}
      /\ InHand = {} /\ Records = {}
  BY DEF Init, NoJob, NoHandler, InHand, Records
<1> QED
  BY <1>1 DEF References, NotYetReferred, RefsApart, Flights

\* A flight that is begun has references from the index: nobody gets one to a sighting
\* that had none.
LEMMA UnreferredKept ==
  ASSUME TypeOK,
         \A hex \in Hexes : index'[hex] \subseteq index[hex],
         \/ Flights' \subseteq Flights
         \/ \E f : /\ Flights' \subseteq Flights \cup {f} /\ f.transit.hex \in Hexes
                   /\ f.refs = index[f.transit.hex] /\ index'[f.transit.hex] = {}
  PROVE  \A s : Unreferred(s) => Unreferred(s)'
BY DEF Unreferred

\* Flights are passed on, and one may be begun with all references its aircraft has in
\* the index.
LEMMA ReferencesTaken ==
  ASSUME TypeOK, References, UNCHANGED job,
         \A hex \in Hexes : index'[hex] \subseteq index[hex],
         \/ Flights' \subseteq Flights
         \/ \E f : /\ Flights' \subseteq Flights \cup {f} /\ f.transit.hex \in Hexes
                   /\ f.refs = index[f.transit.hex] /\ index'[f.transit.hex] = {}
  PROVE  References'
<1>1. \A f \in Flights : f.transit.hex \in Hexes
  BY FlightsTyped
<1>2. /\ \A f, g \in Flights :
           f.transit.hex = g.transit.hex /\ f.refs \cap g.refs # {} => f = g
      /\ \A f \in Flights : f.refs \cap index[f.transit.hex] = {}
  BY DEF References, RefsApart, Flights
<1>3. /\ \A f, g \in Flights' :
           f.transit.hex = g.transit.hex /\ f.refs \cap g.refs # {} => f = g
      /\ \A f \in Flights' : f.refs \cap index'[f.transit.hex] = {}
      /\ \A s : Unreferred(s) => Unreferred(s)'
  <2>1. CASE Flights' \subseteq Flights
    BY <1>1, <1>2, <2>1 DEF Unreferred
  <2>2. ASSUME NEW n, Flights' \subseteq Flights \cup {n}, n.transit.hex \in Hexes,
               n.refs = index[n.transit.hex], index'[n.transit.hex] = {}
        PROVE  /\ \A f, g \in Flights' :
                    f.transit.hex = g.transit.hex /\ f.refs \cap g.refs # {} => f = g
               /\ \A f \in Flights' : f.refs \cap index'[f.transit.hex] = {}
               /\ \A s : Unreferred(s) => Unreferred(s)'
    <3>1. \A f \in Flights : f.transit.hex = n.transit.hex => f.refs \cap n.refs = {}
      BY <1>2, <2>2
    <3>2. \A f, g \in Flights' :
            f.transit.hex = g.transit.hex /\ f.refs \cap g.refs # {} => f = g
      BY <1>2, <2>2, <3>1
    <3>3. \A f \in Flights' : f.refs \cap index'[f.transit.hex] = {}
      BY <1>1, <1>2, <2>2
    <3>4. \A s : Unreferred(s) => Unreferred(s)'
      BY <2>2 DEF Unreferred
    <3> QED
      BY <3>2, <3>3, <3>4
  <2> QED
    BY <2>1, <2>2
<1>4. NotYetReferred'
  BY <1>3 DEF References, NotYetReferred, SightingOf
<1> QED
  BY <1>3, <1>4 DEF References, RefsApart, Flights

\* Jobs go on to sightings nobody has a reference to.
LEMMA ReferencesKept ==
  ASSUME References, UNCHANGED <<handler, index>>, Records' = Records,
         \A j \in Jobs :
           \/ job'[j].chunk = {}
           \/ \E s : Unreferred(s) /\ s = [win |-> job'[j].win, reports |-> job'[j].chunk]
           \/ job'[j].chunk = job[j].chunk /\ job'[j].win = job[j].win
  PROVE  References'
<1>1. InHand' = InHand /\ Flights' = Flights
  BY DEF InHand, FlightOf, Flights
<1>2. RefsApart'
  BY <1>1 DEF References, RefsApart
<1>3. \A s : Unreferred(s)' <=> Unreferred(s)
  BY <1>1 DEF Unreferred
<1>4. NotYetReferred'
  <2> SUFFICES ASSUME NEW j \in Jobs, job'[j].chunk # {}
               PROVE  Unreferred(SightingOf(j))'
    BY DEF NotYetReferred
  <2>1. CASE \E s : Unreferred(s) /\ s = [win |-> job'[j].win, reports |-> job'[j].chunk]
    BY <1>3, <2>1 DEF SightingOf
  <2>2. CASE job'[j].chunk = job[j].chunk /\ job'[j].win = job[j].win
    <3>1. SightingOf(j)' = SightingOf(j)
      BY <2>2 DEF SightingOf
    <3>2. Unreferred(SightingOf(j))
      BY <2>2 DEF References, NotYetReferred
    <3> QED
      BY <1>3, <3>1, <3>2
  <2> QED
    BY <2>1, <2>2
<1> QED
  BY <1>2, <1>4 DEF References

\* The chunk a job goes on to is in no record yet, and in nobody's references.
LEMMA NextUnpublished ==
  ASSUME TypeOK, Ledger, NEW j \in Jobs, NEW c \in job[j].rest
  PROVE  /\ [win |-> job[j].win, reports |-> c] \notin Sightings
         /\ c # {} /\ c # job[j].chunk
<1> DEFINE s == [win |-> job[j].win, reports |-> c]
<1>1. c # {} /\ c \in SUBSET Transit
  <2>1. {} \notin job[j].rest
    BY DEF Ledger, JobsShaped
  <2>2. job[j].rest \in SUBSET SUBSET Transit
    BY DEF TypeOK, JobState
  <2> QED
    BY <2>1, <2>2
<1>2. Manifest(c) # {}
  BY <1>1 DEF Manifest
<1>3. s \notin Sightings
  <2>1. s \in Sightings => Apart(c, c)
    BY DEF Ledger, ChunksApart
  <2> QED
    BY <1>2, <2>1 DEF Apart
<1>4. c # job[j].chunk
  <2>1. Apart(c, job[j].chunk)
    BY DEF Ledger, ChunksApart
  <2> QED
    BY <1>2, <2>1 DEF Apart
<1> QED
  BY <1>1, <1>3, <1>4

LEMMA NextUnreferred ==
  ASSUME TypeOK, ChainInv, Ledger, NEW j \in Jobs, NEW c \in job[j].rest
  PROVE  /\ Unreferred([win |-> job[j].win, reports |-> c])
         /\ c # job[j].chunk
BY NextUnpublished, UnpublishedUnreferred DEF Sightings

\* A job on the open window: no record of it is published.
LEMMA FreshUnpublished ==
  ASSUME TypeOK, Ledger, mode # "flushing", NEW reports
  PROVE  [win |-> window, reports |-> reports] \notin Sightings
<1>1. \A s \in Sightings : s.win < window /\ s.win \in Nat
  BY DEF Ledger, WindowsInTurn, TypeOK, Sightings, Sighting
<1>2. window \in Nat
  BY DEF TypeOK
<1> QED
  BY <1>1, <1>2

LEMMA FreshUnreferred ==
  ASSUME TypeOK, ChainInv, Ledger, mode # "flushing", NEW reports
  PROVE  Unreferred([win |-> window, reports |-> reports])
BY FreshUnpublished, UnpublishedUnreferred DEF Sightings

\* The index gives references at most to one flight, and that has all of its aircraft.
Takes ==
  /\ \A hex \in Hexes : index'[hex] \subseteq index[hex]
  /\ \/ InHand' \subseteq InHand
     \/ \E f : /\ InHand' \subseteq InHand \cup {f} /\ f.transit.hex \in Hexes
               /\ f.refs = index[f.transit.hex] /\ index'[f.transit.hex] = {}

\* The loop over the departures takes the references of the departure it stops at.
LEMMA LoopTakes ==
  ASSUME TypeOK, NEW h \in Handlers, NEW known, NEW todo \in SUBSET Departure,
         LoopOn(h, todo, known)
  PROVE  Takes
<1>1. PICK outcome \in Outcomes(todo, known) :
        /\ handler' = [handler EXCEPT ![h] = outcome.state]
        /\ index' = [hex \in Hexes |->
             IF \E ac \in outcome.done : ac.transit.hex = hex THEN {} ELSE index[hex]]
  BY DEF LoopOn
<1>2. \A hex \in Hexes : index'[hex] \subseteq index[hex]
  BY <1>1
<1>3. /\ \A k \in Handlers : handler'[k] = IF k = h THEN outcome.state ELSE handler[k]
      /\ \A k \in Handlers : \A ac : k # h => FlightOf(k, ac)' = FlightOf(k, ac)
  BY <1>1 DEF TypeOK, FlightOf
<1> DEFINE silent == {ac \in todo : Silent(ac, known)}
<1>4. CASE outcome = [state |-> NoHandler, done |-> todo]
  <2>1. handler'[h].now = {}
    BY <1>3, <1>4 DEF NoHandler
  <2>2. InHand' \subseteq InHand
    BY <1>3, <2>1 DEF InHand
  <2> QED
    BY <1>2, <2>2 DEF Takes
<1>5. ASSUME NEW p \in (todo \ silent) \X SUBSET silent,
             outcome = [state |-> [stage |-> FirstCall(p[1], known), stored |-> FALSE,
                                   todo |-> (todo \ p[2]) \ {p[1]}, now |-> {p[1]},
                                   refs |-> index[p[1].transit.hex]],
                        done |-> p[2] \cup {p[1]}]
      PROVE  \E f : /\ InHand' \subseteq InHand \cup {f} /\ f.transit.hex \in Hexes
                    /\ f.refs = index[f.transit.hex] /\ index'[f.transit.hex] = {}
  <2> DEFINE f == [transit |-> p[1].transit, refs |-> index[p[1].transit.hex]]
  <2>1. p[1] \in todo /\ p[1].transit.hex \in Hexes /\ p[1] \in outcome.done
    BY <1>5 DEF Departure, Transit
  <2>2. handler'[h].now = {p[1]} /\ handler'[h].refs = index[p[1].transit.hex]
    BY <1>3, <1>5
  <2>3. FlightOf(h, p[1])' = f
    BY <2>2 DEF FlightOf
  <2>4. InHand' \subseteq InHand \cup {f}
    <3> SUFFICES ASSUME NEW k \in Handlers, NEW ac \in handler'[k].now
                 PROVE  FlightOf(k, ac)' \in InHand \cup {f}
      BY DEF InHand
    <3>1. CASE k = h
      BY <2>2, <2>3, <3>1
    <3>2. CASE k # h
      BY <1>3, <3>2 DEF InHand
    <3> QED
      BY <3>1, <3>2
  <2>5. index'[p[1].transit.hex] = {}
    BY <1>1, <2>1
  <2>6. f.transit.hex = p[1].transit.hex /\ f.refs = index[p[1].transit.hex]
    OBVIOUS
  <2> HIDE DEF f
  <2> QED
    BY <2>1, <2>4, <2>5, <2>6
<1> QED
  BY <1>2, <1>4, <1>5 DEF Outcomes, Takes

\* The same when the flight in hand goes on to be published.
LEMMA FlightOrOnTakes ==
  ASSUME TypeOK, NEW h \in Handlers, NEW ac, NEW known, FlightOrOn(h, ac, known)
  PROVE  Takes
<1>1. handler[h].todo \in SUBSET Departure
  BY DEF TypeOK, HandlerState
<1>2. CASE LoopOn(h, handler[h].todo, known)
  BY <1>1, <1>2, LoopTakes
<1>3. CASE /\ handler' = [handler EXCEPT ![h].stage = "flight", ![h].stored = FALSE]
           /\ UNCHANGED index
  <2>1. \A k \in Handlers : /\ handler'[k].now = handler[k].now
                           /\ handler'[k].refs = handler[k].refs
    BY <1>3 DEF TypeOK, HandlerState
  <2>2. InHand' = InHand
    BY <2>1 DEF InHand, FlightOf
  <2> QED
    BY <1>3, <2>2 DEF Takes
<1> QED
  BY <1>2, <1>3 DEF FlightOrOn

LEMMA HandlerTakes ==
  ASSUME TypeOK, NEW h \in Handlers, HandlerStep(h) \/ HandlerFailure(h)
  PROVE  Takes /\ Records' \subseteq Records \cup InHand
<1>0. handler[h].todo \in SUBSET Departure
  BY DEF TypeOK, HandlerState
<1>1. ASSUME NEW ac \in handler[h].now, Create(h, ac)
      PROVE  Takes /\ Records' \subseteq Records \cup InHand
  <2>1. FlightOf(h, ac) \in InHand
    BY DEF InHand
  <2>2. \A k \in Handlers : /\ handler'[k].now = handler[k].now
                            /\ handler'[k].refs = handler[k].refs
    BY <1>1 DEF Create, TypeOK, HandlerState
  <2>3. InHand' = InHand
    BY <2>2 DEF InHand, FlightOf
  <2>4. Records' \subseteq Records \cup {FlightOf(h, ac)}
    <3>1. queued' = queued
      BY <1>1 DEF Create
    <3>2. CASE handler[h].stage = "identity"
      BY <1>1, <3>1, <3>2 DEF Create, Records, TypeOK
    <3>3. CASE handler[h].stage # "identity"
      BY <1>1, <3>1, <3>3, StoreSteps DEF Create, Records
    <3> QED
      BY <3>2, <3>3
  <2> QED
    BY <1>1, <2>1, <2>3, <2>4 DEF Create, Takes
<1>2. ASSUME NEW ac \in handler[h].now, FlightFailed(h, ac)
      PROVE  Takes /\ Records' \subseteq Records \cup InHand
  <2>1. FlightOf(h, ac) \in InHand
    BY DEF InHand
  <2>2. Records' \subseteq Records \cup {FlightOf(h, ac)}
    BY <1>2 DEF FlightFailed, QueueFlight, Records, TypeOK
  <2>3. LoopOn(h, handler[h].todo, cache)
    BY <1>2 DEF FlightFailed
  <2> QED
    BY <1>0, <2>1, <2>2, <2>3, LoopTakes
<1>3. ASSUME NEW ac \in handler[h].now, IdentityDone(h, ac) \/ CategoryFailed(h, ac)
      PROVE  Takes /\ Records' \subseteq Records \cup InHand
  <2>1. Records' = Records
    BY <1>3 DEF IdentityDone, CategoryFailed, Records
  <2>2. FlightOrOn(h, ac, cache') \/ FlightOrOn(h, ac, cache)
    BY <1>3 DEF IdentityDone, CategoryFailed
  <2> QED
    BY <2>1, <2>2, FlightOrOnTakes
<1>4. CASE Signed(h) \/ FlightDone(h) \/ IdentityFailed(h)
  <2>1. Records' = Records
    BY <1>4 DEF Signed, FlightDone, IdentityFailed, Records
  <2>2. LoopOn(h, handler[h].todo, cache)
    BY <1>4 DEF Signed, FlightDone, IdentityFailed
  <2> QED
    BY <1>0, <2>1, <2>2, LoopTakes
<1>5. CASE SigningFailed(h)
  <2>1. Records' = Records /\ UNCHANGED index /\ handler' = [handler EXCEPT ![h] = NoHandler]
    BY <1>5 DEF SigningFailed, Records
  <2>2. /\ handler'[h].now = {}
        /\ \A k \in Handlers : k # h => handler'[k] = handler[k]
    BY <2>1 DEF NoHandler, TypeOK
  <2>3. InHand' \subseteq InHand
    BY <2>2 DEF InHand, FlightOf
  <2> QED
    BY <2>1, <2>3 DEF Takes
<1> QED
  BY <1>1, <1>2, <1>3, <1>4, <1>5 DEF HandlerStep, HandlerFailure

LEMMA FlightsPassed ==
  ASSUME Takes, Records' \subseteq Records \cup InHand
  PROVE  /\ \A hex \in Hexes : index'[hex] \subseteq index[hex]
         /\ \/ Flights' \subseteq Flights
            \/ \E f : /\ Flights' \subseteq Flights \cup {f} /\ f.transit.hex \in Hexes
                      /\ f.refs = index[f.transit.hex] /\ index'[f.transit.hex] = {}
<1>1. CASE InHand' \subseteq InHand
  BY <1>1 DEF Flights, Takes
<1>2. ASSUME NEW f, InHand' \subseteq InHand \cup {f}
      PROVE  Flights' \subseteq Flights \cup {f}
  BY <1>2 DEF Flights
<1> QED
  BY <1>1, <1>2 DEF Takes

LEMMA ReferencesHandler ==
  ASSUME TypeOK, References, NEW h \in Handlers, HandlerStep(h) \/ HandlerFailure(h)
  PROVE  References'
<1>1. UNCHANGED job
  BY HandlersAside
<1>2. Takes /\ Records' \subseteq Records \cup InHand
  BY HandlerTakes
<1> QED
  BY <1>1, <1>2, FlightsPassed, ReferencesTaken

\* Jobs keep the flights as they are.
LEMMA JobsAside ==
  ASSUME TypeOK, NEW j \in Jobs, JobStep(j) \/ JobFailure(j)
  PROVE  /\ UNCHANGED handler /\ Records' = Records
         /\ RetriedFlights' = RetriedFlights /\ twice'.flights = twice.flights
<1>1. CASE CreateSighting(j)
  BY <1>1, StoreSteps DEF CreateSighting, Records, RetriedFlights
<1>2. CASE SightingFailed(j)
  BY <1>2 DEF SightingFailed, QueueSighting, Records, RetriedFlights, TypeOK
<1>3. CASE RawDone(j) \/ Uploaded(j) \/ SightingDone(j) \/ UploadFailed(j)
  BY <1>3 DEF RawDone, Uploaded, SightingDone, UploadFailed, Records, RetriedFlights
<1> QED
  BY <1>1, <1>2, <1>3 DEF JobStep, JobFailure

\* A job publishes its sighting into the index, and goes on to one nobody knows.
LEMMA ReferencesJob ==
  ASSUME TypeOK, ChainInv, Ledger, References, NEW j \in Jobs, JobStep(j) \/ JobFailure(j)
  PROVE  References'
<1>1. \A next \in NextChunk(job[j].win, job[j].rest) :
        \/ next.chunk = {}
        \/ /\ Unreferred([win |-> next.win, reports |-> next.chunk])
           /\ next.win = job[j].win /\ next.chunk # job[j].chunk
  <2> TAKE next \in NextChunk(job[j].win, job[j].rest)
  <2>1. \/ next.chunk = {}
        \/ next.win = job[j].win /\ next.chunk \in job[j].rest
    BY ChunkTaken DEF NoJob
  <2> QED
    BY <2>1, NextUnreferred
<1>2. UNCHANGED handler /\ Records' = Records
  BY JobsAside
<1>3. \A next : job' = [job EXCEPT ![j] = next] =>
        \A k \in Jobs : job'[k] = IF k = j THEN next ELSE job[k]
  BY DEF TypeOK
<1>4. CASE ~SightingDone(j)
  <2>1. UNCHANGED index
    BY <1>4 DEF JobStep, JobFailure, RawDone, Uploaded, CreateSighting, UploadFailed,
       SightingFailed
  <2>2. \/ job'[j].chunk = {}
        \/ \E s : Unreferred(s) /\ s = [win |-> job'[j].win, reports |-> job'[j].chunk]
        \/ job'[j].chunk = job[j].chunk /\ job'[j].win = job[j].win
    <3>1. CASE \E next \in NextChunk(job[j].win, job[j].rest) :
                 job' = [job EXCEPT ![j] = next]
      BY <1>1, <1>3, <3>1
    <3>2. CASE Uploaded(j) \/ CreateSighting(j)
      BY <3>2 DEF Uploaded, CreateSighting, TypeOK, JobState
    <3>3. CASE GiveUp(j)
      BY <1>3, <3>3 DEF GiveUp, NoJob
    <3> QED
      BY <1>4, <3>1, <3>2, <3>3
         DEF JobStep, JobFailure, RawDone, UploadFailed, SightingFailed
  <2>3. \A k \in Jobs : k # j => job'[k] = job[k]
    <3>1. \E next : job' = [job EXCEPT ![j] = next]
      BY <1>4 DEF JobStep, JobFailure, RawDone, Uploaded, CreateSighting, UploadFailed,
         SightingFailed, GiveUp
    <3> QED
      BY <1>3, <3>1
  <2>4. \A k \in Jobs :
          \/ job'[k].chunk = {}
          \/ \E s : Unreferred(s) /\ s = [win |-> job'[k].win, reports |-> job'[k].chunk]
          \/ job'[k].chunk = job[k].chunk /\ job'[k].win = job[k].win
    <3> TAKE k \in Jobs
    <3>1. CASE k = j
      BY <2>2, <3>1
    <3>2. CASE k # j
      BY <2>3, <3>2
    <3> QED
      BY <3>1, <3>2
  <2> QED
    BY <1>2, <2>1, <2>4, ReferencesKept
<1>5. CASE SightingDone(j)
  <2>1. PICK next \in NextChunk(job[j].win, job[j].rest) : job' = [job EXCEPT ![j] = next]
    BY <1>5 DEF SightingDone
  <2>2. /\ job[j].stage = "create"
        /\ \A hex \in Hexes : index'[hex] \subseteq index[hex] \cup
              (IF hex \in Manifest(job[j].chunk) THEN {SightingOf(j)} ELSE {})
    BY <1>5 DEF SightingDone, TypeOK
  <2>3. InHand' = InHand /\ Flights' = Flights
    BY <1>2 DEF InHand, FlightOf, Flights
  <2>4. Manifest(job[j].chunk) # {} => Unreferred(SightingOf(j))
    BY DEF References, NotYetReferred, Manifest
  <2>5. RefsApart'
    <3>1. \A f \in Flights : f.transit.hex \in Hexes
      BY FlightsTyped
    <3>2. \A f \in Flights : f.refs \cap index'[f.transit.hex] = {}
      BY <2>2, <2>4, <3>1 DEF Unreferred, References, RefsApart, Flights
    <3> QED
      BY <1>2, <2>3, <3>2 DEF References, RefsApart, Flights
  <2>6. ASSUME NEW s, Unreferred(s), s # SightingOf(j)
        PROVE  /\ \A hex \in Hexes : s \notin index'[hex]
               /\ \A f \in Flights' : s \notin f.refs
    BY <2>2, <2>3, <2>6 DEF Unreferred
  <2>7. NotYetReferred'
    <3> SUFFICES ASSUME NEW k \in Jobs, job'[k].chunk # {}
                 PROVE  LET s == [win |-> job'[k].win, reports |-> job'[k].chunk]
                        IN  /\ \A hex \in Hexes : s \notin index'[hex]
                            /\ \A f \in Flights' : s \notin f.refs
      BY DEF NotYetReferred, SightingOf, Unreferred
    <3>1. CASE k = j
      <4>1. job'[k] = next
        BY <1>3, <2>1, <3>1
      <4> QED
        BY <1>1, <2>6, <3>1, <4>1 DEF SightingOf
    <3>2. CASE k # j
      <4>1. job'[k] = job[k]
        BY <1>3, <2>1, <3>2
      <4>2. job[k].stage # "idle"
        BY <4>1 DEF Ledger, JobsShaped, NoJob
      <4>3. SightingOf(k) # SightingOf(j)
        BY <2>2, <3>2, <4>2 DEF Ledger, WindowsInTurn, SightingOf
      <4>4. Unreferred(SightingOf(k))
        BY <4>1 DEF References, NotYetReferred
      <4> QED
        BY <2>6, <4>1, <4>3, <4>4 DEF SightingOf
    <3> QED
      BY <3>1, <3>2
  <2> QED
    BY <2>5, <2>7 DEF References
<1> QED
  BY <1>4, <1>5

LEMMA ReferencesNext ==
  TypeOK /\ SentStored /\ ChainInv /\ Ledger /\ References /\ [Next]_vars => References'
<1> SUFFICES ASSUME TypeOK, SentStored, ChainInv, Ledger, References, [Next]_vars
             PROVE  References'
  OBVIOUS
<1>1. CASE Receive
  <2>1. PICK seen \in SUBSET Hexes :
          \E fixes \in SUBSET seen, departed \in SUBSET (Hexes \ seen) :
            Message(seen, fixes, departed)
    BY <1>1 DEF Receive
  <2>2. PICK fixes \in SUBSET seen, departed \in SUBSET (Hexes \ seen) :
          Message(seen, fixes, departed)
    BY <2>1
  <2>3. UNCHANGED <<index, job, queued, pds>>
    BY <2>2 DEF Message
  <2>4. InHand' \subseteq InHand
    <3>1. CASE UNCHANGED handler
      BY <3>1 DEF InHand, FlightOf
    <3>2. ASSUME NEW h \in Handlers, NEW todo,
                 handler' = [handler EXCEPT ![h] =
                               [NoHandler EXCEPT !.stage = "signing", !.todo = todo]]
          PROVE  InHand' \subseteq InHand
      <4>1. /\ handler'[h].now = {}
            /\ \A k \in Handlers : k # h => handler'[k] = handler[k]
        BY <3>2 DEF NoHandler, TypeOK
      <4> QED
        BY <4>1 DEF InHand, FlightOf
    <3> QED
      BY <2>2, <3>1, <3>2 DEF Message
  <2>5. Flights' \subseteq Flights
    BY <2>3, <2>4 DEF Flights, Records
  <2> QED
    BY <2>3, <2>5, ReferencesTaken
<1>2. ASSUME NEW h \in Handlers, HandlerStep(h) \/ HandlerFailure(h)
      PROVE  References'
  BY <1>2, ReferencesHandler
<1>3. ASSUME UNCHANGED <<handler, index, job, queued, pds>>
      PROVE  References'
  BY <1>3, ReferencesKept DEF Records
<1>4. CASE (\E file \in Captures : RawCapture(file)) \/ Shutdown \/ UNCHANGED vars
  BY <1>3, <1>4 DEF RawCapture, Shutdown, vars
<1>5. ASSUME NEW j \in Flushers, Flush(j)
      PROVE  References'
  <2>1. /\ j \in Jobs /\ StartJob(j) /\ mode = "up"
        /\ UNCHANGED <<handler, index, queued, pds>>
    BY <1>5 DEF Flush, Jobs
  <2>2. CASE telemetry = {}
    BY <1>3, <2>1, <2>2 DEF StartJob
  <2>3. CASE telemetry # {}
    <3>1. PICK new : Fresh(new, window, telemetry) /\ job' = [job EXCEPT ![j] = new]
      BY <2>1, <2>3, JobStarts
    <3>2. \A k \in Jobs : job'[k] = IF k = j THEN new ELSE job[k]
      BY <3>1 DEF TypeOK
    <3>3. Unreferred([win |-> new.win, reports |-> new.chunk])
      BY <2>1, <3>1, FreshUnreferred DEF Fresh
    <3> QED
      BY <2>1, <3>2, <3>3, ReferencesKept DEF Records
  <2> QED
    BY <2>2, <2>3
<1>6. ASSUME NEW j \in Jobs, JobStep(j) \/ JobFailure(j)
      PROVE  References'
  BY <1>6, ReferencesJob
<1>7. CASE Drain
  <2>1. UNCHANGED <<handler, index, job>>
    BY <1>7 DEF Drain
  <2>2. Records' = Records
    BY <1>7, DrainSteps DEF DrainedTo, SentStored, Records
  <2> QED
    BY <2>1, <2>2, ReferencesKept
<1>8. CASE FinalFlush
  <2>1. /\ mode # "flushing" /\ "final" \in Jobs
        /\ UNCHANGED <<handler, index, queued, pds>>
    BY <1>8 DEF FinalFlush, Jobs
  <2>2. CASE telemetry = {}
    BY <1>3, <1>8, <2>1, <2>2 DEF FinalFlush
  <2>3. CASE telemetry # {}
    <3>1. PICK plan \in Plans(telemetry) :
            \E next \in NextChunk(window, plan) : job' = [job EXCEPT !["final"] = next]
      BY <1>8, <2>3 DEF FinalFlush
    <3>2. PICK next \in NextChunk(window, plan) : job' = [job EXCEPT !["final"] = next]
      BY <3>1
    <3>3. \A k \in Jobs : job'[k] = IF k = "final" THEN next ELSE job[k]
      BY <3>2 DEF TypeOK
    <3>4. window \in 1 .. MaxWindows
      BY <2>3 DEF TypeOK
    <3>5. Fresh(next, window, telemetry)
      BY <2>3, <3>4, FirstChunkFresh
    <3>6. Unreferred([win |-> next.win, reports |-> next.chunk])
      BY <2>1, <3>5, FreshUnreferred DEF Fresh
    <3> QED
      BY <2>1, <3>3, <3>6, ReferencesKept DEF Records
  <2> QED
    BY <2>2, <2>3
<1>9. CASE Exit \/ Crash
  <2>1. /\ \A h \in Handlers : handler'[h] = NoHandler
        /\ \A hex \in Hexes : index'[hex] = {}
        /\ \A j \in Jobs : job'[j] = NoJob
        /\ Records' = Records
    BY <1>9 DEF Exit, Crash, Restart, Records
  <2>2. InHand' = {}
    BY <2>1 DEF InHand, NoHandler
  <2>3. RefsApart'
    BY <2>1, <2>2, FlightsTyped DEF References, RefsApart, Flights
  <2>4. NotYetReferred'
    BY <2>1 DEF NotYetReferred, NoJob
  <2> QED
    BY <2>3, <2>4 DEF References
<1> QED
  BY <1>1, <1>2, <1>4, <1>5, <1>6, <1>7, <1>8, <1>9 DEF Next

-----------------------------------------------------------------------------
(* Copies.  A record is created by one job or one handler, and no other;   *)
(* if that call failed it is in the queue, and nobody refers to it or has  *)
(* it in hand.                                                             *)

\* Two handlers have no reference of an aircraft in common.
HandsApart ==
  \A h, g \in Handlers : \A a \in handler[h].now, b \in handler[g].now :
    (h # g /\ a.transit.hex = b.transit.hex) => handler[h].refs \cap handler[g].refs = {}

\* The flight a handler has yet to create is nowhere.
Awaited(h) ==
  \A ac \in handler[h].now :
    /\ handler[h].stage = "flight" =>
         handler[h].refs # {} /\ FlightOf(h, ac) \notin RetriedFlights
    /\ ~(handler[h].stage = "flight" /\ handler[h].stored) => FlightOf(h, ac) \notin Records

FlightsOnce ==
  /\ twice.flights \subseteq RetriedFlights
  /\ \A f \in Records : f.refs # {}
  /\ \A h \in Handlers : Awaited(h)

\* The sighting a job has yet to create is nowhere.
Publishing(r) == r.stage \in {"upload", "create"}
Record(r) == [win |-> r.win, reports |-> r.chunk]
Unwritten(j) ==
  Publishing(job[j]) =>
    /\ job[j].chunk # {}
    /\ Record(job[j]) \notin RetriedSightings
    /\ ~job[j].stored => Record(job[j]) \notin pds.sightings

SightingsOnce ==
  /\ twice.sightings \subseteq RetriedSightings
  /\ \A s \in RetriedSightings : Unreferred(s)
  /\ \A j \in Jobs : Unwritten(j)

Copies == HandsApart /\ FlightsOnce /\ SightingsOnce

LEMMA CopiesInit == Init => Copies
<1> SUFFICES ASSUME Init PROVE Copies
  OBVIOUS
<1>1. /\ \A h \in Handlers : handler[h].now = {}
      /\ \A j \in Jobs : job[j].stage = "idle"
      /\ RetriedFlights = {} /\ RetriedSightings = {} /\ Records = {}
      /\ twice.flights = {} /\ twice.sightings = {}
  BY DEF Init, NoHandler, NoJob, RetriedFlights, RetriedSightings, Records
<1>2. HandsApart /\ FlightsOnce
  BY <1>1 DEF HandsApart, FlightsOnce, Awaited
<1>3. SightingsOnce
  BY <1>1 DEF SightingsOnce, Unwritten, Publishing
<1> QED
  BY <1>2, <1>3 DEF Copies

\* Retried records are at the PDS or in the queue.
LEMMA RetriedAreRecords ==
  ASSUME SentStored
  PROVE  RetriedSightings \subseteq Sightings /\ RetriedFlights \subseteq Records
BY DEF SentStored, RetriedSightings, RetriedFlights, Sightings, Records

\* A step that leaves the flights alone.
LEMMA FlightsAlone ==
  ASSUME HandsApart, FlightsOnce, UNCHANGED handler, Records' = Records,
         RetriedFlights' = RetriedFlights, twice'.flights \subseteq RetriedFlights
  PROVE  HandsApart' /\ FlightsOnce'
<1>1. HandsApart'
  BY DEF HandsApart
<1>2. \A h \in Handlers : Awaited(h)'
  BY DEF FlightsOnce, Awaited, FlightOf
<1> QED
  BY <1>1, <1>2 DEF FlightsOnce

\* A step that retries no other sighting, and takes up none but unwritten ones.
LEMMA SightingsAlone ==
  ASSUME SightingsOnce, SentStored, RetriedSightings' = RetriedSightings,
         twice'.sightings \subseteq RetriedSightings,
         pds'.sightings \subseteq pds.sightings \cup RetriedSightings,
         \A s : Unreferred(s) => Unreferred(s)',
         \A j \in Jobs :
           \/ ~Publishing(job'[j])
           \/ job'[j].chunk # {} /\ Record(job'[j]) \notin Sightings
           \/ /\ Publishing(job[j]) /\ Record(job'[j]) = Record(job[j])
              /\ job'[j].chunk = job[j].chunk /\ job'[j].stored = job[j].stored
  PROVE  SightingsOnce'
<1>1. \A s \in RetriedSightings' : Unreferred(s)'
  BY DEF SightingsOnce
<1>2. ASSUME NEW j \in Jobs, Publishing(job'[j])
      PROVE  /\ job'[j].chunk # {}
             /\ Record(job'[j]) \notin RetriedSightings'
             /\ ~job'[j].stored => Record(job'[j]) \notin pds'.sightings
  <2>1. CASE job'[j].chunk # {} /\ Record(job'[j]) \notin Sightings
    BY <2>1, RetriedAreRecords DEF Sightings
  <2>2. CASE /\ Publishing(job[j]) /\ Record(job'[j]) = Record(job[j])
             /\ job'[j].chunk = job[j].chunk /\ job'[j].stored = job[j].stored
    BY <2>2 DEF SightingsOnce, Unwritten
  <2> QED
    BY <1>2, <2>1, <2>2
<1>3. \A j \in Jobs : Unwritten(j)'
  BY <1>2 DEF Unwritten
<1> QED
  BY <1>1, <1>3 DEF SightingsOnce

-----------------------------------------------------------------------------
(* Copies, handlers.                                                       *)

\* Where the loop over departures stops: with nothing in hand, or with a departure that
\* has the references of the index.
Stopped(st, todo) ==
  \/ st.now = {}
  \/ \E p \in todo : /\ st.now = {p} /\ st.refs = index[p.transit.hex] /\ ~st.stored
                     /\ st.stage = "flight" => st.refs # {}

LEMMA LoopStops ==
  ASSUME NEW h \in Handlers, NEW known, NEW todo, LoopOn(h, todo, known)
  PROVE  \E st : handler' = [handler EXCEPT ![h] = st] /\ Stopped(st, todo)
<1>1. PICK outcome \in Outcomes(todo, known) : handler' = [handler EXCEPT ![h] = outcome.state]
  BY DEF LoopOn
<1> DEFINE silent == {ac \in todo : Silent(ac, known)}
<1>2. CASE outcome = [state |-> NoHandler, done |-> todo]
  <2>1. outcome.state.now = {}
    BY <1>2 DEF NoHandler
  <2> QED
    BY <1>1, <2>1 DEF Stopped
<1>3. ASSUME NEW p \in (todo \ silent) \X SUBSET silent,
             outcome = [state |-> [stage |-> FirstCall(p[1], known), stored |-> FALSE,
                                   todo |-> (todo \ p[2]) \ {p[1]}, now |-> {p[1]},
                                   refs |-> index[p[1].transit.hex]],
                        done |-> p[2] \cup {p[1]}]
      PROVE  Stopped(outcome.state, todo)
  <2>1. /\ p[1] \in todo /\ outcome.state.now = {p[1]} /\ ~outcome.state.stored
        /\ outcome.state.refs = index[p[1].transit.hex]
        /\ outcome.state.stage = FirstCall(p[1], known)
    BY <1>3
  <2>2. ~Silent(p[1], known)
    BY <2>1
  <2>3. FirstCall(p[1], known) = "flight" => index[p[1].transit.hex] # {}
    BY <2>2 DEF FirstCall, Silent
  <2> QED
    BY <2>1, <2>3 DEF Stopped
<1> QED
  BY <1>1, <1>2, <1>3 DEF Outcomes

\* A step adds flights of handlers to the queue, and the PDS gets none.
Gaining(extra) == /\ Records' = Records \cup extra
                  /\ RetriedFlights' = RetriedFlights \cup extra
                  /\ twice'.flights = twice.flights

LEMMA StoreGainsNothing == UNCHANGED store => Gaining({})
BY DEF Gaining, Records, RetriedFlights

LEMMA HandFlights ==
  \A g \in Handlers : \A b \in handler[g].now :
    /\ FlightOf(g, b) \in Flights
    /\ FlightOf(g, b).transit = b.transit /\ FlightOf(g, b).refs = handler[g].refs
<1>1. \A g \in Handlers : \A b \in handler[g].now : FlightOf(g, b) \in Flights
  BY DEF Flights, InHand
<1>2. \A g, b : FlightOf(g, b).transit = b.transit /\ FlightOf(g, b).refs = handler[g].refs
  BY DEF FlightOf
<1> QED
  BY <1>1, <1>2

\* The loop goes on, after the flight in hand may have gone to the queue.
LEMMA LoopCopies ==
  ASSUME TypeOK, SentStored, ChainInv, References, HandsApart, FlightsOnce,
         NEW h \in Handlers, NEW todo \in SUBSET Departure, NEW known,
         LoopOn(h, todo, known),
         NEW extra \in SUBSET {FlightOf(h, ac) : ac \in handler[h].now},
         extra # {} => handler[h].stage = "flight", Gaining(extra)
  PROVE  HandsApart' /\ FlightsOnce'
<1>1. PICK st : handler' = [handler EXCEPT ![h] = st] /\ Stopped(st, todo)
  BY LoopStops
<1>2. \A g \in Handlers : handler'[g] = IF g = h THEN st ELSE handler[g]
  BY <1>1 DEF TypeOK
<1>3. \A f \in extra : f \in Flights /\ f.refs # {}
  BY HandFlights DEF FlightsOnce, Awaited
<1>4. \A f \in Records' : f \in Flights /\ f.refs # {}
  BY <1>3 DEF FlightsOnce, Flights, Gaining
<1>5. \A p \in todo : \A f \in Flights :
        f.transit.hex = p.transit.hex => f.refs \cap index[p.transit.hex] = {}
  BY DEF References, RefsApart
<1>6. \A g \in Handlers : \A b \in handler[g].now :
        /\ FlightOf(g, b) \in Flights
        /\ FlightOf(g, b).transit = b.transit /\ FlightOf(g, b).refs = handler[g].refs
  BY HandFlights
<1>7. RetriedFlights' \subseteq Records'
  BY RetriedAreRecords DEF Gaining
<1>8. HandsApart'
  <2> SUFFICES ASSUME NEW g \in Handlers, NEW k \in Handlers, g # k,
                      NEW a \in handler'[g].now, NEW b \in handler'[k].now,
                      a.transit.hex = b.transit.hex
               PROVE  handler'[g].refs \cap handler'[k].refs = {}
    BY DEF HandsApart
  <2>1. CASE g # h /\ k # h
    BY <1>2, <2>1 DEF HandsApart
  <2>2. CASE g = h
    BY <1>1, <1>2, <1>5, <1>6, <2>2 DEF Stopped
  <2>3. CASE k = h
    BY <1>1, <1>2, <1>5, <1>6, <2>3 DEF Stopped
  <2> QED
    BY <2>1, <2>2, <2>3
<1>9. ASSUME NEW g \in Handlers PROVE Awaited(g)'
  <2>1. CASE g # h
    <3>1. \A ac \in handler[g].now :
            /\ FlightOf(g, ac)' = FlightOf(g, ac)
            /\ FlightOf(g, ac) \notin extra
      <4> TAKE ac \in handler[g].now
      <4>1. FlightOf(g, ac)' = FlightOf(g, ac)
        BY <1>2, <2>1 DEF FlightOf
      <4>2. ASSUME NEW b \in handler[h].now, FlightOf(g, ac) = FlightOf(h, b),
                   FlightOf(h, b) \in extra
            PROVE  FALSE
        <5>1. ac.transit = b.transit /\ handler[g].refs = handler[h].refs
          BY <1>6, <4>2
        <5>2. handler[h].refs # {}
          BY <1>3, <1>6, <4>2
        <5> QED
          BY <2>1, <5>1, <5>2 DEF HandsApart
      <4> QED
        BY <4>1, <4>2
    <3>2. Awaited(g)
      BY DEF FlightsOnce
    <3> QED
      BY <1>2, <2>1, <3>1, <3>2 DEF Awaited, Gaining
  <2>2. CASE g = h
    <3> SUFFICES ASSUME NEW ac \in st.now
                 PROVE  /\ st.stage = "flight" => st.refs # {}
                        /\ FlightOf(h, ac)' \notin Records'
      BY <1>2, <1>7, <2>2 DEF Awaited
    <3>1. /\ ac \in todo /\ st.refs = index[ac.transit.hex]
          /\ st.stage = "flight" => st.refs # {}
      BY <1>1 DEF Stopped
    <3>2. FlightOf(h, ac)'.transit = ac.transit /\ FlightOf(h, ac)'.refs = st.refs
      BY <1>2 DEF FlightOf
    <3>3. FlightOf(h, ac)' \notin Records'
      BY <1>4, <1>5, <3>1, <3>2
    <3> QED
      BY <3>1, <3>3
  <2> QED
    BY <2>1, <2>2
<1>10. twice'.flights \subseteq RetriedFlights'
  BY DEF FlightsOnce, Gaining
<1> QED
  BY <1>4, <1>8, <1>9, <1>10 DEF FlightsOnce

\* The flight in hand is about to be published, or the loop goes on.
LEMMA FlightOrOnCopies ==
  ASSUME TypeOK, SentStored, ChainInv, References, HandsApart, FlightsOnce,
         NEW h \in Handlers, NEW ac, NEW known, FlightOrOn(h, ac, known),
         handler[h].stage # "flight", Gaining({})
  PROVE  HandsApart' /\ FlightsOnce'
<1>1. handler[h].todo \in SUBSET Departure
  BY DEF TypeOK, HandlerState
<1>2. CASE LoopOn(h, handler[h].todo, known)
  <2>1. {} \in SUBSET {FlightOf(h, a) : a \in handler[h].now}
    OBVIOUS
  <2> QED
    BY <1>1, <1>2, <2>1, LoopCopies
<1>3. CASE /\ handler[h].refs # {}
           /\ handler' = [handler EXCEPT ![h].stage = "flight", ![h].stored = FALSE]
  <2>0. /\ Records' = Records /\ RetriedFlights' = RetriedFlights
        /\ twice'.flights = twice.flights
    BY DEF Gaining
  <2>1. \A g \in Handlers : /\ handler'[g].now = handler[g].now
                            /\ handler'[g].refs = handler[g].refs
                            /\ g # h => handler'[g] = handler[g]
    BY <1>3 DEF TypeOK, HandlerState
  <2>2. HandsApart'
    BY <2>1 DEF HandsApart
  <2>3. \A g \in Handlers : \A a : FlightOf(g, a)' = FlightOf(g, a)
    BY <2>1 DEF FlightOf
  <2>4. \A g \in Handlers : Awaited(g)'
    <3> TAKE g \in Handlers
    <3>1. Awaited(g)
      BY DEF FlightsOnce
    <3>2. CASE g # h
      BY <2>0, <2>1, <2>3, <3>1, <3>2 DEF Awaited
    <3>3. CASE g = h
      <4>1. \A a \in handler[h].now : FlightOf(h, a) \notin Records
        BY <3>1, <3>3 DEF Awaited
      <4>2. \A a \in handler[h].now : FlightOf(h, a) \notin RetriedFlights
        BY <4>1, RetriedAreRecords
      <4> QED
        <5>1. \A a \in handler'[h].now :
                FlightOf(h, a)' \notin Records' /\ FlightOf(h, a)' \notin RetriedFlights'
          BY <2>0, <2>1, <2>3, <4>1, <4>2
        <5>2. handler'[h].refs # {}
          BY <1>3, <2>1
        <5> QED
          BY <3>3, <5>1, <5>2 DEF Awaited
    <3> QED
      BY <3>2, <3>3
  <2> QED
    BY <2>0, <2>2, <2>4 DEF FlightsOnce
<1> QED
  BY <1>2, <1>3 DEF FlightOrOn

\* The PDS creates the flight a handler asked for: it had none like it.
LEMMA CreateCopies ==
  ASSUME TypeOK, SentStored, ChainInv, HandsApart, FlightsOnce,
         NEW h \in Handlers, NEW ac \in handler[h].now, Create(h, ac)
  PROVE  HandsApart' /\ FlightsOnce'
<1>1. /\ handler' = [handler EXCEPT ![h].stored = TRUE]
      /\ UNCHANGED <<queued, sent>> /\ ~handler[h].stored
  BY DEF Create
<1>2. \A g \in Handlers : /\ handler'[g].now = handler[g].now
                          /\ handler'[g].refs = handler[g].refs
                          /\ handler'[g].stage = handler[g].stage
                          /\ handler'[g].stored = (g = h \/ handler[g].stored)
  BY <1>1 DEF TypeOK, HandlerState
<1>3. HandsApart'
  BY <1>2 DEF HandsApart
<1>4. \A g \in Handlers : \A a : FlightOf(g, a)' = FlightOf(g, a)
  BY <1>2 DEF FlightOf
<1>5. RetriedFlights' = RetriedFlights
  BY <1>1 DEF RetriedFlights
<1>6. CASE handler[h].stage = "identity"
  <2>1. Records' = Records /\ twice' = twice
    BY <1>1, <1>6 DEF Create, Records, TypeOK
  <2>2. ASSUME NEW g \in Handlers PROVE Awaited(g)'
    <3>1. Awaited(g)
      BY DEF FlightsOnce
    <3>2. CASE g = h
      BY <1>2, <1>4, <1>5, <1>6, <2>1, <3>1, <3>2 DEF Awaited
    <3>3. CASE g # h
      BY <1>2, <1>4, <1>5, <2>1, <3>1, <3>3 DEF Awaited
    <3> QED
      BY <3>2, <3>3
  <2> QED
    BY <1>3, <1>5, <2>1, <2>2 DEF FlightsOnce
<1>7. CASE handler[h].stage # "identity"
  <2> DEFINE f == FlightOf(h, ac)
  <2>1. handler[h].stage = "flight" /\ StoreFlight(f)
    BY <1>7 DEF Create
  <2>2. f \notin Records /\ f.refs # {} /\ f.refs = handler[h].refs
    BY <1>1, <2>1 DEF FlightsOnce, Awaited, FlightOf
  <2>3. Records' = Records \cup {f} /\ twice'.flights = twice.flights
    <3>1. /\ pds'.flights = pds.flights \cup {f}
          /\ twice'.flights = twice.flights \cup (pds.flights \cap {f})
      BY <2>1, StoreSteps
    <3>2. pds.flights \cap {f} = {}
      BY <2>2 DEF Records
    <3> QED
      BY <1>1, <3>1, <3>2 DEF Records
  <2>4. ASSUME NEW g \in Handlers PROVE Awaited(g)'
    <3>1. Awaited(g)
      BY DEF FlightsOnce
    <3>2. CASE g = h
      BY <1>2, <1>4, <1>5, <2>1, <3>1, <3>2 DEF Awaited
    <3>3. CASE g # h
      <4>1. \A b \in handler[g].now : FlightOf(g, b) # f
        <5> SUFFICES ASSUME NEW b \in handler[g].now, FlightOf(g, b) = f PROVE FALSE
          OBVIOUS
        <5>1. b.transit = ac.transit /\ handler[g].refs = handler[h].refs
          BY DEF FlightOf
        <5> QED
          BY <2>2, <3>3, <5>1 DEF HandsApart
      <4> HIDE DEF f
      <4> QED
        <5>1. handler'[g] = handler[g]
          BY <1>1, <3>3 DEF TypeOK
        <5> QED
          BY <1>4, <1>5, <2>3, <3>1, <4>1, <5>1 DEF Awaited
    <3> QED
      BY <3>2, <3>3
  <2> HIDE DEF f
  <2> QED
    BY <1>3, <1>5, <2>2, <2>3, <2>4 DEF FlightsOnce
<1> QED
  BY <1>6, <1>7

\* Handlers keep the sightings at the PDS and in the queue as they are.
LEMMA HandlersKeepSightings ==
  ASSUME TypeOK, NEW h \in Handlers, HandlerStep(h) \/ HandlerFailure(h)
  PROVE  /\ RetriedSightings' = RetriedSightings /\ twice'.sightings = twice.sightings
         /\ pds'.sightings = pds.sightings
<1>1. ASSUME NEW ac \in handler[h].now, Create(h, ac)
      PROVE  /\ RetriedSightings' = RetriedSightings /\ twice'.sightings = twice.sightings
             /\ pds'.sightings = pds.sightings
  <2>1. UNCHANGED <<queued, sent>>
    BY <1>1 DEF Create
  <2>2. CASE handler[h].stage = "identity"
    BY <1>1, <2>1, <2>2 DEF Create, RetriedSightings, TypeOK
  <2>3. CASE handler[h].stage # "identity"
    BY <1>1, <2>1, <2>3, StoreSteps DEF Create, RetriedSightings
  <2> QED
    BY <2>2, <2>3
<1>2. ASSUME NEW ac \in handler[h].now, FlightFailed(h, ac)
      PROVE  /\ RetriedSightings' = RetriedSightings /\ twice'.sightings = twice.sightings
             /\ pds'.sightings = pds.sightings
  BY <1>2 DEF FlightFailed, QueueFlight, RetriedSightings, TypeOK
<1>3. CASE UNCHANGED store
  BY <1>3 DEF RetriedSightings
<1>4. ASSUME NEW ac \in handler[h].now, IdentityDone(h, ac) \/ CategoryFailed(h, ac)
      PROVE  UNCHANGED store
  BY <1>4 DEF IdentityDone, CategoryFailed
<1>5. CASE Signed(h) \/ FlightDone(h) \/ IdentityFailed(h) \/ SigningFailed(h)
  BY <1>3, <1>5 DEF Signed, FlightDone, IdentityFailed, SigningFailed
<1> QED
  BY <1>1, <1>2, <1>3, <1>4, <1>5 DEF HandlerStep, HandlerFailure

LEMMA FlightsHandler ==
  ASSUME TypeOK, SentStored, ChainInv, References, HandsApart, FlightsOnce,
         NEW h \in Handlers, HandlerStep(h) \/ HandlerFailure(h)
  PROVE  HandsApart' /\ FlightsOnce'
<1>1. /\ handler[h].todo \in SUBSET Departure
      /\ {} \in SUBSET {FlightOf(h, a) : a \in handler[h].now}
  BY DEF TypeOK, HandlerState
<1>2. CASE Signed(h) \/ FlightDone(h) \/ IdentityFailed(h)
  <2>1. LoopOn(h, handler[h].todo, cache) /\ UNCHANGED store
    BY <1>2 DEF Signed, FlightDone, IdentityFailed
  <2> QED
    BY <1>1, <2>1, StoreGainsNothing, LoopCopies
<1>3. ASSUME NEW ac \in handler[h].now, IdentityDone(h, ac) \/ CategoryFailed(h, ac)
      PROVE  HandsApart' /\ FlightsOnce'
  <2>1. /\ FlightOrOn(h, ac, cache') \/ FlightOrOn(h, ac, cache)
        /\ UNCHANGED store /\ handler[h].stage # "flight"
    BY <1>3 DEF IdentityDone, CategoryFailed
  <2> QED
    BY <2>1, StoreGainsNothing, FlightOrOnCopies
<1>4. ASSUME NEW ac \in handler[h].now, FlightFailed(h, ac)
      PROVE  HandsApart' /\ FlightsOnce'
  <2>1. /\ LoopOn(h, handler[h].todo, cache) /\ handler[h].stage = "flight"
        /\ queued' = QueueFlight(h, ac) /\ UNCHANGED <<sent, pds, twice>>
    BY <1>4 DEF FlightFailed
  <2>2. Gaining({FlightOf(h, ac)})
    BY <2>1 DEF Gaining, QueueFlight, Records, RetriedFlights, TypeOK
  <2>3. {FlightOf(h, ac)} \in SUBSET {FlightOf(h, a) : a \in handler[h].now}
    OBVIOUS
  <2> QED
    BY <1>1, <2>1, <2>2, <2>3, LoopCopies
<1>5. CASE SigningFailed(h)
  <2>1. /\ handler' = [handler EXCEPT ![h] = NoHandler] /\ UNCHANGED store
    BY <1>5 DEF SigningFailed
  <2>2. \A g \in Handlers : handler'[g] = IF g = h THEN NoHandler ELSE handler[g]
    BY <2>1 DEF TypeOK
  <2>3. NoHandler.now = {}
    BY DEF NoHandler
  <2>4. HandsApart'
    BY <2>2, <2>3 DEF HandsApart
  <2>5. RetriedFlights' = RetriedFlights /\ Records' = Records
    BY <2>1 DEF RetriedFlights, Records
  <2>6. ASSUME NEW g \in Handlers PROVE Awaited(g)'
    <3>1. Awaited(g)
      BY DEF FlightsOnce
    <3>2. CASE g = h
      BY <2>2, <2>3, <3>2 DEF Awaited
    <3>3. CASE g # h
      <4>1. handler'[g] = handler[g] /\ \A a : FlightOf(g, a)' = FlightOf(g, a)
        BY <2>2, <3>3 DEF FlightOf
      <4> QED
        BY <2>5, <3>1, <4>1 DEF Awaited
    <3> QED
      BY <3>2, <3>3
  <2> QED
    BY <2>1, <2>4, <2>5, <2>6 DEF FlightsOnce
<1> QED
  BY <1>2, <1>3, <1>4, <1>5, CreateCopies DEF HandlerStep, HandlerFailure

LEMMA CopiesHandler ==
  ASSUME TypeOK, SentStored, ChainInv, References, Copies,
         NEW h \in Handlers, HandlerStep(h) \/ HandlerFailure(h)
  PROVE  Copies'
<1>1. HandsApart' /\ FlightsOnce'
  BY FlightsHandler DEF Copies
<1>2. UNCHANGED job
  BY HandlersAside
<1>3. \A s : Unreferred(s) => Unreferred(s)'
  BY HandlerTakes, FlightsPassed, UnreferredKept
<1>4. SightingsOnce'
  <2>1. /\ RetriedSightings' = RetriedSightings /\ twice'.sightings = twice.sightings
        /\ pds'.sightings = pds.sightings
    BY HandlersKeepSightings
  <2>2. \A j \in Jobs :
          \/ ~Publishing(job'[j])
          \/ /\ Publishing(job[j]) /\ Record(job'[j]) = Record(job[j])
             /\ job'[j].chunk = job[j].chunk /\ job'[j].stored = job[j].stored
    BY <1>2
  <2>3. SightingsOnce /\ twice.sightings \subseteq RetriedSightings
    BY DEF Copies, SightingsOnce
  <2> QED
    BY <1>3, <2>1, <2>2, <2>3, SightingsAlone
<1> QED
  BY <1>1, <1>4 DEF Copies

-----------------------------------------------------------------------------
(* Copies, jobs.                                                           *)

\* What a job goes on to is unwritten.
LEMMA NextUnwritten ==
  ASSUME TypeOK, Ledger, NEW j \in Jobs, NEW next \in NextChunk(job[j].win, job[j].rest)
  PROVE  \/ ~Publishing(next)
         \/ /\ next.chunk # {} /\ Record(next) \notin Sightings
            /\ next.win = job[j].win /\ next.chunk # job[j].chunk
<1>1. CASE next = NoJob
  BY <1>1 DEF NoJob, Publishing
<1>2. CASE next.win = job[j].win /\ next.chunk \in job[j].rest
  BY <1>2, NextUnpublished DEF Record
<1> QED
  BY <1>1, <1>2, ChunkTaken

LEMMA JobUpdated ==
  ASSUME TypeOK, NEW j \in Jobs, NEW next, job' = [job EXCEPT ![j] = next]
  PROVE  \A k \in Jobs : job'[k] = IF k = j THEN next ELSE job[k]
BY DEF TypeOK

\* Jobs of different slots publish different records.
LEMMA RecordsDiffer ==
  ASSUME Ledger, NEW j \in Jobs, NEW k \in Jobs, j # k,
         Publishing(job[j]), Publishing(job[k])
  PROVE  Record(job[j]) # Record(job[k])
BY DEF Ledger, WindowsInTurn, Publishing, Record

\* The PDS creates the sighting of a job: it had none like it.
LEMMA CreateSightingCopies ==
  ASSUME TypeOK, Ledger, SightingsOnce, NEW j \in Jobs, CreateSighting(j),
         \A s : Unreferred(s) => Unreferred(s)'
  PROVE  SightingsOnce'
<1> DEFINE s == Record(job[j])
<1>1. /\ job[j].stage = "create" /\ ~job[j].stored /\ StoreSighting(s)
      /\ job' = [job EXCEPT ![j].stored = TRUE] /\ UNCHANGED <<queued, sent>>
  BY DEF CreateSighting, SightingOf, Record
<1>2. Publishing(job[j]) /\ Unwritten(j)
  BY <1>1 DEF Publishing, SightingsOnce
<1>3. s \notin RetriedSightings /\ s \notin pds.sightings /\ job[j].chunk # {}
  BY <1>1, <1>2 DEF Unwritten
<1>4. RetriedSightings' = RetriedSightings
  BY <1>1 DEF RetriedSightings
<1>5. pds'.sightings = pds.sightings \cup {s} /\ twice'.sightings = twice.sightings
  <2>1. /\ pds'.sightings = pds.sightings \cup {s}
        /\ twice'.sightings = twice.sightings \cup (pds.sightings \cap {s})
    BY <1>1, StoreSteps
  <2> HIDE DEF s
  <2> QED
    BY <1>3, <2>1
<1>6. \A k \in Jobs : /\ job'[k].stage = job[k].stage /\ job'[k].chunk = job[k].chunk
                      /\ job'[k].win = job[k].win
                      /\ job'[k].stored = (k = j \/ job[k].stored)
  BY <1>1 DEF TypeOK, JobState
<1>7. \A k \in Jobs : Record(job'[k]) = Record(job[k]) /\ Publishing(job'[k]) = Publishing(job[k])
  BY <1>6 DEF Record, Publishing
<1>8. ASSUME NEW k \in Jobs PROVE Unwritten(k)'
  <2>1. Unwritten(k)
    BY DEF SightingsOnce
  <2>2. CASE k = j
    BY <1>3, <1>4, <1>6, <1>7, <2>2 DEF Unwritten
  <2>3. CASE k # j
    <3>1. Publishing(job[k]) => Record(job[k]) # s
      BY <1>2, <2>3, RecordsDiffer
    <3> HIDE DEF s
    <3> QED
      BY <1>4, <1>5, <1>6, <1>7, <2>1, <2>3, <3>1 DEF Unwritten
  <2> QED
    BY <2>2, <2>3
<1> HIDE DEF s
<1> QED
  BY <1>4, <1>5, <1>8 DEF SightingsOnce

\* Its answer arrives: only then is it referred to.
LEMMA SightingDoneCopies ==
  ASSUME TypeOK, SentStored, Ledger, SightingsOnce, NEW j \in Jobs, SightingDone(j)
  PROVE  SightingsOnce'
<1> DEFINE s == Record(job[j])
<1>1. /\ job[j].stage = "create" /\ UNCHANGED <<handler, store>>
      /\ \A hex \in Hexes : index'[hex] \subseteq index[hex] \cup {s}
  BY DEF SightingDone, SightingOf, Record, TypeOK
<1>2. PICK next \in NextChunk(job[j].win, job[j].rest) : job' = [job EXCEPT ![j] = next]
  BY DEF SightingDone
<1>3. Publishing(job[j]) /\ Unwritten(j)
  BY <1>1 DEF Publishing, SightingsOnce
<1>4. s \notin RetriedSightings
  BY <1>3 DEF Unwritten
<1>5. RetriedSightings' = RetriedSightings /\ Flights' = Flights
  BY <1>1 DEF RetriedSightings, Flights, InHand, Records, FlightOf
<1>6. \A t \in RetriedSightings' : Unreferred(t)'
  <2> HIDE DEF s
  <2> QED
    BY <1>1, <1>4, <1>5 DEF SightingsOnce, Unreferred
<1>7. ASSUME NEW k \in Jobs PROVE Unwritten(k)'
  <2>1. Unwritten(k) /\ job'[k] = IF k = j THEN next ELSE job[k]
    BY <1>2, JobUpdated DEF SightingsOnce
  <2>2. CASE k = j
    <3>1. \/ ~Publishing(next)
          \/ next.chunk # {} /\ Record(next) \notin Sightings
      BY NextUnwritten
    <3>2. Record(next) \notin Sightings =>
            Record(next) \notin RetriedSightings /\ Record(next) \notin pds.sightings
      BY RetriedAreRecords DEF Sightings
    <3> QED
      BY <1>1, <1>5, <2>1, <2>2, <3>1, <3>2 DEF Unwritten
  <2>3. CASE k # j
    BY <1>1, <1>5, <2>1, <2>3 DEF Unwritten
  <2> QED
    BY <2>2, <2>3
<1> HIDE DEF s
<1> QED
  BY <1>1, <1>5, <1>6, <1>7 DEF SightingsOnce

\* The call failed: the queue takes a record nobody refers to.
LEMMA SightingQueuedCopies ==
  ASSUME TypeOK, SentStored, Ledger, References, SightingsOnce,
         NEW j \in Jobs, SightingFailed(j), j # "final"
  PROVE  SightingsOnce'
<1> DEFINE s == Record(job[j])
<1>1. /\ job[j].stage = "create" /\ UNCHANGED <<handler, index, sent, pds, twice>>
      /\ queued' = [queued EXCEPT !.sightings = queued.sightings \cup {s}]
  BY DEF SightingFailed, QueueSighting, SightingOf, Record
<1>2. PICK next \in NextChunk(job[j].win, job[j].rest) : job' = [job EXCEPT ![j] = next]
  BY DEF SightingFailed
<1>3. Publishing(job[j]) /\ Unwritten(j)
  BY <1>1 DEF Publishing, SightingsOnce
<1>4. Unreferred(s)
  <2>1. job[j].chunk # {}
    BY <1>3 DEF Unwritten
  <2> QED
    BY <2>1 DEF References, NotYetReferred, SightingOf, Record
<1>5. RetriedSightings' = RetriedSightings \cup {s} /\ Flights' = Flights
  <2>1. queued'.sightings = queued.sightings \cup {s} /\ queued'.flights = queued.flights
    BY <1>1 DEF TypeOK
  <2> HIDE DEF s
  <2> QED
    BY <1>1, <2>1 DEF RetriedSightings, Flights, InHand, Records, FlightOf
<1>6. \A t \in RetriedSightings' : Unreferred(t)'
  <2> HIDE DEF s
  <2> QED
    BY <1>1, <1>4, <1>5 DEF SightingsOnce, Unreferred
<1>7. ASSUME NEW k \in Jobs PROVE Unwritten(k)'
  <2>1. Unwritten(k) /\ job'[k] = IF k = j THEN next ELSE job[k]
    BY <1>2, JobUpdated DEF SightingsOnce
  <2>2. CASE k = j
    <3>1. \/ ~Publishing(next)
          \/ next.chunk # {} /\ Record(next) \notin Sightings /\ Record(next) # s
      BY NextUnwritten DEF Record
    <3>2. Record(next) \notin Sightings =>
            Record(next) \notin RetriedSightings /\ Record(next) \notin pds.sightings
      BY RetriedAreRecords DEF Sightings
    <3> HIDE DEF s
    <3> QED
      BY <1>1, <1>5, <2>1, <2>2, <3>1, <3>2 DEF Unwritten
  <2>3. CASE k # j
    <3>1. Publishing(job[k]) => Record(job[k]) # s
      BY <1>3, <2>3, RecordsDiffer
    <3> HIDE DEF s
    <3> QED
      BY <1>1, <1>5, <2>1, <2>3, <3>1 DEF Unwritten
  <2> QED
    BY <2>2, <2>3
<1> HIDE DEF s
<1> QED
  BY <1>1, <1>5, <1>6, <1>7 DEF SightingsOnce

\* A job goes on, at most to what is unwritten.
GoesOn(j, next) ==
  /\ job' = [job EXCEPT ![j] = next]
  /\ \/ ~Publishing(next)
     \/ next.chunk # {} /\ Record(next) \notin Sightings
     \/ /\ Publishing(job[j]) /\ Record(next) = Record(job[j])
        /\ next.chunk = job[j].chunk /\ next.stored = job[j].stored

LEMMA GoesOnCopies ==
  ASSUME TypeOK, SentStored, SightingsOnce, NEW j \in Jobs, NEW next, GoesOn(j, next),
         UNCHANGED index, UNCHANGED store, \A s : Unreferred(s) => Unreferred(s)'
  PROVE  SightingsOnce'
<1>1. RetriedSightings' = RetriedSightings
  BY DEF RetriedSightings
<1>2. \A k \in Jobs : job'[k] = IF k = j THEN next ELSE job[k]
  BY JobUpdated DEF GoesOn
<1>3. ASSUME NEW k \in Jobs
      PROVE  \/ ~Publishing(job'[k])
             \/ job'[k].chunk # {} /\ Record(job'[k]) \notin Sightings
             \/ /\ Publishing(job[k]) /\ Record(job'[k]) = Record(job[k])
                /\ job'[k].chunk = job[k].chunk /\ job'[k].stored = job[k].stored
  <2>1. CASE k = j
    <3>1. job'[j] = next
      BY <1>2, <2>1
    <3> QED
      BY <2>1, <3>1 DEF GoesOn
  <2>2. CASE k # j
    <3>1. job'[k] = job[k]
      BY <1>2, <2>2
    <3> QED
      BY <3>1
  <2> QED
    BY <2>1, <2>2
<1>4. /\ twice'.sightings \subseteq RetriedSightings
      /\ pds'.sightings \subseteq pds.sightings \cup RetriedSightings
  BY DEF SightingsOnce
<1> QED
  BY <1>1, <1>3, <1>4, SightingsAlone

LEMMA CopiesJob ==
  ASSUME TypeOK, SentStored, Ledger, References, Copies,
         NEW j \in Jobs, JobStep(j) \/ JobFailure(j)
  PROVE  Copies'
<1>1. HandsApart' /\ FlightsOnce'
  <2>1. HandsApart /\ FlightsOnce /\ twice.flights \subseteq RetriedFlights
    BY DEF Copies, FlightsOnce
  <2> QED
    BY <2>1, JobsAside, FlightsAlone
<1>2. SightingsOnce /\ twice.sightings \subseteq RetriedSightings
  BY DEF Copies, SightingsOnce
<1>3. ASSUME UNCHANGED index PROVE \A s : Unreferred(s) => Unreferred(s)'
  <2>1. Flights' = Flights
    BY JobsAside DEF Flights, InHand, FlightOf
  <2> QED
    BY <1>3, <2>1 DEF Unreferred
<1>4. ASSUME NEW next, GoesOn(j, next), UNCHANGED index, UNCHANGED store
      PROVE  SightingsOnce'
  BY <1>2, <1>3, <1>4, GoesOnCopies
<1>5. ASSUME RawDone(j)
      PROVE  SightingsOnce'
  <2>1. UNCHANGED index /\ UNCHANGED store
    BY <1>5 DEF RawDone
  <2>2. PICK next \in NextChunk(job[j].win, job[j].rest) : job' = [job EXCEPT ![j] = next]
    BY <1>5 DEF RawDone
  <2>3. GoesOn(j, next)
    BY <2>2, NextUnwritten DEF GoesOn
  <2> QED
    BY <1>4, <2>1, <2>3
<1>6. ASSUME Uploaded(j)
      PROVE  SightingsOnce'
  <2> DEFINE next == [job[j] EXCEPT !.stage = "create"]
  <2>1. /\ UNCHANGED index /\ UNCHANGED store /\ job[j].stage = "upload"
        /\ job' = [job EXCEPT ![j] = next] /\ job[j] \in JobState
    BY <1>6 DEF Uploaded, TypeOK
  <2>2. /\ Publishing(job[j]) /\ Record(next) = Record(job[j])
        /\ next.chunk = job[j].chunk /\ next.stored = job[j].stored
    BY <2>1 DEF Publishing, Record, JobState
  <2> HIDE DEF next
  <2>3. GoesOn(j, next)
    BY <2>1, <2>2 DEF GoesOn
  <2> QED
    BY <1>4, <2>1, <2>3
<1>7. ASSUME UploadFailed(j) \/ (SightingFailed(j) /\ j = "final")
      PROVE  SightingsOnce'
  <2>1. UNCHANGED index /\ UNCHANGED store /\ job' = [job EXCEPT ![j] = NoJob]
    BY <1>7 DEF UploadFailed, SightingFailed, GiveUp
  <2>2. ~Publishing(NoJob)
    BY DEF Publishing, NoJob
  <2>3. GoesOn(j, NoJob)
    BY <2>1, <2>2 DEF GoesOn
  <2> QED
    BY <1>4, <2>1, <2>3
<1>8. ASSUME CreateSighting(j)
      PROVE  SightingsOnce'
  <2>1. UNCHANGED index
    BY <1>8 DEF CreateSighting
  <2>2. \A s : Unreferred(s) => Unreferred(s)'
    BY <1>3, <2>1
  <2> QED
    BY <1>2, <1>8, <2>2, CreateSightingCopies
<1>9. SightingsOnce'
  BY <1>2, <1>5, <1>6, <1>7, <1>8, SightingDoneCopies, SightingQueuedCopies
     DEF JobStep, JobFailure
<1> QED
  BY <1>1, <1>9 DEF Copies

-----------------------------------------------------------------------------
(* Copies, the other steps.                                                *)

\* A step that leaves handlers, index and what is retried alone.
LEMMA CopiesAlone ==
  ASSUME SentStored, Copies, UNCHANGED <<handler, index>>, Records' = Records,
         RetriedFlights' = RetriedFlights, RetriedSightings' = RetriedSightings,
         twice'.flights \subseteq RetriedFlights, twice'.sightings \subseteq RetriedSightings,
         pds'.sightings \subseteq pds.sightings \cup RetriedSightings,
         \A j \in Jobs :
           \/ job'[j].stage = "raw"
           \/ job'[j].chunk # {} /\ Record(job'[j]) \notin Sightings
           \/ job'[j] = job[j]
  PROVE  Copies'
<1>1. HandsApart' /\ FlightsOnce'
  BY FlightsAlone DEF Copies
<1>2. \A s : Unreferred(s) => Unreferred(s)'
  <2>1. Flights' = Flights
    BY DEF Flights, InHand, FlightOf
  <2> QED
    BY <2>1 DEF Unreferred
<1>3. \A j \in Jobs :
        \/ ~Publishing(job'[j])
        \/ job'[j].chunk # {} /\ Record(job'[j]) \notin Sightings
        \/ /\ Publishing(job[j]) /\ Record(job'[j]) = Record(job[j])
           /\ job'[j].chunk = job[j].chunk /\ job'[j].stored = job[j].stored
  BY DEF Publishing
<1>4. SightingsOnce
  BY DEF Copies
<1>5. SightingsOnce'
  BY <1>2, <1>3, <1>4, SightingsAlone
<1> QED
  BY <1>1, <1>5 DEF Copies

\* A window is taken up in a slot.
LEMMA CopiesStart ==
  ASSUME TypeOK, SentStored, Ledger, Copies, mode # "flushing",
         UNCHANGED <<handler, index, store>>, NEW j \in Jobs, NEW new,
         Fresh(new, window, telemetry), job' = [job EXCEPT ![j] = new]
  PROVE  Copies'
<1>1. \A k \in Jobs : job'[k] = IF k = j THEN new ELSE job[k]
  BY JobUpdated
<1>2. \/ new.stage = "raw"
      \/ new.chunk # {} /\ Record(new) \notin Sightings
  BY FreshUnpublished DEF Fresh, Record
<1>3. /\ Records' = Records /\ RetriedFlights' = RetriedFlights
      /\ RetriedSightings' = RetriedSightings
      /\ twice'.flights \subseteq RetriedFlights /\ twice'.sightings \subseteq RetriedSightings
      /\ pds'.sightings \subseteq pds.sightings \cup RetriedSightings
  BY DEF Records, RetriedFlights, RetriedSightings, Copies, FlightsOnce, SightingsOnce
<1> QED
  BY <1>1, <1>2, <1>3, CopiesAlone

LEMMA CopiesRestart ==
  ASSUME TypeOK, Copies, Restart
  PROVE  Copies'
<1>1. /\ \A h \in Handlers : handler'[h].now = {}
      /\ \A hex \in Hexes : index'[hex] = {}
      /\ \A j \in Jobs : job'[j].stage = "idle"
      /\ UNCHANGED <<queued, pds, twice>>
  BY DEF Restart, NoHandler, NoJob
<1>2. /\ Records' = Records /\ RetriedFlights' = RetriedFlights
      /\ RetriedSightings' = RetriedSightings
  BY <1>1 DEF Records, RetriedFlights, RetriedSightings, Restart
<1>3. HandsApart' /\ FlightsOnce'
  BY <1>1, <1>2 DEF Copies, HandsApart, FlightsOnce, Awaited
<1>4. \A s : Unreferred(s) => Unreferred(s)'
  <2>1. Flights' \subseteq Flights
    BY <1>1, <1>2 DEF Flights, InHand
  <2> QED
    BY <1>1, <2>1 DEF Unreferred
<1>5. SightingsOnce'
  BY <1>1, <1>2, <1>4 DEF Copies, SightingsOnce, Unwritten, Publishing
<1> QED
  BY <1>3, <1>5 DEF Copies

LEMMA CopiesNext ==
  TypeOK /\ SentStored /\ ChainInv /\ Ledger /\ References /\ Copies /\ [Next]_vars
    => Copies'
<1> SUFFICES ASSUME TypeOK, SentStored, ChainInv, Ledger, References, Copies, [Next]_vars
             PROVE  Copies'
  OBVIOUS
<1>0. twice.flights \subseteq RetriedFlights /\ twice.sightings \subseteq RetriedSightings
  BY DEF Copies, FlightsOnce, SightingsOnce
<1>1. ASSUME UNCHANGED <<handler, index, job, store>> PROVE Copies'
  <2>1. /\ Records' = Records /\ RetriedFlights' = RetriedFlights
        /\ RetriedSightings' = RetriedSightings
    BY <1>1 DEF Records, RetriedFlights, RetriedSightings
  <2> QED
    BY <1>0, <1>1, <2>1, CopiesAlone
<1>2. CASE Receive
  <2>1. PICK seen \in SUBSET Hexes :
          \E fixes \in SUBSET seen, departed \in SUBSET (Hexes \ seen) :
            Message(seen, fixes, departed)
    BY <1>2 DEF Receive
  <2>2. PICK fixes \in SUBSET seen, departed \in SUBSET (Hexes \ seen) :
          Message(seen, fixes, departed)
    BY <2>1
  <2>3. UNCHANGED <<index, job, store>>
    BY <2>2 DEF Message
  <2>4. CASE UNCHANGED handler
    BY <1>1, <2>3, <2>4
  <2>5. ASSUME NEW h \in Handlers, NEW todo,
               handler' = [handler EXCEPT ![h] =
                             [NoHandler EXCEPT !.stage = "signing", !.todo = todo]]
        PROVE  Copies'
    <3>1. /\ handler'[h].now = {} /\ handler'[h].stage = "signing"
          /\ \A k \in Handlers : k # h => handler'[k] = handler[k]
      BY <2>5 DEF NoHandler, TypeOK
    <3>2. /\ Records' = Records /\ RetriedFlights' = RetriedFlights
          /\ RetriedSightings' = RetriedSightings
      BY <2>3 DEF Records, RetriedFlights, RetriedSightings
    <3>3. HandsApart'
      BY <3>1 DEF Copies, HandsApart
    <3>4. ASSUME NEW k \in Handlers PROVE Awaited(k)'
      <4>1. Awaited(k)
        BY DEF Copies, FlightsOnce
      <4>2. CASE k = h
        BY <3>1, <4>2 DEF Awaited
      <4>3. CASE k # h
        <5>1. handler'[k] = handler[k] /\ \A a : FlightOf(k, a)' = FlightOf(k, a)
          BY <3>1, <4>3 DEF FlightOf
        <5> QED
          BY <3>2, <4>1, <5>1 DEF Awaited
      <4> QED
        BY <4>2, <4>3
    <3>5. FlightsOnce'
      BY <1>0, <2>3, <3>2, <3>4 DEF Copies, FlightsOnce
    <3>6. \A s : Unreferred(s) => Unreferred(s)'
      <4>1. InHand' \subseteq InHand
        BY <3>1 DEF InHand, FlightOf
      <4>2. Flights' \subseteq Flights
        BY <3>2, <4>1 DEF Flights
      <4> QED
        BY <2>3, <4>2 DEF Unreferred
    <3>7. SightingsOnce'
      BY <1>0, <2>3, <3>2, <3>6, SightingsAlone DEF Copies, SightingsOnce
    <3> QED
      BY <3>3, <3>5, <3>7 DEF Copies
  <2> QED
    BY <2>2, <2>4, <2>5 DEF Message
<1>3. ASSUME NEW h \in Handlers, HandlerStep(h) \/ HandlerFailure(h) PROVE Copies'
  BY <1>3, CopiesHandler
<1>4. CASE (\E file \in Captures : RawCapture(file)) \/ Shutdown \/ UNCHANGED vars
  BY <1>1, <1>4 DEF RawCapture, Shutdown, vars
<1>5. ASSUME NEW j \in Flushers, Flush(j) PROVE Copies'
  <2>1. /\ j \in Jobs /\ StartJob(j) /\ mode # "flushing"
        /\ UNCHANGED <<handler, index, store>>
    BY <1>5 DEF Flush, Jobs
  <2>2. CASE telemetry = {}
    BY <1>1, <2>1, <2>2 DEF StartJob
  <2>3. CASE telemetry # {}
    <3>1. PICK new : Fresh(new, window, telemetry) /\ job' = [job EXCEPT ![j] = new]
      BY <2>1, <2>3, JobStarts
    <3> QED
      BY <2>1, <3>1, CopiesStart
  <2> QED
    BY <2>2, <2>3
<1>6. ASSUME NEW j \in Jobs, JobStep(j) \/ JobFailure(j) PROVE Copies'
  BY <1>6, CopiesJob
<1>7. CASE Drain
  <2>1. UNCHANGED <<handler, index, job>>
    BY <1>7 DEF Drain
  <2>2. /\ Records' = Records /\ RetriedFlights' = RetriedFlights
        /\ RetriedSightings' = RetriedSightings
    BY <1>7, DrainSteps
       DEF DrainedTo, SentStored, Records, RetriedFlights, RetriedSightings
  <2>3. /\ twice'.flights \subseteq RetriedFlights
        /\ twice'.sightings \subseteq RetriedSightings
        /\ pds'.sightings \subseteq pds.sightings \cup RetriedSightings
    BY <1>0, <1>7, DrainSteps DEF DrainedTo, RetriedFlights, RetriedSightings
  <2> QED
    BY <2>1, <2>2, <2>3, CopiesAlone
<1>8. CASE FinalFlush
  <2>1. /\ mode # "flushing" /\ "final" \in Jobs /\ UNCHANGED <<handler, index, store>>
    BY <1>8 DEF FinalFlush, Jobs
  <2>2. CASE telemetry = {}
    BY <1>1, <1>8, <2>1, <2>2 DEF FinalFlush
  <2>3. CASE telemetry # {}
    <3>1. PICK plan \in Plans(telemetry) :
            \E next \in NextChunk(window, plan) : job' = [job EXCEPT !["final"] = next]
      BY <1>8, <2>3 DEF FinalFlush
    <3>2. PICK next \in NextChunk(window, plan) : job' = [job EXCEPT !["final"] = next]
      BY <3>1
    <3>3. window \in 1 .. MaxWindows
      BY <2>3 DEF TypeOK
    <3>4. Fresh(next, window, telemetry)
      BY <2>3, <3>3, FirstChunkFresh
    <3> QED
      BY <2>1, <3>2, <3>4, CopiesStart
  <2> QED
    BY <2>2, <2>3
<1>9. CASE Exit \/ Crash
  BY <1>9, CopiesRestart DEF Exit, Crash
<1> QED
  BY <1>2, <1>3, <1>4, <1>5, <1>6, <1>7, <1>8, <1>9 DEF Next

-----------------------------------------------------------------------------
Books == TypeOK /\ SentStored /\ ChainInv /\ Ledger /\ References /\ Copies

LEMMA BooksKept == Spec => []Books
<1>1. Init => Books
  BY TypeInit, SentInit, ChainInit, LedgerInit, ReferencesInit, CopiesInit DEF Books
<1>2. Books /\ [Next]_vars => Books'
  BY TypeNext, SentNext, ChainNext, LedgerNext, ReferencesNext, CopiesNext DEF Books
<1> QED
  BY <1>1, <1>2, PTL DEF Spec

\* Every report heard is in the open window, with a job, in a record or knowingly given
\* up, whatever windows overlap, calls fail and whenever the process dies.
THEOREM NoReportLost == Spec => []TelemetryAccounted
<1>1. Books => TelemetryAccounted
  BY DEF Books, Ledger
<1> QED
  BY <1>1, BooksKept, PTL

\* The sighting records built of one window have no aircraft in common, over retries
\* through the queue and a final flush beside them; the PDS has no second copy of one
\* but of those that came through the queue, and to these nothing refers.
THEOREM OneRecordPerAircraft == Spec => []OneSightingPerAircraft
<1>1. Books => OneSightingPerAircraft
  <2> SUFFICES ASSUME Books PROVE OneSightingPerAircraft
    OBVIOUS
  <2>1. \A s, t \in Sightings :
          (s.win = t.win /\ s # t) => Manifest(s.reports) \cap Manifest(t.reports) = {}
    BY DEF Books, Ledger, SightingsApart, Apart
  <2>2. twice.sightings \subseteq RetriedSightings
    BY DEF Books, Copies, SightingsOnce
  <2>3. ASSUME NEW s \in RetriedSightings PROVE s \notin Referred
    <3>1. /\ \A hex \in Hexes : s \notin index[hex]
          /\ \A f \in InHand \cup Records : s \notin f.refs
      BY DEF Books, Copies, SightingsOnce, Unreferred, Flights
    <3>2. s \notin UNION {index[hex] : hex \in Hexes}
      BY <3>1
    <3>3. s \notin UNION {f.refs : f \in InHand \cup Records}
      BY <3>1
    <3> QED
      BY <3>2, <3>3 DEF Referred
  <2> QED
    BY <2>1, <2>2, <2>3 DEF OneSightingPerAircraft, Sightings
<1> QED
  BY <1>1, BooksKept, PTL

\* A reference is in the index, in one handler's hands or in one flight that was built;
\* the PDS has no second copy of that flight unless it came through the queue.
THEOREM ReferencesUsedOnce == Spec => []RefUsedOnce
<1>1. Books => RefUsedOnce
  <2> SUFFICES ASSUME Books PROVE RefUsedOnce
    OBVIOUS
  <2>1. /\ \A f, g \in InHand \cup Records :
             (f.transit.hex = g.transit.hex /\ f.refs \cap g.refs # {}) => f = g
        /\ \A f \in InHand \cup Records : f.refs \cap index[f.transit.hex] = {}
    BY DEF Books, References, RefsApart, Flights
  <2>2. \A h, g \in Handlers : \A a \in handler[h].now, b \in handler[g].now :
          (h # g /\ a.transit.hex = b.transit.hex) => handler[h].refs \cap handler[g].refs = {}
    BY DEF Books, Copies, HandsApart
  <2>3. twice.flights \subseteq RetriedFlights /\ \A h \in Handlers : Awaited(h)
    BY DEF Books, Copies, FlightsOnce
  <2>4. Built \cap RetriedFlights = {}
    BY <2>3 DEF Built, Awaited
  <2> QED
    BY <2>1, <2>2, <2>3, <2>4 DEF RefUsedOnce
<1> QED
  BY <1>1, BooksKept, PTL

=============================================================================

---------------------------- MODULE PublishQueue ----------------------------
(***************************************************************************)
(* The publish queue: the SQLite table publish_queue                       *)
(* (src/server/src/queue.ts) and drainQueue, the loop the daemon starts    *)
(* every 30 s from setInterval (src/server/src/daemon.ts).                 *)
(*                                                                         *)
(* setInterval does not wait for the promise of the previous drain, so     *)
(* several drains may be in flight: Drains is the set of slots they run    *)
(* in.  A drain works on the snapshot getReady gave it; between its        *)
(* requests to the PDS every other drain, and every enqueue, may run.      *)
(*                                                                         *)
(* Times are relative: wait is next_retry_at minus the current time, in    *)
(* ticks, so getReady's test next_retry_at <= now reads wait = 0.          *)
(***************************************************************************)
EXTENDS Integers, FiniteSets

CONSTANTS Drains,         \* slots for concurrent calls of drainQueue
          BaseDelay,      \* BASE_DELAY_MS, in ticks
          MaxDelay,       \* MAX_DELAY_MS, in ticks
          RetryAfters,    \* waits a 429 may ask for in seconds, in ticks
          HttpDates,      \* TRUE: a 429 may carry Retry-After as a date
          LostResponses,  \* TRUE: a call may fail after the PDS stored it
          MaxEnqueued,    \* bound: records ever enqueued
          MaxFailures,    \* bound: calls that fail
          MaxCrashes      \* bound: process deaths

ASSUME DrainsAssumption == IsFiniteSet(Drains)
ASSUME DelayAssumption == BaseDelay \in Nat \ {0} /\ MaxDelay \in Nat \ {0}
ASSUME RetryAssumption == RetryAfters \subseteq Nat
ASSUME SwitchAssumption == HttpDates \in BOOLEAN /\ LostResponses \in BOOLEAN
ASSUME BoundAssumption ==
  MaxEnqueued \in Nat /\ MaxFailures \in Nat /\ MaxCrashes \in Nat

VARIABLES rows,      \* the table: id -> [attempts, wait]
          nextId,    \* next value of the AUTOINCREMENT key
          drain,     \* slot -> [todo: ids not finished, stage of the first]
          copies,    \* id -> records the PDS holds for that row
          unheard,   \* id -> those of them whose answer never came
          failures,  \* calls failed so far
          crashes    \* process deaths so far

vars == <<rows, nextId, drain, copies, unheard, failures, crashes>>

Ids == 1 .. MaxEnqueued
Row == [attempts : Nat, wait : Nat]
Idle == [todo |-> {}, stage |-> "idle"]

Init ==
  /\ rows = [id \in {} |-> [attempts |-> 0, wait |-> 0]]
  /\ nextId = 1
  /\ drain = [d \in Drains |-> Idle]
  /\ copies = [id \in Ids |-> 0]
  /\ unheard = [id \in Ids |-> 0]
  /\ failures = 0
  /\ crashes = 0

-----------------------------------------------------------------------------
\* Mutant of Ready: a row is tried once, then never again.
ReadyOnce == {id \in DOMAIN rows : rows[id].wait = 0 /\ rows[id].attempts = 0}

\* getReady: the rows whose retry time has come.
Ready == {id \in DOMAIN rows : rows[id].wait = 0}

\* ORDER BY created_at: the keys grow with the creation time, so a drain
\* works on the smallest key it has left.
Current(d, id) ==
  id \in drain[d].todo /\ \A other \in drain[d].todo : id <= other

\* The PDS has stored the record for slot d, which waits for the answer.
Stored(d, id) == drain[d].stage = "stored" /\ Current(d, id)

\* min(BASE_DELAY_MS * 2^(attempts + 1), MAX_DELAY_MS), of positive delays
Backoff(attempts) ==
  LET delay == BaseDelay * 2 ^ (attempts + 1)
  IN  IF delay \in 1 .. MaxDelay THEN delay ELSE MaxDelay

\* Mutant of Rest: the next entry is sent, whether or not there is one.
RestSent(todo, id) == [todo |-> todo \ {id}, stage |-> "sent"]

\* The snapshot without its first entry; the next entry, if there is one, is
\* sent before anything else runs.
Rest(todo, id) ==
  [todo |-> todo \ {id}, stage |-> IF todo = {id} THEN "idle" ELSE "sent"]

Advance(d, id) == drain' = [drain EXCEPT ![d] = Rest(drain[d].todo, id)]

Insert(table, id) ==
  [i \in DOMAIN table \cup {id} |->
     IF i = id THEN [attempts |-> 0, wait |-> BaseDelay] ELSE table[i]]

Delete(table, id) == [i \in DOMAIN table \ {id} |-> table[i]]

\* Mutant of Reschedule: an upsert, which puts a deleted row back.
RescheduleUpsert(table, id, delay) ==
  [i \in DOMAIN table \cup {id} |->
     IF i # id THEN table[i]
     ELSE [attempts |-> IF id \in DOMAIN table THEN table[id].attempts + 1 ELSE 1,
           wait |-> delay]]

\* UPDATE ... WHERE id = ?: no effect when the row is gone.
Reschedule(table, id, delay) ==
  [i \in DOMAIN table |->
     IF i = id THEN [attempts |-> table[i].attempts + 1, wait |-> delay]
               ELSE table[i]]

-----------------------------------------------------------------------------
\* enqueue
Enqueue ==
  /\ nextId <= MaxEnqueued
  /\ rows' = Insert(rows, nextId)
  /\ nextId' = nextId + 1
  /\ UNCHANGED <<drain, copies, unheard, failures, crashes>>

\* Mutant of StartDrain: the snapshot is taken out of the table.
StartDrainTaking(d) ==
  /\ drain[d].stage = "idle"
  /\ Ready # {}
  /\ drain' = [drain EXCEPT ![d] = [todo |-> Ready, stage |-> "sent"]]
  /\ rows' = [id \in DOMAIN rows \ Ready |-> rows[id]]
  /\ UNCHANGED <<nextId, copies, unheard, failures, crashes>>

\* The drain timer fires: take the snapshot and send its first record.
StartDrain(d) ==
  /\ drain[d].stage = "idle"
  /\ Ready # {}
  /\ drain' = [drain EXCEPT ![d] = [todo |-> Ready, stage |-> "sent"]]
  /\ UNCHANGED <<rows, nextId, copies, unheard, failures, crashes>>

\* The PDS commits the record; its answer is not here yet.
Store(d, id) ==
  /\ drain[d].stage = "sent"
  /\ Current(d, id)
  /\ copies' = [copies EXCEPT ![id] = @ + 1]
  /\ drain' = [drain EXCEPT ![d].stage = "stored"]
  /\ UNCHANGED <<rows, nextId, unheard, failures, crashes>>

\* Mutant of MarkDone: the row is deleted before the answer is there.
MarkDoneEarly(d, id) ==
  /\ drain[d].stage \in {"sent", "stored"}
  /\ Current(d, id)
  /\ rows' = Delete(rows, id)
  /\ Advance(d, id)
  /\ UNCHANGED <<nextId, copies, unheard, failures, crashes>>

\* The success arrives: markDone, then the next record is sent.
MarkDone(d, id) ==
  /\ drain[d].stage = "stored"
  /\ Current(d, id)
  /\ rows' = Delete(rows, id)
  /\ Advance(d, id)
  /\ UNCHANGED <<nextId, copies, unheard, failures, crashes>>

\* A call may fail before the PDS stored the record, or after, when only the
\* answer was lost.
MayFail(d) ==
  /\ failures < MaxFailures
  /\ \/ drain[d].stage = "sent"
     \/ LostResponses /\ drain[d].stage = "stored"

\* The call throws without a usable Retry-After: markFailed backs off, unless
\* another drain has deleted the row.
MarkFailed(d, id) ==
  /\ MayFail(d)
  /\ Current(d, id)
  /\ rows' = IF id \in DOMAIN rows
             THEN Reschedule(rows, id, Backoff(rows[id].attempts))
             ELSE rows
  /\ Advance(d, id)
  /\ unheard' = [unheard EXCEPT ![id] = @ + IF Stored(d, id) THEN 1 ELSE 0]
  /\ failures' = failures + 1
  /\ UNCHANGED <<nextId, copies, crashes>>

\* 429 with Retry-After in seconds: nothing was stored, wait as told.
RateLimited(d, id, delay) ==
  /\ failures < MaxFailures
  /\ drain[d].stage = "sent"
  /\ Current(d, id)
  /\ rows' = Reschedule(rows, id, delay)
  /\ Advance(d, id)
  /\ failures' = failures + 1
  /\ UNCHANGED <<nextId, copies, unheard, crashes>>

\* 429 with Retry-After as an HTTP date: Number(...) is NaN, toISOString throws
\* inside markFailed, and drainQueue's outer catch gives up the whole snapshot
\* with the row as it was.
RateLimitedUntilDate(d) ==
  /\ HttpDates
  /\ failures < MaxFailures
  /\ drain[d].stage = "sent"
  /\ drain' = [drain EXCEPT ![d] = Idle]
  /\ failures' = failures + 1
  /\ UNCHANGED <<rows, nextId, copies, unheard, crashes>>

\* A tick of time passes.
Tick ==
  /\ \E id \in DOMAIN rows : rows[id].wait > 0
  /\ rows' = [id \in DOMAIN rows |->
                [rows[id] EXCEPT !.wait = IF @ > 0 THEN @ - 1 ELSE 0]]
  /\ UNCHANGED <<nextId, drain, copies, unheard, failures, crashes>>

\* The drains that wait for the answer to a call that stored the record.
Waiting(id) == Cardinality({d \in Drains : Stored(d, id)})

\* The process dies and starts again: the table and the PDS keep what they
\* have, the drains in flight are gone.
Crash ==
  /\ crashes < MaxCrashes
  /\ drain' = [d \in Drains |-> Idle]
  /\ unheard' = [id \in Ids |-> unheard[id] + Waiting(id)]
  /\ crashes' = crashes + 1
  /\ UNCHANGED <<rows, nextId, copies, failures>>

Answer(d) ==
  \E id \in drain[d].todo :
    \/ MarkFailed(d, id)
    \/ \E delay \in RetryAfters : RateLimited(d, id, delay)

Succeed(d) == \E id \in drain[d].todo : Store(d, id) \/ MarkDone(d, id)

Next ==
  \/ Enqueue
  \/ \E d \in Drains :
       StartDrain(d) \/ Succeed(d) \/ Answer(d) \/ RateLimitedUntilDate(d)
  \/ Tick
  \/ Crash

Spec == Init /\ [][Next]_vars

\* The interval timer keeps firing, time passes, and a call that is not made
\* to fail (a bounded number of them is) is answered.
Fairness ==
  /\ WF_vars(Tick)
  /\ \A d \in Drains : WF_vars(StartDrain(d)) /\ WF_vars(Succeed(d))

FairSpec == Spec /\ Fairness

-----------------------------------------------------------------------------
TypeOK ==
  /\ nextId \in 1 .. MaxEnqueued + 1
  /\ DOMAIN rows \subseteq 1 .. nextId - 1
  /\ \A id \in DOMAIN rows : rows[id] \in Row
  /\ rows = [id \in DOMAIN rows |-> rows[id]]
  /\ drain \in [Drains -> [todo : SUBSET (1 .. nextId - 1),
                           stage : {"idle", "sent", "stored"}]]
  /\ \A d \in Drains : drain[d].stage = "idle" <=> drain[d].todo = {}
  /\ copies \in [Ids -> Nat]
  /\ unheard \in [Ids -> Nat]
  /\ failures \in Nat
  /\ crashes \in Nat

\* Every record ever enqueued is in the table or in the PDS (SPECIFICATION.md:
\* "without data loss", "persistent across daemon restarts"): whatever the
\* drains, the failures and the crashes between a store and its markDone.
NoLoss == \A id \in 1 .. nextId - 1 : id \in DOMAIN rows \/ copies[id] > 0

\* A record is sent again only when its answer never came, or by a drain that had it in
\* its snapshot beside another: while its row is in the table every copy at the PDS is
\* one whose answer is on its way or never came, and once the row is gone, at
\* most one copy for each drain comes on top of those (markDone in daemon.ts's drainQueue
\* against the snapshots of the others).  With one drain and every answer heard that
\* is: stored once.
RepeatsExplained ==
  \A id \in Ids :
    /\ id \in DOMAIN rows => copies[id] = unheard[id] + Waiting(id)
    /\ copies[id] <= unheard[id] + Cardinality(Drains)

\* Only proved: once markDone has deleted a row nothing brings it back: a drain that fails
\* late on a row another drain has finished does not put it in the table.
NeverResurrected ==
  [][\A id \in 1 .. nextId - 1 :
       id \notin DOMAIN rows => id \notin DOMAIN rows']_vars

\* Every queued record eventually leaves the table (and by NoLoss is then in
\* the PDS), although rows that fail keep being put back behind their retry
\* time.
EventuallyDrained ==
  \A id \in Ids : (id \in DOMAIN rows) ~> (id \notin DOMAIN rows)

\* The outbox PublishQueue implements.
Outbox == INSTANCE AtLeastOnce WITH
            Records <- Ids,
            submitted <- 1 .. nextId - 1,
            held <- DOMAIN rows,
            delivered <- {id \in Ids : copies[id] > 0}

\* The table and the drain loop keep the promise of a durable outbox.
KeepsPromise == Outbox!Spec

\* The step sends the record of row id to the PDS in slot d.
Sends(d, id) ==
  /\ drain'[d] # drain[d]
  /\ drain'[d].stage = "sent"
  /\ id \in drain'[d].todo
  /\ \A other \in drain'[d].todo : id <= other

\* Extra, violated where two drains overlap: a record is sent only while its row is in
\* the table with its retry time come (SPECIFICATION.md:188, "retried with exponential
\* backoff").  It holds while drains do not overlap.
HonoursRetryTime ==
  [][\A d \in Drains : \A id \in Ids :
       Sends(d, id) => id \in DOMAIN rows' /\ rows'[id].wait = 0]_vars

\* Extra, violated by a Retry-After that is a date: a call that failed leaves its row
\* with a retry time to wait for.  It holds when every Retry-After is a positive
\* number of seconds and drains do not overlap.
FailedSendBacksOff ==
  [][failures' > failures =>
       \A d \in Drains : \A id \in DOMAIN rows :
         (Current(d, id) /\ drain'[d] # drain[d]) => rows'[id].wait > 0]_vars

=============================================================================

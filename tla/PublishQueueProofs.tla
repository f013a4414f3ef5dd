------------------------- MODULE PublishQueueProofs -------------------------
(***************************************************************************)
(* Proofs about PublishQueue for any number of drains, records, failures   *)
(* and crashes: type correctness, NoLoss, NeverResurrected, the refinement *)
(* of AtLeastOnce and RepeatsExplained.                                    *)
(*                                                                         *)
(* NoLoss is inductive with two facts beside it: the type invariant, which *)
(* keeps every snapshot within the keys handed out, and StoredHasCopy,     *)
(* which remembers for a drain that waits for its answer that the PDS has  *)
(* the record already.  RepeatsExplained needs Copied: once a row is gone, *)
(* the drains that still have it to send count against its bound.          *)
(***************************************************************************)
EXTENDS PublishQueue, FiniteSetTheorems, TLAPS

\* A drain in stage "stored" stands at a record the PDS holds a copy of.
StoredHasCopy ==
  \A d \in Drains : \A id \in Ids :
    (drain[d].stage = "stored" /\ Current(d, id)) => copies[id] > 0

IndInv == TypeOK /\ StoredHasCopy /\ NoLoss

\* The back-off of markFailed is a delay whatever the number of attempts.
LEMMA BackoffIsDelay ==
  ASSUME NEW attempts
  PROVE  Backoff(attempts) \in Nat \ {0}
BY DelayAssumption DEF Backoff

\* What a step of a drain to the next entry of its snapshot keeps: the slots'
\* type, and that no slot but d moves.
LEMMA AdvanceTyped ==
  ASSUME TypeOK, NEW d \in Drains, NEW id \in drain[d].todo, Advance(d, id)
  PROVE  /\ drain' \in [Drains -> [todo : SUBSET (1 .. nextId - 1),
                                   stage : {"idle", "sent", "stored"}]]
         /\ \A e \in Drains : drain'[e].stage = "idle" <=> drain'[e].todo = {}
         /\ \A e \in Drains \ {d} : drain'[e] = drain[e]
         /\ drain'[d].stage # "stored"
<1> DEFINE todo == drain[d].todo
<1>1. /\ Rest(todo, id) \in [todo : SUBSET (1 .. nextId - 1),
                             stage : {"idle", "sent", "stored"}]
      /\ Rest(todo, id).stage # "stored"
  BY DEF TypeOK, Rest
<1>2. Rest(todo, id).stage = "idle" <=> Rest(todo, id).todo = {}
  BY DEF Rest
<1>3. drain' = [drain EXCEPT ![d] = Rest(todo, id)]
  BY DEF Advance
<1>4. drain'[d] = Rest(todo, id) /\ \A e \in Drains \ {d} : drain'[e] = drain[e]
  BY <1>3 DEF TypeOK
<1>5. drain' \in [Drains -> [todo : SUBSET (1 .. nextId - 1),
                             stage : {"idle", "sent", "stored"}]]
  BY <1>1, <1>3 DEF TypeOK
<1>6. \A e \in Drains : drain'[e].stage = "idle" <=> drain'[e].todo = {}
  BY <1>2, <1>4 DEF TypeOK
<1> QED
  BY <1>1, <1>4, <1>5, <1>6

\* markFailed and the passing of time change waits and attempts, not which
\* rows there are.
LEMMA RescheduleTyped ==
  ASSUME TypeOK, NEW id, NEW delay \in Nat
  PROVE  /\ DOMAIN Reschedule(rows, id, delay) = DOMAIN rows
         /\ \A i \in DOMAIN rows : Reschedule(rows, id, delay)[i] \in Row
         /\ Reschedule(rows, id, delay) =
              [i \in DOMAIN rows |-> Reschedule(rows, id, delay)[i]]
BY DEF TypeOK, Reschedule, Row

LEMMA InitIndInv == Init => IndInv
<1> SUFFICES ASSUME Init PROVE IndInv
  OBVIOUS
<1>1. TypeOK
  BY BoundAssumption DEF Init, TypeOK, Idle, Row, Ids
<1>2. StoredHasCopy
  BY DEF Init, StoredHasCopy, Idle, Current
<1>3. NoLoss
  BY DEF Init, NoLoss
<1> QED
  BY <1>1, <1>2, <1>3 DEF IndInv

\* A slot that stands before its first record still has it to do.
LEMMA CurrentInIds ==
  ASSUME TypeOK, NEW d \in Drains, NEW id \in drain[d].todo
  PROVE  id \in Ids /\ id \in 1 .. nextId - 1 /\ drain[d].stage # "idle"
BY BoundAssumption DEF TypeOK, Ids

\* Steps that move slot d to its next entry keep the invariant if the table
\* keeps its typing and loses at most a record the PDS has.
LEMMA AdvanceIndInv ==
  ASSUME IndInv, NEW d \in Drains, NEW id \in drain[d].todo, Advance(d, id),
         DOMAIN rows' \subseteq DOMAIN rows,
         \A i \in DOMAIN rows' : rows'[i] \in Row,
         rows' = [i \in DOMAIN rows' |-> rows'[i]],
         \A i \in DOMAIN rows \ DOMAIN rows' : copies[i] > 0,
         failures' \in Nat, unheard' \in [Ids -> Nat],
         UNCHANGED <<nextId, copies, crashes>>
  PROVE  IndInv'
<1> USE DEF IndInv
<1>1. TypeOK'
  BY AdvanceTyped DEF TypeOK
<1>2. StoredHasCopy'
  BY AdvanceTyped DEF StoredHasCopy, Current
<1>3. NoLoss'
  BY DEF NoLoss
<1> QED
  BY <1>1, <1>2, <1>3

\* A new row keeps the invariant, whatever else counts a failure in the same step.
LEMMA EnqueueIndInv ==
  ASSUME IndInv, nextId <= MaxEnqueued, rows' = Insert(rows, nextId),
         nextId' = nextId + 1, failures' \in Nat,
         UNCHANGED <<drain, copies, unheard, crashes>>
  PROVE  IndInv'
<1> USE DEF IndInv
<1>1. nextId \in Ids /\ nextId \notin DOMAIN rows
  BY DEF TypeOK, Ids
<1>2. TypeOK'
  <2>1. /\ DOMAIN rows' \subseteq 1 .. nextId' - 1
        /\ \A id \in DOMAIN rows' : rows'[id] \in Row
        /\ rows' = [id \in DOMAIN rows' |-> rows'[id]]
    BY <1>1, DelayAssumption DEF Insert, TypeOK, Row
  <2>2. drain' \in [Drains -> [todo : SUBSET (1 .. nextId' - 1),
                               stage : {"idle", "sent", "stored"}]]
    BY DEF TypeOK
  <2> QED
    BY <1>1, <2>1, <2>2, BoundAssumption DEF TypeOK, Ids
<1>3. StoredHasCopy'
  BY DEF StoredHasCopy, Current
<1>4. NoLoss'
  <2>1. DOMAIN rows' = DOMAIN rows \cup {nextId}
    BY DEF Insert
  <2>2. \A id \in 1 .. nextId' - 1 : id = nextId \/ id \in 1 .. nextId - 1
    BY DEF TypeOK
  <2> QED
    BY <2>1, <2>2 DEF NoLoss
<1> QED
  BY <1>2, <1>3, <1>4

LEMMA NextIndInv == IndInv /\ [Next]_vars => IndInv'
<1> SUFFICES ASSUME IndInv, [Next]_vars PROVE IndInv'
  OBVIOUS
<1> USE DEF IndInv
<1>1. CASE Enqueue
  BY <1>1, EnqueueIndInv DEF Enqueue, TypeOK
<1>2. ASSUME NEW d \in Drains, StartDrain(d) PROVE IndInv'
  <2>1. TypeOK'
    BY <1>2 DEF StartDrain, TypeOK, Ready
  <2>2. StoredHasCopy'
    BY <1>2 DEF StartDrain, StoredHasCopy, Current, TypeOK
  <2>3. NoLoss'
    BY <1>2 DEF StartDrain, NoLoss
  <2> QED
    BY <2>1, <2>2, <2>3
<1>3. ASSUME NEW d \in Drains, NEW id \in drain[d].todo, Store(d, id)
      PROVE  IndInv'
  <2>1. id \in Ids
    BY CurrentInIds
  <2>2. copies' \in [Ids -> Nat] /\ \A i \in Ids : copies'[i] >= copies[i]
    BY <1>3, <2>1 DEF Store, TypeOK
  <2>3. copies'[id] > 0
    BY <1>3, <2>1 DEF Store, TypeOK
  <2>4. TypeOK'
    BY <1>3, <2>2 DEF Store, TypeOK
  <2>5. StoredHasCopy'
    <3> SUFFICES ASSUME NEW e \in Drains, NEW i \in Ids,
                        drain'[e].stage = "stored", Current(e, i)'
                 PROVE  copies'[i] > 0
      BY DEF StoredHasCopy
    <3>1. CASE e = d
      <4>1. i = id
        BY <1>3, <2>1, <3>1 DEF Store, Current, TypeOK, Ids
      <4> QED
        BY <4>1, <2>3
    <3>2. CASE e # d
      BY <1>3, <2>2, <3>2 DEF Store, StoredHasCopy, Current, TypeOK
    <3> QED
      BY <3>1, <3>2
  <2>6. NoLoss'
    BY <1>3, <2>2 DEF Store, NoLoss, TypeOK, Ids
  <2> QED
    BY <2>4, <2>5, <2>6
<1>4. ASSUME NEW d \in Drains, NEW id \in drain[d].todo, MarkDone(d, id)
      PROVE  IndInv'
  <2>1. copies[id] > 0
    BY <1>4, CurrentInIds DEF MarkDone, StoredHasCopy
  <2>2. /\ DOMAIN rows' \subseteq DOMAIN rows
        /\ \A i \in DOMAIN rows' : rows'[i] \in Row
        /\ rows' = [i \in DOMAIN rows' |-> rows'[i]]
        /\ \A i \in DOMAIN rows \ DOMAIN rows' : i = id
    BY <1>4 DEF MarkDone, Delete, TypeOK
  <2> QED
    BY <1>4, <2>1, <2>2, AdvanceIndInv DEF MarkDone, TypeOK
<1>5. ASSUME NEW d \in Drains, NEW id \in drain[d].todo, MarkFailed(d, id)
      PROVE  IndInv'
  <2>0. unheard' \in [Ids -> Nat]
    BY <1>5, CurrentInIds DEF MarkFailed, TypeOK
  <2>1. CASE id \in DOMAIN rows
    <3>1. Backoff(rows[id].attempts) \in Nat
      BY BackoffIsDelay
    <3>2. rows' = Reschedule(rows, id, Backoff(rows[id].attempts))
      BY <1>5, <2>1 DEF MarkFailed
    <3> QED
      BY <1>5, <2>0, <3>1, <3>2, RescheduleTyped, AdvanceIndInv DEF MarkFailed, TypeOK
  <2>2. CASE id \notin DOMAIN rows
    BY <1>5, <2>0, <2>2, AdvanceIndInv DEF MarkFailed, TypeOK
  <2> QED
    BY <2>1, <2>2
<1>6. ASSUME NEW d \in Drains, NEW id \in drain[d].todo,
             NEW delay \in RetryAfters, RateLimited(d, id, delay)
      PROVE  IndInv'
  <2>1. rows' = Reschedule(rows, id, delay) /\ delay \in Nat
    BY <1>6, RetryAssumption DEF RateLimited
  <2> QED
    BY <1>6, <2>1, RescheduleTyped, AdvanceIndInv DEF RateLimited, TypeOK
<1>7. ASSUME NEW d \in Drains, RateLimitedUntilDate(d) PROVE IndInv'
  <2>1. TypeOK'
    BY <1>7 DEF RateLimitedUntilDate, TypeOK, Idle
  <2>2. StoredHasCopy'
    BY <1>7 DEF RateLimitedUntilDate, StoredHasCopy, Current, TypeOK, Idle
  <2>3. NoLoss'
    BY <1>7 DEF RateLimitedUntilDate, NoLoss
  <2> QED
    BY <2>1, <2>2, <2>3
<1>8. CASE Tick
  <2>1. /\ DOMAIN rows' = DOMAIN rows
        /\ \A i \in DOMAIN rows' : rows'[i] \in Row
        /\ rows' = [i \in DOMAIN rows' |-> rows'[i]]
    BY <1>8 DEF Tick, TypeOK, Row
  <2> QED
    BY <1>8, <2>1 DEF Tick, TypeOK, StoredHasCopy, Current, NoLoss
<1>9. CASE Crash
  <2>0. unheard' \in [Ids -> Nat]
    <3>1. \A id : Waiting(id) \in Nat
      <4> SUFFICES ASSUME NEW id PROVE Waiting(id) \in Nat
        OBVIOUS
      <4>1. {d \in Drains : Stored(d, id)} \in SUBSET Drains
        OBVIOUS
      <4> QED
        BY <4>1, FS_Subset, FS_CardinalityType, DrainsAssumption DEF Waiting
    <3> QED
      BY <1>9, <3>1 DEF Crash, TypeOK
  <2>1. TypeOK'
    BY <1>9, <2>0 DEF Crash, TypeOK, Idle
  <2>2. StoredHasCopy'
    BY <1>9 DEF Crash, StoredHasCopy, Current, Idle
  <2>3. NoLoss'
    BY <1>9 DEF Crash, NoLoss
  <2> QED
    BY <2>1, <2>2, <2>3
<1>10. CASE UNCHANGED vars
  BY <1>10 DEF vars, TypeOK, StoredHasCopy, Current, NoLoss
<1> QED
  BY <1>1, <1>2, <1>3, <1>4, <1>5, <1>6, <1>7, <1>8, <1>9, <1>10
     DEF Next, Answer, Succeed

LEMMA Invariance == Spec => []IndInv
<1>1. Init => IndInv
  BY InitIndInv
<1>2. IndInv /\ [Next]_vars => IndInv'
  BY NextIndInv
<1> QED
  BY <1>1, <1>2, PTL DEF Spec

-----------------------------------------------------------------------------
\* The table, the snapshots and the counters keep their types: in particular
\* no drain ever holds a key that was not handed out.
THEOREM TypeCorrect == Spec => []TypeOK
<1>1. IndInv => TypeOK
  BY DEF IndInv
<1> QED
  BY <1>1, Invariance, PTL

\* No record that was enqueued is ever lost: it is in the table or in the PDS,
\* for any number of overlapping drains, failures, lost answers and crashes.
THEOREM NothingIsLost == Spec => []NoLoss
<1>1. IndInv => NoLoss
  BY DEF IndInv
<1> QED
  BY <1>1, Invariance, PTL

\* Rows are only inserted under a new key: markFailed's UPDATE on a row that
\* another drain deleted does not put it back.
THEOREM DeletedStaysDeleted == Spec => NeverResurrected
<1> DEFINE Stays == \A id \in 1 .. nextId - 1 :
                      id \notin DOMAIN rows => id \notin DOMAIN rows'
<1>1. IndInv /\ [Next]_vars => [Stays]_vars
  <2> SUFFICES ASSUME IndInv, Next PROVE Stays
    OBVIOUS
  <2>1. CASE Enqueue
    BY <2>1 DEF Enqueue, Insert, IndInv, TypeOK
  <2>2. ASSUME NEW d \in Drains, NEW id \in drain[d].todo, MarkDone(d, id)
        PROVE  Stays
    BY <2>2 DEF MarkDone, Delete
  <2>3. ASSUME NEW d \in Drains, NEW id \in drain[d].todo,
               \/ MarkFailed(d, id)
               \/ \E delay \in RetryAfters : RateLimited(d, id, delay)
        PROVE  Stays
    BY <2>3 DEF MarkFailed, RateLimited, Reschedule
  <2>4. ASSUME NEW d \in Drains, \/ StartDrain(d)
                                 \/ \E id \in drain[d].todo : Store(d, id)
                                 \/ RateLimitedUntilDate(d)
        PROVE  Stays
    BY <2>4 DEF StartDrain, Store, RateLimitedUntilDate
  <2>5. CASE Tick \/ Crash
    BY <2>5 DEF Tick, Crash
  <2> QED
    BY <2>1, <2>2, <2>3, <2>4, <2>5 DEF Next, Answer, Succeed
<1> QED
  BY <1>1, Invariance, PTL DEF Spec, NeverResurrected

\* The table and the drain loop implement the durable outbox: the row of a
\* record is deleted only when the PDS has a copy.
THEOREM ImplementsOutbox == Spec => KeepsPromise
<1>1. Init => Outbox!Init
  BY BoundAssumption DEF Init, Outbox!Init, Ids
<1>2. IndInv /\ [Next]_vars => [Outbox!Next]_(Outbox!outbox)
  <2> SUFFICES ASSUME IndInv, [Next]_vars
               PROVE  Outbox!Next \/ UNCHANGED Outbox!outbox
    OBVIOUS
  <2> USE DEF Outbox!outbox
  <2>1. CASE Enqueue
    <3>1. nextId \in Ids /\ nextId \notin 1 .. nextId - 1
      BY <2>1 DEF Enqueue, IndInv, TypeOK, Ids
    <3>2. 1 .. nextId' - 1 = (1 .. nextId - 1) \cup {nextId}
      BY <2>1, BoundAssumption DEF Enqueue, IndInv, TypeOK
    <3>3. DOMAIN rows' = DOMAIN rows \cup {nextId}
      BY <2>1 DEF Enqueue, Insert
    <3>4. Outbox!Submit(nextId)
      BY <2>1, <3>1, <3>2, <3>3 DEF Enqueue, Outbox!Submit
    <3> QED
      BY <3>1, <3>4 DEF Outbox!Next
  <2>2. ASSUME NEW d \in Drains, NEW id \in drain[d].todo, Store(d, id)
        PROVE  Outbox!Next \/ UNCHANGED Outbox!outbox
    <3>1. id \in Ids /\ id \in 1 .. nextId - 1
      BY CurrentInIds DEF IndInv
    <3>2. {i \in Ids : copies'[i] > 0} = {i \in Ids : copies[i] > 0} \cup {id}
      BY <2>2, <3>1 DEF Store, IndInv, TypeOK
    <3>3. CASE id \in DOMAIN rows
      <4>1. Outbox!Deliver(id)
        BY <2>2, <3>2, <3>3 DEF Store, Outbox!Deliver
      <4> QED
        BY <3>1, <4>1 DEF Outbox!Next
    <3>4. CASE id \notin DOMAIN rows
      <4>1. copies[id] > 0
        BY <3>1, <3>4 DEF IndInv, NoLoss
      <4> QED
        BY <2>2, <3>1, <3>2, <4>1 DEF Store
    <3> QED
      BY <3>3, <3>4
  <2>3. ASSUME NEW d \in Drains, NEW id \in drain[d].todo, MarkDone(d, id)
        PROVE  Outbox!Next \/ UNCHANGED Outbox!outbox
    <3>1. id \in Ids /\ copies[id] > 0
      BY <2>3, CurrentInIds DEF MarkDone, IndInv, StoredHasCopy
    <3>2. DOMAIN rows' = DOMAIN rows \ {id}
      BY <2>3 DEF MarkDone, Delete
    <3>3. CASE id \in DOMAIN rows
      <4>1. Outbox!Release(id)
        BY <2>3, <3>1, <3>2, <3>3 DEF MarkDone, Outbox!Release
      <4> QED
        BY <3>1, <4>1 DEF Outbox!Next
    <3>4. CASE id \notin DOMAIN rows
      BY <2>3, <3>2, <3>4 DEF MarkDone
    <3> QED
      BY <3>3, <3>4
  <2>4. ASSUME NEW d \in Drains, NEW id \in drain[d].todo,
               \/ MarkFailed(d, id)
               \/ \E delay \in RetryAfters : RateLimited(d, id, delay)
        PROVE  UNCHANGED Outbox!outbox
    BY <2>4 DEF MarkFailed, RateLimited, Reschedule
  <2>5. ASSUME NEW d \in Drains, StartDrain(d) \/ RateLimitedUntilDate(d)
        PROVE  UNCHANGED Outbox!outbox
    BY <2>5 DEF StartDrain, RateLimitedUntilDate
  <2>6. CASE Tick \/ Crash \/ UNCHANGED vars
    BY <2>6 DEF Tick, Crash, vars
  <2> QED
    BY <2>1, <2>2, <2>3, <2>4, <2>5, <2>6 DEF Next, Answer, Succeed
<1> QED
  BY <1>1, <1>2, Invariance, PTL DEF Spec, KeepsPromise, Outbox!Spec

-----------------------------------------------------------------------------
(* The copies of a record.                                                 *)

\* Who waits for the answer to a call that stored the record, and who has yet to
\* send it or to hear that it was stored.
WaitingAt(id) == {d \in Drains : Stored(d, id)}
SendingAt(id) == {d \in Drains : id \in drain[d].todo /\ ~ Stored(d, id)}

CopiedOne(id) ==
  /\ id >= nextId => copies[id] = 0 /\ unheard[id] = 0
  /\ id \in DOMAIN rows => copies[id] = unheard[id] + Cardinality(WaitingAt(id))
  /\ id \notin DOMAIN rows =>
       copies[id] + Cardinality(SendingAt(id)) <= unheard[id] + Cardinality(Drains)

Copied == \A id \in Ids : CopiedOne(id)

\* Nobody is in both sets, which are finite.
LEMMA Apart ==
  ASSUME NEW id
  PROVE  /\ Cardinality(Drains) \in Nat
         /\ IsFiniteSet(WaitingAt(id)) /\ Cardinality(WaitingAt(id)) \in Nat
         /\ IsFiniteSet(SendingAt(id)) /\ Cardinality(SendingAt(id)) \in Nat
         /\ Cardinality(WaitingAt(id)) + Cardinality(SendingAt(id)) <= Cardinality(Drains)
<1> DEFINE W == WaitingAt(id)
           S == SendingAt(id)
<1>1. W \in SUBSET Drains /\ S \in SUBSET Drains /\ W \cap S = {}
  BY DEF WaitingAt, SendingAt
<1>2. W \cup S \in SUBSET Drains
  BY <1>1
<1> HIDE DEF W, S
<1>3. IsFiniteSet(W) /\ IsFiniteSet(S)
  BY <1>1, FS_Subset, DrainsAssumption
<1>4. Cardinality(W) \in Nat /\ Cardinality(S) \in Nat /\ Cardinality(Drains) \in Nat
  BY <1>3, FS_CardinalityType, DrainsAssumption
<1>5. Cardinality(W \cup S) = Cardinality(W) + Cardinality(S) - Cardinality(W \cap S)
  BY <1>3, FS_Union
<1>6. Cardinality(W \cap S) = 0
  BY <1>1, FS_EmptySet
<1>7. Cardinality(W \cup S) <= Cardinality(Drains)
  BY <1>2, FS_Subset, DrainsAssumption
<1>8. Cardinality(W) + Cardinality(S) <= Cardinality(Drains)
  BY <1>4, <1>5, <1>6, <1>7
<1> QED
  BY <1>3, <1>4, <1>8 DEF W, S

LEMMA InitCopied == Init => Copied
<1> SUFFICES ASSUME Init, NEW id \in Ids PROVE CopiedOne(id)
  BY DEF Copied
<1>1. SendingAt(id) = {} /\ DOMAIN rows = {} /\ copies[id] = 0 /\ unheard[id] = 0
  BY DEF Init, Idle, SendingAt
<1>2. Cardinality(SendingAt(id)) = 0
  BY <1>1, FS_EmptySet
<1> QED
  BY <1>1, <1>2, Apart DEF CopiedOne

\* What each drain has of a record, and whether it is counted, does not change.
LEMMA SameCopied ==
  ASSUME NEW id, CopiedOne(id), WaitingAt(id)' = WaitingAt(id),
         SendingAt(id)' \subseteq SendingAt(id),
         id \in DOMAIN rows' <=> id \in DOMAIN rows, nextId' >= nextId, nextId \in Nat,
         nextId' \in Nat, id \in Nat, copies[id] \in Nat, unheard[id] \in Nat,
         copies'[id] = copies[id], unheard'[id] = unheard[id]
  PROVE  CopiedOne(id)'
<1>1. Cardinality(SendingAt(id)') <= Cardinality(SendingAt(id))
  BY Apart, FS_Subset
<1>2. Cardinality(SendingAt(id)') \in Nat
  BY Apart, FS_Subset, FS_CardinalityType
<1>3. Cardinality(SendingAt(id)) \in Nat /\ Cardinality(Drains) \in Nat
  BY Apart
<1>4. Cardinality(WaitingAt(id)') = Cardinality(WaitingAt(id))
  OBVIOUS
<1>5. id >= nextId' => id >= nextId
  OBVIOUS
<1> HIDE DEF WaitingAt, SendingAt
<1> QED
  BY <1>1, <1>2, <1>3, <1>4, <1>5 DEF CopiedOne

\* A drain takes its next record: it is done with this one.
LEMMA AdvanceSets ==
  ASSUME TypeOK, NEW d \in Drains, NEW id \in drain[d].todo, Current(d, id), Advance(d, id)
  PROVE  /\ \A i \in Ids \ {id} : WaitingAt(i)' = WaitingAt(i) /\ SendingAt(i)' = SendingAt(i)
         /\ WaitingAt(id)' = WaitingAt(id) \ {d}
         /\ SendingAt(id)' = SendingAt(id) \ {d}
<1>1. /\ drain'[d].stage # "stored" /\ \A e \in Drains \ {d} : drain'[e] = drain[e]
      /\ drain'[d].todo = drain[d].todo \ {id}
  BY AdvanceTyped DEF Advance, Rest, TypeOK
<1>2. \A i : ~ Stored(d, i)'
  BY <1>1 DEF Stored
<1>3. \A i \in Ids \ {id} : ~ Stored(d, i)
  BY DEF Stored, Current, TypeOK, Ids
<1>4. \A e \in Drains \ {d} : \A i : Stored(e, i)' <=> Stored(e, i)
  BY <1>1 DEF Stored, Current
<1>5. \A i \in Ids \ {id} : WaitingAt(i)' = WaitingAt(i) /\ SendingAt(i)' = SendingAt(i)
  BY <1>1, <1>2, <1>3, <1>4 DEF WaitingAt, SendingAt
<1>6. WaitingAt(id)' = WaitingAt(id) \ {d} /\ SendingAt(id)' = SendingAt(id) \ {d}
  BY <1>1, <1>2, <1>4 DEF WaitingAt, SendingAt
<1> QED
  BY <1>5, <1>6

\* The answer: a row that was there is deleted after its record was stored, or
\* stays, and a call that stored the record and failed is counted as unheard.
LEMMA AdvanceCopied ==
  ASSUME IndInv, Copied, NEW d \in Drains, NEW id \in drain[d].todo, Current(d, id),
         Advance(d, id), UNCHANGED <<nextId, copies>>,
         \A i \in Ids \ {id} : i \in DOMAIN rows' <=> i \in DOMAIN rows,
         \A i \in Ids \ {id} : unheard'[i] = unheard[i],
         unheard[id] <= unheard'[id], unheard'[id] \in Nat,
         id \in DOMAIN rows' =>
           /\ id \in DOMAIN rows
           /\ unheard'[id] = unheard[id] + IF Stored(d, id) THEN 1 ELSE 0
  PROVE  Copied'
<1>1. TypeOK /\ id \in Ids /\ id \in 1 .. nextId - 1
  BY CurrentInIds DEF IndInv
<1>2. \A i \in Ids : i \in Nat /\ copies[i] \in Nat /\ unheard[i] \in Nat
  BY <1>1 DEF TypeOK, Ids
<1>3. nextId \in Nat /\ Ids' = Ids
  BY <1>1 DEF TypeOK, Ids
<1>4. ASSUME NEW i \in Ids, i # id PROVE CopiedOne(i)'
  BY <1>1, <1>2, <1>3, <1>4, AdvanceSets, SameCopied DEF Copied
<1>5. CopiedOne(id)'
  <2> DEFINE W == WaitingAt(id)
             S == SendingAt(id)
  <2>1. /\ WaitingAt(id)' = W \ {d} /\ SendingAt(id)' = S \ {d}
        /\ d \in W <=> Stored(d, id)
    BY <1>1, AdvanceSets DEF WaitingAt
  <2>2. ~ (id >= nextId')
    BY <1>1, <1>3
  <2>3. CopiedOne(id)
    BY <1>1 DEF Copied
  <2> HIDE DEF W, S
  <2>4. /\ Cardinality(W) \in Nat /\ Cardinality(S) \in Nat /\ Cardinality(Drains) \in Nat
        /\ Cardinality(W) + Cardinality(S) <= Cardinality(Drains)
    BY Apart DEF W, S
  <2>5. /\ Cardinality(W \ {d}) = IF d \in W THEN Cardinality(W) - 1 ELSE Cardinality(W)
        /\ Cardinality(S \ {d}) = IF d \in S THEN Cardinality(S) - 1 ELSE Cardinality(S)
    BY Apart, FS_RemoveElement DEF W, S
  <2>6. CASE id \in DOMAIN rows'
    <3>1. copies[id] = unheard[id] + Cardinality(W)
      BY <2>3, <2>6 DEF CopiedOne, W
    <3>2. copies'[id] = unheard'[id] + Cardinality(W \ {d})
      BY <1>1, <1>2, <2>1, <2>4, <2>5, <2>6, <3>1
    <3> QED
      BY <2>1, <2>2, <2>6, <3>2 DEF CopiedOne
  <2>7. CASE id \notin DOMAIN rows'
    <3>1. copies[id] + Cardinality(S) <= unheard[id] + Cardinality(Drains)
      <4>1. CASE id \in DOMAIN rows
        <5>1. copies[id] = unheard[id] + Cardinality(W)
          BY <2>3, <4>1 DEF CopiedOne, W
        <5> QED
          BY <1>1, <1>2, <2>4, <5>1
      <4>2. CASE id \notin DOMAIN rows
        BY <2>3, <4>2 DEF CopiedOne, S
      <4> QED
        BY <4>1, <4>2
    <3>2. Cardinality(S \ {d}) <= Cardinality(S) /\ Cardinality(S \ {d}) \in Nat
      <4>1. IsFiniteSet(S) /\ S \ {d} \in SUBSET S
        BY Apart DEF S
      <4> QED
        BY <4>1, FS_Subset, FS_CardinalityType
    <3>3. copies'[id] + Cardinality(S \ {d}) <= unheard'[id] + Cardinality(Drains)
      BY <1>1, <1>2, <2>4, <3>1, <3>2
    <3> QED
      BY <2>1, <2>2, <2>7, <3>3 DEF CopiedOne
  <2> QED
    BY <2>6, <2>7
<1> QED
  BY <1>3, <1>4, <1>5 DEF Copied

\* A new key: nobody has it, the PDS has no copy.
LEMMA EnqueueCopied ==
  ASSUME TypeOK, Copied, rows' = Insert(rows, nextId), nextId' = nextId + 1,
         UNCHANGED <<drain, copies, unheard>>
  PROVE  Copied'
<1>1. nextId \in Nat /\ DOMAIN rows' = DOMAIN rows \cup {nextId}
  BY DEF TypeOK, Insert
<1>2. \A i \in Ids : i \in Nat /\ copies[i] \in Nat /\ unheard[i] \in Nat
  BY DEF TypeOK, Ids
<1>3. \A i : WaitingAt(i)' = WaitingAt(i) /\ SendingAt(i)' = SendingAt(i)
  BY DEF WaitingAt, SendingAt, Stored, Current
<1>4. ASSUME NEW i \in Ids, i # nextId PROVE CopiedOne(i)'
  BY <1>1, <1>2, <1>3, <1>4, SameCopied DEF Copied
<1>5. ASSUME NEW i \in Ids, i = nextId PROVE CopiedOne(i)'
  <2>1. copies'[i] = 0 /\ unheard'[i] = 0
    BY <1>1, <1>5 DEF Copied, CopiedOne
  <2>2. WaitingAt(i)' = {}
    BY <1>1, <1>5 DEF WaitingAt, Stored, Current, TypeOK
  <2>3. Cardinality(WaitingAt(i)') = 0
    BY <2>2, FS_EmptySet
  <2>4. i \in DOMAIN rows' /\ ~ (i >= nextId')
    BY <1>1, <1>5
  <2> QED
    BY <2>1, <2>3, <2>4 DEF CopiedOne
<1> QED
  BY <1>4, <1>5 DEF Copied, Ids

\* Something else fails and is counted.
LEMMA CountKeeps ==
  ASSUME IndInv, failures' \in Nat,
         UNCHANGED <<rows, nextId, drain, copies, unheard, crashes>>
  PROVE  IndInv' /\ (Copied => Copied')
<1>1. TypeOK'
  BY DEF IndInv, TypeOK
<1>2. StoredHasCopy' /\ NoLoss'
  BY DEF IndInv, StoredHasCopy, NoLoss, Current
<1>3. Copied => Copied'
  BY DEF Copied, CopiedOne, WaitingAt, SendingAt, Stored, Current
<1> QED
  BY <1>1, <1>2, <1>3 DEF IndInv

LEMMA NextCopied == IndInv /\ Copied /\ [Next]_vars => Copied'
<1> SUFFICES ASSUME IndInv, Copied, [Next]_vars PROVE Copied'
  OBVIOUS
<1>0. TypeOK
  BY DEF IndInv
<1>00. \A i \in Ids : i \in Nat /\ copies[i] \in Nat /\ unheard[i] \in Nat
  BY <1>0 DEF TypeOK, Ids
<1>01. nextId \in Nat
  BY <1>0 DEF TypeOK
<1>1. CASE Enqueue
  BY <1>0, <1>1, EnqueueCopied DEF Enqueue
<1>2. ASSUME NEW d \in Drains, StartDrain(d) PROVE Copied'
  <2>1. /\ drain'[d] = [todo |-> Ready, stage |-> "sent"] /\ drain[d].stage = "idle"
        /\ \A e \in Drains \ {d} : drain'[e] = drain[e]
    BY <1>0, <1>2 DEF StartDrain, TypeOK
  <2>2. \A i : WaitingAt(i)' = WaitingAt(i)
    BY <2>1 DEF WaitingAt, Stored, Current
  <2>3. \A i : i \notin DOMAIN rows => SendingAt(i)' = SendingAt(i)
    <3> SUFFICES ASSUME NEW i, i \notin DOMAIN rows PROVE SendingAt(i)' = SendingAt(i)
      OBVIOUS
    <3>1. i \notin drain'[d].todo /\ i \notin drain[d].todo
      BY <1>0, <2>1 DEF TypeOK, Ready
    <3> QED
      BY <2>1, <3>1 DEF SendingAt, Stored, Current
  <2>4. UNCHANGED <<rows, nextId, copies, unheard>>
    BY <1>2 DEF StartDrain
  <2> QED
    BY <2>2, <2>3, <2>4 DEF Copied, CopiedOne
<1>3. ASSUME NEW d \in Drains, NEW id \in drain[d].todo, Store(d, id)
      PROVE  Copied'
  <2>1. id \in Ids /\ id \in 1 .. nextId - 1
    BY <1>0, CurrentInIds
  <2>2. /\ drain'[d].todo = drain[d].todo /\ drain'[d].stage = "stored"
        /\ drain[d].stage = "sent" /\ Current(d, id)
        /\ \A e \in Drains \ {d} : drain'[e] = drain[e]
        /\ copies'[id] = copies[id] + 1
        /\ \A i \in Ids \ {id} : copies'[i] = copies[i]
        /\ UNCHANGED <<rows, nextId, unheard>>
    BY <1>0, <1>3, <2>1 DEF Store, TypeOK
  <2>3. \A e \in Drains \ {d} : \A i : Stored(e, i)' <=> Stored(e, i)
    BY <2>2 DEF Stored, Current
  <2>4. \A i : ~ Stored(d, i)
    BY <2>2 DEF Stored
  <2>5. Stored(d, id)' /\ \A i \in Ids \ {id} : ~ Stored(d, i)'
    BY <1>0, <2>1, <2>2 DEF Stored, Current, TypeOK, Ids
  <2>6. ASSUME NEW i \in Ids, i # id PROVE CopiedOne(i)'
    <3>1. WaitingAt(i)' = WaitingAt(i) /\ SendingAt(i)' = SendingAt(i)
      BY <2>2, <2>3, <2>4, <2>5, <2>6 DEF WaitingAt, SendingAt
    <3> QED
      BY <1>00, <1>01, <2>2, <2>6, <3>1, SameCopied DEF Copied
  <2>7. CopiedOne(id)'
    <3> DEFINE W == WaitingAt(id)
               S == SendingAt(id)
    <3>1. /\ WaitingAt(id)' = W \cup {d} /\ SendingAt(id)' = S \ {d}
          /\ d \notin W /\ d \in S
      BY <2>2, <2>3, <2>4, <2>5 DEF WaitingAt, SendingAt
    <3>2. CopiedOne(id)
      BY <2>1 DEF Copied
    <3> HIDE DEF W, S
    <3>3. Cardinality(W) \in Nat /\ Cardinality(S) \in Nat /\ Cardinality(Drains) \in Nat
      BY Apart DEF W, S
    <3>4. /\ Cardinality(W \cup {d}) = Cardinality(W) + 1
          /\ Cardinality(S \ {d}) = Cardinality(S) - 1
      BY <3>1, Apart, FS_AddElement, FS_RemoveElement DEF W, S
    <3>5. /\ id \in DOMAIN rows => copies[id] = unheard[id] + Cardinality(W)
          /\ id \notin DOMAIN rows =>
               copies[id] + Cardinality(S) <= unheard[id] + Cardinality(Drains)
      BY <3>2 DEF CopiedOne, W, S
    <3>6. copies[id] \in Nat /\ unheard[id] \in Nat /\ ~ (id >= nextId')
      BY <1>00, <1>01, <2>1, <2>2
    <3>7. /\ id \in DOMAIN rows => copies'[id] = unheard[id] + Cardinality(W \cup {d})
          /\ id \notin DOMAIN rows =>
               copies'[id] + Cardinality(S \ {d}) <= unheard[id] + Cardinality(Drains)
      BY <2>2, <3>3, <3>4, <3>5, <3>6
    <3> QED
      BY <2>2, <3>1, <3>6, <3>7 DEF CopiedOne
  <2> QED
    BY <2>6, <2>7 DEF Copied, Ids
<1>4. ASSUME NEW d \in Drains, NEW id \in drain[d].todo, MarkDone(d, id)
      PROVE  Copied'
  <2>1. id \in Ids
    BY <1>0, CurrentInIds
  <2> QED
    BY <1>00, <1>4, <2>1, AdvanceCopied DEF MarkDone, Delete
<1>5. ASSUME NEW d \in Drains, NEW id \in drain[d].todo, MarkFailed(d, id)
      PROVE  Copied'
  <2>1. id \in Ids /\ DOMAIN rows' = DOMAIN rows
    BY <1>0, <1>5, CurrentInIds DEF MarkFailed, Reschedule
  <2>2. /\ unheard'[id] = unheard[id] + IF Stored(d, id) THEN 1 ELSE 0
        /\ \A i \in Ids \ {id} : unheard'[i] = unheard[i]
    BY <1>0, <1>5, <2>1 DEF MarkFailed, TypeOK
  <2>3. unheard[id] <= unheard'[id] /\ unheard'[id] \in Nat
    BY <1>00, <2>1, <2>2
  <2> QED
    BY <1>5, <2>1, <2>2, <2>3, AdvanceCopied DEF MarkFailed
<1>6. ASSUME NEW d \in Drains, NEW id \in drain[d].todo,
             NEW delay \in RetryAfters, RateLimited(d, id, delay)
      PROVE  Copied'
  <2>1. id \in Ids /\ DOMAIN rows' = DOMAIN rows /\ ~ Stored(d, id)
    BY <1>0, <1>6, CurrentInIds DEF RateLimited, Reschedule, Stored
  <2> QED
    BY <1>00, <1>6, <2>1, AdvanceCopied DEF RateLimited
<1>7. ASSUME NEW d \in Drains, RateLimitedUntilDate(d) PROVE Copied'
  <2>1. /\ drain'[d] = Idle /\ drain[d].stage = "sent"
        /\ \A e \in Drains \ {d} : drain'[e] = drain[e]
        /\ UNCHANGED <<rows, nextId, copies, unheard>>
    BY <1>0, <1>7 DEF RateLimitedUntilDate, TypeOK
  <2>2. \A i : WaitingAt(i)' = WaitingAt(i) /\ SendingAt(i)' \subseteq SendingAt(i)
    BY <2>1 DEF WaitingAt, SendingAt, Stored, Current, Idle
  <2> QED
    BY <1>00, <1>01, <2>1, <2>2, SameCopied DEF Copied, Ids
<1>8. CASE Tick
  <2>1. DOMAIN rows' = DOMAIN rows /\ UNCHANGED <<nextId, drain, copies, unheard>>
    BY <1>8 DEF Tick
  <2> QED
    BY <2>1 DEF Copied, CopiedOne, WaitingAt, SendingAt, Stored, Current
<1>9. CASE Crash
  <2> SUFFICES ASSUME NEW id \in Ids PROVE CopiedOne(id)'
    BY DEF Copied, Ids
  <2>1. /\ WaitingAt(id)' = {} /\ SendingAt(id)' = {}
        /\ unheard'[id] = unheard[id] + Cardinality(WaitingAt(id))
        /\ UNCHANGED <<rows, nextId, copies>>
    BY <1>9 DEF Crash, WaitingAt, SendingAt, Stored, Idle, Waiting
  <2>2. Cardinality(WaitingAt(id)') = 0 /\ Cardinality(SendingAt(id)') = 0
    BY <2>1, FS_EmptySet
  <2>3. CopiedOne(id)
    BY DEF Copied
  <2>4. Cardinality(WaitingAt(id)) = 0 \/ id < nextId
    <3>1. CASE id >= nextId
      <4>1. WaitingAt(id) = {}
        BY <1>0, <3>1 DEF WaitingAt, Stored, Current, TypeOK
      <4> QED
        BY <4>1, FS_EmptySet
    <3> QED
      BY <1>00, <1>01, <3>1
  <2> DEFINE w == Cardinality(WaitingAt(id))
             s == Cardinality(SendingAt(id))
  <2>5. w \in Nat /\ s \in Nat /\ Cardinality(Drains) \in Nat
    BY Apart
  <2>6. /\ id >= nextId => copies[id] = 0 /\ unheard[id] = 0
        /\ id \in DOMAIN rows => copies[id] = unheard[id] + w
        /\ id \notin DOMAIN rows => copies[id] + s <= unheard[id] + Cardinality(Drains)
    BY <2>3 DEF CopiedOne
  <2>7. unheard'[id] = unheard[id] + w /\ (w = 0 \/ id < nextId)
    BY <2>1, <2>4
  <2> HIDE DEF w, s
  <2>8. /\ id >= nextId => copies[id] = 0 /\ unheard'[id] = 0
        /\ id \in DOMAIN rows => copies[id] = unheard'[id] + 0
        /\ id \notin DOMAIN rows => copies[id] + 0 <= unheard'[id] + Cardinality(Drains)
    BY <1>00, <1>01, <2>5, <2>6, <2>7
  <2> QED
    BY <2>1, <2>2, <2>8 DEF CopiedOne
<1>10. CASE UNCHANGED vars
  BY <1>10 DEF vars, Copied, CopiedOne, WaitingAt, SendingAt, Stored, Current
<1> QED
  BY <1>1, <1>2, <1>3, <1>4, <1>5, <1>6, <1>7, <1>8, <1>9, <1>10
     DEF Next, Answer, Succeed

LEMMA CopiedExplains == IndInv /\ Copied => RepeatsExplained
<1> SUFFICES ASSUME IndInv, Copied, NEW id \in Ids
             PROVE  /\ id \in DOMAIN rows => copies[id] = unheard[id] + Waiting(id)
                    /\ copies[id] <= unheard[id] + Cardinality(Drains)
  BY DEF RepeatsExplained
<1> DEFINE w == Cardinality(WaitingAt(id))
           s == Cardinality(SendingAt(id))
<1>1. copies[id] \in Nat /\ unheard[id] \in Nat
  BY DEF IndInv, TypeOK
<1>2. w \in Nat /\ s \in Nat /\ w + s <= Cardinality(Drains) /\ Cardinality(Drains) \in Nat
  BY Apart
<1>3. /\ id \in DOMAIN rows => copies[id] = unheard[id] + w
      /\ id \notin DOMAIN rows => copies[id] + s <= unheard[id] + Cardinality(Drains)
  BY DEF Copied, CopiedOne
<1>4. Waiting(id) = w
  BY DEF Waiting, WaitingAt
<1> HIDE DEF w, s
<1> QED
  BY <1>1, <1>2, <1>3, <1>4

\* While its row is in the table a record has a copy at the PDS only for answers that are
\* on their way or never came; afterwards at most one for each drain on top of these.
THEOREM CopiesExplained == Spec => []RepeatsExplained
<1>1. Init => IndInv /\ Copied
  BY InitIndInv, InitCopied
<1>2. (IndInv /\ Copied) /\ [Next]_vars => (IndInv /\ Copied)'
  BY NextIndInv, NextCopied
<1> QED
  BY <1>1, <1>2, CopiedExplains, PTL DEF Spec

=============================================================================

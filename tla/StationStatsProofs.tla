------------------------- MODULE StationStatsProofs -------------------------
(***************************************************************************)
(* Proofs about StationStats, for any number of aircraft, handlers,        *)
(* windows, transits, flushes, drains, failures and lives of the daemon:   *)
(* StatsAccounted, RecordsHeld and RepeatedForCause.                       *)
(*                                                                         *)
(* StatsAccounted counts records; Sums says the same with sets: what was   *)
(* received or credited is split over the records, the open period and     *)
(* what a dying process dropped.  What a handler credits is new because a  *)
(* transit is at one place, with the aircraft in the tracker, with one     *)
(* handler or credited (Departures).  RepeatedForCause needs RowsApart, a  *)
(* record's row is its only way left to the PDS, and of the queue below    *)
(* what Copied of PublishQueueProofs counts (that module is instantiated:  *)
(* the queue's own lemmas hold here step by step).                         *)
(***************************************************************************)
EXTENDS StationStats, SequenceTheorems, FiniteSetTheorems, TLAPS

\* What is proved of the queue alone holds of the one the statistics use.
QueueProofs == INSTANCE PublishQueueProofs

-----------------------------------------------------------------------------
(* Sequences of transits.                                                  *)

Distinct(q) == \A i, j \in 1 .. Len(q) : q[i] = q[j] => i = j

LEMMA Members ==
  ASSUME NEW S, NEW q \in Seq(S)
  PROVE  \A t : t \in ToSet(q) <=> \E i \in 1 .. Len(q) : q[i] = t
<1>1. DOMAIN q = 1 .. Len(q)
  BY LenProperties
<1> QED
  BY <1>1 DEF ToSet

\* What is left of a sequence after its first n elements.
LEMMA Suffix ==
  ASSUME NEW S, NEW q \in Seq(S), NEW n \in 0 .. Len(q)
  PROVE  LET s == SubSeq(q, n + 1, Len(q))
         IN  /\ s \in Seq(S)
             /\ ToSet(s) \subseteq ToSet(q)
             /\ Distinct(q) => Distinct(s)
             /\ n < Len(q) => s # << >>
             /\ \A i \in 1 .. n : Distinct(q) => q[i] \notin ToSet(s)
<1> DEFINE s == SubSeq(q, n + 1, Len(q))
<1>1. n \in Nat /\ Len(q) \in Nat /\ n <= Len(q) /\ \A i \in 1 .. Len(q) : q[i] \in S
  BY LenProperties, ElementOfSeq
<1>2. s \in Seq(S) /\ Len(s) = Len(q) - n /\ \A i \in 1 .. Len(q) - n : s[i] = q[n + i]
  <2>1. \A i \in n + 1 .. Len(q) : q[i] \in S
    BY <1>1
  <2>2. /\ s \in Seq(S)
        /\ Len(s) = IF n + 1 <= Len(q) THEN Len(q) - (n + 1) + 1 ELSE 0
        /\ \A i \in 1 .. Len(q) - (n + 1) + 1 : s[i] = q[(n + 1) + i - 1]
    BY <1>1, <2>1, SubSeqProperties, n + 1 \in Int, Len(q) \in Int
  <2>3. /\ Len(q) - (n + 1) + 1 = Len(q) - n
        /\ \A i \in 1 .. Len(q) - n : (n + 1) + i - 1 = n + i
        /\ (IF n + 1 <= Len(q) THEN Len(q) - (n + 1) + 1 ELSE 0) = Len(q) - n
    BY <1>1
  <2> QED
    BY <2>2, <2>3
<1> HIDE DEF s
<1>3. \A i \in 1 .. Len(s) : n + i \in 1 .. Len(q)
  BY <1>1, <1>2
<1>4. ToSet(s) \subseteq ToSet(q)
  <2> SUFFICES ASSUME NEW t \in ToSet(s) PROVE t \in ToSet(q)
    OBVIOUS
  <2>1. PICK i \in 1 .. Len(s) : s[i] = t
    BY <1>2, Members
  <2>2. q[n + i] = t /\ n + i \in 1 .. Len(q)
    BY <1>2, <1>3, <2>1
  <2> QED
    BY <2>2, Members
<1>5. ASSUME Distinct(q) PROVE Distinct(s)
  <2> SUFFICES ASSUME NEW i \in 1 .. Len(s), NEW j \in 1 .. Len(s), s[i] = s[j]
               PROVE  i = j
    BY DEF Distinct
  <2>1. q[n + i] = q[n + j] /\ n + i \in 1 .. Len(q) /\ n + j \in 1 .. Len(q)
    BY <1>2, <1>3
  <2>2. n + i = n + j
    BY <1>5, <2>1 DEF Distinct
  <2> QED
    BY <1>1, <1>2, <2>2
<1>6. ASSUME n < Len(q) PROVE s # << >>
  <2>1. Len(s) > 0
    BY <1>1, <1>2, <1>6
  <2> QED
    BY <2>1, EmptySeq
<1>7. ASSUME Distinct(q), NEW i \in 1 .. n PROVE q[i] \notin ToSet(s)
  <2> SUFFICES ASSUME NEW k \in 1 .. Len(s), s[k] = q[i] PROVE FALSE
    BY <1>2, Members
  <2>1. q[n + k] = q[i] /\ n + k \in 1 .. Len(q) /\ i \in 1 .. Len(q) /\ n + k # i
    BY <1>1, <1>2, <1>3
  <2> QED
    BY <2>1, <1>7 DEF Distinct
<1> QED
  BY <1>2, <1>4, <1>5, <1>6, <1>7 DEF s

LEMMA HeadAndTail ==
  ASSUME NEW S, NEW q \in Seq(S), q # << >>, Distinct(q)
  PROVE  /\ Head(q) \in S /\ Head(q) \in ToSet(q)
         /\ Tail(q) \in Seq(S) /\ Distinct(Tail(q))
         /\ ToSet(Tail(q)) \subseteq ToSet(q) \ {Head(q)}
<1>1. Len(q) \in Nat \ {0}
  BY EmptySeq, LenProperties
<1>2. Tail(q) = SubSeq(q, 1 + 1, Len(q))
  BY TailIsSubSeq
<1>3. Head(q) = q[1] /\ 1 \in 1 .. Len(q) /\ 1 \in 0 .. Len(q)
  BY <1>1
<1>4. Head(q) \in S /\ Head(q) \in ToSet(q)
  BY <1>3, ElementOfSeq, Members
<1>5. LET s == SubSeq(q, 1 + 1, Len(q))
      IN  /\ s \in Seq(S) /\ ToSet(s) \subseteq ToSet(q) /\ Distinct(s)
          /\ q[1] \notin ToSet(s)
  BY <1>3, Suffix, 1 \in 1 .. 1
<1> QED
  BY <1>2, <1>3, <1>4, <1>5

\* The order a message's departures are handled in.
LEMMA Orders ==
  ASSUME NEW S, IsFiniteSet(S), NEW q \in SetToSeqs(S)
  PROVE  q \in Seq(S) /\ Distinct(q)
<1>1. Cardinality(S) \in Nat
  BY FS_CardinalityType
<1>2. q \in [1 .. Cardinality(S) -> S]
      /\ \A i, j \in 1 .. Cardinality(S) : i # j => q[i] # q[j]
  BY DEF SetToSeqs
<1>3. q \in Seq(S) /\ Len(q) = Cardinality(S)
  BY <1>1, <1>2
<1> QED
  BY <1>2, <1>3 DEF Distinct

-----------------------------------------------------------------------------
(* Transits and the handlers of their departures.                          *)

HandlerState == [todo : Seq(Transits), present : SUBSET Aircraft,
                 stage : {"idle", "signing", "awaiting"}, began : Nat]

\* A handler has each of its departures once, and waits for one of them.
Shaped(x) == /\ x \in HandlerState
             /\ Distinct(x.todo)
             /\ x.stage = "awaiting" => x.todo # << >>

Ended == {t \in Transits : t[2] <= transit[t[1]]}
Todo(h) == ToSet(handler[h].todo)

\* A transit is at one place: with the aircraft in the tracker, with one handler, or
\* credited.
Departures ==
  /\ transit \in [Aircraft -> 0 .. MaxTransits]
  /\ tracked \subseteq Aircraft
  /\ handler \in [Handlers -> HandlerState]
  /\ \A h \in Handlers : Shaped(handler[h]) /\ Todo(h) \subseteq Ended \ credited
  /\ \A h, k \in Handlers : h # k => Todo(h) \cap Todo(k) = {}
  /\ credited \subseteq Ended
  /\ \A a \in tracked :
       /\ transit[a] > 0
       /\ <<a, transit[a]>> \notin credited
       /\ \A h \in Handlers : <<a, transit[a]>> \notin Todo(h)

LEMMA IdleShaped == Shaped(Idle) /\ ToSet(Idle.todo) = {}
<1>1. << >> \in Seq(Transits) /\ Len(<< >>) = 0
  BY EmptySeq
<1>2. \A t : t \in ToSet(<< >>) <=> \E i \in 1 .. Len(<< >>) : << >>[i] = t
  BY <1>1, Members
<1>3. ToSet(<< >>) = {}
  BY <1>1, <1>2
<1> QED
  BY <1>1, <1>3 DEF Shaped, Idle, HandlerState, Distinct

\* A handler that has less to do than before, what it is rid of perhaps credited, leaves
\* the others as they are.
LEMMA DeparturesShrink ==
  ASSUME Departures, NEW h \in Handlers, NEW x, Shaped(x),
         handler' = [handler EXCEPT ![h] = x],
         ToSet(x.todo) \subseteq Todo(h),
         NEW C, C \subseteq Todo(h) \ ToSet(x.todo), credited' = credited \cup C,
         UNCHANGED <<tracked, transit>>
  PROVE  Departures'
<1>1. /\ handler' \in [Handlers -> HandlerState]
      /\ handler'[h] = x /\ \A k \in Handlers \ {h} : handler'[k] = handler[k]
  BY DEF Departures, Shaped
<1>2. Todo(h)' = ToSet(x.todo) /\ \A k \in Handlers \ {h} : Todo(k)' = Todo(k)
  BY <1>1 DEF Todo
<1>3. \A k \in Handlers : Todo(k)' \subseteq Todo(k) \ C
  BY <1>2 DEF Departures
<1>4. Ended' = Ended
  BY DEF Ended
<1>5. \A k \in Handlers : Shaped(handler[k])'
  BY <1>1 DEF Departures
<1>6. \A k \in Handlers : Todo(k)' \subseteq (Ended \ credited)'
  BY <1>3, <1>4 DEF Departures
<1>7. \A k, l \in Handlers : k # l => Todo(k)' \cap Todo(l)' = {}
  BY <1>3 DEF Departures
<1>8. credited' \subseteq Ended'
  BY <1>4 DEF Departures
<1>9. \A a \in tracked' : /\ (transit[a] > 0)'
                          /\ <<a, transit'[a]>> \notin credited'
                          /\ \A k \in Handlers : <<a, transit'[a]>> \notin Todo(k)'
  BY <1>3 DEF Departures
<1> QED
  BY <1>1, <1>5, <1>6, <1>7, <1>8, <1>9 DEF Departures

\* A message: those who come begin a transit that nothing knows yet, those who go
\* leave theirs to the handler.
LEMMA DeparturesMessage ==
  ASSUME Departures, NEW h \in Handlers, NEW present \in SUBSET Aircraft,
         NEW gone \in SUBSET Aircraft, gone \subseteq tracked \ present,
         OnAircraft(h, present, gone), Len(records) \in Nat, IsFiniteSet(Aircraft)
  PROVE  Departures'
<1> DEFINE S == {<<a, transit[a]>> : a \in gone}
<1>1. PICK todo \in SetToSeqs(S) :
        handler' = [handler EXCEPT ![h] = [todo |-> todo, present |-> present,
                                           stage |-> "signing",
                                           began |-> Len(records)]]
  BY DEF OnAircraft
<1> DEFINE x == [todo |-> todo, present |-> present, stage |-> "signing",
                 began |-> Len(records)]
<1>2. IsFiniteSet(S)
  <2>1. S \subseteq Aircraft \X (0 .. MaxTransits)
    BY DEF Departures
  <2>2. IsFiniteSet(0 .. MaxTransits)
    <3>1. 0 \in Int /\ MaxTransits \in Int
      BY CountAssumption
    <3> QED
      BY <3>1, FS_Interval
  <2>3. IsFiniteSet(Aircraft \X (0 .. MaxTransits))
    BY <2>2, FS_Product
  <2> QED
    BY <2>1, <2>3, FS_Subset
<1>3. S \subseteq Transits
  BY DEF Departures, Transits
<1>4. todo \in Seq(S) /\ Distinct(todo)
  BY <1>2, Orders
<1>5. todo \in Seq(Transits) /\ ToSet(todo) \subseteq S
  BY <1>3, <1>4, SeqMonotonic, Members, ElementOfSeq
<1>6. Shaped(x)
  BY <1>4, <1>5 DEF Shaped, HandlerState
<1>7. /\ handler' \in [Handlers -> HandlerState]
      /\ handler'[h] = x /\ \A k \in Handlers \ {h} : handler'[k] = handler[k]
  BY <1>1, <1>6 DEF Departures, Shaped
<1>8. Todo(h)' \subseteq S /\ \A k \in Handlers \ {h} : Todo(k)' = Todo(k)
  BY <1>5, <1>7 DEF Todo
<1>9. /\ transit' \in [Aircraft -> 0 .. MaxTransits]
      /\ \A a \in present \ tracked : transit'[a] = transit[a] + 1
      /\ \A a \in Aircraft : a \notin present \ tracked => transit'[a] = transit[a]
      /\ tracked' = (tracked \cup present) \ gone /\ credited' = credited
  BY CountAssumption DEF OnAircraft, Departures, Tracked
<1>10. Ended \subseteq Ended'
  BY <1>9, CountAssumption DEF Ended, Departures, Transits
<1>11. \A a \in present \ tracked : <<a, transit'[a]>> \notin Ended
  BY <1>9, CountAssumption DEF Ended, Departures
<1>12. \A s \in S : /\ s \in Ended \ credited
                    /\ \A k \in Handlers : s \notin Todo(k)
  BY <1>3 DEF Departures, Ended
<1>13. \A k \in Handlers : Shaped(handler[k])'
  BY <1>6, <1>7 DEF Departures
<1>14. \A k \in Handlers : Todo(k)' \subseteq (Ended \ credited)'
  BY <1>8, <1>9, <1>10, <1>12 DEF Departures
<1>15. \A k, l \in Handlers : k # l => Todo(k)' \cap Todo(l)' = {}
  BY <1>8, <1>12 DEF Departures
<1>16. ASSUME NEW a \in tracked'
       PROVE  /\ transit'[a] > 0
              /\ <<a, transit'[a]>> \notin credited'
              /\ \A k \in Handlers : <<a, transit'[a]>> \notin Todo(k)'
  <2>1. CASE a \in present \ tracked
    <3>1. <<a, transit'[a]>> \notin Ended /\ a \notin gone
      BY <1>11, <2>1
    <3>2. <<a, transit'[a]>> \notin S
      BY <3>1
    <3>3. \A k \in Handlers : <<a, transit'[a]>> \notin Todo(k)'
      <4>1. \A k \in Handlers : <<a, transit'[a]>> \notin Todo(k)
        BY <3>1 DEF Departures
      <4> QED
        BY <1>8, <3>2, <4>1
    <3>4. <<a, transit'[a]>> \notin credited'
      BY <1>9, <3>1 DEF Departures
    <3>5. transit'[a] > 0
      BY <1>9, <2>1 DEF Departures
    <3> QED
      BY <3>3, <3>4, <3>5
  <2>2. CASE a \in tracked
    <3>1. transit'[a] = transit[a] /\ a \notin gone
      BY <1>9, <1>16, <2>2 DEF Departures
    <3>2. <<a, transit'[a]>> \notin S
      BY <3>1
    <3>3. \A k \in Handlers : <<a, transit'[a]>> \notin Todo(k)'
      <4>1. \A k \in Handlers : <<a, transit'[a]>> \notin Todo(k)
        BY <2>2, <3>1 DEF Departures
      <4> QED
        BY <1>8, <3>2, <4>1
    <3>4. <<a, transit'[a]>> \notin credited' /\ transit'[a] > 0
      BY <1>9, <2>2, <3>1 DEF Departures
    <3> QED
      BY <3>3, <3>4
  <2> QED
    BY <1>9, <1>16, <2>1, <2>2
<1>17. credited' \subseteq Ended' /\ tracked' \subseteq Aircraft
  BY <1>9, <1>10 DEF Departures
<1> QED
  BY <1>7, <1>9, <1>13, <1>14, <1>15, <1>16, <1>17 DEF Departures

\* The loop goes on with no more than todo; of the accumulators it changes the aircraft
\* seen only.
GoesOn(h, todo) ==
  \E x : /\ Shaped(x) /\ ToSet(x.todo) \subseteq ToSet(todo)
         /\ handler' = [handler EXCEPT ![h] = x]
         /\ x.began \in {0, handler[h].began}
OnlySeen(period) == \E seen \in SUBSET Aircraft : open' = [period EXCEPT !.seen = seen]

LEMMA AdvanceShrinks ==
  ASSUME Departures, NEW h \in Handlers, NEW todo \in Seq(Transits), Distinct(todo),
         NEW period, period.seen \subseteq Aircraft, Advance(h, todo, period)
  PROVE  GoesOn(h, todo) /\ OnlySeen(period)
<1>1. PICK n \in 0 .. Len(todo) :
        LET done == n = Len(todo)
            met  == {todo[i][1] : i \in 1 .. IF done THEN n ELSE n + 1}
        IN  /\ open' = [period EXCEPT !.seen = @ \cup met \cup
                          IF done THEN handler[h].present ELSE {}]
            /\ handler' =
                 [handler EXCEPT ![h] =
                    IF done THEN Idle
                    ELSE [@ EXCEPT !.todo = SubSeq(todo, n + 1, Len(todo)),
                                   !.stage = "awaiting"]]
  BY DEF Advance
<1> DEFINE done == n = Len(todo)
           upto == IF done THEN n ELSE n + 1
           met  == {todo[i][1] : i \in 1 .. upto}
           rest == SubSeq(todo, n + 1, Len(todo))
<1>2. Len(todo) \in Nat /\ n \in Nat /\ n <= Len(todo) /\ upto \in Nat /\ upto <= Len(todo)
  BY LenProperties
<1>3. handler[h] \in HandlerState
  BY DEF Departures
<1>4. OnlySeen(period)
  <2>1. \A i \in 1 .. upto : todo[i] \in Transits
    BY <1>2, ElementOfSeq
  <2>2. met \subseteq Aircraft
    BY <2>1 DEF Transits
  <2>3. handler[h].present \subseteq Aircraft
    BY <1>3 DEF HandlerState
  <2>4. open' = [period EXCEPT !.seen = period.seen \cup met \cup
                   IF done THEN handler[h].present ELSE {}]
    BY <1>1
  <2> QED
    BY <2>2, <2>3, <2>4 DEF OnlySeen
<1>5. CASE done
  <2>1. handler' = [handler EXCEPT ![h] = Idle]
    BY <1>1, <1>5
  <2>2. Idle.began = 0
    BY DEF Idle
  <2> QED
    BY <1>4, <2>1, <2>2, IdleShaped DEF GoesOn
<1>6. CASE ~done
  <2> DEFINE x == [handler[h] EXCEPT !.todo = rest, !.stage = "awaiting"]
  <2>1. handler' = [handler EXCEPT ![h] = x]
    BY <1>1, <1>6
  <2>2. rest \in Seq(Transits) /\ ToSet(rest) \subseteq ToSet(todo) /\ Distinct(rest)
        /\ rest # << >>
    BY <1>2, <1>6, Suffix
  <2>3. /\ x \in HandlerState /\ x.todo = rest /\ x.began = handler[h].began
    BY <1>3, <2>2 DEF HandlerState
  <2>4. Shaped(x)
    BY <2>2, <2>3 DEF Shaped
  <2> QED
    BY <1>4, <2>1, <2>2, <2>3, <2>4 DEF GoesOn
<1> QED
  BY <1>5, <1>6

-----------------------------------------------------------------------------
(* Sums: where what was added to an accumulator is.                        *)

\* all is split over the open period cur, the records recs and what is dropped; the
\* period may be in a record as well when twice is TRUE.
Split(all, cur, recs, drop, twice) ==
  /\ all = cur \cup drop \cup UNION {recs[r] : r \in DOMAIN recs}
  /\ \A r, s \in DOMAIN recs : r # s => recs[r] \cap recs[s] = {}
  /\ \A r \in DOMAIN recs : recs[r] \cap drop = {} /\ (twice \/ recs[r] \cap cur = {})
  /\ drop \cap cur = {}

\* A new token goes to the open period.
LEMMA SplitAdd ==
  ASSUME NEW all, NEW cur, NEW recs, NEW drop, NEW twice \in BOOLEAN,
         Split(all, cur, recs, drop, twice), NEW t, t \notin all
  PROVE  Split(all \cup {t}, cur \cup {t}, recs, drop, twice)
BY DEF Split

\* The period becomes the last record; what stays open is empty, or may be twice.
LEMMA SplitRecord ==
  ASSUME NEW all, NEW cur, NEW n \in Nat, NEW recs, DOMAIN recs = 1 .. n, NEW drop,
         Split(all, cur, recs, drop, FALSE),
         NEW longer, DOMAIN longer = 1 .. n + 1, longer[n + 1] = cur,
         \A r \in 1 .. n : longer[r] = recs[r]
  PROVE  /\ Split(all, {}, longer, drop, FALSE)
         /\ Split(all, cur, longer, drop, TRUE)
<1>1. 1 .. n + 1 = (1 .. n) \cup {n + 1} /\ n + 1 \notin 1 .. n
  OBVIOUS
<1>2. UNION {longer[r] : r \in DOMAIN longer}
        = cur \cup UNION {recs[r] : r \in DOMAIN recs}
  BY <1>1
<1>3. \A r, s \in DOMAIN longer : r # s => longer[r] \cap longer[s] = {}
  BY <1>1 DEF Split
<1>4. \A r \in DOMAIN longer : longer[r] \cap drop = {}
  BY <1>1 DEF Split
<1> QED
  BY <1>2, <1>3, <1>4 DEF Split

\* The process ends: what is in no record is dropped.
LEMMA SplitDrop ==
  ASSUME NEW all, NEW cur, NEW recs, NEW drop, NEW twice \in BOOLEAN,
         Split(all, cur, recs, drop, twice),
         NEW held, \A x : x \in held <=> \E r \in DOMAIN recs : x \in recs[r]
  PROVE  Split(all, {}, recs, drop \cup (cur \ held), FALSE)
BY DEF Split

\* A token is then counted once, or waits in the open period.
LEMMA SplitCounts ==
  ASSUME NEW all, NEW cur, NEW n \in Nat, NEW recs, DOMAIN recs = 1 .. n, NEW drop,
         NEW twice \in BOOLEAN, Split(all, cur, recs, drop, twice), NEW t \in all
  PROVE  LET homes == Cardinality({r \in DOMAIN recs : t \in recs[r]})
                        + IF t \in drop THEN 1 ELSE 0
         IN  (homes = 1 /\ (t \in cur => twice)) \/ (homes = 0 /\ t \in cur)
<1> DEFINE H == {r \in DOMAIN recs : t \in recs[r]}
<1>1. CASE \E r \in DOMAIN recs : t \in recs[r]
  <2>1. PICK r \in DOMAIN recs : t \in recs[r]
    BY <1>1
  <2>2. H = {r} /\ t \notin drop /\ (t \in cur => twice)
    BY <2>1 DEF Split
  <2>3. Cardinality(H) = 1
    BY <2>2, FS_Singleton
  <2> QED
    BY <2>2, <2>3
<1>2. CASE \A r \in DOMAIN recs : t \notin recs[r]
  <2>1. H = {} /\ Cardinality(H) = 0
    BY <1>2, FS_EmptySet
  <2>2. t \in drop <=> t \notin cur
    BY <1>2 DEF Split
  <2> QED
    BY <2>1, <2>2
<1> QED
  BY <1>1, <1>2

-----------------------------------------------------------------------------
(* The queue, and the rows of records.                                     *)

\* Both instances of the queue count with the same operators.
LEMMA SameSets ==
  /\ \A S : Queue!IsFiniteSet(S) <=> QueueProofs!IsFiniteSet(S)
  /\ \A S : Queue!Cardinality(S) = QueueProofs!Cardinality(S)
<1>1. \A S : Queue!IsFiniteSet(S) <=> QueueProofs!IsFiniteSet(S)
  BY DEF Queue!IsFiniteSet, QueueProofs!IsFiniteSet
<1>2. \A S : Queue!Cardinality(S) = QueueProofs!Cardinality(S)
  BY Zenon DEF Queue!Cardinality, QueueProofs!Cardinality
<1> QED
  BY <1>1, <1>2

\* What PublishQueueProofs assumes of the constants.
LEMMA QueueReady ==
  /\ QueueProofs!IsFiniteSet(Drains)
  /\ Queue!DelayAssumption /\ Queue!RetryAssumption
  /\ Queue!SwitchAssumption /\ Queue!BoundAssumption
BY SameSets, QueueAssumption

\* The queue of StationStats is the one PublishQueueProofs is about.
LEMMA SameQueue ==
  /\ Queue!Init => QueueProofs!Init
  /\ \A d \in Drains : /\ Queue!StartDrain(d) => QueueProofs!StartDrain(d)
                       /\ Queue!Succeed(d) => QueueProofs!Succeed(d)
                       /\ Queue!Answer(d) => QueueProofs!Answer(d)
                       /\ Queue!RateLimitedUntilDate(d) =>
                            QueueProofs!RateLimitedUntilDate(d)
  /\ Queue!Tick => QueueProofs!Tick
  /\ Queue!Crash => QueueProofs!Crash
  /\ QueueProofs!TypeOK <=> Queue!TypeOK
  /\ QueueProofs!NoLoss <=> Queue!NoLoss
<1>1. Queue!Init => QueueProofs!Init
  BY DEF Queue!Init, Queue!Idle, Queue!Ids, QueueProofs!Init, QueueProofs!Idle,
         QueueProofs!Ids
<1>2. ASSUME NEW d \in Drains, Queue!StartDrain(d) PROVE QueueProofs!StartDrain(d)
  BY <1>2 DEF Queue!StartDrain, Queue!Ready, QueueProofs!StartDrain, QueueProofs!Ready
<1>3. ASSUME NEW d \in Drains, Queue!Succeed(d) PROVE QueueProofs!Succeed(d)
  BY <1>3 DEF Queue!Succeed, Queue!Store, Queue!MarkDone, Queue!Current, Queue!Advance,
              Queue!Rest, Queue!Delete,
              QueueProofs!Succeed, QueueProofs!Store, QueueProofs!MarkDone,
              QueueProofs!Current, QueueProofs!Advance, QueueProofs!Rest,
              QueueProofs!Delete
<1>4. ASSUME NEW d \in Drains, Queue!Answer(d) PROVE QueueProofs!Answer(d)
  BY <1>4 DEF Queue!Answer, Queue!MarkFailed, Queue!RateLimited, Queue!MayFail,
              Queue!Stored, Queue!Current, Queue!Advance, Queue!Rest, Queue!Reschedule,
              Queue!Backoff, QueueProofs!Answer, QueueProofs!MarkFailed, QueueProofs!RateLimited,
              QueueProofs!MayFail, QueueProofs!Stored, QueueProofs!Current, QueueProofs!Advance,
              QueueProofs!Rest, QueueProofs!Reschedule, QueueProofs!Backoff
<1>5. ASSUME NEW d \in Drains, Queue!RateLimitedUntilDate(d)
      PROVE  QueueProofs!RateLimitedUntilDate(d)
  BY <1>5 DEF Queue!RateLimitedUntilDate, Queue!Idle,
              QueueProofs!RateLimitedUntilDate, QueueProofs!Idle
<1>6. Queue!Tick => QueueProofs!Tick
  BY DEF Queue!Tick, QueueProofs!Tick
<1>7. Queue!Crash => QueueProofs!Crash
  BY SameSets DEF Queue!Crash, Queue!Idle, Queue!Waiting, Queue!Stored, Queue!Current,
                  Queue!Ids, QueueProofs!Crash, QueueProofs!Idle, QueueProofs!Waiting,
                  QueueProofs!Stored, QueueProofs!Current, QueueProofs!Ids
<1>8. QueueProofs!TypeOK <=> Queue!TypeOK
  BY DEF Queue!TypeOK, Queue!Row, Queue!Ids, QueueProofs!TypeOK, QueueProofs!Row,
         QueueProofs!Ids
<1>9. QueueProofs!NoLoss <=> Queue!NoLoss
  BY DEF Queue!NoLoss, QueueProofs!NoLoss
<1> QED
  BY <1>1, <1>2, <1>3, <1>4, <1>5, <1>6, <1>7, <1>8, <1>9

\* A record is in one row at most, and then not on its way; nor was its own call
\* answered.
RowsApart ==
  /\ \A i, j \in DOMAIN rowOf : rowOf[i] = rowOf[j] => i = j
  /\ \A i \in DOMAIN rowOf :
       rowOf[i] \notin sent /\ rowOf[i] \notin published \ unanswered

\* The types that Departures and the queue's own do not give.
Typed ==
  /\ open \in Periods
  /\ windows \in 0 .. MaxWindows
  /\ credited \subseteq Transits
  /\ \A h \in Handlers : handler[h].began \in 0 .. Len(records)
  /\ records \in Seq(Periods)
  /\ sent \cup published \cup lost \subseteq DOMAIN records
  /\ sent \cap (published \cup lost) = {}
  /\ unanswered \subseteq published
  /\ rowOf \in Seq(DOMAIN records)
  /\ Len(rowOf) = nextId - 1
  /\ phase \in Phases

LEMMA TypedTypeOK == Typed /\ Departures /\ Queue!TypeOK => TypeOK
BY DEF Typed, Departures, TypeOK, Shaped, HandlerState, Todo, Ended

\* Where what was added to the accumulators is.
Twice == phase \in {"final", "closing"}
Column(field) == [r \in DOMAIN records |-> records[r][field]]
Sums ==
  /\ Split(1 .. windows, open.windows, Column("windows"), dropped.windows, Twice)
  /\ Split(credited, open.positions, Column("positions"), dropped.positions, Twice)

IInv == Typed /\ Departures /\ Sums /\ RowsApart /\ QueueProofs!IndInv

LEMMA SplitAccounted ==
  ASSUME IInv, NEW field, NEW all, NEW t \in all,
         Split(all, open[field], Column(field), dropped[field], Twice)
  PROVE  Accounted(t, field)
<1> DEFINE n    == Len(records)
           recs == Column(field)
           cur  == open[field]
           drop == dropped[field]
<1>1. n \in Nat /\ DOMAIN records = 1 .. n
  BY LenProperties DEF IInv, Typed
<1>2. DOMAIN recs = 1 .. n
  BY <1>1 DEF Column
<1>3. {r \in DOMAIN recs : t \in recs[r]} = {r \in DOMAIN records : t \in records[r][field]}
  BY DEF Column
<1>4. Twice \in BOOLEAN
  BY DEF Twice
<1> HIDE DEF n, recs, cur, drop
<1>5. LET homes == Cardinality({r \in DOMAIN recs : t \in recs[r]})
                     + IF t \in drop THEN 1 ELSE 0
      IN  (homes = 1 /\ (t \in cur => Twice)) \/ (homes = 0 /\ t \in cur)
  <2>1. Split(all, cur, recs, drop, Twice)
    BY DEF cur, recs, drop
  <2> QED
    BY <1>1, <1>2, <1>4, <2>1, SplitCounts
<1> QED
  BY <1>3, <1>5 DEF Accounted, Homes, Twice, cur, drop

LEMMA SumsAccounted ==
  ASSUME IInv
  PROVE  StatsAccounted
<1>1. ASSUME NEW w \in 1 .. windows PROVE Accounted(w, "windows")
  BY SplitAccounted DEF IInv, Sums
<1>2. ASSUME NEW t \in credited PROVE Accounted(t, "positions")
  BY SplitAccounted DEF IInv, Sums
<1>3. TypeOK
  BY TypedTypeOK, SameQueue DEF IInv, QueueProofs!IndInv
<1> QED
  BY <1>1, <1>2, <1>3 DEF StatsAccounted

LEMMA InitInv == Init => IInv /\ QueueProofs!Copied
<1> SUFFICES ASSUME Init
             PROVE  IInv /\ QueueProofs!Copied
  OBVIOUS
<1>1. QueueProofs!IndInv /\ QueueProofs!Copied
  BY SameQueue, QueueProofs!InitIndInv, QueueProofs!InitCopied, QueueReady DEF Init
<1>2. Typed
  BY CountAssumption DEF Init, Typed, Periods, Fresh, Phases, Idle, Queue!Init
<1>3. Departures
  BY IdleShaped, CountAssumption DEF Init, Departures, Todo, Shaped
<1>4. Sums
  BY DEF Init, Sums, Split, Column, Fresh
<1>5. RowsApart
  BY DEF Init, RowsApart
<1> QED
  BY <1>1, <1>2, <1>3, <1>4, <1>5 DEF IInv

-----------------------------------------------------------------------------
(* What the steps do to each part.                                         *)

QueueKept ==
  QueueProofs!IndInv' /\ (QueueProofs!Copied => QueueProofs!Copied')

LEMMA QueueCounts ==
  ASSUME QueueProofs!IndInv, failures' \in {failures, failures + 1},
         UNCHANGED <<rows, nextId, drain, copies, unheard, crashes>>
  PROVE  QueueKept
<1>1. failures' \in Nat
  BY DEF QueueProofs!IndInv, QueueProofs!TypeOK
<1> QED
  BY <1>1, QueueProofs!CountKeeps, QueueReady DEF QueueKept

LEMMA QueueKeeps ==
  ASSUME QueueProofs!IndInv, NEW r, Keep(r), failures' = failures + 1
  PROVE  QueueKept
<1>1. failures' \in Nat /\ QueueProofs!TypeOK
  BY DEF QueueProofs!IndInv, QueueProofs!TypeOK
<1>2. rows' = QueueProofs!Insert(rows, nextId)
  BY DEF Keep, Queue!Insert, QueueProofs!Insert
<1>3. QueueProofs!IndInv'
  BY <1>1, <1>2, QueueProofs!EnqueueIndInv, QueueReady DEF Keep
<1>4. QueueProofs!Copied => QueueProofs!Copied'
  BY <1>1, <1>2, QueueProofs!EnqueueCopied, QueueReady DEF Keep
<1> QED
  BY <1>3, <1>4 DEF QueueKept

LEMMA QueueMoves ==
  ASSUME QueueProofs!IndInv,
         \/ \E d \in Drains : \/ Queue!StartDrain(d) \/ Queue!Succeed(d)
                              \/ Queue!Answer(d) \/ Queue!RateLimitedUntilDate(d)
         \/ Queue!Tick \/ Queue!Crash
  PROVE  QueueKept
<1>1. QueueProofs!Next
  BY SameQueue DEF QueueProofs!Next
<1> QED
  BY <1>1, QueueProofs!NextIndInv, QueueProofs!NextCopied, QueueReady
     DEF QueueKept

\* A step that neither adds nor takes anything, and does not end the flush of shutdown,
\* leaves the sums.
LEMMA SumsQuiet ==
  ASSUME Sums, open'.windows = open.windows, open'.positions = open.positions,
         Twice' = Twice, UNCHANGED <<windows, credited, records, dropped>>
  PROVE  Sums'
BY DEF Sums, Column

LEMMA TypedQuiet ==
  ASSUME Typed, Departures, open' \in Periods,
         \A h \in Handlers : handler'[h].began \in 0 .. Len(records),
         UNCHANGED <<windows, records, sent, published, unanswered, lost, rowOf, nextId, phase>>,
         credited' \subseteq Transits
  PROVE  Typed'
BY DEF Typed, Periods

LEMMA OnStatsInv == IInv /\ OnStats => IInv' /\ QueueKept
<1> SUFFICES ASSUME IInv, OnStats PROVE IInv' /\ QueueKept
  OBVIOUS
<1> USE DEF IInv
<1>1. windows \in Nat /\ windows' = windows + 1 /\ windows' \in 0 .. MaxWindows
  BY CountAssumption DEF OnStats, Typed
<1>2. 1 .. windows' = (1 .. windows) \cup {windows'} /\ windows' \notin 1 .. windows
  BY <1>1
<1>3. /\ open' = [open EXCEPT !.windows = open.windows \cup {windows'}]
      /\ UNCHANGED <<tracked, transit, handler, credited, records, sent, published, unanswered, rowOf,
                     lost, dropped, phase, rows, nextId, drain, copies, unheard, failures, crashes>>
  BY DEF OnStats, output, queue
<1>4. open \in Periods /\ Periods \subseteq Periods'
  BY <1>2 DEF Typed, Periods
<1>5. /\ open' \in Periods' /\ open'.windows = open.windows \cup {windows'}
      /\ open'.positions = open.positions
  BY <1>2, <1>3, <1>4 DEF Periods
<1>6. Typed'
  <2>1. records \in Seq(Periods')
    BY <1>4, SeqMonotonic DEF Typed
  <2> QED
    BY <1>1, <1>3, <1>5, <2>1 DEF Typed
<1>7. Departures'
  BY <1>3 DEF Departures, Todo, Ended
<1>8. Sums'
  <2>1. Split(1 .. windows, open.windows, Column("windows"), dropped.windows, Twice)
        /\ Twice \in BOOLEAN
    BY DEF Sums, Twice
  <2>2. Split((1 .. windows) \cup {windows'}, open.windows \cup {windows'},
              Column("windows"), dropped.windows, Twice)
    <3> DEFINE all == 1 .. windows
               w   == windows'
    <3>1. w \notin all /\ Split(all, open.windows, Column("windows"), dropped.windows, Twice)
      BY <1>2, <2>1
    <3> HIDE DEF all, w
    <3>2. Split(all \cup {w}, open.windows \cup {w}, Column("windows"), dropped.windows, Twice)
      BY <2>1, <3>1, SplitAdd
    <3> QED
      BY <3>2 DEF all, w
  <2>3. Column("windows")' = Column("windows") /\ Column("positions")' = Column("positions")
    BY <1>3 DEF Column
  <2> QED
    BY <1>2, <1>3, <1>5, <2>2, <2>3 DEF Sums, Twice
<1>9. RowsApart'
  BY <1>3 DEF RowsApart
<1> QED
  BY <1>3, <1>6, <1>7, <1>8, <1>9, QueueCounts DEF QueueKept

LEMMA HandleInv ==
  ASSUME IInv, NEW h \in Handlers, Handle(h)
  PROVE  IInv' /\ QueueKept
<1> USE DEF IInv
<1>1. /\ UNCHANGED <<windows, records, sent, published, unanswered, rowOf, lost, dropped,
                     phase, rows, nextId, drain, copies, unheard, crashes>>
      /\ failures' \in {failures, failures + 1}
  BY DEF Handle, OnAircraft, FrameSent, FrameFails, FlightHandled, IdentityFails, output,
         queue
<1>2. QueueKept /\ RowsApart' /\ Len(records) \in Nat /\ open \in Periods
  BY <1>1, QueueCounts, LenProperties DEF RowsApart, Typed
<1>3. handler[h] \in HandlerState /\ Shaped(handler[h]) /\ open.seen \subseteq Aircraft
  BY <1>2 DEF Departures, Periods
<1>4. ASSUME Departures', open'.windows = open.windows, open'.positions = open.positions,
             open' \in Periods, UNCHANGED credited,
             \A k \in Handlers : handler'[k].began \in 0 .. Len(records)
      PROVE  IInv' /\ QueueKept
  BY <1>1, <1>2, <1>4, SumsQuiet, TypedQuiet DEF QueueKept, Twice, Typed
<1>5. \A k \in Handlers : handler[k].began \in 0 .. Len(records)
      /\ handler \in [Handlers -> HandlerState]
  BY DEF Departures, Typed
<1>6. ASSUME NEW present \in SUBSET Aircraft, NEW gone \in SUBSET Aircraft,
             gone \subseteq tracked \ present, OnAircraft(h, present, gone)
      PROVE  IInv' /\ QueueKept
  <2>1. Departures'
    BY <1>2, <1>6, DeparturesMessage, FleetAssumption
  <2>2. UNCHANGED <<open, credited>>
    BY <1>6 DEF OnAircraft
  <2>3. \A k \in Handlers : handler'[k].began \in 0 .. Len(records)
    BY <1>2, <1>6 DEF OnAircraft, Departures, Typed
  <2> QED
    BY <1>2, <1>4, <2>1, <2>2, <2>3
<1>7. ASSUME NEW todo \in Seq(Transits), Distinct(todo), ToSet(todo) \subseteq Todo(h),
             Advance(h, todo, open), UNCHANGED <<tracked, transit, credited>>
      PROVE  IInv' /\ QueueKept
  <2>0. GoesOn(h, todo) /\ OnlySeen(open)
    BY <1>3, <1>7, AdvanceShrinks
  <2>1. PICK x : /\ Shaped(x) /\ ToSet(x.todo) \subseteq ToSet(todo)
                 /\ handler' = [handler EXCEPT ![h] = x]
                 /\ x.began \in {0, handler[h].began}
    BY <2>0 DEF GoesOn
  <2>2. Departures'
    <3>1. ToSet(x.todo) \subseteq Todo(h) /\ credited' = credited \cup {}
      BY <1>7, <2>1
    <3> QED
      BY <1>7, <2>1, <3>1, DeparturesShrink
  <2>3. PICK seen \in SUBSET Aircraft : open' = [open EXCEPT !.seen = seen]
    BY <2>0 DEF OnlySeen
  <2>4. open' \in Periods /\ open'.windows = open.windows /\ open'.positions = open.positions
    BY <1>2, <2>3 DEF Periods
  <2>5. \A k \in Handlers : handler'[k].began \in 0 .. Len(records)
    BY <1>2, <1>5, <2>1
  <2> QED
    BY <1>4, <1>7, <2>2, <2>4, <2>5
<1>8. CASE FrameSent(h)
  <2>1. handler[h].todo \in Seq(Transits) /\ Distinct(handler[h].todo)
    BY <1>3 DEF Shaped, HandlerState
  <2> QED
    BY <1>7, <1>8, <2>1 DEF FrameSent, Todo
<1>9. CASE FrameFails(h)
  <2>1. Departures'
    <3>1. ToSet(Idle.todo) \subseteq Todo(h) /\ credited' = credited \cup {}
      BY <1>9, IdleShaped DEF FrameFails
    <3> QED
      BY <1>9, <3>1, IdleShaped, DeparturesShrink DEF FrameFails
  <2>2. \A k \in Handlers : handler'[k].began \in 0 .. Len(records)
    BY <1>2, <1>5, <1>9 DEF FrameFails, Idle
  <2> QED
    BY <1>2, <1>4, <1>9, <2>1, <2>2 DEF FrameFails
<1>10. ASSUME handler[h].stage = "awaiting"
       PROVE  LET todo == handler[h].todo
              IN  /\ Head(todo) \in Transits \ credited /\ Head(todo) \in Todo(h)
                  /\ Tail(todo) \in Seq(Transits) /\ Distinct(Tail(todo))
                  /\ ToSet(Tail(todo)) \subseteq Todo(h) \ {Head(todo)}
  <2>1. handler[h].todo \in Seq(Transits) /\ Distinct(handler[h].todo)
        /\ handler[h].todo # << >>
    BY <1>3, <1>10 DEF Shaped, HandlerState
  <2> QED
    BY <2>1, HeadAndTail DEF Departures, Todo
<1>11. CASE IdentityFails(h)
  BY <1>7, <1>10, <1>11 DEF IdentityFails
<1>12. CASE FlightHandled(h)
  <2> DEFINE t == Head(handler[h].todo)
             rest == Tail(handler[h].todo)
  <2>1. /\ t \in Transits \ credited /\ t \in Todo(h)
        /\ rest \in Seq(Transits) /\ Distinct(rest)
        /\ ToSet(rest) \subseteq Todo(h) \ {t}
        /\ credited' = credited \cup {t} /\ UNCHANGED <<tracked, transit>>
        /\ Advance(h, rest, Credit(h))
    BY <1>10, <1>12 DEF FlightHandled
  <2>2. Credit(h) = [open EXCEPT !.positions = open.positions \cup {t}]
    BY DEF Credit
  <2> HIDE DEF t, rest
  <2>3. Credit(h).seen \subseteq Aircraft
    BY <1>2, <1>3, <2>2 DEF Periods
  <2>advance. GoesOn(h, rest) /\ OnlySeen(Credit(h))
    BY <2>1, <2>3, AdvanceShrinks
  <2>4. PICK x : /\ Shaped(x) /\ ToSet(x.todo) \subseteq ToSet(rest)
                 /\ handler' = [handler EXCEPT ![h] = x]
                 /\ x.began \in {0, handler[h].began}
    BY <2>advance DEF GoesOn
  <2>5. PICK seen \in SUBSET Aircraft : open' = [Credit(h) EXCEPT !.seen = seen]
    BY <2>advance DEF OnlySeen
  <2>6. /\ open' \in Periods /\ open'.windows = open.windows
        /\ open'.positions = open.positions \cup {t}
    BY <1>2, <2>1, <2>2, <2>5 DEF Periods
  <2>7. Departures'
    <3>1. {t} \subseteq Todo(h) \ ToSet(x.todo) /\ ToSet(x.todo) \subseteq Todo(h)
      BY <2>1, <2>4
    <3> QED
      BY <2>1, <2>4, <3>1, DeparturesShrink
  <2>8. Sums'
    <3>1. Split(credited, open.positions, Column("positions"), dropped.positions, Twice)
          /\ Twice \in BOOLEAN
      BY DEF Sums, Twice
    <3>2. Split(credited \cup {t}, open.positions \cup {t}, Column("positions"),
                dropped.positions, Twice)
      BY <2>1, <3>1, SplitAdd
    <3>3. Column("windows")' = Column("windows") /\ Column("positions")' = Column("positions")
      BY <1>1 DEF Column
    <3> QED
      BY <1>1, <2>1, <2>6, <3>2, <3>3 DEF Sums, Twice
  <2>9. Typed'
    <3>1. \A k \in Handlers : handler'[k].began \in 0 .. Len(records)
      BY <1>2, <1>5, <2>4
    <3>2. credited' \subseteq Transits
      BY <2>1 DEF Typed
    <3> QED
      BY <1>1, <2>6, <3>1, <3>2, TypedQuiet
  <2> QED
    BY <1>2, <2>7, <2>8, <2>9 DEF QueueKept
<1> QED
  BY <1>6, <1>8, <1>9, <1>11, <1>12 DEF Handle

\* A record is built: it is the last one, and new to everybody.
LEMMA SendInv ==
  ASSUME IInv, Send, phase' \in Phases, UNCHANGED <<traffic, published, unanswered, rowOf, lost, queue>>,
         open' \in Periods, ~Twice, UNCHANGED dropped,
         \/ open' = Fresh /\ ~Twice'
         \/ open' = open /\ Twice'
  PROVE  IInv' /\ QueueKept
<1> USE DEF IInv
<1> DEFINE n == Len(records)
<1>1. /\ n \in Nat /\ open \in Periods /\ records \in Seq(Periods)
      /\ DOMAIN records = 1 .. n
      /\ records' = Append(records, open) /\ sent' = sent \cup {Len(records')}
      /\ UNCHANGED <<windows, tracked, transit, handler, credited, published, unanswered, rowOf, lost,
                     rows, nextId, drain, copies, unheard, failures, crashes>>
  BY LenProperties DEF Send, Typed, traffic, queue
<1>2. /\ records' \in Seq(Periods) /\ Len(records') = n + 1
      /\ DOMAIN records' = 1 .. n + 1 /\ records'[n + 1] = open
      /\ \A r \in 1 .. n : records'[r] = records[r]
  BY <1>1, AppendProperties, LenProperties
<1>3. n + 1 \notin DOMAIN records /\ DOMAIN records \subseteq DOMAIN records'
  BY <1>1, <1>2
<1>4. Typed'
  <2>1. records' \in Seq(Periods')
    BY <1>1, <1>2 DEF Periods
  <2>2. open' \in Periods'
    BY <1>1 DEF Periods
  <2>3. /\ sent' \cup published' \cup lost' \subseteq DOMAIN records'
        /\ sent' \cap (published' \cup lost') = {}
    BY <1>1, <1>2, <1>3 DEF Typed
  <2>4. rowOf' \in Seq(DOMAIN records')
    BY <1>1, <1>3, SeqMonotonic DEF Typed
  <2>5. \A h \in Handlers : handler'[h].began \in 0 .. Len(records')
    BY <1>1, <1>2 DEF Typed
  <2> QED
    BY <1>1, <2>1, <2>2, <2>3, <2>4, <2>5 DEF Typed
<1>5. Departures'
  BY <1>1 DEF Departures, Todo, Ended
<1>6. RowsApart'
  <2>1. \A i \in DOMAIN rowOf : rowOf[i] \in DOMAIN records
    BY ElementOfSeq, LenProperties DEF Typed
  <2> QED
    BY <1>1, <1>2, <1>3, <2>1 DEF RowsApart
<1>7. Sums'
  <2>1. /\ DOMAIN Column("windows") = 1 .. n /\ DOMAIN Column("windows")' = 1 .. n + 1
        /\ Column("windows")'[n + 1] = open.windows
        /\ \A r \in 1 .. n : Column("windows")'[r] = Column("windows")[r]
        /\ DOMAIN Column("positions") = 1 .. n /\ DOMAIN Column("positions")' = 1 .. n + 1
        /\ Column("positions")'[n + 1] = open.positions
        /\ \A r \in 1 .. n : Column("positions")'[r] = Column("positions")[r]
    BY <1>1, <1>2, <1>3 DEF Column
  <2>2. /\ Split(1 .. windows, open.windows, Column("windows"), dropped.windows, FALSE)
        /\ Split(credited, open.positions, Column("positions"), dropped.positions, FALSE)
    <3>1. Twice = FALSE
      BY DEF Twice
    <3> QED
      BY <3>1 DEF Sums
  <2> HIDE DEF n
  <2>3. /\ Split(credited, {}, Column("positions")', dropped.positions, FALSE)
        /\ Split(credited, open.positions, Column("positions")', dropped.positions, TRUE)
    BY <1>1, <2>1, <2>2, SplitRecord
  <2>4. /\ Split(1 .. windows, {}, Column("windows")', dropped.windows, FALSE)
        /\ Split(1 .. windows, open.windows, Column("windows")', dropped.windows, TRUE)
    <3> DEFINE all == 1 .. windows
    <3>1. Split(all, open.windows, Column("windows"), dropped.windows, FALSE)
      BY <2>2
    <3> HIDE DEF all
    <3>2. /\ Split(all, {}, Column("windows")', dropped.windows, FALSE)
          /\ Split(all, open.windows, Column("windows")', dropped.windows, TRUE)
      BY <1>1, <2>1, <3>1, SplitRecord
    <3> QED
      BY <3>2 DEF all
  <2>5. CASE open' = Fresh /\ ~Twice'
    <3>1. open'.windows = {} /\ open'.positions = {} /\ Twice' = FALSE
      BY <2>5 DEF Fresh, Twice
    <3> QED
      BY <1>1, <2>3, <2>4, <3>1 DEF Sums
  <2>6. CASE open' = open /\ Twice'
    <3>1. Twice' = TRUE
      BY <2>6 DEF Twice
    <3> QED
      BY <1>1, <2>3, <2>4, <2>6, <3>1 DEF Sums
  <2> QED
    BY <2>5, <2>6
<1>8. QueueKept
  BY <1>1, QueueCounts
<1> QED
  BY <1>4, <1>5, <1>6, <1>7, <1>8 DEF QueueKept

LEMMA RecordInv == IInv /\ (Flush \/ FinalStats) => IInv' /\ QueueKept
<1> SUFFICES ASSUME IInv, Flush \/ FinalStats PROVE IInv' /\ QueueKept
  OBVIOUS
<1>1. Fresh \in Periods /\ open \in Periods
  BY DEF Fresh, Periods, IInv, Typed
<1>2. CASE Flush
  <2>1. /\ Send /\ open' = Fresh /\ phase' = phase /\ phase = "running"
        /\ UNCHANGED <<traffic, published, unanswered, rowOf, lost, dropped, queue>>
    BY <1>2 DEF Flush
  <2> QED
    BY <1>1, <2>1, SendInv DEF Twice, Phases
<1>3. CASE FinalStats /\ open.seen # {}
  <2>1. /\ Send /\ open' = open /\ phase' = "final" /\ phase = "flushing"
        /\ UNCHANGED <<traffic, published, unanswered, rowOf, lost, dropped, queue>>
    BY <1>3 DEF FinalStats
  <2> QED
    BY <1>1, <2>1, SendInv DEF Twice, Phases
<1>4. CASE FinalStats /\ open.seen = {}
  <2>1. /\ phase = "flushing" /\ phase' = "skipped"
        /\ UNCHANGED <<open, windows, tracked, transit, handler, credited, records, sent,
                       published, unanswered, rowOf, lost, dropped, rows, nextId, drain,
                       copies, unheard, failures, crashes>>
    BY <1>4 DEF FinalStats, traffic, queue
  <2>2. Typed'
    BY <2>1 DEF IInv, Typed, Periods, Phases
  <2>3. Departures' /\ RowsApart'
    BY <2>1 DEF IInv, Departures, Todo, Ended, RowsApart
  <2>4. Sums'
    BY <2>1, SumsQuiet DEF IInv, Twice
  <2> QED
    BY <2>1, <2>2, <2>3, <2>4, QueueCounts DEF IInv, QueueKept
<1> QED
  BY <1>2, <1>3, <1>4

\* The answer to a record's call, good or bad.
LEMMA AnswerInv ==
  ASSUME IInv, NEW r, Published(r) \/ PublishFails(r)
  PROVE  IInv' /\ QueueKept
<1> USE DEF IInv
<1>0. \/ UNCHANGED <<published, unanswered>>
      \/ published' = published \cup {r} /\ UNCHANGED unanswered
      \/ published' = published \cup {r} /\ unanswered' = unanswered \cup {r}
  BY SUBSET {r} = {{}, {r}} DEF Published, PublishFails
<1>1. /\ r \in sent /\ sent' = sent \ {r}
      /\ published' \in {published, published \cup {r}}
      /\ unanswered' \in {unanswered, unanswered \cup {r}} /\ unanswered' \subseteq published'
      /\ lost' = lost \/ lost' = (lost \cup {r}) \ published'
      /\ phase' = IF phase = "final" /\ r = Len(records) THEN "closing" ELSE phase
      /\ UNCHANGED <<open, windows, tracked, transit, handler, credited, records, dropped>>
  BY <1>0 DEF Published, PublishFails, AfterAnswer, traffic, Typed
<1>2. \/ UNCHANGED <<rowOf, rows, nextId, drain, copies, unheard, crashes>>
         /\ failures' \in {failures, failures + 1}
      \/ Keep(r) /\ failures' = failures + 1 /\ r \notin published' \ unanswered'
  <2>1. CASE Published(r)
    BY <2>1 DEF Published, queue
  <2>2. CASE PublishFails(r)
    <3>1. r \notin published' \ unanswered'
      BY <2>2 DEF PublishFails, Typed
    <3> QED
      BY <2>2, <3>1 DEF PublishFails, Forget
  <2> QED
    BY <2>1, <2>2
<1>3. QueueKept
  BY <1>2, QueueCounts, QueueKeeps
<1>4. rowOf' \in Seq(DOMAIN records) /\ Len(rowOf') = nextId' - 1
      /\ \/ rowOf' = rowOf
         \/ rowOf' = Append(rowOf, r) /\ r \notin published' \ unanswered'
  <2>1. r \in DOMAIN records /\ rowOf \in Seq(DOMAIN records) /\ Len(rowOf) = nextId - 1
        /\ Len(rowOf) \in Nat
    BY <1>1, LenProperties DEF Typed
  <2>2. CASE UNCHANGED <<rowOf, nextId>>
    BY <2>1, <2>2
  <2>3. CASE Keep(r) /\ r \notin published' \ unanswered'
    <3>1. rowOf' = Append(rowOf, r) /\ nextId' = nextId + 1
      BY <2>3 DEF Keep
    <3>2. rowOf' \in Seq(DOMAIN records) /\ Len(rowOf') = Len(rowOf) + 1
      BY <2>1, <3>1, AppendProperties
    <3>3. nextId \in Nat
      BY DEF QueueProofs!IndInv, QueueProofs!TypeOK
    <3> QED
      BY <2>1, <2>3, <3>1, <3>2, <3>3
  <2> QED
    BY <1>2, <2>2, <2>3
<1>5. Typed'
  <2>1. phase' \in Phases
    BY <1>1 DEF Typed, Phases
  <2>2. /\ sent' \cup published' \cup lost' \subseteq DOMAIN records'
        /\ sent' \cap (published' \cup lost') = {}
    BY <1>1 DEF Typed
  <2>3. Periods' = Periods
    BY <1>1 DEF Periods
  <2> QED
    BY <1>1, <1>4, <2>1, <2>2, <2>3 DEF Typed
<1>6. Departures'
  BY <1>1 DEF Departures, Todo, Ended
<1>7. Sums'
  BY <1>1, SumsQuiet DEF Twice
<1>8. RowsApart'
  <2>1. CASE rowOf' = rowOf
    <3>1. \A i \in DOMAIN rowOf : rowOf[i] # r
      BY <1>1 DEF RowsApart
    <3> QED
      BY <1>1, <2>1, <3>1 DEF RowsApart
  <2>2. CASE rowOf' = Append(rowOf, r) /\ r \notin published' \ unanswered'
    <3>1. /\ DOMAIN rowOf = 1 .. Len(rowOf) /\ Len(rowOf) \in Nat
          /\ DOMAIN rowOf' = 1 .. Len(rowOf) + 1 /\ rowOf'[Len(rowOf) + 1] = r
          /\ \A i \in 1 .. Len(rowOf) : rowOf'[i] = rowOf[i]
      <4>1. r \in DOMAIN records /\ rowOf \in Seq(DOMAIN records)
        BY <1>1 DEF Typed
      <4> QED
        BY <2>2, <4>1, AppendProperties, LenProperties
    <3>2. \A i \in DOMAIN rowOf' : i \in DOMAIN rowOf \/ i = Len(rowOf) + 1
      BY <3>1
    <3>3. \A i \in DOMAIN rowOf : rowOf[i] # r /\ rowOf'[i] = rowOf[i]
      BY <1>1, <3>1 DEF RowsApart
    <3> QED
      BY <1>1, <2>2, <3>1, <3>2, <3>3 DEF RowsApart
  <2> QED
    BY <1>4, <2>1, <2>2
<1> QED
  BY <1>3, <1>5, <1>6, <1>7, <1>8 DEF QueueKept

\* The process ends: what is in the open period and in no record is dropped.
LEMMA DieInv ==
  ASSUME IInv, Die
  PROVE  IInv' /\ QueueKept
<1> USE DEF IInv
<1>1. PICK taken \in SUBSET sent :
        /\ published' = published \cup taken /\ lost' = lost \cup (sent \ taken)
        /\ unanswered' = unanswered \cup taken
  BY DEF Die
<1>2. /\ phase' = "down" /\ sent' = {} /\ open' = Fresh /\ tracked' = {}
      /\ handler' = [h \in Handlers |-> Idle]
      /\ UNCHANGED <<windows, transit, credited, records, rowOf>>
      /\ Queue!Crash
  BY DEF Die
<1>3. QueueKept /\ nextId' = nextId
  BY <1>2, QueueMoves DEF Queue!Crash
<1>4. Typed'
  <2>1. Periods' = Periods /\ Fresh \in Periods
    BY <1>2 DEF Periods, Fresh
  <2>2. \A h \in Handlers : handler'[h].began = 0
    BY <1>2 DEF Idle
  <2>3. Len(records) \in Nat
    BY LenProperties DEF Typed
  <2> QED
    BY <1>1, <1>2, <1>3, <2>1, <2>2, <2>3 DEF Typed, Phases
<1>5. Departures'
  BY <1>2, IdleShaped DEF Departures, Todo, Ended, Shaped
<1>6. RowsApart'
  BY <1>1, <1>2 DEF RowsApart
<1>7. Sums'
  <2>1. /\ Column("windows")' = Column("windows")
        /\ Column("positions")' = Column("positions")
    BY <1>2 DEF Column
  <2>2. /\ \A x : x \in InRecords("windows") <=>
                \E r \in DOMAIN Column("windows") : x \in Column("windows")[r]
        /\ \A x : x \in InRecords("positions") <=>
                \E r \in DOMAIN Column("positions") : x \in Column("positions")[r]
    BY DEF Column, InRecords
  <2>3. /\ dropped'.windows = dropped.windows \cup (open.windows \ InRecords("windows"))
        /\ dropped'.positions =
             dropped.positions \cup (open.positions \ InRecords("positions"))
    BY DEF Die
  <2>4. Twice \in BOOLEAN /\ Twice' = FALSE /\ Fresh.windows = {} /\ Fresh.positions = {}
    BY <1>2 DEF Twice, Fresh
  <2>5. Split(1 .. windows, {}, Column("windows"), dropped'.windows, FALSE)
    <3> DEFINE all == 1 .. windows
    <3>1. Split(all, open.windows, Column("windows"), dropped.windows, Twice)
      BY DEF Sums
    <3> HIDE DEF all
    <3>2. Split(all, {}, Column("windows"),
                dropped.windows \cup (open.windows \ InRecords("windows")), FALSE)
      BY <2>2, <2>4, <3>1, SplitDrop
    <3> QED
      BY <2>3, <3>2 DEF all
  <2>6. Split(credited, {}, Column("positions"), dropped'.positions, FALSE)
    <3>1. Split(credited, open.positions, Column("positions"), dropped.positions, Twice)
      BY DEF Sums
    <3>2. Split(credited, {}, Column("positions"),
                dropped.positions \cup (open.positions \ InRecords("positions")), FALSE)
      BY <2>2, <2>4, <3>1, SplitDrop
    <3> QED
      BY <2>3, <3>2
  <2> QED
    BY <1>2, <2>1, <2>4, <2>5, <2>6 DEF Sums
<1> QED
  BY <1>3, <1>4, <1>5, <1>6, <1>7 DEF QueueKept

\* Steps of the queue, of time, and of the process between its ends.
LEMMA OtherInv ==
  ASSUME IInv, Drain \/ Tick \/ Shutdown \/ Restart \/ UNCHANGED vars
  PROVE  IInv' /\ QueueKept
<1> USE DEF IInv
<1>1. /\ UNCHANGED <<open, windows, tracked, transit, handler, credited, records, sent,
                     published, unanswered, rowOf, lost, dropped>>
      /\ Twice' = Twice /\ phase' \in Phases
  BY DEF Drain, Tick, Shutdown, Restart, vars, traffic, output, Twice, Phases, Typed
<1>2. QueueKept /\ nextId' = nextId
  <2>1. CASE Drain \/ Tick
    <3>1. \/ \E d \in Drains : \/ Queue!StartDrain(d) \/ Queue!Succeed(d)
                               \/ Queue!Answer(d) \/ Queue!RateLimitedUntilDate(d)
          \/ Queue!Tick
      BY <2>1 DEF Drain, Tick
    <3>2. nextId' = nextId
      BY <3>1 DEF Queue!StartDrain, Queue!Succeed, Queue!Store, Queue!MarkDone,
                  Queue!Answer, Queue!MarkFailed, Queue!RateLimited,
                  Queue!RateLimitedUntilDate, Queue!Tick
    <3> QED
      BY <3>1, <3>2, QueueMoves
  <2>2. CASE Shutdown \/ Restart \/ UNCHANGED vars
    BY <2>2, QueueCounts DEF Shutdown, Restart, vars, queue
  <2> QED
    BY <2>1, <2>2
<1>3. Typed'
  <2>1. Periods' = Periods
    BY <1>1 DEF Periods
  <2> QED
    BY <1>1, <1>2, <2>1 DEF Typed
<1>4. Departures' /\ RowsApart'
  BY <1>1 DEF Departures, Todo, Ended, RowsApart
<1>5. Sums'
  BY <1>1, SumsQuiet
<1> QED
  BY <1>2, <1>3, <1>4, <1>5 DEF QueueKept

LEMMA NextInv == IInv /\ [Next]_vars => IInv' /\ QueueKept
<1> SUFFICES ASSUME IInv, [Next]_vars PROVE IInv' /\ QueueKept
  OBVIOUS
<1>1. CASE OnStats
  BY <1>1, OnStatsInv
<1>2. CASE \E h \in Handlers : Handle(h)
  BY <1>2, HandleInv
<1>3. CASE Flush \/ FinalStats
  BY <1>3, RecordInv
<1>4. CASE \E r \in Numbers : Published(r) \/ PublishFails(r)
  BY <1>4, AnswerInv
<1>5. CASE Exit \/ Crash
  BY <1>5, DieInv DEF Exit, Crash
<1>6. CASE Drain \/ Tick \/ Shutdown \/ Restart \/ UNCHANGED vars
  BY <1>6, OtherInv
<1> QED
  BY <1>1, <1>2, <1>3, <1>4, <1>5, <1>6 DEF Next

-----------------------------------------------------------------------------
\* Every stats window and every credited transit counts in one record, in the open
\* period, or was dropped with a process, for any traffic, flushes, failures and lives of
\* the daemon.
THEOREM EveryCountAccounted == Spec => []StatsAccounted
<1>1. Init => IInv
  BY InitInv
<1>2. IInv /\ [Next]_vars => IInv'
  BY NextInv
<1>3. IInv => StatsAccounted
  BY SumsAccounted
<1> QED
  BY <1>1, <1>2, <1>3, PTL DEF Spec

\* A record the PDS has twice was stored by a call nobody heard the answer of, or by drains
\* that overlap: for any number of drains, failures, lost answers and lives of the daemon
\* a record whose call was answered is not queued, no record is queued twice, and a row
\* is stored again as RepeatsExplained of the queue says.
THEOREM RecordsRepeatedForCause == Spec => []RepeatedForCause
<1>1. Init => IInv /\ QueueProofs!Copied
  BY InitInv
<1>2. (IInv /\ QueueProofs!Copied) /\ [Next]_vars => (IInv /\ QueueProofs!Copied)'
  BY NextInv DEF QueueKept
<1>3. IInv /\ QueueProofs!Copied => RepeatedForCause
  <2> SUFFICES ASSUME IInv, QueueProofs!Copied PROVE RepeatedForCause
    OBVIOUS
  <2>1. QueueProofs!RepeatsExplained
    BY QueueProofs!CopiedExplains, QueueReady DEF IInv
  <2>2. Queue!RepeatsExplained
    BY <2>1, SameSets DEF Queue!RepeatsExplained, Queue!Waiting, Queue!Stored, Queue!Current, Queue!Ids,
                QueueProofs!RepeatsExplained, QueueProofs!Waiting, QueueProofs!Stored,
                QueueProofs!Current, QueueProofs!Ids
  <2>3. ASSUME NEW r \in DOMAIN records
        PROVE  /\ r \in published \ unanswered => Rows(r) = {}
               /\ \A i, j \in Rows(r) : i = j
    BY DEF IInv, RowsApart, Rows
  <2> QED
    BY <2>2, <2>3 DEF RepeatedForCause
<1> QED
  BY <1>1, <1>2, <1>3, PTL DEF Spec

\* A record that left the timer has gone somewhere: to the PDS, to a row, or down with
\* the process.
Gone ==
  \A r \in DOMAIN records :
    r \in sent \cup published \cup lost \/ \E id \in DOMAIN rowOf : rowOf[id] = r

LEMMA GoneNext ==
  ASSUME IInv, Gone, [Next]_vars
  PROVE  Gone'
<1> DEFINE At(r) == r \in sent \cup published \cup lost
                      \/ \E id \in DOMAIN rowOf : rowOf[id] = r
<1>1. CASE UNCHANGED <<records, sent, published, lost, rowOf>>
  BY <1>1 DEF Gone
<1>2. CASE Send /\ UNCHANGED <<published, lost, rowOf>>
  <2>1. /\ records \in Seq(Periods) /\ open \in Periods /\ records' = Append(records, open)
        /\ sent' = sent \cup {Len(records')}
    BY <1>2 DEF Send, IInv, Typed
  <2>2. \A r \in DOMAIN records' : r \in DOMAIN records \/ r = Len(records')
    BY <2>1, AppendProperties, LenProperties
  <2> QED
    BY <1>2, <2>1, <2>2 DEF Gone
<1>3. ASSUME NEW r, Published(r) \/ PublishFails(r) PROVE Gone'
  <2>1. /\ records' = records /\ sent' = sent \ {r}
        /\ published \subseteq published' /\ lost \subseteq lost' \cup published'
    BY <1>3 DEF Published, PublishFails
  <2>2. \/ rowOf' = rowOf /\ r \in published' \cup lost'
        \/ rowOf' = Append(rowOf, r)
    BY <1>3 DEF Published, PublishFails, Forget, Keep
  <2>3. \A id \in DOMAIN rowOf : id \in DOMAIN rowOf' /\ rowOf'[id] = rowOf[id]
    BY <2>2, <1>3, AppendProperties, LenProperties, r \in DOMAIN records
       DEF Published, PublishFails, IInv, Typed
  <2>4. r \in published' \cup lost' \/ \E id \in DOMAIN rowOf' : rowOf'[id] = r
    BY <2>2
  <2> QED
    BY <2>1, <2>3, <2>4 DEF Gone
<1>4. CASE Die
  BY <1>4 DEF Die, Gone
<1>5. CASE \E h \in Handlers : Handle(h)
  BY <1>1, <1>5 DEF Handle, OnAircraft, FrameSent, FrameFails, FlightHandled, IdentityFails,
                    output
<1> QED
  BY <1>1, <1>2, <1>3, <1>4, <1>5
     DEF Next, OnStats, Flush, FinalStats, Drain, Tick, Shutdown, Restart, Exit, Crash,
         output, vars

\* No record is forgotten: for any number of flushes, failures and lives of the daemon,
\* what the timer built is in flight, at the PDS or in the table, unless it was lost with
\* the process that had it in flight.
THEOREM NoRecordForgotten == Spec => []RecordsHeld
<1>1. Init => IInv /\ Gone
  BY InitInv DEF Init, Gone
<1>2. (IInv /\ Gone) /\ [Next]_vars => (IInv /\ Gone)'
  BY NextInv, GoneNext
<1>3. IInv /\ Gone => RecordsHeld
  <2> SUFFICES ASSUME IInv, NEW id \in DOMAIN rowOf
               PROVE  id \in DOMAIN rows \/ copies[id] > 0
    BY DEF Gone, RecordsHeld, AtPds, Rows
  <2>1. id \in 1 .. nextId - 1
    BY LenProperties DEF IInv, Typed
  <2> QED
    BY <2>1 DEF IInv, QueueProofs!IndInv, QueueProofs!NoLoss
<1> QED
  BY <1>1, <1>2, <1>3, PTL DEF Spec

=============================================================================

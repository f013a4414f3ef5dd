----------------------- MODULE AircraftTrackerProofs -----------------------
(***************************************************************************)
(* Proofs about AircraftTracker for any number of adapters and aircraft,   *)
(* any threshold and any lag: type correctness with NoInflation, and       *)
(* AbsentLongEnough.                                                       *)
(*                                                                         *)
(* NoInflation compares neighbours of a track; Remembered ties the last    *)
(* report to the age the tracker compares the next one with.               *)
(* AbsentLongEnough compares a departure with every poll that was ever     *)
(* delivered; Lagging says how far lastSeen can be behind the latest of    *)
(* them.                                                                   *)
(***************************************************************************)
EXTENDS AircraftTracker, SequenceTheorems, TLAPS

\* The ages of a poll in flight are times, or say that there is no position, and none
\* reaches back before the clock began.
PollTyped(p) ==
  /\ p.at \in Time
  /\ DOMAIN p.seenPos \subseteq Hexes
  /\ \A h \in DOMAIN p.seenPos : p.seenPos[h] \in 0 .. p.at \cup {NoFix}

\* Fixes were taken before now, and so were polls, at most the lag ago.
Clocked ==
  /\ \A a \in Adapters, h \in Hexes : fixAt[a][h] <= now
  /\ DOMAIN polls = Adapters
  /\ \A a \in Adapters :
       polls[a] # NoPoll => /\ PollTyped(polls[a])
                            /\ polls[a].at <= now
                            /\ now - polls[a].at <= MaxLag

\* The last report of a track is the fix whose age the entry remembers.
Remembered(e) ==
  /\ e.track = << >> <=> e.lastSeenPos = NoFix
  /\ e.track # << >> =>
       e.track[Len(e.track)].fix = e.track[Len(e.track)].at - e.lastSeenPos

\* The reports of a track but for those from an overtaken poll are of later and later
\* fixes.
Advancing(e) ==
  \A i \in 2 .. Len(e.track) :
    e.track[i - 1].at <= e.track[i].at => e.track[i - 1].fix < e.track[i].fix

TracksAdvance == \A h \in DOMAIN tracked : Remembered(tracked[h]) /\ Advancing(tracked[h])

\* lastSeen is the stamp of a poll that was at most the lag old when a later one came.
Lagging ==
  /\ \A h \in Hexes : heard[h] <= now
  /\ \A h \in DOMAIN tracked :
       heard[h] # NoFix /\ heard[h] - MaxLag <= tracked[h].lastSeen

IndInv == TypeOK /\ Clocked /\ TracksAdvance /\ Lagging

-----------------------------------------------------------------------------
LEMMA Initially == Init => IndInv
BY TimeAssumption DEF Init, IndInv, TypeOK, Clocked, TracksAdvance, Lagging, Time, NoFix

\* A report that a poll adds: Refresh keeps an entry's type and what its track says.
LEMMA RefreshKeeps ==
  ASSUME NEW e \in Entry, Remembered(e), Advancing(e),
         NEW at \in Time, NEW age \in 0 .. at \cup {NoFix}
  PROVE  /\ Refresh(e, at, age) \in Entry
         /\ Refresh(e, at, age).lastSeen = at
         /\ Remembered(Refresh(e, at, age))
         /\ Advancing(Refresh(e, at, age))
<1> DEFINE r == Refresh(e, at, age)
           n == Len(e.track)
<1>1. /\ e.track \in Seq([fix : Time, at : Time])
      /\ e.lastSeen \in Time /\ e.lastSeenPos \in Time \cup {NoFix}
      /\ n \in Nat /\ at \in Nat /\ MaxTime \in Nat
      /\ e = [lastSeen |-> e.lastSeen, lastSeenPos |-> e.lastSeenPos, track |-> e.track]
  BY TimeAssumption DEF Entry, Time
<1>2. CASE age # NoFix /\ (e.lastSeenPos = NoFix \/ age < e.lastSeenPos)
  <2>1. r = [lastSeen |-> at, lastSeenPos |-> age,
             track |-> Append(e.track, [fix |-> at - age, at |-> at])]
    BY <1>2 DEF Refresh, Report
  <2>2. age \in 0 .. at /\ age \in Time /\ at - age \in Time
    BY <1>1, <1>2 DEF Time
  <2>3. /\ r.track \in Seq([fix : Time, at : Time])
        /\ Len(r.track) = n + 1
        /\ \A i \in 1 .. n : r.track[i] = e.track[i]
        /\ r.track[n + 1] = [fix |-> at - age, at |-> at]
    BY <1>1, <2>1, <2>2
  <2>4. r \in Entry /\ r.lastSeen = at
    BY <2>1, <2>2, <2>3 DEF Entry
  <2>5. Remembered(r)
    BY <1>1, <1>2, <2>1, <2>3 DEF Remembered
  <2>6. ASSUME NEW i \in 2 .. n + 1, r.track[i - 1].at <= r.track[i].at
        PROVE  r.track[i - 1].fix < r.track[i].fix
    <3>1. CASE i <= n
      <4>1. i \in 2 .. n /\ i \in 1 .. n /\ i - 1 \in 1 .. n
        BY <1>1, <3>1
      <4>2. e.track[i - 1].at <= e.track[i].at => e.track[i - 1].fix < e.track[i].fix
        BY <4>1 DEF Advancing
      <4> QED
        BY <2>3, <2>6, <4>1, <4>2
    <3>2. CASE i = n + 1
      <4>1. n >= 1 /\ n \in 1 .. n /\ i - 1 = n
        BY <1>1, <3>2
      <4>2. e.track # << >> /\ e.track[n].fix = e.track[n].at - e.lastSeenPos
        BY <1>1, <4>1 DEF Remembered
      <4>3. e.lastSeenPos # NoFix /\ e.lastSeenPos \in Nat /\ age < e.lastSeenPos
        BY <1>1, <1>2, <4>2 DEF Remembered, Time
      <4>4. e.track[n] \in [fix : Time, at : Time] /\ e.track[n].at \in Nat
        <5>1. e.track[n] \in [fix : Time, at : Time]
          BY <1>1, <4>1, ElementOfSeq
        <5> QED
          BY <1>1, <5>1 DEF Time
      <4>5. r.track[i - 1] = e.track[n] /\ r.track[i] = [fix |-> at - age, at |-> at]
        BY <2>3, <3>2, <4>1
      <4> QED
        BY <1>1, <2>2, <2>6, <4>2, <4>3, <4>4, <4>5
    <3> QED
      BY <1>1, <3>1, <3>2
  <2>7. Advancing(r)
    BY <2>3, <2>6 DEF Advancing
  <2> QED
    BY <2>4, <2>5, <2>7
<1>3. CASE ~(age # NoFix /\ (e.lastSeenPos = NoFix \/ age < e.lastSeenPos))
  <2>1. r = [e EXCEPT !.lastSeen = at]
    BY <1>3 DEF Refresh
  <2>2. /\ r.lastSeen = at /\ r.lastSeenPos = e.lastSeenPos /\ r.track = e.track
        /\ r \in Entry
    BY <1>1, <2>1 DEF Entry
  <2> QED
    BY <2>2 DEF Remembered, Advancing
<1> QED
  BY <1>2, <1>3

\* The entry of an aircraft the poll lists, new or known.
LEMMA EntryKeeps ==
  ASSUME IndInv, NEW poll, PollTyped(poll), NEW h \in DOMAIN poll.seenPos
  PROVE  /\ EntryOf(h, poll) \in Entry
         /\ EntryOf(h, poll).lastSeen = poll.at
         /\ Remembered(EntryOf(h, poll)) /\ Advancing(EntryOf(h, poll))
<1> DEFINE before == IF h \in DOMAIN tracked THEN tracked[h]
                     ELSE [lastSeen |-> poll.at, lastSeenPos |-> NoFix, track |-> << >>]
<1>1. poll.at \in Time /\ poll.seenPos[h] \in 0 .. poll.at \cup {NoFix}
  BY DEF PollTyped
<1>2. before \in Entry /\ Remembered(before) /\ Advancing(before)
  <2>1. CASE h \in DOMAIN tracked
    BY <2>1 DEF IndInv, TypeOK, TracksAdvance
  <2>2. CASE h \notin DOMAIN tracked
    <3>1. before = [lastSeen |-> poll.at, lastSeenPos |-> NoFix, track |-> << >>]
      BY <2>2
    <3>2. << >> \in Seq([fix : Time, at : Time])
      OBVIOUS
    <3>3. before \in Entry
      <4>1. [lastSeen |-> poll.at, lastSeenPos |-> NoFix, track |-> << >>] \in Entry
        BY <1>1, <3>2 DEF Entry
      <4> QED
        BY <3>1, <4>1
    <3> QED
      BY <3>1, <3>3 DEF Remembered, Advancing
  <2> QED
    BY <2>1, <2>2
<1>3. EntryOf(h, poll) = Refresh(before, poll.at, poll.seenPos[h])
  BY DEF EntryOf
<1> HIDE DEF before
<1>4. /\ Refresh(before, poll.at, poll.seenPos[h]) \in Entry
      /\ Refresh(before, poll.at, poll.seenPos[h]).lastSeen = poll.at
      /\ Remembered(Refresh(before, poll.at, poll.seenPos[h]))
      /\ Advancing(Refresh(before, poll.at, poll.seenPos[h]))
  BY <1>1, <1>2, RefreshKeeps
<1> QED
  BY <1>3, <1>4

\* What a delivery does to the map, and to what the polls have told.
LEMMA DeliverStep ==
  ASSUME IndInv, NEW a \in Adapters, Deliver(a)
  PROVE  IndInv'
<1> DEFINE poll == polls[a]
<1>1. /\ TypeOK /\ Clocked /\ TracksAdvance /\ Lagging
      /\ PollTyped(poll) /\ poll.at <= now /\ now - poll.at <= MaxLag
      /\ poll.at \in Time
  BY DEF IndInv, Deliver, Clocked, PollTyped
<1>2. /\ Update(poll) /\ Remember(poll)
      /\ polls' = [polls EXCEPT ![a] = NoPoll]
      /\ UNCHANGED <<now, lists, fixAt>>
  BY DEF Deliver
<1>3. /\ DOMAIN tracked' = (DOMAIN tracked \cup DOMAIN poll.seenPos) \ Departed(poll)
      /\ \A h \in DOMAIN tracked' :
           tracked'[h] = IF h \in DOMAIN poll.seenPos THEN EntryOf(h, poll)
                         ELSE tracked[h]
  BY <1>2 DEF Update
<1>4. \A h \in DOMAIN tracked' :
        /\ h \in Hexes
        /\ tracked'[h] \in Entry /\ Remembered(tracked'[h]) /\ Advancing(tracked'[h])
        /\ h \in DOMAIN poll.seenPos => tracked'[h].lastSeen = poll.at
        /\ h \notin DOMAIN poll.seenPos => h \in DOMAIN tracked /\ tracked'[h] = tracked[h]
  <2> TAKE h \in DOMAIN tracked'
  <2>1. CASE h \in DOMAIN poll.seenPos
    BY <1>1, <1>3, <2>1, EntryKeeps DEF PollTyped
  <2>2. CASE h \notin DOMAIN poll.seenPos
    BY <1>1, <1>3, <2>2 DEF TypeOK, TracksAdvance
  <2> QED
    BY <2>1, <2>2
<1>5. \A h \in Hexes :
        heard'[h] = IF h \in DOMAIN poll.seenPos /\ heard[h] < poll.at THEN poll.at
                    ELSE heard[h]
  BY <1>2 DEF Remember
<1>6. TypeOK'
  <2>1. ageShown' \in [Hexes -> Time \cup {NoFix}] /\ heard' \in [Hexes -> Time \cup {NoFix}]
    <3>1. \A h \in DOMAIN poll.seenPos : poll.seenPos[h] \in Time \cup {NoFix}
      BY <1>1, TimeAssumption DEF PollTyped, Time
    <3> QED
      BY <1>1, <1>2, <3>1 DEF Remember, TypeOK
  <2>2. \A b \in Adapters : polls'[b] = NoPoll \/ polls'[b].at \in Time
    <3>1. polls' = [b \in DOMAIN polls |-> IF b = a THEN NoPoll ELSE polls[b]]
      BY <1>2
    <3> QED
      BY <1>1, <1>2, <3>1 DEF TypeOK
  <2> QED
    BY <1>1, <1>2, <1>4, <2>1, <2>2 DEF TypeOK
<1>7. Clocked'
  <2> SUFFICES ASSUME NEW b \in Adapters, polls'[b] # NoPoll
               PROVE  /\ PollTyped(polls'[b])
                      /\ polls'[b].at <= now
                      /\ now - polls'[b].at <= MaxLag
    BY <1>1, <1>2 DEF Clocked
  <2>1. polls'[b] = polls[b] /\ polls[b] # NoPoll
    BY <1>1, <1>2 DEF Clocked
  <2> QED
    BY <1>1, <2>1 DEF Clocked
<1>8. TracksAdvance'
  BY <1>4 DEF TracksAdvance
<1>9. Lagging'
  <2>1. /\ now \in Nat /\ MaxLag \in Nat /\ poll.at \in Nat
        /\ \A h \in Hexes : heard[h] \in Nat \cup {NoFix} /\ heard[h] <= now
    BY <1>1, TimeAssumption DEF TypeOK, Time, Lagging
  <2>2. \A h \in Hexes : heard'[h] <= now'
    BY <1>1, <1>2, <1>5, <2>1
  <2>3. ASSUME NEW h \in DOMAIN tracked'
        PROVE  heard'[h] # NoFix /\ heard'[h] - MaxLag <= tracked'[h].lastSeen
    <3>1. CASE h \in DOMAIN poll.seenPos
      <4>1. heard'[h] \in Nat /\ heard'[h] <= now /\ tracked'[h].lastSeen = poll.at
        BY <1>4, <1>5, <2>1, <2>2, <1>1, <1>2, <3>1 DEF NoFix
      <4> QED
        BY <1>1, <2>1, <4>1 DEF NoFix
    <3>2. CASE h \notin DOMAIN poll.seenPos
      BY <1>1, <1>4, <1>5, <3>2 DEF Lagging
    <3> QED
      BY <3>1, <3>2
  <2> QED
    BY <2>2, <2>3 DEF Lagging
<1> QED
  BY <1>6, <1>7, <1>8, <1>9 DEF IndInv

\* A poll shows the ages at the time it is taken.
LEMMA PollStep ==
  ASSUME IndInv, NEW a \in Adapters, Poll(a)
  PROVE  IndInv'
<1> DEFINE poll == [at |-> now,
                    seenPos |-> [h \in lists[a] |-> IF fixAt[a][h] = NoFix THEN NoFix
                                                    ELSE now - fixAt[a][h]]]
<1>1. /\ TypeOK /\ Clocked /\ TracksAdvance /\ Lagging
      /\ polls' = [polls EXCEPT ![a] = poll]
      /\ UNCHANGED <<now, lists, fixAt, tracked, ageShown, heard>>
  BY DEF IndInv, Poll
<1>2. /\ now \in Time /\ now \in Nat /\ MaxLag \in Nat /\ lists[a] \subseteq Hexes
      /\ \A h \in lists[a] : fixAt[a][h] \in Nat \cup {NoFix} /\ fixAt[a][h] <= now
  BY <1>1, TimeAssumption DEF TypeOK, Clocked, Time
<1>3. \A h \in lists[a] : poll.seenPos[h] \in 0 .. now \cup {NoFix}
  BY <1>2
<1>4. PollTyped(poll) /\ poll.at = now
  BY <1>2, <1>3 DEF PollTyped
<1> HIDE DEF poll
<1>5. \A b \in Adapters : polls'[b] = IF b = a THEN poll ELSE polls[b]
  BY <1>1 DEF Clocked
<1>6. TypeOK'
  BY <1>1, <1>2, <1>4, <1>5 DEF TypeOK
<1>7. Clocked'
  BY <1>1, <1>2, <1>4, <1>5 DEF Clocked
<1> QED
  BY <1>1, <1>6, <1>7 DEF IndInv, TracksAdvance, Lagging

\* The decoders do not touch the tracker.
LEMMA DecoderStep ==
  ASSUME IndInv, NEW a \in Adapters, NEW h \in Hexes, Hear(a, h) \/ Fix(a, h) \/ Lose(a, h)
  PROVE  IndInv'
<1>1. /\ TypeOK /\ Clocked /\ TracksAdvance /\ Lagging
      /\ UNCHANGED <<now, polls, tracked, ageShown, heard>>
  BY DEF IndInv, Hear, Fix, Lose
<1>2. now \in Time /\ now \in Nat
  BY <1>1, TimeAssumption DEF TypeOK, Time
<1>3. lists' \in [Adapters -> SUBSET Hexes]
  BY <1>1 DEF TypeOK, Hear, Fix, Lose
<1>4. \A b \in Adapters, k \in Hexes : fixAt'[b][k] \in {fixAt[b][k], now, NoFix}
  BY <1>1 DEF TypeOK, Hear, Fix, Lose
<1>5. fixAt' \in [Adapters -> [Hexes -> Time \cup {NoFix}]]
  BY <1>1, <1>2 DEF TypeOK, Hear, Fix, Lose
<1>6. TypeOK'
  BY <1>1, <1>3, <1>5 DEF TypeOK
<1>7. Clocked'
  BY <1>1, <1>2, <1>4 DEF Clocked, NoFix
<1> QED
  BY <1>1, <1>6, <1>7 DEF IndInv, TracksAdvance, Lagging

\* No poll in flight gets older than the lag.
LEMMA TickStep ==
  ASSUME IndInv, Tick
  PROVE  IndInv'
<1>1. /\ TypeOK /\ Clocked /\ TracksAdvance /\ Lagging
      /\ now < MaxTime /\ now' = now + 1
      /\ \A a \in Adapters : polls[a] = NoPoll \/ now - polls[a].at < MaxLag
      /\ UNCHANGED <<lists, fixAt, polls, tracked, ageShown, heard>>
  BY DEF IndInv, Tick
<1>2. /\ now \in Nat /\ MaxTime \in Nat /\ MaxLag \in Nat /\ now' \in Time
      /\ \A a \in Adapters : polls[a] = NoPoll \/ polls[a].at \in Nat
      /\ \A a \in Adapters, h \in Hexes : fixAt[a][h] \in Nat \cup {NoFix}
      /\ \A h \in Hexes : heard[h] \in Nat \cup {NoFix}
  BY <1>1, TimeAssumption DEF TypeOK, Time
<1>3. TypeOK'
  BY <1>1, <1>2 DEF TypeOK
<1>4. Clocked'
  BY <1>1, <1>2 DEF Clocked, PollTyped, NoFix
<1>5. Lagging'
  BY <1>1, <1>2 DEF Lagging, NoFix
<1> QED
  BY <1>1, <1>3, <1>4, <1>5 DEF IndInv, TracksAdvance

LEMMA Inductive == IndInv /\ [Next]_vars => IndInv'
<1> SUFFICES ASSUME IndInv, [Next]_vars PROVE IndInv'
  OBVIOUS
<1>1. CASE UNCHANGED vars
  BY <1>1 DEF vars, IndInv, TypeOK, Clocked, TracksAdvance, Lagging
<1>2. CASE Next
  BY <1>2, PollStep, DeliverStep, DecoderStep, TickStep DEF Next
<1> QED
  BY <1>1, <1>2

LEMMA Invariance == Spec => []IndInv
BY Initially, Inductive, PTL DEF Spec

-----------------------------------------------------------------------------
\* No fix counts twice, except from an overtaken poll, for any adapters and any lag.
THEOREM NothingInflated == Spec => []NoInflation
<1>1. IndInv => NoInflation
  BY DEF IndInv, NoInflation, TracksAdvance, Advancing
<1> QED
  BY <1>1, Invariance, PTL

\* Nobody departs who was listed within the threshold, less the lag.
THEOREM DeparturesAreAbsences == Spec => AbsentLongEnough
<1>1. IndInv /\ [Next]_vars =>
        [\A h \in DOMAIN tracked \ DOMAIN tracked' : now - heard[h] >= Threshold - MaxLag]_vars
  <2> SUFFICES ASSUME IndInv, [Next]_vars, NEW h \in DOMAIN tracked \ DOMAIN tracked'
               PROVE  now - heard[h] >= Threshold - MaxLag
    OBVIOUS
  <2>1. PICK a \in Adapters : Deliver(a)
    BY DEF Next, vars, Poll, Hear, Fix, Lose, Tick
  <2>2. /\ h \in Departed(polls[a])
        /\ polls[a] # NoPoll
    BY <2>1 DEF Deliver, Update
  <2>3. /\ polls[a].at \in Nat /\ polls[a].at <= now /\ now \in Nat
        /\ Threshold \in Nat /\ MaxLag \in Nat
        /\ heard[h] \in Nat /\ tracked[h].lastSeen \in Nat
    BY <2>2, TimeAssumption DEF IndInv, TypeOK, Clocked, Lagging, Time, Entry
  <2>4. /\ polls[a].at - tracked[h].lastSeen >= Threshold
        /\ heard[h] - MaxLag <= tracked[h].lastSeen
    BY <2>2 DEF Departed, IndInv, Lagging
  <2> QED
    BY <2>3, <2>4
<1> QED
  BY <1>1, Invariance, PTL DEF Spec, AbsentLongEnough

=============================================================================

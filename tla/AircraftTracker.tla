--------------------------- MODULE AircraftTracker ---------------------------
(***************************************************************************)
(* AircraftTracker.update (src/server/src/tracker.ts): which position      *)
(* fixes are new, and when an aircraft has departed, told from the polls   *)
(* several adapters take of their decoders.                                *)
(*                                                                         *)
(* A decoder lists the aircraft it hears, each with the age of its last    *)
(* position fix (seenPos).  A poll is stamped with the decoder's time and  *)
(* reaches the tracker up to MaxLag ticks later: HTTP, the socket and the  *)
(* clocks of decoders on other hosts all add to the lag.  Two polls of one *)
(* adapter arrive in order; polls of different adapters need not.          *)
(***************************************************************************)
EXTENDS Integers, Sequences

CONSTANTS Adapters, Hexes,
          Threshold,    \* departureThresholdMs, in ticks
          MaxLag,       \* a poll arrives at most this many ticks late
          MaxTime       \* bound: the clock

ASSUME TimeAssumption ==
  Threshold \in Nat \ {0} /\ MaxLag \in Nat /\ MaxTime \in Nat

VARIABLES now,       \* the time
          lists,     \* adapter -> the aircraft its decoder lists
          fixAt,     \* adapter -> aircraft -> time of the last fix, or NoFix
          polls,     \* adapter -> the poll in flight, or none
          tracked,   \* the map tracked: hex -> entry
          ageShown,  \* hex -> seenPos in the last poll that listed it
          heard      \* hex -> latest stamp of a poll that listed it

vars == <<now, lists, fixAt, polls, tracked, ageShown, heard>>

NoFix == -1          \* null: no position
Time == 0 .. MaxTime
NoPoll == [at |-> NoFix, seenPos |-> [h \in {} |-> 0]]

Init ==
  /\ now = 0
  /\ lists = [a \in Adapters |-> {}]
  /\ fixAt = [a \in Adapters |-> [h \in Hexes |-> NoFix]]
  /\ polls = [a \in Adapters |-> NoPoll]
  /\ tracked = [h \in {} |-> 0]
  /\ ageShown = [h \in Hexes |-> NoFix]
  /\ heard = [h \in Hexes |-> NoFix]

-----------------------------------------------------------------------------
\* A position report: when the fix was taken.  The stamp of the poll that brought
\* it is kept for the properties.
Report(at, seenPos) == [fix |-> at - seenPos, at |-> at]

\* Mutant of Refresh: any position is a new fix.
RefreshAlways(entry, at, seenPos) ==
  IF seenPos # NoFix
  THEN [lastSeen |-> at, lastSeenPos |-> seenPos,
        track |-> Append(entry.track, Report(at, seenPos))]
  ELSE [entry EXCEPT !.lastSeen = at]

\* Mutant of Refresh: lastSeen is set only when a fix is new.
RefreshOnFix(entry, at, seenPos) ==
  IF /\ seenPos # NoFix
     /\ entry.lastSeenPos = NoFix \/ seenPos < entry.lastSeenPos
  THEN [lastSeen |-> at, lastSeenPos |-> seenPos,
        track |-> Append(entry.track, Report(at, seenPos))]
  ELSE entry

\* isNewFix: the age is below that of the last fix counted.  A new fix is
\* reported with the time it was taken; positionCount is Len(track).
Refresh(entry, at, seenPos) ==
  IF /\ seenPos # NoFix
     /\ entry.lastSeenPos = NoFix \/ seenPos < entry.lastSeenPos
  THEN [lastSeen |-> at, lastSeenPos |-> seenPos,
        track |-> Append(entry.track, Report(at, seenPos))]
  ELSE [entry EXCEPT !.lastSeen = at]

\* The entry of an aircraft the poll lists.
EntryOf(h, poll) ==
  LET before == IF h \in DOMAIN tracked THEN tracked[h]
                ELSE [lastSeen |-> poll.at, lastSeenPos |-> NoFix,
                      track |-> << >>]
  IN  Refresh(before, poll.at, poll.seenPos[h])

\* The tracked aircraft a poll does not list and that were absent too long.
Departed(poll) ==
  {h \in DOMAIN tracked \ DOMAIN poll.seenPos :
     poll.at - tracked[h].lastSeen >= Threshold}

\* update
Update(poll) ==
  tracked' =
    [h \in (DOMAIN tracked \cup DOMAIN poll.seenPos) \ Departed(poll) |->
       IF h \in DOMAIN poll.seenPos THEN EntryOf(h, poll) ELSE tracked[h]]

\* What the polls told the tracker, for the properties.
Remember(poll) ==
  /\ ageShown' = [h \in Hexes |->
       IF h \in Departed(poll) THEN NoFix
       ELSE IF h \in DOMAIN poll.seenPos THEN poll.seenPos[h] ELSE ageShown[h]]
  /\ heard' = [h \in Hexes |->
       IF h \in DOMAIN poll.seenPos /\ heard[h] < poll.at THEN poll.at
       ELSE heard[h]]

-----------------------------------------------------------------------------
\* A decoder hears an aircraft, with or without a position fix.
Hear(a, h) ==
  /\ h \notin lists[a]
  /\ lists' = [lists EXCEPT ![a] = @ \cup {h}]
  /\ UNCHANGED <<now, fixAt, polls, tracked, ageShown, heard>>

Fix(a, h) ==
  /\ h \in lists[a]
  /\ fixAt' = [fixAt EXCEPT ![a][h] = now]
  /\ UNCHANGED <<now, lists, polls, tracked, ageShown, heard>>

\* A decoder stops listing an aircraft.
Lose(a, h) ==
  /\ h \in lists[a]
  /\ lists' = [lists EXCEPT ![a] = @ \ {h}]
  /\ fixAt' = [fixAt EXCEPT ![a][h] = NoFix]
  /\ UNCHANGED <<now, polls, tracked, ageShown, heard>>

\* An adapter's poll is answered: a snapshot of what the decoder lists.
Poll(a) ==
  /\ polls[a] = NoPoll
  /\ polls' = [polls EXCEPT ![a] =
       [at |-> now,
        seenPos |-> [h \in lists[a] |-> IF fixAt[a][h] = NoFix THEN NoFix
                                        ELSE now - fixAt[a][h]]]]
  /\ UNCHANGED <<now, lists, fixAt, tracked, ageShown, heard>>

\* The poll reaches the daemon, which runs the tracker on it.
Deliver(a) ==
  /\ polls[a] # NoPoll
  /\ Update(polls[a])
  /\ Remember(polls[a])
  /\ polls' = [polls EXCEPT ![a] = NoPoll]
  /\ UNCHANGED <<now, lists, fixAt>>

\* Time passes, up to the lag of the oldest poll in flight.
Tick ==
  /\ now < MaxTime
  /\ \A a \in Adapters : polls[a] = NoPoll \/ now - polls[a].at < MaxLag
  /\ now' = now + 1
  /\ UNCHANGED <<lists, fixAt, polls, tracked, ageShown, heard>>

Next ==
  \/ \E a \in Adapters :
       \/ Poll(a) \/ Deliver(a)
       \/ \E h \in Hexes : Hear(a, h) \/ Fix(a, h) \/ Lose(a, h)
  \/ Tick

Spec == Init /\ [][Next]_vars

-----------------------------------------------------------------------------
Entry == [lastSeen : Time, lastSeenPos : Time \cup {NoFix}, 
          track : Seq([fix : Time, at : Time])]

TypeOK ==
  /\ now \in Time
  /\ lists \in [Adapters -> SUBSET Hexes]
  /\ fixAt \in [Adapters -> [Hexes -> Time \cup {NoFix}]]
  /\ \A a \in Adapters : polls[a] = NoPoll \/ polls[a].at \in Time
  /\ DOMAIN tracked \subseteq Hexes
  /\ \A h \in DOMAIN tracked : tracked[h] \in Entry
  /\ ageShown \in [Hexes -> Time \cup {NoFix}]
  /\ heard \in [Hexes -> Time \cup {NoFix}]

\* Types, and: each report of an aircraft is of a later fix than the one before, also when
\* different decoders brought them: no fix is counted or published twice
\* (tracker.test.ts: "Stale position no inflation"), except from a poll that
\* was overtaken by one stamped later.
NoInflation ==
  /\ TypeOK
  /\ \A h \in DOMAIN tracked :
    \A i \in 2 .. Len(tracked[h].track) :
      LET before == tracked[h].track[i - 1]
          report == tracked[h].track[i]
      IN  before.at <= report.at => before.fix < report.fix

\* positionCount grows whenever the age the polls show has dropped since the
\* poll before: "new fix arrived" (tracker.test.ts).
CountsNewFix ==
  [][\A h \in DOMAIN tracked \cap DOMAIN tracked' :
       (ageShown'[h] # NoFix /\ ageShown'[h] < ageShown[h])
         => Len(tracked'[h].track) > Len(tracked[h].track)]_vars

\* An aircraft departs only when no poll has listed it for the threshold, less
\* the time a poll may be late: one that was overtaken sets lastSeen back.
AbsentLongEnough ==
  [][\A h \in DOMAIN tracked \ DOMAIN tracked' :
       now - heard[h] >= Threshold - MaxLag]_vars

=============================================================================

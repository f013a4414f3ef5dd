---------------------------- MODULE AdapterProofs ----------------------------
(***************************************************************************)
(* Theorems about the two ends of the adapter socket: the daemon's server  *)
(* (AdapterServer), for any connections and sources, and readsb's adapter  *)
(* with what it writes (AdapterFeed), for any wait, number of windows and  *)
(* source override.  Spec, Next and vars are the server's, FeedSpec,       *)
(* FeedNext and feedVars the adapter's.                                    *)
(***************************************************************************)
EXTENDS AdapterServer, AdapterFeed, TLAPS

-----------------------------------------------------------------------------
(* Lemmas.                                                                 *)

\* Destroy keeps the statuses typed, makes no connection open, and touches only
\* the connections it is given.
LEMMA DestroyFacts ==
  ASSUME TypeOK, NEW C, Destroy(C)
  PROVE  /\ socket' \in [Conns -> {"unused", "open", "destroyed", "closed"}]
         /\ \A c \in Conns : socket'[c] = "open" => socket[c] = "open" /\ c \notin C
         /\ \A c \in Conns : socket[c] # "open" => socket'[c] = socket[c]
  BY DEF TypeOK, Destroy

\* The states are typed.
LEMMA TypeStep == TypeOK /\ [Next]_vars => TypeOK'
<1> SUFFICES ASSUME TypeOK, [Next]_vars PROVE TypeOK'
  OBVIOUS
<1> USE DEF TypeOK
<1>1. ASSUME NEW c \in Conns, Connect(c) PROVE TypeOK'
  BY <1>1 DEF Connect
<1>2. ASSUME NEW c \in Conns, Timeout(c) PROVE TypeOK'
  BY <1>2, DestroyFacts DEF Timeout
<1>3. ASSUME NEW c \in Conns, Data(c) PROVE TypeOK'
  BY <1>3 DEF Data
<1>4. ASSUME NEW c \in Conns, Reject(c) PROVE TypeOK'
  BY <1>4, DestroyFacts DEF Reject
<1>5. ASSUME NEW c \in Conns, EndCall(c) PROVE TypeOK'
  BY <1>5 DEF EndCall
<1>6. ASSUME NEW c \in Conns, NEW s \in Sources, Handshake(c, s) PROVE TypeOK'
  BY <1>6, DestroyFacts DEF Handshake
<1>7. ASSUME NEW c \in Conns, Hangup(c) PROVE TypeOK'
  BY <1>7, DestroyFacts DEF Hangup
<1>8. ASSUME NEW c \in Conns, Error(c) PROVE TypeOK'
  BY <1>8, DestroyFacts DEF Error, Cleanup, EntriesOf
<1>9. ASSUME NEW c \in Conns, Close(c) PROVE TypeOK'
  BY <1>9 DEF Close, Cleanup, EntriesOf
<1>10. ASSUME Stop PROVE TypeOK'
  <2> DEFINE known == pending \cup {active[s] : s \in Sources}
  <2>1. Destroy(known)
    BY <1>10 DEF Stop
  <2>2. socket' \in [Conns -> {"unused", "open", "destroyed", "closed"}]
    BY <2>1, DestroyFacts
  <2> QED
    BY <1>10, <2>2 DEF Stop
<1>11. ASSUME Stopped PROVE TypeOK'
  BY <1>11 DEF Stopped
<1>12. CASE UNCHANGED vars
  BY <1>12 DEF vars
<1> QED
  BY <1>1, <1>2, <1>3, <1>4, <1>5, <1>6, <1>7, <1>8, <1>9, <1>10, <1>11, <1>12
  DEF Next, Lines

-----------------------------------------------------------------------------
\* Every state of the server is typed.
THEOREM TypeCorrect == Spec => []TypeOK
<1>1. Init => TypeOK
  BY DEF Init, TypeOK
<1> QED
  BY <1>1, TypeStep, PTL DEF Spec

-----------------------------------------------------------------------------
(* A connection that is in use was opened, and an unused one is blank: what *)
(* OwnsItsSource and Supervised need of a new connection.                   *)

Begun ==
  /\ \A c \in Conns : socket[c] = "unused" => source[c] = None
  /\ \A c \in Conns : inCall = c => socket[c] # "unused"

\* The inductive invariant of the registry.
Registry == TypeOK /\ Begun /\ OwnsItsSource /\ Supervised

\* Steps that end connections and leave the registry as it is keep it.
LEMMA EndingStep ==
  ASSUME Registry, NEW C \in SUBSET Conns, Destroy(C), TypeOK',
         UNCHANGED <<pending, source, active>>,
         timer' \subseteq timer, timer \ C \subseteq timer',
         inCall' \in {inCall, None}
  PROVE  Registry'
<1> USE DEF Registry, TypeOK
<1>1. \A c \in Conns : socket'[c] = "open" => socket[c] = "open" /\ c \notin C
  BY DestroyFacts
<1>2. \A c \in Conns : socket'[c] = "unused" => socket[c] = "unused"
  BY DEF Destroy
<1>3. \A c \in Conns : inCall' = c => inCall = c
  BY NoneAssumption
<1>4. Begun'
  <2>1. \A c \in Conns : socket'[c] = "unused" => source'[c] = None
    BY <1>2 DEF Begun
  <2>2. \A c \in Conns : inCall' = c => socket'[c] # "unused"
    BY <1>2, <1>3 DEF Begun
  <2> QED
    BY <2>1, <2>2 DEF Begun
<1>5. OwnsItsSource'
  BY <1>1, <1>3 DEF OwnsItsSource, Routes
<1>6. Supervised'
  BY <1>1 DEF Supervised, EntriesOf
<1> QED
  BY <1>4, <1>5, <1>6

\* The cleanup of a connection that is no longer open touches no other's.
LEMMA CleanupStep ==
  ASSUME Registry, TypeOK', NEW c \in Conns, Cleanup(c), Free, socket[c] # "unused",
         socket'[c] # "open", socket'[c] # "unused",
         \A d \in Conns \ {c} : socket'[d] = socket[d]
  PROVE  Registry'
<1> USE DEF Registry, TypeOK, Cleanup, Free
<1>1. \A s \in Sources : active[s] # c => active'[s] = active[s]
  BY DEF EntriesOf
<1>2. Begun'
  BY NoneAssumption DEF Begun
<1>3. OwnsItsSource'
  BY <1>1, NoneAssumption DEF OwnsItsSource, Routes
<1>4. Supervised'
  <2> SUFFICES ASSUME NEW d \in Conns, socket'[d] = "open"
               PROVE  IF source'[d] = None THEN d \in pending' /\ d \in timer'
                      ELSE d \notin pending' /\ d \notin timer' /\ EntriesOf(d)' # {}
    BY DEF Supervised
  <2>1. d # c /\ socket[d] = "open"
    OBVIOUS
  <2>2. EntriesOf(d) \subseteq EntriesOf(d)'
    BY <1>1, <2>1 DEF EntriesOf
  <2> QED
    BY <2>1, <2>2 DEF Supervised
<1> QED
  BY <1>2, <1>3, <1>4

\* A handshake: whoever held the source is ended, so every open connection still
\* has an entry, and the one of its own source.
LEMMA HandshakeStep ==
  ASSUME Registry, TypeOK', NEW c \in Conns, NEW s \in Sources, Handshake(c, s)
  PROVE  Registry'
<1> USE DEF Registry, TypeOK, Handshake
<1>1. Destroy({active[s]})
  OBVIOUS
<1>2. \A d \in Conns : socket'[d] = "open" => socket[d] = "open" /\ d # active[s]
  BY <1>1, DestroyFacts
<1>3. \A d \in Conns : socket[d] # "open" => socket'[d] = socket[d]
  BY <1>1, DestroyFacts
<1>4. \A d \in Conns : socket'[d] = "unused" => socket[d] = "unused"
  BY DEF Destroy
<1>5. Begun'
  BY <1>4, NoneAssumption DEF Begun
<1>6. OwnsItsSource'
  BY <1>2, NoneAssumption DEF OwnsItsSource, Routes
<1>7. Supervised'
  <2> SUFFICES ASSUME NEW d \in Conns, socket'[d] = "open"
               PROVE  IF source'[d] = None THEN d \in pending' /\ d \in timer'
                      ELSE d \notin pending' /\ d \notin timer' /\ EntriesOf(d)' # {}
    BY DEF Supervised
  <2>1. CASE d = c
    BY <2>1, NoneAssumption DEF EntriesOf
  <2>2. CASE d # c
    <3>1. socket[d] = "open" /\ d # active[s]
      BY <1>2
    <3>2. EntriesOf(d) \subseteq EntriesOf(d)'
      BY <3>1 DEF EntriesOf
    <3> QED
      BY <2>2, <3>1, <3>2 DEF Supervised
  <2> QED
    BY <2>1, <2>2
<1> QED
  BY <1>5, <1>6, <1>7

\* Stop ends every connection: by Supervised it knows each that is open.
LEMMA StopStep ==
  ASSUME Registry, TypeOK', Stop
  PROVE  Registry'
<1> USE DEF Registry, TypeOK
<1> DEFINE known == pending \cup {active[s] : s \in Sources}
<1>1. Destroy(known) /\ source' = source /\ inCall' = inCall /\ inCall = None
  BY DEF Stop, Free
<1>2. \A c \in Conns : socket[c] = "open" => c \in known
  BY DEF Supervised, EntriesOf
<1>3. \A c \in Conns : socket'[c] # "open"
  BY <1>1, <1>2, DestroyFacts
<1>4. \A c \in Conns : socket'[c] = "unused" => socket[c] = "unused"
  BY <1>1 DEF Destroy
<1> QED
  BY <1>1, <1>3, <1>4, NoneAssumption DEF Begun, OwnsItsSource, Supervised, Routes

\* Every step keeps the registry.
LEMMA RegistryStep == Registry /\ [Next]_vars => Registry'
<1> SUFFICES ASSUME Registry, [Next]_vars PROVE Registry'
  OBVIOUS
<1>0. TypeOK'
  BY TypeStep DEF Registry
<1>1. ASSUME NEW c \in Conns, Connect(c) PROVE Registry'
  BY <1>0, <1>1, NoneAssumption
  DEF Connect, Free, Registry, TypeOK, Begun, OwnsItsSource, Supervised, Routes,
      EntriesOf
<1>2. ASSUME NEW c \in Conns, Timeout(c) PROVE Registry'
  BY <1>0, <1>2, EndingStep DEF Timeout
<1>3. ASSUME NEW c \in Conns, Data(c) PROVE Registry'
  BY <1>0, <1>3, NoneAssumption
  DEF Data, Free, Registry, TypeOK, Begun, OwnsItsSource, Supervised, Routes,
      EntriesOf
<1>4. ASSUME NEW c \in Conns, Reject(c) PROVE Registry'
  BY <1>0, <1>4, EndingStep DEF Reject
<1>5. ASSUME NEW c \in Conns, EndCall(c) PROVE Registry'
  BY <1>0, <1>5, NoneAssumption
  DEF EndCall, Registry, TypeOK, Begun, OwnsItsSource, Supervised, Routes, EntriesOf
<1>6. ASSUME NEW c \in Conns, NEW s \in Sources, Handshake(c, s) PROVE Registry'
  BY <1>0, <1>6, HandshakeStep
<1>7. ASSUME NEW c \in Conns, Hangup(c) PROVE Registry'
  BY <1>0, <1>7, EndingStep DEF Hangup
<1>8. ASSUME NEW c \in Conns, Error(c) PROVE Registry'
  <2>1. /\ socket'[c] = "destroyed"
        /\ \A d \in Conns \ {c} : socket'[d] = socket[d]
    BY <1>8 DEF Error, Destroy
  <2> QED
    BY <1>0, <1>8, <2>1, CleanupStep DEF Error
<1>9. ASSUME NEW c \in Conns, Close(c) PROVE Registry'
  <2>1. /\ socket'[c] = "closed"
        /\ \A d \in Conns \ {c} : socket'[d] = socket[d]
    BY <1>9 DEF Close, Registry, TypeOK
  <2> QED
    BY <1>0, <1>9, <2>1, CleanupStep DEF Close
<1>10. ASSUME Stop PROVE Registry'
  BY <1>0, <1>10, StopStep
<1>11. ASSUME Stopped PROVE Registry'
  BY <1>0, <1>11
  DEF Stopped, Registry, TypeOK, Begun, OwnsItsSource, Supervised, Routes, EntriesOf
<1>12. CASE UNCHANGED vars
  BY <1>12
  DEF vars, Registry, TypeOK, Begun, OwnsItsSource, Supervised, Routes, EntriesOf
<1> QED
  BY <1>1, <1>2, <1>3, <1>4, <1>5, <1>6, <1>7, <1>8, <1>9, <1>10, <1>11, <1>12
  DEF Next, Lines

\* At the start nothing is connected.
LEMMA RegistryInit == Init => Registry
  BY NoneAssumption
  DEF Init, Registry, TypeOK, Begun, OwnsItsSource, Supervised, Routes, EntriesOf

-----------------------------------------------------------------------------
\* handleHandshake, cleanupConnection and stop together: data is attributed to a
\* source only from the connection registered for it, whatever the order in
\* which connections replace each other and their close events arrive.
THEOREM SourcesAreOwned == Spec => []OwnsItsSource
<1>1. Registry => OwnsItsSource
  BY DEF Registry
<1> QED
  BY <1>1, RegistryInit, RegistryStep, PTL DEF Spec

\* No open connection escapes both the handshake timer and the registry.
THEOREM ConnectionsAreSupervised == Spec => []Supervised
<1>1. Registry => Supervised
  BY DEF Registry
<1> QED
  BY <1>1, RegistryInit, RegistryStep, PTL DEF Spec

-----------------------------------------------------------------------------
(* The adapter's connection, its polls and its windows.                     *)

\* A step of the adapter, or a capture that it names to the daemon.
CaptureTold ==
  /\ link \in {"connecting", "open"}
  /\ slow' = slow + IF link = "connecting" THEN 1 ELSE 0
  /\ slow' <= MaxSlow
  /\ Write
  /\ UNCHANGED <<link, retry, delay, tries, lastWait, polling, poll, stats, window,
                 daemonUp, outages>>

\* Every step of the feed is one of these.
LEMMA FeedSteps == [FeedNext]_feedVars => [AdapterNext]_adapterVars \/ CaptureTold
BY DEF FeedNext, feedVars, AdapterNext, Quiet, Linking, Running, FeedAircraft, FeedStats,
       FeedHandshake, FeedCapture, CaptureTold

\* What a poll is.
Poll == [stage : {"idle", "aircraft", "stats", "answered"}, window : Windows]

\* The states are typed.
LEMMA IdleTyped == Idle \in Poll
BY BoundAssumption DEF Idle, Poll, Windows

LEMMA AdapterTyped == AdapterInit => AdapterTypeOK
<1> SUFFICES ASSUME AdapterInit PROVE AdapterTypeOK
  OBVIOUS
<1>1. delay \in Delays /\ lastWait \in Delays /\ tries \in 0 .. MaxTries
  BY DelayAssumption, BoundAssumption DEF AdapterInit, Delays
<1>2. window \in Windows /\ reported \in [Windows -> Nat]
  BY BoundAssumption DEF AdapterInit, Windows
<1>3. poll \in [Polls -> Poll]
  BY IdleTyped DEF AdapterInit
<1>4. spoiled \in Nat /\ slow \in 0 .. MaxSlow /\ late \in Nat
  BY BoundAssumption DEF AdapterInit
<1> QED
  BY <1>1, <1>2, <1>3, <1>4 DEF AdapterInit, AdapterTypeOK, Links, Poll

\* The smaller of two.
LEMMA AtMostFacts ==
  ASSUME NEW n \in Nat, NEW max \in Nat
  PROVE  AtMost(n, max) \in 0 .. max /\ AtMost(n, max) <= n
BY DEF AtMost

\* A poll that begins is typed.
LEMMA PollsTyped ==
  ASSUME AdapterTypeOK, Begin \/ UNCHANGED poll
  PROVE  poll' \in [Polls -> Poll]
BY DEF AdapterTypeOK, Begin, Poll

\* A message that is written.
LEMMA WriteTyped ==
  ASSUME AdapterTypeOK, Write
  PROVE  first' \in {"handshake", "data", Unset} /\ spoiled' \in Nat
BY DEF AdapterTypeOK, Write

\* The waits that were outlasted, counted up to their bound.
LEMMA SlowTyped ==
  ASSUME AdapterTypeOK, NEW more \in {0, 1}, slow' = slow + more, slow' <= MaxSlow
  PROVE  slow' \in 0 .. MaxSlow /\ slow <= slow'
BY BoundAssumption DEF AdapterTypeOK

\* A window that is reported.
LEMMA ReportTyped ==
  ASSUME AdapterTypeOK, NEW w \in Windows, NEW valid \in BOOLEAN, Report(w, valid)
  PROVE  /\ last' \in Windows \cup {Unset} /\ reported' \in [Windows -> Nat]
         /\ late' \in Nat
         /\ first' \in {"handshake", "data", Unset} /\ spoiled' \in Nat
BY WriteTyped DEF AdapterTypeOK, Report

LEMMA AdapterTypeStep ==
  AdapterTypeOK /\ ([AdapterNext]_adapterVars \/ CaptureTold) => AdapterTypeOK'
<1> SUFFICES ASSUME AdapterTypeOK, [AdapterNext]_adapterVars \/ CaptureTold
             PROVE  AdapterTypeOK'
  OBVIOUS
<1> USE DelayAssumption, BoundAssumption
<1>1. CASE CaptureTold
  BY <1>1, WriteTyped, SlowTyped DEF AdapterTypeOK, CaptureTold, stats
<1>2. CASE UNCHANGED adapterVars
  BY <1>2 DEF AdapterTypeOK, adapterVars, connection, stats
<1>3. CASE Linking
  <2>1. NextDelay \in Delays
    <3>1. 2 * delay \in Nat
      BY DEF AdapterTypeOK, Delays
    <3> QED
      BY <3>1, AtMostFacts DEF NextDelay, Delays
  <2>2. AtMost(tries + 1, MaxTries) \in 0 .. MaxTries
    BY AtMostFacts DEF AdapterTypeOK
  <2>3. poll' \in [Polls -> Poll]
    BY <1>3, PollsTyped DEF Linking, Connected, Errored, Finished, Closed, Reconnect
  <2>4. BaseDelay \in Delays /\ 0 \in Delays /\ 0 \in 0 .. MaxTries
    BY DEF Delays
  <2>5. retry' \in Delays \cup {Unset} /\ delay' \in Delays /\ lastWait' \in Delays
    BY <1>3, <2>1, <2>4 DEF AdapterTypeOK, Linking, Connected, Errored, Finished, Closed, Reconnect,
         Schedule
  <2>6. tries' \in 0 .. MaxTries
    BY <1>3, <2>2, <2>4 DEF AdapterTypeOK, Linking, Connected, Errored, Finished, Closed, Reconnect
  <2>7. link' \in Links /\ polling' \in BOOLEAN /\ first' \in {"handshake", "data", Unset}
    BY <1>3 DEF AdapterTypeOK, Linking, Connected, Errored, Finished, Closed, Reconnect, Links
  <2>8. slow' \in 0 .. MaxSlow
    BY <1>3, SlowTyped
       DEF AdapterTypeOK, Linking, Connected, Errored, Finished, Closed, Reconnect
  <2> QED
    BY <1>3, <2>3, <2>5, <2>6, <2>7, <2>8
       DEF AdapterTypeOK, Linking, Connected, Errored, Finished, Closed, Reconnect, stats, Poll
<1>4. CASE StopAdapter \/ PollTimer \/ NextWindow \/ DaemonStops \/ DaemonStarts
  <2>1. poll' \in [Polls -> Poll]
    BY <1>4, PollsTyped, IdleTyped
       DEF AdapterTypeOK, StopAdapter, PollTimer, NextWindow, DaemonStops, DaemonStarts,
           Poll
  <2>2. window' \in Windows /\ outages' \in Nat
    BY <1>4 DEF AdapterTypeOK, StopAdapter, PollTimer, NextWindow, DaemonStops,
                DaemonStarts, Windows
  <2> QED
    BY <1>4, <2>1, <2>2
       DEF AdapterTypeOK, StopAdapter, PollTimer, NextWindow, DaemonStops, DaemonStarts,
           connection, stats, Links, Poll
<1>5. ASSUME NEW p \in Polls, Running(p) \/ PollFails(p) PROVE AdapterTypeOK'
  <2>1. poll' \in [Polls -> Poll]
    <3>1. [stage |-> "answered", window |-> window] \in Poll
      BY DEF AdapterTypeOK, Poll
    <3>2. poll \in [Polls -> Poll] /\ [poll[p] EXCEPT !.stage = "stats"] \in Poll
      BY DEF AdapterTypeOK, Poll
    <3> QED
      BY <1>5, <3>1, <3>2, IdleTyped
         DEF Running, Aircraft, Answer, Stats, PollFails
  <2>2. /\ last' \in Windows \cup {Unset} /\ reported' \in [Windows -> Nat]
        /\ late' \in Nat
        /\ first' \in {"handshake", "data", Unset} /\ spoiled' \in Nat
    <3>1. poll[p].window \in Windows
      BY DEF AdapterTypeOK
    <3> QED
      BY <1>5, <3>1, WriteTyped, ReportTyped
         DEF AdapterTypeOK, Running, Aircraft, Answer, Stats, PollFails, stats, connection
  <2>3. UNCHANGED <<link, slow, retry, delay, tries, lastWait, polling, window, daemonUp,
                    outages>>
    BY <1>5 DEF Running, Aircraft, Answer, Stats, PollFails, stats, connection
  <2> QED
    BY <2>1, <2>2, <2>3 DEF AdapterTypeOK, Poll
<1> QED
  BY <1>1, <1>2, <1>3, <1>4, <1>5 DEF AdapterNext

-----------------------------------------------------------------------------
\* While the adapter connects no poll begins, and one that is under way has outlasted a
\* wait no connection was spoiled for yet; once it is open, something has been written.
Greeted ==
  /\ link = "connecting" =>
       /\ ~polling
       /\ first = Unset /\ (\E p \in Polls : poll[p].stage # "idle") => spoiled < slow
  /\ link = "open" => first # Unset
  /\ link = "down" => ~polling
  /\ SpoiledBySlowOnly

\* A write spoils a connection only while it is being made.
LEMMA WriteSpoils ==
  ASSUME AdapterTypeOK, Greeted, Write
  PROVE  IF link = "connecting" /\ first = Unset THEN first' # Unset /\ spoiled' = spoiled + 1
         ELSE UNCHANGED <<first, spoiled>>
BY UnsetAssumption DEF Greeted, Write

\* A poll that is over when the adapter connects anew cannot write before the handshake.
LEMMA GreetedStep ==
  ASSUME AdapterTypeOK, Greeted, [AdapterNext]_adapterVars \/ CaptureTold
  PROVE  Greeted'
<1> USE UnsetAssumption, BoundAssumption DEF Greeted, SpoiledBySlowOnly
<1>0. spoiled \in Nat /\ slow \in Nat
  BY DEF AdapterTypeOK
<1>1. CASE CaptureTold
  BY <1>0, <1>1, WriteSpoils DEF CaptureTold
<1>2. CASE UNCHANGED adapterVars
  BY <1>2 DEF adapterVars, connection
<1>3. CASE Linking
  <2>1. CASE Connected \/ Errored \/ Finished \/ Closed
    BY <1>0, <2>1 DEF Connected, Errored, Finished, Closed, Ended
  <2>2. CASE Reconnect
    <3>1. slow' = slow + IF \E p \in Polls : poll[p].stage # "idle" THEN 1 ELSE 0
      BY <2>2 DEF Reconnect
    <3>2. spoiled' = spoiled /\ poll' = poll /\ link = "down" /\ polling' = polling
          /\ link' = "connecting"
      BY <2>2 DEF Reconnect
    <3> QED
      BY <1>0, <3>1, <3>2
  <2> QED
    BY <1>3, <2>1, <2>2 DEF Linking
<1>4. CASE StopAdapter \/ PollTimer \/ NextWindow \/ DaemonStops \/ DaemonStarts
  BY <1>0, <1>4 DEF StopAdapter, PollTimer, NextWindow, DaemonStops, DaemonStarts, connection
<1>5. ASSUME NEW p \in Polls, Running(p) \/ PollFails(p) PROVE Greeted'
  <2>1. UNCHANGED <<link, slow, polling>> /\ poll[p].stage # "idle"
    BY <1>5 DEF Running, Aircraft, Answer, Stats, PollFails, connection
  <2>2. UNCHANGED <<first, spoiled>> \/ Write
    BY <1>5 DEF Running, Aircraft, Answer, Stats, PollFails, connection, Report
  <2>3. \A q \in Polls : poll'[q].stage # "idle" => poll[q].stage # "idle"
    BY <1>5 DEF AdapterTypeOK, Running, Aircraft, Answer, Stats, PollFails, Idle
  <2>4. CASE UNCHANGED <<first, spoiled>>
    BY <2>1, <2>3, <2>4
  <2>5. CASE Write
    BY <1>0, <2>1, <2>3, <2>5, WriteSpoils
  <2> QED
    BY <2>2, <2>4, <2>5
<1> QED
  BY <1>1, <1>2, <1>3, <1>4, <1>5 DEF AdapterNext

\* However polls, file writes and reconnects interleave, the connections whose first
\* message is not the handshake are at most the waits for a reconnect that a poll or a
\* write outlasted.
THEOREM OnlySlowSpoils == FeedSpec => []SpoiledBySlowOnly
<1>1. FeedInit => AdapterTypeOK /\ Greeted
  BY AdapterTyped, UnsetAssumption
     DEF FeedInit, AdapterInit, Greeted, SpoiledBySlowOnly, Idle
<1>2. AdapterTypeOK /\ Greeted /\ [FeedNext]_feedVars => (AdapterTypeOK /\ Greeted)'
  BY FeedSteps, AdapterTypeStep, GreetedStep
<1>3. Greeted => SpoiledBySlowOnly
  BY DEF Greeted
<1> QED
  BY <1>1, <1>2, <1>3, PTL DEF FeedSpec

-----------------------------------------------------------------------------
\* A window after the last one sent has been told again only where answers were late.
Overtaken ==
  \A w \in Windows :
    reported[w] <= late + IF last = Unset \/ last < w THEN 0 ELSE 1

\* An answer of an older window than the last is one that is late.
LEMMA ReportOvertakes ==
  ASSUME AdapterTypeOK, Overtaken, NEW v \in Windows, NEW valid \in BOOLEAN, v # last,
         Report(v, valid)
  PROVE  Overtaken'
<1> USE UnsetAssumption DEF Overtaken
<1>0. /\ late \in Nat /\ v \in Nat
      /\ last # Unset => last \in Nat
      /\ \A w \in Windows : w \in Nat /\ reported[w] \in Nat
  BY BoundAssumption DEF AdapterTypeOK, Windows
<1>1. /\ last' = v /\ v # Unset
      /\ late' = late + IF last # Unset /\ v < last THEN 1 ELSE 0
  BY <1>0 DEF Report
<1>2. \A w \in Windows : reported'[w] = reported[w] \/ (w = v /\ reported'[w] = reported[w] + 1)
  BY DEF Report, AdapterTypeOK
<1>3. SUFFICES ASSUME NEW w \in Windows
               PROVE  reported'[w] <= late' + IF v < w THEN 0 ELSE 1
  BY <1>1
<1>4. reported[w] <= late + IF last = Unset \/ last < w THEN 0 ELSE 1
  OBVIOUS
<1>5. CASE last # Unset /\ v < last
  BY <1>0, <1>1, <1>2, <1>4, <1>5
<1>6. CASE last = Unset \/ last < v
  BY <1>0, <1>1, <1>2, <1>4, <1>6
<1> QED
  BY <1>0, <1>5, <1>6

\* Every other step leaves what has been told as it is.
LEMMA OvertakenStep ==
  ASSUME AdapterTypeOK, Overtaken, [AdapterNext]_adapterVars \/ CaptureTold
  PROVE  Overtaken'
<1>1. CASE UNCHANGED stats
  BY <1>1 DEF Overtaken, stats
<1>2. ASSUME NEW p \in Polls, NEW valid \in BOOLEAN, Stats(p, valid) PROVE Overtaken'
  <2>1. poll[p].window \in Windows
    BY DEF AdapterTypeOK
  <2> QED
    BY <1>1, <1>2, <2>1, ReportOvertakes DEF Stats
<1> QED
  BY <1>1, <1>2
     DEF AdapterNext, adapterVars, CaptureTold, Linking, Connected, Errored, Finished, Closed,
         Reconnect, StopAdapter, PollTimer, NextWindow, DaemonStops, DaemonStarts, Running,
         Aircraft, Answer, PollFails

\* However many polls overlap, fail and overtake each other, and whichever socket their
\* answers meet, a stats window is told to the daemon at most once more often than
\* answers came after one of a later window.
THEOREM WindowsRepeatedWhenOvertaken == FeedSpec => []RepeatedOnlyOvertaken
<1>1. FeedInit => AdapterTypeOK /\ Overtaken
  BY AdapterTyped, BoundAssumption DEF FeedInit, AdapterInit, Overtaken
<1>2. AdapterTypeOK /\ Overtaken /\ [FeedNext]_feedVars => (AdapterTypeOK /\ Overtaken)'
  BY FeedSteps, AdapterTypeStep, OvertakenStep
<1>3. AdapterTypeOK /\ Overtaken => RepeatedOnlyOvertaken
  BY DEF Overtaken, RepeatedOnlyOvertaken, AdapterTypeOK
<1> QED
  BY <1>1, <1>2, <1>3, PTL DEF FeedSpec

-----------------------------------------------------------------------------
\* The wait that is set, and the next, are at least twice the last one.
Waits ==
  /\ link \notin {"failed", "down"} => retry = Unset
  /\ retry # Unset => AtMost(2 * retry, MaxDelay) <= delay
  /\ tries > 0 => /\ AtMost(2 * lastWait, MaxDelay) <= delay
                  /\ retry # Unset => AtMost(2 * lastWait, MaxDelay) <= retry

\* Only a connection that opened brings the wait back to its start.
LEMMA WaitsStep ==
  ASSUME AdapterTypeOK, Waits, [AdapterNext]_adapterVars \/ CaptureTold
  PROVE  /\ Waits'
         /\ tries' # tries /\ tries' > 1 => AtMost(2 * lastWait, MaxDelay) <= lastWait'
<1> USE DelayAssumption, BoundAssumption, UnsetAssumption
<1>0. /\ delay \in Nat /\ delay <= MaxDelay /\ lastWait \in Nat /\ tries \in Nat
      /\ MaxDelay \in Nat /\ MaxTries \in Nat /\ tries <= MaxTries
      /\ retry # Unset => retry \in Nat
  BY DEF AdapterTypeOK, Delays
<1>1. CASE UNCHANGED connection
  BY <1>1 DEF Waits, connection
<1>2. CASE CaptureTold \/ \E p \in Polls : Running(p) \/ PollFails(p)
  BY <1>2 DEF Waits, connection, CaptureTold, Running, Aircraft, Answer, Stats, PollFails
<1>3. CASE StopAdapter
  BY <1>3 DEF Waits, StopAdapter
<1>4. CASE Connected
  BY <1>0, <1>4 DEF Waits, Connected
<1>5. CASE Finished
  BY <1>0, <1>5 DEF Waits, Finished, Ended
<1>6. CASE Errored \/ Closed
  <2>1. /\ retry' = delay /\ delay' = AtMost(2 * delay, MaxDelay)
        /\ link' \in {"failed", "down"} /\ UNCHANGED <<tries, lastWait>>
    BY <1>6 DEF Errored, Closed, Schedule, NextDelay
  <2>2. delay <= delay' /\ delay' \in Nat
    BY <1>0, <2>1 DEF AtMost
  <2>3. AtMost(2 * lastWait, MaxDelay) \in Nat
    BY <1>0, AtMostFacts
  <2> QED
    BY <1>0, <2>1, <2>2, <2>3 DEF Waits
<1>7. CASE Reconnect
  <2>1. /\ retry # Unset /\ retry' = Unset /\ lastWait' = retry /\ delay' = delay
        /\ link' = "connecting" /\ tries' = AtMost(tries + 1, MaxTries)
    BY <1>7 DEF Reconnect
  <2>2. tries' # tries /\ tries' > 1 => tries > 0
    BY <1>0, <2>1 DEF AtMost
  <2> QED
    BY <1>0, <2>1, <2>2 DEF Waits
<1> QED
  BY <1>1, <1>2, <1>3, <1>4, <1>5, <1>6, <1>7
     DEF AdapterNext, adapterVars, Linking, PollTimer, NextWindow, DaemonStops, DaemonStarts

\* Between two attempts in a row without a connection the wait doubles, up to the longest
\* (the safety half of Reconnects: an adapter never hammers a daemon that is away).
THEOREM BackOffDoubles == FeedSpec => WaitsDouble
<1>1. FeedInit => AdapterTypeOK /\ Waits
  BY AdapterTyped DEF FeedInit, AdapterInit, Waits
<1>2. AdapterTypeOK /\ Waits /\ [FeedNext]_feedVars => (AdapterTypeOK /\ Waits)'
  BY FeedSteps, AdapterTypeStep, WaitsStep
<1>3. AdapterTypeOK /\ Waits /\ [FeedNext]_feedVars
        => [(tries' # tries /\ tries' > 1)
              => lastWait' >= AtMost(2 * lastWait, MaxDelay)]_adapterVars
  <2> SUFFICES ASSUME AdapterTypeOK, Waits, [FeedNext]_feedVars,
                      tries' # tries /\ tries' > 1
               PROVE  lastWait' >= AtMost(2 * lastWait, MaxDelay)
    OBVIOUS
  <2>1. AtMost(2 * lastWait, MaxDelay) <= lastWait'
    BY FeedSteps, WaitsStep
  <2> QED
    BY <2>1
<1> QED
  BY <1>1, <1>2, <1>3, PTL DEF FeedSpec, WaitsDouble

-----------------------------------------------------------------------------
(* What readsb answers, on its way to the callbacks.                       *)

\* The kinds of JSON values differ.
LEMMA Kinds ==
  /\ Undefined.is = "undefined" /\ Null.is = "null" /\ Infinite.is = "infinity"
  /\ \A n : Number(n).is = "number"
  /\ \A text, length : /\ String(text, length).is = "string"
                       /\ String(text, length).length = length
  /\ \A v : IsFinite(v) => v.is = "number"
BY DEF Undefined, Null, Infinite, Number, String, IsFinite

\* An object with one field more, or one less.
LEMMA WithField ==
  ASSUME NEW obj, NEW f, NEW v, NEW g
  PROVE  /\ Get(With(obj, f, v), g) = IF g = f THEN v ELSE Get(obj, g)
         /\ Get(Without(obj, f), g) = IF g = f THEN Undefined ELSE Get(obj, g)
BY DEF Get, With, Without

\* The names of an aircraft's fields that are taken over as they are.
SameFields == AircraftFields \ {"icaoHex", "source", "nic", "rc"}

\* The address of the aircraft readsb speaks of.
Hex == String("abc123", 6)

\* What holds of an aircraft whatever readsb says.
Shaped(ac) ==
  /\ Get(ac, "hex") = Hex
  /\ \A f \in SameFields : Get(ac, f) \in Values \cup {Undefined}
  /\ Get(ac, "type") \in {Undefined, Null, String("adsb_icao", 9), String("a long name", 33)}
  /\ "lastPosition" \in DOMAIN ac => \A f \in {"nic", "rc"} :
       /\ f \in DOMAIN ac.lastPosition
       /\ ac.lastPosition[f] \in {Undefined, Number(0), Number(1)}

\* It has no position of its own beside its fields.
Plainly(ac) == Shaped(ac) /\ "lastPosition" \notin DOMAIN ac

\* Whatever readsb says, an aircraft has that shape.
LEMMA LeastShaped == Plainly(Least)
<1>1. DOMAIN Least = {"hex", "seen", "rssi", "messages"}
  BY DEF Least
<1>2. Least["hex"] = Hex /\ \A f \in {"seen", "rssi", "messages"} : Least[f] \in Values
  BY DEF Least, Hex, Values
<1> QED
  BY <1>1, <1>2 DEF Plainly, Shaped, Get, SameFields, AircraftFields, RequiredNumbers,
                   OptionalNumbers, OptionalStrings

LEMMA WithShaped ==
  ASSUME NEW ac, Plainly(ac), NEW f, f \notin {"hex", "lastPosition"}, NEW v,
         f \in SameFields => v \in Values \cup {Undefined},
         f = "type" => v \in {Null, String("adsb_icao", 9), String("a long name", 33)}
  PROVE  Plainly(With(ac, f, v))
<1> DEFINE more == With(ac, f, v)
<1>1. "lastPosition" \notin DOMAIN more
  BY DEF Plainly, With
<1>2. ASSUME NEW g PROVE Get(more, g) = IF g = f THEN v ELSE Get(ac, g)
  BY DEF Get, With
<1> HIDE DEF more
<1>3. Get(more, "hex") = Hex
  BY <1>2 DEF Plainly, Shaped
<1>4. \A g \in SameFields : Get(more, g) \in Values \cup {Undefined}
  BY <1>2 DEF Plainly, Shaped
<1>5. Get(more, "type") \in
        {Undefined, Null, String("adsb_icao", 9), String("a long name", 33)}
  BY <1>2 DEF Plainly, Shaped
<1>6. Plainly(more)
  BY <1>1, <1>3, <1>4, <1>5 DEF Plainly, Shaped
<1> QED
  BY <1>6 DEF more

\* A value that is a number is finite.
LEMMA ValueKinds ==
  \A v \in Values \cup {Undefined} :
    /\ v.is = "number" => IsFinite(v)
    /\ v.is = "undefined" => v = Undefined
<1>1. Undefined.is = "undefined" /\ Null.is = "null" /\ Infinite.is = "infinity"
  BY Kinds
<1>2. Ground.is = "string" /\ String("", 0).is = "string"
  BY DEF Ground, String
<1>3. IsFinite(Number(0)) /\ IsFinite(Number(1)) /\ \A n : Number(n).is = "number"
  BY DEF IsFinite, Number
<1> QED
  BY <1>1, <1>2, <1>3 DEF Values

\* The parts of SaidAircraft.
Missing == {Without(Least, f) : f \in RequiredNumbers}
OneField == {With(Least, f, v) : f \in Plain \cup RequiredNumbers, v \in Values}
OneType == {With(Least, "type", v) :
              v \in {Null, String("adsb_icao", 9), String("a long name", 33)}}
Position == {With(Least, "lastPosition", [nic |-> n, rc |-> r]) :
               n, r \in {Undefined, Number(0), Number(1)}}
Place == {With(With(Least, "lat", v), "lon", w) :
            v, w \in {Undefined, Null, Number(0), Number(1)}}

LEMMA SaidParts ==
  SaidAircraft = {Least} \cup Missing \cup OneField \cup OneType \cup Position \cup Place
BY DEF SaidAircraft, Missing, OneField, OneType, Position, Place

LEMMA SaidShaped == \A ac \in SaidAircraft : Shaped(ac)
<1> SUFFICES ASSUME NEW ac \in SaidAircraft PROVE Shaped(ac)
  OBVIOUS
<1> DEFINE Other == {"hex", "lastPosition", "type"}
<1>0. SameFields \cap Other = {} /\ RequiredNumbers \subseteq SameFields
      /\ Plain \subseteq SameFields /\ {"lat", "lon"} \subseteq SameFields
  BY DEF SameFields, AircraftFields, RequiredNumbers, OptionalNumbers, OptionalStrings, Plain
<1>1. CASE ac = Least
  BY <1>1, LeastShaped DEF Plainly
<1>2. ASSUME NEW f \in RequiredNumbers, ac = Without(Least, f) PROVE Shaped(ac)
  <2>1. f \notin Other
    BY <1>0
  <2>2. "lastPosition" \notin DOMAIN ac
    BY <1>2, LeastShaped DEF Plainly, Without
  <2>3. \A g : Get(ac, g) = IF g = f THEN Undefined ELSE Get(Least, g)
    BY <1>2, WithField
  <2> QED
    BY <2>1, <2>2, <2>3, LeastShaped DEF Plainly, Shaped
<1>3. ASSUME NEW f \in Plain \cup RequiredNumbers, NEW v \in Values, ac = With(Least, f, v)
      PROVE  Shaped(ac)
  <2>1. f \notin Other
    BY <1>0
  <2> QED
    BY <1>3, <2>1, LeastShaped, WithShaped DEF Plainly
<1>4. ASSUME NEW v \in {Null, String("adsb_icao", 9), String("a long name", 33)},
             ac = With(Least, "type", v)
      PROVE  Shaped(ac)
  BY <1>0, <1>4, LeastShaped, WithShaped DEF Plainly
<1>5. ASSUME NEW n \in {Undefined, Number(0), Number(1)},
             NEW r \in {Undefined, Number(0), Number(1)},
             ac = With(Least, "lastPosition", [nic |-> n, rc |-> r])
      PROVE  Shaped(ac)
  <2>1. \A g : g # "lastPosition" => Get(ac, g) = Get(Least, g)
    BY <1>5, WithField
  <2>2. ac.lastPosition = [nic |-> n, rc |-> r]
    BY <1>5 DEF With
  <2>3. \A f \in {"nic", "rc"} : /\ f \in DOMAIN ac.lastPosition
                                 /\ ac.lastPosition[f] \in {Undefined, Number(0), Number(1)}
    BY <2>2
  <2> QED
    BY <1>0, <2>1, <2>3, LeastShaped DEF Plainly, Shaped
<1>6. ASSUME NEW v \in {Undefined, Null, Number(0), Number(1)},
             NEW w \in {Undefined, Null, Number(0), Number(1)},
             ac = With(With(Least, "lat", v), "lon", w)
      PROVE  Shaped(ac)
  <2>1. v \in Values \cup {Undefined} /\ w \in Values \cup {Undefined}
    BY DEF Values
  <2>2. Plainly(With(Least, "lat", v))
    BY <2>1, LeastShaped, WithShaped
  <2>3. Plainly(ac)
    BY <1>6, <2>1, <2>2, WithShaped
  <2> QED
    BY <2>3 DEF Plainly
<1>7. \/ ac = Least
      \/ \E f \in RequiredNumbers : ac = Without(Least, f)
      \/ \E f \in Plain \cup RequiredNumbers, v \in Values : ac = With(Least, f, v)
      \/ \E v \in {Null, String("adsb_icao", 9), String("a long name", 33)} :
           ac = With(Least, "type", v)
      \/ \E n, r \in {Undefined, Number(0), Number(1)} :
           ac = With(Least, "lastPosition", [nic |-> n, rc |-> r])
      \/ \E v, w \in {Undefined, Null, Number(0), Number(1)} :
           ac = With(With(Least, "lat", v), "lon", w)
  <2>1. ac \in Missing => \E f \in RequiredNumbers : ac = Without(Least, f)
    BY DEF Missing
  <2>2. ac \in OneField =>
          \E f \in Plain \cup RequiredNumbers, v \in Values : ac = With(Least, f, v)
    BY DEF OneField
  <2>3. ac \in OneType => \E v \in {Null, String("adsb_icao", 9), String("a long name", 33)} :
                            ac = With(Least, "type", v)
    BY DEF OneType
  <2>4. ac \in Position => \E n, r \in {Undefined, Number(0), Number(1)} :
                             ac = With(Least, "lastPosition", [nic |-> n, rc |-> r])
    BY DEF Position
  <2>5. ac \in Place => \E v, w \in {Undefined, Null, Number(0), Number(1)} :
                          ac = With(With(Least, "lat", v), "lon", w)
    BY DEF Place
  <2> QED
    BY <2>1, <2>2, <2>3, <2>4, <2>5, SaidParts
<1> QED
  BY <1>1, <1>2, <1>3, <1>4, <1>5, <1>6, <1>7

\* The mapping.
LEMMA MappedFields ==
  ASSUME NEW ac, NEW override
  PROVE  LET m == mapReadsbToNormalized(ac, override)
         IN  /\ DOMAIN m = AircraftFields
             /\ m["icaoHex"] = UpperCase(ac.hex)
             /\ m["source"] =
                  Coalesce(override, Coalesce(Get(ac, "type"), String("mode_s", 6)))
             /\ \A f \in {"nic", "rc"} :
                  m[f] = IF "lastPosition" \in DOMAIN ac THEN Get(ac.lastPosition, f)
                         ELSE Undefined
             /\ \A f \in SameFields : m[f] = Get(ac, f)
<1>1. {"icaoHex", "source", "nic", "rc"} \subseteq AircraftFields
  BY DEF AircraftFields, OptionalNumbers
<1> QED
  BY <1>1 DEF mapReadsbToNormalized, SameFields

\* A field on the wire.
LEMMA FlatField ==
  ASSUME NEW m, NEW f
  PROVE  Get(Flat(m), f) = IF Get(m, f) = Infinite THEN Null ELSE Get(m, f)
BY Kinds DEF Get, Flat

\* An aircraft that is accepted.
LEMMA AcceptedFields ==
  ASSUME NEW obj, validateNormalizedAircraft(obj) # Null
  PROVE  LET r == validateNormalizedAircraft(obj)
         IN  /\ \A f \in AircraftFields : Get(r, f) = Get(obj, f)
             /\ \A f \in DOMAIN r : f \in RequiredNumbers \/ r[f] # Undefined
             /\ \A f \in {"icaoHex", "source"} : Get(obj, f).is = "string"
             /\ \A f \in RequiredNumbers : Get(obj, f).is = "number"
             /\ \A f \in OptionalNumbers : Get(obj, f).is \in {"undefined", "number"}
             /\ \A f \in OptionalStrings : Get(obj, f).is \in {"undefined", "string"}
<1> DEFINE r == validateNormalizedAircraft(obj)
<1>1. r = [f \in {g \in AircraftFields : g \in RequiredNumbers \/ Kept(Get(obj, g))} |->
             obj[f]]
  BY DEF validateNormalizedAircraft
<1>2. /\ \A f \in {"icaoHex", "source"} : Get(obj, f).is = "string"
      /\ \A f \in RequiredNumbers : Get(obj, f).is = "number"
      /\ \A f \in OptionalNumbers : Get(obj, f).is \in {"undefined", "number"}
      /\ \A f \in OptionalStrings : Get(obj, f).is \in {"undefined", "string"}
  <2>1. "altBaro" \notin OptionalNumbers
    BY DEF OptionalNumbers
  <2> QED
    BY <2>1, Kinds DEF validateNormalizedAircraft, isNonEmptyString, isNumber
<1>3. \A f \in RequiredNumbers : f \in DOMAIN obj /\ Kept(Get(obj, f))
  BY <1>2, Kinds DEF Get, Kept
<1> HIDE DEF r
<1>4. ASSUME NEW f \in AircraftFields PROVE Get(r, f) = Get(obj, f)
  <2>1. CASE Get(obj, f) = Undefined
    BY <1>1, <1>3, <2>1 DEF Get, Kept
  <2>2. CASE Get(obj, f) # Undefined
    BY <1>1, <2>2 DEF Get, Kept
  <2> QED
    BY <2>1, <2>2
<1>5. \A f \in DOMAIN r : f \in RequiredNumbers \/ r[f] # Undefined
  BY <1>1 DEF Get, Kept
<1> QED
  BY <1>2, <1>4, <1>5 DEF r

\* What an accepted aircraft has.
LEMMA Usable ==
  ASSUME NEW ac, Shaped(ac), NEW override,
         validateNormalizedAircraft(Flat(mapReadsbToNormalized(ac, override))) # Null
  PROVE  LET r == validateNormalizedAircraft(Flat(mapReadsbToNormalized(ac, override)))
         IN  /\ \A f \in RequiredNumbers : IsFinite(Get(r, f))
             /\ \A f \in {"icaoHex", "source"} : Get(r, f).is = "string"
             /\ \A f \in OptionalNumbers \cap DOMAIN r : IsFinite(r[f])
             /\ \A f \in OptionalStrings \cap DOMAIN r : r[f].is = "string"
<1> DEFINE m == mapReadsbToNormalized(ac, override)
           w == Flat(m)
           r == validateNormalizedAircraft(w)
<1>1. /\ DOMAIN m = AircraftFields
      /\ \A f \in {"nic", "rc"} :
           m[f] = IF "lastPosition" \in DOMAIN ac THEN Get(ac.lastPosition, f) ELSE Undefined
      /\ \A f \in SameFields : m[f] = Get(ac, f)
  BY MappedFields
<1>2. \A f : Get(w, f) = IF Get(m, f) = Infinite THEN Null ELSE Get(m, f)
  BY FlatField
<1>3. /\ \A f \in AircraftFields : Get(r, f) = Get(w, f)
      /\ \A f \in DOMAIN r : f \in RequiredNumbers \/ r[f] # Undefined
      /\ \A f \in {"icaoHex", "source"} : Get(w, f).is = "string"
      /\ \A f \in RequiredNumbers : Get(w, f).is = "number"
      /\ \A f \in OptionalNumbers : Get(w, f).is \in {"undefined", "number"}
      /\ \A f \in OptionalStrings : Get(w, f).is \in {"undefined", "string"}
  BY AcceptedFields
<1> HIDE DEF m, w, r
<1>0. \A f \in AircraftFields \ {"icaoHex", "source"} : m[f] \in Values \cup {Undefined}
  <2>1. \A f \in SameFields : m[f] \in Values \cup {Undefined}
    BY <1>1 DEF Shaped
  <2>2. \A f \in {"nic", "rc"} : m[f] \in {Undefined, Number(0), Number(1)}
    BY <1>1 DEF Shaped, Get
  <2> QED
    BY <2>1, <2>2 DEF SameFields, Values
<1>4. ASSUME NEW f \in AircraftFields, Get(w, f).is = "number", f \notin {"icaoHex", "source"}
      PROVE  IsFinite(Get(w, f))
  <2>1. Get(w, f) = m[f]
    BY <1>1, <1>2, <1>4, Kinds DEF Get
  <2> QED
    BY <1>4, <2>1, <1>0, ValueKinds
<1>5. \A f \in RequiredNumbers \cup OptionalNumbers \cup OptionalStrings :
        f \in AircraftFields /\ f \notin {"icaoHex", "source"}
  BY DEF AircraftFields, RequiredNumbers, OptionalNumbers, OptionalStrings
<1>6. \A f \in RequiredNumbers : IsFinite(Get(r, f))
  BY <1>3, <1>4, <1>5
<1>7. \A f \in {"icaoHex", "source"} : Get(r, f).is = "string"
  BY <1>3 DEF AircraftFields
<1>8. \A f \in AircraftFields \cap DOMAIN r : r[f] = Get(w, f)
  BY <1>3 DEF Get
<1>9. ASSUME NEW f \in AircraftFields \ {"icaoHex", "source"}, Get(w, f).is = "undefined"
      PROVE  Get(w, f) = Undefined
  BY <1>0, <1>1, <1>2, <1>9, ValueKinds, Kinds DEF Get
<1>10. \A f \in (OptionalNumbers \cup OptionalStrings) \cap DOMAIN r :
         r[f] = Get(w, f) /\ r[f] # Undefined
  BY <1>3, <1>5, <1>8 DEF RequiredNumbers, OptionalNumbers, OptionalStrings
<1>11. \A f \in OptionalNumbers \cap DOMAIN r : IsFinite(r[f])
  BY <1>3, <1>4, <1>5, <1>9, <1>10
<1>12. \A f \in OptionalStrings \cap DOMAIN r : r[f].is = "string"
  BY <1>3, <1>5, <1>9, <1>10
<1> QED
  BY <1>6, <1>7, <1>11, <1>12 DEF r, w, m

\* What is declared is accepted, and is what was said.
LEMMA DeclaredAccepted ==
  ASSUME NEW ac, Shaped(ac), Declared(ac), sourceOverride \in Overrides
  PROVE  LET r == validateNormalizedAircraft(Flat(mapReadsbToNormalized(ac, sourceOverride)))
         IN  r # Null /\ SameAircraft(ac, r)
<1> DEFINE m == mapReadsbToNormalized(ac, sourceOverride)
           w == Flat(m)
           r == validateNormalizedAircraft(w)
<1>1. /\ DOMAIN m = AircraftFields
      /\ m["icaoHex"] = UpperCase(ac.hex)
      /\ m["source"] = Coalesce(sourceOverride, Coalesce(Get(ac, "type"), String("mode_s", 6)))
      /\ \A f \in {"nic", "rc"} :
           m[f] = IF "lastPosition" \in DOMAIN ac THEN Get(ac.lastPosition, f) ELSE Undefined
      /\ \A f \in SameFields : m[f] = Get(ac, f)
  BY MappedFields
<1>2. \A f : Get(w, f) = IF Get(m, f) = Infinite THEN Null ELSE Get(m, f)
  BY FlatField
<1> HIDE DEF m, w
<1>3. /\ RequiredNumbers \subseteq SameFields
      /\ OptionalStrings \cup {"altBaro"} \subseteq SameFields
      /\ OptionalNumbers = (OptionalNumbers \cap SameFields) \cup {"nic", "rc"}
      /\ AircraftFields = SameFields \cup {"icaoHex", "source", "nic", "rc"}
      /\ SameFields \subseteq RequiredNumbers \cup OptionalNumbers \cup OptionalStrings
                                \cup {"altBaro"}
  BY DEF SameFields, AircraftFields, RequiredNumbers, OptionalNumbers, OptionalStrings
<1>4. \A f \in RequiredNumbers : IsFinite(m[f])
  BY <1>1, <1>3 DEF Declared
<1>5. \A f \in OptionalNumbers : m[f] = Undefined \/ IsFinite(m[f])
  <2>1. \A f \in OptionalNumbers \cap SameFields : m[f] = Undefined \/ IsFinite(m[f])
    BY <1>1 DEF Declared, Get
  <2>2. \A f \in {"nic", "rc"} : m[f] = Undefined \/ IsFinite(m[f])
    BY <1>1 DEF Shaped, Get, IsFinite
  <2> QED
    BY <1>3, <2>1, <2>2
<1>6. \A f \in OptionalStrings : m[f] = Undefined \/ m[f].is = "string"
  BY <1>1, <1>3 DEF Declared, Get
<1>7. m["altBaro"] = Undefined \/ IsFinite(m["altBaro"]) \/ m["altBaro"] = Ground
  BY <1>1, <1>3 DEF Declared, Get
<1>8. m["icaoHex"].is = "string" /\ m["icaoHex"].length = 6
  <2>1. ac.hex = Hex
    <3>1. Hex # Undefined
      BY DEF Hex, String, Undefined
    <3> QED
      BY <3>1 DEF Shaped, Get
  <2> QED
    BY <1>1, <2>1 DEF UpperCase, Hex, String
<1>9. /\ m["source"].is = "string" /\ m["source"].length > 0 /\ m["source"].length <= 32
      /\ m["source"] \in {sourceOverride, Get(ac, "type"), String("mode_s", 6)}
      /\ sourceOverride # Undefined => m["source"] = sourceOverride
  <2>1. CASE sourceOverride = Undefined
    <3>1. Coalesce(sourceOverride, Get(ac, "type")) = Get(ac, "type")
      BY <2>1 DEF Coalesce
    <3>2. Get(ac, "type") = Undefined \/ Get(ac, "type") = String("adsb_icao", 9)
      <4>1. Get(ac, "type") = Undefined \/ Get(ac, "type").is = "string"
        BY <3>1 DEF Declared
      <4>2. Get(ac, "type") = Undefined \/ Get(ac, "type").length <= 32
        BY <3>1 DEF Declared
      <4>3. Null.is # "string" /\ String("a long name", 33).length = 33
        BY Kinds
      <4>4. \A v : v.length = 33 => ~(v.length <= 32)
        OBVIOUS
      <4>5. Get(ac, "type") \in
              {Undefined, Null, String("adsb_icao", 9), String("a long name", 33)}
        BY DEF Shaped
      <4> QED
        BY <4>1, <4>2, <4>3, <4>4, <4>5
    <3>3. m["source"] = String("mode_s", 6) \/ m["source"] = String("adsb_icao", 9)
      BY <1>1, <2>1, <3>2, Kinds DEF Coalesce, String
    <3>4. /\ String("mode_s", 6).is = "string" /\ String("mode_s", 6).length = 6
          /\ String("adsb_icao", 9).is = "string" /\ String("adsb_icao", 9).length = 9
      BY DEF String
    <3>5. m["source"] \in {Get(ac, "type"), String("mode_s", 6)}
      BY <1>1, <2>1, <3>2, <3>3 DEF Coalesce
    <3> QED
      BY <2>1, <3>3, <3>4, <3>5
  <2>2. CASE sourceOverride # Undefined
    <3>1. /\ isNonEmptyString(sourceOverride) /\ sourceOverride.length \in Nat
      BY <2>2, OverrideAssumption
    <3>2. sourceOverride # Null
      BY <3>1, Kinds DEF isNonEmptyString
    <3>3. /\ m["source"] = sourceOverride
          /\ Coalesce(sourceOverride, Get(ac, "type")) = sourceOverride
      BY <1>1, <2>2, <3>2 DEF Coalesce
    <3> QED
      BY <2>2, <3>1, <3>3 DEF isNonEmptyString, Declared
  <2> QED
    BY <2>1, <2>2
<1>10. \A f \in AircraftFields : Get(w, f) = m[f]
  <2>1. \A f \in AircraftFields : m[f] # Infinite
    BY <1>3, <1>4, <1>5, <1>6, <1>7, <1>8, <1>9, Kinds DEF Ground
  <2> QED
    BY <1>1, <1>2, <2>1 DEF Get
<1>11. r # Null
  <2>1. /\ isNonEmptyString(Get(w, "icaoHex"))
        /\ isNonEmptyString(Get(w, "source"))
        /\ Get(w, "source").length <= 32
    BY <1>3, <1>8, <1>9, <1>10 DEF isNonEmptyString
  <2>2. w["source"].length <= 32
    BY <2>1, Kinds DEF Get, isNonEmptyString
  <2>3. \A f \in RequiredNumbers : isNumber(Get(w, f))
    BY <1>3, <1>4, <1>10, Kinds DEF isNumber
  <2>4. \A f \in OptionalNumbers : Get(w, f) = Undefined \/ isNumber(Get(w, f))
    BY <1>3, <1>5, <1>10, Kinds DEF isNumber
  <2>5. Get(w, "altBaro") = Undefined \/ isNumber(Get(w, "altBaro")) \/ w["altBaro"] = Ground
    <3>1. Get(w, "altBaro") = m["altBaro"]
      BY <1>3, <1>10
    <3>2. Ground # Undefined
      BY DEF Ground, String, Undefined
    <3> QED
      BY <1>7, <3>1, <3>2, Kinds DEF isNumber, Get
  <2>6. \A f \in OptionalStrings : Get(w, f).is \in {"undefined", "string"}
    BY <1>3, <1>6, <1>10, Kinds
  <2>7. r = [f \in {g \in AircraftFields : g \in RequiredNumbers \/ Kept(Get(w, g))} |-> w[f]]
    BY <2>1, <2>2, <2>3, <2>4, <2>5, <2>6 DEF validateNormalizedAircraft
  <2>8. "seen" \in DOMAIN r
    BY <2>7 DEF AircraftFields, RequiredNumbers
  <2> QED
    BY <2>8 DEF Null
<1>12. \A f \in AircraftFields : Get(r, f) = m[f]
  BY <1>10, <1>11, AcceptedFields
<1>13. r.icaoHex = m["icaoHex"] /\ r.source = m["source"]
  BY <1>3, <1>8, <1>9, <1>12, Kinds DEF Get
<1> HIDE DEF r
<1>14. SameAircraft(ac, r)
  <2>1. \A f \in AircraftFields \ {"icaoHex", "source", "nic", "rc"} : Get(r, f) = Get(ac, f)
    BY <1>1, <1>12 DEF SameFields
  <2>2. \A f \in {"nic", "rc"} :
          "lastPosition" \in DOMAIN ac => Get(r, f) = ac.lastPosition[f]
    BY <1>1, <1>3, <1>12 DEF Shaped, Get
  <2> QED
    BY <1>1, <1>9, <1>13, <2>1, <2>2 DEF SameAircraft
<1> QED
  BY <1>11, <1>14 DEF r, w, m

\* A message on the wire, when all its fields are there.
LEMMA WireFields ==
  ASSUME NEW m, \A f \in DOMAIN m : m[f] # Undefined /\ m[f] # Infinite
  PROVE  /\ DOMAIN OnWire(m) = DOMAIN m
         /\ \A f \in DOMAIN m :
              /\ m[f].is = "object" => OnWire(m)[f] = Object(Flat(m[f].fields))
              /\ m[f].is = "array" =>
                   OnWire(m)[f] = Array([i \in DOMAIN m[f].items |-> Flat(m[f].items[i])])
              /\ m[f].is \notin {"object", "array"} => OnWire(m)[f] = m[f]
<1>1. DOMAIN Flat(m) = DOMAIN m /\ \A f \in DOMAIN m : Flat(m)[f] = m[f]
  BY DEF Flat
<1>2. OnWire(m) =
        [f \in DOMAIN Flat(m) |->
           CASE m[f].is = "object" -> Object(Flat(m[f].fields))
             [] m[f].is = "array" -> Array([i \in DOMAIN m[f].items |-> Flat(m[f].items[i])])
             [] OTHER -> Flat(m)[f]]
  BY DEF OnWire
<1> QED
  BY <1>1, <1>2

\* A string is none of the other values.
LEMMA Words ==
  \A text, length :
    LET v == String(text, length)
    IN  v # Undefined /\ v # Infinite /\ v.is \notin {"object", "array"} /\ v.text = text
BY DEF String, Undefined, Infinite

LEMMA Numerals ==
  \A n : Number(n) # Undefined /\ Number(n) # Infinite /\ Number(n) # Null
           /\ Number(n).is \notin {"object", "array"}
BY DEF Number, Undefined, Infinite, Null

\* The message of two aircraft, in the daemon.
LEMMA AircraftGiven ==
  ASSUME NEW a, NEW b, NEW override
  PROVE  LET given == validateAdapterMessage(
                        OnWire(AircraftMessage(Number(1), <<a, b>>, override)))
             V(ac) == validateNormalizedAircraft(Flat(mapReadsbToNormalized(ac, override)))
         IN  IF V(a) = Null \/ V(b) = Null THEN given = Null
             ELSE /\ given # Null
                  /\ given.aircraft.items[1] = V(a) /\ given.aircraft.items[2] = V(b)
<1> DEFINE M(ac) == mapReadsbToNormalized(ac, override)
           V(ac) == validateNormalizedAircraft(Flat(M(ac)))
           both == [i \in DOMAIN <<a, b>> |-> M(<<a, b>>[i])]
           message == AircraftMessage(Number(1), <<a, b>>, override)
           obj == OnWire(message)
<1>1. DOMAIN both = {1, 2} /\ both[1] = M(a) /\ both[2] = M(b)
  <2>1. DOMAIN <<a, b>> = {1, 2} /\ <<a, b>>[1] = a /\ <<a, b>>[2] = b
    OBVIOUS
  <2> HIDE DEF M
  <2> QED
    BY <2>1
<1>2. message = [type |-> String("aircraft", 8), timestamp |-> Number(1),
                 aircraft |-> Array(both)]
  BY DEF AircraftMessage
<1> HIDE DEF M, both, message
<1>3. /\ Array(both).is = "array" /\ Array(both).items = both
      /\ Array(both) # Undefined /\ Array(both) # Infinite
  BY DEF Array, Undefined, Infinite
<1>4. /\ DOMAIN obj = {"type", "timestamp", "aircraft"}
      /\ obj["type"] = String("aircraft", 8) /\ obj["timestamp"] = Number(1)
      /\ obj["aircraft"] = Array([i \in {1, 2} |-> Flat(both[i])])
  <2>1. DOMAIN message = {"type", "timestamp", "aircraft"}
    BY <1>2
  <2>2. /\ message["type"] = String("aircraft", 8) /\ message["timestamp"] = Number(1)
        /\ message["aircraft"] = Array(both)
    BY <1>2
  <2>3. \A f \in DOMAIN message : message[f] # Undefined /\ message[f] # Infinite
    BY <1>3, <2>1, <2>2, Words, Numerals
  <2>4. /\ DOMAIN obj = DOMAIN message
        /\ obj["type"] = message["type"] /\ obj["timestamp"] = message["timestamp"]
        /\ obj["aircraft"] = Array([i \in DOMAIN both |-> Flat(both[i])])
    <3>1. /\ message["type"].is \notin {"object", "array"}
          /\ message["timestamp"].is \notin {"object", "array"}
          /\ message["aircraft"].is = "array" /\ message["aircraft"].items = both
      BY <1>3, <2>2, Words, Numerals
    <3>2. /\ DOMAIN OnWire(message) = DOMAIN message
          /\ \A f \in DOMAIN message :
               /\ message[f].is = "array" =>
                    OnWire(message)[f] = Array([i \in DOMAIN message[f].items |->
                                                  Flat(message[f].items[i])])
               /\ message[f].is \notin {"object", "array"} => OnWire(message)[f] = message[f]
      BY <2>3, WireFields
    <3> QED
      BY <2>1, <3>1, <3>2
  <2> QED
    BY <1>1, <2>1, <2>2, <2>4
<1> HIDE DEF obj
<1> DEFINE wire == [i \in {1, 2} |-> Flat(both[i])]
           validated == [i \in {1, 2} |-> validateNormalizedAircraft(wire[i])]
<1>5. validated[1] = V(a) /\ validated[2] = V(b)
  BY <1>1
<1>6. obj.aircraft.items = wire /\ DOMAIN wire = {1, 2}
  BY <1>4 DEF Array
<1>7. isNumber(Get(obj, "timestamp"))
  BY <1>4, Kinds DEF Get, isNumber
<1> HIDE DEF wire
<1>8. validateAdapterMessage(obj) = validateAircraftMessage(obj)
  <2>1. obj.type.text = "aircraft"
    BY <1>4, Words
  <2> QED
    BY <2>1 DEF validateAdapterMessage
<1>9. validateAircraftMessage(obj) =
        IF \E i \in {1, 2} : validated[i] = Null THEN Null
        ELSE [obj EXCEPT !.aircraft = Array(validated)]
  BY <1>6, <1>7 DEF validateAircraftMessage
<1> HIDE DEF validated, V
<1>10. CASE V(a) = Null \/ V(b) = Null
  BY <1>5, <1>8, <1>9, <1>10 DEF V, M, obj, message
<1>11. CASE V(a) # Null /\ V(b) # Null
  <2>1. validateAdapterMessage(obj) = [obj EXCEPT !.aircraft = Array(validated)]
    BY <1>5, <1>8, <1>9, <1>11
  <2>2. /\ validateAdapterMessage(obj).aircraft = Array(validated)
        /\ "type" \in DOMAIN validateAdapterMessage(obj)
    BY <1>4, <2>1
  <2>3. Array(validated).items = validated
    BY DEF Array
  <2>4. validateAdapterMessage(obj) # Null
    BY <2>2 DEF Null
  <2> QED
    BY <1>5, <1>11, <2>2, <2>3, <2>4 DEF V, M, obj, message
<1> QED
  BY <1>10, <1>11 DEF V, M

\* The message of a stats window, in the daemon.
LEMMA StatsGiven ==
  ASSUME NEW local \in SaidLocal, IsFinite(local.signal),
         NEW count \in {Number(0), Number(1)}
  PROVE  LET given == validateAdapterMessage(OnWire(StatsMessage(count, count, local)))
         IN  /\ given # Null /\ given.messagesReceived = count
             /\ given.signal.fields.meanDbfs = local.signal
             /\ given.signal.fields.strongCount = local.strongSignals
<1> DEFINE fields == [meanDbfs |-> local.signal, noiseDbfs |-> local.noise,
                      strongCount |-> local.strongSignals]
           message == [type |-> String("stats", 5), protocol |-> String("adsb", 4),
                       messagesReceived |-> count, positionsDecoded |-> count,
                       signal |-> Object(fields)]
           obj == OnWire(message)
<1>1. /\ DOMAIN local = {"signal", "noise", "strongSignals"}
      /\ \A f \in DOMAIN local : local[f] \in {Number(0), Number(1)}
  <2>1. PICK s \in {Undefined, Null, Number(0), Number(1)}, n \in {Number(0), Number(1)} :
          local = [signal |-> s, noise |-> Number(0), strongSignals |-> n]
    BY DEF SaidLocal
  <2>2. s \in {Number(0), Number(1)}
    BY <2>1 DEF IsFinite
  <2> QED
    BY <2>1, <2>2
<1>2. StatsMessage(count, count, local) = message
  BY <1>1 DEF StatsMessage, Get
<1>3. /\ DOMAIN fields = {"meanDbfs", "noiseDbfs", "strongCount"}
      /\ \A f \in DOMAIN fields : fields[f] \in {Number(0), Number(1)}
      /\ fields.meanDbfs = local.signal /\ fields.strongCount = local.strongSignals
  BY <1>1
<1>4. /\ DOMAIN message = {"type", "protocol", "messagesReceived", "positionsDecoded", "signal"}
      /\ message["type"] = String("stats", 5) /\ message["protocol"] = String("adsb", 4)
      /\ message["messagesReceived"] = count /\ message["positionsDecoded"] = count
      /\ message["signal"] = Object(fields)
  OBVIOUS
<1> HIDE DEF fields, message
<1>5. /\ DOMAIN Flat(fields) = DOMAIN fields
      /\ \A f \in DOMAIN fields : Flat(fields)[f] = fields[f]
  BY <1>3, Numerals DEF Flat
<1>6. /\ Object(fields).is = "object" /\ Object(fields).fields = fields
      /\ Object(fields) # Undefined /\ Object(fields) # Infinite
  BY DEF Object, Undefined, Infinite
<1>7. \A f \in DOMAIN message : message[f] # Undefined /\ message[f] # Infinite
  BY <1>4, <1>6, Words, Numerals
<1>8. /\ message["type"].is \notin {"object", "array"}
      /\ message["protocol"].is \notin {"object", "array"}
      /\ message["messagesReceived"].is \notin {"object", "array"}
      /\ message["positionsDecoded"].is \notin {"object", "array"}
      /\ message["signal"].is = "object" /\ message["signal"].fields = fields
  BY <1>4, <1>6, Words, Numerals
<1>9. /\ DOMAIN obj = DOMAIN message
      /\ \A f \in DOMAIN message :
           /\ message[f].is = "object" => obj[f] = Object(Flat(message[f].fields))
           /\ message[f].is \notin {"object", "array"} => obj[f] = message[f]
  BY <1>7, WireFields
<1> HIDE DEF obj
<1>10. /\ DOMAIN obj = {"type", "protocol", "messagesReceived", "positionsDecoded", "signal"}
       /\ obj["type"] = String("stats", 5) /\ obj["protocol"] = String("adsb", 4)
       /\ obj["messagesReceived"] = count /\ obj["positionsDecoded"] = count
       /\ obj["signal"] = Object(Flat(fields))
  BY <1>4, <1>8, <1>9
<1>11. obj["signal"].fields = Flat(fields)
  BY <1>10 DEF Object
<1>12. validateStatsMessage(obj) = obj
  <2>1. isNonEmptyString(Get(obj, "protocol"))
    <3>1. Get(obj, "protocol") = String("adsb", 4)
      BY <1>10 DEF Get
    <3> QED
      BY <3>1 DEF isNonEmptyString, String
  <2>2. isNumber(Get(obj, "messagesReceived")) /\ isNumber(Get(obj, "positionsDecoded"))
    BY <1>10, Kinds DEF Get, isNumber
  <2>3. \A f \in {"meanDbfs", "noiseDbfs", "strongCount"} :
          isNumber(Get(obj.signal.fields, f))
    BY <1>3, <1>5, <1>11, Kinds DEF Get, isNumber
  <2> QED
    BY <2>1, <2>2, <2>3 DEF validateStatsMessage
<1>13. validateAdapterMessage(obj) = validateStatsMessage(obj)
  <2>1. obj.type.text = "stats"
    BY <1>10, Words
  <2> QED
    BY <2>1 DEF validateAdapterMessage
<1>14. obj # Null
  BY <1>10 DEF Null
<1>15. /\ obj.messagesReceived = count /\ obj.signal.fields.meanDbfs = local.signal
       /\ obj.signal.fields.strongCount = local.strongSignals
  BY <1>3, <1>5, <1>10, <1>11
<1> QED
  BY <1>2, <1>12, <1>13, <1>14, <1>15 DEF obj

\* The other two messages.
LEMMA StringsGiven ==
  ASSUME NEW m, \A f \in DOMAIN m : m[f] # Undefined /\ m[f] # Infinite
                                      /\ m[f].is \notin {"object", "array"}
  PROVE  DOMAIN OnWire(m) = DOMAIN m /\ \A f \in DOMAIN m : OnWire(m)[f] = m[f]
BY WireFields

LEMMA HandshakeGiven ==
  validateAdapterMessage(OnWire(HandshakeMessage(String("readsb-1090", 11)))) # Null
<1> DEFINE m == HandshakeMessage(String("readsb-1090", 11))
           obj == OnWire(m)
<1>1. /\ DOMAIN m = {"type", "sourceId", "protocol", "version"}
      /\ m["type"] = String("handshake", 9) /\ m["sourceId"] = String("readsb-1090", 11)
      /\ m["protocol"] = String("adsb", 4) /\ m["version"] = Number(1)
  BY DEF HandshakeMessage
<1> HIDE DEF m
<1>2. \A f \in DOMAIN m : m[f] # Undefined /\ m[f] # Infinite
                            /\ m[f].is \notin {"object", "array"}
  BY <1>1, Words, Numerals
<1>3. DOMAIN obj = DOMAIN m /\ \A f \in DOMAIN m : obj[f] = m[f]
  BY <1>2, StringsGiven
<1> HIDE DEF obj
<1>4. obj.type.text = "handshake"
  BY <1>1, <1>3, Words
<1>5. validateHandshakeMessage(obj) = obj
  <2>1. /\ Get(obj, "sourceId") = String("readsb-1090", 11)
        /\ Get(obj, "protocol") = String("adsb", 4) /\ Get(obj, "version") = Number(1)
    BY <1>1, <1>3 DEF Get
  <2>2. isNonEmptyString(String("readsb-1090", 11)) /\ isNonEmptyString(String("adsb", 4))
    BY DEF isNonEmptyString, String
  <2> QED
    BY <2>1, <2>2 DEF validateHandshakeMessage
<1>6. obj # Null
  BY <1>1, <1>3 DEF Null
<1>7. validateAdapterMessage(obj) = validateHandshakeMessage(obj)
  BY <1>4 DEF validateAdapterMessage
<1> QED
  BY <1>5, <1>6, <1>7 DEF obj, m

LEMMA CaptureGiven ==
  validateAdapterMessage(OnWire(RawCaptureMessage(String("/tmp/atrx", 9)))) # Null
<1> DEFINE m == RawCaptureMessage(String("/tmp/atrx", 9))
           obj == OnWire(m)
<1>1. /\ DOMAIN m = {"type", "filePath", "windowStart", "windowEnd"}
      /\ m["type"] = String("rawCapture", 10) /\ m["filePath"] = String("/tmp/atrx", 9)
      /\ m["windowStart"] = Moment /\ m["windowEnd"] = Moment
  BY DEF RawCaptureMessage
<1> HIDE DEF m
<1>2. \A f \in DOMAIN m : m[f] # Undefined /\ m[f] # Infinite
                            /\ m[f].is \notin {"object", "array"}
  BY <1>1, Words DEF Moment
<1>3. DOMAIN obj = DOMAIN m /\ \A f \in DOMAIN m : obj[f] = m[f]
  BY <1>2, StringsGiven
<1> HIDE DEF obj
<1>4. obj.type.text = "rawCapture"
  BY <1>1, <1>3, Words
<1>5. validateRawCaptureMessage(obj) = obj
  <2>1. /\ Get(obj, "filePath") = String("/tmp/atrx", 9)
        /\ Get(obj, "windowStart") = Moment /\ Get(obj, "windowEnd") = Moment
    BY <1>1, <1>3 DEF Get
  <2>2. isNonEmptyString(String("/tmp/atrx", 9)) /\ isNonEmptyString(Moment)
    BY DEF isNonEmptyString, String, Moment
  <2> QED
    BY <2>1, <2>2 DEF validateRawCaptureMessage
<1>6. obj # Null
  BY <1>1, <1>3 DEF Null
<1>7. validateAdapterMessage(obj) = validateRawCaptureMessage(obj)
  BY <1>4 DEF validateAdapterMessage
<1> QED
  BY <1>5, <1>6, <1>7 DEF obj, m

-----------------------------------------------------------------------------
\* What the daemon heard was made from what readsb said.
AircraftHeard ==
  \E ac \in SaidAircraft :
    heard = [of |-> "aircraft", said |-> <<Least, ac>>,
             given |-> validateAdapterMessage(
                         OnWire(AircraftMessage(Number(1), <<Least, ac>>, sourceOverride)))]

StatsHeard ==
  \E local \in SaidLocal, count \in {Number(0), Number(1)} :
    heard = [of |-> "stats", said |-> [local |-> local, count |-> count],
             given |-> validateAdapterMessage(OnWire(StatsMessage(count, count, local)))]

HandshakeHeard ==
  heard = [of |-> "handshake", said |-> String("readsb-1090", 11),
           given |-> validateAdapterMessage(
                       OnWire(HandshakeMessage(String("readsb-1090", 11))))]

CaptureHeard ==
  heard = [of |-> "rawCapture", said |-> "/tmp/atrx",
           given |-> validateAdapterMessage(
                       OnWire(RawCaptureMessage(String("/tmp/atrx", 9))))]

Made ==
  /\ sourceOverride \in Overrides
  /\ heard = Nothing \/ AircraftHeard \/ StatsHeard \/ HandshakeHeard \/ CaptureHeard

\* Every step of the feed leaves it so.
LEMMA MadeStep == Made /\ [FeedNext]_feedVars => Made'
<1> SUFFICES ASSUME Made, [FeedNext]_feedVars PROVE Made'
  OBVIOUS
<1>1. CASE UNCHANGED feedVars
  BY <1>1 DEF Made, AircraftHeard, StatsHeard, HandshakeHeard, CaptureHeard, feedVars
<1>2. CASE FeedNext
  <2>1. sourceOverride' = sourceOverride /\ sourceOverride' \in Overrides
    BY <1>2 DEF FeedNext, Made
  <2>2. CASE Quiet /\ heard' = Nothing
    BY <2>1, <2>2 DEF Made
  <2>3. ASSUME NEW p \in Polls, FeedAircraft(p) PROVE Made'
    <3>1. heard' = Nothing \/ AircraftHeard'
      BY <2>1, <2>3 DEF FeedAircraft, Heard, AircraftHeard
    <3> QED
      BY <2>1, <3>1 DEF Made
  <2>4. ASSUME NEW p \in Polls, FeedStats(p) PROVE Made'
    <3>1. heard' = Nothing \/ StatsHeard'
      BY <2>4 DEF FeedStats, Heard, StatsHeard
    <3> QED
      BY <2>1, <3>1 DEF Made
  <2>5. CASE FeedHandshake
    <3>1. heard' = Nothing \/ HandshakeHeard'
      BY <2>5 DEF FeedHandshake, HandshakeHeard
    <3> QED
      BY <2>1, <3>1 DEF Made
  <2>6. CASE FeedCapture
    <3>1. heard' = Nothing \/ CaptureHeard'
      BY <2>6 DEF FeedCapture, Heard, CaptureHeard
    <3> QED
      BY <2>1, <3>1 DEF Made
  <2> QED
    BY <1>2, <2>2, <2>3, <2>4, <2>5, <2>6 DEF FeedNext
<1> QED
  BY <1>1, <1>2

\* The lemmas about the messages, put together.
LEMMA MadeAsSaid == Made => HeardAsSaid
<1> SUFFICES ASSUME Made PROVE HeardAsSaid
  OBVIOUS
<1>1. CASE heard = Nothing
  BY <1>1 DEF HeardAsSaid, DeclaredIsHeard, HeardIsUsable, Nothing
<1>2. CASE AircraftHeard
  <2> DEFINE V(a) == validateNormalizedAircraft(
                       Flat(mapReadsbToNormalized(a, sourceOverride)))
  <2>1. PICK ac \in SaidAircraft :
          heard = [of |-> "aircraft", said |-> <<Least, ac>>,
                   given |-> validateAdapterMessage(OnWire(
                               AircraftMessage(Number(1), <<Least, ac>>, sourceOverride)))]
    BY <1>2 DEF AircraftHeard
  <2>2. IF V(Least) = Null \/ V(ac) = Null THEN heard.given = Null
        ELSE /\ heard.given # Null
             /\ heard.given.aircraft.items[1] = V(Least)
             /\ heard.given.aircraft.items[2] = V(ac)
    BY <2>1, AircraftGiven
  <2>3. heard.of = "aircraft" /\ heard.said[1] = Least /\ heard.said[2] = ac
    BY <2>1
  <2>4. Shaped(Least) /\ Shaped(ac)
    BY LeastShaped, SaidShaped DEF Plainly
  <2>5. ASSUME Declared(Least), Declared(ac)
        PROVE  /\ V(Least) # Null /\ SameAircraft(Least, V(Least))
               /\ V(ac) # Null /\ SameAircraft(ac, V(ac))
    BY <2>4, <2>5, DeclaredAccepted DEF Made
  <2>6. DeclaredIsHeard
    <3> HIDE DEF V
    <3> QED
      BY <2>2, <2>3, <2>5 DEF DeclaredIsHeard
  <2>7. ASSUME NEW a \in {Least, ac}, V(a) # Null
        PROVE  /\ \A f \in RequiredNumbers : IsFinite(Get(V(a), f))
               /\ \A f \in {"icaoHex", "source"} : Get(V(a), f).is = "string"
               /\ \A f \in OptionalNumbers \cap DOMAIN V(a) : IsFinite(V(a)[f])
               /\ \A f \in OptionalStrings \cap DOMAIN V(a) : V(a)[f].is = "string"
    BY <2>4, <2>7, Usable
  <2>8. HeardIsUsable
    <3> HIDE DEF V
    <3> QED
      BY <2>2, <2>7 DEF HeardIsUsable
  <2> QED
    BY <2>6, <2>8 DEF HeardAsSaid
<1>3. CASE StatsHeard
  <2>1. PICK local \in SaidLocal, count \in {Number(0), Number(1)} :
          heard = [of |-> "stats", said |-> [local |-> local, count |-> count],
                   given |-> validateAdapterMessage(
                               OnWire(StatsMessage(count, count, local)))]
    BY <1>3 DEF StatsHeard
  <2>2. heard.of = "stats" /\ heard.said.local = local /\ heard.said.count = count
    BY <2>1
  <2>3. IsFinite(local.signal) =>
          /\ heard.given # Null /\ heard.given.messagesReceived = count
          /\ heard.given.signal.fields.meanDbfs = local.signal
          /\ heard.given.signal.fields.strongCount = local.strongSignals
    BY <2>1, StatsGiven
  <2> QED
    BY <2>2, <2>3 DEF HeardAsSaid, DeclaredIsHeard, HeardIsUsable
<1>4. CASE HandshakeHeard
  <2>1. heard.of = "handshake" /\ heard.given # Null
    BY <1>4, HandshakeGiven DEF HandshakeHeard
  <2> QED
    BY <2>1 DEF HeardAsSaid, DeclaredIsHeard, HeardIsUsable
<1>5. CASE CaptureHeard
  <2>1. heard.of = "rawCapture" /\ heard.given # Null
    BY <1>5, CaptureGiven DEF CaptureHeard
  <2> QED
    BY <2>1 DEF HeardAsSaid, DeclaredIsHeard, HeardIsUsable
<1> QED
  BY <1>1, <1>2, <1>3, <1>4, <1>5 DEF Made

\* From readsb's answer through the mapping, JSON and the validators to the daemon's
\* callbacks nothing readsb declares is lost, changed or refused, and no aircraft
\* reaches them without the numbers and strings they use.
THEOREM DeclaredArrives == FeedSpec => []HeardAsSaid
<1>1. FeedInit => Made
  BY DEF FeedInit, Made
<1> QED
  BY <1>1, MadeStep, MadeAsSaid, PTL DEF FeedSpec

=============================================================================

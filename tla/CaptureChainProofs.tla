------------------------- MODULE CaptureChainProofs -------------------------
(***************************************************************************)
(* Proofs about raw captures for any clock, connections, sockets, files in *)
(* writing and batches of the daemon: DataAccounted, CapturesAccounted,    *)
(* SplitInverts, FramesCounted wherever TCP cuts the stream; and           *)
(* WindowsDisjoint when files are written one at a time.                   *)
(*                                                                         *)
(* The daemon's half of the chain leaves the adapter's variables alone, so *)
(* the facts about data and windows are proved of the adapter.             *)
(* NothingTwice needs Paired: each socket or armed timer answers for one   *)
(* connection to the daemon.  It and Numbered, which says that a part      *)
(* comes once, bound how often it is gathered.                             *)
(*                                                                         *)
(* CapturesAccounted counts places.  DaemonInv says it with lists and      *)
(* sets: no list has a capture twice (Lists), none has what another has    *)
(* (Apart), each capture is in one (Placed), and the files deleted, or     *)
(* tried to, are those read (Deleted).                                     *)
(*                                                                         *)
(* The functions that count, split and flatten call themselves further on  *)
(* in a buffer.  That they exist, and what they compute, is by induction   *)
(* from the end of the buffer (Induct), section by section at the Offset   *)
(* of each.  Carried says that a sighting's blob is of such sections.      *)
(* FramesCounted needs to know of each boundary between two parts what is  *)
(* counted behind it, also when the part before it ended with an escape    *)
(* that takes the first byte along (Near).                                 *)
(***************************************************************************)
EXTENDS CaptureChain, FiniteSetTheorems, SequenceTheorems, WellFoundedInduction,
        TLAPS

\* Sockets and the timer, for each of which there was a connection.
Paired ==
  /\ opening + open <= MaxSockets
  /\ opening + open <= links
  /\ timer = TRUE => opening + open < links

\* Nothing that was heard is of a later frame than the latest, or of later bytes of it.
NotAfter(part, at, last) == part.at < at \/ (part.at = at /\ part.last <= last)

UpTo(at, last) == \A part \in heard : NotAfter(part, at, last)

\* What is gathered was heard, and what is to come was not.
Numbered ==
  /\ Range(chunks) \subseteq heard
  /\ UpTo(latest.at, latest.last)

\* How often a part is in the data.
Copies(part) == Cardinality({j \in DOMAIN chunks : chunks[j] = part})

FewCopies == \A part \in Range(chunks) : Copies(part) <= links

\* Where a part of the stream is, without the unions.
Located(x) ==
  \/ x \in Range(chunks)
  \/ \E w \in Writers : x \in Range(writer[w].frames)
  \/ \E capture \in Range(captures) \cup orphans : x \in Range(capture.frames)
  \/ x \in lost

IndInv ==
  TypeOK /\ Paired /\ Numbered /\ FewCopies /\ \A x \in heard : Located(x)

-----------------------------------------------------------------------------
\* IndInv says what DataAccounted says.
LEMMA Accounted == IndInv => DataAccounted
<1> SUFFICES ASSUME IndInv PROVE DataAccounted
  OBVIOUS
<1>1. heard \subseteq InHand \cup OnDisk \cup lost
  BY DEF IndInv, Located, InHand, OnDisk
<1>2. opening + open <= links
  BY DEF IndInv, Paired, TypeOK
<1>3. \A i \in DOMAIN chunks : chunks[i] \in Range(chunks)
  BY DEF Range
<1> QED
  BY <1>1, <1>2, <1>3 DEF IndInv, FewCopies, Copies, DataAccounted, NothingTwice

LEMMA PartType ==
  \A part \in Part : /\ part.at \in Time /\ part.at \in Nat
                     /\ part.first \in 1 .. 6 /\ part.last \in 1 .. 6
                     /\ part.first \in Nat /\ part.last \in Nat /\ part.first <= part.last
BY BoundAssumption DEF Part, Time, FrameLength

\* A window is between two times.
LEMMA CaptureTimes == \A c \in Capture : c.from \in Nat /\ c.to \in Nat
BY BoundAssumption DEF Capture, Time

LEMMA Initially == Init => IndInv
<1> SUFFICES ASSUME Init PROVE IndInv
  OBVIOUS
<1>1. NoCapture \in Capture
  BY BoundAssumption DEF NoCapture, Capture, Time
<1>2. chunks \in Seq(Part) /\ captures \in Seq(Capture) /\ Range(chunks) = {}
  BY DEF Init, Range
<1>3. /\ now \in Time /\ 0 \in Time /\ 0 \in 0 .. MaxLinks /\ 0 \in 0 .. MaxSockets
      /\ FrameLength \in 1 .. FrameLength
  BY BoundAssumption DEF Init, Time, FrameLength
<1>4. TypeOK
  BY <1>1, <1>2, <1>3 DEF Init, TypeOK
<1>5. Paired
  BY BoundAssumption DEF Init, Paired
<1> QED
  BY <1>2, <1>4, <1>5 DEF Init, IndInv, Numbered, UpTo, FewCopies

\* A data event: its part is appended once for each open socket.
LEMMA GatherKeeps ==
  ASSUME IndInv, NEW part \in Part, part \notin heard, Gather(part),
         UpTo(part.at, part.last)
  PROVE  IndInv'
<1> DEFINE new == [i \in 1 .. open |-> part]
<1>1. /\ chunks' = chunks \o new /\ heard' = heard \cup {part} /\ open > 0
      /\ latest' = [at |-> part.at, last |-> part.last]
      /\ UNCHANGED <<now, link, links, opening, open, timer, stopped, batching, start, writer,
                     captures, orphans, lost>>
  BY DEF Gather, beast, window, output
<1>2. chunks \in Seq(Part) /\ new \in Seq(Part) /\ Len(new) = open
  BY DEF IndInv, TypeOK
<1> HIDE DEF new
<1>3. /\ chunks' \in Seq(Part) /\ Len(chunks') = Len(chunks) + open
      /\ \A i \in 1 .. Len(chunks) + open :
           chunks'[i] = IF i <= Len(chunks) THEN chunks[i] ELSE new[i - Len(chunks)]
  BY <1>1, <1>2, ConcatProperties
<1>4. /\ open \in Nat /\ open > 0 /\ Len(chunks) \in Nat /\ links \in Nat
      /\ DOMAIN chunks = 1 .. Len(chunks) /\ DOMAIN chunks' = 1 .. Len(chunks) + open
  BY <1>1, <1>2, <1>3 DEF IndInv, TypeOK
<1>5. /\ \A i \in 1 .. Len(chunks) : chunks'[i] = chunks[i]
      /\ \A i \in Len(chunks) + 1 .. Len(chunks) + open : chunks'[i] = part
  <2>1. \A i \in 1 .. open : new[i] = part
    BY DEF new
  <2>2. ASSUME NEW i \in 1 .. Len(chunks) PROVE chunks'[i] = chunks[i]
    <3>1. i \in 1 .. Len(chunks) + open /\ i <= Len(chunks)
      BY <1>4
    <3> QED
      BY <1>3, <3>1
  <2>3. ASSUME NEW i \in Len(chunks) + 1 .. Len(chunks) + open PROVE chunks'[i] = part
    <3>1. i \in 1 .. Len(chunks) + open /\ ~(i <= Len(chunks)) /\ i - Len(chunks) \in 1 .. open
      BY <1>4
    <3>2. chunks'[i] = new[i - Len(chunks)]
      BY <1>3, <3>1
    <3> QED
      BY <2>1, <3>1, <3>2
  <2> QED
    BY <2>2, <2>3
<1>6. \A i \in 1 .. Len(chunks) : chunks[i] # part
  <2>1. \A i \in 1 .. Len(chunks) : chunks[i] \in heard
    BY <1>4 DEF IndInv, Numbered, Range
  <2> QED
    BY <2>1
<1>7. Range(chunks') = Range(chunks) \cup {part}
  <2>1. Len(chunks) + 1 \in Len(chunks) + 1 .. Len(chunks) + open
    BY <1>4
  <2>2. DOMAIN chunks' = 1 .. Len(chunks) \cup Len(chunks) + 1 .. Len(chunks) + open
    BY <1>4
  <2> QED
    BY <1>4, <1>5, <2>1, <2>2 DEF Range
<1>8. TypeOK'
  <2>1. latest' \in [at : Time, last : 1 .. FrameLength]
    BY <1>1 DEF Part
  <2> QED
    BY <1>1, <1>3, <2>1 DEF IndInv, TypeOK, Time
<1>9. Paired' /\ Numbered'
  <2>1. /\ NotAfter(part, part.at, part.last)
        /\ latest'.at = part.at /\ latest'.last = part.last
    BY <1>1, BoundAssumption DEF NotAfter, Part, Time, FrameLength
  <2>2. Range(chunks') \subseteq heard'
    BY <1>1, <1>7 DEF IndInv, Numbered
  <2> QED
    BY <1>1, <2>1, <2>2 DEF IndInv, Paired, Numbered, UpTo
<1>10. FewCopies'
  <2>1. ASSUME NEW p \in Range(chunks) PROVE Copies(p)' <= links
    <3>1. p # part
      BY <1>4, <1>6 DEF Range
    <3>2. {j \in DOMAIN chunks' : chunks'[j] = p} = {j \in DOMAIN chunks : chunks[j] = p}
      BY <1>4, <1>5, <3>1
    <3> QED
      BY <3>2 DEF IndInv, FewCopies, Copies
  <2>2. Copies(part)' = open
    <3>1. {j \in DOMAIN chunks' : chunks'[j] = part}
            = Len(chunks) + 1 .. Len(chunks) + open
      BY <1>4, <1>5, <1>6
    <3>2. Cardinality(Len(chunks) + 1 .. Len(chunks) + open) = open
      BY <1>4, FS_Interval
    <3> QED
      BY <3>1, <3>2 DEF Copies
  <2>3. open <= links
    BY <1>4 DEF IndInv, Paired, TypeOK
  <2> QED
    BY <1>1, <1>7, <2>1, <2>2, <2>3 DEF FewCopies
<1>11. \A x \in heard' : Located(x)'
  BY <1>1, <1>7 DEF IndInv, Located
<1> QED
  BY <1>8, <1>9, <1>10, <1>11 DEF IndInv

\* The data is taken: every part of it is being written, or given up.
LEMMA TakeKeeps ==
  ASSUME IndInv, chunks' = << >>, start' \in Time,
         writer' \in [Writers -> Capture], lost' \subseteq Part, lost \subseteq lost',
         \A x \in Range(chunks) :
           x \in lost' \/ \E w \in Writers : x \in Range(writer'[w].frames),
         \A w \in Writers : writer'[w] = writer[w] \/ Range(writer[w].frames) = {},
         UNCHANGED <<now, link, links, opening, open, timer, stopped, latest, heard, batching,
                     captures, orphans>>
  PROVE  IndInv'
<1>1. TypeOK'
  BY DEF IndInv, TypeOK, Time
<1>2. Range(chunks') = {}
  BY DEF Range
<1>3. Paired' /\ Numbered' /\ FewCopies'
  BY <1>2 DEF IndInv, Paired, Numbered, UpTo, FewCopies
<1>4. \A x \in heard' : Located(x)'
  <2> SUFFICES ASSUME NEW x \in heard PROVE Located(x)'
    OBVIOUS
  <2>1. Located(x)
    BY DEF IndInv
  <2> QED
    BY <2>1 DEF Located
<1> QED
  BY <1>1, <1>3, <1>4 DEF IndInv

\* A file is written or given up.
LEMMA ReleaseKeeps ==
  ASSUME IndInv, NEW w \in Writers, writer' = [writer EXCEPT ![w] = NoCapture],
         start' \in Time, lost' \subseteq Part, lost \subseteq lost',
         captures' \in Seq(Capture), orphans' \subseteq Capture,
         Range(captures) \cup orphans \subseteq Range(captures') \cup orphans',
         \/ writer[w] \in Range(captures') \cup orphans'
         \/ Range(writer[w].frames) \subseteq lost',
         UNCHANGED <<now, link, links, opening, open, timer, stopped, chunks, latest, heard, batching>>
  PROVE  IndInv'
<1>1. TypeOK'
  <2>1. NoCapture \in Capture
    BY BoundAssumption DEF NoCapture, Capture, Time
  <2> QED
    BY <2>1 DEF IndInv, TypeOK, Time
<1>2. Paired' /\ Numbered' /\ FewCopies'
  BY DEF IndInv, Paired, Numbered, UpTo, FewCopies, Copies
<1>3. \A x \in heard' : Located(x)'
  <2> SUFFICES ASSUME NEW x \in heard PROVE Located(x)'
    OBVIOUS
  <2>1. Located(x)
    BY DEF IndInv
  <2>2. CASE x \in Range(writer[w].frames)
    BY <2>2 DEF Located
  <2>3. CASE x \notin Range(writer[w].frames)
    <3>1. \A v \in Writers : x \in Range(writer[v].frames) => writer'[v] = writer[v]
      BY <2>3 DEF IndInv, TypeOK
    <3> QED
      BY <2>1, <3>1 DEF Located
  <2> QED
    BY <2>2, <2>3
<1> QED
  BY <1>1, <1>2, <1>3 DEF IndInv

\* The rest of a frame does not come when its last socket is closed.
GivenUp(before, after) == after \in {before, [before EXCEPT !.last = FrameLength]}

\* Sockets and timers only.
LEMMA SocketKeeps ==
  ASSUME IndInv, now' \in Time, link' \in BOOLEAN, links' \in links .. MaxLinks,
         opening' \in 0 .. MaxSockets, open' \in 0 .. MaxSockets, timer' \in BOOLEAN,
         Paired', stopped' \in BOOLEAN,
         GivenUp(latest, latest'),
         batching' \in BOOLEAN, start' \in Time,
         UNCHANGED <<chunks, heard, writer, captures, orphans, lost>>
  PROVE  IndInv'
<1>1. TypeOK'
  <2>1. latest' \in [at : Time, last : 1 .. FrameLength]
    BY DEF GivenUp, IndInv, TypeOK, FrameLength
  <2> QED
    BY <2>1, BoundAssumption DEF IndInv, TypeOK, Time
<1>2. Numbered'
  <2>1. latest'.at = latest.at /\ latest.last <= latest'.last
    BY DEF GivenUp, IndInv, TypeOK, FrameLength
  <2>2. \A part \in heard : NotAfter(part, latest'.at, latest'.last)
    <3> SUFFICES ASSUME NEW part \in heard PROVE NotAfter(part, latest'.at, latest'.last)
      OBVIOUS
    <3>1. NotAfter(part, latest.at, latest.last)
      BY DEF IndInv, Numbered, UpTo
    <3>2. part.last \in Nat /\ latest.last \in Nat /\ latest'.last \in Nat
      BY PartType DEF GivenUp, IndInv, TypeOK, FrameLength
    <3> QED
      BY <2>1, <3>1, <3>2 DEF NotAfter
  <2> QED
    BY <2>2 DEF IndInv, Numbered, UpTo
<1>3. FewCopies'
  <2> SUFFICES ASSUME NEW part \in Range(chunks) PROVE Copies(part) <= links'
    BY DEF FewCopies, Copies
  <2>1. Copies(part) \in Nat
    <3>1. /\ {j \in DOMAIN chunks : chunks[j] = part} \subseteq 1 .. Len(chunks)
          /\ Len(chunks) \in Nat
      BY DEF IndInv, TypeOK
    <3>2. IsFiniteSet(1 .. Len(chunks))
      BY <3>1, FS_Interval
    <3>3. IsFiniteSet({j \in DOMAIN chunks : chunks[j] = part})
      BY <3>1, <3>2, FS_Subset
    <3> QED
      BY <3>3, FS_CardinalityType DEF Copies
  <2> QED
    BY <2>1 DEF IndInv, TypeOK, FewCopies
<1>4. \A x \in heard' : Located(x)'
  BY DEF IndInv, Located
<1> QED
  BY <1>1, <1>2, <1>3, <1>4 DEF IndInv

\* The adapter ends: what it had is on disk or lost.
LEMMA StopKeeps == IndInv /\ StopCapture => IndInv'
<1> SUFFICES ASSUME IndInv, StopCapture PROVE IndInv'
  OBVIOUS
<1>1. /\ stopped' = TRUE /\ link' = FALSE /\ batching' = FALSE /\ timer' = FALSE
      /\ opening' = 0 /\ open' = 0 /\ chunks' = << >>
      /\ writer' = [w \in Writers |-> NoCapture]
      /\ UNCHANGED <<now, links, latest, heard, start, captures>>
  BY DEF StopCapture
<1>2. PICK complete \in SUBSET {w \in Writers : writer[w] # NoCapture} :
        /\ orphans' = orphans \cup {writer[w] : w \in complete}
        /\ lost' = (lost \cup Range(chunks))
                    \cup UNION {Range(writer[w].frames) : w \in Writers \ complete}
  BY DEF StopCapture
<1>3. \A w \in Writers : writer[w] \in Capture /\ Range(writer[w].frames) \subseteq Part
  BY DEF IndInv, TypeOK, Capture, Range
<1>4. TypeOK'
  <2>1. NoCapture \in Capture
    BY BoundAssumption DEF NoCapture, Capture, Time
  <2>2. Range(chunks) \subseteq Part
    BY DEF IndInv, Numbered, TypeOK
  <2>3. orphans' \subseteq Capture /\ lost' \subseteq Part
    BY <1>2, <1>3, <2>2 DEF IndInv, TypeOK
  <2>4. 0 \in 0 .. MaxSockets /\ << >> \in Seq(Part)
    BY BoundAssumption
  <2> QED
    BY <1>1, <2>1, <2>3, <2>4 DEF IndInv, TypeOK, Time
<1>5. Paired' /\ Numbered' /\ FewCopies'
  <2>1. Range(chunks') = {}
    BY <1>1 DEF Range
  <2>2. links \in Nat
    BY DEF IndInv, TypeOK
  <2> QED
    BY <1>1, <2>1, <2>2, BoundAssumption DEF IndInv, Paired, Numbered, UpTo, FewCopies
<1>6. \A x \in heard' : Located(x)'
  <2> SUFFICES ASSUME NEW x \in heard PROVE Located(x)'
    BY <1>1
  <2>1. Located(x)
    BY DEF IndInv
  <2>2. CASE x \in Range(chunks) \cup lost
    BY <1>2, <2>2 DEF Located
  <2>3. CASE \E w \in Writers : x \in Range(writer[w].frames)
    <3>1. PICK w \in Writers : x \in Range(writer[w].frames)
      BY <2>3
    <3>2. CASE w \in complete
      BY <1>2, <3>1, <3>2 DEF Located
    <3>3. CASE w \notin complete
      BY <1>2, <3>1, <3>3 DEF Located
    <3> QED
      BY <3>2, <3>3
  <2>4. CASE \E capture \in Range(captures) \cup orphans : x \in Range(capture.frames)
    BY <1>1, <1>2, <2>4 DEF Located
  <2> QED
    BY <2>1, <2>2, <2>3, <2>4 DEF Located
<1> QED
  BY <1>4, <1>5, <1>6 DEF IndInv

-----------------------------------------------------------------------------
\* The adapter's steps preserve IndInv.
LEMMA Inductive == IndInv /\ [Next]_vars => IndInv'
<1> SUFFICES ASSUME IndInv, [Next]_vars PROVE IndInv'
  OBVIOUS
<1> USE BoundAssumption
<1>1. CASE UNCHANGED vars \/ Tick \/ LinkUp \/ LinkDown \/ BeastConnected
           \/ BeastClosed \/ BeastReconnect
  <2>1. /\ now \in Time /\ now' \in Time /\ link' \in BOOLEAN /\ timer' \in BOOLEAN
        /\ links' \in {links, links + 1} /\ links' <= MaxLinks
    <3>1. now \in Time /\ now' \in Time
      BY <1>1 DEF IndInv, TypeOK, Time, Tick, LinkUp, LinkDown, BeastConnected,
                  BeastClosed, BeastReconnect, vars
    <3>2. link' \in BOOLEAN /\ timer' \in BOOLEAN
      BY <1>1 DEF IndInv, TypeOK, Tick, LinkUp, LinkDown, BeastConnected, BeastClosed,
                  BeastReconnect, vars, beast
    <3>3. links' \in {links, links + 1} /\ links' <= MaxLinks
      BY <1>1 DEF IndInv, TypeOK, Tick, LinkUp, LinkDown, BeastConnected, BeastClosed,
                  BeastReconnect, vars
    <3> QED
      BY <3>1, <3>2, <3>3
  <2>2. /\ opening \in Nat /\ open \in Nat /\ links \in Nat /\ MaxSockets \in Nat
        /\ opening + open <= MaxSockets /\ opening + open <= links
        /\ timer = TRUE => opening + open < links
    BY DEF IndInv, TypeOK, Paired
  <2>3. /\ opening' \in Nat /\ open' \in Nat /\ opening' + open' <= MaxSockets
        /\ opening' + open' <= links'
        /\ timer' = TRUE => opening' + open' < links'
    <3>1. CASE UNCHANGED <<opening, open, timer, links>>
      BY <2>2, <3>1
    <3>2. CASE LinkUp
      BY <2>2, <3>2 DEF LinkUp
    <3>3. CASE BeastConnected
      BY <2>2, <3>3 DEF BeastConnected
    <3>4. CASE BeastClosed
      BY <2>2, <3>4 DEF BeastClosed
    <3>5. CASE BeastReconnect
      BY <2>2, <3>5 DEF BeastReconnect
    <3> QED
      BY <1>1, <3>1, <3>2, <3>3, <3>4, <3>5 DEF vars, beast, Tick, LinkDown
  <2>4. /\ links' \in links .. MaxLinks /\ Paired'
        /\ opening' \in 0 .. MaxSockets /\ open' \in 0 .. MaxSockets
    <3>1. Paired'
      BY <2>3 DEF Paired
    <3>2. links' \in links .. MaxLinks
      BY <2>1, <2>2
    <3>3. opening' \in 0 .. MaxSockets /\ open' \in 0 .. MaxSockets
      <4>1. \A m, n, max \in Nat : m + n <= max => m \in 0 .. max /\ n \in 0 .. max
        OBVIOUS
      <4> QED
        BY <2>2, <2>3, <4>1
    <3> QED
      BY <3>1, <3>2, <3>3
  <2>5. /\ GivenUp(latest, latest')
        /\ stopped' \in BOOLEAN
        /\ batching' \in BOOLEAN /\ start' \in Time
        /\ UNCHANGED <<chunks, heard, writer, captures, orphans, lost>>
    BY <1>1 DEF GivenUp, IndInv, TypeOK, Time, Tick, LinkUp, LinkDown, BeastConnected,
                BeastClosed, BeastReconnect, vars, beast, input, window, output
  <2> QED
    BY <2>1, <2>4, <2>5, SocketKeeps
<1>2. CASE Receive
  <2>1. PICK last \in Ends : Gather([at |-> now, first |-> 1, last |-> last])
    BY <1>2 DEF Receive
  <2> DEFINE part == [at |-> now, first |-> 1, last |-> last]
  <2>2. now \in Nat /\ latest.at \in Nat /\ latest.at < now
    BY <1>2 DEF Receive, IndInv, TypeOK, Time
  <2>3. part \in Part
    BY CutsAssumption DEF Ends, IndInv, TypeOK, Part, FrameLength
  <2>4. \A p \in heard : p.at < now
    <3>1. \A p \in heard : p.at \in Nat
      BY DEF IndInv, TypeOK, Part, Time
    <3> QED
      BY <2>2, <3>1 DEF IndInv, Numbered, UpTo, NotAfter
  <2>5. part \notin heard /\ UpTo(part.at, part.last)
    <3>1. part.at = now
      OBVIOUS
    <3> HIDE DEF part
    <3>2. part \notin heard
      BY <2>2, <2>4, <3>1
    <3>3. \A p \in heard : p.at < part.at
      BY <2>4, <3>1
    <3> QED
      BY <3>2, <3>3 DEF UpTo, NotAfter
  <2> QED
    BY <2>1, <2>3, <2>5, GatherKeeps
<1>3. CASE ReceiveRest
  <2>1. PICK last \in Ends :
          /\ latest.last < last
          /\ Gather([at |-> latest.at, first |-> latest.last + 1, last |-> last])
    BY <1>3 DEF ReceiveRest
  <2> DEFINE part == [at |-> latest.at, first |-> latest.last + 1, last |-> last]
  <2>2. latest.at \in Time /\ latest.last \in 1 .. 6 /\ last \in 1 .. 6
    BY CutsAssumption DEF Ends, IndInv, TypeOK, FrameLength
  <2>3. part \in Part
    BY <2>1, <2>2 DEF Part, FrameLength
  <2>4. part.at = latest.at /\ part.last = last
    OBVIOUS
  <2> HIDE DEF part
  <2>5. \A p \in heard : p.last \in Nat /\ p.at \in Nat
    BY PartType DEF IndInv, TypeOK
  <2>6. latest.at \in Nat
    BY <2>2 DEF Time
  <2>7. part \notin heard /\ UpTo(part.at, part.last)
    BY <2>1, <2>2, <2>4, <2>5, <2>6 DEF IndInv, Numbered, UpTo, NotAfter
  <2> QED
    BY <2>1, <2>3, <2>7, GatherKeeps DEF part
<1>4. CASE FlushNothing
  <2>1. Range(chunks) \subseteq Part
    BY DEF IndInv, Numbered, TypeOK
  <2>2. /\ chunks' = << >> /\ start' = now /\ lost' = lost \cup Range(chunks)
        /\ UNCHANGED <<now, link, links, opening, open, timer, stopped, latest, heard, batching, writer,
                       captures, orphans>>
    BY <1>4 DEF FlushNothing, beast
  <2>3. /\ now \in Time /\ lost \subseteq Part /\ writer \in [Writers -> Capture]
    BY DEF IndInv, TypeOK
  <2> QED
    BY <2>1, <2>2, <2>3, TakeKeeps
<1>5. ASSUME NEW w \in Writers, Flush(w) PROVE IndInv'
  <2> DEFINE new == [frames |-> chunks, from |-> start, to |-> now]
  <2>1. /\ chunks' = << >> /\ writer[w] = NoCapture
        /\ writer' = [writer EXCEPT ![w] = new]
        /\ UNCHANGED <<now, link, links, opening, open, timer, stopped, latest, heard, batching, start,
                       captures, orphans, lost>>
    BY <1>5 DEF Flush, beast, window, output
  <2>2. new \in Capture
    BY DEF IndInv, TypeOK, Capture
  <2>3. /\ start \in Time /\ lost \subseteq Part /\ writer \in [Writers -> Capture]
    BY DEF IndInv, TypeOK
  <2>4. Range(NoCapture.frames) = {}
    BY DEF NoCapture, Range
  <2>5. writer'[w].frames = chunks
    BY <2>1, <2>3
  <2> HIDE DEF new
  <2>6. /\ writer' \in [Writers -> Capture]
        /\ \A v \in Writers : writer'[v] = writer[v] \/ Range(writer[v].frames) = {}
    BY <2>1, <2>2, <2>3, <2>4
  <2> QED
    BY <2>1, <2>3, <2>5, <2>6, TakeKeeps
<1>6. ASSUME NEW w \in Writers, Written(w) \/ WriteFails(w) PROVE IndInv'
  <2>1. /\ writer' = [writer EXCEPT ![w] = NoCapture] /\ start' = now
        /\ UNCHANGED <<now, link, links, opening, open, timer, stopped, chunks, latest, heard, batching>>
    BY <1>6 DEF Written, WriteFails, beast, input
  <2>2. /\ writer[w] \in Capture /\ Range(writer[w].frames) \subseteq Part
    BY DEF IndInv, TypeOK, Capture, Range
  <2>3. \/ /\ captures' = Append(captures, writer[w]) /\ UNCHANGED <<orphans, lost>>
        \/ /\ orphans' = orphans \cup {writer[w]} /\ UNCHANGED <<captures, lost>>
        \/ /\ lost' = lost \cup Range(writer[w].frames) /\ UNCHANGED <<captures, orphans>>
    BY <1>6 DEF Written, WriteFails
  <2>4. /\ Append(captures, writer[w]) \in Seq(Capture)
        /\ Range(Append(captures, writer[w])) = Range(captures) \cup {writer[w]}
    <3>1. captures \in Seq(Capture)
      BY DEF IndInv, TypeOK
    <3> QED
      BY <2>2, <3>1, AppendProperties DEF Range
  <2>5. /\ now \in Time /\ lost \subseteq Part /\ captures \in Seq(Capture)
        /\ orphans \subseteq Capture
    BY DEF IndInv, TypeOK
  <2>6. /\ lost' \subseteq Part /\ lost \subseteq lost'
        /\ captures' \in Seq(Capture) /\ orphans' \subseteq Capture
        /\ Range(captures) \cup orphans \subseteq Range(captures') \cup orphans'
        /\ \/ writer[w] \in Range(captures') \cup orphans'
           \/ Range(writer[w].frames) \subseteq lost'
    BY <2>2, <2>3, <2>4, <2>5
  <2> QED
    BY <2>1, <2>5, <2>6, ReleaseKeeps
<1>7. CASE StopCapture
  BY <1>7, StopKeeps
<1> QED
  BY <1>1, <1>2, <1>3, <1>4, <1>5, <1>6, <1>7 DEF Next

\* The daemon's steps leave the adapter alone.
LEMMA AdapterAlone ==
  /\ ChainInit => Init
  /\ [ChainNext]_chainVars => [Next]_vars
BY DEF ChainInit, ChainNext, chainVars, OnRawCapture, Batch, Restamp, RestampFails,
       Publish, UploadFails

LEMMA AdapterSteps == ChainSpec => Spec
BY AdapterAlone, PTL DEF ChainSpec, Spec

\* Everything the decoder sent is gathered, being written, on disk or given up with a
\* failed write or a window without a frame, and is in the data at most once for each
\* connection the daemon has had, although every connection starts the BEAST client
\* again and data comes in while a file is being written.
THEOREM NothingUnaccounted == ChainSpec => []DataAccounted
<1>1. Spec => []IndInv
  BY Initially, Inductive, PTL DEF Spec
<1> QED
  BY <1>1, AdapterSteps, Accounted, PTL

-----------------------------------------------------------------------------
(* Windows.                                                                *)

\* Captures end before the next window begins, the one being written included.
Behind ==
  /\ now \in Nat /\ start \in Nat /\ start <= now
  /\ captures \in Seq(Capture)
  /\ writer \in [Writers -> Capture]
  /\ \A w \in Writers : writer[w] # NoCapture =>
       /\ writer[w].to <= now
       /\ \A i \in DOMAIN captures : captures[i].to <= writer[w].from
  /\ \A i \in DOMAIN captures : captures[i].to <= start

\* The windows of the captures the daemon is told of do not overlap, over reconnects and
\* failed writes, when a file is written before the next window ends.
THEOREM WindowsInTurn ==
  ASSUME \A v, w \in Writers : v = w
  PROVE  ChainSpec => []WindowsDisjoint
<1> DEFINE Turns == Behind /\ WindowsDisjoint
<1>1. Init => Turns
  <2>1. NoCapture \in Capture
    BY BoundAssumption DEF NoCapture, Capture, Time
  <2> QED
    BY <2>1 DEF Init, Behind, WindowsDisjoint
<1>2. TypeOK /\ Turns /\ [Next]_vars => Turns'
  <2> SUFFICES ASSUME TypeOK, Turns, [Next]_vars PROVE Turns'
    OBVIOUS
  <2>1. now \in Nat /\ start \in Nat /\ MaxTime \in Nat
    BY BoundAssumption DEF Behind
  <2>2. CASE UNCHANGED <<captures, writer>>
    <3>1. now' \in {now, now + 1} /\ start' \in {start, now}
      BY <2>2 DEF Next, vars, window, Tick, LinkUp, LinkDown, BeastConnected, BeastClosed,
         BeastReconnect, Receive, ReceiveRest, Gather, FlushNothing, Flush, Written,
         WriteFails, StopCapture
    <3>2. \A i \in DOMAIN captures : captures[i].to \in Nat
      BY CaptureTimes DEF Behind
    <3>3. \A w \in Writers : writer[w].to \in Nat
      BY CaptureTimes DEF Behind
    <3> QED
      BY <2>1, <2>2, <3>1, <3>2, <3>3 DEF Behind, WindowsDisjoint
  <2>3. ASSUME NEW w \in Writers, Flush(w) PROVE Turns'
    <3> DEFINE new == [frames |-> chunks, from |-> start, to |-> now]
    <3>1. /\ writer' = [writer EXCEPT ![w] = new] /\ new \in Capture
          /\ UNCHANGED <<now, start, captures>>
      BY <2>3 DEF TypeOK, Capture, Flush, window, output
    <3>2. new.to = now /\ new.from = start
      OBVIOUS
    <3> HIDE DEF new
    <3> QED
      BY <2>1, <3>1, <3>2 DEF Behind, WindowsDisjoint
  <2>4. ASSUME NEW w \in Writers, Written(w) \/ WriteFails(w) PROVE Turns'
    <3>1. /\ writer[w] # NoCapture /\ writer[w] \in Capture /\ captures \in Seq(Capture)
          /\ writer' = [writer EXCEPT ![w] = NoCapture]
          /\ start' = now /\ now' = now
          /\ captures' \in {captures, Append(captures, writer[w])}
      BY <2>4 DEF Behind, Written, WriteFails
    <3>2. writer' \in [Writers -> Capture] /\ \A v \in Writers : writer'[v] = NoCapture
      <4>1. NoCapture \in Capture
        BY BoundAssumption DEF NoCapture, Capture, Time
      <4> QED
        BY <3>1, <4>1 DEF Behind
    <3>3. writer[w].to \in Nat /\ \A i \in DOMAIN captures : captures[i].to \in Nat
      BY <3>1, CaptureTimes DEF Behind
    <3>4. CASE captures' = captures
      BY <2>1, <3>1, <3>2, <3>3, <3>4 DEF Behind, WindowsDisjoint
    <3>5. CASE captures' = Append(captures, writer[w])
      <4>1. /\ captures' \in Seq(Capture) /\ Len(captures') = Len(captures) + 1
            /\ DOMAIN captures' = 1 .. Len(captures) + 1
            /\ \A i \in 1 .. Len(captures) + 1 :
                 captures'[i] = IF i = Len(captures) + 1 THEN writer[w] ELSE captures[i]
        BY <3>1, <3>5
      <4>2. /\ Len(captures) \in Nat /\ DOMAIN captures = 1 .. Len(captures)
            /\ \A i \in 1 .. Len(captures) : captures[i].to <= writer[w].from
            /\ \A i \in 1 .. Len(captures) : captures[i].to <= now
            /\ writer[w].to <= now
        BY <2>1, <3>1, <3>3 DEF Behind
      <4>3. WindowsDisjoint'
        BY <4>1, <4>2 DEF WindowsDisjoint
      <4>4. \A i \in DOMAIN captures' : captures'[i].to <= now
        BY <4>1, <4>2
      <4> QED
        BY <2>1, <3>1, <3>2, <4>1, <4>3, <4>4 DEF Behind
    <3> QED
      BY <3>1, <3>4, <3>5
  <2>5. CASE StopCapture
    <3>1. NoCapture \in Capture
      BY BoundAssumption DEF NoCapture, Capture, Time
    <3> QED
      BY <2>5, <3>1 DEF StopCapture, Behind, WindowsDisjoint
  <2> QED
    BY <2>2, <2>3, <2>4, <2>5
       DEF Next, vars, output, Tick, LinkUp, LinkDown, BeastConnected, BeastClosed,
           BeastReconnect, Receive, ReceiveRest, Gather, FlushNothing
<1>3. Spec => []IndInv
  BY Initially, Inductive, PTL DEF Spec
<1>4. IndInv => TypeOK
  BY DEF IndInv
<1>5. Spec => []Turns
  BY <1>1, <1>2, <1>3, <1>4, PTL DEF Spec
<1> QED
  BY <1>5, AdapterSteps, PTL

-----------------------------------------------------------------------------
(* Places of the captures the daemon was told of.                          *)

Distinct(q) == \A j, k \in DOMAIN q : q[j] = q[k] => j = k
Listed(q, n) == q \in Seq(1 .. n) /\ Distinct(q)

LEMMA ListOfNone == \A n : Listed(<< >>, n) /\ ToSet(<< >>) = {}
BY DEF Listed, Distinct, ToSet

LEMMA ListGrows ==
  ASSUME NEW n \in Nat, NEW q, Listed(q, n)
  PROVE  Listed(q, n + 1)
<1>1. q \in Seq(1 .. n) /\ 1 .. n \subseteq 1 .. n + 1
  BY DEF Listed
<1>2. \A i \in 1 .. Len(q) : q[i] \in 1 .. n + 1
  BY <1>1
<1>3. q \in Seq(1 .. n + 1)
  BY <1>1, <1>2
<1> QED
  BY <1>3 DEF Listed

LEMMA ListElements ==
  ASSUME NEW n, NEW q, Listed(q, n)
  PROVE  ToSet(q) \subseteq 1 .. n
<1>1. \A i \in DOMAIN q : q[i] \in 1 .. n
  BY LenProperties, ElementOfSeq DEF Listed
<1> QED
  BY <1>1 DEF ToSet

LEMMA AppendNew ==
  ASSUME NEW n \in Nat, NEW q, Listed(q, n), NEW i \in 1 .. n, i \notin ToSet(q)
  PROVE  /\ Listed(Append(q, i), n)
         /\ ToSet(Append(q, i)) = ToSet(q) \cup {i}
         /\ Len(Append(q, i)) = Len(q) + 1
<1> DEFINE a == Append(q, i)
<1>1. /\ q \in Seq(1 .. n) /\ a \in Seq(1 .. n) /\ Len(a) = Len(q) + 1
      /\ Len(q) \in Nat /\ DOMAIN q = 1 .. Len(q) /\ DOMAIN a = 1 .. Len(q) + 1
      /\ \A k \in 1 .. Len(q) : a[k] = q[k]
      /\ a[Len(q) + 1] = i
  BY AppendProperties DEF Listed
<1> HIDE DEF a
<1>2. \A k \in 1 .. Len(q) : q[k] # i
  BY <1>1 DEF ToSet
<1>3. /\ DOMAIN a = DOMAIN q \cup {Len(q) + 1}
      /\ \A k \in DOMAIN q : a[k] = q[k] /\ a[k] # i
  BY <1>1, <1>2
<1>4. Distinct(a)
  BY <1>1, <1>3 DEF Listed, Distinct
<1>5. ToSet(a) = ToSet(q) \cup {i}
  <2>1. ToSet(a) \subseteq ToSet(q) \cup {i}
    BY <1>1, <1>3 DEF ToSet
  <2>2. ToSet(q) \cup {i} \subseteq ToSet(a)
    BY <1>1, <1>3 DEF ToSet
  <2> QED
    BY <2>1, <2>2
<1> QED
  BY <1>1, <1>4, <1>5 DEF a, Listed

LEMMA HeadAndTail ==
  ASSUME NEW n \in Nat, NEW q, Listed(q, n), q # << >>
  PROVE  /\ Head(q) \in ToSet(q) /\ Head(q) \in 1 .. n
         /\ Listed(Tail(q), n)
         /\ ToSet(Tail(q)) = ToSet(q) \ {Head(q)}
<1> DEFINE t == Tail(q)
<1>1. /\ q \in Seq(1 .. n) /\ Len(q) \in Nat \ {0} /\ DOMAIN q = 1 .. Len(q)
      /\ Head(q) = q[1] /\ 1 \in DOMAIN q
  BY EmptySeq, LenProperties DEF Listed
<1>2. /\ t \in Seq(1 .. n) /\ Len(t) = Len(q) - 1 /\ DOMAIN t = 1 .. Len(q) - 1
      /\ \A k \in 1 .. Len(q) - 1 : t[k] = q[k + 1]
  BY <1>1, HeadTailProperties
<1> HIDE DEF t
<1>3. \A k \in DOMAIN t : k + 1 \in DOMAIN q /\ k + 1 # 1 /\ t[k] = q[k + 1]
  BY <1>1, <1>2
<1>4. \A k \in DOMAIN q : k # 1 => k - 1 \in 1 .. Len(q) - 1 /\ t[k - 1] = q[k]
  BY <1>1, <1>2
<1>5. Distinct(t)
  <2> SUFFICES ASSUME NEW j \in DOMAIN t, NEW k \in DOMAIN t, t[j] = t[k] PROVE j = k
    BY DEF Distinct
  <2>1. q[j + 1] = q[k + 1] /\ j + 1 \in DOMAIN q /\ k + 1 \in DOMAIN q
    BY <1>3
  <2>2. j + 1 = k + 1
    BY <2>1 DEF Listed, Distinct
  <2> QED
    BY <1>1, <1>2, <2>2
<1>6. ToSet(t) \subseteq ToSet(q) \ {Head(q)}
  <2> SUFFICES ASSUME NEW k \in DOMAIN t PROVE t[k] \in ToSet(q) \ {Head(q)}
    BY DEF ToSet
  <2>1. t[k] = q[k + 1] /\ k + 1 \in DOMAIN q /\ k + 1 # 1
    BY <1>3
  <2> QED
    BY <1>1, <2>1 DEF Listed, Distinct, ToSet
<1>7. ToSet(q) \ {Head(q)} \subseteq ToSet(t)
  <2> SUFFICES ASSUME NEW k \in DOMAIN q, q[k] # q[1] PROVE q[k] \in ToSet(t)
    BY <1>1 DEF ToSet
  <2> QED
    BY <1>2, <1>4 DEF ToSet
<1>8. Head(q) \in ToSet(q) /\ Head(q) \in 1 .. n
  BY <1>1, ListElements DEF ToSet
<1>9. Listed(t, n) /\ ToSet(t) = ToSet(q) \ {Head(q)}
  BY <1>2, <1>5, <1>6, <1>7 DEF Listed
<1> QED
  BY <1>8, <1>9 DEF t

\* A list without a capture twice is not longer than there are captures.
LEMMA ListFits ==
  ASSUME NEW n \in Nat, NEW q, Listed(q, n)
  PROVE  Len(q) <= n
<1> SUFFICES ASSUME Len(q) > n PROVE FALSE
  BY DEF Listed
<1>1. q \in [1 .. Len(q) -> 1 .. n] /\ Len(q) \in Nat
  BY DEF Listed
<1>2. 1 \in Int /\ n \in Int /\ Len(q) \in Int
  BY <1>1
<1>3. /\ IsFiniteSet(1 .. n) /\ IsFiniteSet(1 .. Len(q))
      /\ Cardinality(1 .. n) < Cardinality(1 .. Len(q))
  <2>1. /\ IsFiniteSet(1 .. n)
        /\ Cardinality(1 .. n) = IF 1 > n THEN 0 ELSE n - 1 + 1
    BY <1>2, FS_Interval
  <2>2. /\ IsFiniteSet(1 .. Len(q))
        /\ Cardinality(1 .. Len(q)) = IF 1 > Len(q) THEN 0 ELSE Len(q) - 1 + 1
    BY <1>2, FS_Interval
  <2> QED
    BY <1>1, <2>1, <2>2
<1>4. PICK j, k \in 1 .. Len(q) : j # k /\ q[j] = q[k]
  BY <1>1, <1>3, FS_PigeonHole
<1> QED
  BY <1>1, <1>4 DEF Listed, Distinct

\* Appending to a sequence of whatever elements.
LEMMA AppendAny ==
  ASSUME NEW q, q \in Seq(ToSet(q)), NEW x
  PROVE  LET a == Append(q, x)
         IN  /\ a \in Seq(ToSet(a)) /\ Len(a) = Len(q) + 1
             /\ DOMAIN q = 1 .. Len(q) /\ DOMAIN a = 1 .. Len(q) + 1 /\ Len(q) \in Nat
             /\ \A k \in DOMAIN q : a[k] = q[k]
             /\ a[Len(q) + 1] = x
<1> DEFINE a == Append(q, x)
           S == ToSet(q) \cup {x}
<1>1. q \in Seq(S)
  BY DEF ToSet
<1>2. x \in S
  OBVIOUS
<1> HIDE DEF S
<1>3. /\ a \in Seq(S) /\ Len(a) = Len(q) + 1 /\ Len(q) \in Nat
      /\ DOMAIN q = 1 .. Len(q) /\ DOMAIN a = 1 .. Len(q) + 1
      /\ \A k \in 1 .. Len(q) : a[k] = q[k]
      /\ a[Len(q) + 1] = x
  BY <1>1, <1>2, AppendProperties
<1> HIDE DEF a
<1>4. \A k \in 1 .. Len(a) : a[k] \in ToSet(a)
  BY <1>3 DEF ToSet
<1>5. a \in Seq(ToSet(a))
  BY <1>3, <1>4
<1> QED
  BY <1>3, <1>5 DEF a

-----------------------------------------------------------------------------
\* What a callback holds, and what a sighting names.
Held(f) == ToSet(batch[f].todo) \cup ToSet(batch[f].read)
Named(s) == ToSet(sightings[s].of)

\* The daemon's lists of captures: each capture once.
Lists ==
  /\ told \in 0 .. Len(captures)
  /\ Listed(paths, told)
  /\ DOMAIN batch = Flushers
  /\ \A f \in Flushers :
       /\ DOMAIN batch[f] = DOMAIN NoBatch
       /\ Listed(batch[f].todo, told) /\ Listed(batch[f].read, told)
       /\ ToSet(batch[f].todo) \cap ToSet(batch[f].read) = {}
  /\ sightings \in Seq(ToSet(sightings))
  /\ \A s \in DOMAIN sightings : Listed(sightings[s].of, told)
  /\ abandoned \cup skipped \subseteq 1 .. told

\* What comes with the lists.
Stamps ==
  /\ from \in Time /\ from <= now
  /\ batches \in 0 .. MaxBatches
  /\ \A f \in Flushers :
       /\ batch[f].blobs \in Seq(ToSet(batch[f].blobs))
       /\ Len(batch[f].blobs) = Len(batch[f].read)
       /\ batch[f].from <= batch[f].to

Placed ==
  \A i \in 1 .. told :
    \/ i \in ToSet(paths) \cup abandoned \cup skipped
    \/ \E f \in Flushers : i \in Held(f)
    \/ \E s \in DOMAIN sightings : i \in Named(s)

Apart ==
  /\ \A f \in Flushers : \A i \in Held(f) :
       /\ i \notin ToSet(paths) \cup abandoned \cup skipped
       /\ \A g \in Flushers : i \in Held(g) => g = f
  /\ \A s \in DOMAIN sightings : \A i \in Named(s) :
       /\ i \notin ToSet(paths) \cup abandoned \cup skipped
       /\ \A f \in Flushers : i \notin Held(f)
       /\ \A r \in DOMAIN sightings : i \in Named(r) => r = s
  /\ ToSet(paths) \cap (abandoned \cup skipped) = {}
  /\ abandoned \cap skipped = {}

\* A file is deleted, or cannot be, when its capture is read, and not before.
Tried == unlinked \cup stuck

Deleted ==
  /\ unlinked \cap stuck = {}
  /\ abandoned \subseteq Tried
  /\ \A f \in Flushers : ToSet(batch[f].read) \subseteq Tried
  /\ \A s \in DOMAIN sightings : Named(s) \subseteq Tried
  /\ \A i \in Tried : /\ i \in 1 .. told
                      /\ i \notin ToSet(paths) \cup skipped
                      /\ \A f \in Flushers : i \notin ToSet(batch[f].todo)

DaemonInv == Lists /\ Stamps /\ Placed /\ Apart /\ Deleted

\* The batch of one callback changes.
LEMMA SlotChanges ==
  ASSUME Lists, NEW f \in Flushers, NEW b, batch' = [batch EXCEPT ![f] = b]
  PROVE  /\ DOMAIN batch' = Flushers /\ batch'[f] = b
         /\ \A g \in Flushers : g # f => batch'[g] = batch[g]
         /\ \A g \in Flushers : g # f => Held(g)' = Held(g)
         /\ Held(f)' = ToSet(b.todo) \cup ToSet(b.read)
BY DEF Lists, Held

LEMMA DaemonBegins == ChainInit => DaemonInv
<1> SUFFICES ASSUME ChainInit PROVE DaemonInv
  OBVIOUS
<1>1. /\ told = 0 /\ paths = << >> /\ from = now /\ batches = 0 /\ sightings = << >>
      /\ batch = [f \in Flushers |-> NoBatch] /\ captures = << >> /\ now = 1
      /\ unlinked = {} /\ stuck = {} /\ Tried = {} /\ abandoned = {} /\ skipped = {}
  BY DEF ChainInit, Init, Tried
<1>2. \A f \in Flushers : /\ batch[f] = NoBatch /\ batch[f].todo = << >>
                          /\ batch[f].read = << >> /\ batch[f].blobs = << >>
                          /\ batch[f].from = 0 /\ batch[f].to = 0
  BY <1>1 DEF NoBatch
<1>3. << >> \in Seq({}) /\ ToSet(<< >>) = {} /\ DOMAIN << >> = {}
  BY DEF ToSet
<1>4. Lists
  BY <1>1, <1>2, <1>3, ListOfNone DEF Lists
<1>5. Stamps
  <2>1. \A q : q = << >> => q \in Seq(ToSet(q)) /\ Len(q) = 0
    OBVIOUS
  <2>2. \A f \in Flushers : /\ batch[f].blobs \in Seq(ToSet(batch[f].blobs))
                            /\ Len(batch[f].blobs) = Len(batch[f].read)
                            /\ batch[f].from <= batch[f].to
    BY <1>2, <2>1
  <2>3. from \in Time /\ from <= now /\ batches \in 0 .. MaxBatches
    BY <1>1, BoundAssumption, ChainAssumption DEF Time
  <2> QED
    BY <2>2, <2>3 DEF Stamps
<1>6. Placed /\ Apart /\ Deleted
  BY <1>1, <1>2, <1>3 DEF Placed, Apart, Deleted, Held
<1> QED
  BY <1>4, <1>5, <1>6 DEF DaemonInv

\* The adapter goes on: there are more captures, and it is later.
LEMMA AdapterOn ==
  ASSUME TypeOK, DaemonInv, [Next]_vars, UNCHANGED chain
  PROVE  DaemonInv'
<1>1. Len(captures) \in Nat /\ Len(captures') \in Nat /\ Len(captures) <= Len(captures')
  <2>1. /\ captures \in Seq(Capture) /\ \A w \in Writers : writer[w] \in Capture
    BY DEF TypeOK
  <2>2. \/ captures' = captures
        \/ \E w \in Writers : captures' = Append(captures, writer[w])
    BY DEF Next, vars, output, Tick, LinkUp, LinkDown, BeastConnected, BeastClosed,
           BeastReconnect, Receive, ReceiveRest, Gather, FlushNothing, Flush, Written,
           WriteFails, StopCapture
  <2> QED
    BY <2>1, <2>2
<1>2. now \in Nat /\ now' \in Nat /\ now <= now'
  <2>1. now' \in {now, now + 1}
    BY DEF Next, vars, Tick, LinkUp, LinkDown, BeastConnected, BeastClosed, BeastReconnect,
           Receive, ReceiveRest, Gather, FlushNothing, Flush, Written, WriteFails, StopCapture
  <2> QED
    BY <2>1, BoundAssumption DEF TypeOK, Time
<1>3. Lists'
  <2>1. /\ told' = told /\ paths' = paths /\ batch' = batch /\ sightings' = sightings
        /\ abandoned' = abandoned /\ skipped' = skipped
    BY DEF chain
  <2>2. told' \in 0 .. Len(captures')
    BY <1>1, <2>1 DEF DaemonInv, Lists
  <2> QED
    BY <2>1, <2>2 DEF DaemonInv, Lists
<1>4. Stamps'
  BY <1>2, BoundAssumption DEF DaemonInv, Stamps, chain, Time
<1>5. Placed' /\ Apart' /\ Deleted'
  BY DEF DaemonInv, chain, deletion, Placed, Apart, Deleted, Tried, Held, Named
<1> QED
  BY <1>3, <1>4, <1>5 DEF DaemonInv

LEMMA ToldKeeps ==
  ASSUME IndInv, DaemonInv, OnRawCapture
  PROVE  DaemonInv'
<1>1. /\ told \in Nat /\ told < Len(captures) /\ Len(captures) \in Nat
      /\ told' = told + 1 /\ paths' = Append(paths, told')
      /\ UNCHANGED <<now, captures, from, batch, batches, sightings, unlinked, stuck, Tried,
                     abandoned, skipped>>
  BY DEF DaemonInv, Lists, OnRawCapture, vars, output, deletion, Tried, IndInv, TypeOK
<1>2. told' \in 1 .. told' /\ \A i \in 1 .. told : i # told'
  BY <1>1
<1>3. Listed(paths', told') /\ ToSet(paths') = ToSet(paths) \cup {told'}
  <2>1. Listed(paths, told') /\ told' \notin ToSet(paths)
    BY <1>1, <1>2, ListGrows, ListElements DEF DaemonInv, Lists
  <2> QED
    BY <1>1, <1>2, <2>1, AppendNew
<1>4. /\ \A f \in Flushers : told' \notin Held(f)
      /\ \A s \in DOMAIN sightings : told' \notin Named(s)
      /\ told' \notin abandoned \cup skipped \cup Tried
  BY <1>2, ListElements DEF DaemonInv, Lists, Deleted, Held, Named
<1>5. Lists'
  <2>1. told' \in 0 .. Len(captures')
    BY <1>1
  <2>2. \A f \in Flushers : Listed(batch[f].todo, told') /\ Listed(batch[f].read, told')
    BY <1>1, ListGrows DEF DaemonInv, Lists
  <2>3. \A s \in DOMAIN sightings : Listed(sightings[s].of, told')
    BY <1>1, ListGrows DEF DaemonInv, Lists
  <2>4. 1 .. told \subseteq 1 .. told'
    BY <1>1
  <2> QED
    BY <1>1, <1>3, <2>1, <2>2, <2>3, <2>4 DEF DaemonInv, Lists
<1>6. Stamps'
  BY <1>1 DEF DaemonInv, Stamps
<1>7. Placed'
  <2>1. \A i \in 1 .. told' : i \in 1 .. told \/ i = told'
    BY <1>1
  <2> QED
    BY <1>1, <1>3, <2>1 DEF DaemonInv, Placed, Held, Named
<1>8. Apart'
  <2>1. \A f \in Flushers : Held(f)' = Held(f)
    BY <1>1 DEF Held
  <2>2. \A s \in DOMAIN sightings : Named(s)' = Named(s)
    BY <1>1 DEF Named
  <2> QED
    BY <1>1, <1>3, <1>4, <2>1, <2>2 DEF DaemonInv, Apart
<1>9. Deleted'
  <2>1. 1 .. told \subseteq 1 .. told'
    BY <1>1
  <2> QED
    BY <1>1, <1>3, <1>4, <2>1 DEF DaemonInv, Deleted, Named
<1> QED
  BY <1>5, <1>6, <1>7, <1>8, <1>9 DEF DaemonInv

\* The timer takes the paths, or forgets them.
LEMMA BatchKeeps ==
  ASSUME IndInv, DaemonInv, NEW f \in Flushers, NEW telemetry \in BOOLEAN,
         Batch(f, telemetry)
  PROVE  DaemonInv'
<1>1. /\ batch[f] = NoBatch /\ from' = now /\ paths' = << >>
      /\ UNCHANGED <<now, captures, told, sightings, unlinked, stuck, Tried, abandoned>>
  BY DEF Batch, NextPaths, vars, output, deletion, Tried
<1>2. Listed(paths', told') /\ ToSet(paths') = {}
  BY <1>1, ListOfNone
<1>3. Held(f) = {}
  BY <1>1, ListOfNone DEF NoBatch, Held
<1>4. now \in Time /\ now \in Nat /\ from \in Nat /\ from' <= now'
  BY <1>1, BoundAssumption DEF IndInv, TypeOK, Time, DaemonInv, Stamps
<1>5. CASE telemetry /\ rawCaptureEnabled
  <2> DEFINE b == [todo |-> paths, read |-> << >>, blobs |-> << >>, from |-> from, to |-> now]
  <2>1. /\ batch' = [batch EXCEPT ![f] = b] /\ batches' = batches + 1
        /\ batches < MaxBatches /\ skipped' = skipped
    BY <1>5 DEF Batch, NoBatch
  <2>2. /\ DOMAIN b = DOMAIN NoBatch
        /\ b.todo = paths /\ b.read = << >> /\ b.blobs = << >> /\ b.from <= b.to
    BY <1>4 DEF NoBatch, DaemonInv, Stamps
  <2> HIDE DEF b
  <2>3. /\ DOMAIN batch' = Flushers /\ batch'[f] = b
        /\ \A g \in Flushers : g # f => batch'[g] = batch[g]
        /\ \A g \in Flushers : g # f => Held(g)' = Held(g)
        /\ Held(f)' = ToSet(paths)
    <3>1. ToSet(b.todo) \cup ToSet(b.read) = ToSet(paths)
      BY <2>2, ListOfNone
    <3> QED
      BY <2>1, <3>1, SlotChanges DEF DaemonInv
  <2>4. Lists'
    BY <1>1, <1>2, <2>1, <2>2, <2>3, ListOfNone DEF DaemonInv, Lists
  <2>5. Stamps'
    <3>1. batches' \in 0 .. MaxBatches
      BY <2>1, ChainAssumption DEF DaemonInv, Stamps
    <3>2. << >> \in Seq(ToSet(<< >>)) /\ Len(<< >>) = 0
      OBVIOUS
    <3> QED
      BY <1>1, <1>4, <2>2, <2>3, <3>1, <3>2 DEF DaemonInv, Stamps
  <2>6. Placed'
    BY <1>1, <1>2, <1>3, <2>1, <2>3 DEF DaemonInv, Placed, Named
  <2>7. Apart'
    <3>1. \A s \in DOMAIN sightings : Named(s)' = Named(s)
      BY <1>1 DEF Named
    <3> QED
      BY <1>1, <1>2, <1>3, <2>1, <2>3, <3>1 DEF DaemonInv, Apart
  <2>8. Deleted'
    BY <1>1, <1>2, <2>1, <2>2, <2>3, ListOfNone DEF DaemonInv, Deleted, Named
  <2> QED
    BY <2>4, <2>5, <2>6, <2>7, <2>8 DEF DaemonInv
<1>6. CASE ~(telemetry /\ rawCaptureEnabled)
  <2>1. skipped' = skipped \cup ToSet(paths) /\ UNCHANGED <<batch, batches>>
    BY <1>6 DEF Batch
  <2>2. ToSet(paths) \subseteq 1 .. told
    BY ListElements DEF DaemonInv, Lists
  <2>3. Lists' /\ Stamps'
    BY <1>1, <1>2, <1>4, <2>1, <2>2 DEF DaemonInv, Lists, Stamps
  <2>4. Placed' /\ Apart' /\ Deleted'
    BY <1>1, <1>2, <2>1 DEF DaemonInv, Placed, Apart, Deleted, Held, Named
  <2> QED
    BY <2>3, <2>4 DEF DaemonInv
<1> QED
  BY <1>5, <1>6

\* A file is read, or given up, and deleted.
LEMMA RestampKeeps ==
  ASSUME IndInv, DaemonInv, NEW f \in Flushers, Restamp(f) \/ RestampFails(f)
  PROVE  DaemonInv'
<1> DEFINE i == Head(batch[f].todo)
<1>1. told \in Nat /\ DOMAIN batch = Flushers /\ DOMAIN batch[f] = DOMAIN NoBatch
  BY DEF DaemonInv, Lists, IndInv, TypeOK
<1>2. /\ i \in ToSet(batch[f].todo) /\ i \in 1 .. told
      /\ Listed(Tail(batch[f].todo), told)
      /\ ToSet(Tail(batch[f].todo)) = ToSet(batch[f].todo) \ {i}
  BY <1>1, HeadAndTail DEF DaemonInv, Lists, Restamp, RestampFails
<1>3. i \notin Tried /\ i \notin ToSet(batch[f].read)
  BY <1>2 DEF DaemonInv, Lists, Deleted
<1>4. /\ UNCHANGED <<now, captures, told, paths, from, batches, sightings, skipped>>
      /\ Tried' = Tried \cup {i} /\ unlinked' \cap stuck' = {}
  <2>1. Unlink(i) /\ unlinked \cap stuck = {}
    BY DEF Restamp, RestampFails, DaemonInv, Deleted
  <2>2. Tried' = Tried \cup {i} /\ unlinked' \cap stuck' = {}
    BY <1>3, <2>1 DEF Unlink, Tried
  <2> QED
    BY <2>2 DEF Restamp, RestampFails, vars, output
<1>5. /\ \A s \in DOMAIN sightings : Named(s)' = Named(s)
      /\ i \notin ToSet(paths) \cup abandoned \cup skipped
      /\ \A g \in Flushers : i \in Held(g) <=> g = f
      /\ \A s \in DOMAIN sightings : i \notin Named(s)
  BY <1>2, <1>4 DEF DaemonInv, Apart, Held, Named
<1>6. CASE Restamp(f)
  <2>1. /\ DOMAIN batch' = Flushers /\ DOMAIN batch'[f] = DOMAIN NoBatch
        /\ \A g \in Flushers : g # f => batch'[g] = batch[g]
        /\ batch'[f].todo = Tail(batch[f].todo) /\ batch'[f].read = Append(batch[f].read, i)
        /\ batch'[f].from = batch[f].from /\ batch'[f].to = batch[f].to
        /\ \E blob : batch'[f].blobs = Append(batch[f].blobs, blob)
    BY <1>1, <1>6 DEF Restamp, NoBatch
  <2>2. abandoned' = abandoned
    BY <1>6 DEF Restamp
  <2>3. /\ Listed(batch'[f].read, told) /\ Len(batch'[f].read) = Len(batch[f].read) + 1
        /\ ToSet(batch'[f].read) = ToSet(batch[f].read) \cup {i}
    BY <1>1, <1>2, <1>3, <2>1, AppendNew DEF DaemonInv, Lists
  <2>4. /\ batch'[f].blobs \in Seq(ToSet(batch'[f].blobs))
        /\ Len(batch'[f].blobs) = Len(batch[f].blobs) + 1
    BY <2>1, AppendAny DEF DaemonInv, Stamps
  <2>5. \A g \in Flushers : Held(g)' = Held(g)
    BY <1>2, <2>1, <2>3 DEF Held
  <2>6. Lists'
    BY <1>2, <1>3, <1>4, <2>1, <2>2, <2>3 DEF DaemonInv, Lists
  <2>7. Stamps'
    BY <1>4, <2>1, <2>3, <2>4 DEF DaemonInv, Stamps
  <2>8. Placed' /\ Apart'
    BY <1>4, <1>5, <2>2, <2>5 DEF DaemonInv, Placed, Apart
  <2>9. Deleted'
    <3>1. \A g \in Flushers : i \in ToSet(batch[g].todo) => g = f
      BY <1>5 DEF Held
    <3>2. \A g \in Flushers :
             /\ ToSet(batch'[g].read) \subseteq ToSet(batch[g].read) \cup {i}
             /\ ToSet(batch'[g].todo) \subseteq ToSet(batch[g].todo) \ {i}
      BY <1>2, <2>1, <2>3, <3>1
    <3> QED
      BY <1>2, <1>4, <1>5, <2>2, <3>2 DEF DaemonInv, Deleted
  <2> QED
    BY <2>6, <2>7, <2>8, <2>9 DEF DaemonInv
<1>7. CASE RestampFails(f)
  <2> DEFINE b == [batch[f] EXCEPT !.todo = Tail(batch[f].todo)]
  <2>1. batch' = [batch EXCEPT ![f] = b] /\ abandoned' = abandoned \cup {i}
    BY <1>1, <1>7 DEF RestampFails
  <2>2. /\ DOMAIN b = DOMAIN NoBatch /\ b.todo = Tail(batch[f].todo)
        /\ b.read = batch[f].read /\ b.blobs = batch[f].blobs
        /\ b.from = batch[f].from /\ b.to = batch[f].to
    BY <1>1 DEF NoBatch
  <2> HIDE DEF b
  <2>3. /\ DOMAIN batch' = Flushers /\ batch'[f] = b
        /\ \A g \in Flushers : g # f => batch'[g] = batch[g]
        /\ \A g \in Flushers : g # f => Held(g)' = Held(g)
        /\ Held(f)' = Held(f) \ {i}
    <3>1. ToSet(b.todo) \cup ToSet(b.read) = Held(f) \ {i}
      BY <1>2, <1>3, <2>2 DEF Held
    <3> QED
      BY <2>1, <3>1, SlotChanges DEF DaemonInv
  <2>4. Lists' /\ Stamps'
    BY <1>2, <1>4, <2>1, <2>2, <2>3 DEF DaemonInv, Lists, Stamps
  <2>5. Placed' /\ Apart'
    BY <1>4, <1>5, <2>1, <2>3 DEF DaemonInv, Placed, Apart
  <2>6. Deleted'
    <3>1. \A g \in Flushers : i \in ToSet(batch[g].todo) => g = f
      BY <1>5 DEF Held
    <3>2. \A g \in Flushers : /\ batch'[g].read = batch[g].read
                              /\ ToSet(batch'[g].todo) \subseteq ToSet(batch[g].todo) \ {i}
      BY <1>2, <2>2, <2>3, <3>1
    <3> QED
      BY <1>2, <1>4, <1>5, <2>1, <3>2 DEF DaemonInv, Deleted
  <2> QED
    BY <2>4, <2>5, <2>6 DEF DaemonInv
<1> QED
  BY <1>6, <1>7

\* A callback ends: its files are named by a sighting, or given up.
LEMMA EndKeeps ==
  ASSUME IndInv, DaemonInv, NEW f \in Flushers, Publish(f) \/ UploadFails(f)
  PROVE  DaemonInv'
<1>1. /\ batch' = [batch EXCEPT ![f] = NoBatch] /\ batch[f].todo = << >>
      /\ UNCHANGED <<now, captures, told, paths, from, batches, unlinked, stuck, Tried, skipped>>
  BY DEF Publish, UploadFails, Uploading, vars, output, deletion, Tried
<1>2. /\ NoBatch.todo = << >> /\ NoBatch.read = << >> /\ NoBatch.blobs = << >>
      /\ NoBatch.from = 0 /\ NoBatch.to = 0
      /\ \A q : q = << >> => q \in Seq(ToSet(q)) /\ Len(q) = 0
  <2>1. \A q : q = << >> => q \in Seq(ToSet(q)) /\ Len(q) = 0
    OBVIOUS
  <2> QED
    BY <2>1 DEF NoBatch
<1>3. /\ DOMAIN batch' = Flushers /\ batch'[f] = NoBatch
      /\ \A g \in Flushers : g # f => batch'[g] = batch[g]
      /\ \A g \in Flushers : g # f => Held(g)' = Held(g)
      /\ Held(f)' = {}
  <2>1. ToSet(NoBatch.todo) \cup ToSet(NoBatch.read) = {}
    BY <1>2, ListOfNone
  <2> QED
    BY <1>1, <2>1, SlotChanges DEF DaemonInv
<1>4. Held(f) = ToSet(batch[f].read) /\ Listed(batch[f].read, told)
  BY <1>1, ListOfNone DEF DaemonInv, Lists, Held
<1>5. Held(f) \subseteq 1 .. told /\ Held(f) \subseteq Tried
  BY <1>4, ListElements DEF DaemonInv, Deleted
<1>6. Stamps'
  BY <1>1, <1>2, <1>3 DEF DaemonInv, Stamps
<1>7. \A g \in Flushers : /\ DOMAIN batch'[g] = DOMAIN NoBatch
                          /\ Listed(batch'[g].todo, told) /\ Listed(batch'[g].read, told)
                          /\ ToSet(batch'[g].todo) \cap ToSet(batch'[g].read) = {}
                          /\ ToSet(batch'[g].todo) \subseteq ToSet(batch[g].todo)
                          /\ ToSet(batch'[g].read) \subseteq ToSet(batch[g].read)
  BY <1>2, <1>3, ListOfNone DEF DaemonInv, Lists
<1>8. CASE UploadFails(f)
  <2>1. abandoned' = abandoned \cup Held(f) /\ sightings' = sightings
    BY <1>4, <1>8 DEF UploadFails
  <2>2. \A s \in DOMAIN sightings : Named(s)' = Named(s)
    BY <2>1 DEF Named
  <2>3. Lists'
    BY <1>1, <1>3, <1>5, <1>7, <2>1 DEF DaemonInv, Lists
  <2>4. Placed' /\ Apart'
    BY <1>1, <1>3, <2>1, <2>2 DEF DaemonInv, Placed, Apart
  <2>5. Deleted'
    BY <1>1, <1>3, <1>5, <1>7, <2>1, <2>2 DEF DaemonInv, Deleted
  <2> QED
    BY <1>6, <2>3, <2>4, <2>5 DEF DaemonInv
<1>9. CASE Publish(f) /\ batch[f].blobs = << >>
  <2>1. sightings' = sightings /\ abandoned' = abandoned
    BY <1>9 DEF Publish
  <2>2. Held(f) = {}
    <3>1. Len(batch[f].read) = 0
      BY <1>2, <1>9 DEF DaemonInv, Stamps
    <3> QED
      BY <1>4, <3>1, EmptySeq, ListOfNone DEF Listed
  <2>3. \A s \in DOMAIN sightings : Named(s)' = Named(s)
    BY <2>1 DEF Named
  <2>4. Lists'
    BY <1>1, <1>3, <1>7, <2>1 DEF DaemonInv, Lists
  <2>5. Placed' /\ Apart'
    BY <1>1, <1>3, <2>1, <2>2, <2>3 DEF DaemonInv, Placed, Apart
  <2>6. Deleted'
    BY <1>1, <1>3, <1>7, <2>1, <2>3 DEF DaemonInv, Deleted
  <2> QED
    BY <1>6, <2>4, <2>5, <2>6 DEF DaemonInv
<1>10. CASE Publish(f) /\ batch[f].blobs # << >>
  <2> PICK n : n = Len(sightings) + 1
    OBVIOUS
  <2> DEFINE sighting == [from |-> batch[f].from, to |-> batch[f].to,
                          of |-> batch[f].read,
                          blob |-> concatAtrxBlobs(batch[f].blobs)]
  <2>1. sightings' = Append(sightings, sighting) /\ abandoned' = abandoned
    BY <1>10 DEF Publish
  <2>2. sighting.of = batch[f].read
    OBVIOUS
  <2> HIDE DEF sighting
  <2>3. /\ sightings' \in Seq(ToSet(sightings')) /\ n \notin DOMAIN sightings
        /\ DOMAIN sightings' = DOMAIN sightings \cup {n}
        /\ \A s \in DOMAIN sightings : sightings'[s] = sightings[s]
        /\ sightings'[n] = sighting
    BY <2>1, AppendAny DEF DaemonInv, Lists
  <2>4. Named(n)' = Held(f) /\ \A s \in DOMAIN sightings : Named(s)' = Named(s)
    BY <1>4, <2>2, <2>3 DEF Named
  <2>5. Lists'
    BY <1>1, <1>3, <1>4, <1>7, <2>1, <2>2, <2>3 DEF DaemonInv, Lists
  <2>6. Placed'
    BY <1>1, <1>3, <2>1, <2>3, <2>4 DEF DaemonInv, Placed
  <2>7. Apart'
    BY <1>1, <1>3, <2>1, <2>3, <2>4 DEF DaemonInv, Apart
  <2>8. Deleted'
    <3>1. \A s \in DOMAIN sightings' : Named(s)' \subseteq Tried
      BY <1>5, <2>3, <2>4 DEF DaemonInv, Deleted
    <3> QED
      BY <1>1, <1>3, <1>7, <2>1, <3>1 DEF DaemonInv, Deleted
  <2> QED
    BY <1>6, <2>5, <2>6, <2>7, <2>8 DEF DaemonInv
<1> QED
  BY <1>8, <1>9, <1>10

LEMMA ChainKeeps == IndInv /\ DaemonInv /\ [ChainNext]_chainVars => DaemonInv'
<1> SUFFICES ASSUME IndInv, DaemonInv, [ChainNext]_chainVars PROVE DaemonInv'
  OBVIOUS
<1>1. CASE [Next]_vars /\ UNCHANGED chain
  BY <1>1, AdapterOn DEF IndInv
<1>2. CASE OnRawCapture
  BY <1>2, ToldKeeps
<1>3. ASSUME NEW f \in Flushers, NEW telemetry \in BOOLEAN, Batch(f, telemetry)
      PROVE  DaemonInv'
  BY <1>3, BatchKeeps
<1>4. ASSUME NEW f \in Flushers,
             Restamp(f) \/ RestampFails(f) \/ Publish(f) \/ UploadFails(f)
      PROVE  DaemonInv'
  BY <1>4, RestampKeeps, EndKeeps
<1> QED
  BY <1>1, <1>2, <1>3, <1>4 DEF ChainNext, chainVars

\* The positions of a capture in a list are one, or none.
LEMMA Position ==
  ASSUME NEW n \in Nat, NEW q, Listed(q, n), NEW i
  PROVE  /\ i \notin ToSet(q) => {k \in DOMAIN q : q[k] = i} = {}
         /\ i \in ToSet(q) => \E k \in 1 .. n : /\ k <= Len(q)
                                                /\ {j \in DOMAIN q : q[j] = i} = {k}
<1>1. i \notin ToSet(q) => {k \in DOMAIN q : q[k] = i} = {}
  BY DEF ToSet
<1>2. ASSUME i \in ToSet(q)
      PROVE  \E k \in 1 .. n : k <= Len(q) /\ {j \in DOMAIN q : q[j] = i} = {k}
  <2>1. PICK k \in DOMAIN q : q[k] = i
    BY <1>2 DEF ToSet
  <2>2. k \in 1 .. n /\ k <= Len(q)
    BY ListFits DEF Listed
  <2>3. {j \in DOMAIN q : q[j] = i} = {k}
    BY <2>1 DEF Listed, Distinct
  <2> QED
    BY <2>2, <2>3
<1> QED
  BY <1>1, <1>2

\* What is to be read and what is read is one list.
LEMMA HeldIsListed ==
  ASSUME DaemonInv, NEW f \in Flushers
  PROVE  LET held == batch[f].todo \o batch[f].read
         IN  Listed(held, told) /\ ToSet(held) = Held(f)
<1> DEFINE todo == batch[f].todo
           read == batch[f].read
           held == todo \o read
<1>1. /\ todo \in Seq(1 .. told) /\ read \in Seq(1 .. told)
      /\ Distinct(todo) /\ Distinct(read) /\ ToSet(todo) \cap ToSet(read) = {}
  BY DEF DaemonInv, Lists, Listed
<1>2. /\ Len(todo) \in Nat /\ Len(read) \in Nat
      /\ DOMAIN todo = 1 .. Len(todo) /\ DOMAIN read = 1 .. Len(read)
  BY <1>1
<1>3. Held(f) = ToSet(todo) \cup ToSet(read)
  BY DEF Held
<1> HIDE DEF todo, read
<1>4. /\ held \in Seq(1 .. told) /\ DOMAIN held = 1 .. Len(todo) + Len(read)
      /\ \A k \in 1 .. Len(todo) + Len(read) :
           held[k] = IF k <= Len(todo) THEN todo[k] ELSE read[k - Len(todo)]
  BY <1>1, ConcatProperties
<1> HIDE DEF held
<1>5. \A k \in DOMAIN held : \/ k \in DOMAIN todo /\ held[k] = todo[k]
                             \/ k - Len(todo) \in DOMAIN read /\ k \notin DOMAIN todo
                                  /\ held[k] = read[k - Len(todo)]
  BY <1>2, <1>4
<1>6. /\ \A k \in DOMAIN todo : k \in DOMAIN held /\ held[k] = todo[k]
      /\ \A k \in DOMAIN read : k + Len(todo) \in DOMAIN held
                                  /\ held[k + Len(todo)] = read[k]
  BY <1>2, <1>4
<1>7. Distinct(held)
  <2> SUFFICES ASSUME NEW j \in DOMAIN held, NEW k \in DOMAIN held, held[j] = held[k]
               PROVE  j = k
    BY DEF Distinct
  <2>1. CASE j \in DOMAIN todo /\ k \in DOMAIN todo
    BY <1>1, <1>6, <2>1 DEF Distinct
  <2>2. CASE j \notin DOMAIN todo /\ k \notin DOMAIN todo
    <3>1. j - Len(todo) = k - Len(todo)
      BY <1>1, <1>5, <2>2 DEF Distinct
    <3> QED
      BY <1>2, <1>4, <3>1
  <2>3. CASE ~(j \in DOMAIN todo <=> k \in DOMAIN todo)
    BY <1>1, <1>5, <2>3 DEF ToSet
  <2> QED
    BY <2>1, <2>2, <2>3
<1>8. ToSet(held) = ToSet(todo) \cup ToSet(read)
  <2>1. ToSet(held) \subseteq ToSet(todo) \cup ToSet(read)
    BY <1>5 DEF ToSet
  <2>2. ToSet(todo) \cup ToSet(read) \subseteq ToSet(held)
    BY <1>6 DEF ToSet
  <2> QED
    BY <2>1, <2>2
<1> QED
  BY <1>3, <1>4, <1>7, <1>8 DEF held, todo, read, Listed

\* What is in one place is counted once, what is not there is not counted.
LEMMA CountWaiting ==
  ASSUME DaemonInv, told \in Nat, NEW i \in 1 .. told
  PROVE  Cardinality(Places(i).waiting) = IF i \in ToSet(paths) THEN 1 ELSE 0
<1>1. Places(i).waiting = {k \in DOMAIN paths : paths[k] = i}
  BY DEF Places
<1>2. Listed(paths, told)
  BY DEF DaemonInv, Lists
<1>3. CASE i \in ToSet(paths)
  <2>1. PICK k : Places(i).waiting = {k}
    BY <1>1, <1>2, <1>3, Position
  <2> QED
    BY <1>3, <2>1, FS_Singleton
<1>4. CASE i \notin ToSet(paths)
  <2>1. Places(i).waiting = {}
    BY <1>1, <1>2, <1>4, Position
  <2> QED
    BY <1>4, <2>1, FS_EmptySet
<1> QED
  BY <1>3, <1>4

LEMMA CountInBatch ==
  ASSUME DaemonInv, told \in Nat, NEW i \in 1 .. told
  PROVE  Cardinality(Places(i).inBatch)
           = IF \E f \in Flushers : i \in Held(f) THEN 1 ELSE 0
<1> DEFINE HeldList(f) == batch[f].todo \o batch[f].read
<1>1. Places(i).inBatch = {p \in Flushers \X (1 .. told) :
                             p[2] <= Len(HeldList(p[1])) /\ HeldList(p[1])[p[2]] = i}
  BY DEF Places
<1>2. \A f \in Flushers : Listed(HeldList(f), told) /\ ToSet(HeldList(f)) = Held(f)
  BY HeldIsListed
<1> HIDE DEF HeldList
<1>3. \A f \in Flushers, k \in 1 .. told :
        k <= Len(HeldList(f)) => k \in DOMAIN HeldList(f)
  BY <1>2 DEF Listed
<1>4. \A f \in Flushers, k \in 1 .. told :
        k <= Len(HeldList(f)) /\ HeldList(f)[k] = i => i \in Held(f)
  BY <1>2, <1>3 DEF ToSet
<1>5. CASE \E f \in Flushers : i \in Held(f)
  <2>1. PICK f \in Flushers : i \in Held(f)
    BY <1>5
  <2>2. \A g \in Flushers : i \in Held(g) => g = f
    BY <2>1 DEF DaemonInv, Apart
  <2>3. PICK k \in 1 .. told : /\ k <= Len(HeldList(f))
                               /\ {j \in DOMAIN HeldList(f) : HeldList(f)[j] = i} = {k}
    BY <1>2, <2>1, Position
  <2>4. Places(i).inBatch = {<<f, k>>}
    <3>1. ASSUME NEW p \in Places(i).inBatch PROVE p = <<f, k>>
      BY <1>1, <1>3, <1>4, <2>2, <2>3, <3>1
    <3>2. <<f, k>> \in Places(i).inBatch
      BY <1>1, <2>3
    <3> QED
      BY <3>1, <3>2
  <2> QED
    BY <1>5, <2>4, FS_Singleton
<1>6. CASE ~\E f \in Flushers : i \in Held(f)
  <2>1. Places(i).inBatch = {}
    BY <1>1, <1>4, <1>6
  <2> QED
    BY <1>6, <2>1, FS_EmptySet
<1> QED
  BY <1>5, <1>6

LEMMA CountPublished ==
  ASSUME DaemonInv, told \in Nat, NEW i \in 1 .. told
  PROVE  Cardinality(Places(i).published)
           = IF \E s \in DOMAIN sightings : i \in Named(s) THEN 1 ELSE 0
<1>1. Places(i).published = {p \in (DOMAIN sightings) \X (1 .. told) :
                               /\ p[2] <= Len(sightings[p[1]].of)
                               /\ sightings[p[1]].of[p[2]] = i}
  BY DEF Places
<1>2. \A s \in DOMAIN sightings : Listed(sightings[s].of, told)
  BY DEF DaemonInv, Lists
<1>3. \A s \in DOMAIN sightings, k \in 1 .. told :
        k <= Len(sightings[s].of) => k \in DOMAIN sightings[s].of
  BY <1>2 DEF Listed
<1>4. \A s \in DOMAIN sightings, k \in 1 .. told :
        k <= Len(sightings[s].of) /\ sightings[s].of[k] = i => i \in Named(s)
  BY <1>3 DEF ToSet, Named
<1>5. CASE \E s \in DOMAIN sightings : i \in Named(s)
  <2>1. PICK s \in DOMAIN sightings : i \in Named(s)
    BY <1>5
  <2>2. \A r \in DOMAIN sightings : i \in Named(r) => r = s
    BY <2>1 DEF DaemonInv, Apart
  <2>3. PICK k \in 1 .. told : /\ k <= Len(sightings[s].of)
                               /\ {j \in DOMAIN sightings[s].of : sightings[s].of[j] = i} = {k}
    BY <1>2, <2>1, Position DEF Named
  <2>4. Places(i).published = {<<s, k>>}
    <3>1. ASSUME NEW p \in Places(i).published PROVE p = <<s, k>>
      BY <1>1, <1>3, <1>4, <2>2, <2>3, <3>1
    <3>2. <<s, k>> \in Places(i).published
      BY <1>1, <2>3
    <3> QED
      BY <3>1, <3>2
  <2> QED
    BY <1>5, <2>4, FS_Singleton
<1>6. CASE ~\E s \in DOMAIN sightings : i \in Named(s)
  <2>1. Places(i).published = {}
    BY <1>1, <1>4, <1>6
  <2> QED
    BY <1>6, <2>1, FS_EmptySet
<1> QED
  BY <1>5, <1>6

LEMMA OnePlaceEach == IndInv /\ DaemonInv => CapturesAccounted
<1> SUFFICES ASSUME IndInv, DaemonInv PROVE CapturesAccounted
  OBVIOUS
<1>1. told \in Nat
  BY DEF DaemonInv, Lists, IndInv, TypeOK
<1>2. ChainTypeOK
  BY DEF Tried, IndInv, DaemonInv, Lists, Stamps, Deleted, Named, Listed, ChainTypeOK
<1>3. ASSUME NEW i \in 1 .. told
      PROVE  /\ Cardinality(Places(i).waiting) + Cardinality(Places(i).inBatch)
                  + Cardinality(Places(i).published) + Cardinality(Places(i).abandoned)
                  + Cardinality(Places(i).skipped) = 1
             /\ i \in Tried <=>
                  ~(\/ Places(i).waiting # {}
                    \/ \E f \in Flushers : i \in ToSet(batch[f].todo))
                  /\ i \notin skipped
  <2>1. /\ Cardinality(Places(i).abandoned) = IF i \in abandoned THEN 1 ELSE 0
        /\ Cardinality(Places(i).skipped) = IF i \in skipped THEN 1 ELSE 0
    <3>1. \A S : {i} \cap S = IF i \in S THEN {i} ELSE {}
      OBVIOUS
    <3> QED
      BY <3>1, FS_EmptySet, FS_Singleton DEF Places
  <2>2. \/ i \in ToSet(paths) \/ i \in abandoned \/ i \in skipped
        \/ \E f \in Flushers : i \in Held(f)
        \/ \E s \in DOMAIN sightings : i \in Named(s)
    BY DEF DaemonInv, Placed
  <2>3. /\ \A f \in Flushers : i \in Held(f) =>
             i \notin ToSet(paths) /\ i \notin abandoned /\ i \notin skipped
        /\ \A s \in DOMAIN sightings : i \in Named(s) =>
             /\ i \notin ToSet(paths) /\ i \notin abandoned /\ i \notin skipped
             /\ \A f \in Flushers : i \notin Held(f)
        /\ i \in ToSet(paths) => i \notin abandoned /\ i \notin skipped
        /\ ~(i \in abandoned /\ i \in skipped)
    BY DEF DaemonInv, Apart
  <2>4. Cardinality(Places(i).waiting) + Cardinality(Places(i).inBatch)
          + Cardinality(Places(i).published) + Cardinality(Places(i).abandoned)
          + Cardinality(Places(i).skipped) = 1
    <3>1. /\ Cardinality(Places(i).waiting) = IF i \in ToSet(paths) THEN 1 ELSE 0
          /\ Cardinality(Places(i).inBatch)
               = IF \E f \in Flushers : i \in Held(f) THEN 1 ELSE 0
          /\ Cardinality(Places(i).published)
               = IF \E s \in DOMAIN sightings : i \in Named(s) THEN 1 ELSE 0
      BY <1>1, CountWaiting, CountInBatch, CountPublished
    <3> DEFINE w == Cardinality(Places(i).waiting)
               b == Cardinality(Places(i).inBatch)
               p == Cardinality(Places(i).published)
               a == Cardinality(Places(i).abandoned)
               s == Cardinality(Places(i).skipped)
    <3>2. CASE \E f \in Flushers : i \in Held(f)
      <4>1. w = 0 /\ b = 1 /\ p = 0 /\ a = 0 /\ s = 0
        BY <2>1, <2>3, <3>1, <3>2
      <4> HIDE DEF w, b, p, a, s
      <4>2. w + b + p + a + s = 1
        BY <4>1
      <4> QED
        BY <4>2 DEF w, b, p, a, s
    <3>3. CASE \E r \in DOMAIN sightings : i \in Named(r)
      <4>1. w = 0 /\ b = 0 /\ p = 1 /\ a = 0 /\ s = 0
        BY <2>1, <2>3, <3>1, <3>3
      <4> HIDE DEF w, b, p, a, s
      <4>2. w + b + p + a + s = 1
        BY <4>1
      <4> QED
        BY <4>2 DEF w, b, p, a, s
    <3>4. CASE /\ ~\E f \in Flushers : i \in Held(f)
               /\ ~\E r \in DOMAIN sightings : i \in Named(r)
      <4>1. b = 0 /\ p = 0
        BY <3>1, <3>4
      <4>2. \/ w = 1 /\ a = 0 /\ s = 0
            \/ w = 0 /\ a = 1 /\ s = 0
            \/ w = 0 /\ a = 0 /\ s = 1
        BY <2>1, <2>2, <2>3, <3>1, <3>4
      <4> HIDE DEF w, b, p, a, s
      <4>3. w + b + p + a + s = 1
        BY <4>1, <4>2
      <4> QED
        BY <4>3 DEF w, b, p, a, s
    <3> QED
      BY <3>2, <3>3, <3>4
  <2>5. i \in Tried <=>
          ~(\/ Places(i).waiting # {}
            \/ \E f \in Flushers : i \in ToSet(batch[f].todo))
          /\ i \notin skipped
    <3>1. Places(i).waiting # {} <=> i \in ToSet(paths)
      BY DEF Places, ToSet
    <3>2. CASE i \in Tried
      BY <3>1, <3>2 DEF DaemonInv, Deleted
    <3>3. CASE /\ i \notin ToSet(paths) /\ i \notin skipped
               /\ \A f \in Flushers : i \notin ToSet(batch[f].todo)
      BY <2>2, <3>1, <3>3 DEF DaemonInv, Deleted, Held
    <3> QED
      BY <3>1, <3>2, <3>3
  <2> QED
    BY <2>4, <2>5
<1>4. \A i \in 1 .. told : ~(i \in unlinked /\ i \in stuck)
  BY DEF DaemonInv, Deleted
<1> QED
  BY <1>2, <1>3, <1>4 DEF CapturesAccounted, Tried

\* Every capture the daemon was told of waits, is with one callback, is in one sighting
\* and there once, or was given up, and its file is deleted when it is read and not
\* before, but for files that cannot be deleted and captures forgotten with their
\* window: over callbacks that overlap, windows without telemetry, captures switched
\* off, files that cannot be read and uploads that fail.
THEOREM EveryCaptureAccounted == ChainSpec => []CapturesAccounted
<1>1. ChainInit => IndInv /\ DaemonInv
  BY AdapterAlone, Initially, DaemonBegins
<1>2. IndInv /\ DaemonInv /\ [ChainNext]_chainVars => (IndInv /\ DaemonInv)'
  BY AdapterAlone, Inductive, ChainKeeps
<1> QED
  BY <1>1, <1>2, OnePlaceEach, PTL DEF ChainSpec

-----------------------------------------------------------------------------
(* Recursive functions.                                                    *)

\* Induction over the naturals, with a set for the predicate: a set of naturals without
\* S would have a least element.
LEMMA Induct ==
  ASSUME NEW S, 0 \in S, \A n \in Nat : n \in S => n + 1 \in S
  PROVE  \A n \in Nat : n \in S
<1> DEFINE T == Nat \ S
           R == OpToRel(<, Nat)
<1> SUFFICES ASSUME T # {} PROVE FALSE
  OBVIOUS
<1>1. \A x, y \in Nat : x < y => <<x, y>> \in R
  BY DEF OpToRel
<1>2. IsWellFoundedOn(R, Nat)
  BY NatLessThanWellFounded
<1> HIDE DEF R
<1>3. PICK x \in T : \A y \in T : ~ (<<y, x>> \in R)
  BY <1>2, WFMin
<1>4. x # 0 /\ x - 1 \in Nat /\ x - 1 < x /\ (x - 1) + 1 = x
  OBVIOUS
<1>5. x - 1 \in S
  BY <1>1, <1>3, <1>4
<1> QED
  BY <1>4, <1>5

\* The cells of a buffer.
MetadataCell == [cell : {"metadata"}, from : Nat, to : Nat, frameCount : Nat]
Cell ==
  {Magic} \cup [cell : {"number", "zstd"}, n : Nat]
    \cup [cell : {"escape", "kind", "data"}, at : Nat] \cup MetadataCell

LEMMA Cells ==
  /\ Magic \in Cell /\ MetadataCell \subseteq Cell
  /\ \A n \in Nat : Number(n) \in Cell /\ [cell |-> "zstd", n |-> n] \in Cell
  /\ \A at \in Nat : Escape(at) \in Cell /\ Kind(at) \in Cell
  /\ \A c \in Cell : Value(c) \in Nat
  /\ \A n \in Nat : Value(Number(n)) = n
  /\ \A c \in MetadataCell : Value(c) = 0
BY DEF Cell, MetadataCell, Magic, Number, Escape, Kind, Value

LEMMA CellValues == \A b \in Seq(Cell) : \A i \in 1 .. Len(b) : Value(b[i]) \in Nat
<1> SUFFICES ASSUME NEW b \in Seq(Cell), NEW i \in 1 .. Len(b) PROVE Value(b[i]) \in Nat
  OBVIOUS
<1>1. b[i] \in Cell
  BY ElementOfSeq
<1> QED
  BY <1>1, Cells

\* The functions that countBeastFrames, splitAtrxBlobs and FlattenSeq are defined by.
CountFrom(p, count, i) ==
  IF i > Len(p) THEN 0
  ELSE IF p[i].cell # "escape" THEN count[i + 1]
  ELSE count[i + 2]
         + IF i < Len(p) /\ p[i + 1].cell = "kind" THEN 1 ELSE 0

SplitFrom(b, split, offset) ==
  IF offset >= Len(b) THEN [ok |-> TRUE, sections |-> << >>]
  ELSE IF Len(b) < offset + HeaderSize + 1 \/ b[offset + 1] # Magic THEN Truncated
  ELSE IF Value(b[offset + 2]) = LegacyVersion
       THEN [ok |-> TRUE, sections |-> <<SubSeq(b, offset + 1, Len(b))>>]
  ELSE IF \/ Value(b[offset + 2]) # Version
          \/ Len(b) <= MetadataEnd(b, offset)
          \/ Len(b) < SectionEnd(b, offset)
       THEN Truncated
  ELSE LET end  == SectionEnd(b, offset)
           rest == split[end]
       IN  [ok |-> rest.ok,
            sections |-> <<SubSeq(b, offset + 1, end)>> \o rest.sections]

FlattenTo(s, flatten, i) == IF i = 1 THEN s[i] ELSE flatten[i - 1] \o s[i]

Counts(p, count) ==
  DOMAIN count = Nat /\ \A i \in Nat : count[i] = CountFrom(p, count, i)
Splits(b, split) ==
  DOMAIN split = Nat /\ \A i \in Nat : split[i] = SplitFrom(b, split, i)
Flattens(s, flatten) ==
  /\ DOMAIN flatten = 1 .. Len(s)
  /\ \A i \in 1 .. Len(s) : flatten[i] = FlattenTo(s, flatten, i)

\* The functions exist: each calls itself only further on in the buffer, so what it must
\* be can be built from the end.
LEMMA CountDefined ==
  ASSUME NEW p, Len(p) \in Nat
  PROVE  \E count : Counts(p, count) /\ countBeastFrames(p) = count[1]
<1> DEFINE From(c, n) ==
             /\ c = [i \in Nat |-> c[i]]
             /\ \A i \in Nat : i + n > Len(p) => c[i] = CountFrom(p, c, i)
           S == {n \in Nat : \E c : From(c, n)}
<1>1. 0 \in S
  <2> DEFINE c == [i \in Nat |-> 0]
  <2>1. \A i \in Nat : i + 0 > Len(p) => c[i] = CountFrom(p, c, i)
    BY DEF CountFrom
  <2> QED
    BY <2>1
<1>2. ASSUME NEW n \in Nat, n \in S PROVE n + 1 \in S
  <2>1. PICK c : From(c, n)
    BY <1>2
  <2> DEFINE d == [i \in Nat |-> CountFrom(p, c, i)]
  <2>2. \A i \in Nat : i + n > Len(p) => d[i] = c[i]
    BY <2>1
  <2>3. d = [i \in Nat |-> d[i]] /\ \A i \in Nat : d[i] = CountFrom(p, c, i)
    OBVIOUS
  <2> HIDE DEF d
  <2>4. From(d, n + 1)
    <3> SUFFICES ASSUME NEW i \in Nat, i + (n + 1) > Len(p)
                 PROVE  CountFrom(p, c, i) = CountFrom(p, d, i)
      BY <2>3
    <3>1. d[i + 1] = c[i + 1] /\ d[i + 2] = c[i + 2]
      BY <2>2
    <3> QED
      BY <3>1 DEF CountFrom
  <2> QED
    BY <2>4
<1>3. Len(p) + 1 \in S
  <2> HIDE DEF S
  <2> QED
    BY <1>1, <1>2, Induct
<1>4. PICK c : From(c, Len(p) + 1)
  BY <1>3
<1>5. \A i \in Nat : c[i] = CountFrom(p, c, i)
  BY <1>4
<1>6. c = [i \in Nat |-> CountFrom(p, c, i)]
  BY <1>4, <1>5
<1> DEFINE count[i \in Nat] ==
             IF i > Len(p) THEN 0
             ELSE IF p[i].cell # "escape" THEN count[i + 1]
             ELSE count[i + 2]
                    + IF i < Len(p) /\ p[i + 1].cell = "kind" THEN 1 ELSE 0
<1>7. countBeastFrames(p) = count[1]
  BY DEF countBeastFrames
<1>8. count = [i \in Nat |-> CountFrom(p, count, i)]
  BY <1>6 DEF CountFrom
<1> HIDE DEF count
<1> QED
  BY <1>7, <1>8 DEF Counts

LEMMA CountNatural ==
  ASSUME NEW p, Len(p) \in Nat, NEW count, Counts(p, count)
  PROVE  \A i \in Nat : count[i] \in Nat
<1> DEFINE S == {n \in Nat : \A i \in Nat : i + n > Len(p) => count[i] \in Nat}
<1>1. 0 \in S
  <2>1. \A i \in Nat : i + 0 > Len(p) => count[i] = 0
    BY DEF Counts, CountFrom
  <2> QED
    BY <2>1
<1>2. ASSUME NEW n \in Nat, n \in S PROVE n + 1 \in S
  <2> SUFFICES ASSUME NEW i \in Nat, i + (n + 1) > Len(p) PROVE count[i] \in Nat
    OBVIOUS
  <2>1. count[i + 1] \in Nat /\ count[i + 2] \in Nat
    BY <1>2
  <2>2. CountFrom(p, count, i) \in Nat
    BY <2>1 DEF CountFrom
  <2> QED
    BY <2>2 DEF Counts
<1>3. Len(p) + 1 \in S
  <2> HIDE DEF S
  <2> QED
    BY <1>1, <1>2, Induct
<1> QED
  BY <1>3

\* A section ends behind its beginning.
LEMMA SectionAhead ==
  ASSUME NEW b \in Seq(Cell), NEW offset \in Nat, Len(b) >= offset + HeaderSize + 1,
         Len(b) > MetadataEnd(b, offset)
  PROVE  /\ MetadataEnd(b, offset) \in Nat /\ SectionEnd(b, offset) \in Nat
         /\ SectionEnd(b, offset) > offset
<1>1. Len(b) \in Nat /\ \A i \in 1 .. Len(b) : Value(b[i]) \in Nat
  BY CellValues
<1>2. Value(b[offset + HeaderSize + 1]) \in Nat
  BY <1>1 DEF HeaderSize
<1>3. MetadataEnd(b, offset) \in Nat /\ MetadataEnd(b, offset) > offset
  BY <1>2 DEF MetadataEnd, HeaderSize
<1>4. Value(b[MetadataEnd(b, offset) + 1]) \in Nat
  BY <1>1, <1>3
<1> QED
  BY <1>3, <1>4 DEF SectionEnd

LEMMA SplitDefined ==
  ASSUME NEW b \in Seq(Cell)
  PROVE  \E split : Splits(b, split) /\ splitAtrxBlobs(b) = split[0]
<1> DEFINE From(c, n) ==
             /\ c = [i \in Nat |-> c[i]]
             /\ \A i \in Nat : i + n >= Len(b) => c[i] = SplitFrom(b, c, i)
           S == {n \in Nat : \E c : From(c, n)}
<1>0. Len(b) \in Nat
  OBVIOUS
<1>1. 0 \in S
  <2> DEFINE c == [i \in Nat |-> [ok |-> TRUE, sections |-> << >>]]
  <2>1. \A i \in Nat : i + 0 >= Len(b) => c[i] = SplitFrom(b, c, i)
    BY <1>0 DEF SplitFrom
  <2> QED
    BY <2>1
<1>2. ASSUME NEW n \in Nat, n \in S PROVE n + 1 \in S
  <2>1. PICK c : From(c, n)
    BY <1>2
  <2> DEFINE d == [i \in Nat |-> SplitFrom(b, c, i)]
  <2>2. \A i \in Nat : i + n >= Len(b) => d[i] = c[i]
    BY <2>1
  <2>3. d = [i \in Nat |-> d[i]] /\ \A i \in Nat : d[i] = SplitFrom(b, c, i)
    OBVIOUS
  <2> HIDE DEF d
  <2>4. From(d, n + 1)
    <3> SUFFICES ASSUME NEW i \in Nat, i + (n + 1) >= Len(b)
                 PROVE  SplitFrom(b, c, i) = SplitFrom(b, d, i)
      BY <2>3
    <3>1. CASE Len(b) >= i + HeaderSize + 1 /\ Len(b) > MetadataEnd(b, i)
      <4>1. SectionEnd(b, i) \in Nat /\ SectionEnd(b, i) + n >= Len(b)
        BY <1>0, <3>1, SectionAhead
      <4>2. d[SectionEnd(b, i)] = c[SectionEnd(b, i)]
        BY <2>2, <4>1
      <4> QED
        BY <4>2 DEF SplitFrom
    <3>2. CASE ~(Len(b) >= i + HeaderSize + 1)
      BY <1>0, <3>2 DEF SplitFrom, HeaderSize
    <3>3. CASE Len(b) >= i + HeaderSize + 1 /\ ~(Len(b) > MetadataEnd(b, i))
      <4>1. MetadataEnd(b, i) \in Nat
        <5>1. Value(b[i + HeaderSize + 1]) \in Nat
          BY <1>0, <3>3, CellValues DEF HeaderSize
        <5> QED
          BY <5>1 DEF MetadataEnd, HeaderSize
      <4>2. Len(b) <= MetadataEnd(b, i)
        BY <1>0, <3>3, <4>1
      <4> QED
        BY <4>2 DEF SplitFrom
    <3> QED
      BY <3>1, <3>2, <3>3
  <2> QED
    BY <2>4
<1>3. Len(b) \in S
  <2> HIDE DEF S
  <2> QED
    BY <1>0, <1>1, <1>2, Induct
<1>4. PICK c : From(c, Len(b))
  BY <1>3
<1>5. \A i \in Nat : c[i] = SplitFrom(b, c, i)
  BY <1>0, <1>4
<1>6. c = [i \in Nat |-> SplitFrom(b, c, i)]
  BY <1>4, <1>5
<1> DEFINE split[offset \in Nat] ==
             IF offset >= Len(b) THEN [ok |-> TRUE, sections |-> << >>]
             ELSE IF Len(b) < offset + HeaderSize + 1 \/ b[offset + 1] # Magic
                  THEN Truncated
             ELSE IF Value(b[offset + 2]) = LegacyVersion
                  THEN [ok |-> TRUE, sections |-> <<SubSeq(b, offset + 1, Len(b))>>]
             ELSE IF \/ Value(b[offset + 2]) # Version
                     \/ Len(b) <= MetadataEnd(b, offset)
                     \/ Len(b) < SectionEnd(b, offset)
                  THEN Truncated
             ELSE LET end  == SectionEnd(b, offset)
                      rest == split[end]
                  IN  [ok |-> rest.ok,
                       sections |-> <<SubSeq(b, offset + 1, end)>> \o rest.sections]
<1>7. splitAtrxBlobs(b) = split[0]
  BY DEF splitAtrxBlobs
<1>8. split = [i \in Nat |-> SplitFrom(b, split, i)]
  BY <1>6 DEF SplitFrom
<1> HIDE DEF split
<1> QED
  BY <1>7, <1>8 DEF Splits

-----------------------------------------------------------------------------
(* Sequences laid end to end.                                              *)

LEMMA FlattenDefined ==
  ASSUME NEW s, Len(s) \in Nat \ {0}
  PROVE  \E flatten : Flattens(s, flatten) /\ FlattenSeq(s) = flatten[Len(s)]
<1> DEFINE From(c, n) ==
             /\ c = [i \in 1 .. Len(s) |-> c[i]]
             /\ \A i \in 1 .. Len(s) : i <= n => c[i] = FlattenTo(s, c, i)
           S == {n \in Nat : \E c : From(c, n)}
<1>1. 0 \in S
  <2> DEFINE c == [i \in 1 .. Len(s) |-> s]
  <2>1. c = [i \in 1 .. Len(s) |-> c[i]]
    OBVIOUS
  <2>2. \A i \in 1 .. Len(s) : ~(i <= 0)
    OBVIOUS
  <2> HIDE DEF c
  <2> QED
    BY <2>1, <2>2
<1>2. ASSUME NEW n \in Nat, n \in S PROVE n + 1 \in S
  <2>1. PICK c : From(c, n)
    BY <1>2
  <2> DEFINE d == [i \in 1 .. Len(s) |-> FlattenTo(s, c, i)]
  <2>2. \A i \in 1 .. Len(s) : i <= n => d[i] = c[i]
    BY <2>1
  <2>3. d = [i \in 1 .. Len(s) |-> d[i]] /\ \A i \in 1 .. Len(s) : d[i] = FlattenTo(s, c, i)
    OBVIOUS
  <2> HIDE DEF d
  <2>4. From(d, n + 1)
    <3> SUFFICES ASSUME NEW i \in 1 .. Len(s), i <= n + 1
                 PROVE  FlattenTo(s, c, i) = FlattenTo(s, d, i)
      BY <2>3
    <3>1. i # 1 => i - 1 \in 1 .. Len(s) /\ i - 1 <= n
      OBVIOUS
    <3>2. i # 1 => d[i - 1] = c[i - 1]
      BY <2>2, <3>1
    <3> QED
      BY <3>2 DEF FlattenTo
  <2> QED
    BY <2>4
<1>3. Len(s) \in S
  <2> HIDE DEF S
  <2> QED
    BY <1>1, <1>2, Induct
<1>4. PICK c : From(c, Len(s))
  BY <1>3
<1>5. c = [i \in 1 .. Len(s) |-> FlattenTo(s, c, i)]
  BY <1>4
<1> DEFINE flatten[i \in 1 .. Len(s)] == IF i = 1 THEN s[i] ELSE flatten[i - 1] \o s[i]
<1>6. FlattenSeq(s) = flatten[Len(s)]
  BY DEF FlattenSeq
<1>7. flatten = [i \in 1 .. Len(s) |-> FlattenTo(s, flatten, i)]
  BY <1>5 DEF FlattenTo
<1> HIDE DEF flatten
<1> QED
  BY <1>6, <1>7 DEF Flattens

LEMMA FlattenAgrees ==
  ASSUME NEW s, NEW t, Len(s) \in Nat, Len(t) \in Nat, NEW f, NEW g,
         Flattens(s, f), Flattens(t, g), NEW k \in Nat, k <= Len(s), k <= Len(t),
         \A i \in 1 .. k : s[i] = t[i]
  PROVE  \A i \in 1 .. k : f[i] = g[i]
<1> DEFINE S == {n \in Nat : \A i \in 1 .. k : i <= n => f[i] = g[i]}
<1>1. 0 \in S
  OBVIOUS
<1>2. ASSUME NEW n \in Nat, n \in S PROVE n + 1 \in S
  <2> SUFFICES ASSUME NEW i \in 1 .. k, i <= n + 1 PROVE f[i] = g[i]
    OBVIOUS
  <2>1. f[i] = FlattenTo(s, f, i) /\ g[i] = FlattenTo(t, g, i)
    BY DEF Flattens
  <2>2. i # 1 => i - 1 \in 1 .. k /\ i - 1 <= n
    OBVIOUS
  <2>3. i # 1 => f[i - 1] = g[i - 1]
    BY <1>2, <2>2
  <2>4. s[i] = t[i]
    OBVIOUS
  <2> QED
    BY <2>1, <2>3, <2>4 DEF FlattenTo
<1>3. k \in S
  <2> HIDE DEF S
  <2> QED
    BY <1>1, <1>2, Induct
<1> QED
  BY <1>3

\* The first k sequences of s laid end to end.
Joined(s, k) == FlattenSeq(SubSeq(s, 1, k))

LEMMA JoinOne ==
  ASSUME NEW C, NEW s \in Seq(Seq(C))
  PROVE  /\ Joined(s, 0) = << >>
         /\ Joined(s, Len(s)) = FlattenSeq(s)
         /\ \A k \in 1 .. Len(s) : Joined(s, k) = Joined(s, k - 1) \o s[k]
<1>1. Len(s) \in Nat
  OBVIOUS
<1>2. \A k \in 1 .. Len(s) :
        /\ SubSeq(s, 1, k) \in Seq(Seq(C)) /\ Len(SubSeq(s, 1, k)) = k
        /\ \A i \in 1 .. k : SubSeq(s, 1, k)[i] = s[i]
  <2> SUFFICES ASSUME NEW k \in 1 .. Len(s)
               PROVE  /\ SubSeq(s, 1, k) \in Seq(Seq(C)) /\ Len(SubSeq(s, 1, k)) = k
                      /\ \A i \in 1 .. k : SubSeq(s, 1, k)[i] = s[i]
    OBVIOUS
  <2>1. \A i \in 1 .. k : s[i] \in Seq(C)
    BY <1>1, ElementOfSeq
  <2> QED
    BY <2>1, SubSeqProperties
<1>3. Joined(s, 0) = << >>
  <2>1. SubSeq(s, 1, 0) = << >>
    BY SubSeqEmpty
  <2> QED
    BY <2>1 DEF Joined, FlattenSeq
<1>4. Joined(s, Len(s)) = FlattenSeq(s)
  BY SubSeqFull DEF Joined
<1>5. ASSUME NEW f, Flattens(s, f)
      PROVE  \A k \in 1 .. Len(s) : Joined(s, k) = f[k]
  <2> SUFFICES ASSUME NEW k \in 1 .. Len(s) PROVE Joined(s, k) = f[k]
    OBVIOUS
  <2> DEFINE t == SubSeq(s, 1, k)
  <2>1. Len(t) = k /\ \A i \in 1 .. k : t[i] = s[i]
    BY <1>2
  <2> HIDE DEF t
  <2>2. PICK g : Flattens(t, g) /\ FlattenSeq(t) = g[k]
    BY <1>1, <2>1, FlattenDefined
  <2>3. \A i \in 1 .. k : f[i] = g[i]
    <3>1. /\ Len(s) \in Nat /\ Len(t) \in Nat /\ k \in Nat /\ k <= Len(s) /\ k <= Len(t)
          /\ \A i \in 1 .. k : s[i] = t[i]
      BY <1>1, <2>1
    <3> QED
      BY <1>5, <2>2, <3>1, FlattenAgrees
  <2> QED
    BY <2>2, <2>3 DEF Joined, t
<1>6. ASSUME NEW k \in 1 .. Len(s) PROVE Joined(s, k) = Joined(s, k - 1) \o s[k]
  <2>1. PICK f : Flattens(s, f)
    BY <1>1, FlattenDefined
  <2>2. f[k] = IF k = 1 THEN s[k] ELSE f[k - 1] \o s[k]
    BY <2>1 DEF Flattens, FlattenTo
  <2>3. Joined(s, k) = f[k]
    BY <1>5, <2>1
  <2>4. CASE k = 1
    <3>1. s[1] \in Seq(C)
      BY <2>4, ElementOfSeq
    <3> QED
      BY <1>3, <2>2, <2>3, <2>4, <3>1, ConcatEmptySeq
  <2>5. CASE k # 1
    <3>1. k - 1 \in 1 .. Len(s)
      BY <1>1, <2>5
    <3>2. Joined(s, k - 1) = f[k - 1]
      BY <1>5, <2>1, <3>1
    <3> QED
      BY <2>2, <2>3, <2>5, <3>2
  <2> QED
    BY <2>4, <2>5
<1> QED
  BY <1>3, <1>4, <1>6

\* Where the sequences are: the k-th is behind the first k - 1, and what is laid behind
\* them moves nothing.
Offset(s, k) == Len(Joined(s, k))

LEMMA OffsetsAdd ==
  ASSUME NEW C, NEW s \in Seq(Seq(C))
  PROVE  /\ Offset(s, 0) = 0
         /\ \A k \in 0 .. Len(s) : Joined(s, k) \in Seq(C) /\ Offset(s, k) \in Nat
         /\ \A k \in 1 .. Len(s) : Offset(s, k) = Offset(s, k - 1) + Len(s[k])
<1>1. /\ Joined(s, 0) = << >> /\ Len(s) \in Nat
      /\ \A k \in 1 .. Len(s) : Joined(s, k) = Joined(s, k - 1) \o s[k]
  <2>1. Len(s) \in Nat
    OBVIOUS
  <2> QED
    BY <2>1, JoinOne
<1>2. \A k \in 1 .. Len(s) : s[k] \in Seq(C)
  BY ElementOfSeq
<1> DEFINE S == {n \in Nat : n <= Len(s) => Joined(s, n) \in Seq(C)}
<1>3. 0 \in S
  <2>1. << >> \in Seq(C)
    BY EmptySeq
  <2> QED
    BY <1>1, <2>1
<1>4. ASSUME NEW n \in Nat, n \in S PROVE n + 1 \in S
  <2> SUFFICES ASSUME n + 1 <= Len(s) PROVE Joined(s, n + 1) \in Seq(C)
    OBVIOUS
  <2>1. n + 1 \in 1 .. Len(s) /\ (n + 1) - 1 = n
    BY <1>1
  <2>2. Joined(s, n) \in Seq(C)
    BY <1>1, <1>4
  <2>3. Joined(s, n + 1) = Joined(s, n) \o s[n + 1] /\ s[n + 1] \in Seq(C)
    BY <1>1, <1>2, <2>1
  <2> QED
    BY <2>2, <2>3, ConcatProperties
<1>5. \A n \in Nat : n \in S
  <2> HIDE DEF S
  <2> QED
    BY <1>3, <1>4, Induct
<1>6. \A k \in 0 .. Len(s) : Joined(s, k) \in Seq(C) /\ Offset(s, k) \in Nat
  BY <1>1, <1>5, LenProperties DEF Offset
<1>7. ASSUME NEW k \in 1 .. Len(s) PROVE Offset(s, k) = Offset(s, k - 1) + Len(s[k])
  <2>1. k - 1 \in 0 .. Len(s)
    BY <1>1
  <2>2. Joined(s, k) = Joined(s, k - 1) \o s[k] /\ s[k] \in Seq(C)
        /\ Joined(s, k - 1) \in Seq(C)
    BY <1>1, <1>2, <1>6, <2>1
  <2> QED
    BY <2>2, ConcatProperties DEF Offset
<1>8. Offset(s, 0) = 0
  BY <1>1 DEF Offset
<1> QED
  BY <1>6, <1>7, <1>8

LEMMA JoinedCells ==
  ASSUME NEW C, NEW s \in Seq(Seq(C)), NEW m \in 1 .. Len(s)
  PROVE  /\ \A i \in 1 .. Offset(s, m - 1) : Joined(s, m)[i] = Joined(s, m - 1)[i]
         /\ \A j \in 1 .. Len(s[m]) : Joined(s, m)[Offset(s, m - 1) + j] = s[m][j]
<1> PICK old : old = Joined(s, m - 1)
  OBVIOUS
<1> PICK new : new = s[m]
  OBVIOUS
<1>1. m - 1 \in 0 .. Len(s) /\ Len(s) \in Nat
  OBVIOUS
<1>2. old \in Seq(C) /\ new \in Seq(C) /\ Joined(s, m) = old \o new
  BY <1>1, OffsetsAdd, JoinOne, ElementOfSeq
<1>3. Len(old) \in Nat /\ Len(new) \in Nat
  BY <1>2
<1>4. \A i \in 1 .. Len(old) + Len(new) :
        Joined(s, m)[i] = IF i <= Len(old) THEN old[i] ELSE new[i - Len(old)]
  BY <1>2, ConcatProperties
<1>5. \A i \in 1 .. Len(old) : Joined(s, m)[i] = old[i]
  <2>1. \A a, b \in Nat : \A i \in 1 .. a : i \in 1 .. a + b /\ i <= a
    OBVIOUS
  <2> QED
    BY <1>3, <1>4, <2>1
<1>6. \A j \in 1 .. Len(new) : Joined(s, m)[Len(old) + j] = new[j]
  <2> SUFFICES ASSUME NEW j \in 1 .. Len(new) PROVE Joined(s, m)[Len(old) + j] = new[j]
    OBVIOUS
  <2>1. /\ Len(old) + j \in 1 .. Len(old) + Len(new) /\ ~(Len(old) + j <= Len(old))
        /\ (Len(old) + j) - Len(old) = j
    BY <1>3
  <2> QED
    BY <1>4, <2>1
<1> QED
  BY <1>5, <1>6 DEF Offset

LEMMA Placement ==
  ASSUME NEW C, NEW s \in Seq(Seq(C)), NEW n \in 0 .. Len(s), NEW k \in 1 .. n
  PROVE  /\ Offset(s, k) <= Offset(s, n)
         /\ \A j \in 1 .. Len(s[k]) : Joined(s, n)[Offset(s, k - 1) + j] = s[k][j]
<1>1. Len(s) \in Nat /\ k \in 1 .. Len(s) /\ k - 1 \in 0 .. Len(s)
  OBVIOUS
<1>2. \A m \in 0 .. Len(s) : Offset(s, m) \in Nat
  BY OffsetsAdd
<1>3. \A m \in 1 .. Len(s) : Len(s[m]) \in Nat /\ Offset(s, m) = Offset(s, m - 1) + Len(s[m])
  <2>1. \A m \in 1 .. Len(s) : s[m] \in Seq(C)
    BY ElementOfSeq
  <2> QED
    BY <2>1, OffsetsAdd, LenProperties
<1> DEFINE Stays(m) ==
             /\ Offset(s, k) <= Offset(s, m)
             /\ \A j \in 1 .. Len(s[k]) : Joined(s, m)[Offset(s, k - 1) + j] = s[k][j]
           S == {d \in Nat : k + d <= Len(s) => Stays(k + d)}
<1>4. 0 \in S
  <2>1. \A j \in 1 .. Len(s[k]) : Joined(s, k)[Offset(s, k - 1) + j] = s[k][j]
    BY <1>1, JoinedCells
  <2>2. Offset(s, k) <= Offset(s, k)
    BY <1>1, <1>2
  <2> QED
    BY <2>1, <2>2
<1>5. ASSUME NEW d \in Nat, d \in S PROVE d + 1 \in S
  <2> SUFFICES ASSUME k + (d + 1) <= Len(s) PROVE Stays(k + (d + 1))
    OBVIOUS
  <2> PICK m : m = k + (d + 1)
    OBVIOUS
  <2>1. m \in 1 .. Len(s) /\ m - 1 = k + d /\ m - 1 \in 0 .. Len(s) /\ k + d <= Len(s)
    BY <1>1
  <2>2. Stays(m - 1)
    BY <1>5, <2>1
  <2>3. /\ Offset(s, m) \in Nat /\ Offset(s, m - 1) \in Nat /\ Offset(s, k) \in Nat
        /\ Offset(s, m) = Offset(s, m - 1) + Len(s[m]) /\ Len(s[m]) \in Nat
    BY <1>1, <1>2, <1>3, <2>1
  <2>4. /\ Offset(s, k - 1) \in Nat /\ Len(s[k]) \in Nat
        /\ Offset(s, k) = Offset(s, k - 1) + Len(s[k])
    BY <1>1, <1>2, <1>3
  <2>5. Offset(s, k) <= Offset(s, m)
    BY <2>2, <2>3
  <2>6. ASSUME NEW j \in 1 .. Len(s[k])
        PROVE  Joined(s, m)[Offset(s, k - 1) + j] = s[k][j]
    <3>1. Offset(s, k) <= Offset(s, m - 1)
      BY <2>2
    <3>2. Offset(s, k - 1) + j \in 1 .. Offset(s, m - 1)
      <4>1. \A a, l, c \in Nat : a + l <= c => \A i \in 1 .. l : a + i \in 1 .. c
        OBVIOUS
      <4> QED
        BY <2>3, <2>4, <3>1, <4>1
    <3>3. Joined(s, m)[Offset(s, k - 1) + j] = Joined(s, m - 1)[Offset(s, k - 1) + j]
      BY <2>1, <3>2, JoinedCells
    <3> QED
      BY <2>2, <3>3
  <2> QED
    BY <2>5, <2>6
<1>6. n - k \in Nat
  BY <1>1
<1>7. n - k \in S
  <2> HIDE DEF S
  <2> QED
    BY <1>4, <1>5, <1>6, Induct
<1>8. k + (n - k) = n /\ n <= Len(s)
  BY <1>1
<1> QED
  BY <1>7, <1>8

-----------------------------------------------------------------------------
(* Counting frames.                                                        *)

\* The bytes of a part are those of its frame.
LEMMA PartBytes ==
  ASSUME NEW part \in Part
  PROVE  /\ part.first \in 1 .. 6 /\ part.last \in 1 .. 6 /\ part.first <= part.last
         /\ Bytes(part) \in Seq(Cell)
         /\ Len(Bytes(part)) = part.last - part.first + 1
         /\ \A i \in 1 .. part.last - part.first + 1 :
              Bytes(part)[i] = Frame(part.at)[part.first + i - 1]
<1>1. part.first \in 1 .. 6 /\ part.last \in 1 .. 6 /\ part.first <= part.last
  BY DEF Part, FrameLength
<1>2. \A i \in 1 .. 6 : Frame(part.at)[i] \in Cell
  <2>1. part.at \in Nat
    BY BoundAssumption DEF Part, Time
  <2>2. Escape(part.at) \in Cell /\ Kind(part.at) \in Cell /\ Magic \in Cell
    BY <2>1, Cells
  <2> QED
    BY <2>2 DEF Frame
<1> DEFINE f == Frame(part.at)
<1> HIDE DEF f
<1>3. Bytes(part) = SubSeq(f, part.first, part.last)
  BY DEF Bytes, f
<1>4. \A i \in part.first .. part.last : f[i] \in Cell
  BY <1>1, <1>2 DEF f
<1>5. part.first \in Int /\ part.last \in Int
  BY <1>1
<1>6. /\ SubSeq(f, part.first, part.last) \in Seq(Cell)
      /\ Len(SubSeq(f, part.first, part.last))
           = IF part.first <= part.last THEN part.last - part.first + 1 ELSE 0
      /\ \A i \in 1 .. part.last - part.first + 1 :
           SubSeq(f, part.first, part.last)[i] = f[part.first + i - 1]
  BY <1>4, <1>5, SubSeqProperties
<1> QED
  BY <1>1, <1>3, <1>6 DEF f

\* What is counted from an escape at i on: it takes the next byte along.
CountPast(p, count, i) ==
  count[i + 2] + IF i < Len(p) /\ p[i + 1].cell = "kind" THEN 1 ELSE 0

LEMMA CountOne ==
  ASSUME NEW p, Len(p) \in Nat, NEW count, Counts(p, count), NEW i \in 1 .. Len(p)
  PROVE  /\ p[i].cell # "escape" => count[i] = count[i + 1]
         /\ p[i].cell = "escape" => count[i] = CountPast(p, count, i)
         /\ i < Len(p) /\ p[i + 1].cell = "kind"
              => CountPast(p, count, i) = count[i + 2] + 1
         /\ p[i + 1].cell # "kind" => CountPast(p, count, i) = count[i + 2]
<1>1. count[i] = CountFrom(p, count, i) /\ ~(i > Len(p))
  BY DEF Counts
<1>2. count[i + 2] \in Nat
  BY CountNatural
<1> QED
  BY <1>1, <1>2 DEF CountFrom, CountPast

\* A part in a buffer, behind its first o bytes.
PartAt(p, o, part) ==
  /\ Len(p) \in Nat /\ o \in Nat /\ part \in Part /\ o + Len(Bytes(part)) <= Len(p)
  /\ \A j \in 1 .. Len(Bytes(part)) : p[o + j] = Bytes(part)[j]

\* What a part is to the count: it begins a frame, it is of a torn one.
Begins(part) == IF part.first = 1 /\ part.last > 1 THEN 1 ELSE 0
Tears(part) == IF part.first > 1 \/ part.last < FrameLength THEN 1 ELSE 0

\* The counts from each byte of a part on, c, given those behind it, a from the next
\* byte on and z from the one after that, when the part ends with an escape.
LEMMA Scanned ==
  ASSUME NEW first \in 1 .. 6, NEW last \in 1 .. 6, first <= last,
         NEW c \in [1 .. 7 -> Nat], NEW a \in Nat, NEW z \in Nat,
         c[last + 1] = a,
         first <= 6 /\ 6 <= last => c[6] = c[7],
         first <= 5 /\ 5 <= last => c[5] = c[6],
         first <= 4 /\ 4 < last => c[4] = c[6] + 1,
         first <= 3 /\ 3 < last => c[3] = c[5],
         first <= 2 /\ 2 <= last => c[2] = c[3],
         first <= 1 /\ 1 < last => c[1] = c[3] + 1,
         last \in {1, 3, 4} => c[last] = z
  PROVE  /\ c[first] \in Nat /\ c[first + 1] \in Nat
         /\ first = 1 /\ last = 6 => c[1] = a + 1 /\ c[2] = a
         /\ first = 1 /\ last \in 2 .. 5 => c[1] \in {a + 1, z + 1} /\ c[2] \in {a, z}
         /\ first = 1 /\ last = 1 => c[1] = z /\ c[2] = a
         /\ first > 1 => /\ c[first] \in {a, a + 1, z}
                         /\ first \in {2, 5} => c[first + 1] \in {a, z}
                         /\ first \in {3, 4, 6} => c[first + 1] \in {a, a + 1, z}
<1>1. CASE last = 6
  BY <1>1
<1>2. CASE last = 5
  BY <1>2
<1>3. CASE last = 4
  BY <1>3
<1>4. CASE last = 3
  BY <1>4
<1>5. CASE last = 2
  BY <1>5
<1>6. CASE last = 1
  BY <1>6
<1> QED
  BY <1>1, <1>2, <1>3, <1>4, <1>5, <1>6

\* Counts that are off by at most t from n frames; by one more when the byte they begin
\* with was taken along.
Off(a, z, n, t) ==
  /\ n - t <= a /\ a <= n + t
  /\ n - t <= z + 1 /\ z <= n + t + 1

\* The counts v and w on the two sides of the first byte of a part, given a and z behind
\* its last; a type byte that begins the part is counted with an escape before it.
Taken(first) == IF first \in {2, 5} THEN 1 ELSE 0
Across(first, last, a, z, v, w) ==
  /\ first = 1 /\ last = 6 => v = a + 1 /\ w = a
  /\ first = 1 /\ last \in 2 .. 5 => v \in {a + 1, z + 1} /\ w \in {a, z}
  /\ first = 1 /\ last = 1 => v = z /\ w = a
  /\ first > 1 => /\ v \in {a, a + 1, z}
                  /\ first \in {2, 5} => w \in {a, z}
                  /\ first \in {3, 4, 6} => w \in {a, a + 1, z}

\* The bytes from first to last of a frame f, behind the first o of a buffer.
Spot(o, first, j) == o + (j - first) + 1
Laid(p, o, f, first, last) ==
  /\ Len(p) \in Nat /\ Spot(o, first, last) <= Len(p)
  /\ \A j \in first .. last : p[Spot(o, first, j)] = f[j]

LEMMA PositionsInPart ==
  ASSUME NEW o \in Nat, NEW first \in 1 .. 6, NEW last \in 1 .. 6, first <= last
  PROVE  /\ Spot(o, first, last) \in Nat
         /\ \A j \in first .. last :
              /\ j \in 1 .. 6 /\ j \in first .. last + 1 /\ j + 1 \in first .. last + 1
              /\ \A l \in Nat : Spot(o, first, last) <= l =>
                   /\ Spot(o, first, j) \in 1 .. l
                   /\ j < last => Spot(o, first, j) < l
              /\ j < last => j + 1 \in first .. last /\ j + 2 \in first .. last + 1
         /\ \A j \in first .. last + 1 :
              /\ Spot(o, first, j) \in Nat /\ j \in 1 .. 7
              /\ Spot(o, first, j) + 1 = Spot(o, first, j + 1)
              /\ Spot(o, first, j) + 2 = Spot(o, first, j + 2)
         /\ first \in first .. last /\ last \in first .. last
         /\ Spot(o, first, first) = o + 1 /\ Spot(o, first, first + 1) = o + 2
         /\ \A l \in Nat : Spot(o, first, last) <= l => o < l
BY DEF Spot

\* Taken from f: q is its bytes from first to last, and lies behind the first o of p.
IsPiece(q, f, first, last) == \A i \in 1 .. last - first + 1 : q[i] = f[first + i - 1]
LiesIn(p, o, q, n) == o + n <= Len(p) /\ \A i \in 1 .. n : p[o + i] = q[i]

LEMMA LaidFromBytes ==
  ASSUME NEW p, NEW q, NEW f, NEW o \in Nat, NEW first \in 1 .. 6, NEW last \in 1 .. 6,
         first <= last, Len(p) \in Nat,
         IsPiece(q, f, first, last), LiesIn(p, o, q, last - first + 1)
  PROVE  /\ Laid(p, o, f, first, last)
         /\ Spot(o, first, last) = o + (last - first + 1)
<1>1. ASSUME NEW j \in first .. last PROVE p[Spot(o, first, j)] = f[j]
  <2> PICK i : i = j - first + 1
    OBVIOUS
  <2>1. i \in 1 .. last - first + 1 /\ Spot(o, first, j) = o + i /\ first + i - 1 = j
    BY DEF Spot
  <2> QED
    BY <2>1 DEF IsPiece, LiesIn
<1>2. Spot(o, first, last) = o + (last - first + 1)
  BY DEF Spot
<1> QED
  BY <1>1, <1>2 DEF Laid, LiesIn

\* What CountOne says of each position, with the type of the counts.
CountsEach(p, count) ==
  /\ \A i \in Nat : count[i] \in Nat
  /\ \A i \in 1 .. Len(p) :
       /\ p[i].cell # "escape" => count[i] = count[i + 1]
       /\ p[i].cell = "escape" => count[i] = CountPast(p, count, i)
       /\ i < Len(p) /\ p[i + 1].cell = "kind"
            => CountPast(p, count, i) = count[i + 2] + 1
       /\ p[i + 1].cell # "kind" => CountPast(p, count, i) = count[i + 2]

\* The counts on both ends of a part.
Spans(p, count, o, first, last) ==
  \E a, z, v, w \in Nat :
    /\ count[Spot(o, first, last) + 1] = a
    /\ CountPast(p, count, Spot(o, first, last)) = z
    /\ count[o + 1] = v
    /\ CountPast(p, count, o) = w + Taken(first)
    /\ Across(first, last, a, z, v, w)

LEMMA PartScanned ==
  ASSUME NEW p, NEW count, Counts(p, count), NEW at, NEW o \in Nat,
         NEW first \in 1 .. 6, NEW last \in 1 .. 6, first <= last,
         Laid(p, o, Frame(at), first, last)
  PROVE  Spans(p, count, o, first, last)
<1> PICK a : a = count[Spot(o, first, last) + 1]
  OBVIOUS
<1> PICK z : z = CountPast(p, count, Spot(o, first, last))
  OBVIOUS
<1> DEFINE f == Frame(at)
           L == Len(p)
           c == [j \in 1 .. 7 |-> IF j \in first .. last + 1 THEN count[Spot(o, first, j)] ELSE 0]
<1>1. L \in Nat /\ CountsEach(p, count)
  <2>1. Len(p) \in Nat
    BY DEF Laid
  <2> QED
    BY <2>1, CountNatural, CountOne DEF CountsEach
<1>2. /\ \A j \in {2, 5, 6} : f[j].cell # "escape"
      /\ \A j \in {1, 3, 4} : f[j].cell = "escape"
      /\ \A j \in {2, 5} : f[j].cell = "kind"
      /\ \A j \in {1, 3, 4, 6} : f[j].cell # "kind"
  <2>1. /\ f[1].cell = "escape" /\ f[2].cell = "kind" /\ f[3].cell = "escape"
        /\ f[4].cell = "escape" /\ f[5].cell = "kind" /\ f[6].cell = "ATRX"
    BY DEF Frame, Escape, Kind, Magic
  <2> QED
    BY <2>1
<1>3. \A j \in first .. last :
        /\ Spot(o, first, j) \in 1 .. L /\ p[Spot(o, first, j)] = f[j]
        /\ j < last => Spot(o, first, j) < L
  BY <1>1, PositionsInPart DEF Laid
<1>4. /\ c \in [1 .. 7 -> Nat]
      /\ \A j \in first .. last + 1 : c[j] = count[Spot(o, first, j)]
  <2>1. \A j \in first .. last + 1 : c[j] = count[Spot(o, first, j)]
    BY PositionsInPart
  <2>2. \A j \in first .. last + 1 : count[Spot(o, first, j)] \in Nat
    BY <1>1, PositionsInPart DEF CountsEach
  <2> QED
    BY <2>1, <2>2
<1> HIDE DEF c, f, L
<1>5. /\ \A j \in first .. last + 1 : /\ Spot(o, first, j) + 1 = Spot(o, first, j + 1)
                                      /\ Spot(o, first, j) + 2 = Spot(o, first, j + 2)
      /\ \A j \in first .. last : /\ j \in first .. last + 1 /\ j + 1 \in first .. last + 1
                                  /\ j < last => /\ j + 1 \in first .. last
                                                 /\ j + 2 \in first .. last + 1
      /\ first \in first .. last /\ last \in first .. last
      /\ Spot(o, first, first) = o + 1 /\ Spot(o, first, first + 1) = o + 2
  <2>1. \A j \in first .. last + 1 : /\ Spot(o, first, j) + 1 = Spot(o, first, j + 1)
                                     /\ Spot(o, first, j) + 2 = Spot(o, first, j + 2)
    BY DEF Spot
  <2>2. \A j \in first .. last : /\ j \in first .. last + 1 /\ j + 1 \in first .. last + 1
                                 /\ j < last => /\ j + 1 \in first .. last
                                                /\ j + 2 \in first .. last + 1
    OBVIOUS
  <2>3. /\ first \in first .. last /\ last \in first .. last
        /\ Spot(o, first, first) = o + 1 /\ Spot(o, first, first + 1) = o + 2
    BY DEF Spot
  <2> QED
    BY <2>1, <2>2, <2>3
<1>6. ASSUME NEW j \in first .. last, j \in {2, 5, 6} PROVE c[j] = c[j + 1]
  <2>1. count[Spot(o, first, j)] = count[Spot(o, first, j) + 1]
    BY <1>1, <1>2, <1>3, <1>6 DEF CountsEach, L
  <2>2. /\ c[j] = count[Spot(o, first, j)] /\ c[j + 1] = count[Spot(o, first, j + 1)]
        /\ Spot(o, first, j) + 1 = Spot(o, first, j + 1)
    BY <1>4, <1>5
  <2> QED
    BY <2>1, <2>2
<1>7. ASSUME NEW j \in first .. last, j \in {1, 3, 4}, j < last
      PROVE  /\ j \in {1, 4} => c[j] = c[j + 2] + 1
             /\ j = 3 => c[j] = c[j + 2]
  <2>1. count[Spot(o, first, j)] = CountPast(p, count, Spot(o, first, j))
    BY <1>1, <1>2, <1>3, <1>7 DEF CountsEach, L
  <2>2. p[Spot(o, first, j) + 1] = f[j + 1]
    <3>1. j + 1 \in first .. last /\ Spot(o, first, j) + 1 = Spot(o, first, j + 1)
      BY <1>7, <1>5
    <3>2. p[Spot(o, first, j + 1)] = f[j + 1]
      BY <1>3, <3>1
    <3> QED
      BY <3>1, <3>2
  <2>3. Spot(o, first, j) \in 1 .. L /\ Spot(o, first, j) < L
    BY <1>3, <1>7
  <2>4. ASSUME j \in {1, 4}
        PROVE  CountPast(p, count, Spot(o, first, j)) = count[Spot(o, first, j) + 2] + 1
    <3>1. p[Spot(o, first, j) + 1].cell = "kind"
      BY <1>2, <2>2, <2>4
    <3> QED
      BY <1>1, <2>3, <3>1 DEF CountsEach, L
  <2>5. ASSUME j = 3
        PROVE  CountPast(p, count, Spot(o, first, j)) = count[Spot(o, first, j) + 2]
    <3>1. p[Spot(o, first, j) + 1].cell # "kind"
      BY <1>2, <2>2, <2>5
    <3> QED
      BY <1>1, <2>3, <3>1 DEF CountsEach, L
  <2>6. c[j] = count[Spot(o, first, j)] /\ c[j + 2] = count[Spot(o, first, j) + 2]
    <3>1. /\ j \in first .. last + 1 /\ j + 2 \in first .. last + 1
          /\ Spot(o, first, j) + 2 = Spot(o, first, j + 2)
      BY <1>7, <1>5
    <3>2. c[j + 2] = count[Spot(o, first, j + 2)] /\ c[j] = count[Spot(o, first, j)]
      BY <1>4, <3>1
    <3> QED
      BY <3>1, <3>2
  <2> QED
    BY <2>1, <2>4, <2>5, <2>6
<1>8. last \in {1, 3, 4} => c[last] = z
  <2>1. last \in {1, 3, 4} => count[Spot(o, first, last)] = CountPast(p, count, Spot(o, first, last))
    BY <1>1, <1>2, <1>3, <1>5 DEF CountsEach, L
  <2> QED
    BY <1>4, <1>5, <2>1
<1>9. c[last + 1] = a
  <2>1. last + 1 \in first .. last + 1 /\ Spot(o, first, last) + 1 = Spot(o, first, last + 1)
    BY <1>5
  <2>2. c[last + 1] = count[Spot(o, first, last + 1)]
    BY <1>4, <2>1
  <2> QED
    BY <2>1, <2>2
<1>10. a \in Nat /\ z \in Nat
  <2>1. Spot(o, first, last) + 1 \in Nat /\ Spot(o, first, last) + 2 \in Nat
    <3>1. Spot(o, first, last) \in Nat
      BY PositionsInPart
    <3> QED
      BY <3>1
  <2> QED
    BY <1>1, <2>1 DEF CountPast, CountsEach
<1>11. /\ c[first] \in Nat /\ c[first + 1] \in Nat
       /\ first = 1 /\ last = 6 => c[1] = a + 1 /\ c[2] = a
       /\ first = 1 /\ last \in 2 .. 5 => c[1] \in {a + 1, z + 1} /\ c[2] \in {a, z}
       /\ first = 1 /\ last = 1 => c[1] = z /\ c[2] = a
       /\ first > 1 => /\ c[first] \in {a, a + 1, z}
                       /\ first \in {2, 5} => c[first + 1] \in {a, z}
                       /\ first \in {3, 4, 6} => c[first + 1] \in {a, a + 1, z}
  <2>1. /\ first <= 6 /\ 6 <= last => c[6] = c[7]
        /\ first <= 5 /\ 5 <= last => c[5] = c[6]
        /\ first <= 2 /\ 2 <= last => c[2] = c[3]
    BY <1>6
  <2>2. /\ first <= 4 /\ 4 < last => c[4] = c[6] + 1
        /\ first <= 3 /\ 3 < last => c[3] = c[5]
        /\ first <= 1 /\ 1 < last => c[1] = c[3] + 1
    BY <1>7
  <2> QED
    BY <1>4, <1>8, <1>9, <1>10, <2>1, <2>2, Scanned
<1>12. /\ count[o + 1] = c[first]
       /\ CountPast(p, count, o) = c[first + 1] + Taken(first)
  <2>1. count[o + 1] = c[first] /\ count[o + 2] = c[first + 1]
    BY <1>4, PositionsInPart
  <2>2. p[o + 1] = f[first] /\ o < L
    BY <1>1, <1>3, PositionsInPart DEF Laid, L
  <2>3. p[o + 1].cell = "kind" <=> first \in {2, 5}
    BY <1>2, <2>2
  <2> QED
    BY <2>1, <2>2, <2>3 DEF CountPast, Taken, L
<1> PICK v : v = c[first]
  OBVIOUS
<1> PICK w : w = c[first + 1]
  OBVIOUS
<1>13. /\ v \in Nat /\ w \in Nat /\ count[o + 1] = v
       /\ CountPast(p, count, o) = w + Taken(first)
  BY <1>11, <1>12
<1>14. Across(first, last, a, z, v, w)
  BY <1>11 DEF Across
<1> QED
  BY <1>10, <1>13, <1>14 DEF Spans

\* Over a part the count goes up by the frame that begins in it, or is off by one more
\* when the part is of a torn frame.
LEMMA PartOff ==
  ASSUME NEW first \in 1 .. 6, NEW last \in 1 .. 6, first <= last,
         NEW a \in Nat, NEW z \in Nat, NEW v \in Nat, NEW w \in Nat,
         NEW n \in Nat, NEW t \in Nat, Off(a, z, n, t),
         Across(first, last, a, z, v, w)
  PROVE  Off(v, w + Taken(first),
             n + (IF first = 1 /\ last > 1 THEN 1 ELSE 0),
             t + (IF first > 1 \/ last < 6 THEN 1 ELSE 0))
<1>1. CASE first = 1 /\ last = 6
  BY <1>1 DEF Off, Across, Taken
<1>2. CASE first = 1 /\ last \in 2 .. 5
  BY <1>2 DEF Off, Across, Taken
<1>3. CASE first = 1 /\ last = 1
  BY <1>3 DEF Off, Across, Taken
<1>4. CASE first \in {2, 5}
  BY <1>4 DEF Off, Across, Taken
<1>5. CASE first \in {3, 4, 6}
  BY <1>5 DEF Off, Across, Taken
<1> QED
  BY <1>1, <1>2, <1>3, <1>4, <1>5

LEMMA PartLaid ==
  ASSUME NEW p, NEW o, NEW part, PartAt(p, o, part)
  PROVE  /\ part.first \in 1 .. 6 /\ part.last \in 1 .. 6 /\ part.first <= part.last
         /\ o \in Nat
         /\ Laid(p, o, Frame(part.at), part.first, part.last)
         /\ Spot(o, part.first, part.last) = o + Len(Bytes(part))
<1> DEFINE first == part.first
           last == part.last
<1>1. /\ first \in 1 .. 6 /\ last \in 1 .. 6 /\ first <= last
      /\ Len(Bytes(part)) = last - first + 1
      /\ \A i \in 1 .. last - first + 1 : Bytes(part)[i] = Frame(part.at)[first + i - 1]
  BY PartBytes DEF PartAt
<1>2. /\ o \in Nat /\ Len(p) \in Nat /\ o + Len(Bytes(part)) <= Len(p)
      /\ \A i \in 1 .. Len(Bytes(part)) : p[o + i] = Bytes(part)[i]
  BY DEF PartAt
<1> HIDE DEF first, last
<1>3. /\ Laid(p, o, Frame(part.at), first, last)
      /\ Spot(o, first, last) = o + Len(Bytes(part))
  <2> PICK q : q = Bytes(part)
    OBVIOUS
  <2> PICK f : f = Frame(part.at)
    OBVIOUS
  <2>1. IsPiece(q, f, first, last)
    BY <1>1 DEF IsPiece
  <2>2. LiesIn(p, o, q, last - first + 1)
    BY <1>1, <1>2 DEF LiesIn
  <2>3. first \in 1 .. 6 /\ last \in 1 .. 6 /\ first <= last /\ o \in Nat /\ Len(p) \in Nat
    BY <1>1, <1>2
  <2>4. Laid(p, o, f, first, last) /\ Spot(o, first, last) = o + (last - first + 1)
    BY <2>1, <2>2, <2>3, LaidFromBytes
  <2> QED
    BY <1>1, <2>4
<1> QED
  BY <1>1, <1>2, <1>3 DEF first, last

LEMMA PartCounted ==
  ASSUME NEW p, NEW count, Counts(p, count), NEW o, NEW part, PartAt(p, o, part),
         NEW n \in Nat, NEW t \in Nat,
         Off(count[o + Len(Bytes(part)) + 1], CountPast(p, count, o + Len(Bytes(part))), n, t)
  PROVE  Off(count[o + 1], CountPast(p, count, o), n + Begins(part), t + Tears(part))
<1> DEFINE first == part.first
           last == part.last
<1>1. /\ first \in 1 .. 6 /\ last \in 1 .. 6 /\ first <= last /\ o \in Nat
      /\ Laid(p, o, Frame(part.at), first, last)
      /\ Spot(o, first, last) = o + Len(Bytes(part))
  BY PartLaid
<1> HIDE DEF first, last
<1>2. PICK a, z, v, w \in Nat :
        /\ count[Spot(o, first, last) + 1] = a
        /\ CountPast(p, count, Spot(o, first, last)) = z
        /\ count[o + 1] = v
        /\ CountPast(p, count, o) = w + Taken(first)
        /\ Across(first, last, a, z, v, w)
  <2>1. Spans(p, count, o, first, last)
    BY <1>1, PartScanned
  <2> QED
    BY <2>1 DEF Spans
<1>3. /\ Begins(part) = IF first = 1 /\ last > 1 THEN 1 ELSE 0
      /\ Tears(part) = IF first > 1 \/ last < 6 THEN 1 ELSE 0
  BY DEF Begins, Tears, FrameLength, first, last
<1>4. Off(a, z, n, t)
  BY <1>1, <1>2
<1>5. Off(v, w + Taken(first),
          n + (IF first = 1 /\ last > 1 THEN 1 ELSE 0),
          t + (IF first > 1 \/ last < 6 THEN 1 ELSE 0))
  BY <1>1, <1>2, <1>4, PartOff
<1> QED
  BY <1>2, <1>3, <1>5

\* The bytes of parts, laid end to end.
BytesEach(parts) == [i \in DOMAIN parts |-> Bytes(parts[i])]

LEMMA BytesLaid ==
  ASSUME NEW parts \in Seq(Part)
  PROVE  LET b == BytesEach(parts)
             n == Len(parts)
         IN  /\ b \in Seq(Seq(Cell)) /\ Len(b) = n
             /\ \A i \in 1 .. n : b[i] = Bytes(parts[i])
             /\ BytesOf(parts) = Joined(b, n)
             /\ BytesOf(parts) \in Seq(Cell) /\ Len(BytesOf(parts)) = Offset(b, n)
<1> DEFINE b == BytesEach(parts)
<1>1. Len(parts) \in Nat /\ DOMAIN parts = 1 .. Len(parts)
  OBVIOUS
<1>2. \A i \in 1 .. Len(parts) : Bytes(parts[i]) \in Seq(Cell)
  BY PartBytes, ElementOfSeq
<1>3. /\ b \in Seq(Seq(Cell)) /\ Len(b) = Len(parts)
      /\ \A i \in 1 .. Len(parts) : b[i] = Bytes(parts[i])
  BY <1>1, <1>2 DEF BytesEach
<1>4. BytesOf(parts) = FlattenSeq(b)
  BY DEF BytesOf, BytesEach
<1> HIDE DEF b
<1>5. BytesOf(parts) = Joined(b, Len(parts))
  BY <1>3, <1>4, JoinOne
<1>6. Joined(b, Len(parts)) \in Seq(Cell)
  BY <1>1, <1>3, OffsetsAdd
<1> QED
  BY <1>3, <1>5, <1>6 DEF b, Offset

\* The parts behind the first k that begin a frame, and those of torn frames.
BegunPast(parts, k) == {i \in Begun(parts) : i > k}
TornPast(parts, k) == {i \in Torn(parts) : i > k}

LEMMA PastCounted ==
  ASSUME NEW parts \in Seq(Part), NEW k \in 0 .. Len(parts)
  PROVE  /\ Cardinality(BegunPast(parts, k)) \in Nat /\ Cardinality(TornPast(parts, k)) \in Nat
         /\ k > 0 => /\ Cardinality(BegunPast(parts, k - 1))
                          = Cardinality(BegunPast(parts, k)) + Begins(parts[k])
                     /\ Cardinality(TornPast(parts, k - 1))
                          = Cardinality(TornPast(parts, k)) + Tears(parts[k])
         /\ k = Len(parts) => BegunPast(parts, k) = {} /\ TornPast(parts, k) = {}
         /\ k = 0 => BegunPast(parts, k) = Begun(parts) /\ TornPast(parts, k) = Torn(parts)
<1>1. Len(parts) \in Nat /\ DOMAIN parts = 1 .. Len(parts) /\ k \in Nat
  OBVIOUS
<1>2. Begun(parts) \subseteq 1 .. Len(parts) /\ Torn(parts) \subseteq 1 .. Len(parts)
  BY <1>1 DEF Begun, Torn
<1>3. /\ IsFiniteSet(BegunPast(parts, k)) /\ k \notin BegunPast(parts, k)
      /\ IsFiniteSet(TornPast(parts, k)) /\ k \notin TornPast(parts, k)
  <2>1. IsFiniteSet(1 .. Len(parts))
    BY <1>1, FS_Interval
  <2>2. BegunPast(parts, k) \subseteq 1 .. Len(parts) /\ TornPast(parts, k) \subseteq 1 .. Len(parts)
    BY <1>2 DEF BegunPast, TornPast
  <2>3. k \notin BegunPast(parts, k) /\ k \notin TornPast(parts, k)
    BY <1>1 DEF BegunPast, TornPast
  <2> QED
    BY <2>1, <2>2, <2>3, FS_Subset
<1>4. Cardinality(BegunPast(parts, k)) \in Nat /\ Cardinality(TornPast(parts, k)) \in Nat
  BY <1>3, FS_CardinalityType
<1>5. ASSUME k > 0
      PROVE  /\ BegunPast(parts, k - 1) = IF Begins(parts[k]) = 1 THEN BegunPast(parts, k) \cup {k}
                                          ELSE BegunPast(parts, k)
             /\ TornPast(parts, k - 1) = IF Tears(parts[k]) = 1 THEN TornPast(parts, k) \cup {k}
                                         ELSE TornPast(parts, k)
  <2>1. /\ k \in Begun(parts) <=> Begins(parts[k]) = 1
        /\ k \in Torn(parts) <=> Tears(parts[k]) = 1
    BY <1>1, <1>5 DEF Begun, Torn, Begins, Tears
  <2>2. \A i \in 1 .. Len(parts) : i > k - 1 <=> i > k \/ i = k
    BY <1>1
  <2> QED
    BY <1>2, <2>1, <2>2 DEF BegunPast, TornPast
<1>6. ASSUME k > 0
      PROVE  /\ Cardinality(BegunPast(parts, k - 1))
                  = Cardinality(BegunPast(parts, k)) + Begins(parts[k])
             /\ Cardinality(TornPast(parts, k - 1))
                  = Cardinality(TornPast(parts, k)) + Tears(parts[k])
  <2>1. Begins(parts[k]) \in {0, 1} /\ Tears(parts[k]) \in {0, 1}
    BY DEF Begins, Tears
  <2>2. /\ Cardinality(BegunPast(parts, k) \cup {k}) = Cardinality(BegunPast(parts, k)) + 1
        /\ Cardinality(TornPast(parts, k) \cup {k}) = Cardinality(TornPast(parts, k)) + 1
    BY <1>3, FS_AddElement
  <2> QED
    BY <1>4, <1>5, <1>6, <2>1, <2>2
<1>7. k = Len(parts) => BegunPast(parts, k) = {} /\ TornPast(parts, k) = {}
  BY <1>1, <1>2 DEF BegunPast, TornPast
<1>8. k = 0 => BegunPast(parts, k) = Begun(parts) /\ TornPast(parts, k) = Torn(parts)
  BY <1>1, <1>2 DEF BegunPast, TornPast
<1> QED
  BY <1>4, <1>6, <1>7, <1>8

\* The count is off by at most the parts of torn frames.
LEMMA CountOfParts ==
  ASSUME NEW parts \in Seq(Part)
  PROVE  LET begun == Cardinality(Begun(parts))
             torn  == Cardinality(Torn(parts))
         IN  begun - torn <= FrameCount(parts) /\ FrameCount(parts) <= begun + torn
<1> PICK n : n = Len(parts)
  OBVIOUS
<1> PICK b : b = BytesEach(parts)
  OBVIOUS
<1> PICK p : p = BytesOf(parts)
  OBVIOUS
<1>1. n \in Nat /\ DOMAIN parts = 1 .. n
  OBVIOUS
<1>2. /\ b \in Seq(Seq(Cell)) /\ Len(b) = n
      /\ \A i \in 1 .. n : b[i] = Bytes(parts[i])
      /\ p = Joined(b, n) /\ p \in Seq(Cell) /\ Len(p) = Offset(b, n)
  BY BytesLaid
<1>3. Len(p) \in Nat /\ \A k \in 0 .. n : Offset(b, k) \in Nat
  BY <1>2, OffsetsAdd
<1>4. PICK count : Counts(p, count) /\ countBeastFrames(p) = count[1]
  BY <1>3, CountDefined
<1> DEFINE Near(k) == Off(count[Offset(b, k) + 1], CountPast(p, count, Offset(b, k)),
                          Cardinality(BegunPast(parts, k)), Cardinality(TornPast(parts, k)))
           S == {d \in Nat : d <= n => Near(n - d)}
<1>5. 0 \in S
  <2>1. count[Len(p) + 1] = 0 /\ CountPast(p, count, Len(p)) = 0
    BY <1>3, <1>4 DEF Counts, CountFrom, CountPast
  <2>2. Cardinality(BegunPast(parts, n)) = 0 /\ Cardinality(TornPast(parts, n)) = 0
    <3>1. BegunPast(parts, n) = {} /\ TornPast(parts, n) = {}
      BY <1>1, PastCounted
    <3> QED
      BY <3>1, FS_EmptySet
  <2>3. Off(0, 0, 0, 0)
    BY DEF Off
  <2>4. n - 0 = n
    BY <1>1
  <2> QED
    BY <1>2, <2>1, <2>2, <2>3, <2>4
<1>6. ASSUME NEW d \in Nat, d \in S PROVE d + 1 \in S
  <2> SUFFICES ASSUME d + 1 <= n PROVE Near(n - (d + 1))
    OBVIOUS
  <2> PICK k : k = n - d
    OBVIOUS
  <2>1. k \in 1 .. n /\ k \in Nat /\ k - 1 = n - (d + 1) /\ k - 1 \in 0 .. n /\ k \in 0 .. n
        /\ k > 0
    BY <1>1
  <2>2. Near(k)
    BY <1>1, <1>6, <2>1
  <2> PICK part : part = parts[k]
    OBVIOUS
  <2>3. part \in Part /\ b[k] = Bytes(part)
    BY <1>2, <2>1, ElementOfSeq
  <2>4. /\ Offset(b, k) = Offset(b, k - 1) + Len(Bytes(part))
        /\ Offset(b, k) <= Len(p)
        /\ \A j \in 1 .. Len(Bytes(part)) : p[Offset(b, k - 1) + j] = Bytes(part)[j]
    <3>1. n \in 0 .. Len(b)
      BY <1>1, <1>2
    <3>2. Offset(b, k) = Offset(b, k - 1) + Len(b[k])
      BY <1>2, <2>1, OffsetsAdd
    <3>3. /\ Offset(b, k) <= Offset(b, n)
          /\ \A j \in 1 .. Len(b[k]) : Joined(b, n)[Offset(b, k - 1) + j] = b[k][j]
      <4>1. b \in Seq(Seq(Cell)) /\ k \in 1 .. n
        BY <1>2, <2>1
      <4> QED
        BY <3>1, <4>1, Placement
    <3> QED
      BY <1>2, <2>3, <3>2, <3>3
  <2> PICK o : o = Offset(b, k - 1)
    OBVIOUS
  <2>5. PartAt(p, o, part)
    BY <1>3, <2>1, <2>3, <2>4 DEF PartAt
  <2> PICK begun : begun = Cardinality(BegunPast(parts, k))
    OBVIOUS
  <2> PICK torn : torn = Cardinality(TornPast(parts, k))
    OBVIOUS
  <2>6. /\ begun \in Nat /\ torn \in Nat
        /\ Cardinality(BegunPast(parts, k - 1)) = begun + Begins(part)
        /\ Cardinality(TornPast(parts, k - 1)) = torn + Tears(part)
    <3>1. k \in 0 .. Len(parts)
      BY <2>1
    <3> QED
      BY <2>1, <3>1, PastCounted
  <2>7. Off(count[o + Len(Bytes(part)) + 1], CountPast(p, count, o + Len(Bytes(part))),
            begun, torn)
    BY <2>2, <2>4
  <2>8. Off(count[o + 1], CountPast(p, count, o), begun + Begins(part), torn + Tears(part))
    BY <1>4, <2>5, <2>6, <2>7, PartCounted
  <2>9. Near(k - 1)
    BY <2>6, <2>8
  <2> QED
    BY <2>1, <2>9
<1>7. n \in S
  <2> HIDE DEF S
  <2> QED
    BY <1>1, <1>5, <1>6, Induct
<1>8. Offset(b, 0) = 0 /\ n - n = 0
  BY <1>1, <1>2, OffsetsAdd
<1>9. Near(0)
  <2> HIDE DEF Near
  <2> QED
    BY <1>1, <1>7, <1>8
<1>10. BegunPast(parts, 0) = Begun(parts) /\ TornPast(parts, 0) = Torn(parts)
  <2>1. 0 \in 0 .. Len(parts)
    BY <1>1
  <2> QED
    BY <2>1, PastCounted
<1>11. 0 + 1 = 1
  OBVIOUS
<1> QED
  BY <1>4, <1>8, <1>9, <1>10, <1>11 DEF Off, FrameCount

-----------------------------------------------------------------------------
(* Sections.                                                               *)

Section(blob) == \E m \in MetadataCell, frames \in Seq(Cell) : blob = buildAtrxBlob(m, frames)

LEMMA CompressCells ==
  ASSUME NEW frames \in Seq(Cell)
  PROVE  LET z == Compress(frames)
         IN  /\ z \in Seq(Cell) /\ Len(z) = Len(frames) + 1 /\ Len(frames) \in Nat
             /\ z[1] = [cell |-> "zstd", n |-> Len(frames)]
             /\ \A j \in 1 .. Len(frames) : z[1 + j] = frames[j]
<1> DEFINE mark == [cell |-> "zstd", n |-> Len(frames)]
           z == Compress(frames)
<1>1. Len(frames) \in Nat /\ mark \in Cell
  BY Cells
<1>2. <<mark>> \in Seq(Cell) /\ Len(<<mark>>) = 1 /\ <<mark>>[1] = mark
  BY <1>1
<1>3. z = <<mark>> \o frames
  BY DEF Compress
<1> HIDE DEF mark, z
<1>4. /\ z \in Seq(Cell) /\ Len(z) = 1 + Len(frames)
      /\ \A i \in 1 .. 1 + Len(frames) : z[i] = IF i <= 1 THEN <<mark>>[i] ELSE frames[i - 1]
  BY <1>2, <1>3, ConcatProperties
<1>5. z[1] = mark
  BY <1>1, <1>2, <1>4
<1>6. ASSUME NEW j \in 1 .. Len(frames) PROVE z[1 + j] = frames[j]
  <2>1. 1 + j \in 1 .. 1 + Len(frames) /\ ~(1 + j <= 1) /\ (1 + j) - 1 = j
    BY <1>1
  <2> QED
    BY <1>4, <2>1
<1> QED
  BY <1>1, <1>4, <1>5, <1>6 DEF mark, z

\* A header, lengths and metadata, and the payload.
Envelope(h, e, z) ==
  h \in Seq(Cell) /\ e \in Seq(Cell) /\ z \in Seq(Cell) /\ Len(h) = 3

LEMMA EnvelopeCells ==
  ASSUME NEW h, NEW e, NEW z, Envelope(h, e, z)
  PROVE  LET b == h \o e \o z
         IN  /\ b \in Seq(Cell) /\ Len(b) = 3 + Len(e) + Len(z)
             /\ \A i \in 1 .. 3 : b[i] = h[i]
             /\ \A i \in 1 .. Len(e) : b[3 + i] = e[i]
             /\ \A i \in 1 .. Len(z) : b[3 + Len(e) + i] = z[i]
<1> h \in Seq(Cell) /\ e \in Seq(Cell) /\ z \in Seq(Cell) /\ Len(h) = 3
  BY DEF Envelope
<1> DEFINE a == h \o e
           b == a \o z
<1>1. Len(e) \in Nat /\ Len(z) \in Nat
  OBVIOUS
<1>2. /\ a \in Seq(Cell) /\ Len(a) = 3 + Len(e)
      /\ \A i \in 1 .. 3 + Len(e) : a[i] = IF i <= 3 THEN h[i] ELSE e[i - 3]
  <2>1. /\ a \in Seq(Cell) /\ Len(a) = Len(h) + Len(e)
        /\ \A i \in 1 .. Len(h) + Len(e) : a[i] = IF i <= Len(h) THEN h[i] ELSE e[i - Len(h)]
    BY ConcatProperties
  <2> QED
    BY <2>1
<1> HIDE DEF a
<1>3. /\ b \in Seq(Cell) /\ Len(b) = Len(a) + Len(z)
      /\ \A i \in 1 .. Len(a) + Len(z) : b[i] = IF i <= Len(a) THEN a[i] ELSE z[i - Len(a)]
  BY <1>2, ConcatProperties
<1> HIDE DEF b
<1>4. \A l, n \in Nat : \A i \in 1 .. 3 + l : i \in 1 .. (3 + l) + n /\ i <= 3 + l
  OBVIOUS
<1>5. \A i \in 1 .. 3 + Len(e) : b[i] = a[i]
  BY <1>1, <1>2, <1>3, <1>4
<1>6. \A i \in 1 .. 3 : b[i] = h[i]
  <2>1. \A i \in 1 .. 3 : i \in 1 .. 3 + Len(e) /\ i <= 3
    BY <1>1
  <2> QED
    BY <1>2, <1>5, <2>1
<1>7. ASSUME NEW i \in 1 .. Len(e) PROVE b[3 + i] = e[i]
  <2>1. 3 + i \in 1 .. 3 + Len(e) /\ ~(3 + i <= 3) /\ (3 + i) - 3 = i
    BY <1>1
  <2> QED
    BY <1>2, <1>5, <2>1
<1>8. ASSUME NEW i \in 1 .. Len(z) PROVE b[3 + Len(e) + i] = z[i]
  <2>1. /\ 3 + Len(e) + i \in 1 .. Len(a) + Len(z) /\ ~(3 + Len(e) + i <= Len(a))
        /\ (3 + Len(e) + i) - Len(a) = i
    BY <1>1, <1>2
  <2> QED
    BY <1>3, <2>1
<1>9. Len(b) = 3 + Len(e) + Len(z)
  BY <1>2, <1>3
<1> QED
  BY <1>3, <1>6, <1>7, <1>8, <1>9 DEF a, b

LEMMA HeaderCells ==
  ASSUME NEW version \in Nat
  PROVE  /\ Header(version) \in Seq(Cell) /\ Len(Header(version)) = 3
         /\ Header(version)[1] = Magic /\ Header(version)[2] = Number(version)
<1>1. Magic \in Cell /\ Number(version) \in Cell /\ Number(Compressed) \in Cell
  BY Cells DEF Compressed
<1> QED
  BY <1>1 DEF Header

LEMMA BlobCells ==
  ASSUME NEW m \in MetadataCell, NEW frames \in Seq(Cell)
  PROVE  LET b == buildAtrxBlob(m, frames)
         IN  /\ b \in Seq(Cell) /\ Len(b) = Len(frames) + 7 /\ Len(frames) \in Nat
             /\ b[1] = Magic /\ b[2] = Number(Version) /\ b[4] = Number(1) /\ b[5] = m
             /\ b[6] = Number(Len(frames) + 1)
             /\ b[7] = [cell |-> "zstd", n |-> Len(frames)]
             /\ \A j \in 1 .. Len(frames) : b[7 + j] = frames[j]
<1> DEFINE z == Compress(frames)
           h == Header(Version)
           e == <<Number(1), m, Number(Len(z))>>
           b == h \o e \o z
<1>1. /\ z \in Seq(Cell) /\ Len(z) = Len(frames) + 1 /\ Len(frames) \in Nat
      /\ z[1] = [cell |-> "zstd", n |-> Len(frames)]
      /\ \A j \in 1 .. Len(frames) : z[1 + j] = frames[j]
  BY CompressCells
<1>2. h \in Seq(Cell) /\ Len(h) = 3 /\ h[1] = Magic /\ h[2] = Number(Version)
  <2>1. Version \in Nat
    BY DEF Version
  <2> QED
    BY <2>1, HeaderCells
<1> HIDE DEF h, z
<1>3. /\ e \in Seq(Cell) /\ Len(e) = 3
      /\ e[1] = Number(1) /\ e[2] = m /\ e[3] = Number(Len(frames) + 1)
  <2>1. Number(1) \in Cell /\ m \in Cell /\ Number(Len(z)) \in Cell
    <3>1. Len(z) \in Nat
      BY <1>1
    <3> QED
      BY <3>1, Cells
  <2> QED
    BY <1>1, <2>1
<1> HIDE DEF e
<1>4. /\ b \in Seq(Cell) /\ Len(b) = 3 + Len(e) + Len(z)
      /\ \A i \in 1 .. 3 : b[i] = h[i]
      /\ \A i \in 1 .. Len(e) : b[3 + i] = e[i]
      /\ \A i \in 1 .. Len(z) : b[3 + Len(e) + i] = z[i]
  <2>1. Envelope(h, e, z)
    BY <1>1, <1>2, <1>3 DEF Envelope
  <2> QED
    BY <2>1, EnvelopeCells
<1> HIDE DEF b
<1>5. /\ b[1] = Magic /\ b[2] = Number(Version) /\ b[4] = Number(1) /\ b[5] = m
      /\ b[6] = Number(Len(frames) + 1)
  <2>1. b[1] = h[1] /\ b[2] = h[2] /\ b[4] = e[1] /\ b[5] = e[2] /\ b[6] = e[3]
    BY <1>3, <1>4
  <2> QED
    BY <1>2, <1>3, <2>1
<1>6. \A i \in 1 .. Len(z) : b[6 + i] = z[i]
  BY <1>3, <1>4
<1>7. b[7] = z[1]
  BY <1>1, <1>6
<1>8. ASSUME NEW j \in 1 .. Len(frames) PROVE b[7 + j] = frames[j]
  <2>1. 1 + j \in 1 .. Len(z) /\ 6 + (1 + j) = 7 + j
    BY <1>1
  <2> QED
    BY <1>1, <1>6, <2>1
<1>9. Len(b) = Len(frames) + 7
  BY <1>1, <1>3, <1>4
<1> QED
  BY <1>1, <1>4, <1>5, <1>7, <1>8, <1>9 DEF buildAtrxBlob, b, e, h, z

LEMMA LegacyCells ==
  ASSUME NEW m \in MetadataCell, NEW frames \in Seq(Cell)
  PROVE  LET b == LegacyBlob(m, frames)
         IN  /\ b \in Seq(Cell) /\ Len(b) = Len(frames) + 6 /\ Len(frames) \in Nat
             /\ b[1] = Magic /\ b[2] = Number(LegacyVersion) /\ b[4] = Number(1) /\ b[5] = m
             /\ b[6] = [cell |-> "zstd", n |-> Len(frames)]
             /\ \A j \in 1 .. Len(frames) : b[6 + j] = frames[j]
<1> DEFINE z == Compress(frames)
           h == Header(LegacyVersion)
           e == <<Number(1), m>>
           b == h \o e \o z
<1>1. /\ z \in Seq(Cell) /\ Len(z) = Len(frames) + 1 /\ Len(frames) \in Nat
      /\ z[1] = [cell |-> "zstd", n |-> Len(frames)]
      /\ \A j \in 1 .. Len(frames) : z[1 + j] = frames[j]
  BY CompressCells
<1>2. h \in Seq(Cell) /\ Len(h) = 3 /\ h[1] = Magic /\ h[2] = Number(LegacyVersion)
  <2>1. LegacyVersion \in Nat
    BY DEF LegacyVersion
  <2> QED
    BY <2>1, HeaderCells
<1> HIDE DEF h, z
<1>3. e \in Seq(Cell) /\ Len(e) = 2 /\ e[1] = Number(1) /\ e[2] = m
  <2>1. Number(1) \in Cell /\ m \in Cell
    BY Cells
  <2> QED
    BY <2>1
<1> HIDE DEF e
<1>4. /\ b \in Seq(Cell) /\ Len(b) = 3 + Len(e) + Len(z)
      /\ \A i \in 1 .. 3 : b[i] = h[i]
      /\ \A i \in 1 .. Len(e) : b[3 + i] = e[i]
      /\ \A i \in 1 .. Len(z) : b[3 + Len(e) + i] = z[i]
  <2>1. Envelope(h, e, z)
    BY <1>1, <1>2, <1>3 DEF Envelope
  <2> QED
    BY <2>1, EnvelopeCells
<1> HIDE DEF b
<1>5. b[1] = Magic /\ b[2] = Number(LegacyVersion) /\ b[4] = Number(1) /\ b[5] = m
  <2>1. b[1] = h[1] /\ b[2] = h[2] /\ b[4] = e[1] /\ b[5] = e[2]
    BY <1>3, <1>4
  <2> QED
    BY <1>2, <1>3, <2>1
<1>6. \A i \in 1 .. Len(z) : b[5 + i] = z[i]
  BY <1>3, <1>4
<1>7. b[6] = z[1]
  BY <1>1, <1>6
<1>8. ASSUME NEW j \in 1 .. Len(frames) PROVE b[6 + j] = frames[j]
  <2>1. 1 + j \in 1 .. Len(z) /\ 5 + (1 + j) = 6 + j
    BY <1>1
  <2> QED
    BY <1>1, <1>6, <2>1
<1>9. Len(b) = Len(frames) + 6
  BY <1>1, <1>3, <1>4
<1> QED
  BY <1>1, <1>4, <1>5, <1>7, <1>8, <1>9 DEF LegacyBlob, b, e, h, z

\* The payload behind the first o cells of a buffer is decompressed.
LEMMA PayloadRead ==
  ASSUME NEW frames \in Seq(Cell), NEW b \in Seq(Cell), NEW o \in Nat,
         Len(b) = Len(frames) + 1 + o,
         b[o + 1] = [cell |-> "zstd", n |-> Len(frames)],
         \A j \in 1 .. Len(frames) : b[o + 1 + j] = frames[j], NEW m
  PROVE  Payload(m, SubSeq(b, o + 1, Len(b))) = Checked(m, frames)
<1> PICK q : q = SubSeq(b, o + 1, Len(b))
  OBVIOUS
<1>1. Len(frames) \in Nat /\ Len(b) \in Nat
  OBVIOUS
<1>2. /\ q \in Seq(Cell) /\ Len(q) = Len(frames) + 1
      /\ \A i \in 1 .. Len(frames) + 1 : q[i] = b[o + i]
  <2>1. \A i \in o + 1 .. Len(b) : b[i] \in Cell
    <3>1. o + 1 .. Len(b) \subseteq 1 .. Len(b)
      BY <1>1
    <3> QED
      BY <3>1, ElementOfSeq
  <2>2. o + 1 \in Int /\ Len(b) \in Int /\ o + 1 <= Len(b)
        /\ Len(b) - (o + 1) + 1 = Len(frames) + 1
    BY <1>1
  <2>3. /\ q \in Seq(Cell)
        /\ Len(q) = IF o + 1 <= Len(b) THEN Len(b) - (o + 1) + 1 ELSE 0
        /\ \A i \in 1 .. Len(b) - (o + 1) + 1 : q[i] = b[(o + 1) + i - 1]
    BY <2>1, <2>2, SubSeqProperties
  <2>4. \A i \in 1 .. Len(frames) + 1 : (o + 1) + i - 1 = o + i
    BY <1>1
  <2> QED
    BY <2>2, <2>3, <2>4
<1>3. q[1] = b[o + 1] /\ \A i \in 1 .. Len(frames) : q[1 + i] = frames[i]
  <2>1. q[1] = b[o + 1]
    BY <1>1, <1>2
  <2>2. ASSUME NEW i \in 1 .. Len(frames) PROVE q[1 + i] = frames[i]
    <3>1. 1 + i \in 1 .. Len(frames) + 1 /\ o + (1 + i) = o + 1 + i
      <4>1. \A l, p \in Nat : \A j \in 1 .. l : 1 + j \in 1 .. l + 1 /\ p + (1 + j) = p + 1 + j
        OBVIOUS
      <4>2. Len(frames) \in Nat
        OBVIOUS
      <4> QED
        BY <4>1, <4>2
    <3> QED
      BY <1>2, <3>1
  <2> QED
    BY <2>1, <2>2
<1>4. SubSeq(q, 2, Len(q)) = frames
  <2>1. \A i \in 2 .. Len(q) : q[i] \in Cell
    BY <1>2, ElementOfSeq
  <2>2. /\ SubSeq(q, 2, Len(q)) \in Seq(Cell)
        /\ Len(SubSeq(q, 2, Len(q))) = Len(frames)
        /\ \A i \in 1 .. Len(frames) : SubSeq(q, 2, Len(q))[i] = q[1 + i]
    BY <1>1, <1>2, <2>1, SubSeqProperties
  <2>3. \A i \in 1 .. Len(frames) : SubSeq(q, 2, Len(q))[i] = frames[i]
    BY <1>3, <2>2
  <2> QED
    BY <2>2, <2>3, SeqEqual
<1>5. Decompress(q).ok /\ Decompress(q).frames = frames
  <2>1. q # << >> /\ q[1].cell = "zstd" /\ q[1].n = Len(q) - 1
    BY <1>1, <1>2, <1>3
  <2> QED
    BY <1>4, <2>1 DEF Decompress
<1> QED
  BY <1>5 DEF Payload

\* Where a section of version 2 ends, at whatever place it is read: in a buffer that holds
\* its first cells, the lengths in it lead to its end.
LEMMA SectionLengths ==
  ASSUME NEW frames \in Seq(Cell), NEW m, NEW b, NEW o \in Nat,
         b[o + 4] = Number(1)
  PROVE  /\ MetadataEnd(b, o) = o + 5
         /\ b[o + 6] = Number(Len(frames) + 1) => SectionEnd(b, o) = o + (Len(frames) + 7)
<1>1. Len(frames) \in Nat
  OBVIOUS
<1>2. MetadataEnd(b, o) = o + 5
  <2>1. Value(b[o + 4]) = 1 /\ o + HeaderSize + 1 = o + 4
    BY Cells DEF HeaderSize
  <2> QED
    BY <2>1 DEF MetadataEnd
<1>3. ASSUME b[o + 6] = Number(Len(frames) + 1)
      PROVE  SectionEnd(b, o) = o + (Len(frames) + 7)
  <2>1. Value(b[o + 6]) = Len(frames) + 1
    BY <1>1, <1>3, Cells
  <2>2. MetadataEnd(b, o) + 1 = o + 6
    BY <1>2
  <2> QED
    BY <1>1, <2>1, <2>2 DEF SectionEnd
<1> QED
  BY <1>2, <1>3

\* What parseAtrxBlob gives of what buildAtrxBlob made, and of a blob of version 1.
LEMMA ParseInverts ==
  ASSUME NEW m \in MetadataCell, NEW frames \in Seq(Cell)
  PROVE  parseAtrxBlob(buildAtrxBlob(m, frames)) = Checked(m, frames)
<1> PICK b : b = buildAtrxBlob(m, frames)
  OBVIOUS
<1>1. /\ b \in Seq(Cell) /\ Len(b) = Len(frames) + 7 /\ Len(frames) \in Nat
      /\ b[1] = Magic /\ b[2] = Number(Version) /\ b[4] = Number(1) /\ b[5] = m
      /\ b[6] = Number(Len(frames) + 1) /\ b[7] = [cell |-> "zstd", n |-> Len(frames)]
      /\ \A j \in 1 .. Len(frames) : b[7 + j] = frames[j]
  BY BlobCells
<1>2. MetadataEnd(b, 0) = 5 /\ SectionEnd(b, 0) = Len(b)
  <2>1. b[0 + 4] = Number(1) /\ b[0 + 6] = Number(Len(frames) + 1)
    BY <1>1
  <2>2. MetadataEnd(b, 0) = 0 + 5 /\ SectionEnd(b, 0) = 0 + (Len(frames) + 7)
    BY <2>1, SectionLengths
  <2> QED
    BY <1>1, <2>2
<1>3. Value(b[2]) = Version
  BY <1>1, Cells DEF Version
<1>4. parseAtrxBlob(b) = Payload(m, SubSeq(b, 7, Len(b)))
  <2>1. /\ ~(Len(b) < HeaderSize + 1) /\ ~(b[1] # Magic)
        /\ ~(Value(b[2]) \notin {Version, LegacyVersion}) /\ ~(Len(b) < MetadataEnd(b, 0))
        /\ Value(b[2]) # LegacyVersion /\ Len(b) # MetadataEnd(b, 0)
        /\ ~(Len(b) # SectionEnd(b, 0))
    BY <1>1, <1>2, <1>3 DEF HeaderSize, Version, LegacyVersion
  <2> QED
    BY <1>1, <1>2, <2>1 DEF parseAtrxBlob
<1>5. Payload(m, SubSeq(b, 7, Len(b))) = Checked(m, frames)
  <2> PICK o \in Nat : o = 6
    OBVIOUS
  <2>1. Len(b) = Len(frames) + 1 + o /\ o + 1 = 7
    BY <1>1
  <2>2. /\ b[o + 1] = [cell |-> "zstd", n |-> Len(frames)] /\ b \in Seq(Cell)
        /\ \A j \in 1 .. Len(frames) : b[o + 1 + j] = frames[j]
    BY <1>1, <2>1
  <2>3. Payload(m, SubSeq(b, o + 1, Len(b))) = Checked(m, frames)
    BY <2>1, <2>2, PayloadRead
  <2> QED
    BY <2>1, <2>3
<1> QED
  BY <1>4, <1>5

LEMMA LegacyParsed ==
  ASSUME NEW m \in MetadataCell, NEW frames \in Seq(Cell)
  PROVE  parseAtrxBlob(LegacyBlob(m, frames)) = Checked(m, frames)
<1> PICK b : b = LegacyBlob(m, frames)
  OBVIOUS
<1>1. /\ b \in Seq(Cell) /\ Len(b) = Len(frames) + 6 /\ Len(frames) \in Nat
      /\ b[1] = Magic /\ b[2] = Number(LegacyVersion) /\ b[4] = Number(1) /\ b[5] = m
      /\ b[6] = [cell |-> "zstd", n |-> Len(frames)]
      /\ \A j \in 1 .. Len(frames) : b[6 + j] = frames[j]
  BY LegacyCells
<1>2. MetadataEnd(b, 0) = 5
  BY <1>1, SectionLengths
<1>3. Value(b[2]) = LegacyVersion
  BY <1>1, Cells DEF LegacyVersion
<1>4. parseAtrxBlob(b) = Payload(m, SubSeq(b, 6, Len(b)))
  <2>1. /\ ~(Len(b) < HeaderSize + 1) /\ ~(b[1] # Magic)
        /\ ~(Value(b[2]) \notin {Version, LegacyVersion}) /\ ~(Len(b) < MetadataEnd(b, 0))
    BY <1>1, <1>2, <1>3 DEF HeaderSize
  <2> QED
    BY <1>1, <1>2, <1>3, <2>1 DEF parseAtrxBlob
<1>5. Payload(m, SubSeq(b, 6, Len(b))) = Checked(m, frames)
  <2> PICK o \in Nat : o = 5
    OBVIOUS
  <2>1. Len(b) = Len(frames) + 1 + o /\ o + 1 = 6
    BY <1>1
  <2>2. /\ b[o + 1] = [cell |-> "zstd", n |-> Len(frames)] /\ b \in Seq(Cell)
        /\ \A j \in 1 .. Len(frames) : b[o + 1 + j] = frames[j]
    BY <1>1, <2>1
  <2>3. Payload(m, SubSeq(b, o + 1, Len(b))) = Checked(m, frames)
    BY <2>1, <2>2, PayloadRead
  <2> QED
    BY <2>1, <2>3
<1> QED
  BY <1>4, <1>5

-----------------------------------------------------------------------------
(* Splitting.                                                              *)

\* The cells of s are those of b behind o, as far as b goes.
At(b, o, s) == \A j \in 1 .. Len(s) : o + j <= Len(b) => b[o + j] = s[j]

\* The split of a buffer where a section of version 2 begins, whole or cut off.
LEMMA SectionCells ==
  ASSUME NEW s, Section(s)
  PROVE  \E frames \in Seq(Cell) :
           /\ s \in Seq(Cell) /\ Len(s) = Len(frames) + 7 /\ Len(frames) \in Nat
           /\ s[1] = Magic /\ s[2] = Number(Version) /\ s[4] = Number(1)
           /\ s[6] = Number(Len(frames) + 1)
<1> PICK m \in MetadataCell, frames \in Seq(Cell) : s = buildAtrxBlob(m, frames)
  BY DEF Section
<1> QED
  BY BlobCells

SectionAt(b, o, s) ==
  b \in Seq(Cell) /\ o \in Nat /\ o < Len(b) /\ Section(s) /\ At(b, o, s)

LEMMA SplitSection ==
  ASSUME NEW b, NEW split, NEW o, NEW s, SectionAt(b, o, s)
  PROVE  /\ o + Len(s) <= Len(b) =>
              SplitFrom(b, split, o) = [ok |-> split[o + Len(s)].ok,
                                        sections |-> <<s>> \o split[o + Len(s)].sections]
         /\ o + Len(s) > Len(b) => SplitFrom(b, split, o) = Truncated
<1> b \in Seq(Cell) /\ o \in Nat /\ o < Len(b) /\ At(b, o, s)
  BY DEF SectionAt
<1>1. PICK frames \in Seq(Cell) :
        /\ s \in Seq(Cell) /\ Len(s) = Len(frames) + 7 /\ Len(frames) \in Nat
        /\ s[1] = Magic /\ s[2] = Number(Version) /\ s[4] = Number(1)
        /\ s[6] = Number(Len(frames) + 1)
  BY SectionCells DEF SectionAt
<1> \A j \in 1 .. Len(s) : o + j <= Len(b) => b[o + j] = s[j]
  BY DEF At
<1>2. Len(b) \in Nat /\ Len(s) \in Nat
  BY <1>1
<1>3. ~(o >= Len(b))
  BY <1>2
<1>4. b[o + 1] = Magic
  BY <1>1, <1>2
<1>5. CASE Len(b) < o + 4
  <2>1. o + Len(s) > Len(b)
    BY <1>1, <1>2, <1>5
  <2>2. Len(b) < o + HeaderSize + 1
    BY <1>5 DEF HeaderSize
  <2>3. SplitFrom(b, split, o) = Truncated
    BY <1>3, <2>2 DEF SplitFrom
  <2> QED
    BY <1>2, <2>1, <2>3
<1>6. CASE Len(b) >= o + 4
  <2>1. b[o + 2] = Number(Version) /\ b[o + 4] = Number(1)
    BY <1>1, <1>2, <1>6
  <2>2. Value(b[o + 2]) = Version /\ Value(b[o + 2]) # LegacyVersion
    <3>1. Version \in Nat /\ Version # LegacyVersion
      BY DEF Version, LegacyVersion
    <3>2. Value(Number(Version)) = Version
      BY <3>1, Cells
    <3> QED
      BY <2>1, <3>1, <3>2
  <2>3. MetadataEnd(b, o) = o + 5
    BY <2>1, SectionLengths
  <2>4. ~(Len(b) < o + HeaderSize + 1 \/ b[o + 1] # Magic)
    BY <1>2, <1>4, <1>6 DEF HeaderSize
  <2>5. SplitFrom(b, split, o)
          = IF Len(b) <= o + 5 \/ Len(b) < SectionEnd(b, o) THEN Truncated
            ELSE [ok |-> split[SectionEnd(b, o)].ok,
                  sections |-> <<SubSeq(b, o + 1, SectionEnd(b, o))>>
                                 \o split[SectionEnd(b, o)].sections]
    BY <1>3, <2>2, <2>3, <2>4 DEF SplitFrom
  <2>6. CASE Len(b) <= o + 5
    <3>1. o + Len(s) > Len(b)
      BY <1>1, <1>2, <2>6
    <3> QED
      BY <1>2, <2>5, <2>6, <3>1
  <2>7. CASE Len(b) > o + 5
    <3>1. b[o + 6] = Number(Len(frames) + 1)
      BY <1>1, <1>2, <2>7
    <3>2. SectionEnd(b, o) = o + Len(s)
      BY <1>1, <2>1, <3>1, SectionLengths
    <3>3. ~(Len(b) <= o + 5)
      BY <1>2, <2>7
    <3>4. CASE o + Len(s) > Len(b)
      BY <1>2, <2>5, <3>2, <3>4
    <3>5. CASE o + Len(s) <= Len(b)
      <4>1. SubSeq(b, o + 1, o + Len(s)) = s
        <5>1. \A i \in o + 1 .. o + Len(s) : b[i] \in Cell
          <6>1. o + 1 .. o + Len(s) \subseteq 1 .. Len(b)
            BY <1>2, <3>5
          <6> QED
            BY <6>1, ElementOfSeq
        <5> PICK q : q = SubSeq(b, o + 1, o + Len(s))
          OBVIOUS
        <5>2. /\ q \in Seq(Cell)
              /\ Len(q) = IF o + 1 <= o + Len(s) THEN (o + Len(s)) - (o + 1) + 1 ELSE 0
              /\ \A i \in 1 .. (o + Len(s)) - (o + 1) + 1 : q[i] = b[(o + 1) + i - 1]
          BY <1>2, <5>1, SubSeqProperties
        <5>3. Len(q) = Len(s) /\ (o + Len(s)) - (o + 1) + 1 = Len(s)
          BY <1>1, <1>2, <5>2
        <5>4. ASSUME NEW i \in 1 .. Len(s) PROVE q[i] = s[i]
          <6>1. (o + 1) + i - 1 = o + i /\ o + i <= Len(b)
            BY <1>2, <3>5
          <6> QED
            BY <5>2, <5>3, <6>1
        <5> QED
          BY <1>1, <5>2, <5>3, <5>4, SeqEqual
      <4>2. ~(Len(b) < o + Len(s))
        BY <1>2, <3>5
      <4>3. SplitFrom(b, split, o)
              = [ok |-> split[o + Len(s)].ok, sections |-> <<s>> \o split[o + Len(s)].sections]
        BY <2>5, <3>2, <3>3, <4>1, <4>2
      <4> QED
        BY <1>2, <3>5, <4>3
    <3> QED
      BY <1>2, <3>4, <3>5
  <2> QED
    BY <1>2, <2>6, <2>7
<1> QED
  BY <1>2, <1>5, <1>6

Before(s, rest) == [ok |-> rest.ok, sections |-> <<s>> \o rest.sections]

LEMMA SplitWhole ==
  ASSUME NEW b, NEW split, NEW o, NEW s, SectionAt(b, o, s), o + Len(s) <= Len(b)
  PROVE  SplitFrom(b, split, o) = Before(s, split[o + Len(s)])
BY SplitSection DEF Before

\* A section of version 1 takes the rest of the buffer.
LegacyAt(b, o, s) ==
  /\ b \in Seq(Cell) /\ o \in Nat /\ Len(b) = o + Len(s) /\ At(b, o, s)
  /\ \E m \in MetadataCell, frames \in Seq(Cell) : s = LegacyBlob(m, frames)

LEMMA SplitLegacy ==
  ASSUME NEW b, NEW split, NEW o, NEW s, LegacyAt(b, o, s)
  PROVE  SplitFrom(b, split, o) = [ok |-> TRUE, sections |-> <<s>>]
<1> b \in Seq(Cell) /\ o \in Nat /\ Len(b) = o + Len(s) /\ At(b, o, s)
  BY DEF LegacyAt
<1> PICK m \in MetadataCell, frames \in Seq(Cell) : s = LegacyBlob(m, frames)
  BY DEF LegacyAt
<1>1. /\ s \in Seq(Cell) /\ Len(s) = Len(frames) + 6 /\ Len(frames) \in Nat
      /\ s[1] = Magic /\ s[2] = Number(LegacyVersion)
  BY LegacyCells
<1>2. Len(b) \in Nat /\ Len(s) \in Nat
  BY <1>1
<1> \A j \in 1 .. Len(s) : b[o + j] = s[j]
  <2>1. \A j \in 1 .. Len(s) : o + j <= Len(b)
    BY <1>2
  <2> QED
    BY <2>1 DEF At
<1>3. ~(o >= Len(b))
  BY <1>1, <1>2
<1>4. b[o + 1] = Magic /\ b[o + 2] = Number(LegacyVersion)
  <2>1. 1 \in 1 .. Len(s) /\ 2 \in 1 .. Len(s)
    BY <1>1
  <2>2. b[o + 1] = s[1] /\ b[o + 2] = s[2]
    BY <2>1
  <2> QED
    BY <1>1, <2>2
<1>5. Value(b[o + 2]) = LegacyVersion
  BY <1>4, Cells DEF LegacyVersion
<1>6. ~(Len(b) < o + HeaderSize + 1)
  BY <1>1, <1>2 DEF HeaderSize
<1>7. SubSeq(b, o + 1, Len(b)) = s
  <2>1. \A i \in o + 1 .. Len(b) : b[i] \in Cell
    <3>1. o + 1 .. Len(b) \subseteq 1 .. Len(b)
      BY <1>2
    <3> QED
      BY <3>1, ElementOfSeq
  <2> PICK q : q = SubSeq(b, o + 1, Len(b))
    OBVIOUS
  <2>2. /\ q \in Seq(Cell)
        /\ Len(q) = IF o + 1 <= Len(b) THEN Len(b) - (o + 1) + 1 ELSE 0
        /\ \A i \in 1 .. Len(b) - (o + 1) + 1 : q[i] = b[(o + 1) + i - 1]
    BY <1>2, <2>1, SubSeqProperties
  <2>3. Len(q) = Len(s) /\ Len(b) - (o + 1) + 1 = Len(s)
    BY <1>1, <1>2, <2>2
  <2>4. ASSUME NEW i \in 1 .. Len(s) PROVE q[i] = s[i]
    <3>1. (o + 1) + i - 1 = o + i
      BY <1>2
    <3> QED
      BY <2>2, <2>3, <3>1
  <2> QED
    BY <1>1, <2>2, <2>3, <2>4, SeqEqual
<1> QED
  BY <1>3, <1>4, <1>5, <1>6, <1>7 DEF SplitFrom

\* The steps of an induction from the last section to the first.
LEMMA Downward ==
  ASSUME NEW n \in Nat, NEW d \in Nat, d + 1 <= n, NEW k, k = n - d
  PROVE  /\ k \in 1 .. n /\ k \in Nat /\ k - 1 = n - (d + 1) /\ k - 1 \in 0 .. n
         /\ k \in 0 .. n /\ (k - 1) + 1 = k
OBVIOUS

\* A blob of sections: the cells of each are at its offset, and it is not longer than its
\* sections; behind it is what follows.
LEMMA SectionsLaid ==
  ASSUME NEW s \in Seq(Seq(Cell)), NEW last \in Seq(Cell)
  PROVE  LET n == Len(s)
             b == concatAtrxBlobs(s) \o last
         IN  /\ b \in Seq(Cell) /\ Len(b) = Offset(s, n) + Len(last)
             /\ concatAtrxBlobs(s) \in Seq(Cell) /\ Len(concatAtrxBlobs(s)) = Offset(s, n)
             /\ \A j \in 1 .. Len(last) : b[Offset(s, n) + j] = last[j]
             /\ \A i \in 1 .. Offset(s, n) : b[i] = concatAtrxBlobs(s)[i]
             /\ \A k \in 1 .. n : \A j \in 1 .. Len(s[k]) :
                  concatAtrxBlobs(s)[Offset(s, k - 1) + j] = s[k][j]
<1> PICK n \in Nat : n = Len(s)
  OBVIOUS
<1> PICK a : a = concatAtrxBlobs(s)
  OBVIOUS
<1> PICK b : b = a \o last
  OBVIOUS
<1>1. a = Joined(s, n)
  BY JoinOne DEF concatAtrxBlobs
<1>2. a \in Seq(Cell) /\ Len(a) = Offset(s, n) /\ Len(a) \in Nat /\ Len(last) \in Nat
  <2>1. n \in 0 .. Len(s)
    OBVIOUS
  <2>2. Joined(s, n) \in Seq(Cell)
    BY <2>1, OffsetsAdd
  <2> QED
    BY <1>1, <2>2 DEF Offset
<1>3. /\ b \in Seq(Cell) /\ Len(b) = Len(a) + Len(last)
      /\ \A i \in 1 .. Len(a) + Len(last) : b[i] = IF i <= Len(a) THEN a[i] ELSE last[i - Len(a)]
  BY <1>2, ConcatProperties
<1>4. \A i \in 1 .. Len(a) : b[i] = a[i]
  <2>1. \A l, r \in Nat : \A i \in 1 .. l : i \in 1 .. l + r /\ i <= l
    OBVIOUS
  <2> QED
    BY <1>2, <1>3, <2>1
<1>5. ASSUME NEW j \in 1 .. Len(last) PROVE b[Len(a) + j] = last[j]
  <2>1. /\ Len(a) + j \in 1 .. Len(a) + Len(last) /\ ~(Len(a) + j <= Len(a))
        /\ (Len(a) + j) - Len(a) = j
    BY <1>2
  <2> QED
    BY <1>3, <2>1
<1>6. ASSUME NEW k \in 1 .. n
      PROVE  \A j \in 1 .. Len(s[k]) : a[Offset(s, k - 1) + j] = s[k][j]
  <2>1. n \in 0 .. Len(s)
    OBVIOUS
  <2>2. \A j \in 1 .. Len(s[k]) : Joined(s, n)[Offset(s, k - 1) + j] = s[k][j]
    BY <2>1, Placement
  <2> QED
    BY <1>1, <2>2
<1> QED
  BY <1>2, <1>3, <1>4, <1>5, <1>6

\* Section and section, and what may stand behind the last.
AllSections(s) == \A k \in 1 .. Len(s) : Section(s[k])
Ending(last, after) ==
  \/ last = << >> /\ after = << >>
  \/ \E m \in MetadataCell, frames \in Seq(Cell) :
       last = LegacyBlob(m, frames) /\ after = <<last>>

LEMMA Prepend ==
  ASSUME NEW t \in Seq(Cell), NEW x \in Seq(Seq(Cell)), NEW y \in Seq(Seq(Cell))
  PROVE  (<<t>> \o x) \o y = <<t>> \o (x \o y)
<1> PICK one : one = <<t>>
  OBVIOUS
<1>1. one \in Seq(Seq(Cell))
  OBVIOUS
<1>2. (one \o x) \o y = one \o (x \o y)
  <2> HIDE DEF Cell
  <2> QED
    BY <1>1, ConcatAssociative
<1> QED
  BY <1>2

\* What is split is what was concatenated, a section of version 1 behind it included.
THEOREM SplitOfConcat ==
  ASSUME NEW s \in Seq(Seq(Cell)), AllSections(s),
         NEW last \in Seq(Cell), NEW after \in Seq(Seq(Cell)), Ending(last, after)
  PROVE  splitAtrxBlobs(concatAtrxBlobs(s) \o last) = [ok |-> TRUE, sections |-> s \o after]
<1> PICK n \in Nat : n = Len(s)
  OBVIOUS
<1>0. PICK b : b = concatAtrxBlobs(s) \o last
  OBVIOUS
<1> DEFINE From(k) == [ok |-> TRUE, sections |-> SubSeq(s, k + 1, n) \o after]
<1>1. /\ b \in Seq(Cell) /\ Len(b) = Offset(s, n) + Len(last)
      /\ \A j \in 1 .. Len(last) : b[Offset(s, n) + j] = last[j]
      /\ \A i \in 1 .. Offset(s, n) : b[i] = concatAtrxBlobs(s)[i]
      /\ \A k \in 1 .. n : \A j \in 1 .. Len(s[k]) :
           concatAtrxBlobs(s)[Offset(s, k - 1) + j] = s[k][j]
  BY <1>0, SectionsLaid
<1>2. /\ Len(last) \in Nat /\ Len(b) \in Nat /\ Offset(s, 0) = 0
      /\ \A k \in 0 .. n : Offset(s, k) \in Nat
      /\ \A k \in 1 .. n : Offset(s, k) = Offset(s, k - 1) + Len(s[k])
  <2>1. Len(last) \in Nat /\ Len(b) \in Nat
    BY <1>1
  <2>2. /\ Offset(s, 0) = 0
        /\ \A k \in 0 .. Len(s) : Offset(s, k) \in Nat
        /\ \A k \in 1 .. Len(s) : Offset(s, k) = Offset(s, k - 1) + Len(s[k])
    BY OffsetsAdd
  <2> QED
    BY <2>1, <2>2
<1>3. \A k \in 1 .. n : Offset(s, k) <= Offset(s, n)
  <2>1. n \in 0 .. Len(s)
    OBVIOUS
  <2> QED
    BY <2>1, Placement
<1>4. PICK split : Splits(b, split) /\ splitAtrxBlobs(b) = split[0]
  BY <1>1, SplitDefined
<1>5. ASSUME NEW k \in 0 .. n
      PROVE  SubSeq(s, k + 1, n) \in Seq(Seq(Cell))
  <2>1. \A i \in k + 1 .. n : s[i] \in Seq(Cell)
    <3>1. k + 1 .. n \subseteq 1 .. n
      OBVIOUS
    <3> QED
      BY <3>1, ElementOfSeq
  <2> QED
    BY <2>1, SubSeqProperties
<1> DEFINE S == {d \in Nat : d <= n => split[Offset(s, n - d)] = From(n - d)}
<1>6. 0 \in S
  <2>1. From(n) = [ok |-> TRUE, sections |-> after]
    <3>1. SubSeq(s, n + 1, n) = << >>
      BY SubSeqEmpty
    <3> QED
      BY <3>1, ConcatEmptySeq
  <2>2. Offset(s, n) \in Nat
    BY <1>2
  <2>3. CASE last = << >> /\ after = << >>
    <3>1. Offset(s, n) >= Len(b)
      BY <1>1, <2>2, <2>3
    <3>2. split[Offset(s, n)] = SplitFrom(b, split, Offset(s, n))
      BY <1>4, <2>2 DEF Splits
    <3>3. split[Offset(s, n)] = From(n)
      BY <2>1, <2>3, <3>1, <3>2 DEF SplitFrom
    <3> QED
      BY <3>3
  <2>4. ASSUME NEW m \in MetadataCell, NEW frames \in Seq(Cell),
               last = LegacyBlob(m, frames), after = <<last>>
        PROVE  0 \in S
    <3>1. split[Offset(s, n)] = [ok |-> TRUE, sections |-> <<last>>]
      <4> PICK o : o = Offset(s, n)
        OBVIOUS
      <4>1. o \in Nat /\ Len(b) = o + Len(last) /\ \A j \in 1 .. Len(last) : b[o + j] = last[j]
        BY <1>1, <2>2
      <4>2. b \in Seq(Cell) /\ last = LegacyBlob(m, frames)
        BY <1>1, <2>4
      <4>3. LegacyAt(b, o, last)
        BY <4>1, <4>2 DEF LegacyAt, At
      <4>4. SplitFrom(b, split, o) = [ok |-> TRUE, sections |-> <<last>>]
        BY <4>3, SplitLegacy
      <4>5. split[o] = SplitFrom(b, split, o)
        BY <1>4, <4>1 DEF Splits
      <4> QED
        BY <4>4, <4>5
    <3>2. split[Offset(s, n)] = From(n)
      BY <2>1, <2>4, <3>1
    <3> QED
      BY <3>2
  <2> QED
    BY <2>3, <2>4 DEF Ending
<1>7. ASSUME NEW d \in Nat, d \in S PROVE d + 1 \in S
  <2> SUFFICES ASSUME d + 1 <= n
               PROVE  split[Offset(s, n - (d + 1))] = From(n - (d + 1))
    <3> HIDE DEF From
    <3> QED
      OBVIOUS
  <2> PICK k : k = n - d
    OBVIOUS
  <2>1. /\ k \in 1 .. n /\ k \in Nat /\ k - 1 = n - (d + 1) /\ k - 1 \in 0 .. n /\ k \in 0 .. n
        /\ (k - 1) + 1 = k
    BY Downward
  <2>2. split[Offset(s, k)] = From(k)
    BY <1>7, <2>1
  <2> PICK t : t = s[k]
    OBVIOUS
  <2>3. t \in Seq(Cell) /\ Section(t)
    BY <2>1, ElementOfSeq DEF AllSections
  <2>5. Len(t) \in Nat \ {0}
    <3>1. PICK frames \in Seq(Cell) : Len(t) = Len(frames) + 7 /\ Len(frames) \in Nat
      BY <2>3, SectionCells
    <3> QED
      BY <3>1
  <2> PICK o : o = Offset(s, k - 1)
    OBVIOUS
  <2>6. /\ o \in Nat /\ o + Len(t) = Offset(s, k) /\ Offset(s, k) \in Nat
        /\ Offset(s, n) \in Nat /\ Offset(s, k) <= Offset(s, n) /\ o + Len(t) <= Len(b)
        /\ o < Len(b)
    <3> n \in 0 .. n
      OBVIOUS
    <3>3. o \in Nat /\ Offset(s, k) \in Nat /\ Offset(s, n) \in Nat
      BY <1>2, <2>1
    <3>4. Offset(s, k) = Offset(s, k - 1) + Len(s[k])
      BY <1>2, <2>1
    <3>5. Offset(s, k) <= Offset(s, n)
      BY <1>3, <2>1
    <3>1. /\ o \in Nat /\ Offset(s, k) = o + Len(t) /\ Offset(s, k) \in Nat
          /\ Offset(s, n) \in Nat /\ Offset(s, k) <= Offset(s, n)
      BY <3>3, <3>4, <3>5
    <3>2. Len(b) = Offset(s, n) + Len(last) /\ Len(last) \in Nat
      BY <1>1, <1>2
    <3>6. \A x, l, y, z, r \in Nat : y = x + l /\ y <= z /\ l # 0 =>
            x + l = y /\ x + l <= z + r /\ x < z + r
      OBVIOUS
    <3>7. /\ o + Len(t) = Offset(s, k) /\ o + Len(t) <= Offset(s, n) + Len(last)
          /\ o < Offset(s, n) + Len(last)
      BY <2>5, <3>1, <3>2, <3>6
    <3> QED
      BY <3>1, <3>2, <3>7
  <2>7. ASSUME NEW j \in 1 .. Len(t) PROVE b[o + j] = t[j]
    <3>1. o + j \in 1 .. Offset(s, n)
      <4>1. \A x, l, z \in Nat : x + l <= z => \A i \in 1 .. l : x + i \in 1 .. z
        OBVIOUS
      <4> QED
        BY <2>5, <2>6, <4>1
    <3>2. b[o + j] = concatAtrxBlobs(s)[o + j]
      BY <1>1, <3>1
    <3> QED
      BY <1>1, <2>1, <3>2
  <2>8. split[o] = Before(t, split[o + Len(t)])
    <3>1. SectionAt(b, o, t) /\ o + Len(t) <= Len(b)
      BY <1>1, <2>3, <2>6, <2>7 DEF SectionAt, At
    <3>2. SplitFrom(b, split, o) = Before(t, split[o + Len(t)])
      BY <3>1, SplitWhole
    <3>3. split[o] = SplitFrom(b, split, o)
      BY <1>4, <2>6 DEF Splits
    <3> QED
      BY <3>2, <3>3
  <2>9. split[o] = [ok |-> TRUE, sections |-> <<t>> \o (SubSeq(s, k + 1, n) \o after)]
    <3>1. split[o + Len(t)] = From(k)
      BY <2>2, <2>6
    <3> QED
      BY <2>8, <3>1 DEF Before
  <2>10. <<t>> \o (SubSeq(s, k + 1, n) \o after) = SubSeq(s, k, n) \o after
    <3>1. <<t>> \in Seq(Seq(Cell)) /\ SubSeq(s, k + 1, n) \in Seq(Seq(Cell))
      BY <1>5, <2>1, <2>3
    <3>2. SubSeq(s, k, n) = <<t>> \o SubSeq(s, k + 1, n)
      <4>1. k \in 1 .. Len(s) /\ n \in k .. Len(s)
        BY <2>1
      <4> QED
        BY <4>1, SubSeqRecursiveFirst
    <3>4. t \in Seq(Cell) /\ SubSeq(s, k + 1, n) \in Seq(Seq(Cell))
      BY <2>3, <3>1
    <3>3. (<<t>> \o SubSeq(s, k + 1, n)) \o after = <<t>> \o (SubSeq(s, k + 1, n) \o after)
      BY <3>4, Prepend
    <3> QED
      BY <3>2, <3>3
  <2>11. From(k - 1) = [ok |-> TRUE, sections |-> SubSeq(s, k, n) \o after]
    BY <2>1
  <2>12. split[o] = From(k - 1)
    BY <2>9, <2>10, <2>11
  <2> QED
    BY <2>1, <2>12
<1>8. n \in S
  <2> HIDE DEF S
  <2> QED
    BY <1>6, <1>7, Induct
<1>9. split[0] = [ok |-> TRUE, sections |-> SubSeq(s, 1, n) \o after]
  BY <1>2, <1>8
<1>10. SubSeq(s, 1, n) = s
  BY SubSeqFull
<1> QED
  BY <1>0, <1>4, <1>9, <1>10

-----------------------------------------------------------------------------
(* A buffer that lost its end.                                             *)

\* The first n cells of b.
LEMMA Prefix ==
  ASSUME NEW b \in Seq(Cell), NEW n \in 1 .. Len(b)
  PROVE  LET c == SubSeq(b, 1, n)
         IN  c \in Seq(Cell) /\ Len(c) = n /\ \A i \in 1 .. n : c[i] = b[i]
<1>1. \A i \in 1 .. n : b[i] \in Cell
  BY ElementOfSeq
<1> PICK c : c = SubSeq(b, 1, n)
  OBVIOUS
<1>2. /\ c \in Seq(Cell) /\ Len(c) = IF 1 <= n THEN n - 1 + 1 ELSE 0
      /\ \A i \in 1 .. n - 1 + 1 : c[i] = b[1 + i - 1]
  BY <1>1, SubSeqProperties
<1>3. n \in Nat /\ 1 <= n /\ n - 1 + 1 = n /\ \A i \in 1 .. n : 1 + i - 1 = i
  OBVIOUS
<1> QED
  BY <1>2, <1>3

\* A section is parsed only when nothing is missing and nothing follows.
LEMMA ParsedWhole ==
  ASSUME NEW c, NEW t, SectionAt(c, 0, t), parseAtrxBlob(c).ok
  PROVE  Len(c) = Len(t)
<1>1. PICK frames \in Seq(Cell) :
        /\ t \in Seq(Cell) /\ Len(t) = Len(frames) + 7 /\ Len(frames) \in Nat
        /\ t[1] = Magic /\ t[2] = Number(Version) /\ t[4] = Number(1)
        /\ t[6] = Number(Len(frames) + 1)
  BY SectionCells DEF SectionAt
<1>2. /\ c \in Seq(Cell) /\ Len(c) \in Nat
      /\ \A j \in 1 .. Len(t) : j <= Len(c) => c[j] = t[j]
  BY DEF SectionAt, At
<1>3. ~Invalid.ok
  BY DEF Invalid
<1>4. Len(c) >= 4
  <2> SUFFICES ASSUME Len(c) < HeaderSize + 1 PROVE FALSE
    BY <1>2 DEF HeaderSize
  <2> QED
    BY <1>3 DEF parseAtrxBlob
<1>5. c[2] = Number(Version) /\ c[4] = Number(1)
  BY <1>1, <1>2, <1>4
<1>6. MetadataEnd(c, 0) = 5
  BY <1>5, SectionLengths
<1>7. Value(c[2]) = Version /\ Version # LegacyVersion
  BY <1>5, Cells DEF Version, LegacyVersion
<1>8. ~(Len(c) < 5) /\ ~(Len(c) = 5 \/ Len(c) # SectionEnd(c, 0))
  BY <1>3, <1>6, <1>7 DEF parseAtrxBlob
<1>9. c[6] = Number(Len(frames) + 1)
  <2>1. ~(Len(c) < 5) /\ Len(c) # 5
    BY <1>8
  <2>2. 6 <= Len(c) /\ 6 \in 1 .. Len(t)
    <3>1. \A l, f \in Nat : /\ ~(l < 5) /\ l # 5 => 6 <= l
                           /\ 6 \in 1 .. f + 7
      OBVIOUS
    <3> QED
      BY <1>1, <1>2, <2>1, <3>1
  <2>3. c[6] = t[6]
    BY <1>2, <2>2
  <2> QED
    BY <1>1, <2>3
<1>10. SectionEnd(c, 0) = Len(t)
  BY <1>1, <1>5, <1>9, SectionLengths
<1> QED
  BY <1>8, <1>10

\* The first n cells of a blob of sections.
CutOf(c, s, n) ==
  /\ s \in Seq(Seq(Cell)) /\ AllSections(s)
  /\ n \in 1 .. Len(concatAtrxBlobs(s)) /\ c = SubSeq(concatAtrxBlobs(s), 1, n)

\* The cells of a cut blob are those of its sections.
LEMMA PrefixOfSections ==
  ASSUME NEW s, NEW n, NEW c, CutOf(c, s, n)
  PROVE  /\ c \in Seq(Cell) /\ Len(c) = n /\ n \in Nat \ {0} /\ n <= Offset(s, Len(s))
         /\ \A k \in 1 .. Len(s) :
              Offset(s, k - 1) < n => SectionAt(c, Offset(s, k - 1), s[k])
<1> PICK b : b = concatAtrxBlobs(s)
  OBVIOUS
<1> s \in Seq(Seq(Cell)) /\ AllSections(s) /\ n \in 1 .. Len(b) /\ c = SubSeq(b, 1, n)
  BY DEF CutOf
<1> PICK N \in Nat : N = Len(s)
  OBVIOUS
<1>1. << >> \in Seq(Cell)
  OBVIOUS
<1>2. /\ b \in Seq(Cell) /\ Len(b) = Offset(s, N)
      /\ \A k \in 1 .. N : \A j \in 1 .. Len(s[k]) : b[Offset(s, k - 1) + j] = s[k][j]
  BY <1>1, SectionsLaid
<1>3. c \in Seq(Cell) /\ Len(c) = n /\ \A i \in 1 .. n : c[i] = b[i]
  BY <1>2, Prefix
<1>4. n \in Nat \ {0} /\ n <= Offset(s, N)
  BY <1>2
<1>5. ASSUME NEW k \in 1 .. N, Offset(s, k - 1) < n
      PROVE  SectionAt(c, Offset(s, k - 1), s[k])
  <2> PICK o : o = Offset(s, k - 1)
    OBVIOUS
  <2> PICK t : t = s[k]
    OBVIOUS
  <2>1. k - 1 \in 0 .. Len(s)
    OBVIOUS
  <2>2. o \in Nat
    BY <2>1, OffsetsAdd
  <2>3. t \in Seq(Cell) /\ Section(t)
    BY ElementOfSeq DEF AllSections
  <2>4. Len(t) \in Nat
    BY <2>3
  <2>5. ASSUME NEW j \in 1 .. Len(t), o + j <= Len(c) PROVE c[o + j] = t[j]
    <3>1. o + j \in 1 .. n
      BY <1>3, <1>4, <2>2, <2>4, <2>5
    <3>2. c[o + j] = b[o + j]
      BY <1>3, <3>1
    <3>3. b[o + j] = t[j]
      BY <1>2
    <3> QED
      BY <3>2, <3>3
  <2>6. At(c, o, t)
    BY <2>5 DEF At
  <2>7. o < Len(c)
    BY <1>3, <1>5
  <2> QED
    BY <1>3, <2>2, <2>3, <2>6, <2>7 DEF SectionAt
<1> QED
  BY <1>3, <1>4, <1>5

\* A blob that is cut is split only where it is cut between two sections.
THEOREM CutBetween ==
  ASSUME NEW s, NEW n, NEW c, CutOf(c, s, n), splitAtrxBlobs(c).ok
  PROVE  \E k \in 1 .. Len(s) : n = Offset(s, k)
<1>0. s \in Seq(Seq(Cell)) /\ Len(s) \in Nat
  <2>1. s \in Seq(Seq(Cell))
    BY DEF CutOf
  <2> QED
    BY <2>1
<1> PICK N \in Nat : N = Len(s)
  BY <1>0
<1>1. /\ c \in Seq(Cell) /\ Len(c) = n /\ n \in Nat \ {0} /\ n <= Offset(s, N)
      /\ \A k \in 1 .. N : Offset(s, k - 1) < n => SectionAt(c, Offset(s, k - 1), s[k])
  BY PrefixOfSections
<1>2. PICK split : Splits(c, split) /\ splitAtrxBlobs(c) = split[0]
  BY <1>1, SplitDefined
<1> DEFINE OnBoundary == \E k \in 1 .. N : n = Offset(s, k)
           S == {d \in Nat : d <= N /\ Offset(s, N - d) < n /\ split[Offset(s, N - d)].ok
                               => OnBoundary}
<1>3. 0 \in S
  <2>1. N - 0 = N /\ N \in 0 .. Len(s)
    OBVIOUS
  <2>2. Offset(s, N) \in Nat
    BY <1>0, <2>1, OffsetsAdd
  <2>3. ~(Offset(s, N - 0) < n)
    BY <1>1, <2>1, <2>2
  <2> QED
    BY <2>3
<1>4. ASSUME NEW d \in Nat, d \in S PROVE d + 1 \in S
  <2> HIDE DEF OnBoundary
  <2>0. SUFFICES ASSUME d + 1 <= N, Offset(s, N - (d + 1)) < n,
                        split[Offset(s, N - (d + 1))].ok
                 PROVE  OnBoundary
    OBVIOUS
  <2> PICK k : k = N - d
    OBVIOUS
  <2>1. /\ k \in 1 .. N /\ k \in Nat /\ k - 1 = N - (d + 1) /\ k - 1 \in 0 .. N /\ k \in 0 .. N
        /\ (k - 1) + 1 = k
    BY <2>0, Downward
  <2> PICK t : t = s[k]
    OBVIOUS
  <2> PICK o : o = Offset(s, k - 1)
    OBVIOUS
  <2>2. o < n /\ split[o].ok
    BY <2>0, <2>1
  <2>3. o \in Nat /\ Offset(s, k) \in Nat /\ Offset(s, k) = o + Len(t)
    <3>1. k \in 1 .. Len(s) /\ k - 1 \in 0 .. Len(s) /\ k \in 0 .. Len(s)
      BY <2>1
    <3> QED
      BY <1>0, <3>1, OffsetsAdd
  <2>4. SectionAt(c, o, t)
    BY <1>1, <2>1, <2>2
  <2>5. split[o] = SplitFrom(c, split, o)
    BY <1>2, <2>3 DEF Splits
  <2>6. CASE o + Len(t) > Len(c)
    <3>1. SplitFrom(c, split, o) = Truncated
      BY <2>4, <2>6, SplitSection
    <3> QED
      BY <2>2, <2>5, <3>1 DEF Truncated
  <2>7. CASE o + Len(t) <= Len(c)
    <3>1. SplitFrom(c, split, o) = Before(t, split[o + Len(t)])
      BY <2>4, <2>7, SplitWhole
    <3>2. split[Offset(s, k)].ok
      BY <2>2, <2>3, <2>5, <3>1 DEF Before
    <3>3. CASE Offset(s, k) < n
      <4>1. d <= N
        BY <2>0
      <4> QED
        BY <1>4, <3>2, <3>3, <4>1
    <3>4. CASE Offset(s, k) = n
      BY <2>1, <3>4 DEF OnBoundary
    <3> QED
      BY <1>1, <2>3, <2>7, <3>3, <3>4
  <2> QED
    BY <1>1, <2>3, <2>6, <2>7
<1>5. N \in S
  <2> HIDE DEF S
  <2> QED
    BY <1>3, <1>4, Induct
<1>6. Offset(s, 0) = 0 /\ N - N = 0
  BY <1>0, OffsetsAdd
<1> QED
  BY <1>1, <1>2, <1>5, <1>6

\* The beginning of a blob is parsed only when it is the first section.
LEMMA ParsedFirst ==
  ASSUME NEW s, NEW n, NEW c, CutOf(c, s, n), parseAtrxBlob(c).ok
  PROVE  n = Len(s[1])
<1>0. s \in Seq(Seq(Cell))
  BY DEF CutOf
<1>1. /\ Len(c) = n /\ n \in Nat \ {0} /\ n <= Offset(s, Len(s))
      /\ \A k \in 1 .. Len(s) : Offset(s, k - 1) < n => SectionAt(c, Offset(s, k - 1), s[k])
  BY PrefixOfSections
<1>2. Offset(s, 1 - 1) = 0 /\ 1 \in 1 .. Len(s)
  <2>1. Offset(s, 0) = 0
    BY <1>0, OffsetsAdd
  <2>2. Len(s) # 0
    BY <1>1, <2>1
  <2>3. Len(s) \in Nat
    BY <1>0
  <2> QED
    BY <2>1, <2>2, <2>3
<1>3. SectionAt(c, 0, s[1])
  BY <1>1, <1>2
<1> QED
  BY <1>1, <1>3, ParsedWhole

-----------------------------------------------------------------------------
(* Sightings.                                                              *)

\* A blob and nothing behind it, and a blob with a section of version 1 behind it.
LEMMA SplitBack ==
  ASSUME NEW s \in Seq(Seq(Cell)), AllSections(s)
  PROVE  splitAtrxBlobs(concatAtrxBlobs(s)) = [ok |-> TRUE, sections |-> s]
<1> PICK none : none = << >>
  OBVIOUS
<1> PICK b : b = concatAtrxBlobs(s)
  OBVIOUS
<1>1. none \in Seq(Cell) /\ none \in Seq(Seq(Cell)) /\ Ending(none, none)
  BY DEF Ending
<1>2. splitAtrxBlobs(b \o none) = [ok |-> TRUE, sections |-> s \o none]
  BY <1>1, SplitOfConcat
<1>3. b \in Seq(Cell)
  BY <1>1, SectionsLaid
<1>4. b \o none = b /\ s \o none = s
  BY <1>3, ConcatEmptySeq
<1> QED
  BY <1>2, <1>4

LEMMA SplitBackLegacy ==
  ASSUME NEW s \in Seq(Seq(Cell)), AllSections(s),
         NEW m \in MetadataCell, NEW frames \in Seq(Cell)
  PROVE  splitAtrxBlobs(concatAtrxBlobs(s) \o LegacyBlob(m, frames)).sections
           = Append(s, LegacyBlob(m, frames))
<1> PICK last : last = LegacyBlob(m, frames)
  OBVIOUS
<1> PICK after : after = <<last>>
  OBVIOUS
<1>1. last \in Seq(Cell)
  BY LegacyCells
<1>2. after \in Seq(Seq(Cell)) /\ Ending(last, after)
  BY <1>1 DEF Ending
<1>3. splitAtrxBlobs(concatAtrxBlobs(s) \o last) = [ok |-> TRUE, sections |-> s \o after]
  BY <1>1, <1>2, SplitOfConcat
<1>4. s \o after = Append(s, last)
  BY <1>1, AppendIsConcat
<1> QED
  BY <1>3, <1>4

\* The section of version 1 that the property puts behind: one frame, counted once.
LEMMA LegacyFrame ==
  /\ Frame(0) \in Seq(Cell) /\ Metadata(0, 0, 1) \in MetadataCell
  /\ parseAtrxBlob(LegacyBlob(Metadata(0, 0, 1), Frame(0))).ok
<1> PICK p : p = Frame(0)
  OBVIOUS
<1>1. p = <<Escape(0), Kind(0), Escape(0), Escape(0), Kind(0), Magic>>
  BY DEF Frame
<1>2. p \in Seq(Cell) /\ Len(p) = 6
  <2>1. Escape(0) \in Cell /\ Kind(0) \in Cell /\ Magic \in Cell
    BY Cells
  <2>2. \A C, x, y, z : x \in C /\ y \in C /\ z \in C =>
          <<x, y, x, x, y, z>> \in Seq(C) /\ Len(<<x, y, x, x, y, z>>) = 6
    OBVIOUS
  <2> QED
    BY <1>1, <2>1, <2>2, Zenon
<1>3. /\ p[1].cell = "escape" /\ p[2].cell = "kind" /\ p[3].cell = "escape"
      /\ p[4].cell = "escape" /\ p[5].cell = "kind" /\ p[6].cell = "ATRX"
  BY <1>1 DEF Escape, Kind, Magic
<1>4. PICK count : Counts(p, count) /\ countBeastFrames(p) = count[1]
  BY <1>2, CountDefined
<1>5. \A i \in Nat : count[i] = CountFrom(p, count, i)
  BY <1>4 DEF Counts
<1>6. count[7] = 0
  BY <1>2, <1>5 DEF CountFrom
<1>7. count[6] = 0
  BY <1>2, <1>3, <1>5, <1>6 DEF CountFrom
<1>8. count[5] = 0
  BY <1>2, <1>3, <1>5, <1>7 DEF CountFrom
<1>9. count[3] = 0
  BY <1>2, <1>3, <1>5, <1>8 DEF CountFrom
<1>10. count[1] = 1
  BY <1>2, <1>3, <1>5, <1>9 DEF CountFrom
<1>11. Metadata(0, 0, 1) \in MetadataCell /\ Metadata(0, 0, 1).frameCount = 1
  BY DEF Metadata, MetadataCell
<1>12. parseAtrxBlob(LegacyBlob(Metadata(0, 0, 1), p)) = Checked(Metadata(0, 0, 1), p)
  BY <1>2, <1>11, LegacyParsed
<1>13. Checked(Metadata(0, 0, 1), p).ok
  BY <1>4, <1>10, <1>11 DEF Checked
<1> QED
  BY <1>2, <1>11, <1>12, <1>13

\* A capture under the window of a sighting.
Stamped(capture, begin, end) ==
  buildAtrxBlob(Metadata(begin, end, countBeastFrames(BytesOf(capture.frames))),
                BytesOf(capture.frames))

Restamped(files, of, begin, end) ==
  [k \in DOMAIN of |-> Stamped(files[of[k]], begin, end)]

\* What a callback has in hand, and the blob of a sighting, are the captures named,
\* under its window.
Carried ==
  /\ \A f \in Flushers :
       /\ batch[f].from \in Time /\ batch[f].to \in Time
       /\ batch[f].blobs = Restamped(captures, batch[f].read, batch[f].from, batch[f].to)
  /\ \A s \in DOMAIN sightings :
       /\ sightings[s].from \in Time /\ sightings[s].to \in Time
       /\ sightings[s].blob
            = concatAtrxBlobs(Restamped(captures, sightings[s].of,
                                        sightings[s].from, sightings[s].to))

\* What is parsed of a stamped capture, and what it is stamped with again.
LEMMA StampedParsed ==
  ASSUME NEW capture \in Capture, NEW begin \in Time, NEW end \in Time
  PROVE  LET blob == Stamped(capture, begin, end)
             parsed == parseAtrxBlob(blob)
         IN  /\ blob \in Seq(Cell) /\ Section(blob)
             /\ parsed.ok /\ parsed.frames = BytesOf(capture.frames)
             /\ parsed.metadata.from = begin /\ parsed.metadata.to = end
             /\ parsed.metadata.frameCount = countBeastFrames(BytesOf(capture.frames))
<1> PICK p : p = BytesOf(capture.frames)
  OBVIOUS
<1> PICK m : m = Metadata(begin, end, countBeastFrames(p))
  OBVIOUS
<1>1. p \in Seq(Cell)
  <2>1. capture.frames \in Seq(Part)
    BY DEF Capture
  <2> QED
    BY <2>1, BytesLaid
<1>2. countBeastFrames(p) \in Nat
  <2>1. Len(p) \in Nat
    BY <1>1
  <2>2. PICK count : Counts(p, count) /\ countBeastFrames(p) = count[1]
    BY <2>1, CountDefined
  <2>3. \A i \in Nat : count[i] \in Nat
    BY <2>1, <2>2, CountNatural
  <2> QED
    BY <2>2, <2>3
<1>3. /\ m \in MetadataCell /\ m.from = begin /\ m.to = end
      /\ m.frameCount = countBeastFrames(p)
  <2>1. begin \in Nat /\ end \in Nat
    BY BoundAssumption DEF Time
  <2> QED
    BY <1>2, <2>1 DEF Metadata, MetadataCell
<1>4. Stamped(capture, begin, end) = buildAtrxBlob(m, p)
  BY DEF Stamped
<1>5. buildAtrxBlob(m, p) \in Seq(Cell) /\ Section(buildAtrxBlob(m, p))
  BY <1>1, <1>3, BlobCells DEF Section
<1>6. parseAtrxBlob(buildAtrxBlob(m, p)) = Checked(m, p)
  BY <1>1, <1>3, ParseInverts
<1>7. Checked(m, p).ok /\ Checked(m, p).metadata = m /\ Checked(m, p).frames = p
  BY <1>3 DEF Checked
<1> QED
  BY <1>3, <1>4, <1>5, <1>6, <1>7

\* A sighting's sections.
Stampable(files, of, begin, end) ==
  /\ files \in Seq(Capture) /\ of \in Seq(1 .. Len(files))
  /\ begin \in Time /\ end \in Time

LEMMA RestampedSections ==
  ASSUME NEW files, NEW of, NEW begin, NEW end, Stampable(files, of, begin, end)
  PROVE  LET s == Restamped(files, of, begin, end)
         IN  /\ s \in Seq(Seq(Cell)) /\ AllSections(s) /\ Len(s) = Len(of)
             /\ \A k \in 1 .. Len(of) : s[k] = Stamped(files[of[k]], begin, end)
             /\ \A k \in 1 .. Len(of) : files[of[k]] \in Capture
<1> files \in Seq(Capture) /\ of \in Seq(1 .. Len(files)) /\ begin \in Time /\ end \in Time
  BY DEF Stampable
<1> PICK s : s = Restamped(files, of, begin, end)
  OBVIOUS
<1>1. Len(of) \in Nat /\ DOMAIN of = 1 .. Len(of)
  OBVIOUS
<1>2. \A k \in 1 .. Len(of) : files[of[k]] \in Capture
  BY ElementOfSeq
<1>3. s = [k \in 1 .. Len(of) |-> Stamped(files[of[k]], begin, end)]
  BY <1>1 DEF Restamped
<1>4. \A k \in 1 .. Len(of) : s[k] = Stamped(files[of[k]], begin, end)
  BY <1>3
<1>5. ASSUME NEW k \in 1 .. Len(of) PROVE s[k] \in Seq(Cell) /\ Section(s[k])
  <2>1. files[of[k]] \in Capture /\ s[k] = Stamped(files[of[k]], begin, end)
    BY <1>2, <1>4
  <2>2. LET blob == Stamped(files[of[k]], begin, end)
        IN  blob \in Seq(Cell) /\ Section(blob)
    BY <2>1, StampedParsed
  <2> QED
    BY <2>1, <2>2
<1>6. s \in Seq(Seq(Cell)) /\ Len(s) = Len(of)
  BY <1>1, <1>3, <1>5
<1>7. AllSections(s)
  BY <1>5, <1>6 DEF AllSections
<1> QED
  BY <1>2, <1>4, <1>6, <1>7

\* A file, read and stamped.
LEMMA Reread ==
  ASSUME NEW i, captures[i] \in Capture, NEW begin, NEW end
  PROVE  LET parsed == parseAtrxBlob(File(i))
         IN  buildAtrxBlob(Metadata(begin, end, parsed.metadata.frameCount), parsed.frames)
               = Stamped(captures[i], begin, end)
<1> PICK capture : capture = captures[i]
  OBVIOUS
<1>1. /\ File(i) = Stamped(capture, capture.from, capture.to)
      /\ capture \in Capture /\ capture.from \in Time /\ capture.to \in Time
  BY DEF File, FrameCount, Stamped, Capture
<1>2. /\ parseAtrxBlob(File(i)).frames = BytesOf(capture.frames)
      /\ parseAtrxBlob(File(i)).metadata.frameCount
           = countBeastFrames(BytesOf(capture.frames))
  BY <1>1, StampedParsed
<1> QED
  BY <1>2 DEF Stamped

\* The first n files stay as they are.
Extended(files, more, n) == \A i \in 1 .. n : more[i] = files[i]

LEMMA RestampedStay ==
  ASSUME NEW n, NEW of \in Seq(1 .. n), NEW files, NEW more, Extended(files, more, n),
         NEW begin, NEW end
  PROVE  Restamped(more, of, begin, end) = Restamped(files, of, begin, end)
<1>1. \A k \in DOMAIN of : of[k] \in 1 .. n
  <2>1. DOMAIN of = 1 .. Len(of)
    OBVIOUS
  <2> QED
    BY <2>1, ElementOfSeq
<1>2. \A k \in DOMAIN of : more[of[k]] = files[of[k]]
  BY <1>1 DEF Extended
<1> QED
  BY <1>2 DEF Restamped

LEMMA RestampedMore ==
  ASSUME NEW files, NEW n, NEW of \in Seq(1 .. n), NEW i \in 1 .. n, NEW begin, NEW end
  PROVE  Restamped(files, Append(of, i), begin, end)
           = Append(Restamped(files, of, begin, end), Stamped(files[i], begin, end))
<1> PICK new : new = Append(of, i)
  OBVIOUS
<1> PICK s : s = Restamped(files, of, begin, end)
  OBVIOUS
<1> PICK l \in Nat : l = Len(of)
  OBVIOUS
<1>1. /\ DOMAIN of = 1 .. l /\ DOMAIN new = 1 .. l + 1
      /\ \A k \in 1 .. l : new[k] = of[k]
      /\ new[l + 1] = i
  OBVIOUS
<1>2. s = [k \in 1 .. l |-> Stamped(files[of[k]], begin, end)]
  BY <1>1 DEF Restamped
<1>3. s \in Seq(Range(s)) /\ Len(s) = l
  <2>1. \A k \in 1 .. l : s[k] \in Range(s)
    BY <1>2 DEF Range
  <2> QED
    BY <1>2, <2>1
<1> PICK t : t = Append(s, Stamped(files[i], begin, end))
  OBVIOUS
<1>4. /\ DOMAIN t = 1 .. l + 1 /\ t[l + 1] = Stamped(files[i], begin, end)
      /\ \A k \in 1 .. l : t[k] = s[k]
      /\ t = [k \in DOMAIN t |-> t[k]]
  BY <1>3
<1> PICK r : r = Restamped(files, new, begin, end)
  OBVIOUS
<1>5. r = [k \in 1 .. l + 1 |-> Stamped(files[new[k]], begin, end)]
  BY <1>1 DEF Restamped
<1>6. ASSUME NEW k \in 1 .. l + 1 PROVE t[k] = Stamped(files[new[k]], begin, end)
  <2>1. CASE k \in 1 .. l
    BY <1>1, <1>2, <1>4, <2>1
  <2>2. CASE k = l + 1
    BY <1>1, <1>4, <2>2
  <2>3. k \in 1 .. l \/ k = l + 1
    <3>1. \A m \in Nat : \A j \in 1 .. m + 1 : j \in 1 .. m \/ j = m + 1
      OBVIOUS
    <3> QED
      BY <3>1
  <2> QED
    BY <2>1, <2>2, <2>3
<1>7. t = [k \in 1 .. l + 1 |-> Stamped(files[new[k]], begin, end)]
  <2>1. t = [k \in 1 .. l + 1 |-> t[k]]
    BY <1>4
  <2>2. [k \in 1 .. l + 1 |-> t[k]] = [k \in 1 .. l + 1 |-> Stamped(files[new[k]], begin, end)]
    BY <1>6
  <2> QED
    BY <2>1, <2>2, Zenon
<1> QED
  BY <1>5, <1>7

LEMMA RestampedNone ==
  ASSUME NEW files, NEW begin, NEW end
  PROVE  Restamped(files, << >>, begin, end) = << >>
<1> DEFINE none == [k \in {} |-> Stamped(files[<< >>[k]], begin, end)]
<1>1. DOMAIN << >> = {}
  OBVIOUS
<1>2. Restamped(files, << >>, begin, end) = none
  BY <1>1 DEF Restamped
<1>3. DOMAIN none = {}
  OBVIOUS
<1>4. none = [k \in 1 .. 0 |-> Stamped(files[<< >>[k]], begin, end)]
  BY SMT
<1>5. none \in Seq({}) /\ Len(none) = 0
  BY <1>4
<1> HIDE DEF none
<1>6. none = << >>
  BY <1>5, EmptySeq
<1> QED
  BY <1>2, <1>6

LEMMA CarriedBegins == ChainInit => Carried
<1> SUFFICES ASSUME ChainInit PROVE Carried
  OBVIOUS
<1>1. sightings = << >> /\ batch = [f \in Flushers |-> NoBatch] /\ 0 \in Time
  BY BoundAssumption DEF ChainInit, Time
<1>2. ASSUME NEW f \in Flushers
      PROVE  /\ batch[f].from \in Time /\ batch[f].to \in Time
             /\ batch[f].blobs
                  = Restamped(captures, batch[f].read, batch[f].from, batch[f].to)
  <2>1. /\ batch[f].from = 0 /\ batch[f].to = 0 /\ batch[f].read = << >>
        /\ batch[f].blobs = << >>
    BY <1>1 DEF NoBatch
  <2> QED
    BY <1>1, <2>1, RestampedNone
<1>3. DOMAIN sightings = {}
  BY <1>1
<1> QED
  BY <1>2, <1>3 DEF Carried

\* The adapter goes on: captures are only added.
LEMMA CarriedOn ==
  ASSUME TypeOK, DaemonInv, Carried, [Next]_vars, UNCHANGED chain
  PROVE  Carried'
<1>1. Extended(captures, captures', told)
  <2>1. captures \in Seq(Capture) /\ \A w \in Writers : writer[w] \in Capture
    BY DEF TypeOK
  <2>2. \/ captures' = captures
        \/ \E w \in Writers : captures' = Append(captures, writer[w])
    BY DEF Next, vars, output, Tick, LinkUp, LinkDown, BeastConnected, BeastClosed,
           BeastReconnect, Receive, ReceiveRest, Gather, FlushNothing, Flush, Written,
           WriteFails, StopCapture
  <2>3. \A i \in 1 .. Len(captures) : captures'[i] = captures[i]
    BY <2>1, <2>2
  <2>4. 1 .. told \subseteq 1 .. Len(captures)
    <3>1. told \in 0 .. Len(captures) /\ Len(captures) \in Nat
      BY <2>1 DEF DaemonInv, Lists
    <3> QED
      BY <3>1
  <2> QED
    BY <2>3, <2>4 DEF Extended
<1>2. batch' = batch /\ sightings' = sightings
  BY DEF chain
<1>3. ASSUME NEW of, Listed(of, told), NEW begin, NEW end
      PROVE  Restamped(captures', of, begin, end) = Restamped(captures, of, begin, end)
  <2>1. of \in Seq(1 .. told)
    BY <1>3 DEF Listed
  <2> QED
    BY <1>1, <2>1, RestampedStay
<1>4. ASSUME NEW f \in Flushers
      PROVE  /\ batch[f].from \in Time /\ batch[f].to \in Time
             /\ batch[f].blobs
                  = Restamped(captures', batch[f].read, batch[f].from, batch[f].to)
  <2>1. Listed(batch[f].read, told)
    BY DEF DaemonInv, Lists
  <2> QED
    BY <1>3, <2>1 DEF Carried
<1>5. ASSUME NEW s \in DOMAIN sightings
      PROVE  /\ sightings[s].from \in Time /\ sightings[s].to \in Time
             /\ sightings[s].blob
                  = concatAtrxBlobs(Restamped(captures', sightings[s].of,
                                              sightings[s].from, sightings[s].to))
  <2>1. Listed(sightings[s].of, told)
    BY DEF DaemonInv, Lists
  <2> QED
    BY <1>3, <2>1 DEF Carried
<1> QED
  BY <1>2, <1>4, <1>5 DEF Carried

\* A batch changes, or none does: what is in it is carried before and after.
LEMMA CarriedStep ==
  ASSUME Carried, captures' = captures, sightings' = sightings, DOMAIN batch = Flushers,
         NEW f \in Flushers, NEW b, batch' = [batch EXCEPT ![f] = b],
         b.from \in Time, b.to \in Time,
         b.blobs = Restamped(captures, b.read, b.from, b.to)
  PROVE  Carried'
<1>1. batch'[f] = b /\ \A g \in Flushers : g # f => batch'[g] = batch[g]
  OBVIOUS
<1>2. ASSUME NEW g \in Flushers
      PROVE  /\ batch'[g].from \in Time /\ batch'[g].to \in Time
             /\ batch'[g].blobs
                  = Restamped(captures, batch'[g].read, batch'[g].from, batch'[g].to)
  <2>1. CASE g = f
    BY <1>1, <2>1
  <2>2. CASE g # f
    <3>1. batch'[g] = batch[g]
      BY <1>1, <2>2
    <3> QED
      BY <3>1 DEF Carried
  <2> QED
    BY <2>1, <2>2
<1> QED
  BY <1>2 DEF Carried

LEMMA CarriedBatch ==
  ASSUME IndInv, DaemonInv, Carried, NEW f \in Flushers, NEW telemetry \in BOOLEAN,
         Batch(f, telemetry)
  PROVE  Carried'
<1>1. captures' = captures /\ sightings' = sightings /\ DOMAIN batch = Flushers
  BY DEF Batch, vars, output, DaemonInv, Lists
<1>2. CASE telemetry /\ rawCaptureEnabled
  <2> PICK b : b = [NoBatch EXCEPT !.todo = paths, !.from = from, !.to = now]
    OBVIOUS
  <2>1. batch' = [batch EXCEPT ![f] = b]
    BY <1>2 DEF Batch
  <2>2. b.from = from /\ b.to = now /\ b.read = << >> /\ b.blobs = << >>
    BY DEF NoBatch
  <2>3. from \in Time /\ now \in Time
    BY DEF DaemonInv, Stamps, IndInv, TypeOK
  <2>4. b.blobs = Restamped(captures, b.read, b.from, b.to)
    BY <2>2, RestampedNone
  <2> QED
    BY <1>1, <2>1, <2>2, <2>3, <2>4, CarriedStep
<1>3. CASE ~(telemetry /\ rawCaptureEnabled)
  <2>1. batch' = batch
    BY <1>3 DEF Batch
  <2> QED
    BY <1>1, <2>1 DEF Carried
<1> QED
  BY <1>2, <1>3

LEMMA CarriedRestamp ==
  ASSUME IndInv, DaemonInv, Carried, NEW f \in Flushers, Restamp(f) \/ RestampFails(f)
  PROVE  Carried'
<1> PICK i : i = Head(batch[f].todo)
  OBVIOUS
<1> PICK old : old = batch[f]
  OBVIOUS
<1>1. /\ captures' = captures /\ sightings' = sightings /\ DOMAIN batch = Flushers
      /\ DOMAIN old = DOMAIN NoBatch
  BY DEF Restamp, RestampFails, vars, output, DaemonInv, Lists
<1>2. /\ old.from \in Time /\ old.to \in Time
      /\ old.blobs = Restamped(captures, old.read, old.from, old.to)
  BY DEF Carried
<1>3. CASE Restamp(f)
  <2> PICK blob : blob = Stamped(captures[i], old.from, old.to)
    OBVIOUS
  <2>1. i \in 1 .. told /\ captures[i] \in Capture
    <3>1. old.todo \in Seq(1 .. told) /\ old.todo # << >>
      BY <1>3 DEF Restamp, DaemonInv, Lists, Listed
    <3>2. i \in 1 .. told
      <4>1. Len(old.todo) \in Nat /\ Len(old.todo) # 0
        BY <3>1, EmptySeq
      <4>2. 1 \in 1 .. Len(old.todo)
        BY <4>1
      <4>3. old.todo[1] \in 1 .. told
        BY <3>1, <4>2, ElementOfSeq
      <4> QED
        BY <4>3
    <3>3. captures \in Seq(Capture) /\ told \in 0 .. Len(captures)
      BY DEF IndInv, TypeOK, DaemonInv, Lists
    <3>4. i \in 1 .. Len(captures)
      BY <3>2, <3>3
    <3> QED
      BY <3>2, <3>3, <3>4, ElementOfSeq
  <2>2. LET parsed == parseAtrxBlob(File(i))
        IN  blob = buildAtrxBlob(Metadata(old.from, old.to, parsed.metadata.frameCount),
                                 parsed.frames)
    BY <2>1, Reread
  <2> PICK b : b = [old EXCEPT !.todo = Tail(old.todo), !.read = Append(old.read, i),
                               !.blobs = Append(old.blobs, blob)]
    OBVIOUS
  <2>3. batch' = [batch EXCEPT ![f] = b]
    BY <1>1, <1>3, <2>2 DEF Restamp
  <2>4. /\ b.from = old.from /\ b.to = old.to /\ b.read = Append(old.read, i)
        /\ b.blobs = Append(old.blobs, blob)
    BY <1>1 DEF NoBatch
  <2>5. old.read \in Seq(1 .. told)
    BY DEF DaemonInv, Lists, Listed
  <2>6. b.blobs = Restamped(captures, b.read, b.from, b.to)
    BY <1>2, <2>1, <2>4, <2>5, RestampedMore
  <2> QED
    BY <1>1, <1>2, <2>3, <2>4, <2>6, CarriedStep
<1>4. CASE RestampFails(f)
  <2> PICK b : b = [old EXCEPT !.todo = Tail(old.todo)]
    OBVIOUS
  <2>1. batch' = [batch EXCEPT ![f] = b]
    BY <1>1, <1>4 DEF RestampFails
  <2>2. b.from = old.from /\ b.to = old.to /\ b.read = old.read /\ b.blobs = old.blobs
    BY <1>1 DEF NoBatch
  <2> QED
    BY <1>1, <1>2, <2>1, <2>2, CarriedStep
<1> QED
  BY <1>3, <1>4

LEMMA CarriedEnd ==
  ASSUME IndInv, DaemonInv, Carried, NEW f \in Flushers, Publish(f) \/ UploadFails(f)
  PROVE  Carried'
<1>1. /\ captures' = captures /\ DOMAIN batch = Flushers
      /\ batch' = [batch EXCEPT ![f] = NoBatch]
  BY DEF Publish, UploadFails, vars, output, DaemonInv, Lists
<1>2. ASSUME NEW g \in Flushers
      PROVE  /\ batch'[g].from \in Time /\ batch'[g].to \in Time
             /\ batch'[g].blobs
                  = Restamped(captures, batch'[g].read, batch'[g].from, batch'[g].to)
  <2>1. CASE g = f
    <3>1. batch'[g] = NoBatch
      BY <1>1, <2>1
    <3>2. /\ NoBatch.from = 0 /\ NoBatch.to = 0 /\ NoBatch.read = << >>
          /\ NoBatch.blobs = << >>
      BY DEF NoBatch
    <3>3. 0 \in Time
      BY BoundAssumption DEF Time
    <3> QED
      BY <3>1, <3>2, <3>3, RestampedNone
  <2>2. CASE g # f
    <3>1. batch'[g] = batch[g]
      BY <1>1, <2>2
    <3> QED
      BY <3>1 DEF Carried
  <2> QED
    BY <2>1, <2>2
<1>3. CASE sightings' = sightings
  BY <1>1, <1>2, <1>3 DEF Carried
<1>4. CASE Publish(f) /\ batch[f].blobs # << >>
  <2> PICK n : n = Len(sightings) + 1
    OBVIOUS
  <2> PICK sighting : sighting = [from |-> batch[f].from, to |-> batch[f].to,
                                  of |-> batch[f].read,
                                  blob |-> concatAtrxBlobs(batch[f].blobs)]
    OBVIOUS
  <2>1. sightings' = Append(sightings, sighting)
    BY <1>4 DEF Publish
  <2>2. /\ DOMAIN sightings' = DOMAIN sightings \cup {n}
        /\ \A s \in DOMAIN sightings : sightings'[s] = sightings[s]
        /\ sightings'[n] = sighting
    BY <2>1, AppendAny DEF DaemonInv, Lists
  <2>3. /\ sighting.from \in Time /\ sighting.to \in Time
        /\ sighting.blob = concatAtrxBlobs(Restamped(captures, sighting.of,
                                                     sighting.from, sighting.to))
    BY DEF Carried
  <2>4. ASSUME NEW s \in DOMAIN sightings'
        PROVE  /\ sightings'[s].from \in Time /\ sightings'[s].to \in Time
               /\ sightings'[s].blob
                    = concatAtrxBlobs(Restamped(captures, sightings'[s].of,
                                                sightings'[s].from, sightings'[s].to))
    <3>1. CASE s = n
      BY <2>2, <2>3, <3>1
    <3>2. CASE s \in DOMAIN sightings
      <4>1. sightings'[s] = sightings[s]
        BY <2>2, <3>2
      <4> QED
        BY <3>2, <4>1 DEF Carried
    <3> QED
      BY <2>2, <3>1, <3>2
  <2> QED
    BY <1>1, <1>2, <2>4 DEF Carried
<1> QED
  BY <1>3, <1>4 DEF Publish, UploadFails

LEMMA CarriedKeeps == IndInv /\ DaemonInv /\ Carried /\ [ChainNext]_chainVars => Carried'
<1> SUFFICES ASSUME IndInv, DaemonInv, Carried, [ChainNext]_chainVars PROVE Carried'
  OBVIOUS
<1>1. CASE [Next]_vars /\ UNCHANGED chain
  BY <1>1, CarriedOn DEF IndInv
<1>2. CASE OnRawCapture
  <2>1. captures' = captures /\ batch' = batch /\ sightings' = sightings
    BY <1>2 DEF OnRawCapture, vars, output
  <2> QED
    BY <2>1 DEF Carried
<1>3. ASSUME NEW f \in Flushers, NEW telemetry \in BOOLEAN, Batch(f, telemetry)
      PROVE  Carried'
  BY <1>3, CarriedBatch
<1>4. ASSUME NEW f \in Flushers,
             Restamp(f) \/ RestampFails(f) \/ Publish(f) \/ UploadFails(f)
      PROVE  Carried'
  BY <1>4, CarriedRestamp, CarriedEnd
<1> QED
  BY <1>1, <1>2, <1>3, <1>4 DEF ChainNext, chainVars

\* What is split, parsed and cut is one blob of sections.
LEMMA SightingInverts ==
  ASSUME IndInv, DaemonInv, Carried, NEW n \in DOMAIN sightings
  PROVE  LET s      == sightings[n]
             split  == splitAtrxBlobs(s.blob)
             legacy == LegacyBlob(Metadata(0, 0, 1), Frame(0))
             parsed(k) == parseAtrxBlob(split.sections[k])
             lengths  == {Len(FlattenSeq(SubSeq(split.sections, 1, k))) :
                            k \in DOMAIN split.sections}
         IN  /\ split.ok
             /\ Len(split.sections) = Len(s.of)
             /\ \A k \in DOMAIN s.of :
                  /\ parsed(k).ok
                  /\ parsed(k).frames = BytesOf(captures[s.of[k]].frames)
                  /\ parsed(k).metadata.from = s.from
                  /\ parsed(k).metadata.to = s.to
             /\ Sections(s.blob \o legacy) = Append(split.sections, legacy)
             /\ \A i \in 1 .. Len(s.blob) :
                  splitAtrxBlobs(SubSeq(s.blob, 1, i)).ok => i \in lengths
             /\ \A i \in 1 .. Len(s.blob) :
                  parseAtrxBlob(SubSeq(s.blob, 1, i)).ok => i = Len(split.sections[1])
<1> PICK of : of = sightings[n].of
  OBVIOUS
<1> PICK begin : begin = sightings[n].from
  OBVIOUS
<1> PICK end : end = sightings[n].to
  OBVIOUS
<1> PICK s : s = Restamped(captures, of, begin, end)
  OBVIOUS
<1> PICK b : b = sightings[n].blob
  OBVIOUS
<1> PICK legacy : legacy = LegacyBlob(Metadata(0, 0, 1), Frame(0))
  OBVIOUS
<1>1. begin \in Time /\ end \in Time /\ b = concatAtrxBlobs(s)
  BY DEF Carried
<1>2. captures \in Seq(Capture) /\ of \in Seq(1 .. Len(captures))
  <2>1. captures \in Seq(Capture) /\ told \in 0 .. Len(captures)
    BY DEF IndInv, TypeOK, DaemonInv, Lists
  <2>2. of \in Seq(1 .. told)
    BY DEF DaemonInv, Lists, Listed
  <2>3. 1 .. told \subseteq 1 .. Len(captures)
    BY <2>1
  <2> QED
    BY <2>1, <2>2, <2>3
<1>3. /\ s \in Seq(Seq(Cell)) /\ AllSections(s) /\ Len(s) = Len(of)
      /\ \A k \in 1 .. Len(of) : s[k] = Stamped(captures[of[k]], begin, end)
      /\ \A k \in 1 .. Len(of) : captures[of[k]] \in Capture
  <2>1. Stampable(captures, of, begin, end)
    BY <1>1, <1>2 DEF Stampable
  <2> QED
    BY <2>1, RestampedSections
<1>4. splitAtrxBlobs(b) = [ok |-> TRUE, sections |-> s]
  BY <1>1, <1>3, SplitBack
<1>5. splitAtrxBlobs(b).ok /\ splitAtrxBlobs(b).sections = s
  BY <1>4
<1>6. ASSUME NEW k \in DOMAIN of
      PROVE  /\ parseAtrxBlob(s[k]).ok
             /\ parseAtrxBlob(s[k]).frames = BytesOf(captures[of[k]].frames)
             /\ parseAtrxBlob(s[k]).metadata.from = begin
             /\ parseAtrxBlob(s[k]).metadata.to = end
  <2>1. k \in 1 .. Len(of)
    BY <1>2
  <2>2. captures[of[k]] \in Capture /\ s[k] = Stamped(captures[of[k]], begin, end)
    BY <1>3, <2>1
  <2> QED
    BY <1>1, <2>2, StampedParsed
<1>7. Sections(b \o legacy) = Append(s, legacy)
  BY <1>1, <1>3, LegacyFrame, SplitBackLegacy DEF Sections
<1>8. ASSUME NEW i \in 1 .. Len(b), splitAtrxBlobs(SubSeq(b, 1, i)).ok
      PROVE  i \in {Len(FlattenSeq(SubSeq(s, 1, k))) : k \in DOMAIN s}
  <2>1. PICK k \in 1 .. Len(s) : i = Offset(s, k)
    <3>1. CutOf(SubSeq(b, 1, i), s, i)
      BY <1>1, <1>3 DEF CutOf
    <3> QED
      BY <1>8, <3>1, CutBetween
  <2>2. k \in DOMAIN s
    BY <1>3
  <2>3. i = Len(FlattenSeq(SubSeq(s, 1, k)))
    BY <2>1 DEF Offset, Joined
  <2> QED
    BY <2>2, <2>3
<1>9. ASSUME NEW i \in 1 .. Len(b), parseAtrxBlob(SubSeq(b, 1, i)).ok PROVE i = Len(s[1])
  <2>1. CutOf(SubSeq(b, 1, i), s, i)
    BY <1>1, <1>3 DEF CutOf
  <2> QED
    BY <1>9, <2>1, ParsedFirst
<1> QED
  BY <1>3, <1>5, <1>6, <1>7, <1>8, <1>9

LEMMA Inverts == IndInv /\ DaemonInv /\ Carried => SplitInverts
<1> SUFFICES ASSUME IndInv, DaemonInv, Carried PROVE SplitInverts
  OBVIOUS
<1>1. ASSUME NEW s \in Range(sightings) PROVE \E n \in DOMAIN sightings : s = sightings[n]
  BY DEF Range
<1>2. SplitGivesBack
  <2>1. SUFFICES ASSUME NEW n \in DOMAIN sightings
        PROVE LET s      == sightings[n]
                  split  == splitAtrxBlobs(s.blob)
                  legacy == LegacyBlob(Metadata(0, 0, 1), Frame(0))
                  parsed(k) == parseAtrxBlob(split.sections[k])
              IN  /\ split.ok
                  /\ Len(split.sections) = Len(s.of)
                  /\ \A k \in DOMAIN s.of :
                       /\ parsed(k).ok
                       /\ parsed(k).frames = BytesOf(captures[s.of[k]].frames)
                       /\ parsed(k).metadata.from = s.from
                       /\ parsed(k).metadata.to = s.to
                  /\ Sections(s.blob \o legacy) = Append(split.sections, legacy)
                  /\ parseAtrxBlob(legacy).ok
    BY <1>1 DEF SplitGivesBack
  <2> QED
    BY SightingInverts, LegacyFrame
<1>3. TruncationDetected
  BY <1>1, SightingInverts DEF TruncationDetected, Sections
<1> QED
  BY <1>2, <1>3 DEF SplitInverts

\* Whatever files the daemon read, and whatever bytes they hold, a blob that was
\* published splits into the sections it was made of, each with the bytes of its
\* capture under the sighting's window, a section of version 1 behind it included; and
\* a blob that lost its end is split, or its beginning parsed, only where a section
\* ends.
THEOREM SplittingInverts == ChainSpec => []SplitInverts
<1>1. ChainInit => IndInv /\ DaemonInv /\ Carried
  BY AdapterAlone, Initially, DaemonBegins, CarriedBegins
<1>2. IndInv /\ DaemonInv /\ Carried /\ [ChainNext]_chainVars
        => (IndInv /\ DaemonInv /\ Carried)'
  BY AdapterAlone, Inductive, ChainKeeps, CarriedKeeps
<1> QED
  BY <1>1, <1>2, Inverts, PTL DEF ChainSpec

\* The count in the metadata is the number of frames that begin in the data, but for one
\* at most for each part of a torn frame, wherever in its bytes TCP tore it.
THEOREM CountOffByTorn == ChainSpec => []FramesCounted
<1>1. IndInv => FramesCounted
  <2> SUFFICES ASSUME IndInv PROVE FramesCounted
    OBVIOUS
  <2>1. \A c \in Range(captures) : c.frames \in Seq(Part)
    <3>1. captures \in Seq(Capture)
      BY DEF IndInv, TypeOK
    <3>2. \A c \in Range(captures) : c \in Capture
      BY <3>1 DEF Range
    <3> QED
      BY <3>2 DEF Capture
  <2> QED
    BY <2>1, CountOfParts DEF FramesCounted
<1>2. Init => IndInv
  BY Initially
<1>3. IndInv /\ [Next]_vars => IndInv'
  BY Inductive
<1> QED
  BY <1>1, <1>2, <1>3, AdapterSteps, PTL DEF Spec

=============================================================================

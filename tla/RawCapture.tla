------------------------------ MODULE RawCapture ------------------------------
(***************************************************************************)
(* Raw frame capture in the adapter: BeastClient                           *)
(* (src/server/src/beast-client.ts) gathers what the decoder sends on its  *)
(* BEAST port; flushBatchWindow (src/server/src/adapters/readsb.ts) writes *)
(* it to a file at the end of each window and tells the daemon.            *)
(*                                                                         *)
(* Every connection to the daemon calls BeastClient.start and begins a     *)
(* window; only the window timer ends with the connection.  TCP cuts the   *)
(* stream anywhere: a frame may come in several data events, whose parts   *)
(* may end in different files, and the sockets of one decoder are cut      *)
(* alike.  At most one frame begins in a tick, so its time names it.       *)
(***************************************************************************)
EXTENDS Integers, Sequences, SequencesExt, Atrx

CONSTANTS Writers,      \* slots for flushes that are writing their file
          Cuts,         \* bytes of a frame behind which a data event may end
          MaxTime,      \* bound: the clock
          MaxLinks,     \* bound: connections to the daemon
          MaxSockets,   \* bound: BEAST sockets alive
          MaxCuts       \* bound: data events that end inside a frame

FrameLength == 6

ASSUME CutsAssumption == Cuts \subseteq 1 .. FrameLength - 1
ASSUME BoundAssumption ==
  MaxTime \in Nat \ {0} /\ MaxLinks \in Nat /\ MaxSockets \in Nat /\ MaxCuts \in Nat

VARIABLES now,
          link,       \* connected to the daemon
          links,      \* connections so far
          opening,    \* BEAST sockets connecting
          open,       \* BEAST sockets connected
          timer,      \* BeastClient.reconnectTimer is armed
          stopped,    \* the adapter was stopped
          chunks,     \* the data gathered: parts of frames
          latest,     \* the frame that came last, and how many of its bytes
          batching,   \* batchTimer is set
          start,      \* batchWindowStart
          writer,     \* slot -> flush that is writing its file
          captures,   \* the captures the daemon was told of
          orphans,    \* captures on disk the daemon was not told of
          heard,      \* parts received
          lost        \* parts given up with a failed write or no frame

beast == <<opening, open, timer, stopped>>
input == <<chunks, latest, heard>>
window == <<batching, start>>
output == <<captures, orphans, lost>>
vars == <<now, link, links, beast, input, window, writer, output>>

Time == 0 .. MaxTime
Part == {p \in [at : Time, first : 1 .. FrameLength, last : 1 .. FrameLength] :
           p.first <= p.last}
Capture == [frames : Seq(Part), from : Time, to : Time]
NoCapture == [frames |-> << >>, from |-> 0, to |-> 0]

Init ==
  /\ now = 1
  /\ link = FALSE
  /\ links = 0
  /\ opening = 0
  /\ open = 0
  /\ timer = FALSE
  /\ stopped = FALSE
  /\ chunks = << >>
  /\ latest = [at |-> 0, last |-> FrameLength]
  /\ batching = FALSE
  /\ start = 0
  /\ writer = [w \in Writers |-> NoCapture]
  /\ captures = << >>
  /\ orphans = {}
  /\ heard = {}
  /\ lost = {}

Tick ==
  /\ now < MaxTime
  /\ now' = now + 1
  /\ UNCHANGED <<link, links, beast, input, window, writer, output>>

-----------------------------------------------------------------------------
\* The adapter's connect callback: BeastClient.start opens a socket, whether or
\* not one is open, and a window begins.
LinkUp ==
  /\ ~link /\ ~stopped
  /\ links < MaxLinks
  /\ opening + open < MaxSockets
  /\ link' = TRUE
  /\ links' = links + 1
  /\ opening' = opening + 1
  /\ batching' = TRUE
  /\ start' = now
  /\ UNCHANGED <<now, open, timer, stopped, input, writer, output>>

\* The adapter's close handler.
LinkDown ==
  /\ link
  /\ link' = FALSE
  /\ batching' = FALSE
  /\ UNCHANGED <<now, links, beast, input, start, writer, output>>

\* BeastClient: its socket connects (between two frames: a connection gets no
\* tail of a frame whose head it missed), or closes and a reconnect is scheduled.
BeastConnected ==
  /\ opening > 0
  /\ latest.last = FrameLength
  /\ opening' = opening - 1
  /\ open' = open + 1
  /\ UNCHANGED <<now, link, links, timer, stopped, input, window, writer, output>>

BeastClosed ==
  /\ \/ opening > 0 /\ opening' = opening - 1 /\ UNCHANGED open
     \/ open > 0 /\ open' = open - 1 /\ UNCHANGED opening
  /\ timer' = TRUE
  /\ latest' = IF open' = 0 THEN [latest EXCEPT !.last = FrameLength] ELSE latest
  /\ UNCHANGED <<now, link, links, stopped, chunks, heard, window, writer, output>>

BeastReconnect ==
  /\ timer
  /\ opening + open < MaxSockets
  /\ timer' = FALSE
  /\ opening' = opening + 1
  /\ UNCHANGED <<now, link, links, open, stopped, input, window, writer, output>>

\* A data event on each open socket: bytes of a frame that no event brought before.
Gather(part) ==
  /\ open > 0
  /\ chunks' = chunks \o [i \in 1 .. open |-> part]
  /\ latest' = [at |-> part.at, last |-> part.last]
  /\ heard' = heard \cup {part}
  /\ UNCHANGED <<now, link, links, beast, window, writer, output>>

\* Where an event may end.
Ends ==
  {FrameLength}
    \cup IF Cardinality({part \in heard : part.last < FrameLength}) < MaxCuts THEN Cuts
         ELSE {}

Receive ==
  /\ latest.last = FrameLength /\ latest.at < now
  /\ \E last \in Ends : Gather([at |-> now, first |-> 1, last |-> last])

ReceiveRest ==
  /\ latest.last < FrameLength
  /\ \E last \in Ends :
       /\ latest.last < last
       /\ Gather([at |-> latest.at, first |-> latest.last + 1, last |-> last])

-----------------------------------------------------------------------------
\* The bytes of a frame: its data is an escaped 0x1a, a byte like a type byte, and
\* the letters ATRX.
Frame(at) == <<Escape(at), Kind(at), Escape(at), Escape(at), Kind(at), Magic>>
Bytes(part) == SubSeq(Frame(part.at), part.first, part.last)
BytesOf(parts) == FlattenSeq([i \in DOMAIN parts |-> Bytes(parts[i])])
FrameCount(parts) == countBeastFrames(BytesOf(parts))

\* The window timer with no frame to publish: begin the next window.
FlushNothing ==
  /\ batching
  /\ FrameCount(chunks) = 0
  /\ chunks' = << >>
  /\ lost' = lost \cup Range(chunks)
  /\ start' = now
  /\ UNCHANGED <<now, link, links, beast, latest, heard, batching, writer,
                 captures, orphans>>

\* The window timer: take the data and start writing the file.
Flush(w) ==
  /\ batching
  /\ writer[w] = NoCapture
  /\ FrameCount(chunks) # 0
  /\ writer' = [writer EXCEPT ![w] = [frames |-> chunks, from |-> start, to |-> now]]
  /\ chunks' = << >>
  /\ UNCHANGED <<now, link, links, beast, latest, heard, window, output>>

\* Mutant of Written: the next window begins where this one did.
WrittenSameWindow(w) ==
  /\ writer[w] # NoCapture
  /\ writer' = [writer EXCEPT ![w] = NoCapture]
  /\ IF link THEN captures' = Append(captures, writer[w]) /\ UNCHANGED orphans
     ELSE orphans' = orphans \cup {writer[w]} /\ UNCHANGED captures
  /\ UNCHANGED <<now, link, links, beast, input, window, lost>>

\* Mutant of Written: the data is cleared when the file is written, not when
\* it is taken.
WrittenClearing(w) ==
  /\ writer[w] # NoCapture
  /\ writer' = [writer EXCEPT ![w] = NoCapture]
  /\ IF link THEN captures' = Append(captures, writer[w]) /\ UNCHANGED orphans
     ELSE orphans' = orphans \cup {writer[w]} /\ UNCHANGED captures
  /\ start' = now
  /\ chunks' = << >>
  /\ UNCHANGED <<now, link, links, beast, latest, heard, batching, lost>>

\* The file is written: the daemon is told, if the socket is there to be
\* written to, and the next window begins.
Written(w) ==
  /\ writer[w] # NoCapture
  /\ writer' = [writer EXCEPT ![w] = NoCapture]
  /\ IF link THEN captures' = Append(captures, writer[w]) /\ UNCHANGED orphans
     ELSE orphans' = orphans \cup {writer[w]} /\ UNCHANGED captures
  /\ start' = now
  /\ UNCHANGED <<now, link, links, beast, input, batching, lost>>

\* The write fails: its data is gone.
WriteFails(w) ==
  /\ writer[w] # NoCapture
  /\ writer' = [writer EXCEPT ![w] = NoCapture]
  /\ lost' = lost \cup Range(writer[w].frames)
  /\ start' = now
  /\ UNCHANGED <<now, link, links, beast, input, batching, captures, orphans>>

\* stop() and the end of the process: sockets, timers and what was gathered go with
\* it; a file that was being written is complete, and the daemon never hears of it,
\* or is not.
StopCapture ==
  /\ ~stopped
  /\ stopped' = TRUE
  /\ link' = FALSE /\ batching' = FALSE /\ timer' = FALSE
  /\ opening' = 0 /\ open' = 0
  /\ chunks' = << >>
  /\ writer' = [w \in Writers |-> NoCapture]
  /\ \E complete \in SUBSET {w \in Writers : writer[w] # NoCapture} :
       /\ orphans' = orphans \cup {writer[w] : w \in complete}
       /\ lost' = lost \cup Range(chunks)
                   \cup UNION {Range(writer[w].frames) : w \in Writers \ complete}
  /\ UNCHANGED <<now, links, latest, heard, start, captures>>

Next ==
  \/ Tick
  \/ LinkUp \/ LinkDown
  \/ BeastConnected \/ BeastClosed \/ BeastReconnect
  \/ Receive \/ ReceiveRest
  \/ FlushNothing \/ StopCapture
  \/ \E w \in Writers : Flush(w) \/ Written(w) \/ WriteFails(w)

Spec == Init /\ [][Next]_vars

-----------------------------------------------------------------------------
TypeOK ==
  /\ now \in Time
  /\ link \in BOOLEAN /\ batching \in BOOLEAN /\ timer \in BOOLEAN
  /\ stopped \in BOOLEAN
  /\ links \in 0 .. MaxLinks
  /\ opening \in 0 .. MaxSockets /\ open \in 0 .. MaxSockets
  /\ chunks \in Seq(Part)
  /\ latest \in [at : Time, last : 1 .. FrameLength] /\ start \in Time
  /\ writer \in [Writers -> Capture]
  /\ captures \in Seq(Capture)
  /\ orphans \subseteq Capture
  /\ heard \subseteq Part /\ lost \subseteq Part

InHand ==
  Range(chunks) \cup UNION {Range(writer[w].frames) : w \in Writers}

OnDisk == UNION {Range(capture.frames) : capture \in Range(captures) \cup orphans}

\* The windows of successive captures do not overlap.
WindowsDisjoint ==
  \A i \in 2 .. Len(captures) : captures[i - 1].to <= captures[i].from

\* BEAST connections do not pile up on their own: for each connection the
\* daemon has had there is at most one, connected, connecting or to be retried,
\* and no part of the stream is in the data more often than that.
NothingTwice ==
  /\ opening + open <= links
  /\ \A i \in DOMAIN chunks :
       Cardinality({j \in DOMAIN chunks : chunks[j] = chunks[i]}) <= links

\* Data that comes in while a file is being written is not lost: everything
\* received is gathered, being written, on disk, or given up knowingly, with a failed
\* write, data without a frame or the end of the adapter; and nothing is gathered
\* twice for one connection.
DataAccounted == heard \subseteq InHand \cup OnDisk \cup lost /\ NothingTwice

\* Extra, violated: a capture holds the frames whole: "ATRX captures all demodulated frames"
\* (verification-path.md).
FramesWhole ==
  \A i \in DOMAIN captures : \A part \in Range(captures[i].frames) :
    part.first > 1 => \E head \in Range(captures[i].frames) :
                         head.at = part.at /\ head.last = part.first - 1

\* Extra, violated: a capture file the daemon never hears of does not stay on disk.
NoOrphans == orphans = {}

=============================================================================

----------------------------- MODULE EventStream -----------------------------
(***************************************************************************)
(* The live event stream: class StreamBroadcaster in src/server/src/       *)
(* stream.ts, the broadcasting part of onAircraft in daemon.ts and         *)
(* frame-signer.ts.                                                        *)
(*                                                                         *)
(* A message from an adapter becomes at most one event frame.  With a      *)
(* signing key its sequence number is taken before the signature is        *)
(* awaited and the frame is emitted afterwards, so that several handlers   *)
(* may be between the two.  Every subscription is an async generator with  *)
(* a queue of its own, which the server framework pulls: it waits for a    *)
(* wake-up, hands out its queue frame by frame, and leaves through its     *)
(* finally block when the client has gone.                                 *)
(*                                                                         *)
(* A frame is the sequence number of an event, or Info; the contents of an *)
(* event do not matter here.                                               *)
(***************************************************************************)
EXTENDS Integers, Sequences, FiniteSets

CONSTANTS Clients,        \* subscriptions
          MaxMessages,    \* bound: messages from adapters
          MaxInfos,       \* bound: info frames
          InOrderSigning  \* signatures settle in the order they were asked for

ASSUME StreamAssumption ==
  /\ MaxMessages \in Nat /\ MaxInfos \in Nat /\ InOrderSigning \in BOOLEAN

VARIABLES signing,    \* the daemon has a signing key
          seq,        \* seq of the broadcaster
          handled,    \* messages handled so far
          pending,    \* sequence numbers whose signature is awaited, in order
          failed,     \* those whose signature failed
          log,        \* the frames emitted
          server,     \* "listening", "stopping" or "stopped"
          closing,    \* clients that stop() asked to close
          aborted,    \* clients whose socket has closed: their signal fired
          listeners,  \* clients whose onFrame is registered with the emitter
          pc,         \* client -> where its generator is: see Places
          queue,      \* client -> the queue of its generator
          hand,       \* client -> the frame yielded and being sent, or << >>
          resolve,    \* client -> its generator waits and nobody woke it yet
          joined,     \* client -> length of the log when it began to listen
          received    \* client -> the frames that reached it

daemon == <<signing, seq, handled, pending, failed>>
generators == <<listeners, pc, queue, hand, resolve, joined, received>>
connections == <<server, closing, aborted>>
vars == <<daemon, log, connections, generators>>

Info == 0   \* sequence numbers begin at 1
Places == {"absent", "connected", "waiting", "yielded", "done"}
Frames == {Info} \cup 1 .. MaxMessages

Init ==
  /\ signing \in BOOLEAN
  /\ seq = 0
  /\ handled = 0
  /\ pending = << >>
  /\ failed = {}
  /\ log = << >>
  /\ server = "listening"
  /\ closing = {}
  /\ aborted = {}
  /\ listeners = {}
  /\ pc = [c \in Clients |-> "absent"]
  /\ queue = [c \in Clients |-> << >>]
  /\ hand = [c \in Clients |-> << >>]
  /\ resolve = [c \in Clients |-> FALSE]
  /\ joined = [c \in Clients |-> 0]
  /\ received = [c \in Clients |-> << >>]

-----------------------------------------------------------------------------
\* emitter.emit('frame', f): every registered onFrame pushes and wakes.
Emit(f) ==
  /\ log' = Append(log, f)
  /\ queue' = [c \in Clients |-> IF c \in listeners THEN Append(queue[c], f)
                                 ELSE queue[c]]
  /\ resolve' = [c \in Clients |-> resolve[c] /\ c \notin listeners]
  /\ UNCHANGED <<connections, listeners, pc, hand, joined, received>>

NoFrame == UNCHANGED <<log, connections, generators>>

\* KeyRotated, emitted by the startup updates: the stream server listens by then,
\* the adapter server does not yet.
BroadcastInfo ==
  /\ signing
  /\ handled = 0
  /\ server = "listening"
  /\ Cardinality({i \in DOMAIN log : log[i] = Info}) < MaxInfos
  /\ Emit(Info)
  /\ UNCHANGED daemon

\* Mutant of NextSeq: the counter advances with the emission, so two handlers
\* that wait for their signatures took the same number.
NextSeqLate(ops) == IF ops /\ pending = << >> THEN seq + 1 ELSE seq

\* seq after a message; ops: some aircraft of the message is tracked.
NextSeq(ops) == IF ops THEN seq + 1 ELSE seq

\* onAircraft up to its first await: no frame without ops, a frame to be signed,
\* or one that goes out at once.
OnAircraft(ops) ==
  /\ handled < MaxMessages
  /\ server = "listening"
  /\ handled' = handled + 1
  /\ seq' = NextSeq(ops)
  /\ \/ ~ops /\ NoFrame /\ UNCHANGED pending
     \/ ops /\ signing /\ pending' = Append(pending, seq') /\ NoFrame
     \/ ops /\ ~signing /\ Emit(seq') /\ UNCHANGED pending
  /\ UNCHANGED <<signing, failed>>

\* The awaited signature settles for the i-th of the waiting handlers.
Settle(i) ==
  /\ i \in DOMAIN pending
  /\ InOrderSigning => i = 1
  /\ pending' = SubSeq(pending, 1, i - 1) \o SubSeq(pending, i + 1, Len(pending))
  /\ UNCHANGED <<signing, seq, handled>>

Signed(i) == Settle(i) /\ Emit(pending[i]) /\ UNCHANGED failed

\* signEventFrame throws: the handler ends, its number is used up.
SignatureFails(i) ==
  Settle(i) /\ failed' = failed \cup {pending[i]} /\ NoFrame

-----------------------------------------------------------------------------
Subscribe(c) ==
  /\ pc[c] = "absent"
  /\ server = "listening"
  /\ pc' = [pc EXCEPT ![c] = "connected"]
  /\ UNCHANGED <<daemon, log, connections, listeners, queue, hand, resolve, joined,
                 received>>

\* The generator waits on a new promise; when the signal has fired, the abort
\* handler had its turn, and the promise is resolved at once.
Await(c) ==
  /\ pc' = [pc EXCEPT ![c] = "waiting"]
  /\ hand' = [hand EXCEPT ![c] = << >>]
  /\ resolve' = [resolve EXCEPT ![c] = c \notin aborted]

Yield(c) ==
  /\ pc' = [pc EXCEPT ![c] = "yielded"]
  /\ hand' = [hand EXCEPT ![c] = <<Head(queue[c])>>]
  /\ queue' = [queue EXCEPT ![c] = Tail(@)]
  /\ UNCHANGED resolve

\* Mutant of Continue: an if where the inner while is, one frame for a wake-up.
ContinueOnce(c) == Await(c) /\ UNCHANGED queue

\* Mutant of Continue: what has come meanwhile is taken for handed out.
ContinueClearing(c) == Await(c) /\ queue' = [queue EXCEPT ![c] = << >>]

\* The inner loop: it looks at the queue, not at the signal.
Continue(c) == IF queue[c] # << >> THEN Yield(c) ELSE Await(c) /\ UNCHANGED queue

\* The finally block; the generator's variables go with it.
Leave(c) ==
  /\ pc' = [pc EXCEPT ![c] = "done"]
  /\ listeners' = listeners \ {c}
  /\ queue' = [queue EXCEPT ![c] = << >>]
  /\ hand' = [hand EXCEPT ![c] = << >>]
  /\ resolve' = [resolve EXCEPT ![c] = FALSE]
  /\ UNCHANGED <<joined, received>>

\* The first next(): the body of the generator runs up to its await.
Start(c) ==
  /\ pc[c] = "connected"
  /\ \/ /\ c \notin aborted
        /\ listeners' = listeners \cup {c}
        /\ joined' = [joined EXCEPT ![c] = Len(log)]
        /\ Await(c)
        /\ UNCHANGED <<queue, received>>
     \/ c \in aborted /\ Leave(c)
  /\ UNCHANGED <<daemon, log, connections>>

\* The promise was resolved, by a frame or by the abort handler.
Wake(c) ==
  /\ pc[c] = "waiting"
  /\ ~resolve[c]
  /\ \/ c \in aborted /\ Leave(c)
     \/ /\ c \notin aborted
        /\ Yield(c)
        /\ UNCHANGED <<listeners, joined, received>>
  /\ UNCHANGED <<daemon, log, connections>>

\* The frame went out, to nobody when the client has gone, and the framework asks
\* for the next.
Pull(c) ==
  /\ pc[c] = "yielded"
  /\ received' = IF c \in aborted THEN received
                 ELSE [received EXCEPT ![c] = @ \o hand[c]]
  /\ Continue(c)
  /\ UNCHANGED <<daemon, log, connections, listeners, joined>>

\* The framework ends its loop over a client that has gone: return() at the yield.
Return(c) ==
  /\ pc[c] = "yielded"
  /\ c \in aborted
  /\ Leave(c)
  /\ UNCHANGED <<daemon, log, connections>>

Connected(c) == pc[c] \notin {"absent", "done"} /\ c \notin aborted

\* Mutant of Abort: no abort handler, nobody wakes the generator.
AbortSilently(c) ==
  /\ Connected(c)
  /\ aborted' = aborted \cup {c}
  /\ UNCHANGED <<daemon, log, server, closing, generators>>

\* The socket closes, and with it the abort handler runs.
Abort(c) ==
  /\ Connected(c)
  /\ aborted' = aborted \cup {c}
  /\ resolve' = [resolve EXCEPT ![c] = FALSE]
  /\ UNCHANGED <<daemon, log, server, closing, listeners, pc, queue, hand, joined,
                 received>>

-----------------------------------------------------------------------------
\* Mutant of Stop: close is asked of the subscribers that listen only.
StopListeners ==
  /\ server = "listening"
  /\ server' = "stopping"
  /\ closing' = listeners
  /\ UNCHANGED <<daemon, log, generators, aborted>>

\* stop(): close is asked of every client, and nobody new is accepted.
Stop ==
  /\ server = "listening"
  /\ server' = "stopping"
  /\ closing' = {c \in Clients : Connected(c)}
  /\ UNCHANGED <<daemon, log, generators, aborted>>

\* The callback of httpServer.close: the last connection has ended.
Stopped ==
  /\ server = "stopping"
  /\ \A c \in Clients : ~Connected(c)
  /\ server' = "stopped"
  /\ UNCHANGED <<daemon, log, generators, closing, aborted>>

Next ==
  \/ BroadcastInfo
  \/ \E ops \in BOOLEAN : OnAircraft(ops)
  \/ \E i \in 1 .. MaxMessages : Signed(i) \/ SignatureFails(i)
  \/ \E c \in Clients : \/ Subscribe(c) \/ Start(c) \/ Wake(c)
                        \/ Pull(c) \/ Return(c) \/ Abort(c)
  \/ Stop
  \/ Stopped

\* The event loop runs what is due; a client that is connected reads; a close the
\* server asked for completes (ws destroys the socket after its close timeout).
\* Nothing is fair about messages arriving or clients coming and going.
Fairness ==
  /\ WF_vars(\E i \in 1 .. MaxMessages : Signed(i) \/ SignatureFails(i))
  /\ \A c \in Clients : /\ WF_vars(Start(c))
                        /\ WF_vars(Wake(c))
                        /\ WF_vars(Pull(c) \/ Return(c))
                        /\ WF_vars(c \in closing /\ Abort(c))
  /\ WF_vars(Stopped)

Spec == Init /\ [][Next]_vars /\ Fairness

-----------------------------------------------------------------------------
\* Types; a generator listens exactly between its start and its finally block,
\* and holds a frame exactly while it is suspended at the yield.
TypeOK ==
  /\ signing \in BOOLEAN
  /\ seq \in 0 .. MaxMessages
  /\ handled \in seq .. MaxMessages
  /\ pending \in Seq(1 .. seq)
  /\ failed \subseteq 1 .. seq
  /\ log \in Seq(Frames)
  /\ server \in {"listening", "stopping", "stopped"}
  /\ closing \subseteq Clients
  /\ aborted \subseteq Clients
  /\ pc \in [Clients -> Places]
  /\ listeners = {c \in Clients : pc[c] \in {"waiting", "yielded"}}
  /\ queue \in [Clients -> Seq(Frames)]
  /\ hand \in [Clients -> Seq(Frames)]
  /\ \A c \in Clients : Len(hand[c]) = IF pc[c] = "yielded" THEN 1 ELSE 0
  /\ resolve \in [Clients -> BOOLEAN]
  /\ joined \in [Clients -> Nat]
  /\ received \in [Clients -> Seq(Frames)]

\* A reader never sees a sequence number twice, nor one smaller than the last it saw.
Increasing(s) ==
  \A i, j \in DOMAIN s : i < j /\ s[i] # Info /\ s[j] # Info => s[i] < s[j]
SeqIncreases == \A c \in Clients : Increasing(received[c])

\* A number that is neither in the log nor with a handler is that of a frame whose
\* signature failed: an unsigned stream has no gaps, and a message without tracked
\* aircraft leaves none.
GapMeansFailure ==
  \A n \in 1 .. seq :
    \/ \E i \in DOMAIN log : log[i] = n
    \/ n \in failed
    \/ \E i \in DOMAIN pending : pending[i] = n

\* Types, and what "The stream sequence number of this message" (subscribeEvents.json)
\* lets a consumer rely on, although the number is taken before an await: numbers
\* increase, and those left out are of frames whose signature failed.
SeqTellsGaps == TypeOK /\ SeqIncreases /\ GapMeansFailure

\* Every subscriber reads the log from where it joined, each frame once and in
\* order, for as long as it is connected.
Log == INSTANCE EventLog
         WITH Readers <- Clients,
              attached <- {c \in listeners : c \notin aborted},
              from <- joined
ReadsTheLog == Log!Spec

\* The listener of a client that has gone is removed, although no further frame
\* may ever wake its generator.
ListenerReleased == \A c \in Clients : c \in aborted ~> c \notin listeners

\* A frame emitted while a client listens reaches it unless the client leaves: no
\* wake-up is lost between the emptied queue and the next wait.
FramesArrive ==
  \A c \in Clients : \A i \in 1 .. MaxMessages + MaxInfos :
    c \in listeners /\ joined[c] < i /\ i <= Len(log)
      ~> joined[c] + Len(received[c]) >= i \/ c \in aborted

\* stop() comes to an end whatever the generators are doing, so that shutdown goes
\* on to flush the last window.
StopEnds == server = "stopping" ~> server = "stopped"

\* Extra, violated: the backlog of a reader is bounded (ConsumerTooSlow in
\* subscribeEvents.json is never raised).
BacklogBounded == \A c \in Clients : Len(queue[c]) <= 2

=============================================================================

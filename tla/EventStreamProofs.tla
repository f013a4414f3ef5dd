------------------------- MODULE EventStreamProofs -------------------------
(***************************************************************************)
(* Proofs about EventStream for any number of clients, messages and info   *)
(* frames, with signatures that settle in the order they were asked for:   *)
(* what sequence numbers tell a reader, and the refinement of EventLog.    *)
(*                                                                         *)
(* Two facts carry both.  LogOrdered: the numbers in the log, then those   *)
(* whose signature is awaited, then seq, are in increasing order.          *)
(* ReadsOn: what a connected reader has received, what is in its           *)
(* generator's hands and what is in its queue are, in this order, the log  *)
(* from where it joined.                                                   *)
(***************************************************************************)
EXTENDS EventStream, SequenceTheorems, TLAPS

\* The numbers emitted, then those that wait for their signature, increase.
LogOrdered ==
  /\ ~signing => pending = << >>
  /\ Increasing(log)
  /\ \A i \in 1 .. Len(log) : log[i] <= seq
  /\ \A i, j \in 1 .. Len(pending) : i < j => pending[i] < pending[j]
  /\ \A i \in 1 .. Len(log), j \in 1 .. Len(pending) : log[i] < pending[j]

\* What c has read is the log from where it joined.
Read(c) ==
  /\ joined[c] + Len(received[c]) <= Len(log)
  /\ \A i \in 1 .. Len(received[c]) : received[c][i] = log[joined[c] + i]
  /\ pc[c] \in {"absent", "connected"} => received[c] = << >> /\ queue[c] = << >>

\* What is on its way to c is the rest of the log.
OnItsWay(c) ==
  LET next == joined[c] + Len(received[c])
  IN  /\ next + Len(hand[c]) + Len(queue[c]) = Len(log)
      /\ \A i \in 1 .. Len(hand[c]) : hand[c][i] = log[next + i]
      /\ \A i \in 1 .. Len(queue[c]) : queue[c][i] = log[next + Len(hand[c]) + i]

\* A generator that was woken has a frame to hand out, or leaves.
Woken(c) ==
  pc[c] = "waiting" /\ ~resolve[c] => c \in aborted \/ queue[c] # << >>

ReadsOn ==
  \A c \in Clients : /\ Read(c)
                     /\ c \in listeners /\ c \notin aborted => OnItsWay(c)
                     /\ Woken(c)

IndInv == TypeOK /\ GapMeansFailure /\ LogOrdered /\ ReadsOn

-----------------------------------------------------------------------------
\* A frame whose number is above those before it keeps a sequence increasing.
LEMMA IncreasingGrows ==
  ASSUME NEW s \in Seq(Frames), NEW t \in Seq(Frames), NEW f \in Frames,
         Increasing(s), Len(t) = Len(s) + 1,
         \A i \in 1 .. Len(s) : t[i] = s[i], t[Len(s) + 1] = f,
         f # Info => \A i \in 1 .. Len(s) : s[i] < f
  PROVE  Increasing(t)
<1>1. /\ Len(s) \in Nat
      /\ DOMAIN s = 1 .. Len(s) /\ DOMAIN t = 1 .. Len(s) + 1
  OBVIOUS
<1> SUFFICES ASSUME NEW i \in 1 .. Len(s) + 1, NEW j \in 1 .. Len(s) + 1,
                    i < j, t[i] # Info, t[j] # Info
             PROVE  t[i] < t[j]
  BY <1>1 DEF Increasing
<1>2. i \in 1 .. Len(s) /\ t[i] = s[i] /\ s[i] # Info
  BY <1>1
<1>3. CASE j = Len(s) + 1
  BY <1>2, <1>3
<1>4. CASE j # Len(s) + 1
  <2>1. j \in 1 .. Len(s) /\ t[j] = s[j] /\ s[j] # Info
    BY <1>1, <1>4
  <2> QED
    BY <1>1, <1>2, <2>1 DEF Increasing
<1> QED
  BY <1>3, <1>4

LEMMA HeadAndTail ==
  ASSUME NEW S, NEW s \in Seq(S), s # << >>
  PROVE  /\ Len(s) >= 1
         /\ Head(s) = s[1] /\ Head(s) \in S
         /\ Tail(s) \in Seq(S)
         /\ Len(Tail(s)) = Len(s) - 1
         /\ \A i \in 1 .. Len(s) - 1 : Tail(s)[i] = s[i + 1]
OBVIOUS

\* The handler that has waited longest is the head of the pending ones.
LEMMA FirstSettles ==
  ASSUME TypeOK, InOrderSigning, NEW i, Settle(i)
  PROVE  /\ i = 1 /\ pending # << >>
         /\ pending' = Tail(pending)
         /\ pending[1] = Head(pending)
<1>1. i = 1 /\ 1 \in DOMAIN pending /\ pending \in Seq(1 .. seq)
  BY DEF Settle, TypeOK
<1>2. pending # << >> /\ Len(pending) \in Nat
  BY <1>1
<1>3. pending' = SubSeq(pending, 1, 0) \o SubSeq(pending, 2, Len(pending))
  BY <1>1 DEF Settle
<1>4. SubSeq(pending, 1, 0) = << >>
  BY <1>1
<1>5. SubSeq(pending, 2, Len(pending)) = Tail(pending)
  BY <1>1, <1>2
<1>6. Tail(pending) \in Seq(1 .. seq)
  BY <1>1, <1>2
<1>7. << >> \o Tail(pending) = Tail(pending)
  BY <1>6, ConcatEmptySeq
<1> QED
  BY <1>1, <1>2, <1>3, <1>4, <1>5, <1>7

\* What a frame adds to the log and to the queues.
LEMMA Emitted ==
  ASSUME TypeOK, NEW f \in Frames, Emit(f)
  PROVE  /\ log' \in Seq(Frames)
         /\ Len(log') = Len(log) + 1
         /\ \A i \in 1 .. Len(log) : log'[i] = log[i]
         /\ log'[Len(log) + 1] = f
         /\ queue' \in [Clients -> Seq(Frames)]
         /\ resolve' \in [Clients -> BOOLEAN]
         /\ \A c \in listeners : queue'[c] = Append(queue[c], f) /\ ~resolve'[c]
         /\ \A c \in Clients \ listeners :
              queue'[c] = queue[c] /\ resolve'[c] = resolve[c]
<1>1. log \in Seq(Frames) /\ log' = Append(log, f)
  BY DEF TypeOK, Emit
<1>2. \A c \in Clients : Append(queue[c], f) \in Seq(Frames)
  BY DEF TypeOK
<1>3. queue' \in [Clients -> Seq(Frames)]
  BY <1>2 DEF TypeOK, Emit
<1>4. /\ log' \in Seq(Frames)
      /\ Len(log') = Len(log) + 1
      /\ \A i \in 1 .. Len(log) : log'[i] = log[i]
      /\ log'[Len(log) + 1] = f
  BY <1>1
<1>5. \A c \in Clients : /\ c \in listeners => queue'[c] = Append(queue[c], f)
                         /\ c \notin listeners => queue'[c] = queue[c]
  BY DEF TypeOK, Emit
<1>6. /\ resolve' \in [Clients -> BOOLEAN]
      /\ \A c \in Clients : /\ c \in listeners => ~resolve'[c]
                            /\ c \notin listeners => resolve'[c] = resolve[c]
  BY Zenon DEF TypeOK, Emit
<1>7. listeners \subseteq Clients
  BY DEF TypeOK
<1> QED
  BY <1>3, <1>4, <1>5, <1>6, <1>7

\* h frames that come after the first a of n are among the n.
LEMMA Within ==
  \A a, h, n \in Nat : a + h <= n => \A i \in 1 .. h : a + i \in 1 .. n
OBVIOUS

\* A frame is appended to what is on its way to every listener.
LEMMA EmitReadsOn ==
  ASSUME TypeOK, ReadsOn, NEW f \in Frames, Emit(f)
  PROVE  ReadsOn'
<1> SUFFICES ASSUME NEW c \in Clients
             PROVE  /\ Read(c)'
                    /\ c \in listeners' /\ c \notin aborted' => OnItsWay(c)'
                    /\ Woken(c)'
  BY DEF ReadsOn
<1> DEFINE next == joined[c] + Len(received[c])
<1>1. UNCHANGED <<listeners, aborted, pc, hand, joined, received>>
  BY DEF Emit, connections
<1>2. /\ joined[c] \in Nat /\ Len(received[c]) \in Nat /\ Len(hand[c]) \in Nat
      /\ queue[c] \in Seq(Frames) /\ Len(queue[c]) \in Nat /\ Len(log) \in Nat
      /\ c \in listeners <=> pc[c] \in {"waiting", "yielded"}
  BY DEF TypeOK
<1>3. /\ Len(log') = Len(log) + 1
      /\ \A i \in 1 .. Len(log) : log'[i] = log[i]
      /\ log'[Len(log) + 1] = f
  BY Emitted
<1>4. /\ c \in listeners => queue'[c] = Append(queue[c], f) /\ ~resolve'[c]
      /\ c \notin listeners => queue'[c] = queue[c] /\ resolve'[c] = resolve[c]
  BY Emitted
<1>5. /\ Read(c)
      /\ c \in listeners /\ c \notin aborted => OnItsWay(c)
      /\ Woken(c)
  BY DEF ReadsOn
<1>6. Read(c)'
  <2>1. next <= Len(log')
    BY <1>2, <1>3, <1>5 DEF Read
  <2>2. ASSUME NEW i \in 1 .. Len(received[c])
        PROVE  received[c][i] = log'[joined[c] + i]
    <3>1. joined[c] + i \in 1 .. Len(log)
      BY <1>2, <1>5 DEF Read
    <3> QED
      BY <1>3, <1>5, <3>1 DEF Read
  <2>3. pc[c] \in {"absent", "connected"} => received[c] = << >> /\ queue'[c] = << >>
    BY <1>2, <1>4, <1>5 DEF Read
  <2> QED
    BY <1>1, <2>1, <2>2, <2>3 DEF Read
<1>7. ASSUME c \in listeners, c \notin aborted
      PROVE  OnItsWay(c)'
  <2> DEFINE far == next + Len(hand[c])
  <2>0. far \in Nat /\ far + Len(queue[c]) = Len(log)
    BY <1>2, <1>5, <1>7 DEF OnItsWay
  <2>1. /\ \A i \in 1 .. Len(hand[c]) : hand[c][i] = log[next + i]
        /\ \A i \in 1 .. Len(queue[c]) : queue[c][i] = log[far + i]
    BY <1>2, <1>5, <1>7 DEF OnItsWay
  <2>2. /\ Len(queue'[c]) = Len(queue[c]) + 1
        /\ \A i \in 1 .. Len(queue[c]) : queue'[c][i] = queue[c][i]
        /\ queue'[c][Len(queue[c]) + 1] = f
    BY <1>2, <1>4, <1>7
  <2>3. ASSUME NEW i \in 1 .. Len(hand[c])
        PROVE  hand[c][i] = log'[next + i]
    <3>1. next + i \in 1 .. Len(log)
      <4>1. /\ next \in Nat /\ Len(hand[c]) \in Nat /\ Len(queue[c]) \in Nat
            /\ Len(log) \in Nat /\ i \in 1 .. Len(hand[c])
            /\ next + Len(hand[c]) <= Len(log)
        BY <1>2, <2>0
      <4> HIDE DEF next
      <4> QED
        BY <4>1, Within
    <3> QED
      BY <1>3, <2>1, <3>1
  <2> HIDE DEF far
  <2>4. far + Len(queue'[c]) = Len(log')
    <3>1. Len(queue'[c]) = Len(queue[c]) + 1 /\ Len(queue[c]) \in Nat
      BY <1>2, <2>2
    <3>2. far + Len(queue[c]) + 1 = Len(log')
      BY <1>2, <1>3, <2>0
    <3> QED
      BY <2>0, <3>1, <3>2
  <2>5. ASSUME NEW i \in 1 .. Len(queue[c])
        PROVE  queue'[c][i] = log'[far + i]
    <3>1. far + i \in 1 .. Len(log)
      BY <1>2, <2>0
    <3> QED
      BY <1>3, <2>1, <2>2, <3>1
  <2>6. queue'[c][Len(queue[c]) + 1] = log'[far + (Len(queue[c]) + 1)]
    <3>1. far + (Len(queue[c]) + 1) = Len(log) + 1
      BY <1>2, <2>0
    <3> QED
      BY <1>3, <2>2, <3>1
  <2>7. \A i \in 1 .. Len(queue'[c]) : queue'[c][i] = log'[far + i]
    BY <1>2, <2>2, <2>5, <2>6
  <2> QED
    BY <1>1, <2>3, <2>4, <2>7 DEF OnItsWay, far
<1>8. Woken(c)'
  BY <1>1, <1>2, <1>4, <1>5 DEF Woken
<1> QED
  BY <1>1, <1>6, <1>7, <1>8

LEMMA NoFrameReadsOn ==
  ASSUME ReadsOn, NoFrame
  PROVE  ReadsOn'
BY DEF ReadsOn, NoFrame, connections, generators, Read, OnItsWay, Woken

-----------------------------------------------------------------------------
LEMMA Initially == Init => IndInv
<1> SUFFICES ASSUME Init PROVE IndInv
  OBVIOUS
<1>1. TypeOK
  BY StreamAssumption DEF Init, TypeOK, Places, Frames
<1>2. GapMeansFailure
  BY DEF Init, GapMeansFailure
<1>3. LogOrdered
  BY DEF Init, LogOrdered, Increasing
<1>4. ReadsOn
  BY DEF Init, ReadsOn, Read, Woken
<1> QED
  BY <1>1, <1>2, <1>3, <1>4 DEF IndInv

\* The daemon's part of the type invariant, and what is about the generators.
DaemonTyped ==
  /\ signing \in BOOLEAN
  /\ seq \in 0 .. MaxMessages
  /\ handled \in seq .. MaxMessages
  /\ pending \in Seq(1 .. seq)
  /\ failed \subseteq 1 .. seq

GeneratorsTyped ==
  /\ log \in Seq(Frames)
  /\ server \in {"listening", "stopping", "stopped"}
  /\ closing \subseteq Clients
  /\ aborted \subseteq Clients
  /\ pc \in [Clients -> Places]
  /\ listeners = {c \in Clients : pc[c] \in {"waiting", "yielded"}}
  /\ queue \in [Clients -> Seq(Frames)]
  /\ hand \in [Clients -> Seq(Frames)]
  /\ \A c \in Clients : Len(hand[c]) = IF pc[c] = "yielded" THEN 1 ELSE 0
  /\ resolve \in [Clients -> BOOLEAN]
  /\ joined \in [Clients -> Nat]
  /\ received \in [Clients -> Seq(Frames)]

LEMMA TypesJoin ==
  ASSUME DaemonTyped', GeneratorsTyped'
  PROVE  TypeOK'
BY DEF TypeOK, DaemonTyped, GeneratorsTyped

LEMMA EmitTyped ==
  ASSUME TypeOK, NEW f \in Frames, Emit(f)
  PROVE  GeneratorsTyped'
<1>1. /\ log' \in Seq(Frames)
      /\ queue' \in [Clients -> Seq(Frames)]
      /\ resolve' \in [Clients -> BOOLEAN]
  BY Emitted
<1>2. UNCHANGED <<server, closing, aborted, listeners, pc, hand, joined, received>>
  BY DEF Emit, connections
<1> QED
  BY <1>1, <1>2 DEF TypeOK, GeneratorsTyped

LEMMA NoFrameTyped ==
  ASSUME TypeOK, NoFrame
  PROVE  GeneratorsTyped'
BY DEF TypeOK, GeneratorsTyped, NoFrame, connections, generators

\* What the handling of a message does to the numbers: none is taken, or the next
\* one is, and waits for its signature or is emitted at once.
LEMMA MessageStep ==
  ASSUME IndInv, NEW ops \in BOOLEAN, OnAircraft(ops)
  PROVE  IndInv'
<1>1. /\ TypeOK /\ LogOrdered /\ GapMeansFailure /\ ReadsOn
      /\ seq \in Nat /\ pending \in Seq(1 .. seq) /\ log \in Seq(Frames)
      /\ handled' = handled + 1 /\ handled < MaxMessages
      /\ handled \in Nat /\ seq <= handled /\ MaxMessages \in Nat
      /\ signing' = signing /\ failed' = failed
      /\ signing \in BOOLEAN /\ failed \subseteq 1 .. seq
  BY StreamAssumption DEF OnAircraft, IndInv, TypeOK
<1>2. CASE ~ops
  <2>1. UNCHANGED <<seq, pending, log>> /\ NoFrame
    BY <1>2 DEF OnAircraft, NextSeq, NoFrame
  <2>2. DaemonTyped'
    BY <1>1, <2>1 DEF DaemonTyped
  <2>3. GapMeansFailure' /\ LogOrdered'
    BY <1>1, <2>1 DEF GapMeansFailure, LogOrdered, Increasing
  <2> QED
    BY <1>1, <2>1, <2>2, <2>3, NoFrameTyped, NoFrameReadsOn, TypesJoin DEF IndInv
<1>3. CASE ops /\ signing
  <2>1. /\ seq' = seq + 1 /\ pending' = Append(pending, seq') /\ NoFrame
        /\ log' = log
    BY <1>1, <1>3 DEF OnAircraft, NextSeq, NoFrame, LogOrdered
  <2>2. seq' \in 1 .. seq' /\ pending \in Seq(1 .. seq')
    <3>1. 1 .. seq \subseteq 1 .. seq'
      BY <1>1, <2>1
    <3> QED
      BY <1>1, <2>1, <3>1, SeqMonotonic
  <2>3. /\ pending' \in Seq(1 .. seq')
        /\ Len(pending') = Len(pending) + 1 /\ Len(pending) \in Nat
        /\ \A i \in 1 .. Len(pending) : pending'[i] = pending[i]
        /\ pending'[Len(pending) + 1] = seq + 1
    BY <2>1, <2>2
  <2>4. DaemonTyped'
    BY <1>1, <2>1, <2>3 DEF DaemonTyped
  <2>5. GapMeansFailure'
    <3> SUFFICES ASSUME NEW n \in 1 .. seq'
                 PROVE  \/ \E i \in DOMAIN log' : log'[i] = n
                        \/ n \in failed'
                        \/ \E i \in DOMAIN pending' : pending'[i] = n
      BY DEF GapMeansFailure
    <3>1. CASE n = seq + 1
      BY <2>3, <3>1
    <3>2. CASE n \in 1 .. seq
      <4>1. \/ \E i \in DOMAIN log : log[i] = n
            \/ n \in failed
            \/ \E i \in 1 .. Len(pending) : pending[i] = n
        BY <1>1, <3>2 DEF GapMeansFailure
      <4>2. \A i \in 1 .. Len(pending) : i \in DOMAIN pending'
        BY <2>3
      <4> QED
        BY <1>1, <2>1, <2>3, <4>1, <4>2
    <3> QED
      BY <1>1, <2>1, <3>1, <3>2
  <2>6. LogOrdered'
    <3>1. \A i \in 1 .. Len(pending) : pending[i] \in 1 .. seq
      BY <1>1
    <3>2. \A i, j \in 1 .. Len(pending') : i < j => pending'[i] < pending'[j]
      <4> SUFFICES ASSUME NEW i \in 1 .. Len(pending) + 1,
                          NEW j \in 1 .. Len(pending) + 1, i < j
                   PROVE  pending'[i] < pending'[j]
        BY <2>3
      <4>1. i \in 1 .. Len(pending) /\ pending'[i] = pending[i] /\ pending[i] <= seq
        BY <2>3, <3>1
      <4>2. CASE j \in 1 .. Len(pending)
        BY <1>1, <2>3, <4>1, <4>2 DEF LogOrdered
      <4>3. CASE j = Len(pending) + 1
        BY <1>1, <2>3, <3>1, <4>1, <4>3
      <4> QED
        BY <2>3, <4>2, <4>3
    <3>3. \A i \in 1 .. Len(log') : log'[i] \in 0 .. seq
      BY <1>1, <2>1 DEF LogOrdered, Frames, Info
    <3>4. \A i \in 1 .. Len(log'), j \in 1 .. Len(pending') : log'[i] < pending'[j]
      BY <1>1, <2>1, <2>3, <3>3 DEF LogOrdered
    <3>5. \A i \in 1 .. Len(log') : log'[i] <= seq'
      BY <1>1, <2>1, <3>3
    <3> QED
      BY <1>1, <1>3, <2>1, <3>2, <3>4, <3>5 DEF LogOrdered, Increasing
  <2> QED
    BY <1>1, <2>1, <2>4, <2>5, <2>6, NoFrameTyped, NoFrameReadsOn, TypesJoin
       DEF IndInv
<1>4. CASE ops /\ ~signing
  <2>1. /\ seq' = seq + 1 /\ pending' = pending /\ pending = << >> /\ Emit(seq + 1)
    BY <1>1, <1>4 DEF OnAircraft, NextSeq, LogOrdered
  <2>2. seq + 1 \in Frames
    BY <1>1 DEF Frames
  <2>3. /\ log' \in Seq(Frames)
        /\ Len(log') = Len(log) + 1 /\ Len(log) \in Nat
        /\ \A i \in 1 .. Len(log) : log'[i] = log[i]
        /\ log'[Len(log) + 1] = seq + 1
    BY <1>1, <2>1, <2>2, Emitted
  <2>4. DaemonTyped'
    BY <1>1, <2>1 DEF DaemonTyped
  <2>5. GapMeansFailure'
    <3> SUFFICES ASSUME NEW n \in 1 .. seq'
                 PROVE  \/ \E i \in DOMAIN log' : log'[i] = n
                        \/ n \in failed'
      BY DEF GapMeansFailure
    <3>1. CASE n = seq + 1
      BY <2>3, <3>1
    <3>2. CASE n \in 1 .. seq
      BY <1>1, <2>1, <2>3, <3>2 DEF GapMeansFailure
    <3> QED
      BY <1>1, <2>1, <3>1, <3>2
  <2>6. LogOrdered'
    <3>1. \A i \in 1 .. Len(log) : log[i] \in 0 .. seq
      BY <1>1 DEF LogOrdered, Frames, Info
    <3>2. \A i \in 1 .. Len(log') : log'[i] <= seq'
      BY <1>1, <2>1, <2>3, <3>1
    <3>3. Increasing(log')
      <4>1. log \in Seq(Frames) /\ Increasing(log)
        BY <1>1 DEF LogOrdered
      <4>2. \A i \in 1 .. Len(log) : log[i] < seq + 1
        BY <1>1, <3>1
      <4> QED
        BY <2>2, <2>3, <4>1, <4>2, IncreasingGrows
    <3> QED
      BY <1>1, <2>1, <3>2, <3>3 DEF LogOrdered
  <2> QED
    BY <1>1, <2>1, <2>2, <2>4, <2>5, <2>6, EmitTyped, EmitReadsOn, TypesJoin
       DEF IndInv
<1> QED
  BY <1>1, <1>2, <1>3, <1>4 DEF TypeOK

\* An info frame has no number.
LEMMA InfoStep ==
  ASSUME IndInv, BroadcastInfo
  PROVE  IndInv'
<1>1. /\ TypeOK /\ LogOrdered /\ GapMeansFailure /\ ReadsOn
      /\ Info \in Frames /\ Emit(Info)
      /\ UNCHANGED <<signing, seq, handled, pending, failed>>
  BY DEF BroadcastInfo, IndInv, Frames, daemon
<1>2. /\ seq \in Nat /\ log \in Seq(Frames) /\ Len(log) \in Nat
      /\ pending \in Seq(1 .. seq)
  BY <1>1 DEF TypeOK
<1>3. /\ log' \in Seq(Frames)
      /\ Len(log') = Len(log) + 1
      /\ \A i \in 1 .. Len(log) : log'[i] = log[i]
      /\ log'[Len(log) + 1] = Info
  BY <1>1, Emitted
<1>4. TypeOK'
  <2>1. DaemonTyped'
    BY <1>1 DEF TypeOK, DaemonTyped
  <2> QED
    BY <1>1, <2>1, EmitTyped, TypesJoin
<1>5. GapMeansFailure'
  <2>1. \A i \in DOMAIN log : i \in DOMAIN log' /\ log'[i] = log[i]
    BY <1>2, <1>3
  <2> QED
    BY <1>1, <2>1 DEF GapMeansFailure
<1>6. LogOrdered'
  <2>1. \A i \in 1 .. Len(log') : log'[i] <= seq'
    BY <1>1, <1>2, <1>3 DEF LogOrdered, Info
  <2>2. Increasing(log')
    BY <1>1, <1>2, <1>3, IncreasingGrows DEF LogOrdered
  <2>3. \A j \in 1 .. Len(pending) : Info < pending[j]
    BY <1>2 DEF Info
  <2>4. \A i \in 1 .. Len(log'), j \in 1 .. Len(pending') : log'[i] < pending'[j]
    BY <1>1, <1>2, <1>3, <2>3 DEF LogOrdered
  <2> QED
    BY <1>1, <2>1, <2>2, <2>4 DEF LogOrdered
<1> QED
  BY <1>1, <1>4, <1>5, <1>6, EmitReadsOn DEF IndInv

\* The number that leaves pending is in the log or has failed.
LEMMA SettleStep ==
  ASSUME IndInv, InOrderSigning, NEW i, Signed(i) \/ SignatureFails(i)
  PROVE  IndInv'
<1> DEFINE n == pending[1]
<1>1. /\ TypeOK /\ LogOrdered /\ GapMeansFailure /\ ReadsOn
      /\ i = 1 /\ Settle(i)
      /\ pending # << >> /\ pending' = Tail(pending)
      /\ UNCHANGED <<signing, seq, handled>>
  BY FirstSettles DEF Signed, SignatureFails, IndInv, Settle
<1>2. /\ seq \in Nat /\ log \in Seq(Frames) /\ Len(log) \in Nat
      /\ pending \in Seq(1 .. seq) /\ failed \subseteq 1 .. seq
      /\ MaxMessages \in Nat /\ seq <= MaxMessages
  BY <1>1, StreamAssumption DEF TypeOK
<1>3. /\ pending' \in Seq(1 .. seq) /\ Len(pending') = Len(pending) - 1
      /\ Len(pending) \in Nat /\ Len(pending) >= 1
      /\ n \in 1 .. seq
      /\ \A j \in 1 .. Len(pending) - 1 : pending'[j] = pending[j + 1]
  BY <1>1, <1>2, HeadAndTail
<1>4. \A j \in 2 .. Len(pending) : pending[j] \in {pending'[k] : k \in DOMAIN pending'}
  <2> SUFFICES ASSUME NEW j \in 2 .. Len(pending)
               PROVE  \E k \in DOMAIN pending' : pending'[k] = pending[j]
    OBVIOUS
  <2>1. j - 1 \in DOMAIN pending' /\ pending'[j - 1] = pending[j]
    BY <1>3
  <2> QED
    BY <2>1
<1>5. \A j \in 1 .. Len(pending') : n < pending'[j]
  <2> SUFFICES ASSUME NEW j \in 1 .. Len(pending')
               PROVE  n < pending'[j]
    OBVIOUS
  <2>1. 1 \in 1 .. Len(pending) /\ j + 1 \in 1 .. Len(pending) /\ 1 < j + 1
    BY <1>3
  <2> QED
    BY <1>1, <1>3, <2>1 DEF LogOrdered
<1>6. \A j, k \in 1 .. Len(pending') : j < k => pending'[j] < pending'[k]
  <2> SUFFICES ASSUME NEW j \in 1 .. Len(pending'), NEW k \in 1 .. Len(pending'), j < k
               PROVE  pending'[j] < pending'[k]
    OBVIOUS
  <2>1. j + 1 \in 1 .. Len(pending) /\ k + 1 \in 1 .. Len(pending) /\ j + 1 < k + 1
    BY <1>3
  <2> QED
    BY <1>1, <1>3, <2>1 DEF LogOrdered
<1>7. \A l \in 1 .. Len(log), j \in 1 .. Len(pending') : log[l] < pending'[j]
  <2> SUFFICES ASSUME NEW l \in 1 .. Len(log), NEW j \in 1 .. Len(pending')
               PROVE  log[l] < pending'[j]
    OBVIOUS
  <2>1. j + 1 \in 1 .. Len(pending)
    BY <1>3
  <2> QED
    BY <1>1, <1>3, <2>1 DEF LogOrdered
<1>8. \A m \in 1 .. seq : \/ \E l \in DOMAIN log : log[l] = m
                          \/ m \in failed \cup {n}
                          \/ \E j \in DOMAIN pending' : pending'[j] = m
  <2> SUFFICES ASSUME NEW m \in 1 .. seq,
                      ~ \E l \in DOMAIN log : log[l] = m,
                      m \notin failed \cup {n}
               PROVE  \E k \in DOMAIN pending' : pending'[k] = m
    OBVIOUS
  <2>1. \E j \in DOMAIN pending : pending[j] = m
    BY <1>1 DEF GapMeansFailure
  <2>2. DOMAIN pending = 1 .. Len(pending)
    BY <1>2
  <2>3. PICK j \in 1 .. Len(pending) : pending[j] = m
    BY <2>1, <2>2
  <2>4. j \in 2 .. Len(pending)
    BY <1>3, <2>3
  <2> QED
    BY <1>4, <2>3, <2>4
<1>9. CASE SignatureFails(i)
  <2>1. /\ failed' = failed \cup {n} /\ NoFrame /\ log' = log
    BY <1>1, <1>9 DEF SignatureFails, NoFrame
  <2>2. DaemonTyped'
    BY <1>1, <1>2, <1>3, <2>1 DEF TypeOK, DaemonTyped
  <2>3. GapMeansFailure'
    BY <1>1, <1>8, <2>1 DEF GapMeansFailure
  <2>4. LogOrdered'
    BY <1>1, <1>3, <1>6, <1>7, <2>1 DEF LogOrdered, Increasing
  <2> QED
    BY <1>1, <2>1, <2>2, <2>3, <2>4, NoFrameTyped, NoFrameReadsOn, TypesJoin DEF IndInv
<1>10. CASE Signed(i)
  <2>1. failed' = failed /\ Emit(n) /\ n \in Frames
    BY <1>1, <1>2, <1>3, <1>10 DEF Signed, Frames
  <2>2. /\ log' \in Seq(Frames)
        /\ Len(log') = Len(log) + 1
        /\ \A l \in 1 .. Len(log) : log'[l] = log[l]
        /\ log'[Len(log) + 1] = n
    BY <1>1, <2>1, Emitted
  <2>3. DaemonTyped'
    BY <1>1, <1>2, <1>3, <2>1 DEF TypeOK, DaemonTyped
  <2>4. GapMeansFailure'
    <3> SUFFICES ASSUME NEW m \in 1 .. seq
                 PROVE  \/ \E l \in DOMAIN log' : log'[l] = m
                        \/ m \in failed
                        \/ \E j \in DOMAIN pending' : pending'[j] = m
      BY <1>1, <2>1 DEF GapMeansFailure
    <3>1. /\ Len(log) + 1 \in DOMAIN log'
          /\ \A l \in DOMAIN log : l \in DOMAIN log' /\ log'[l] = log[l]
      <4>1. /\ Len(log) \in Nat /\ DOMAIN log = 1 .. Len(log)
            /\ DOMAIN log' = 1 .. Len(log')
        BY <1>2, <2>2
      <4> QED
        BY <2>2, <4>1
    <3>2. CASE m = n
      BY <2>2, <3>1, <3>2
    <3>3. CASE m # n
      BY <1>8, <3>1, <3>3
    <3> QED
      BY <3>2, <3>3
  <2>5. LogOrdered'
    <3>1. \A l \in 1 .. Len(log) : log[l] < n
      BY <1>1, <1>3 DEF LogOrdered
    <3>2. \A l \in 1 .. Len(log') : log'[l] <= seq'
      <4> SUFFICES ASSUME NEW l \in 1 .. Len(log) + 1
                   PROVE  log'[l] <= seq
        BY <1>1, <2>2
      <4>1. CASE l \in 1 .. Len(log)
        BY <1>1, <2>2, <4>1 DEF LogOrdered
      <4>2. CASE l = Len(log) + 1
        BY <1>3, <2>2, <4>2
      <4> QED
        BY <1>2, <4>1, <4>2
    <3>3. Increasing(log')
      <4>1. \A l \in 1 .. Len(log) : log'[l] < log'[Len(log) + 1]
        BY <2>2, <3>1
      <4>2. \A l, k \in 1 .. Len(log) :
              l < k /\ log'[l] # Info /\ log'[k] # Info => log'[l] < log'[k]
        BY <1>1, <1>2, <2>2 DEF LogOrdered, Increasing
      <4> QED
        BY <1>2, <2>2, <4>1, <4>2 DEF Increasing
    <3>4. \A l \in 1 .. Len(log'), j \in 1 .. Len(pending') : log'[l] < pending'[j]
      <4> SUFFICES ASSUME NEW l \in 1 .. Len(log) + 1, NEW j \in 1 .. Len(pending')
                   PROVE  log'[l] < pending'[j]
        BY <2>2
      <4>1. CASE l \in 1 .. Len(log)
        BY <1>7, <2>2, <4>1
      <4>2. CASE l = Len(log) + 1
        BY <1>5, <2>2, <4>2
      <4> QED
        BY <1>2, <4>1, <4>2
    <3> QED
      BY <1>1, <1>3, <1>6, <3>2, <3>3, <3>4 DEF LogOrdered
  <2> QED
    BY <1>1, <2>1, <2>3, <2>4, <2>5, EmitTyped, EmitReadsOn, TypesJoin DEF IndInv
<1> QED
  BY <1>9, <1>10

-----------------------------------------------------------------------------
\* Nothing changes for a client.
Same(e) ==
  /\ pc'[e] = pc[e] /\ queue'[e] = queue[e] /\ hand'[e] = hand[e]
  /\ resolve'[e] = resolve[e] /\ joined'[e] = joined[e] /\ received'[e] = received[e]
  /\ e \in listeners' <=> e \in listeners

\* A step of one generator leaves what the others read as it is.
LEMMA OneReads ==
  ASSUME ReadsOn, NEW c \in Clients, log' = log,
         aborted \subseteq aborted',
         \A e \in Clients \ {c} : Same(e),
         Read(c)',
         c \in listeners' /\ c \notin aborted' => OnItsWay(c)',
         Woken(c)'
  PROVE  ReadsOn'
<1> SUFFICES ASSUME NEW e \in Clients, e # c
             PROVE  /\ Read(e)'
                    /\ e \in listeners' /\ e \notin aborted' => OnItsWay(e)'
                    /\ Woken(e)'
  BY DEF ReadsOn
<1>1. /\ Same(e) /\ Read(e) /\ Woken(e)
      /\ e \in listeners /\ e \notin aborted => OnItsWay(e)
  BY DEF ReadsOn
<1>2. Read(e)'
  BY <1>1 DEF Same, Read
<1>3. e \in listeners' /\ e \notin aborted' => OnItsWay(e)'
  BY <1>1 DEF Same, OnItsWay
<1>4. Woken(e)'
  BY <1>1 DEF Same, Woken
<1> QED
  BY <1>2, <1>3, <1>4

LEMMA QuietDaemon ==
  ASSUME IndInv, UNCHANGED <<daemon, log>>, GeneratorsTyped', ReadsOn'
  PROVE  IndInv'
<1>1. UNCHANGED <<signing, seq, handled, pending, failed, log>>
  BY DEF daemon
<1>2. DaemonTyped' /\ GapMeansFailure' /\ LogOrdered'
  BY <1>1 DEF IndInv, TypeOK, DaemonTyped, GapMeansFailure, LogOrdered, Increasing
<1> QED
  BY <1>2, TypesJoin DEF IndInv

LEMMA LeaveStep ==
  ASSUME IndInv, NEW c \in Clients, Leave(c), UNCHANGED <<daemon, log, connections>>
  PROVE  IndInv'
<1>1. /\ TypeOK /\ ReadsOn /\ Read(c)
      /\ UNCHANGED <<log, server, closing, aborted, joined, received>>
  BY DEF IndInv, ReadsOn, Leave, connections
<1>2. /\ pc' = [pc EXCEPT ![c] = "done"] /\ pc \in [Clients -> Places]
      /\ listeners' = listeners \ {c}
      /\ queue' = [queue EXCEPT ![c] = << >>] /\ queue \in [Clients -> Seq(Frames)]
      /\ hand' = [hand EXCEPT ![c] = << >>] /\ hand \in [Clients -> Seq(Frames)]
      /\ resolve' = [resolve EXCEPT ![c] = FALSE] /\ resolve \in [Clients -> BOOLEAN]
  BY <1>1 DEF Leave, TypeOK
<1>3. \A e \in Clients \ {c} : Same(e)
  BY <1>1, <1>2 DEF Same
<1>4. pc'[c] = "done" /\ hand'[c] = << >> /\ c \notin listeners'
  BY <1>2
<1>5. GeneratorsTyped'
  <2>1. /\ pc' \in [Clients -> Places]
        /\ queue' \in [Clients -> Seq(Frames)]
        /\ hand' \in [Clients -> Seq(Frames)]
        /\ resolve' \in [Clients -> BOOLEAN]
    BY <1>2 DEF Places
  <2>2. listeners' = {e \in Clients : pc'[e] \in {"waiting", "yielded"}}
    BY <1>1, <1>2 DEF TypeOK
  <2>3. \A e \in Clients : Len(hand'[e]) = IF pc'[e] = "yielded" THEN 1 ELSE 0
    <3> SUFFICES ASSUME NEW e \in Clients
                 PROVE  Len(hand'[e]) = IF pc'[e] = "yielded" THEN 1 ELSE 0
      OBVIOUS
    <3>1. CASE e = c
      BY <1>4, <3>1
    <3>2. CASE e # c
      BY <1>1, <1>3, <3>2 DEF TypeOK, Same
    <3> QED
      BY <3>1, <3>2
  <2> QED
    BY <1>1, <2>1, <2>2, <2>3 DEF TypeOK, GeneratorsTyped
<1>6. Read(c)' /\ Woken(c)'
  BY <1>1, <1>4 DEF Read, Woken
<1>7. ReadsOn'
  BY <1>1, <1>3, <1>4, <1>6, OneReads
<1> QED
  BY <1>5, <1>7, QuietDaemon

LEMMA SubscribeStep ==
  ASSUME IndInv, NEW c \in Clients, Subscribe(c)
  PROVE  IndInv'
<1>1. /\ TypeOK /\ ReadsOn /\ Read(c)
      /\ UNCHANGED <<daemon, log, server, closing, aborted, listeners, queue, hand,
                     resolve, joined, received>>
      /\ pc[c] = "absent"
      /\ pc' = [pc EXCEPT ![c] = "connected"]
  BY DEF IndInv, ReadsOn, Subscribe, connections
<1>2. /\ pc' \in [Clients -> Places] /\ pc'[c] = "connected"
      /\ \A e \in Clients \ {c} : pc'[e] = pc[e]
  BY <1>1 DEF TypeOK, Places
<1>3. \A e \in Clients \ {c} : Same(e)
  BY <1>1, <1>2 DEF Same
<1>4. c \notin listeners
  BY <1>1 DEF TypeOK
<1>5. GeneratorsTyped'
  <2>1. listeners' = {e \in Clients : pc'[e] \in {"waiting", "yielded"}}
    BY <1>1, <1>2 DEF TypeOK
  <2>2. \A e \in Clients : Len(hand'[e]) = IF pc'[e] = "yielded" THEN 1 ELSE 0
    BY <1>1, <1>2 DEF TypeOK
  <2> QED
    BY <1>1, <1>2, <2>1, <2>2 DEF TypeOK, GeneratorsTyped
<1>6. Read(c)' /\ Woken(c)'
  BY <1>1, <1>2 DEF Read, Woken
<1>7. ReadsOn'
  BY <1>1, <1>3, <1>4, <1>6, OneReads
<1> QED
  BY <1>1, <1>5, <1>7, QuietDaemon

\* A generator that starts has nothing to read yet and waits.
LEMMA StartStep ==
  ASSUME IndInv, NEW c \in Clients, Start(c), c \notin aborted
  PROVE  IndInv'
<1>1. /\ TypeOK /\ ReadsOn /\ Read(c)
      /\ UNCHANGED <<daemon, log, server, closing, aborted, queue, received>>
      /\ pc[c] = "connected"
      /\ listeners' = listeners \cup {c}
      /\ joined' = [joined EXCEPT ![c] = Len(log)]
      /\ pc' = [pc EXCEPT ![c] = "waiting"]
      /\ hand' = [hand EXCEPT ![c] = << >>]
      /\ resolve' = [resolve EXCEPT ![c] = TRUE]
  BY Zenon DEF IndInv, ReadsOn, Start, Await, connections
<1>2. /\ pc' \in [Clients -> Places] /\ pc'[c] = "waiting"
      /\ hand' \in [Clients -> Seq(Frames)] /\ hand'[c] = << >>
      /\ joined' \in [Clients -> Nat] /\ joined'[c] = Len(log)
      /\ \A e \in Clients \ {c} : /\ pc'[e] = pc[e] /\ hand'[e] = hand[e]
                                  /\ joined'[e] = joined[e]
  BY <1>1 DEF TypeOK, Places
<1>3. /\ resolve' \in [Clients -> BOOLEAN] /\ resolve'[c]
      /\ \A e \in Clients \ {c} : resolve'[e] = resolve[e]
  BY <1>1, Zenon DEF TypeOK
<1>4. \A e \in Clients \ {c} : Same(e)
  BY <1>1, <1>2, <1>3 DEF Same
<1>5. GeneratorsTyped'
  <2>1. listeners' = {e \in Clients : pc'[e] \in {"waiting", "yielded"}}
    BY <1>1, <1>2 DEF TypeOK
  <2>2. \A e \in Clients : Len(hand'[e]) = IF pc'[e] = "yielded" THEN 1 ELSE 0
    BY <1>1, <1>2 DEF TypeOK
  <2> QED
    BY <1>1, <1>2, <1>3, <2>1, <2>2 DEF TypeOK, GeneratorsTyped
<1>6. received'[c] = << >> /\ queue'[c] = << >> /\ Len(log) \in Nat
  BY <1>1 DEF Read, TypeOK
<1>7. Read(c)' /\ OnItsWay(c)' /\ Woken(c)'
  BY <1>1, <1>2, <1>3, <1>6 DEF Read, OnItsWay, Woken
<1>8. ReadsOn'
  BY <1>1, <1>4, <1>7, OneReads
<1> QED
  BY <1>1, <1>5, <1>8, QuietDaemon

\* A stretch of a log, as a reader's frames: r read, h in hand, q queued.
Stretch(l, j, r, h, q) ==
  /\ j + Len(r) + Len(h) + Len(q) = Len(l)
  /\ \A i \in 1 .. Len(r) : r[i] = l[j + i]
  /\ \A i \in 1 .. Len(h) : h[i] = l[j + Len(r) + i]
  /\ \A i \in 1 .. Len(q) : q[i] = l[j + Len(r) + Len(h) + i]

\* The hand is read and the head of the queue taken into it.
LEMMA StretchMoves ==
  ASSUME NEW S, NEW l \in Seq(S), NEW j \in Nat, NEW r \in Seq(S), NEW h \in Seq(S),
         NEW q \in Seq(S), q # << >>, Stretch(l, j, r, h, q)
  PROVE  Stretch(l, j, r \o h, <<Head(q)>>, Tail(q))
<1>1. /\ Len(r) \in Nat /\ Len(h) \in Nat /\ Len(q) \in Nat /\ Len(l) \in Nat
      /\ Len(q) >= 1
  BY HeadAndTail
<1>2. /\ Len(Tail(q)) = Len(q) - 1 /\ Head(q) = q[1]
      /\ \A i \in 1 .. Len(q) - 1 : Tail(q)[i] = q[i + 1]
      /\ Len(<<Head(q)>>) = 1 /\ <<Head(q)>>[1] = q[1]
  BY HeadAndTail
<1>3. /\ Len(r \o h) = Len(r) + Len(h)
      /\ \A i \in 1 .. Len(r) + Len(h) :
           (r \o h)[i] = IF i <= Len(r) THEN r[i] ELSE h[i - Len(r)]
  BY ConcatProperties
<1>4. j + Len(r \o h) + Len(<<Head(q)>>) + Len(Tail(q)) = Len(l)
  BY <1>1, <1>2, <1>3 DEF Stretch
<1>5. ASSUME NEW i \in 1 .. Len(r \o h)
      PROVE  (r \o h)[i] = l[j + i]
  <2>1. CASE i <= Len(r)
    <3>1. i \in 1 .. Len(r) /\ i \in 1 .. Len(r) + Len(h)
      BY <1>1, <1>3, <2>1
    <3> QED
      BY <1>3, <2>1, <3>1 DEF Stretch
  <2>2. CASE i > Len(r)
    <3>1. /\ i - Len(r) \in 1 .. Len(h) /\ i \in 1 .. Len(r) + Len(h)
          /\ ~ (i <= Len(r))
          /\ j + Len(r) + (i - Len(r)) = j + i
      BY <1>1, <1>3, <2>2
    <3>2. h[i - Len(r)] = l[j + Len(r) + (i - Len(r))]
      BY <3>1 DEF Stretch
    <3> QED
      BY <1>3, <3>1, <3>2
  <2> QED
    BY <1>1, <2>1, <2>2
<1>6. ASSUME NEW i \in 1 .. Len(<<Head(q)>>)
      PROVE  <<Head(q)>>[i] = l[j + Len(r \o h) + i]
  <2>1. i = 1 /\ 1 \in 1 .. Len(q) /\ j + Len(r \o h) = j + Len(r) + Len(h)
    BY <1>1, <1>2, <1>3
  <2>2. q[1] = l[j + Len(r) + Len(h) + 1]
    BY <2>1 DEF Stretch
  <2> QED
    BY <1>2, <2>1, <2>2
<1>7. ASSUME NEW i \in 1 .. Len(Tail(q))
      PROVE  Tail(q)[i] = l[j + Len(r \o h) + Len(<<Head(q)>>) + i]
  <2>1. /\ i \in 1 .. Len(q) - 1 /\ i + 1 \in 1 .. Len(q)
        /\ j + Len(r \o h) + Len(<<Head(q)>>) + i = j + Len(r) + Len(h) + (i + 1)
    BY <1>1, <1>2, <1>3
  <2>2. q[i + 1] = l[j + Len(r) + Len(h) + (i + 1)]
    BY <2>1 DEF Stretch
  <2> QED
    BY <1>2, <2>1, <2>2
<1> QED
  BY <1>4, <1>5, <1>6, <1>7 DEF Stretch

\* The hand is read and nothing follows it.
LEMMA StretchEnds ==
  ASSUME NEW S, NEW l \in Seq(S), NEW j \in Nat, NEW r \in Seq(S), NEW h \in Seq(S),
         Stretch(l, j, r, h, << >>)
  PROVE  Stretch(l, j, r \o h, << >>, << >>)
<1>1. Len(r) \in Nat /\ Len(h) \in Nat /\ Len(l) \in Nat /\ Len(<< >>) = 0
  OBVIOUS
<1>2. /\ Len(r \o h) = Len(r) + Len(h)
      /\ \A i \in 1 .. Len(r) + Len(h) :
           (r \o h)[i] = IF i <= Len(r) THEN r[i] ELSE h[i - Len(r)]
  BY ConcatProperties
<1>3. ASSUME NEW i \in 1 .. Len(r \o h)
      PROVE  (r \o h)[i] = l[j + i]
  <2>1. CASE i <= Len(r)
    <3>1. i \in 1 .. Len(r) /\ i \in 1 .. Len(r) + Len(h)
      BY <1>1, <1>2, <2>1
    <3> QED
      BY <1>2, <2>1, <3>1 DEF Stretch
  <2>2. CASE i > Len(r)
    <3>1. /\ i - Len(r) \in 1 .. Len(h) /\ i \in 1 .. Len(r) + Len(h)
          /\ ~ (i <= Len(r))
          /\ j + Len(r) + (i - Len(r)) = j + i
      BY <1>1, <1>2, <2>2
    <3>2. h[i - Len(r)] = l[j + Len(r) + (i - Len(r))]
      BY <3>1 DEF Stretch
    <3> QED
      BY <1>2, <3>1, <3>2
  <2> QED
    BY <1>1, <2>1, <2>2
<1> QED
  BY <1>1, <1>2, <1>3 DEF Stretch

\* What has been read is no longer than the log.
LEMMA StretchFits ==
  ASSUME NEW S, NEW l \in Seq(S), NEW j \in Nat, NEW r \in Seq(S), NEW h \in Seq(S),
         NEW q \in Seq(S), Stretch(l, j, r, h, q)
  PROVE  j + Len(r) <= Len(l)
<1>1. Len(r) \in Nat /\ Len(h) \in Nat /\ Len(q) \in Nat /\ Len(l) \in Nat
  OBVIOUS
<1> QED
  BY <1>1 DEF Stretch

\* The head of the queue comes into the hands of the generator.
LEMMA YieldStep ==
  ASSUME IndInv, NEW c \in Clients, c \in listeners, queue[c] # << >>, Yield(c),
         UNCHANGED <<daemon, log, connections, listeners, joined>>,
         received' \in [Clients -> Seq(Frames)],
         \A e \in Clients \ {c} : received'[e] = received[e],
         \/ received'[c] = received[c]
         \/ c \notin aborted /\ received'[c] = received[c] \o hand[c],
         (c \notin aborted /\ received'[c] = received[c]) => hand[c] = << >>
  PROVE  IndInv'
<1>1. /\ TypeOK /\ ReadsOn /\ Read(c)
      /\ c \notin aborted => OnItsWay(c)
      /\ UNCHANGED <<log, server, closing, aborted, listeners, resolve, joined>>
      /\ pc' = [pc EXCEPT ![c] = "yielded"]
      /\ hand' = [hand EXCEPT ![c] = <<Head(queue[c])>>]
      /\ queue' = [queue EXCEPT ![c] = Tail(@)]
  BY DEF IndInv, ReadsOn, Yield, connections
<1>2. /\ queue[c] \in Seq(Frames) /\ hand[c] \in Seq(Frames) /\ received[c] \in Seq(Frames)
      /\ joined[c] \in Nat /\ log \in Seq(Frames) /\ Len(log) \in Nat
      /\ Len(hand[c]) \in Nat /\ Len(received[c]) \in Nat /\ Len(queue[c]) \in Nat
      /\ pc[c] \in {"waiting", "yielded"}
  BY <1>1 DEF TypeOK
<1>3. /\ Tail(queue[c]) \in Seq(Frames) /\ Len(queue[c]) >= 1
      /\ Len(Tail(queue[c])) = Len(queue[c]) - 1
      /\ \A i \in 1 .. Len(queue[c]) - 1 : Tail(queue[c])[i] = queue[c][i + 1]
      /\ Head(queue[c]) = queue[c][1] /\ Head(queue[c]) \in Frames
  BY <1>2, HeadAndTail
<1>4. /\ pc' \in [Clients -> Places] /\ pc'[c] = "yielded"
      /\ hand' \in [Clients -> Seq(Frames)] /\ hand'[c] = <<queue[c][1]>>
      /\ Len(hand'[c]) = 1 /\ hand'[c][1] = queue[c][1]
      /\ queue' \in [Clients -> Seq(Frames)] /\ queue'[c] = Tail(queue[c])
      /\ \A e \in Clients \ {c} : /\ pc'[e] = pc[e] /\ hand'[e] = hand[e]
                                  /\ queue'[e] = queue[e]
  BY <1>1, <1>3 DEF TypeOK, Places
<1>5. \A e \in Clients \ {c} : Same(e)
  BY <1>1, <1>4 DEF Same
<1>6. GeneratorsTyped'
  <2>1. listeners' = {e \in Clients : pc'[e] \in {"waiting", "yielded"}}
    BY <1>1, <1>4 DEF TypeOK
  <2>2. \A e \in Clients : Len(hand'[e]) = IF pc'[e] = "yielded" THEN 1 ELSE 0
    BY <1>1, <1>4 DEF TypeOK
  <2> QED
    BY <1>1, <1>4, <2>1, <2>2 DEF TypeOK, GeneratorsTyped
<1>7. Woken(c)'
  BY <1>4 DEF Woken
<1>8. CASE c \in aborted
  <2>1. Read(c)'
    BY <1>1, <1>4, <1>8 DEF Read
  <2>2. ReadsOn'
    BY <1>1, <1>5, <1>7, <1>8, <2>1, OneReads
  <2> QED
    BY <1>6, <2>2, QuietDaemon
<1>9. CASE c \notin aborted
  <2>1. Stretch(log, joined[c], received[c], hand[c], queue[c])
    BY <1>1, <1>2, <1>9 DEF Read, OnItsWay, Stretch
  <2>2. received'[c] = received[c] \o hand[c] /\ received'[c] \in Seq(Frames)
    BY <1>2, <1>9, ConcatEmptySeq
  <2>3. Stretch(log, joined[c], received'[c], hand'[c], queue'[c])
    BY <1>2, <1>3, <1>4, <2>1, <2>2, StretchMoves
  <2>4. Read(c)'
    <3>1. hand'[c] \in Seq(Frames) /\ queue'[c] \in Seq(Frames)
      BY <1>4
    <3>2. joined[c] + Len(received'[c]) <= Len(log)
      BY <1>2, <2>2, <2>3, <3>1, StretchFits
    <3>3. \A i \in 1 .. Len(received'[c]) : received'[c][i] = log[joined[c] + i]
      BY <2>3 DEF Stretch
    <3>4. pc'[c] = "yielded" /\ log' = log /\ joined' = joined
      BY <1>1, <1>4
    <3> QED
      BY <3>2, <3>3, <3>4 DEF Read
  <2>5. OnItsWay(c)'
    BY <1>1, <2>3 DEF OnItsWay, Stretch
  <2>6. ReadsOn'
    BY <1>1, <1>5, <1>7, <2>4, <2>5, OneReads
  <2> QED
    BY <1>6, <2>6, QuietDaemon
<1> QED
  BY <1>8, <1>9

LEMMA WakeStep ==
  ASSUME IndInv, NEW c \in Clients, Wake(c)
  PROVE  IndInv'
<1>1. CASE c \in aborted
  BY <1>1, LeaveStep DEF Wake
<1>2. CASE c \notin aborted
  <2>1. /\ pc[c] = "waiting" /\ ~resolve[c] /\ Yield(c)
        /\ UNCHANGED <<daemon, log, connections, listeners, joined>>
        /\ received' = received
    BY <1>2 DEF Wake
  <2>2. /\ c \in listeners /\ queue[c] # << >>
        /\ received' \in [Clients -> Seq(Frames)]
        /\ hand[c] \in Seq(Frames) /\ Len(hand[c]) = 0
    BY <1>2, <2>1 DEF IndInv, TypeOK, ReadsOn, Woken
  <2>3. hand[c] = << >>
    BY <2>2
  <2> QED
    BY <2>1, <2>2, <2>3, YieldStep
<1> QED
  BY <1>1, <1>2

\* The frame in hand is read; the queue is looked at next.
LEMMA PullStep ==
  ASSUME IndInv, NEW c \in Clients, Pull(c)
  PROVE  IndInv'
<1>1. /\ TypeOK /\ ReadsOn /\ Read(c)
      /\ c \notin aborted => OnItsWay(c)
      /\ pc[c] = "yielded" /\ c \in listeners /\ Len(hand[c]) = 1
      /\ UNCHANGED <<daemon, log, server, closing, aborted, listeners, joined>>
      /\ received' = IF c \in aborted THEN received
                     ELSE [received EXCEPT ![c] = @ \o hand[c]]
      /\ Continue(c)
  BY DEF IndInv, ReadsOn, Pull, connections, TypeOK
<1>2. /\ queue[c] \in Seq(Frames) /\ hand[c] \in Seq(Frames) /\ received[c] \in Seq(Frames)
      /\ joined[c] \in Nat /\ log \in Seq(Frames) /\ Len(log) \in Nat
      /\ Len(hand[c]) \in Nat /\ Len(received[c]) \in Nat
  BY <1>1 DEF TypeOK
<1>3. /\ received[c] \o hand[c] \in Seq(Frames)
      /\ Len(received[c] \o hand[c]) # Len(received[c])
  <2>1. /\ received[c] \o hand[c] \in Seq(Frames)
        /\ Len(received[c] \o hand[c]) = Len(received[c]) + Len(hand[c])
    BY <1>2, ConcatProperties
  <2> QED
    BY <1>1, <1>2, <2>1
<1>4. /\ received' \in [Clients -> Seq(Frames)]
      /\ \A e \in Clients \ {c} : received'[e] = received[e]
      /\ c \in aborted => received'[c] = received[c]
      /\ c \notin aborted => received'[c] = received[c] \o hand[c]
  BY <1>1, <1>3 DEF TypeOK
<1>5. CASE queue[c] # << >>
  <2>1. Yield(c)
    BY <1>1, <1>5 DEF Continue
  <2>2. UNCHANGED <<daemon, log, connections, listeners, joined>>
    BY <1>1 DEF connections
  <2>3. /\ \/ received'[c] = received[c]
           \/ c \notin aborted /\ received'[c] = received[c] \o hand[c]
        /\ (c \notin aborted /\ received'[c] = received[c]) => hand[c] = << >>
    <3>1. CASE c \in aborted
      BY <1>4, <3>1
    <3>2. CASE c \notin aborted
      <4>1. received[c] \o hand[c] # received[c]
        BY <1>3
      <4> QED
        BY <1>4, <3>2, <4>1
    <3> QED
      BY <3>1, <3>2
  <2> QED
    BY <1>1, <1>4, <1>5, <2>1, <2>2, <2>3, YieldStep
<1>6. CASE queue[c] = << >>
  <2>1. /\ pc' = [pc EXCEPT ![c] = "waiting"]
        /\ hand' = [hand EXCEPT ![c] = << >>]
        /\ resolve' = [resolve EXCEPT ![c] = c \notin aborted]
        /\ queue' = queue
    BY <1>1, <1>6 DEF Continue, Await
  <2>2. /\ pc' \in [Clients -> Places] /\ pc'[c] = "waiting"
        /\ hand' \in [Clients -> Seq(Frames)] /\ hand'[c] = << >>
        /\ \A e \in Clients \ {c} : pc'[e] = pc[e] /\ hand'[e] = hand[e]
    BY <1>1, <2>1 DEF TypeOK, Places
  <2>3. /\ resolve' \in [Clients -> BOOLEAN]
        /\ resolve'[c] = (c \notin aborted)
        /\ \A e \in Clients \ {c} : resolve'[e] = resolve[e]
    BY <1>1, <2>1, Zenon DEF TypeOK
  <2>4. \A e \in Clients \ {c} : Same(e)
    BY <1>1, <1>4, <2>1, <2>2, <2>3 DEF Same
  <2>5. GeneratorsTyped'
    <3>1. listeners' = {e \in Clients : pc'[e] \in {"waiting", "yielded"}}
      BY <1>1, <2>2 DEF TypeOK
    <3>2. ASSUME NEW e \in Clients
          PROVE  Len(hand'[e]) = IF pc'[e] = "yielded" THEN 1 ELSE 0
      <4>1. CASE e = c
        BY <2>2, <4>1
      <4>2. CASE e # c
        BY <1>1, <2>2, <4>2 DEF TypeOK
      <4> QED
        BY <4>1, <4>2
    <3> QED
      BY <1>1, <1>4, <2>1, <2>2, <2>3, <3>1, <3>2 DEF TypeOK, GeneratorsTyped
  <2>6. Woken(c)'
    BY <1>1, <2>3 DEF Woken
  <2>7. CASE c \in aborted
    <3>1. Read(c)'
      BY <1>1, <1>4, <2>2, <2>7 DEF Read
    <3>2. ReadsOn'
      BY <1>1, <2>4, <2>6, <2>7, <3>1, OneReads
    <3> QED
      BY <1>1, <2>5, <3>2, QuietDaemon
  <2>8. CASE c \notin aborted
    <3>1. Stretch(log, joined[c], received[c], hand[c], << >>)
      BY <1>1, <1>2, <1>6, <2>8 DEF Read, OnItsWay, Stretch
    <3>2. /\ received'[c] = received[c] \o hand[c]
          /\ received'[c] \in Seq(Frames)
      BY <1>3, <1>4, <2>8
    <3> << >> \in Seq(Frames)
      OBVIOUS
    <3>3. Stretch(log, joined[c], received'[c], << >>, << >>)
      BY <1>2, <3>1, <3>2, StretchEnds
    <3>4. joined[c] + Len(received'[c]) <= Len(log)
      BY <1>2, <3>2, <3>3, StretchFits
    <3>5. Read(c)' /\ OnItsWay(c)'
      BY <1>1, <1>6, <2>1, <2>2, <3>3, <3>4 DEF Read, OnItsWay, Stretch
    <3>6. ReadsOn'
      BY <1>1, <2>4, <2>6, <3>5, OneReads
    <3> QED
      BY <1>1, <2>5, <3>6, QuietDaemon
  <2> QED
    BY <2>7, <2>8
<1> QED
  BY <1>5, <1>6

\* The client goes; what it has read stays what it has read.
LEMMA AbortStep ==
  ASSUME IndInv, NEW c \in Clients, Abort(c)
  PROVE  IndInv'
<1>1. /\ TypeOK /\ ReadsOn /\ Read(c)
      /\ UNCHANGED <<daemon, log, server, closing, listeners, pc, queue, hand, joined,
                     received>>
      /\ aborted' = aborted \cup {c}
      /\ resolve' = [resolve EXCEPT ![c] = FALSE]
  BY DEF IndInv, ReadsOn, Abort
<1>2. /\ resolve' \in [Clients -> BOOLEAN]
      /\ \A e \in Clients \ {c} : resolve'[e] = resolve[e]
  BY <1>1, Zenon DEF TypeOK
<1>3. \A e \in Clients \ {c} : Same(e)
  BY <1>1, <1>2 DEF Same
<1>4. GeneratorsTyped'
  BY <1>1, <1>2 DEF TypeOK, GeneratorsTyped
<1>5. Read(c)' /\ Woken(c)' /\ c \in aborted'
  BY <1>1 DEF Read, Woken
<1>6. ReadsOn'
  BY <1>1, <1>3, <1>5, OneReads
<1> QED
  BY <1>1, <1>4, <1>6, QuietDaemon

LEMMA ServerStep ==
  ASSUME IndInv, Stop \/ Stopped
  PROVE  IndInv'
<1>1. /\ TypeOK /\ ReadsOn
      /\ UNCHANGED <<daemon, log, generators, aborted>>
      /\ server' \in {"stopping", "stopped"} /\ closing' \subseteq Clients
  BY DEF IndInv, Stop, Stopped, Connected, TypeOK
<1>2. GeneratorsTyped'
  BY <1>1 DEF TypeOK, GeneratorsTyped, generators
<1>3. ReadsOn'
  BY <1>1 DEF ReadsOn, Read, OnItsWay, Woken, generators
<1> QED
  BY <1>1, <1>2, <1>3, QuietDaemon

-----------------------------------------------------------------------------
LEMMA Inductive ==
  ASSUME InOrderSigning, IndInv, [Next]_vars
  PROVE  IndInv'
<1>1. CASE BroadcastInfo
  BY <1>1, InfoStep
<1>2. ASSUME NEW ops \in BOOLEAN, OnAircraft(ops)
      PROVE  IndInv'
  BY <1>2, MessageStep
<1>3. ASSUME NEW i \in 1 .. MaxMessages, Signed(i) \/ SignatureFails(i)
      PROVE  IndInv'
  BY <1>3, SettleStep
<1>4. ASSUME NEW c \in Clients, Subscribe(c)
      PROVE  IndInv'
  BY <1>4, SubscribeStep
<1>5. ASSUME NEW c \in Clients, Start(c)
      PROVE  IndInv'
  <2>1. CASE c \in aborted
    BY <1>5, <2>1, LeaveStep DEF Start
  <2> QED
    BY <1>5, <2>1, StartStep
<1>6. ASSUME NEW c \in Clients, Wake(c)
      PROVE  IndInv'
  BY <1>6, WakeStep
<1>7. ASSUME NEW c \in Clients, Pull(c)
      PROVE  IndInv'
  BY <1>7, PullStep
<1>8. ASSUME NEW c \in Clients, Return(c)
      PROVE  IndInv'
  BY <1>8, LeaveStep DEF Return
<1>9. ASSUME NEW c \in Clients, Abort(c)
      PROVE  IndInv'
  BY <1>9, AbortStep
<1>10. CASE Stop \/ Stopped
  BY <1>10, ServerStep
<1>11. CASE UNCHANGED vars
  <2>1. UNCHANGED <<daemon, log, connections, generators>>
    BY <1>11 DEF vars
  <2>2. UNCHANGED <<signing, seq, handled, pending, failed, log, server, closing,
                    aborted, listeners, pc, queue, hand, resolve, joined, received>>
    BY <2>1 DEF daemon, connections, generators
  <2>3. TypeOK' /\ GapMeansFailure' /\ LogOrdered'
    BY <2>2 DEF IndInv, TypeOK, GapMeansFailure, LogOrdered, Increasing
  <2>4. ReadsOn'
    BY <2>2 DEF IndInv, ReadsOn, Read, OnItsWay, Woken
  <2> QED
    BY <2>3, <2>4 DEF IndInv
<1> QED
  BY <1>1, <1>2, <1>3, <1>4, <1>5, <1>6, <1>7, <1>8, <1>9, <1>10, <1>11 DEF Next

\* Signatures settle in the order they were asked for: each takes the same number of
\* turns of the event loop.
LEMMA Invariance ==
  ASSUME InOrderSigning
  PROVE  Spec => []IndInv
<1>1. IndInv /\ [Next]_vars => IndInv'
  BY Inductive
<1> QED
  BY <1>1, Initially, PTL DEF Spec

LEMMA ReadersSeeIncreasing ==
  ASSUME IndInv
  PROVE  SeqIncreases
<1> SUFFICES ASSUME NEW c \in Clients,
                    NEW i \in 1 .. Len(received[c]), NEW j \in 1 .. Len(received[c]),
                    i < j, received[c][i] # Info, received[c][j] # Info
             PROVE  received[c][i] < received[c][j]
  <2>1. \A c \in Clients : DOMAIN received[c] = 1 .. Len(received[c])
    BY DEF IndInv, TypeOK
  <2> QED
    BY <2>1 DEF SeqIncreases, Increasing
<1>1. /\ joined[c] \in Nat /\ Len(received[c]) \in Nat
      /\ log \in Seq(Frames) /\ Len(log) \in Nat
      /\ Increasing(log)
  <2>1. TypeOK /\ LogOrdered
    BY DEF IndInv
  <2> QED
    BY <2>1 DEF TypeOK, LogOrdered
<1>2. /\ joined[c] + Len(received[c]) <= Len(log)
      /\ received[c][i] = log[joined[c] + i]
      /\ received[c][j] = log[joined[c] + j]
  <2>1. Read(c)
    BY DEF IndInv, ReadsOn
  <2> QED
    BY <2>1 DEF Read
<1>3. /\ joined[c] + i \in 1 .. Len(log) /\ joined[c] + j \in 1 .. Len(log)
      /\ joined[c] + i < joined[c] + j
  <2>1. joined[c] + i \in 1 .. Len(log) /\ joined[c] + j \in 1 .. Len(log)
    BY <1>1, <1>2, Within
  <2>2. joined[c] + i < joined[c] + j
    BY <1>1
  <2> QED
    BY <2>1, <2>2
<1>4. DOMAIN log = 1 .. Len(log)
  BY <1>1
<1> QED
  BY <1>1, <1>2, <1>3, <1>4 DEF Increasing

\* What sequence numbers tell a reader, for any number of clients and messages.
THEOREM NumbersTellGaps ==
  ASSUME InOrderSigning
  PROVE  Spec => []SeqTellsGaps
<1>1. IndInv => SeqTellsGaps
  BY ReadersSeeIncreasing DEF IndInv, SeqTellsGaps
<1> QED
  BY <1>1, Invariance, PTL

\* The queues of the subscribers together implement one log that everybody reads
\* from where they joined.
THEOREM ImplementsLog ==
  ASSUME InOrderSigning
  PROVE  Spec => ReadsTheLog
<1>1. Init => Log!Init
  BY DEF Init, Log!Init
<1>2. IndInv /\ [Next]_vars => [Log!Next]_(Log!state)
  <2> SUFFICES ASSUME IndInv, [Next]_vars
               PROVE  Log!Next \/ UNCHANGED Log!state
    OBVIOUS
  <2> USE DEF Log!state
  <2>1. ASSUME NEW f \in Frames, Emit(f)
        PROVE  Log!Next
    <3>1. Log!Publish(f)
      BY <2>1 DEF Emit, connections, Log!Publish
    <3> QED
      BY <3>1 DEF Log!Next
  <2>2. CASE NoFrame
    BY <2>2 DEF NoFrame, connections, generators
  <2>3. CASE BroadcastInfo
    BY <2>1, <2>3 DEF BroadcastInfo, Frames
  <2>4. ASSUME NEW ops \in BOOLEAN, OnAircraft(ops)
        PROVE  Log!Next \/ UNCHANGED Log!state
    <3>1. CASE NoFrame
      BY <2>2, <3>1
    <3>2. CASE ~NoFrame
      <4>1. ops /\ Emit(seq')
        BY <2>4, <3>2 DEF OnAircraft
      <4>2. seq' \in Frames
        BY <2>4, <4>1, StreamAssumption DEF OnAircraft, NextSeq, IndInv, TypeOK, Frames
      <4> QED
        BY <2>1, <4>1, <4>2
    <3> QED
      BY <3>1, <3>2
  <2>5. ASSUME NEW i \in 1 .. MaxMessages, Signed(i) \/ SignatureFails(i)
        PROVE  Log!Next \/ UNCHANGED Log!state
    <3>1. CASE SignatureFails(i)
      BY <2>2, <3>1 DEF SignatureFails
    <3>2. CASE Signed(i)
      <4>1. i \in DOMAIN pending /\ Emit(pending[i])
        BY <3>2 DEF Signed, Settle
      <4>2. pending[i] \in Frames
        BY <4>1, StreamAssumption DEF IndInv, TypeOK, Frames
      <4> QED
        BY <2>1, <4>1, <4>2
    <3> QED
      BY <2>5, <3>1, <3>2
  <2>6. ASSUME NEW c \in Clients, c \in aborted, Leave(c),
               UNCHANGED <<daemon, log, connections>>
        PROVE  UNCHANGED Log!state
    BY <2>6 DEF Leave, connections
  <2>7. ASSUME NEW c \in Clients, Start(c)
        PROVE  Log!Next \/ UNCHANGED Log!state
    <3>1. CASE c \in aborted
      BY <2>6, <2>7, <3>1 DEF Start
    <3>2. CASE c \notin aborted
      <4>1. c \notin listeners /\ received[c] = << >>
        BY <2>7 DEF Start, IndInv, TypeOK, ReadsOn, Read
      <4>2. Log!Attach(c)
        BY <2>7, <3>2, <4>1 DEF Start, connections, Log!Attach
      <4> QED
        BY <4>2 DEF Log!Next
    <3> QED
      BY <3>1, <3>2
  <2>8. ASSUME NEW c \in Clients, Wake(c)
        PROVE  UNCHANGED Log!state
    BY <2>6, <2>8 DEF Wake, Yield, connections
  <2>9. ASSUME NEW c \in Clients, Pull(c)
        PROVE  Log!Next \/ UNCHANGED Log!state
    <3>1. UNCHANGED <<log, listeners, aborted, joined>>
      BY <2>9 DEF Pull, connections
    <3>2. CASE c \in aborted
      BY <2>9, <3>1, <3>2 DEF Pull
    <3>3. CASE c \notin aborted
      <4>1. /\ c \in listeners /\ OnItsWay(c)
            /\ received[c] \in Seq(Frames) /\ hand[c] \in Seq(Frames)
            /\ Len(hand[c]) = 1 /\ Len(received[c]) \in Nat /\ joined[c] \in Nat
            /\ Len(queue[c]) \in Nat /\ Len(log) \in Nat
        BY <2>9, <3>3 DEF Pull, IndInv, TypeOK, ReadsOn
      <4>2. hand[c] = <<hand[c][1]>>
        BY <4>1
      <4>3. /\ hand[c][1] = log[joined[c] + Len(received[c]) + 1]
            /\ joined[c] + Len(received[c]) < Len(log)
        BY <4>1 DEF OnItsWay
      <4>4. received[c] \o hand[c] = Append(received[c], hand[c][1])
        <5>1. hand[c][1] \in Frames
          BY <4>1
        <5> QED
          BY <4>1, <4>2, <5>1, AppendIsConcat
      <4>5. received' = [received EXCEPT
                           ![c] = Append(@, log[joined[c] + Len(@) + 1])]
        BY <2>9, <3>3, <4>3, <4>4 DEF Pull
      <4>6. Log!Read(c)
        BY <3>1, <3>3, <4>1, <4>3, <4>5 DEF Log!Read
      <4> QED
        BY <4>6 DEF Log!Next
    <3> QED
      BY <3>2, <3>3
  <2>10. ASSUME NEW c \in Clients, Abort(c)
         PROVE  Log!Next \/ UNCHANGED Log!state
    <3>1. c \notin aborted /\ aborted' = aborted \cup {c}
          /\ UNCHANGED <<log, listeners, joined, received>>
      BY <2>10 DEF Abort, Connected
    <3>2. CASE c \in listeners
      <4>1. Log!Detach(c)
        BY <3>1, <3>2 DEF Log!Detach
      <4> QED
        BY <4>1 DEF Log!Next
    <3>3. CASE c \notin listeners
      BY <3>1, <3>3
    <3> QED
      BY <3>2, <3>3
  <2>11. ASSUME NEW c \in Clients, Subscribe(c) \/ Return(c)
         PROVE  UNCHANGED Log!state
    BY <2>6, <2>11 DEF Subscribe, Return, connections
  <2>12. CASE Stop \/ Stopped \/ UNCHANGED vars
    BY <2>12 DEF Stop, Stopped, vars, generators, connections
  <2> QED
    BY <2>3, <2>4, <2>5, <2>7, <2>8, <2>9, <2>10, <2>11, <2>12 DEF Next
<1> QED
  BY <1>1, <1>2, Invariance, PTL DEF Spec, ReadsTheLog, Log!Spec

=============================================================================

------------------------ MODULE StationRecordProofs ------------------------
(***************************************************************************)
(* Proofs about StationRecord for any keys, endpoints, consumers and       *)
(* bounds: RefIsCurrent with the types, RotationAnnounced and              *)
(* FreshFollowersVerify.                                                   *)
(*                                                                         *)
(* Keyed is why the startup can be trusted: from the end of the rotation   *)
(* on the record has the daemon's key, although every stage writes a whole *)
(* record it read earlier, unless a command wrote the record meanwhile.    *)
(* LastSigned carries the key of the last event over restarts, and Heard   *)
(* says what a consumer may find in its inbox.                             *)
(***************************************************************************)
EXTENDS StationRecord, SequenceTheorems, TLAPS

\* The stages after the rotation.
AfterRotation == {"advertise", "write", "refresh", "running"}

\* A command wrote the record since the start and since the last KeyRotated.
Meddled == {"run", "rotation"} \subseteq edited

\* What the daemon is about to write has its key, and the record has it once the
\* rotation is over.
Keyed ==
  /\ stage = "rotate" => config.key # None
  /\ stage = "publish" => config.key # None /\ announced /\ fetched.key = config.key
  /\ (stage \in {"advertise", "write"} /\ config.key # None)
       => fetched.key = config.key
  /\ (stage = "write" /\ config.key = None) => fetched.key = record.key \/ Meddled
  /\ (stage \in AfterRotation /\ config.key # None)
       => record.key = config.key \/ Meddled

\* Until KeyRotated goes out the record has the key of the last signed event.
LastSigned ==
  (lastKey # None /\ ~announced) => record.key = lastKey \/ "rotation" \in edited

\* Consumers hear the process that runs, and those with a fresh key can verify it.
Heard ==
  /\ stage = "down" => /\ fresh = {}
                       /\ inbox = [c \in Consumers |-> << >>]
                       /\ mode = [c \in Consumers |-> "off"]
  /\ \A c \in Consumers : \A i \in DOMAIN inbox[c] :
       inbox[c][i] \in {KeyRotated, Event(config.key)}
  /\ \A c \in fresh : config.key \in {None, cached[c]}

IndInv == RefIsCurrent /\ Keyed /\ LastSigned /\ Heard

-----------------------------------------------------------------------------
LEMMA Initially == Init => IndInv
<1> SUFFICES ASSUME Init PROVE IndInv
  OBVIOUS
<1>1. record \in Record
  BY NoneAssumption, BoundAssumption DEF Init, Record
<1>2. TypeOK
  <2>1. inbox \in [Consumers -> Seq(Frame)]
    BY DEF Init
  <2>2. ref \in 0 .. MaxWrites
    BY BoundAssumption DEF Init
  <2> QED
    BY <1>1, <2>1, <2>2 DEF Init, TypeOK, Stages
<1>3. Keyed /\ LastSigned
  BY DEF Init, Keyed, AfterRotation, LastSigned
<1>4. Heard
  BY DEF Init, Heard
<1> QED
  BY <1>1, <1>2, <1>3, <1>4 DEF Init, IndInv, RefIsCurrent

\* Put replaces all of the record but its cid.
LEMMA PutWrites ==
  ASSUME record \in Record, NEW new \in Record, Put(new)
  PROVE  record' \in Record /\ record'.key = new.key
BY BoundAssumption DEF Put, Record

\* The steps that neither send nor receive: what a consumer has heard stays true.
LEMMA HeardKept ==
  ASSUME Heard, stage # "down", stage' # "down",
         UNCHANGED <<inbox, cached, fresh, config>>
  PROVE  Heard'
BY DEF Heard, KeyRotated, Event

\* When the process ends its consumers are cut off.
LEMMA DieKeeps ==
  ASSUME IndInv, Die, UNCHANGED <<starts, command, edited, runs>>, record' \in Record,
         failures' \in Nat,
         announced \/ record'.key = record.key
  PROVE  IndInv'
<1>1. TypeOK'
  BY DEF IndInv, RefIsCurrent, TypeOK, Die, Stages
<1>2. Heard'
  BY <1>1 DEF Die, Heard
<1> QED
  BY <1>1, <1>2 DEF IndInv, RefIsCurrent, Die, Keyed, LastSigned, AfterRotation

\* A command that writes the record, whatever it writes.
LEMMA CommandWrites ==
  ASSUME IndInv, NEW new \in Record, Put(new), edited' = {"run", "rotation"},
         command' \in {command, << >>}, runs' \in Nat,
         UNCHANGED <<daemon, stream, starts, failures>>
  PROVE  IndInv'
<1>1. TypeOK'
  BY PutWrites DEF IndInv, RefIsCurrent, TypeOK, daemon, stream
<1>2. Keyed' /\ LastSigned'
  BY DEF IndInv, Keyed, LastSigned, Meddled, AfterRotation, daemon, stream
<1>3. Heard'
  BY DEF IndInv, Heard, KeyRotated, Event, daemon, stream
<1> QED
  BY <1>1, <1>2, <1>3 DEF IndInv, RefIsCurrent

\* A frame is appended to the inboxes of those who are connected.
LEMMA EmitKeeps ==
  ASSUME TypeOK, Heard, stage # "down", stage' # "down", NEW frame \in Frame, Emit(frame),
         frame \in {KeyRotated, Event(config.key)},
         UNCHANGED <<cached, fresh, config>>
  PROVE  inbox' \in [Consumers -> Seq(Frame)] /\ Heard'
<1>1. ASSUME NEW c \in Consumers
      PROVE  /\ inbox'[c] \in Seq(Frame)
             /\ \A i \in DOMAIN inbox'[c] :
                  inbox'[c][i] \in {KeyRotated, Event(config.key)}
  <2>1. inbox[c] \in Seq(Frame)
    BY DEF TypeOK
  <2>2. inbox'[c] \in {inbox[c], Append(inbox[c], frame)}
    BY DEF Emit
  <2>3. \A i \in DOMAIN inbox[c] : inbox[c][i] \in {KeyRotated, Event(config.key)}
    BY DEF Heard
  <2>4. CASE inbox'[c] = Append(inbox[c], frame)
    <3>1. inbox'[c] \in Seq(Frame) /\ Len(inbox'[c]) = Len(inbox[c]) + 1
      BY <2>1, <2>4
    <3>2. \A i \in 1 .. Len(inbox[c]) + 1 :
            inbox'[c][i] = IF i = Len(inbox[c]) + 1 THEN frame ELSE inbox[c][i]
      BY <2>1, <2>4
    <3> QED
      BY <2>1, <2>3, <3>1, <3>2
  <2> QED
    BY <2>1, <2>2, <2>3, <2>4
<1>2. inbox' \in [Consumers -> Seq(Frame)]
  BY <1>1 DEF Emit
<1>3. KeyRotated' = KeyRotated /\ Event(config.key)' = Event(config.key)
  BY DEF KeyRotated, Event
<1> QED
  BY <1>1, <1>2, <1>3 DEF Heard

-----------------------------------------------------------------------------
\* The startup of the daemon.
LEMMA StartupKeeps == IndInv /\ Startup => IndInv'
<1> SUFFICES ASSUME IndInv, Startup PROVE IndInv'
  OBVIOUS
<1> USE DEF Stages, AfterRotation
<1>1. CASE Rotate
  <2>1. CASE record.key = config.key
    <3>1. TypeOK'
      BY <1>1, <2>1 DEF IndInv, RefIsCurrent, TypeOK, Rotate, AfterKey, cli
    <3>2. Heard'
      BY <1>1, <2>1, HeardKept DEF IndInv, Rotate, AfterKey
    <3> QED
      BY <1>1, <2>1, <3>1, <3>2
         DEF IndInv, RefIsCurrent, Keyed, LastSigned, Rotate, AfterKey
  <2>2. CASE record.key # config.key
    <3>1. inbox' \in [Consumers -> Seq(Frame)] /\ Heard'
      <4>1. Emit(KeyRotated) /\ UNCHANGED <<cached, fresh, config>>
        BY <1>1, <2>2 DEF Rotate
      <4>2. KeyRotated \in Frame /\ stage # "down" /\ stage' # "down"
        BY <1>1, <2>2 DEF Rotate, Frame
      <4> QED
        BY <4>1, <4>2, EmitKeeps DEF IndInv, RefIsCurrent
    <3>2. TypeOK'
      <4>1. [record EXCEPT !.key = config.key] \in Record
        BY DEF IndInv, RefIsCurrent, TypeOK, Record
      <4>2. /\ fetched' = [record EXCEPT !.key = config.key]
            /\ stage' = "publish" /\ announced' = TRUE
            /\ edited' = edited \ {"rotation"}
            /\ UNCHANGED <<record, config, ref, command, runs, mode, cached, rejected,
                           fresh, lastKey, starts, failures>>
        BY <1>1, <2>2 DEF Rotate
      <4> QED
        BY <3>1, <4>1, <4>2 DEF IndInv, RefIsCurrent, TypeOK
    <3> QED
      BY <1>1, <2>2, <3>1, <3>2
         DEF IndInv, RefIsCurrent, TypeOK, Keyed, LastSigned, Rotate, Record
  <2> QED
    BY <2>1, <2>2
<1>2. CASE Publish
  <2>1. record' \in Record /\ record'.key = fetched.key
    BY <1>2, PutWrites DEF IndInv, RefIsCurrent, TypeOK, Publish
  <2>2. TypeOK' /\ Heard'
    BY <1>2, <2>1, HeardKept
       DEF IndInv, RefIsCurrent, TypeOK, Publish, AfterKey, cli, stream
  <2> QED
    BY <1>2, <2>1, <2>2
       DEF IndInv, RefIsCurrent, Keyed, LastSigned, Publish, AfterKey, cli, stream
<1>3. CASE RotationFails
  <2>1. record' \in Record /\ failures' \in Nat
    BY <1>3, PutWrites DEF IndInv, RefIsCurrent, TypeOK, RotationFails, PutFails, Fails
  <2>2. announced \/ record' = record
    BY <1>3 DEF IndInv, Keyed, RotationFails
  <2>3. Die /\ UNCHANGED <<starts, command, edited, runs>>
    BY <1>3 DEF RotationFails, cli
  <2> QED
    BY <2>1, <2>2, <2>3, DieKeeps
<1>4. CASE Advertise
  <2> DEFINE existing == IF config.key = None THEN record ELSE fetched
  <2>1. existing \in Record /\ [existing EXCEPT !.endpoint = config.endpoint] \in Record
    BY <1>4 DEF IndInv, RefIsCurrent, TypeOK, Record, Advertise
  <2>2. /\ stage = "advertise" /\ stage' \in {"refresh", "write"}
        /\ fetched' \in {fetched, [existing EXCEPT !.endpoint = config.endpoint]}
        /\ stage' = "write" => fetched'.key = existing.key
        /\ UNCHANGED <<record, config, ref, cli, stream, starts, failures>>
    BY <1>4, <2>1 DEF Advertise, Record
  <2>3. TypeOK' /\ Heard'
    BY <2>1, <2>2, HeardKept DEF IndInv, RefIsCurrent, TypeOK, cli, stream
  <2> QED
    BY <2>2, <2>3
       DEF IndInv, RefIsCurrent, Keyed, Meddled, LastSigned, cli, stream
<1>5. CASE WriteEndpoint
  <2>1. record' \in Record /\ record'.key = fetched.key
    BY <1>5, PutWrites DEF IndInv, RefIsCurrent, TypeOK, WriteEndpoint
  <2>2. TypeOK' /\ Heard'
    BY <1>5, <2>1, HeardKept
       DEF IndInv, RefIsCurrent, TypeOK, WriteEndpoint, cli, stream
  <2> QED
    BY <1>5, <2>1, <2>2
       DEF IndInv, RefIsCurrent, Keyed, Meddled, LastSigned, WriteEndpoint, cli, stream
<1>6. CASE EndpointFails
  <2>1. /\ record' \in Record /\ failures' \in Nat
        /\ \/ record'.key = record.key
           \/ stage = "write" /\ record'.key = fetched.key
    BY <1>6, PutWrites DEF IndInv, RefIsCurrent, TypeOK, EndpointFails, PutFails, Fails
  <2>2. /\ stage \in {"advertise", "write"} /\ stage' = "refresh"
        /\ UNCHANGED <<config, fetched, ref, cli, stream, starts>>
    BY <1>6 DEF EndpointFails
  <2>3. TypeOK' /\ Heard'
    BY <2>1, <2>2, HeardKept DEF IndInv, RefIsCurrent, TypeOK, cli, stream
  <2> QED
    BY <2>1, <2>2, <2>3
       DEF IndInv, RefIsCurrent, Keyed, Meddled, LastSigned, cli, stream
<1>7. CASE Refresh \/ RefreshFails
  <2>1. /\ stage = "refresh" /\ stage' = "running" /\ ref' \in {ref, record.cid}
        /\ failures' \in Nat /\ (ref' = record.cid \/ failures' # 0)
        /\ UNCHANGED <<record, config, fetched, cli, stream, starts>>
    BY <1>7 DEF IndInv, RefIsCurrent, TypeOK, Refresh, RefreshFails, Fails
  <2>2. TypeOK' /\ Heard'
    BY <2>1, HeardKept DEF IndInv, RefIsCurrent, TypeOK, Record, cli, stream
  <2> QED
    BY <2>1, <2>2 DEF IndInv, RefIsCurrent, Keyed, Meddled, LastSigned, cli, stream
<1> QED
  BY <1>1, <1>2, <1>3, <1>4, <1>5, <1>6, <1>7 DEF Startup

\* The daemon starts, signs and ends.
LEMMA RunKeeps ==
  ASSUME IndInv
  PROVE  /\ \A k \in Keys \cup {None}, e \in Endpoints \cup {None} :
              Start(k, e) => IndInv'
         /\ SendEvent => IndInv'
         /\ Halt => IndInv'
<1> USE DEF Stages, AfterRotation
<1>1. ASSUME NEW k \in Keys \cup {None}, NEW e \in Endpoints \cup {None}, Start(k, e)
      PROVE  IndInv'
  <2>1. TypeOK'
    BY <1>1 DEF IndInv, RefIsCurrent, TypeOK, Record, Start, stream
  <2>2. Heard'
    BY <1>1 DEF IndInv, Heard, Start, stream
  <2> QED
    BY <1>1, <2>1, <2>2
       DEF IndInv, RefIsCurrent, Keyed, LastSigned, Start, stream
<1>2. ASSUME SendEvent PROVE IndInv'
  <2>1. Event(config.key) \in Frame
    BY DEF IndInv, RefIsCurrent, TypeOK, Frame
  <2>2. inbox' \in [Consumers -> Seq(Frame)] /\ Heard'
    BY <1>2, <2>1, EmitKeeps DEF IndInv, RefIsCurrent, SendEvent, daemon
  <2>3. TypeOK'
    BY <1>2, <2>2 DEF IndInv, RefIsCurrent, TypeOK, SendEvent, daemon, cli
  <2>4. LastSigned'
    BY <1>2 DEF IndInv, Keyed, Meddled, LastSigned, SendEvent, daemon, cli
  <2> QED
    BY <1>2, <2>2, <2>3, <2>4
       DEF IndInv, RefIsCurrent, Keyed, Meddled, SendEvent, daemon, cli
<1>3. ASSUME Halt PROVE IndInv'
  BY <1>3, DieKeeps DEF IndInv, RefIsCurrent, TypeOK, Halt, cli
<1> QED
  BY <1>1, <1>2, <1>3

\* The commands.
LEMMA CommandsKeep ==
  ASSUME IndInv
  PROVE  /\ \A e \in Endpoints \cup {None} : Register(e) => IndInv'
         /\ GenerateRead => IndInv'
         /\ \A k \in Keys : GenerateWrite(k) => IndInv'
<1>1. ASSUME NEW e \in Endpoints \cup {None}, Register(e) PROVE IndInv'
  <2>1. NewStation(e) \in Record /\ runs' \in Nat
    BY <1>1, BoundAssumption
       DEF NewStation, Record, Register, RunCommand, IndInv, RefIsCurrent, TypeOK
  <2> QED
    BY <1>1, <2>1, CommandWrites DEF Register
<1>2. ASSUME GenerateRead PROVE IndInv'
  <2>1. TypeOK'
    BY <1>2 DEF IndInv, RefIsCurrent, TypeOK, GenerateRead, RunCommand, daemon, stream
  <2>2. Heard'
    BY <1>2 DEF IndInv, Heard, KeyRotated, Event, GenerateRead, daemon, stream
  <2> QED
    BY <1>2, <2>1, <2>2
       DEF IndInv, RefIsCurrent, Keyed, Meddled, LastSigned, AfterRotation,
           GenerateRead, daemon, stream
<1>3. ASSUME NEW k \in Keys, GenerateWrite(k) PROVE IndInv'
  <2>1. [command[1] EXCEPT !.key = k] \in Record /\ runs' \in Nat
    BY <1>3 DEF IndInv, RefIsCurrent, TypeOK, Record, GenerateWrite
  <2> QED
    BY <1>3, <2>1, CommandWrites DEF GenerateWrite
<1> QED
  BY <1>1, <1>2, <1>3

\* The consumers.
LEMMA ConsumersKeep ==
  ASSUME IndInv, NEW c \in Consumers, Join(c) \/ FetchKey(c) \/ Receive(c)
  PROVE  IndInv'
<1>1. UNCHANGED <<record, daemon, cli, lastKey, announced, starts, failures>>
  BY DEF Join, FetchKey, Receive
<1>2. Keyed' /\ LastSigned'
  BY <1>1 DEF IndInv, Keyed, Meddled, LastSigned, AfterRotation, daemon, cli
<1>3. KeyRotated' = KeyRotated /\ Event(config.key)' = Event(config.key)
  BY <1>1 DEF KeyRotated, Event, daemon
<1>4. TypeOK' /\ Heard'
  <2>1. CASE Join(c)
    BY <1>1, <1>3, <2>1 DEF IndInv, RefIsCurrent, TypeOK, Heard, Join, daemon, cli
  <2>2. CASE FetchKey(c)
    <3>1. mode[c] # "off" /\ stage # "down"
      BY <2>2 DEF IndInv, Heard, FetchKey
    <3>2. c \in fresh' => config.key \in {None, cached'[c]}
      BY <2>2 DEF IndInv, RefIsCurrent, TypeOK, Keyed, Meddled, AfterRotation, FetchKey
    <3>3. \A b \in fresh' : b # c => b \in fresh /\ cached'[b] = cached[b]
      BY <2>2 DEF IndInv, RefIsCurrent, TypeOK, FetchKey
    <3>4. TypeOK'
      BY <1>1, <2>2
         DEF IndInv, RefIsCurrent, TypeOK, Record, FetchKey, daemon, cli
    <3> QED
      BY <1>1, <1>3, <2>2, <3>1, <3>2, <3>3, <3>4 DEF IndInv, Heard, FetchKey, daemon
  <2>3. CASE Receive(c)
    <3>1. inbox[c] \in Seq(Frame) /\ inbox[c] # << >>
      BY <2>3 DEF IndInv, RefIsCurrent, TypeOK, Receive
    <3>2. inbox' = [inbox EXCEPT ![c] = Tail(inbox[c])]
      BY <2>3 DEF Receive
    <3>3. /\ Tail(inbox[c]) \in Seq(Frame)
          /\ \A i \in DOMAIN Tail(inbox[c]) :
               /\ i + 1 \in DOMAIN inbox[c]
               /\ Tail(inbox[c])[i] = inbox[c][i + 1]
      BY <3>1
    <3>4. inbox' \in [Consumers -> Seq(Frame)]
      BY <3>2, <3>3 DEF IndInv, RefIsCurrent, TypeOK
    <3>5. \A b \in Consumers : \A i \in DOMAIN inbox'[b] :
            inbox'[b][i] \in {KeyRotated, Event(config.key)}
      BY <3>2, <3>3 DEF IndInv, RefIsCurrent, TypeOK, Heard
    <3>6. /\ mode' \in [Consumers -> {"off", "fetching", "listening"}]
          /\ rejected' \subseteq Consumers
          /\ UNCHANGED <<cached, fresh>>
      BY <2>3 DEF IndInv, RefIsCurrent, TypeOK, Receive
    <3>7. stage # "down"
      BY <2>3 DEF IndInv, Heard, Receive
    <3> QED
      BY <1>1, <1>3, <3>4, <3>5, <3>6, <3>7
         DEF IndInv, RefIsCurrent, TypeOK, Heard, daemon, cli
  <2> QED
    BY <2>1, <2>2, <2>3
<1> QED
  BY <1>1, <1>2, <1>4 DEF IndInv, RefIsCurrent, daemon, cli

\* IndInv is inductive.
LEMMA Inductive == IndInv /\ [Next]_vars => IndInv'
<1> SUFFICES ASSUME IndInv, [Next]_vars PROVE IndInv'
  OBVIOUS
<1>1. CASE UNCHANGED vars
  <2>1. TypeOK' /\ RefIsCurrent'
    BY <1>1 DEF IndInv, RefIsCurrent, TypeOK, vars, daemon, cli, stream
  <2>2. Keyed' /\ LastSigned'
    BY <1>1 DEF IndInv, Keyed, Meddled, LastSigned, AfterRotation, vars, daemon, cli, stream
  <2>3. Heard'
    BY <1>1 DEF IndInv, Heard, KeyRotated, Event, vars, daemon, cli, stream
  <2> QED
    BY <2>1, <2>2, <2>3 DEF IndInv
<1>2. CASE Next
  BY <1>2, StartupKeeps, RunKeeps, CommandsKeep, ConsumersKeep DEF Next
<1> QED
  BY <1>1, <1>2

LEMMA Always == Spec => []IndInv
BY Initially, Inductive, PTL DEF Spec

-----------------------------------------------------------------------------
\* The strongRef that events carry is that of the record as the startup left it, unless
\* a call to the PDS failed or a command wrote the record (runDaemon reads the record
\* again after its own updates).
THEOREM ReferenceIsCurrent == Spec => []RefIsCurrent
BY Always, PTL DEF IndInv

\* A consumer that fetched the key from the record after the startup can verify every
\* event on its way, whatever the rotation and the endpoint update wrote.
THEOREM FollowersCanVerify == Spec => []FreshFollowersVerify
<1>1. IndInv => FreshFollowersVerify
  BY DEF IndInv, RefIsCurrent, TypeOK, Heard, FreshFollowersVerify, Event
<1> QED
  BY <1>1, Always, PTL

\* Two signed events in a row have the same key, or KeyRotated went out between them,
\* over any number of restarts and failed rotations.
THEOREM KeyChangesAnnounced == Spec => RotationAnnounced
<1>1. IndInv /\ [Next]_vars
        => [(lastKey' # lastKey /\ lastKey # None)
              => announced \/ "rotation" \in edited]_vars
  <2> SUFFICES ASSUME IndInv, Next, lastKey' # lastKey, lastKey # None
               PROVE  announced \/ "rotation" \in edited
    OBVIOUS
  <2>1. SendEvent
    BY DEF Next, Start, Startup, Rotate, Publish, RotationFails, Advertise,
           WriteEndpoint, EndpointFails, Refresh, RefreshFails, Halt, Die, Register,
           GenerateRead, GenerateWrite, Join, FetchKey, Receive, stream
  <2>2. /\ stage = "running" /\ config.key # None /\ config.key # lastKey
    BY <2>1 DEF SendEvent
  <2> QED
    BY <2>2 DEF IndInv, Keyed, Meddled, LastSigned, AfterRotation
<1> QED
  BY <1>1, Always, PTL DEF Spec, RotationAnnounced

=============================================================================

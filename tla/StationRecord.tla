---------------------------- MODULE StationRecord ----------------------------
(***************************************************************************)
(* The station record on the PDS and everybody who writes or trusts it:    *)
(* the daemon's startup (key rotation, stream endpoint, fresh strongRef:   *)
(* runStartupUpdates and runDaemon in src/server/src/daemon.ts,            *)
(* key-rotation.ts, stream-endpoint-update.ts), the commands register and  *)
(* generate-stream-key (cli.ts), and the consumers of the signed stream,   *)
(* who follow docs/stream-signature-verification.md.                       *)
(*                                                                         *)
(* Every write is a putRecord of a whole record built from one read        *)
(* earlier.  The stream server listens before the startup updates run, so  *)
(* consumers may be connected from the start.  A record is its two mutable *)
(* fields and its cid, the number of writes so far.                        *)
(***************************************************************************)
EXTENDS Integers, Sequences

CONSTANTS Keys, Endpoints,
          Valid,         \* endpoints that validateStreamEndpoint accepts
          None,          \* no key, no endpoint
          Consumers,
          MaxCommands,   \* bound: commands the operator runs
          MaxWrites,     \* bound: cids
          MaxFailures,   \* bound: PDS calls that fail
          MaxStarts,     \* bound: daemon starts
          MaxInbox       \* bound: frames on the way to a consumer

ASSUME NoneAssumption == None \notin Keys \cup Endpoints
ASSUME BoundAssumption ==
  /\ MaxCommands \in Nat /\ MaxWrites \in Nat /\ MaxFailures \in Nat
  /\ MaxStarts \in Nat /\ MaxInbox \in Nat

VARIABLES record,     \* the record on the PDS: [key, endpoint, cid]
          stage,      \* where the daemon is: see Stages
          config,     \* its STREAM_SIGNING_KEY_HEX and STREAM_ENDPOINT
          fetched,    \* prefetchedStationRecord
          ref,        \* cid of the stationRef that events carry
          command,    \* the record generate-stream-key has read, or << >>
          inbox,      \* consumer -> frames on the way to it
          mode,       \* consumer -> "off", "fetching" or "listening"
          cached,     \* consumer -> the key it verifies with
          rejected,   \* consumers that found a signature of ours wrong
          fresh,      \* consumers that fetched the key from this run of the
                      \* daemon, after its startup
          lastKey,    \* key of the last signed event
          announced,  \* KeyRotated was emitted since that event
          edited,     \* of "run" and "rotation": a command wrote the record since
                      \* the daemon started, since the last KeyRotated
          starts,
          runs,       \* commands run so far
          failures

daemon == <<stage, config, fetched, ref>>
cli == <<command, edited, runs>>
stream == <<inbox, mode, cached, rejected, fresh, lastKey, announced>>
vars == <<record, daemon, cli, stream, starts, failures>>

Stages == {"down", "rotate", "publish", "advertise", "write", "refresh",
           "running"}
Record == [key : Keys \cup {None}, endpoint : Endpoints \cup {None},
           cid : 0 .. MaxWrites]
KeyRotated == [name |-> "info"]
Event(k) == [name |-> "event", key |-> k]

Init ==
  /\ record \in [key : Keys \cup {None}, endpoint : {None}, cid : {0}]
  /\ stage = "down"
  /\ config = [key |-> None, endpoint |-> None]
  /\ fetched = record
  /\ ref = 0
  /\ command = << >>
  /\ inbox = [c \in Consumers |-> << >>]
  /\ mode = [c \in Consumers |-> "off"]
  /\ cached = [c \in Consumers |-> None]
  /\ rejected = {}
  /\ fresh = {}
  /\ lastKey = None
  /\ announced = FALSE
  /\ edited = {}
  /\ starts = 0
  /\ runs = 0
  /\ failures = 0

-----------------------------------------------------------------------------
\* putRecord: the whole record is replaced and gets a new cid.
Put(new) ==
  /\ record.cid < MaxWrites
  /\ record' = [new EXCEPT !.cid = record.cid + 1]

\* A call to the PDS throws.
Fails == failures < MaxFailures /\ failures' = failures + 1

\* A putRecord that throws may have been stored all the same.
PutFails(new) == Fails /\ (Put(new) \/ UNCHANGED record)

\* emitFrame: to everybody connected.
Emit(frame) ==
  /\ \A c \in Consumers : mode[c] # "off" => Len(inbox[c]) < MaxInbox
  /\ inbox' = [c \in Consumers |-> IF mode[c] = "off" THEN inbox[c]
                                   ELSE Append(inbox[c], frame)]

\* The process ends: the connections of the consumers end with it.
Die ==
  /\ stage' = "down"
  /\ inbox' = [c \in Consumers |-> << >>]
  /\ mode' = [c \in Consumers |-> "off"]
  /\ fresh' = {}
  /\ UNCHANGED <<config, fetched, ref, cached, rejected, lastKey, announced>>

\* The stage after the key has been dealt with.
AfterKey == IF config.endpoint = None THEN "refresh" ELSE "advertise"

-----------------------------------------------------------------------------
\* The daemon: cli run reads the record for its strongRef and starts; with
\* neither a key nor an endpoint the startup has nothing to do.
Start(k, e) ==
  /\ stage = "down"
  /\ starts < MaxStarts
  /\ starts' = starts + 1
  /\ config' = [key |-> k, endpoint |-> e]
  /\ ref' = record.cid
  /\ stage' = IF k # None THEN "rotate"
              ELSE IF e # None THEN "advertise" ELSE "running"
  /\ edited' = edited \ {"run"}
  /\ UNCHANGED <<record, fetched, command, runs, stream, failures>>

\* Mutant of Rotate: no KeyRotated frame.
RotateUnannounced ==
  /\ stage = "rotate"
  /\ stage' = IF record.key = config.key THEN AfterKey ELSE "publish"
  /\ fetched' = [record EXCEPT !.key = config.key]
  /\ UNCHANGED <<record, config, ref, cli, stream, starts, failures>>

\* detectAndApplyKeyRotation, up to its putRecord: KeyRotated goes out before
\* the record is written.
Rotate ==
  /\ stage = "rotate"
  /\ IF record.key = config.key
     THEN /\ stage' = AfterKey
          /\ fetched' = record
          /\ UNCHANGED <<inbox, announced, edited>>
     ELSE /\ stage' = "publish"
          /\ fetched' = [record EXCEPT !.key = config.key]
          /\ Emit(KeyRotated)
          /\ announced' = TRUE
          /\ edited' = edited \ {"rotation"}
  /\ UNCHANGED <<record, config, ref, command, runs, mode, cached, rejected, fresh,
                 lastKey, starts, failures>>

\* Its putRecord.
Publish ==
  /\ stage = "publish"
  /\ Put(fetched)
  /\ stage' = AfterKey
  /\ UNCHANGED <<config, fetched, ref, cli, stream, starts, failures>>

\* Mutant of RotationFails: the error is caught, as in updateStreamEndpoint.
RotationFailsCaught ==
  /\ \/ stage = "rotate" /\ Fails /\ UNCHANGED record
     \/ stage = "publish" /\ PutFails(fetched)
  /\ stage' = "refresh"
  /\ UNCHANGED <<config, fetched, ref, cli, stream, starts>>

\* Neither getRecord nor putRecord is caught in the rotation: runDaemon throws.
RotationFails ==
  /\ \/ stage = "rotate" /\ Fails /\ UNCHANGED record
     \/ stage = "publish" /\ PutFails(fetched)
  /\ Die
  /\ UNCHANGED <<cli, starts>>

\* updateStreamEndpoint up to its putRecord: from the record the rotation
\* returned, when a key is configured, else from one it reads.  An endpoint that is no
\* WebSocket URL (the empty string too) is skipped; register writes it all the same.
Advertise ==
  /\ stage = "advertise"
  /\ LET existing == IF config.key = None THEN record ELSE fetched
     IN  IF config.endpoint \notin Valid \/ existing.endpoint = config.endpoint
         THEN stage' = "refresh" /\ UNCHANGED fetched
         ELSE /\ stage' = "write"
              /\ fetched' = [existing EXCEPT !.endpoint = config.endpoint]
  /\ UNCHANGED <<record, config, ref, cli, stream, starts, failures>>

WriteEndpoint ==
  /\ stage = "write"
  /\ Put(fetched)
  /\ stage' = "refresh"
  /\ UNCHANGED <<config, fetched, ref, cli, stream, starts, failures>>

\* updateStreamEndpoint never throws.
EndpointFails ==
  /\ \/ /\ stage = "advertise" /\ config.key = None /\ config.endpoint \in Valid
        /\ Fails /\ UNCHANGED record
     \/ stage = "write" /\ PutFails(fetched)
  /\ stage' = "refresh"
  /\ UNCHANGED <<config, fetched, ref, cli, stream, starts>>

\* Mutant of Refresh: the strongRef is the one the daemon was started with.
RefreshNot ==
  /\ stage = "refresh"
  /\ stage' = "running"
  /\ UNCHANGED <<record, config, fetched, ref, cli, stream, starts,
                 failures>>

\* runDaemon reads the record again for its strongRef ...
Refresh ==
  /\ stage = "refresh"
  /\ ref' = record.cid
  /\ stage' = "running"
  /\ UNCHANGED <<record, config, fetched, cli, stream, starts, failures>>

\* ... and goes on with the old one when that fails.
RefreshFails ==
  /\ stage = "refresh"
  /\ Fails
  /\ stage' = "running"
  /\ UNCHANGED <<record, config, fetched, ref, cli, stream, starts>>

\* An event, signed when a key is configured.
SendEvent ==
  /\ stage = "running"
  /\ Emit(Event(config.key))
  /\ lastKey' = IF config.key = None THEN lastKey ELSE config.key
  /\ announced' = (announced /\ config.key = None)
  /\ UNCHANGED <<record, daemon, cli, mode, cached, rejected, fresh,
                 starts, failures>>

\* The daemon is shut down or dies.
Halt ==
  /\ stage # "down"
  /\ Die
  /\ UNCHANGED <<record, cli, starts, failures>>

-----------------------------------------------------------------------------
\* The operator runs a command.
RunCommand == runs < MaxCommands /\ runs' = runs + 1

\* buildStationRecord: the key is not among its fields.
NewStation(e) == [key |-> None, endpoint |-> e, cid |-> 0]

\* at-adsb register: a new record.
Register(e) ==
  /\ RunCommand
  /\ Put(NewStation(e))
  /\ edited' = {"run", "rotation"}
  /\ UNCHANGED <<daemon, command, stream, starts, failures>>

\* at-adsb generate-stream-key: read the record, write it with the new key.
GenerateRead ==
  /\ RunCommand
  /\ command = << >>
  /\ command' = <<record>>
  /\ UNCHANGED <<record, daemon, edited, stream, starts, failures>>

GenerateWrite(k) ==
  /\ command # << >>
  /\ Put([command[1] EXCEPT !.key = k])
  /\ command' = << >>
  /\ edited' = {"run", "rotation"}
  /\ UNCHANGED <<daemon, runs, stream, starts, failures>>

-----------------------------------------------------------------------------
\* A consumer connects; it fetches the key unless it has one cached.
Join(c) ==
  /\ stage # "down"
  /\ mode[c] = "off"
  /\ mode' = [mode EXCEPT ![c] = IF cached[c] = None THEN "fetching"
                                 ELSE "listening"]
  /\ UNCHANGED <<record, daemon, cli, inbox, cached, rejected, fresh,
                 lastKey, announced, starts, failures>>

\* The consumer has the key from the record (external).
FetchKey(c) ==
  /\ mode[c] = "fetching"
  /\ cached' = [cached EXCEPT ![c] = record.key]
  /\ mode' = [mode EXCEPT ![c] = "listening"]
  /\ fresh' = IF stage = "running" /\ "run" \notin edited THEN fresh \cup {c}
              ELSE fresh \ {c}
  /\ UNCHANGED <<record, daemon, cli, inbox, rejected, lastKey, announced,
                 starts, failures>>

\* A KeyRotated frame makes it fetch; an event with a signature is verified.
Receive(c) ==
  /\ mode[c] = "listening"
  /\ inbox[c] # << >>
  /\ inbox' = [inbox EXCEPT ![c] = Tail(@)]
  /\ LET frame == Head(inbox[c])
     IN  IF frame = KeyRotated
         THEN mode' = [mode EXCEPT ![c] = "fetching"] /\ UNCHANGED rejected
         ELSE /\ rejected' = IF frame.key \in {None, cached[c]} THEN rejected
                             ELSE rejected \cup {c}
              /\ UNCHANGED mode
  /\ UNCHANGED <<record, daemon, cli, cached, fresh, lastKey, announced,
                 starts, failures>>

Startup ==
  \/ Rotate \/ Publish \/ RotationFails
  \/ Advertise \/ WriteEndpoint \/ EndpointFails
  \/ Refresh \/ RefreshFails

Next ==
  \/ \E k \in Keys \cup {None}, e \in Endpoints \cup {None} : Start(k, e)
  \/ Startup \/ SendEvent \/ Halt
  \/ \E e \in Endpoints \cup {None} : Register(e)
  \/ GenerateRead
  \/ \E k \in Keys : GenerateWrite(k)
  \/ \E c \in Consumers : Join(c) \/ FetchKey(c) \/ Receive(c)

Spec == Init /\ [][Next]_vars

-----------------------------------------------------------------------------
Frame == {KeyRotated} \cup {Event(k) : k \in Keys \cup {None}}

TypeOK ==
  /\ record \in Record
  /\ stage \in Stages
  /\ config \in [key : Keys \cup {None}, endpoint : Endpoints \cup {None}]
  /\ fetched \in Record
  /\ ref \in 0 .. MaxWrites
  /\ command = << >> \/ (Len(command) = 1 /\ command[1] \in Record)
  /\ inbox \in [Consumers -> Seq(Frame)]
  /\ mode \in [Consumers -> {"off", "fetching", "listening"}]
  /\ cached \in [Consumers -> Keys \cup {None}]
  /\ rejected \subseteq Consumers /\ fresh \subseteq Consumers
  /\ lastKey \in Keys \cup {None}
  /\ announced \in BOOLEAN
  /\ edited \subseteq {"run", "rotation"}
  /\ starts \in Nat /\ runs \in Nat /\ failures \in Nat

\* Types, and: the strongRef of the events is that of the record as the startup left it,
\* unless the PDS failed or a command wrote the record.
RefIsCurrent ==
  /\ TypeOK
  /\ (stage = "running" /\ failures = 0 /\ "run" \notin edited) => ref = record.cid

\* No event is signed with another key than the one before it unless KeyRotated
\* went out in between, over restarts and failed rotations; or a command wrote
\* the record (generate-stream-key publishes a key and nothing announces it).
RotationAnnounced ==
  [][(lastKey' # lastKey /\ lastKey # None) => announced \/ "rotation" \in edited]_vars

\* A consumer that fetched the key after the startup of the daemon it listens
\* to, before a command changed it, can verify every event on its way.
FreshFollowersVerify ==
  \A c \in fresh : \A i \in DOMAIN inbox[c] :
    inbox[c][i] # KeyRotated => inbox[c][i].key \in {None, cached[c]}

\* A consumer that fetches the key once, and again for each KeyRotated, finds
\* every signature it is sent right.
FollowersVerify == rejected = {}

=============================================================================

---------------------------- MODULE AtLeastOnce ----------------------------
(***************************************************************************)
(* What a durable outbox promises: a record handed to it is held until a   *)
(* copy has reached its destination, and only then forgotten.  Duplicate   *)
(* deliveries are stuttering steps: the promise is about losing records.   *)
(*                                                                         *)
(* PublishQueue implements this specification with the publish_queue table *)
(* of src/server/src/queue.ts and the drain loop of daemon.ts.             *)
(***************************************************************************)
CONSTANT Records

VARIABLES submitted,    \* records ever handed to the outbox
          held,         \* records the outbox still stores
          delivered     \* records of which the destination has a copy

outbox == <<submitted, held, delivered>>

Init == submitted = {} /\ held = {} /\ delivered = {}

\* The record is stored before its submission returns.
Submit(r) ==
  /\ r \notin submitted
  /\ submitted' = submitted \cup {r}
  /\ held' = held \cup {r}
  /\ UNCHANGED delivered

\* The destination takes its first copy of a record the outbox still holds.
Deliver(r) ==
  /\ r \in held
  /\ delivered' = delivered \cup {r}
  /\ UNCHANGED <<submitted, held>>

\* The outbox may forget a record only once the destination has it.
Release(r) ==
  /\ r \in held \cap delivered
  /\ held' = held \ {r}
  /\ UNCHANGED <<submitted, delivered>>

Next == \E r \in Records : Submit(r) \/ Deliver(r) \/ Release(r)

Spec == Init /\ [][Next]_outbox

=============================================================================

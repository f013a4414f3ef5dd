------------------------------ MODULE EventLog ------------------------------
(***************************************************************************)
(* What a live event stream promises its readers: one log of frames; who   *)
(* attaches reads every frame published from then on, each once and in the *)
(* order of the log, until detached.  Nothing is promised about when, nor  *)
(* about frames published before or after.                                 *)
(*                                                                         *)
(* EventStream implements this specification with a queue per subscriber   *)
(* (src/server/src/stream.ts).                                             *)
(***************************************************************************)
EXTENDS Naturals, Sequences

CONSTANTS Readers, Frames

VARIABLES log,        \* the frames published
          attached,   \* the readers the promise is made to
          from,       \* reader -> length of the log when it attached
          received    \* reader -> the frames it has read

state == <<log, attached, from, received>>

Init ==
  /\ log = << >>
  /\ attached = {}
  /\ from = [r \in Readers |-> 0]
  /\ received = [r \in Readers |-> << >>]

Publish(f) == log' = Append(log, f) /\ UNCHANGED <<attached, from, received>>

Attach(r) ==
  /\ r \notin attached
  /\ received[r] = << >>
  /\ attached' = attached \cup {r}
  /\ from' = [from EXCEPT ![r] = Len(log)]
  /\ UNCHANGED <<log, received>>

Read(r) ==
  /\ r \in attached
  /\ from[r] + Len(received[r]) < Len(log)
  /\ received' =
       [received EXCEPT ![r] = Append(@, log[from[r] + Len(@) + 1])]
  /\ UNCHANGED <<log, attached, from>>

Detach(r) ==
  /\ r \in attached
  /\ attached' = attached \ {r}
  /\ UNCHANGED <<log, from, received>>

Next == \/ \E f \in Frames : Publish(f)
        \/ \E r \in Readers : Attach(r) \/ Read(r) \/ Detach(r)

Spec == Init /\ [][Next]_state

=============================================================================

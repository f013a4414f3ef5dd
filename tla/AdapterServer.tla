---------------------------- MODULE AdapterServer ----------------------------
(***************************************************************************)
(* The Unix-socket server the input adapters connect to                    *)
(* (src/server/src/adapter-server.ts).  A connection says which source it  *)
(* is in a handshake; the newest connection of a source replaces the older *)
(* one; a connection that does not shake hands in 5 s is destroyed.        *)
(*                                                                         *)
(* socket.destroy() only starts the end of a connection: no data event     *)
(* follows it, but the close event, where cleanupConnection runs, comes    *)
(* later, and everything else may run first.  A data event hands the       *)
(* connection's complete lines to one run of processBuffer; inCall is the  *)
(* connection whose run is in progress, and nothing else runs meanwhile.   *)
(***************************************************************************)
EXTENDS FiniteSets

CONSTANTS Conns,        \* connections; each is used once
          Sources,      \* source ids
          None,         \* no connection, or no source yet
          Rehandshake   \* TRUE: a connection may shake hands again

ASSUME NoneAssumption == None \notin Conns /\ None \notin Sources
ASSUME RehandshakeAssumption == Rehandshake \in BOOLEAN

VARIABLES socket,     \* connection -> "unused", "open", "destroyed", "closed"
          pending,    \* pendingConnections
          timer,      \* connections whose handshake timer is armed
          source,     \* connection -> sourceId; None until handshakeDone
          active,     \* the map connections: source -> connection
          inCall,     \* the connection processBuffer is running for
          server      \* "listening", "stopping", "stopped"

vars == <<socket, pending, timer, source, active, inCall, server>>

Init ==
  /\ socket = [c \in Conns |-> "unused"]
  /\ pending = {}
  /\ timer = {}
  /\ source = [c \in Conns |-> None]
  /\ active = [s \in Sources |-> None]
  /\ inCall = None
  /\ server = "listening"

-----------------------------------------------------------------------------
EntriesOf(c) == {s \in Sources : active[s] = c}

\* socket.destroy(): no effect on a socket that is already down.
Destroy(C) ==
  socket' = [c \in Conns |->
               IF c \in C /\ socket[c] = "open" THEN "destroyed" ELSE socket[c]]

\* The event loop is free to run a callback of the server.
Free == inCall = None

\* Mutant of Connect: no handshake timer.
ConnectUntimed(c) ==
  /\ Free
  /\ server = "listening"
  /\ socket[c] = "unused"
  /\ socket' = [socket EXCEPT ![c] = "open"]
  /\ pending' = pending \cup {c}
  /\ UNCHANGED <<timer, source, active, inCall, server>>

\* handleNewConnection
Connect(c) ==
  /\ Free
  /\ server = "listening"
  /\ socket[c] = "unused"
  /\ socket' = [socket EXCEPT ![c] = "open"]
  /\ pending' = pending \cup {c}
  /\ timer' = timer \cup {c}
  /\ UNCHANGED <<source, active, inCall, server>>

\* The handshake timer fires.
Timeout(c) ==
  /\ Free
  /\ c \in timer
  /\ timer' = timer \ {c}
  /\ Destroy({c})
  /\ UNCHANGED <<pending, source, active, inCall, server>>

\* A data event: processBuffer starts.
Data(c) ==
  /\ Free
  /\ socket[c] = "open"
  /\ inCall' = c
  /\ UNCHANGED <<socket, pending, timer, source, active, server>>

\* Mutant of Handshake: the timer is not cleared.
HandshakeKeepingTimer(c, s) ==
  /\ inCall = c
  /\ Rehandshake \/ source[c] = None
  /\ timer' = timer \ {active[s]}
  /\ pending' = pending \ {c}
  /\ source' = [source EXCEPT ![c] = s]
  /\ Destroy({active[s]})
  /\ active' = [active EXCEPT ![s] = c]
  /\ UNCHANGED <<inCall, server>>

\* Mutant of Handshake: the connection stays in the pending set.
HandshakeStillPending(c, s) ==
  /\ inCall = c
  /\ Rehandshake \/ source[c] = None
  /\ timer' = timer \ {c, active[s]}
  /\ pending' = pending
  /\ source' = [source EXCEPT ![c] = s]
  /\ Destroy({active[s]})
  /\ active' = [active EXCEPT ![s] = c]
  /\ UNCHANGED <<inCall, server>>

\* Mutant of Handshake: the replaced connection is given a new timer.
HandshakeRearming(c, s) ==
  /\ inCall = c
  /\ Rehandshake \/ source[c] = None
  /\ timer' = (timer \ {c}) \cup {active[s]}
  /\ pending' = pending \ {c}
  /\ source' = [source EXCEPT ![c] = s]
  /\ Destroy({active[s]})
  /\ active' = [active EXCEPT ![s] = c]
  /\ UNCHANGED <<inCall, server>>

\* A handshake line: the connection becomes the one of source s, and the one
\* that was is destroyed (itself, when it names the same source again).
Handshake(c, s) ==
  /\ inCall = c
  /\ Rehandshake \/ source[c] = None
  /\ timer' = timer \ {c, active[s]}
  /\ pending' = pending \ {c}
  /\ source' = [source EXCEPT ![c] = s]
  /\ Destroy({active[s]})
  /\ active' = [active EXCEPT ![s] = c]
  /\ UNCHANGED <<inCall, server>>

\* A line that is no handshake before the handshake: destroy and return.
Reject(c) ==
  /\ inCall = c
  /\ source[c] = None
  /\ Destroy({c})
  /\ inCall' = None
  /\ UNCHANGED <<pending, timer, source, active, server>>

\* No complete line is left.  After the handshake data lines go to the
\* callbacks and bad ones are skipped; neither changes the server.
EndCall(c) ==
  /\ inCall = c
  /\ inCall' = None
  /\ UNCHANGED <<socket, pending, timer, source, active, server>>

\* routeMessage: data lines of c are given to the callbacks as its source's.
Routes(c) == inCall = c /\ source[c] # None

\* The adapter ends the connection, or the socket is reset; close follows.
Hangup(c) ==
  /\ Free
  /\ socket[c] = "open"
  /\ Destroy({c})
  /\ UNCHANGED <<pending, timer, source, active, inCall, server>>

\* Mutant of Cleanup: by source id, not by socket.
CleanupBySource(c) ==
  /\ timer' = timer \ {c}
  /\ pending' = pending \ {c}
  /\ active' = IF c \in pending THEN active
               ELSE [s \in Sources |-> IF s = source[c] THEN None ELSE active[s]]
  /\ UNCHANGED <<source, inCall, server>>

\* cleanupConnection.  The loop over the map stops at the first entry with
\* this socket: any one of them, when a connection holds several.
Cleanup(c) ==
  /\ timer' = timer \ {c}
  /\ pending' = pending \ {c}
  /\ \/ (c \in pending \/ EntriesOf(c) = {}) /\ UNCHANGED active
     \/ /\ c \notin pending
        /\ \E s \in EntriesOf(c) : active' = [active EXCEPT ![s] = None]
  /\ UNCHANGED <<source, inCall, server>>

\* The socket is reset: its error event, with close still to come.
Error(c) ==
  /\ Free
  /\ socket[c] = "open"
  /\ Destroy({c})
  /\ Cleanup(c)

Close(c) ==
  /\ Free
  /\ socket[c] = "destroyed"
  /\ socket' = [socket EXCEPT ![c] = "closed"]
  /\ Cleanup(c)

\* Mutant of Stop: connections that have not shaken hands are left alone.
StopRegistered ==
  /\ Free
  /\ server = "listening"
  /\ Destroy({active[s] : s \in Sources})
  /\ timer' = timer \ ({active[s] : s \in Sources} \cup pending)
  /\ pending' = {}
  /\ active' = [s \in Sources |-> None]
  /\ server' = "stopping"
  /\ UNCHANGED <<source, inCall>>

\* stop: every connection the server knows is destroyed.
Stop ==
  /\ Free
  /\ server = "listening"
  /\ LET known == pending \cup {active[s] : s \in Sources}
     IN  /\ Destroy(known)
         /\ timer' = timer \ known
  /\ pending' = {}
  /\ active' = [s \in Sources |-> None]
  /\ server' = "stopping"
  /\ UNCHANGED <<source, inCall>>

\* server.close calls back when the last socket has closed.
Stopped ==
  /\ Free
  /\ server = "stopping"
  /\ \A c \in Conns : socket[c] \in {"unused", "closed"}
  /\ server' = "stopped"
  /\ UNCHANGED <<socket, pending, timer, source, active, inCall>>

Lines(c) == Reject(c) \/ EndCall(c) \/ \E s \in Sources : Handshake(c, s)

Next ==
  \/ \E c \in Conns :
       \/ Connect(c) \/ Timeout(c) \/ Data(c) \/ Lines(c)
       \/ Hangup(c) \/ Error(c) \/ Close(c)
  \/ Stop
  \/ Stopped

Spec == Init /\ [][Next]_vars

\* Node runs processBuffer to its end, fires an armed timer, emits close after
\* destroy, and calls back when the server has closed.
FairSpec ==
  /\ Spec
  /\ WF_vars(Stopped)
  /\ \A c \in Conns :
       WF_vars(EndCall(c)) /\ SF_vars(Timeout(c)) /\ SF_vars(Close(c))

-----------------------------------------------------------------------------
TypeOK ==
  /\ socket \in [Conns -> {"unused", "open", "destroyed", "closed"}]
  /\ pending \subseteq Conns
  /\ timer \subseteq Conns
  /\ source \in [Conns -> Sources \cup {None}]
  /\ active \in [Sources -> Conns \cup {None}]
  /\ inCall \in Conns \cup {None}
  /\ server \in {"listening", "stopping", "stopped"}

\* A connection that can still deliver data after its handshake is the one
\* registered for the source its data is attributed to: a replaced connection
\* feeds nothing more under that name, and its late close event does not
\* unregister its successor.
OwnsItsSource ==
  \A c \in Conns :
    (source[c] # None /\ (socket[c] = "open" \/ Routes(c)))
      => active[source[c]] = c

\* Every open connection is one the server would end on stop, and one that has
\* not shaken hands has its timer armed; no timer can end one that has.
Supervised ==
  \A c \in Conns : socket[c] = "open" =>
    IF source[c] = None THEN c \in pending /\ c \in timer
    ELSE c \notin pending /\ c \notin timer /\ EntriesOf(c) # {}

\* getConnectedSources names no source whose connection has closed: a closed
\* adapter is removed from the active set.
NoStaleSource ==
  \A s \in Sources : active[s] # None => socket[active[s]] # "closed"

\* A connection that does not shake hands does not stay.
HandshakeOrClosed == \A c \in Conns : (c \in pending) ~> (c \notin pending)

\* stop finishes: no socket is left that nobody destroyed, for which
\* server.close, and with it the daemon's shutdown, would wait.
StopCompletes == (server = "stopping") ~> (server = "stopped")

=============================================================================

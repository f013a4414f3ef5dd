------------------------------ MODULE MCDaemon ------------------------------
(* The instances of Daemon that TLC checks. *)
EXTENDS Daemon, TLC

CONSTANTS a1, a2,    \* aircraft
          h1, h2,    \* onAircraft handlers
          f1, f2     \* batch timer callbacks

OneAircraft == {a1}
TwoAircraft == {a1, a2}
OneHandler == {h1}
TwoHandlers == {h1, h2}
OneFlusher == {f1}
TwoFlushers == {f1, f2}
NoCategories == {}
NoCaptures == {}

Symmetry == Permutations(TwoAircraft) \cup Permutations(TwoHandlers)
              \cup Permutations(TwoFlushers)

=============================================================================

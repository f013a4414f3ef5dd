---------------------------- MODULE MCAdapterServer ----------------------------
(* The instances of AdapterServer that TLC checks. *)
EXTENDS AdapterServer, TLC

CONSTANTS c1, c2, c3,   \* connections
          s1, s2        \* source ids

Conns3 == {c1, c2, c3}
Conns2 == {c1, c2}
Sources2 == {s1, s2}
Symmetric == Permutations(Conns3) \cup Permutations(Sources2)

=============================================================================

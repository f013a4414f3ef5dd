----------------------------- MODULE MCAdapterFeed -----------------------------
(* The instances of AdapterFeed that TLC checks. *)
EXTENDS AdapterFeed, TLC

CONSTANTS p1, p2    \* polls

OnePoll == {p1}
TwoPolls == {p1, p2}
UatOrNone == {Undefined, String("uat", 3)}

=============================================================================

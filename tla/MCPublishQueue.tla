--------------------------- MODULE MCPublishQueue ---------------------------
(* The instances of PublishQueue that TLC checks. *)
EXTENDS PublishQueue, TLC

CONSTANTS d1, d2    \* drain slots

OneDrain == {d1}
TwoDrains == {d1, d2}
Slots == Permutations(TwoDrains)

=============================================================================

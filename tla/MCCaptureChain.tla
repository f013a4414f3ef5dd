--------------------------- MODULE MCCaptureChain ---------------------------
(* The instances of CaptureChain that TLC checks. *)
EXTENDS CaptureChain

CONSTANTS w1, w2,   \* writers
          f1        \* a batch callback

OneWriter == {w1}
TwoWriters == {w1, w2}
OneFlusher == {f1}
FirstFile == {1}
InEscapes == {1, 3}   \* behind the first 0x1a, and between the two of an escaped one

=============================================================================

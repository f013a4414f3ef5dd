-------------------------------- MODULE Atrx --------------------------------
(***************************************************************************)
(* The ATRX container of raw captures (src/server/src/atrx.ts): build,     *)
(* parse, concatenate and split.                                           *)
(*                                                                         *)
(* A buffer is a sequence of cells, records with a field "cell".  A field  *)
(* of the envelope that the code reads as one value, the magic, a length,  *)
(* the metadata, is one cell; BEAST bytes are a cell each.  What throws in *)
(* the code returns a record with ok |-> FALSE here.                       *)
(***************************************************************************)
EXTENDS Integers, Sequences, SequencesExt

Magic == [cell |-> "ATRX"]
Number(n) == [cell |-> "number", n |-> n]
Value(c) == IF c.cell = "number" THEN c.n ELSE 0   \* ?? 0, readUInt32BE

Version == 2
LegacyVersion == 1
Compressed == 1                            \* FLAG_ZSTD_COMPRESSED
HeaderSize == 3                            \* magic, version, flags
Header(version) == <<Magic, Number(version), Number(Compressed)>>

-----------------------------------------------------------------------------
\* zstd: its frames begin with a mark and know their length.
Compress(frames) == <<[cell |-> "zstd", n |-> Len(frames)]>> \o frames
Decompress(payload) ==
  [ok |-> payload # << >> /\ payload[1].cell = "zstd" /\ payload[1].n = Len(payload) - 1,
   frames |-> SubSeq(payload, 2, Len(payload))]

\* The cells of BEAST: 0x1a, a type byte, any other byte.
Escape(at) == [cell |-> "escape", at |-> at]
Kind(at) == [cell |-> "kind", at |-> at]
Data(at) == [cell |-> "data", at |-> at]

\* Mutant of countBeastFrames: an escaped 0x1a is stepped over by one byte.
CountUnescaped(payload) ==
  LET count[i \in Nat] ==
        IF i > Len(payload) THEN 0
        ELSE IF payload[i].cell = "escape" /\ i < Len(payload)
                  /\ payload[i + 1].cell = "kind"
             THEN 1 + count[i + 2]
             ELSE count[i + 1]
  IN  count[1]

\* Frames are counted where 0x1a is followed by a type; an escape always takes the
\* byte after it along.
countBeastFrames(payload) ==
  LET count[i \in Nat] ==
        IF i > Len(payload) THEN 0
        ELSE IF payload[i].cell # "escape" THEN count[i + 1]
        ELSE count[i + 2]
               + IF i < Len(payload) /\ payload[i + 1].cell = "kind" THEN 1 ELSE 0
  IN  count[1]

-----------------------------------------------------------------------------
\* The metadata is one cell behind its length.
buildAtrxBlob(metadata, frames) ==
  Header(Version) \o <<Number(1), metadata, Number(Len(Compress(frames)))>>
    \o Compress(frames)

\* A blob of version 1, as earlier releases wrote it.
LegacyBlob(metadata, frames) ==
  Header(LegacyVersion) \o <<Number(1), metadata>> \o Compress(frames)

\* Where the metadata of the section behind offset ends, and that section.
MetadataEnd(b, offset) == offset + HeaderSize + 1 + Value(b[offset + HeaderSize + 1])
SectionEnd(b, offset) ==
  LET end == MetadataEnd(b, offset) IN end + 1 + Value(b[end + 1])

Invalid == [ok |-> FALSE, frames |-> << >>]

\* The frame count of the metadata is checked against the payload.
Checked(metadata, frames) ==
  [ok |-> metadata.frameCount = countBeastFrames(frames),
   metadata |-> metadata, frames |-> frames]

Payload(metadata, bytes) ==
  IF Decompress(bytes).ok THEN Checked(metadata, Decompress(bytes).frames)
  ELSE Invalid

parseAtrxBlob(b) ==
  IF \/ Len(b) < HeaderSize + 1
     \/ b[1] # Magic
     \/ Value(b[2]) \notin {Version, LegacyVersion}
     \/ Len(b) < MetadataEnd(b, 0)
  THEN Invalid
  ELSE LET end == MetadataEnd(b, 0) IN
       IF Value(b[2]) = LegacyVersion
       THEN Payload(b[end], SubSeq(b, end + 1, Len(b)))
       ELSE IF Len(b) = end \/ Len(b) # SectionEnd(b, 0) THEN Invalid
            ELSE Payload(b[end], SubSeq(b, end + 2, Len(b)))

concatAtrxBlobs(blobs) == FlattenSeq(blobs)

Truncated == [ok |-> FALSE, sections |-> << >>]

\* Mutant of splitAtrxBlobs: sections begin wherever the magic is found.
SplitAtMagic(b) ==
  LET begins == {i \in DOMAIN b : b[i] = Magic}
      ends(i) == {j \in begins : j > i} \cup {Len(b) + 1}
      first(S) == CHOOSE i \in S : \A j \in S : i <= j
      split[S \in SUBSET begins] ==
        IF S = {} THEN << >>
        ELSE <<SubSeq(b, first(S), first(ends(first(S))) - 1)>>
               \o split[S \ {first(S)}]
  IN  [ok |-> b = << >> \/ b[1] = Magic, sections |-> split[begins]]

\* Section by section, by the lengths; a section of version 1 takes all the rest.
splitAtrxBlobs(b) ==
  LET split[offset \in Nat] ==
        IF offset >= Len(b) THEN [ok |-> TRUE, sections |-> << >>]
        ELSE IF Len(b) < offset + HeaderSize + 1 \/ b[offset + 1] # Magic THEN Truncated
        ELSE IF Value(b[offset + 2]) = LegacyVersion
             THEN [ok |-> TRUE, sections |-> <<SubSeq(b, offset + 1, Len(b))>>]
        ELSE IF \/ Value(b[offset + 2]) # Version
                \/ Len(b) <= MetadataEnd(b, offset)
                \/ Len(b) < SectionEnd(b, offset)
             THEN Truncated
        ELSE LET end  == SectionEnd(b, offset)
                 rest == split[end]
             IN  [ok |-> rest.ok,
                  sections |-> <<SubSeq(b, offset + 1, end)>> \o rest.sections]
  IN  split[0]

=============================================================================

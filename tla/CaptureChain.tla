---------------------------- MODULE CaptureChain ----------------------------
(***************************************************************************)
(* A raw capture from the decoder to a verifier: the adapter (RawCapture)  *)
(* writes its windows to ATRX files and names them to the daemon; the      *)
(* batch timer of src/server/src/daemon.ts reads the files of its own      *)
(* window, stamps them anew, concatenates them to one blob and publishes   *)
(* it with the window's first sighting record; who verifies it splits the  *)
(* blob and parses its sections (Atrx).                                    *)
(*                                                                         *)
(* The two processes have windows of their own on one clock.  A capture is *)
(* known by its place in captures, and its file by the same number.        *)
(***************************************************************************)
EXTENDS RawCapture

CONSTANTS Flushers,     \* slots for batch callbacks in flight
          MaxBatches,   \* bound: windows with telemetry
          Undeletable   \* captures whose file cannot be deleted

ASSUME ChainAssumption == MaxBatches \in Nat

VARIABLES rawCaptureEnabled,  \* of the configuration
          told,        \* captures the daemon has handled the message of
          paths,       \* rawCapturePaths
          from,        \* batchState.windowStart
          batch,       \* slot -> callback in flight: [todo, read, blobs, from, to]
          batches,     \* callbacks with telemetry so far
          sightings,   \* records published with a blob: [from, to, of, blob]
          unlinked,    \* captures whose file is deleted
          stuck,       \* captures whose file could not be deleted
          abandoned,   \* captures whose file or upload failed
          skipped      \* captures of windows without telemetry, or not wanted

deletion == <<unlinked, stuck>>
chain == <<rawCaptureEnabled, told, paths, from, batch, batches, sightings, deletion,
           abandoned, skipped>>
chainVars == <<vars, chain>>

NoBatch == [todo |-> << >>, read |-> << >>, blobs |-> << >>, from |-> 0, to |-> 0]

ChainInit ==
  /\ Init
  /\ rawCaptureEnabled \in BOOLEAN
  /\ told = 0
  /\ paths = << >>
  /\ from = now
  /\ batch = [f \in Flushers |-> NoBatch]
  /\ batches = 0
  /\ sightings = << >>
  /\ unlinked = {}
  /\ stuck = {}
  /\ abandoned = {}
  /\ skipped = {}

-----------------------------------------------------------------------------
Metadata(begin, end, count) ==
  [cell |-> "metadata", from |-> begin, to |-> end, frameCount |-> count]

\* flushBatchWindow of the adapter: what it writes to the file.
File(i) ==
  LET capture == captures[i]
  IN  buildAtrxBlob(Metadata(capture.from, capture.to, FrameCount(capture.frames)),
                    BytesOf(capture.frames))

\* onRawCapture: messages come in the order they were written.
OnRawCapture ==
  /\ told < Len(captures)
  /\ told' = told + 1
  /\ paths' = Append(paths, told')
  /\ UNCHANGED <<vars, rawCaptureEnabled, from, batch, batches, sightings, deletion,
                 abandoned, skipped>>

\* Mutant of NextPaths: the paths are taken, but not out of the list.
NextPathsKeeping == paths

\* rawCapturePaths after a flush.
NextPaths == << >>

\* batchTimer up to its first await: the next window begins.  Without telemetry,
\* which may have come or not, there is no record, and the paths are forgotten with
\* the window; so they are when captures are not enabled.
Batch(f, telemetry) ==
  /\ batch[f] = NoBatch
  /\ from' = now
  /\ paths' = NextPaths
  /\ IF telemetry /\ rawCaptureEnabled
     THEN /\ batches < MaxBatches
          /\ batches' = batches + 1
          /\ batch' = [batch EXCEPT ![f] = [NoBatch EXCEPT !.todo = paths,
                                              !.from = from, !.to = now]]
          /\ UNCHANGED skipped
     ELSE /\ skipped' = skipped \cup ToSet(paths)
          /\ UNCHANGED <<batch, batches>>
  /\ UNCHANGED <<vars, rawCaptureEnabled, told, sightings, deletion, abandoned>>

\* unlink, tried once more when it failed: it may fail again, and the file stays.
Unlink(i) ==
  IF i \in Undeletable THEN stuck' = stuck \cup {i} /\ UNCHANGED unlinked
  ELSE unlinked' = unlinked \cup {i} /\ UNCHANGED stuck

\* A file is read, parsed, stamped with the sighting's window and deleted; the blob is
\* kept whether or not the file can be deleted.
Restamp(f) ==
  /\ batch[f].todo # << >>
  /\ LET i      == Head(batch[f].todo)
         parsed == parseAtrxBlob(File(i))
         blob   == buildAtrxBlob(Metadata(batch[f].from, batch[f].to,
                                          parsed.metadata.frameCount), parsed.frames)
     IN  /\ parsed.ok
         /\ Unlink(i)
         /\ batch' = [batch EXCEPT ![f].todo = Tail(@), ![f].read = Append(@, i),
                                   ![f].blobs = Append(@, blob)]
  /\ UNCHANGED <<vars, rawCaptureEnabled, told, paths, from, batches, sightings,
                 abandoned, skipped>>

\* The file cannot be read or parsed: it is deleted all the same.
RestampFails(f) ==
  /\ batch[f].todo # << >>
  /\ LET i == Head(batch[f].todo)
     IN  /\ Unlink(i)
         /\ abandoned' = abandoned \cup {i}
         /\ batch' = [batch EXCEPT ![f].todo = Tail(@)]
  /\ UNCHANGED <<vars, rawCaptureEnabled, told, paths, from, batches, sightings,
                 skipped>>

Uploading(f) == batch[f] # NoBatch /\ batch[f].todo = << >>

\* The blob is uploaded and the first sighting of the window, published or queued,
\* names it.
Publish(f) ==
  /\ Uploading(f)
  /\ batch' = [batch EXCEPT ![f] = NoBatch]
  /\ sightings' =
       IF batch[f].blobs = << >> THEN sightings
       ELSE Append(sightings, [from |-> batch[f].from, to |-> batch[f].to,
                               of |-> batch[f].read,
                               blob |-> concatAtrxBlobs(batch[f].blobs)])
  /\ UNCHANGED <<vars, rawCaptureEnabled, told, paths, from, batches, deletion, abandoned,
                 skipped>>

\* An upload fails: the sighting is published without the capture, or not at all.
UploadFails(f) ==
  /\ Uploading(f)
  /\ batch[f].read # << >>
  /\ batch' = [batch EXCEPT ![f] = NoBatch]
  /\ abandoned' = abandoned \cup ToSet(batch[f].read)
  /\ UNCHANGED <<vars, rawCaptureEnabled, told, paths, from, batches, sightings, deletion,
                 skipped>>

ChainNext ==
  \/ Next /\ UNCHANGED chain
  \/ OnRawCapture
  \/ \E f \in Flushers : \/ \E telemetry \in BOOLEAN : Batch(f, telemetry)
                         \/ Restamp(f) \/ RestampFails(f)
                         \/ Publish(f) \/ UploadFails(f)

ChainSpec == ChainInit /\ [][ChainNext]_chainVars

-----------------------------------------------------------------------------
\* Types; the captures named to the daemon are those told so far.
ChainTypeOK ==
  /\ TypeOK
  /\ told \in 0 .. Len(captures)
  /\ paths \in Seq(1 .. told)
  /\ from \in Time
  /\ \A f \in Flushers : /\ batch[f].todo \in Seq(1 .. told)
                         /\ Len(batch[f].blobs) = Len(batch[f].read)
                         /\ batch[f].from <= batch[f].to
  /\ batches \in 0 .. MaxBatches
  /\ unlinked \cup stuck \cup abandoned \cup skipped \subseteq 1 .. told

\* The places a capture may be in.
Places(i) ==
  [waiting   |-> {k \in DOMAIN paths : paths[k] = i},
   inBatch   |-> {p \in Flushers \X (1 .. told) :
                    LET held == batch[p[1]].todo \o batch[p[1]].read
                    IN  p[2] <= Len(held) /\ held[p[2]] = i},
   published |-> {p \in (DOMAIN sightings) \X (1 .. told) :
                    LET of == sightings[p[1]].of
                    IN  p[2] <= Len(of) /\ of[p[2]] = i},
   abandoned |-> {i} \cap abandoned,
   skipped   |-> {i} \cap skipped]

\* Types, and: every capture the daemon was told of is in one place: it waits, is being
\* processed, is in one sighting and once there, or was given up; and its file is
\* deleted once it was read, and not before, unless it cannot be or the capture was
\* forgotten with its window.
CapturesAccounted ==
  /\ ChainTypeOK
  /\ \A i \in 1 .. told :
    LET places == Places(i)
        unread == places.waiting # {} \/ \E f \in Flushers : i \in ToSet(batch[f].todo)
    IN  /\ Cardinality(places.waiting) + Cardinality(places.inBatch)
             + Cardinality(places.published) + Cardinality(places.abandoned)
             + Cardinality(places.skipped) = 1
        /\ i \in unlinked \cup stuck <=> ~unread /\ i \notin skipped
        /\ ~(i \in unlinked /\ i \in stuck)

Sections(blob) == splitAtrxBlobs(blob).sections

\* A verifier gets back, section by section, the bytes each capture was written
\* with, under the window of the sighting, whatever those bytes contain; a section
\* of version 1 may follow as the last one (atrx.ts: "concatenated blobs can be
\* split without scanning payload bytes for magic sequences").
SplitGivesBack ==
  \A s \in Range(sightings) :
    LET split  == splitAtrxBlobs(s.blob)
        legacy == LegacyBlob(Metadata(0, 0, 1), Frame(0))
        parsed(k) == parseAtrxBlob(split.sections[k])
    IN  /\ split.ok
        /\ Len(split.sections) = Len(s.of)
        /\ \A k \in DOMAIN s.of :
             /\ parsed(k).ok
             /\ parsed(k).frames = BytesOf(captures[s.of[k]].frames)
             /\ parsed(k).metadata.from = s.from
             /\ parsed(k).metadata.to = s.to
        /\ Sections(s.blob \o legacy) = Append(split.sections, legacy)
        /\ parseAtrxBlob(legacy).ok

\* A blob that lost its end is recognised wherever it was cut, but between two
\* sections, and a section with anything behind it is refused.
TruncationDetected ==
  \A s \in Range(sightings) :
    LET sections == Sections(s.blob)
        lengths  == {Len(FlattenSeq(SubSeq(sections, 1, k))) : k \in DOMAIN sections}
    IN  /\ \A n \in 1 .. Len(s.blob) :
             splitAtrxBlobs(SubSeq(s.blob, 1, n)).ok => n \in lengths
        /\ \A n \in 1 .. Len(s.blob) :
             parseAtrxBlob(SubSeq(s.blob, 1, n)).ok => n = Len(sections[1])

\* Splitting is the inverse of concatenating, on those blobs and on no others.
SplitInverts == SplitGivesBack /\ TruncationDetected

\* Parts that begin a frame and have its type byte, and parts of torn frames.
Begun(data) == {i \in DOMAIN data : data[i].first = 1 /\ data[i].last > 1}
Torn(data) == {i \in DOMAIN data : data[i].first > 1 \/ data[i].last < FrameLength}

\* The count in the metadata, which a verifier checks the payload against, is off by at
\* most one for each part of a torn frame, wherever TCP tore it: between 0x1a and the
\* type byte, or inside an escape, where the rest of the stream must not be misread.
\* With no frame torn it is the number of frames.
FramesCounted ==
  \A c \in Range(captures) :
    LET begun == Cardinality(Begun(c.frames))
        torn  == Cardinality(Torn(c.frames))
    IN  begun - torn <= FrameCount(c.frames) /\ FrameCount(c.frames) <= begun + torn

\* Extra, violated: the count is the number of frames that begin in the data.
CountExact ==
  \A c \in Range(captures) : FrameCount(c.frames) = Cardinality(Begun(c.frames))

\* Extra, violated: the frames a sighting carries were received in its window.
FramesInSightingWindow ==
  \A s \in Range(sightings) : \A i \in ToSet(s.of) :
    \A part \in Range(captures[i].frames) : s.from <= part.at /\ part.at <= s.to

\* Extra, violated: a file that was named to the daemon is deleted in the end.
FilesReclaimed == skipped \cup stuck = {}

=============================================================================

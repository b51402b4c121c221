------------------------------ MODULE Storage ------------------------------
(***************************************************************************)
(* Track storage (internal/storage/storage.go): a file is cut into MP3     *)
(* frames, the frames are grouped into chunks, and the chunks kept in      *)
(* memory under the hash of the file.                                      *)
(*                                                                         *)
(* A file is a sequence of bytes, of which only the fields of the header   *)
(* that may start there matter: byte i is a record of those fields where a *)
(* sync word begins, and Junk elsewhere.  Frames are the pairs of their    *)
(* first and last position; the CID is the file itself.  The tables of     *)
(* bitrates and sampling rates are parameters, so that TLC can take rates  *)
(* that make frames of a few bytes.                                        *)
(***************************************************************************)
EXTENDS Integers, Sequences, FiniteSets, FiniteSetsExt, SequencesExt

CONSTANTS
    Files,
    Junk,
    HeaderSize,         \* 4
    FramesPerChunk,     \* framesPerChunk, 32
    Bitrates,           \* per version and layer, the rates 0 .. 15 in kbit/s
    SampleRates         \* per version, the rates 0 .. 2 in Hz

\* What a byte may be: the fields have the widths they have in the header.
Headers == [version : 0 .. 3, layer : 0 .. 3, bitrateIdx : 0 .. 15, sampleIdx : 0 .. 3,
            padding : 0 .. 1]

ASSUME StorageAssumption ==
    /\ HeaderSize \in Nat \ {0}
    /\ FramesPerChunk \in Nat \ {0}
    /\ \A file \in Files : file \in Seq(Headers \cup {Junk})
    /\ \A v \in DOMAIN Bitrates : \A l \in DOMAIN Bitrates[v] :
         \A i \in 1 .. 14 : Bitrates[v][l][i] \in Nat
    /\ \A v \in DOMAIN Bitrates : \A i \in 0 .. 2 : SampleRates[v][i] \in Nat \ {0}

VARIABLES
    disk,               \* the file a user shares
    tracks,             \* the chunks of each stored track, by CID
    refused             \* the last LoadTrack returned an error

vars == <<disk, tracks, refused>>

----------------------------------------------------------------------------
(* Framing.                                                                *)

\* Bytes of the frame with header h, 0 when it is not valid: only versions in
\* Bitrates are known.  Layer 3 is Layer I, in slots of 4 bytes.
mp3FrameSize(h) ==
    IF \/ h.bitrateIdx \in {0, 15}
       \/ h.sampleIdx = 3
       \/ h.version \notin DOMAIN Bitrates
       \/ h.layer \notin DOMAIN Bitrates[h.version]
    THEN 0
    ELSE LET bitrate == 1000 * Bitrates[h.version][h.layer][h.bitrateIdx]
             sampleRate == SampleRates[h.version][h.sampleIdx]
         IN  IF h.layer = 3
             THEN ((12 * bitrate) \div sampleRate + h.padding) * 4
             ELSE (144 * bitrate) \div sampleRate + h.padding

\* The scan stops where no header fits; a frame must fit the file.
Size(file, i) ==
    IF i <= Len(file) - HeaderSize + 1 /\ file[i] # Junk THEN mp3FrameSize(file[i]) ELSE 0
FrameAt(file, i) == Size(file, i) > 0 /\ i + Size(file, i) - 1 <= Len(file)

extractMP3Frames(file) ==
    LET scan[i \in 1 .. Len(file) + 1] ==
          IF i > Len(file) THEN << >>
          ELSE IF FrameAt(file, i)
               THEN <<<<i, i + Size(file, i) - 1>>>> \o scan[i + Size(file, i)]
               ELSE scan[i + 1]
    IN  scan[1]

\* Mutant of groupFrames: the rest that does not fill a chunk is dropped.
groupFullFrames(frames) ==
    [k \in 1 .. Len(frames) \div FramesPerChunk |->
       SubSeq(frames, (k - 1) * FramesPerChunk + 1, k * FramesPerChunk)]

\* Full chunks, and the rest in a last one.
groupFrames(frames) ==
    LET n == (Len(frames) + FramesPerChunk - 1) \div FramesPerChunk
    IN  [k \in 1 .. n |->
           SubSeq(frames, (k - 1) * FramesPerChunk + 1, Min({k * FramesPerChunk, Len(frames)}))]

----------------------------------------------------------------------------
(* Storage.                                                                *)

Init ==
    /\ disk \in Files
    /\ tracks = << >>
    /\ refused = FALSE

\* A file without frames is refused; one that is stored is cut again.
LoadTrack ==
    LET frames == extractMP3Frames(disk)
    IN  /\ refused' = (frames = << >>)
        /\ tracks' = IF refused' THEN tracks
                     ELSE [cid \in DOMAIN tracks \cup {disk} |->
                             IF cid = disk THEN groupFrames(frames) ELSE tracks[cid]]
        /\ UNCHANGED disk

RemoveTrack(cid) ==
    /\ cid \in DOMAIN tracks
    /\ tracks' = [c \in DOMAIN tracks \ {cid} |-> tracks[c]]
    /\ UNCHANGED <<disk, refused>>

GetTotalChunks(cid) == IF cid \in DOMAIN tracks THEN Len(tracks[cid]) ELSE 0

Next == LoadTrack \/ \E cid \in DOMAIN tracks : RemoveTrack(cid)

Spec == Init /\ [][Next]_vars

----------------------------------------------------------------------------
(* Properties.                                                             *)

\* The frames a file has, said without a scan: those that start at a header
\* which no earlier one of them covers.
FrameStarts(file) ==
    CHOOSE S \in SUBSET DOMAIN file : \A i \in DOMAIN file :
        i \in S <=> /\ FrameAt(file, i)
                    /\ \A j \in S : j < i => j + Size(file, j) <= i

\* A stored track is cut as it should be: played chunk by chunk it is every
\* frame of its file once and in order, in chunks that are full but for the
\* last, and none of them empty; and a file is refused only if it has no frame.
ChunksAreFrames ==
    /\ refused => FrameStarts(disk) = {}
    /\ \A cid \in DOMAIN tracks :
         LET n == GetTotalChunks(cid)
             frames == FlattenSeq(tracks[cid])
         IN  /\ n > 0
             /\ \A k \in 1 .. n - 1 : Len(tracks[cid][k]) = FramesPerChunk
             /\ Len(tracks[cid][n]) \in 1 .. FramesPerChunk
             /\ ToSet(frames) = {<<i, i + Size(cid, i) - 1>> : i \in FrameStarts(cid)}
             /\ \A j, k \in DOMAIN frames : j < k => frames[j][2] < frames[k][1]

\* Storing a file again while others are served its chunks changes none of them.
StoredChunksStay ==
    [][\A cid \in DOMAIN tracks \cap DOMAIN tracks' : tracks'[cid] = tracks[cid]]_vars

=============================================================================

------------------------------- MODULE Track -------------------------------
(***************************************************************************)
(* The track every component of the streaming engine talks about: a fixed  *)
(* number of chunks, numbered from 0 (internal/storage: Chunk.Index,       *)
(* internal/streaming: totalChunks).                                       *)
(***************************************************************************)
EXTENDS Integers

CONSTANT TotalChunks    \* what queryTotalChunks or GetTotalChunks returned

\* StartStreaming refuses a track whose total is 0 (engine.go:88, :400).
ASSUME TrackAssumption == TotalChunks \in Nat \ {0}

\* The chunk indices of the track.
Chunks == 0 .. TotalChunks - 1

\* The positions a reader can be at; TotalChunks means the end of the track.
Positions == 0 .. TotalChunks

=============================================================================

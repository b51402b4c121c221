---------------------------- MODULE TrackReader ----------------------------
(***************************************************************************)
(* What the streaming engine promises to whoever reads a track: the parts  *)
(* of the track come one after the other, none skipped and none repeated;  *)
(* a single Read stays within a chunk; the end of the track is reported    *)
(* after the last part and only then; and the only other way out is to     *)
(* give up.  There is no "missing chunk".                                  *)
(***************************************************************************)
EXTENDS Track

CONSTANT PartsPerChunk

VARIABLES
    position,    \* parts of the track delivered so far
    status       \* "open", "ended", "closed" (and never "broken")

TrackParts == TotalChunks * PartsPerChunk

\* Parts of the current chunk not yet delivered.
PartsLeft == PartsPerChunk - (position % PartsPerChunk)

Init ==
    /\ position = 0
    /\ status = "open"

Deliver ==
    /\ status = "open"
    /\ position < TrackParts
    /\ \E n \in 1 .. PartsLeft : position' = position + n
    /\ UNCHANGED status

End ==
    /\ status = "open"
    /\ position = TrackParts
    /\ status' = "ended"
    /\ UNCHANGED position

GiveUp ==
    /\ status = "open"
    /\ status' = "closed"
    /\ UNCHANGED position

Next == Deliver \/ End \/ GiveUp

Spec == Init /\ [][Next]_<<position, status>>

=============================================================================

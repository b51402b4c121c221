----------------------------- MODULE LocalServe -----------------------------
(***************************************************************************)
(* Streaming a track this node stores (engine.go, StartStreaming's local   *)
(* path and serveFromLocalStorage): one producer goroutine copies chunks   *)
(* from storage to the read buffer, while an API call may remove the track *)
(* from storage (storage.go, RemoveTrack) or share it again (LoadTrack).   *)
(***************************************************************************)
EXTENDS ReadBuffer

VARIABLES
    servePc,       \* where the producer is
    serveIndex,    \* the chunk it serves next
    stored,        \* the track is in storage
    removed        \* the track has been removed at some time

serveVars == <<servePc, serveIndex>>
storageVars == <<stored, removed>>
vars == <<readVars, serveVars, storageVars>>

ServeStages == {"check", "get", "store", "woken", "announce",
                "finish", "close", "returned"}

Init ==
    /\ ReadBufferInit
    /\ servePc = "check"
    /\ serveIndex = 0
    /\ stored = TRUE
    /\ removed = FALSE

----------------------------------------------------------------------------
(* serveFromLocalStorage.                                                  *)

ServeCheck ==
    /\ servePc = "check"
    /\ servePc' = IF cancelled THEN "returned" ELSE "get"
    /\ UNCHANGED <<readVars, serveIndex, storageVars>>

\* Mutant of ServeGet: a missing chunk is skipped instead of ending the loop.
ServeGetSkips ==
    /\ servePc = "get"
    /\ IF stored
       THEN servePc' = "store" /\ UNCHANGED serveIndex
       ELSE servePc' = "announce" /\ serveIndex' = serveIndex + 1
    /\ UNCHANGED <<readVars, storageVars>>

\* A chunk that storage no longer has ends the loop.
ServeGet ==
    /\ servePc = "get"
    /\ servePc' = IF stored THEN "store" ELSE "finish"
    /\ UNCHANGED <<readVars, serveIndex, storageVars>>

ServeWait ==
    /\ servePc = "store"
    /\ Full
    /\ Sleep("producer")
    /\ servePc' = "woken"
    /\ UNCHANGED <<bufferVars, cancelled, readerPc, serveIndex, storageVars>>

\* The context is looked at when the condition variable wakes the producer.
ServeWoken ==
    /\ servePc = "woken"
    /\ "producer" \notin asleep
    /\ servePc' = IF cancelled THEN "returned" ELSE "store"
    /\ UNCHANGED <<readVars, serveIndex, storageVars>>

ServeStore ==
    /\ servePc = "store"
    /\ ~Full
    /\ Store(serveIndex)
    /\ serveIndex' = serveIndex + 1
    /\ servePc' = "announce"
    /\ UNCHANGED <<nextRead, done, cancelled, asleep, readerPc, storageVars>>

\* Mutants of ServeAnnounce: the loop runs one chunk too far, or too short.
ServeAnnounceTooFar ==
    /\ servePc = "announce"
    /\ Broadcast
    /\ servePc' = IF serveIndex <= TotalChunks THEN "check" ELSE "finish"
    /\ UNCHANGED <<bufferVars, cancelled, readerPc, serveIndex, storageVars>>
ServeAnnounceTooShort ==
    /\ servePc = "announce"
    /\ Broadcast
    /\ servePc' = IF serveIndex < TotalChunks - 1 THEN "check" ELSE "finish"
    /\ UNCHANGED <<bufferVars, cancelled, readerPc, serveIndex, storageVars>>

\* The broadcast that follows the unlock.
ServeAnnounce ==
    /\ servePc = "announce"
    /\ Broadcast
    /\ servePc' = IF serveIndex < TotalChunks THEN "check" ELSE "finish"
    /\ UNCHANGED <<bufferVars, cancelled, readerPc, serveIndex, storageVars>>

ServeFinish ==
    /\ servePc = "finish"
    /\ SetDone
    /\ servePc' = "close"
    /\ UNCHANGED <<cancelled, asleep, readerPc, serveIndex, storageVars>>

\* Mutant of ServeClose: nobody is woken for the end of the track.
ServeCloseSilently ==
    /\ servePc = "close"
    /\ servePc' = "returned"
    /\ UNCHANGED <<readVars, serveIndex, storageVars>>

ServeClose ==
    /\ servePc = "close"
    /\ Broadcast
    /\ servePc' = "returned"
    /\ UNCHANGED <<bufferVars, cancelled, readerPc, serveIndex, storageVars>>

Serve ==
    \/ ServeCheck \/ ServeGet \/ ServeWait \/ ServeWoken
    \/ ServeStore \/ ServeAnnounce \/ ServeFinish \/ ServeClose

----------------------------------------------------------------------------
(* Storage, as other API calls change it.                                  *)

RemoveTrack ==
    /\ stored
    /\ stored' = FALSE
    /\ removed' = TRUE
    /\ UNCHANGED <<readVars, serveVars>>

LoadTrack ==
    /\ ~stored
    /\ stored' = TRUE
    /\ UNCHANGED <<readVars, serveVars, removed>>

----------------------------------------------------------------------------

ReaderStep == Reader /\ UNCHANGED <<serveVars, storageVars>>
CancelStep == Cancel /\ UNCHANGED <<serveVars, storageVars>>
DisconnectStep == Disconnect /\ UNCHANGED <<serveVars, storageVars>>

Next ==
    \/ Serve \/ RemoveTrack \/ LoadTrack
    \/ ReaderStep \/ CancelStep \/ DisconnectStep

Spec == Init /\ [][Next]_vars

\* The producer and the reader keep running.
Fairness == WF_vars(Serve) /\ WF_vars(ReaderStep)

FairSpec == Spec /\ Fairness

----------------------------------------------------------------------------
(* Properties.                                                             *)

\* Type invariant.
TypeOK ==
    /\ chunks \in [Chunks -> 0 .. PartsPerChunk]
    /\ nextRead \in Positions
    /\ received \in Positions
    /\ done \in BOOLEAN
    /\ cancelled \in BOOLEAN
    /\ asleep \subseteq Threads
    /\ readerPc \in ReaderStages
    /\ servePc \in ServeStages
    /\ serveIndex \in Positions
    /\ stored \in BOOLEAN
    /\ removed \in BOOLEAN

\* The buffer is exactly the run of chunks between the reader and the
\* producer, so bufferAhead counts what it should and every chunk is served
\* once and in order.
BufferIsARun ==
    /\ Buffered = nextRead .. serveIndex - 1
    /\ received = serveIndex

\* The producer and the reader are never asleep at the same time, and a thread
\* whose condition has come true is awake or about to be woken.
SleepsForAReason ==
    /\ asleep # Threads
    /\ "producer" \in asleep => Full
    /\ "reader" \in asleep /\ servePc \notin {"announce", "close"} =>
         \/ readerPc = "gate" /\ ~GateOpen
         \/ readerPc = "reading" /\ nextRead \notin Buffered /\ ~done

\* The reader sees a truncated track only if the track was removed from
\* storage while it was played.
MissingOnlyIfRemoved == readerPc = "missing" => removed

\* Played from storage, the track is what TrackReader promises, its parts in
\* order and once and EOF after the last, except that the reader of a track
\* removed meanwhile may be told that the rest is missing.
CutShort ==
    /\ removed
    /\ ReaderStatus = "open"
    /\ ReaderStatus' = "broken"
    /\ UNCHANGED PartsDelivered

ServesTheTrack ==
    Promise!Init /\ [][Promise!Next \/ CutShort]_<<PartsDelivered, ReaderStatus>>

\* A stream nobody cancels always comes to an end: the end of the track, or
\* the error that reports a removed one.
EventuallyEnds == <>(readerPc \in {"eof", "missing"} \/ cancelled)

=============================================================================

----------------------------- MODULE EngineReuse -----------------------------
(***************************************************************************)
(* One engine playing one track after another (internal/streaming/         *)
(* engine.go): the loop of main stops the shared engine and starts it on   *)
(* the next track, while fetches for the last one still run.  Here a       *)
(* buffered chunk is abstracted to the track its bytes come from; how a    *)
(* single track is downloaded is Download, whose scheduling may choose any *)
(* chunk of the track.                                                     *)
(***************************************************************************)
EXTENDS Integers, FiniteSets

CONSTANTS
    Tracks, NoTrack,
    TotalChunks

VARIABLES
    cid,            \* e.cid, NoTrack before the first track
    started,        \* the tracks StartStreaming has been called for
    stopped,        \* those whose context Stop has cancelled
    looping,        \* those whose downloadLoop runs
    chunks,         \* e.chunks: per index, the track the bytes are of
    nextRead,       \* e.nextRead
    fetches         \* the fetches that run

bufferVars == <<chunks, nextRead>>
vars == <<cid, started, stopped, looping, bufferVars, fetches>>

Indices == 0 .. TotalChunks - 1

Init ==
    /\ cid = NoTrack
    /\ started = {}
    /\ stopped = {}
    /\ looping = {}
    /\ chunks = [i \in Indices |-> NoTrack]
    /\ nextRead = 0
    /\ fetches = {}

\* main starts the next item only after Stop.
StartStreaming(t) ==
    /\ t \notin started
    /\ started = stopped
    /\ cid' = t
    /\ started' = started \cup {t}
    /\ looping' = looping \cup {t}
    /\ chunks' = [i \in Indices |-> NoTrack]
    /\ nextRead' = 0
    /\ UNCHANGED <<stopped, fetches>>

Stop ==
    /\ cid \in started \ stopped
    /\ stopped' = stopped \cup {cid}
    /\ UNCHANGED <<cid, started, looping, bufferVars, fetches>>

Dispatch(t, i) ==
    /\ t \in looping
    /\ fetches' = fetches \cup {[track |-> t, index |-> i]}
    /\ UNCHANGED <<cid, started, stopped, looping, bufferVars>>

\* downloadLoop sees the cancellation.
LoopReturn(t) ==
    /\ t \in looping \cap stopped
    /\ looping' = looping \ {t}
    /\ UNCHANGED <<cid, started, stopped, bufferVars, fetches>>

\* A fetch fails, or brings a chunk, which acceptChunk keeps unless its index
\* has been read or is buffered.
FetchFails(f) ==
    /\ f \in fetches
    /\ fetches' = fetches \ {f}
    /\ UNCHANGED <<cid, started, stopped, looping, bufferVars>>

acceptChunk(f) ==
    /\ f \in fetches
    /\ fetches' = fetches \ {f}
    /\ chunks' = IF f.index < nextRead \/ chunks[f.index] # NoTrack
                 THEN chunks
                 ELSE [chunks EXCEPT ![f.index] = f.track]
    /\ UNCHANGED <<cid, started, stopped, looping, nextRead>>

Read ==
    /\ nextRead \in Indices
    /\ chunks[nextRead] # NoTrack
    /\ chunks' = [chunks EXCEPT ![nextRead] = NoTrack]
    /\ nextRead' = nextRead + 1
    /\ UNCHANGED <<cid, started, stopped, looping, fetches>>

Next ==
    \/ \E t \in Tracks : StartStreaming(t) \/ LoopReturn(t)
    \/ \E t \in Tracks, i \in Indices : Dispatch(t, i)
    \/ \E f \in fetches : FetchFails(f) \/ acceptChunk(f)
    \/ Stop
    \/ Read

Spec == Init /\ [][Next]_vars

----------------------------------------------------------------------------

\* constitution.md:34: data is verified on receipt.  Every buffered chunk is
\* of the track that plays.
BufferHoldsThisTrack == \A i \in Indices : chunks[i] \in {NoTrack, cid}

=============================================================================

----------------------------- MODULE ReadBuffer -----------------------------
(***************************************************************************)
(* The half of the streaming engine guarded by e.mu                        *)
(* (internal/streaming/engine.go): the buffer between the thread that      *)
(* fetches chunks (the producer) and the one that plays them (the reader), *)
(* and the condition variable readCond both sleep on.                      *)
(*                                                                         *)
(* A chunk is abstracted to the number of parts of it still unread, so     *)
(* that a Read into a buffer smaller than the chunk is visible.            *)
(***************************************************************************)
EXTENDS Track, FiniteSets

CONSTANTS
    PartsPerChunk,      \* reads a chunk may be split into
    MaxBufferChunks,    \* maxBufferChunks, 50
    GateChunks          \* chunks WaitForChunks waits for; 0 for no wait (HTTP)

ASSUME ReadBufferAssumption ==
    /\ PartsPerChunk \in Nat \ {0}
    /\ MaxBufferChunks \in Nat \ {0}
    /\ GateChunks \in 0 .. MaxBufferChunks

VARIABLES
    chunks,       \* e.chunks: unread parts per chunk, 0 when not in the map
    nextRead,     \* e.nextRead
    received,     \* e.received: chunks accepted since the start
    done,         \* e.done
    cancelled,    \* the context of the download is cancelled
    asleep,       \* threads asleep in readCond.Wait
    readerPc      \* where the reader is

bufferVars == <<chunks, nextRead, received, done>>
readVars == <<bufferVars, cancelled, asleep, readerPc>>

Threads == {"reader", "producer"}
ReaderStages == {"gate", "reading", "eof", "missing", "closed"}

\* The state StartStreaming leaves, and a reader about to wait for its gate.
ReadBufferInit ==
    /\ chunks = [i \in Chunks |-> 0]
    /\ nextRead = 0
    /\ received = 0
    /\ done = FALSE
    /\ cancelled = FALSE
    /\ asleep = {}
    /\ readerPc = "gate"

----------------------------------------------------------------------------
(* Operations on the buffer, each under e.mu.                              *)

Buffered == {i \in Chunks : chunks[i] > 0}

BufferAhead == Cardinality({i \in Buffered : i >= nextRead})

\* The backpressure condition of the two producers.
Full == BufferAhead >= MaxBufferChunks

\* e.chunks[i] = data; e.received++
Store(i) ==
    /\ chunks' = [chunks EXCEPT ![i] = PartsPerChunk]
    /\ received' = received + 1

\* Mutants of IsDuplicate: chunks already read are not recognised; the chunk
\* the reader waits for is taken for one already read.
IsDuplicateBufferedOnly(i) == i \in Buffered
IsDuplicateOffByOne(i) == i <= nextRead \/ i \in Buffered

\* Already read, or already buffered.
IsDuplicate(i) == i < nextRead \/ i \in Buffered

\* readCond.Broadcast, and readCond.Wait up to the point where it sleeps.
Broadcast == asleep' = {}
Sleep(thread) == asleep' = asleep \cup {thread}

\* The producer has nothing more to fetch; it broadcasts after the unlock.
SetDone ==
    /\ done' = TRUE
    /\ UNCHANGED <<chunks, nextRead, received>>

----------------------------------------------------------------------------
(* The reader: WaitForChunks, then Read until it returns an error.         *)

ReaderRuns(stage) == readerPc = stage /\ "reader" \notin asleep

GateOpen == received >= GateChunks \/ done

PassGate ==
    /\ ReaderRuns("gate")
    /\ GateOpen
    /\ readerPc' = "reading"
    /\ UNCHANGED <<bufferVars, cancelled, asleep>>

\* WaitForChunks returns ctx.Err().
GateCancelled ==
    /\ ReaderRuns("gate")
    /\ ~GateOpen
    /\ cancelled
    /\ readerPc' = "closed"
    /\ UNCHANGED <<bufferVars, cancelled, asleep>>

GateWait ==
    /\ ReaderRuns("gate")
    /\ ~GateOpen
    /\ ~cancelled
    /\ Sleep("reader")
    /\ UNCHANGED <<bufferVars, cancelled, readerPc>>

\* Read returns n unread parts of the next chunk and keeps the rest.
ReadPart ==
    /\ ReaderRuns("reading")
    /\ nextRead \in Buffered
    /\ \E n \in 1 .. chunks[nextRead] - 1 :
         chunks' = [chunks EXCEPT ![nextRead] = @ - n]
    /\ UNCHANGED <<nextRead, received, done, cancelled, asleep, readerPc>>

\* Mutant of ReadRest: the producer is not signalled.
ReadRestSilently ==
    /\ ReaderRuns("reading")
    /\ nextRead \in Buffered
    /\ chunks' = [chunks EXCEPT ![nextRead] = 0]
    /\ nextRead' = nextRead + 1
    /\ UNCHANGED <<received, done, cancelled, asleep, readerPc>>

\* Read returns all that is left of the next chunk and signals the producer.
ReadRest ==
    /\ ReaderRuns("reading")
    /\ nextRead \in Buffered
    /\ chunks' = [chunks EXCEPT ![nextRead] = 0]
    /\ nextRead' = nextRead + 1
    /\ Broadcast
    /\ UNCHANGED <<received, done, cancelled, readerPc>>

ReadEOF ==
    /\ ReaderRuns("reading")
    /\ nextRead \notin Buffered
    /\ done
    /\ nextRead >= TotalChunks
    /\ readerPc' = "eof"
    /\ UNCHANGED <<bufferVars, cancelled, asleep>>

\* "chunk %d missing after download completed"
ReadMissing ==
    /\ ReaderRuns("reading")
    /\ nextRead \notin Buffered
    /\ done
    /\ nextRead < TotalChunks
    /\ readerPc' = "missing"
    /\ UNCHANGED <<bufferVars, cancelled, asleep>>

ReadWait ==
    /\ ReaderRuns("reading")
    /\ nextRead \notin Buffered
    /\ ~done
    /\ Sleep("reader")
    /\ UNCHANGED <<bufferVars, cancelled, readerPc>>

\* What the reader does by itself.
Reader ==
    \/ PassGate \/ GateCancelled \/ GateWait
    \/ ReadPart \/ ReadRest \/ ReadEOF \/ ReadMissing \/ ReadWait

----------------------------------------------------------------------------
(* What others do to the stream.                                           *)

\* Engine.Stop from another thread, the end of the HTTP request, SIGINT: the
\* context is cancelled.  Nothing is broadcast.
Cancel ==
    /\ ~cancelled
    /\ cancelled' = TRUE
    /\ UNCHANGED <<bufferVars, asleep, readerPc>>

\* The consumer gives up between two Reads and calls ReadCloser.Close.
Disconnect ==
    /\ ReaderRuns("reading")
    /\ readerPc' = "closed"
    /\ cancelled' = TRUE
    /\ UNCHANGED <<bufferVars, asleep>>

----------------------------------------------------------------------------
(* What the reader has seen of the track, as TrackReader describes it.     *)

PartsDelivered ==
    nextRead * PartsPerChunk
        + (IF nextRead \in Buffered THEN PartsPerChunk - chunks[nextRead] ELSE 0)

ReaderStatus ==
    CASE readerPc \in {"gate", "reading"} -> "open"
      [] readerPc = "eof" -> "ended"
      [] readerPc = "closed" -> "closed"
      [] readerPc = "missing" -> "broken"

Promise == INSTANCE TrackReader WITH
    position <- PartsDelivered, status <- ReaderStatus

=============================================================================

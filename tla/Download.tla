------------------------------ MODULE Download ------------------------------
(***************************************************************************)
(* Streaming a track from peers (internal/streaming/engine.go): the        *)
(* download loop, the goroutines it starts to fetch chunks, the stall      *)
(* monitor and the reader, over the scheduler and the read buffer.         *)
(*                                                                         *)
(* One action is one critical section of the code (of s.mu or e.mu) with   *)
(* the local steps next to it.  Left out: the ABR estimate, the metrics,   *)
(* the peer scores (any viable peer may be asked) and inPanic, which only  *)
(* decides what is logged and counted.  A fetch may end either way at any  *)
(* time; fetchChunk's stream is the business of ConnPool.                  *)
(***************************************************************************)
EXTENDS Scheduler, ReadBuffer

CONSTANTS
    Fetchers,    \* identities for the fetch goroutines that run at a time
    NoPeer       \* the peer of a fetcher that is not fetching

ASSUME DownloadAssumption ==
    /\ Fetchers # {}
    /\ NoPeer \notin Peers
    /\ Window <= MaxBufferChunks

VARIABLES
    loopPc,       \* where the download loop is
    requests,     \* requests NextRequests returned, not yet dispatched
    stage,        \* per fetcher, where it is
    chunk,        \* per fetcher, the chunk it fetches (0 when idle)
    source,       \* per fetcher, the peer it fetches from
    seenPos,      \* per fetcher, the nextRead it read after accepting
    monitorPc,    \* where the stall monitor is
    monitorPos    \* the nextRead it sampled

fetcherVars == <<stage, chunk, source, seenPos>>
monitorVars == <<monitorPc, monitorPos>>
vars == <<schedulerVars, congestionVars, readVars,
          loopPc, requests, fetcherVars, monitorVars>>

LoopStages == {"top", "backpressure", "schedule", "dispatch",
               "idle", "finish", "announce", "drain", "returned"}
FetchStages == {"idle", "fetching", "fetched", "accepted", "reporting"}
MonitorStages == {"tick", "reset", "returned"}
Requests == [index : Chunks, peer : Peers]

Init ==
    /\ SchedulerInit
    /\ ReadBufferInit
    /\ loopPc = "top"
    /\ requests = {}
    /\ stage = [f \in Fetchers |-> "idle"]
    /\ chunk = [f \in Fetchers |-> 0]
    /\ source = [f \in Fetchers |-> NoPeer]
    /\ seenPos = [f \in Fetchers |-> 0]
    /\ monitorPc = "tick"
    /\ monitorPos = 0

----------------------------------------------------------------------------
(* The download loop.                                                      *)

LoopOnly == UNCHANGED <<schedulerVars, congestionVars, fetcherVars, monitorVars>>

\* The context is looked at once per iteration, and only here.
LoopCheck ==
    /\ loopPc = "top"
    /\ loopPc' = IF cancelled THEN "drain" ELSE "backpressure"
    /\ LoopOnly
    /\ UNCHANGED <<readVars, requests>>

LoopWait ==
    /\ loopPc = "backpressure"
    /\ "producer" \notin asleep
    /\ Full
    /\ Sleep("producer")
    /\ LoopOnly
    /\ UNCHANGED <<bufferVars, cancelled, readerPc, loopPc, requests>>

LoopProceed ==
    /\ loopPc = "backpressure"
    /\ "producer" \notin asleep
    /\ ~Full
    /\ loopPc' = "schedule"
    /\ LoopOnly
    /\ UNCHANGED <<readVars, requests>>

LoopSchedule ==
    /\ loopPc = "schedule"
    /\ NextRequests
    /\ \E choice \in RequestChoices :
         requests' = {[index |-> i, peer |-> choice[i]] : i \in Taken}
    /\ loopPc' = IF Taken = {} THEN "idle" ELSE "dispatch"
    /\ UNCHANGED <<readVars, fetcherVars, monitorVars>>

\* wg.Add and go func, one request at a time.
LoopDispatch(f, r) ==
    /\ loopPc = "dispatch"
    /\ r \in requests
    /\ stage[f] = "idle"
    /\ stage' = [stage EXCEPT ![f] = "fetching"]
    /\ chunk' = [chunk EXCEPT ![f] = r.index]
    /\ source' = [source EXCEPT ![f] = r.peer]
    /\ requests' = requests \ {r}
    /\ loopPc' = IF requests' = {} THEN "top" ELSE "dispatch"
    /\ UNCHANGED <<schedulerVars, congestionVars, readVars, seenPos, monitorVars>>

\* Mutant of LoopIdle: one chunk short of the whole track is taken for all.
LoopIdleOneShort ==
    /\ loopPc = "idle"
    /\ loopPc' = IF received >= TotalChunks - 1 THEN "finish" ELSE "top"
    /\ LoopOnly
    /\ UNCHANGED <<readVars, requests>>

\* Nothing to request: the loop is finished, or sleeps for 50 ms.
LoopIdle ==
    /\ loopPc = "idle"
    /\ loopPc' = IF received >= TotalChunks THEN "finish" ELSE "top"
    /\ LoopOnly
    /\ UNCHANGED <<readVars, requests>>

LoopFinish ==
    /\ loopPc = "finish"
    /\ SetDone
    /\ loopPc' = "announce"
    /\ LoopOnly
    /\ UNCHANGED <<cancelled, asleep, readerPc, requests>>

LoopAnnounce ==
    /\ loopPc = "announce"
    /\ Broadcast
    /\ loopPc' = "drain"
    /\ LoopOnly
    /\ UNCHANGED <<bufferVars, cancelled, readerPc, requests>>

\* wg.Wait
LoopReturn ==
    /\ loopPc = "drain"
    /\ \A f \in Fetchers : stage[f] = "idle"
    /\ loopPc' = "returned"
    /\ LoopOnly
    /\ UNCHANGED <<readVars, requests>>

Dispatch == \E f \in Fetchers, r \in requests : LoopDispatch(f, r)

Loop ==
    \/ LoopCheck \/ LoopWait \/ LoopProceed \/ LoopSchedule
    \/ Dispatch \/ LoopIdle \/ LoopFinish \/ LoopAnnounce \/ LoopReturn

----------------------------------------------------------------------------
(* A fetch goroutine.                                                      *)

\* The goroutine of f ends.
Finish(f) ==
    /\ stage' = [stage EXCEPT ![f] = "idle"]
    /\ chunk' = [chunk EXCEPT ![f] = 0]
    /\ source' = [source EXCEPT ![f] = NoPeer]
    /\ seenPos' = [seenPos EXCEPT ![f] = 0]

\* The goroutine of f goes on to its next step.
Advance(f, next) ==
    /\ stage' = [stage EXCEPT ![f] = next]
    /\ UNCHANGED chunk

FetchFail(f) ==
    /\ stage[f] = "fetching"
    /\ MarkFailed(chunk[f], source[f])
    /\ Finish(f)
    /\ UNCHANGED <<readVars, loopPc, requests, monitorVars>>

FetchSucceed(f) ==
    /\ stage[f] = "fetching"
    /\ MarkCompleted(chunk[f])
    /\ Advance(f, "fetched")
    /\ source' = [source EXCEPT ![f] = NoPeer]
    /\ UNCHANGED <<seenPos, readVars, loopPc, requests, monitorVars>>

AcceptNew(f) ==
    /\ stage[f] = "fetched"
    /\ ~IsDuplicate(chunk[f])
    /\ Store(chunk[f])
    /\ Advance(f, "accepted")
    /\ UNCHANGED <<nextRead, done, cancelled, asleep, readerPc, source, seenPos,
                   schedulerVars, congestionVars, loopPc, requests, monitorVars>>

AcceptDuplicate(f) ==
    /\ stage[f] = "fetched"
    /\ IsDuplicate(chunk[f])
    /\ Finish(f)
    /\ UNCHANGED <<readVars, schedulerVars, congestionVars,
                   loopPc, requests, monitorVars>>

\* Mutants of Announce: the next chunk after the fetched one is reported
\* instead of the reader's; nobody is woken.
AnnounceNextChunk(f) ==
    /\ stage[f] = "accepted"
    /\ seenPos' = [seenPos EXCEPT ![f] = chunk[f] + 1]
    /\ Broadcast
    /\ Advance(f, "reporting")
    /\ UNCHANGED <<bufferVars, cancelled, readerPc, source,
                   schedulerVars, congestionVars, loopPc, requests, monitorVars>>
AnnounceSilently(f) ==
    /\ stage[f] = "accepted"
    /\ seenPos' = [seenPos EXCEPT ![f] = nextRead]
    /\ Advance(f, "reporting")
    /\ UNCHANGED <<readVars, source,
                   schedulerVars, congestionVars, loopPc, requests, monitorVars>>

\* The goroutine takes e.mu again to read nextRead, then broadcasts.
Announce(f) ==
    /\ stage[f] = "accepted"
    /\ seenPos' = [seenPos EXCEPT ![f] = nextRead]
    /\ Broadcast
    /\ Advance(f, "reporting")
    /\ UNCHANGED <<bufferVars, cancelled, readerPc, source,
                   schedulerVars, congestionVars, loopPc, requests, monitorVars>>

\* By now seenPos may be behind nextRead, and behind another fetcher's.
ReportPosition(f) ==
    /\ stage[f] = "reporting"
    /\ SetCurrentPosition(seenPos[f])
    /\ Finish(f)
    /\ UNCHANGED <<readVars, loopPc, requests, monitorVars>>

Fetcher(f) ==
    \/ FetchFail(f) \/ FetchSucceed(f) \/ AcceptNew(f)
    \/ AcceptDuplicate(f) \/ Announce(f) \/ ReportPosition(f)

----------------------------------------------------------------------------
(* The stall monitor.  Time is not modelled: a tick may find that no chunk *)
(* was accepted for stallTimeout at any moment.                            *)

MonitorOnly(next) ==
    /\ monitorPc' = next
    /\ UNCHANGED <<readVars, loopPc, requests, fetcherVars>>

MonitorSample ==
    /\ monitorPc = "tick"
    /\ ~done
    /\ monitorPos' = nextRead
    /\ MonitorOnly("reset")
    /\ UNCHANGED <<schedulerVars, congestionVars>>

MonitorReset ==
    /\ monitorPc = "reset"
    /\ ResetTo(monitorPos)
    /\ monitorPos' = 0
    /\ MonitorOnly("tick")

\* select may still choose the ticker when the context is cancelled too.
MonitorReturn ==
    /\ monitorPc = "tick"
    /\ cancelled
    /\ MonitorOnly("returned")
    /\ UNCHANGED <<schedulerVars, congestionVars, monitorPos>>

Monitor == MonitorSample \/ MonitorReset \/ MonitorReturn

----------------------------------------------------------------------------

DownloadUnchanged ==
    UNCHANGED <<schedulerVars, congestionVars,
                loopPc, requests, fetcherVars, monitorVars>>

ReaderStep == Reader /\ DownloadUnchanged
CancelStep == Cancel /\ DownloadUnchanged
DisconnectStep == Disconnect /\ DownloadUnchanged

Next ==
    \/ Loop
    \/ \E f \in Fetchers : Fetcher(f)
    \/ Monitor
    \/ ReaderStep
    \/ CancelStep
    \/ DisconnectStep

Spec == Init /\ [][Next]_vars

FetchesChunk(i) == \E f \in Fetchers : chunk[f] = i /\ FetchSucceed(f)

\* Every thread keeps running; the monitor ticks and, with no new chunk for
\* stallTimeout, resets; a chunk that is requested again and again is some day
\* delivered.  Nobody has to cancel or disconnect.
Fairness ==
    /\ WF_vars(Loop)
    /\ \A f \in Fetchers : WF_vars(Fetcher(f))
    /\ \A i \in Chunks : SF_vars(FetchesChunk(i))
    /\ WF_vars(Monitor)
    /\ WF_vars(ReaderStep)

FairSpec == Spec /\ Fairness

\* A stream that nobody cancels.
PlaySpec == Init /\ [][Next /\ ~cancelled']_vars /\ Fairness

----------------------------------------------------------------------------
(* Properties.                                                             *)

\* Type invariant of the whole engine.
TypeOK ==
    /\ CongestionTypeOK
    /\ currentPos \in Positions
    /\ inflight \subseteq Chunks
    /\ completed \subseteq Chunks
    /\ failed \in [Chunks -> SUBSET Peers]
    /\ chunks \in [Chunks -> 0 .. PartsPerChunk]
    /\ nextRead \in Positions
    /\ received \in Nat
    /\ done \in BOOLEAN
    /\ cancelled \in BOOLEAN
    /\ asleep \subseteq Threads
    /\ readerPc \in ReaderStages
    /\ loopPc \in LoopStages
    /\ requests \subseteq Requests
    /\ stage \in [Fetchers -> FetchStages]
    /\ chunk \in [Fetchers -> Chunks]
    /\ source \in [Fetchers -> Peers \cup {NoPeer}]
    /\ seenPos \in [Fetchers -> Positions]
    /\ monitorPc \in MonitorStages
    /\ monitorPos \in Positions

\* Chunk i has been read or waits in the buffer.
AtReader(i) == i < nextRead \/ chunks[i] > 0

\* acceptChunk "keeps received exact": whatever is fetched twice after a reset,
\* received counts each chunk once, read or buffered.
ReceivedExact ==
    received = Cardinality({i \in Chunks : AtReader(i)})

\* A chunk the scheduler will never request again has not been dropped on the
\* way: it was read, is buffered, or is in the hands of a fetcher about to
\* offer it to the buffer.
NoLostChunk ==
    \A i \in completed :
        \/ AtReader(i)
        \/ \E f \in Fetchers : stage[f] = "fetched" /\ chunk[f] = i

\* The stream is never cut short: once done is set every chunk not yet read
\* is in the buffer, so Read never reports a missing chunk.
NeverTruncated == done => \A i \in Chunks : AtReader(i)

\* A chunk in flight is one somebody still works on and that is not completed;
\* otherwise NextRequests would skip it for ever.
InflightIsLive ==
    \A i \in inflight :
        /\ i \notin completed
        /\ \/ \E r \in requests : r.index = i
           \/ \E f \in Fetchers : stage[f] = "fetching" /\ chunk[f] = i

\* Critical chunks bypass the cap, but by no more than the critical zone,
\* although the zone moves under chunks that are already in flight.
InflightBounded == Cardinality(inflight) <= MaxMaxInflight + CriticalEnd

\* The scheduler never works ahead of the reader, whichever stale position
\* reaches it last.
PositionBehindReader ==
    /\ currentPos <= nextRead
    /\ monitorPos <= nextRead
    /\ \A f \in Fetchers : seenPos[f] <= nextRead

\* Chunks are buffered only within a window of the reader, so the buffer is
\* bounded by what backpressure allows even though fetches in flight land
\* after the check.
BufferBounded == Cardinality(Buffered) <= MaxBufferChunks

\* Backpressure never blocks the chunk the reader needs: a full buffer holds
\* the next chunk.
FullBufferIsReadable == Full => nextRead \in Buffered

\* The two threads never sleep waiting for each other, unless a fetcher is
\* about to wake them.
NoMutualSleep ==
    asleep = Threads => \E f \in Fetchers : stage[f] = "accepted"

\* Nobody sleeps through the event it waits for: a sleeping thread whose
\* condition has come true is about to be woken.
NoLostWakeup ==
    \/ loopPc = "announce"
    \/ \E f \in Fetchers : stage[f] = "accepted"
    \/ /\ "producer" \in asleep => Full
       /\ "reader" \in asleep /\ readerPc = "gate" => ~GateOpen
       /\ "reader" \in asleep /\ readerPc = "reading" =>
            nextRead \notin Buffered /\ ~done

\* The engine is a TrackReader: whatever is fetched late, twice or after a
\* reset, the reader gets the track in order, whole and once, and EOF after it.
ImplementsTrackReader == Promise!Spec

\* A fetch in Download is one of ChunkFetch, which Protocol implements: the
\* engine asks for one chunk per goroutine and relies on no more than that the
\* call fails or returns that chunk.
CallOf(f) ==
    CASE stage[f] = "fetching" -> <<chunk[f]>>
      [] stage[f] = "fetched" -> <<chunk[f], chunk[f]>>
      [] OTHER -> << >>

Contract == INSTANCE ChunkFetch WITH
    Callers <- Fetchers, Content <- [i \in Chunks |-> i],
    call <- [f \in Fetchers |-> CallOf(f)]

ReliesOnChunkFetch == Contract!Spec

\* The whole track is eventually read if nobody cancels: failures, duplicates,
\* stalls and stale positions only delay it.
EventuallyPlayed == <>(readerPc = "eof")

\* constitution.md:46: every long-running goroutine respects cancellation.
CancelEndsLoop == cancelled ~> loopPc = "returned"

=============================================================================

--------------------------- MODULE DownloadProofs ---------------------------
(***************************************************************************)
(* Proofs about the cap of Congestion, for every floor, ceiling, window    *)
(* and run length, and about Download, for every track, window, buffer and *)
(* set of fetchers and peers.  The cap's invariant is part of Download's.  *)
(***************************************************************************)
EXTENDS Download, FiniteSetTheorems, SequenceTheorems, TLAPS

----------------------------------------------------------------------------
(* The cap: its type, its range and FailureRun together are inductive.      *)

\* The sliding window stays a sequence of outcomes no longer than the window.
LEMMA SlideType ==
    ASSUME NEW outcomes \in Seq(BOOLEAN),
           Len(outcomes) <= CongestionWindow,
           NEW success \in BOOLEAN
    PROVE  /\ Slide(outcomes, success) \in Seq(BOOLEAN)
           /\ Len(Slide(outcomes, success)) <= CongestionWindow
  <1>1. CASE Len(outcomes) < CongestionWindow
    BY <1>1, CongestionAssumption DEF Slide
  <1>2. CASE ~(Len(outcomes) < CongestionWindow)
    <2>. DEFINE a == Append(outcomes, success)
    <2>1. a \in Seq(BOOLEAN) /\ Len(a) = Len(outcomes) + 1 /\ a # << >>
      OBVIOUS
    <2>2. Tail(a) \in Seq(BOOLEAN) /\ Len(Tail(a)) = Len(a) - 1
      BY <2>1
    <2>. HIDE DEF a
    <2>3. Slide(outcomes, success) = Tail(a)
      BY <1>2 DEF Slide, a
    <2>. QED BY <2>1, <2>2, <2>3, CongestionAssumption
  <1>. QED BY <1>1, <1>2

\* One more failure lengthens the run of failures at the end of the window,
\* as long as the window can hold it.
LEMMA SlideFailure ==
    ASSUME NEW outcomes \in Seq(BOOLEAN),
           Len(outcomes) <= CongestionWindow,
           NEW n \in Nat, n < CongestionWindow,
           EndsInFailures(outcomes, n)
    PROVE  EndsInFailures(Slide(outcomes, FALSE), n + 1)
  <1>. DEFINE a == Append(outcomes, FALSE)
  <1>1. /\ a \in Seq(BOOLEAN)
        /\ Len(a) = Len(outcomes) + 1
        /\ a # << >>
        /\ DOMAIN a = 1 .. Len(a)
        /\ \A k \in 1 .. Len(outcomes) : a[k] = outcomes[k]
        /\ a[Len(outcomes) + 1] = FALSE
    <2>1. /\ a \in Seq(BOOLEAN)
          /\ Len(a) = Len(outcomes) + 1
          /\ a # << >>
      BY AppendProperties, FALSE \in BOOLEAN
    <2>2. \A k \in 1 .. Len(outcomes) : a[k] = outcomes[k]
      BY AppendProperties, FALSE \in BOOLEAN
    <2>3. a[Len(outcomes) + 1] = FALSE
      BY AppendProperties, FALSE \in BOOLEAN
    <2>4. DOMAIN a = 1 .. Len(a)
      BY <2>1
    <2>. QED BY <2>1, <2>2, <2>3, <2>4
  <1>2. /\ n + 1 <= Len(a)
        /\ \A k \in DOMAIN a : k > Len(a) - (n + 1) => ~a[k]
    <2>1. n <= Len(outcomes)
      BY DEF EndsInFailures
    <2>2. \A k \in 1 .. Len(outcomes) : k > Len(outcomes) - n => ~outcomes[k]
      BY DEF EndsInFailures
    <2>. HIDE DEF a
    <2>. QED BY <1>1, <2>1, <2>2
  <1>3. CASE Len(outcomes) < CongestionWindow
    BY <1>2, <1>3 DEF Slide, EndsInFailures
  <1>4. CASE ~(Len(outcomes) < CongestionWindow)
    <2>. DEFINE t == Tail(a)
    <2>1. /\ t \in Seq(BOOLEAN)
          /\ Len(t) = Len(a) - 1
          /\ DOMAIN t = 1 .. Len(t)
          /\ \A k \in 1 .. Len(t) : t[k] = a[k + 1]
      <3>. HIDE DEF a
      <3>. QED BY <1>1, HeadTailProperties
    <2>2. Slide(outcomes, FALSE) = t
      BY <1>4 DEF Slide
    <2>3. Len(outcomes) = CongestionWindow
      BY <1>4, CongestionAssumption
    <2>. HIDE DEF a, t
    <2>4. n + 1 <= Len(t)
      BY <1>1, <2>1, <2>3, CongestionAssumption
    <2>5. \A k \in DOMAIN t : k > Len(t) - (n + 1) => ~t[k]
      <3>1. TAKE k \in DOMAIN t
      <3>2. HAVE k > Len(t) - (n + 1)
      <3>3. k + 1 \in DOMAIN a /\ k + 1 > Len(a) - (n + 1)
        BY <1>1, <2>1, <3>1, <3>2
      <3>. QED BY <1>2, <2>1, <3>1, <3>3
    <2>. QED BY <2>2, <2>4, <2>5 DEF EndsInFailures
  <1>. QED BY <1>3, <1>4

----------------------------------------------------------------------------

\* The empty run of failures is at the end of any window.
LEMMA EmptyRun ==
    ASSUME NEW outcomes \in Seq(BOOLEAN)
    PROVE  EndsInFailures(outcomes, 0)
  <1>1. Len(outcomes) \in Nat /\ DOMAIN outcomes = 1 .. Len(outcomes)
    OBVIOUS
  <1>. QED BY <1>1 DEF EndsInFailures

----------------------------------------------------------------------------

CongestionInv == CongestionTypeOK /\ CapInRange /\ FailureRun

\* Halving keeps the cap at or above the floor and does not raise it.
LEMMA HalvedInRange ==
    ASSUME NEW limit \in MinMaxInflight .. MaxMaxInflight
    PROVE  /\ Halved(limit) \in MinMaxInflight .. MaxMaxInflight
           /\ Halved(limit) <= limit
  BY CongestionAssumption DEF Halved

LEMMA CongestionInitInv == CongestionInit => CongestionInv
  <1>. SUFFICES ASSUME CongestionInit PROVE CongestionInv
    OBVIOUS
  <1>1. recentOutcomes \in Seq(BOOLEAN) /\ Len(recentOutcomes) = 0
    BY DEF CongestionInit
  <1>2. CongestionTypeOK /\ CapInRange
    BY <1>1, CongestionAssumption
    DEF CongestionInit, CongestionTypeOK, CapInRange
  <1>3. FailureRun
    BY <1>1, EmptyRun DEF CongestionInit, FailureRun
  <1>. QED BY <1>2, <1>3 DEF CongestionInv

\* A failure preserves the invariant, and a cap it lowers was lowered by a full
\* run of failures.
LEMMA RecordFailureInv ==
    ASSUME CongestionInv, RecordFailure
    PROVE  /\ CongestionInv'
           /\ maxInflight' < maxInflight
                => EndsInFailures(recentOutcomes', FailuresToHalve)
  <1>. USE DEF CongestionInv, CongestionTypeOK
  <1>1. /\ recentOutcomes' = Slide(recentOutcomes, FALSE)
        /\ recentOutcomes' \in Seq(BOOLEAN)
        /\ Len(recentOutcomes') <= CongestionWindow
    BY SlideType DEF RecordFailure
  <1>2. EndsInFailures(recentOutcomes', consecutiveFail + 1)
    <2>1. consecutiveFail \in Nat /\ consecutiveFail < CongestionWindow
      BY CongestionAssumption
    <2>. QED BY <1>1, <2>1, SlideFailure DEF FailureRun
  <1>3. CASE consecutiveFail + 1 >= FailuresToHalve
    <2>1. /\ maxInflight' = Halved(maxInflight)
          /\ consecutiveFail' = 0
          /\ consecutiveFail + 1 = FailuresToHalve
      BY <1>3, CongestionAssumption DEF RecordFailure
    <2>2. CongestionTypeOK' /\ CapInRange'
      <3>1. maxInflight' \in MinMaxInflight .. MaxMaxInflight
        BY <2>1, HalvedInRange DEF CapInRange
      <3>2. maxInflight' \in Nat /\ consecutiveFail' \in 0 .. FailuresToHalve - 1
        BY <2>1, <3>1, CongestionAssumption
      <3>. QED BY <1>1, <3>1, <3>2 DEF CapInRange
    <2>3. FailureRun'
      BY <1>1, <2>1, EmptyRun DEF FailureRun
    <2>. QED BY <1>2, <2>1, <2>2, <2>3
  <1>4. CASE consecutiveFail + 1 < FailuresToHalve
    <2>1. /\ maxInflight' = maxInflight
          /\ consecutiveFail' = consecutiveFail + 1
      BY <1>4, CongestionAssumption DEF RecordFailure
    <2>2. CongestionTypeOK' /\ CapInRange'
      <3>1. consecutiveFail' \in 0 .. FailuresToHalve - 1
        BY <1>4, <2>1, CongestionAssumption
      <3>. QED BY <1>1, <2>1, <3>1 DEF CapInRange
    <2>3. FailureRun'
      BY <1>2, <2>1 DEF FailureRun
    <2>. QED BY <2>1, <2>2, <2>3
  <1>. QED BY <1>3, <1>4, CongestionAssumption

\* A success preserves the invariant and never lowers the cap.
LEMMA RecordSuccessInv ==
    ASSUME CongestionInv, RecordSuccess
    PROVE  CongestionInv' /\ maxInflight' >= maxInflight
  <1>. USE DEF CongestionInv, CongestionTypeOK
  <1>1. /\ recentOutcomes' \in Seq(BOOLEAN)
        /\ Len(recentOutcomes') <= CongestionWindow
    BY SlideType DEF RecordSuccess
  <1>2. /\ consecutiveFail' = 0
        /\ \/ maxInflight' = maxInflight
           \/ maxInflight' = maxInflight + 1 /\ maxInflight < MaxMaxInflight
    BY DEF RecordSuccess
  <1>3. /\ maxInflight' \in MinMaxInflight .. MaxMaxInflight
        /\ maxInflight' \in Nat
        /\ maxInflight' >= maxInflight
        /\ consecutiveFail' \in 0 .. FailuresToHalve - 1
    BY <1>2, CongestionAssumption DEF CapInRange
  <1>4. FailureRun'
    BY <1>1, <1>2, EmptyRun DEF FailureRun
  <1>. QED BY <1>1, <1>3, <1>4 DEF CapInRange

\* Whatever the outcome recorded; this is what the scheduler's proofs use.
LEMMA RecordOutcomeInv ==
    ASSUME CongestionInv, NEW success \in BOOLEAN, RecordOutcome(success)
    PROVE  CongestionInv'
  BY RecordFailureInv, RecordSuccessInv DEF RecordOutcome

LEMMA CongestionStutter ==
    ASSUME CongestionInv, UNCHANGED congestionVars
    PROVE  CongestionInv'
  BY DEF congestionVars, CongestionInv, CongestionTypeOK, CapInRange,
         FailureRun, EndsInFailures

----------------------------------------------------------------------------

\* The congestion control keeps its type, its range and its count of failures.
THEOREM CongestionCorrect ==
    CongestionSpec => [](CongestionTypeOK /\ CapInRange /\ FailureRun)
  <1>1. CongestionInit => CongestionInv
    BY CongestionInitInv
  <1>2. CongestionInv /\ [CongestionNext]_congestionVars => CongestionInv'
    BY RecordOutcomeInv, CongestionStutter DEF CongestionNext
  <1>3. CongestionInv => CongestionTypeOK /\ CapInRange /\ FailureRun
    BY DEF CongestionInv
  <1>. QED BY <1>1, <1>2, <1>3, PTL DEF CongestionSpec

\* A step of the congestion control lowers the cap at the end of a run of failures.
LEMMA HalvingStep ==
    ASSUME CongestionInv, [CongestionNext]_congestionVars
    PROVE  [maxInflight' < maxInflight
              => EndsInFailures(recentOutcomes', FailuresToHalve)]_congestionVars
  <1>. SUFFICES ASSUME CongestionNext, maxInflight' < maxInflight
                PROVE  EndsInFailures(recentOutcomes', FailuresToHalve)
    OBVIOUS
  <1>1. PICK success \in BOOLEAN : RecordOutcome(success)
    BY DEF CongestionNext
  <1>2. CASE success
    BY <1>1, <1>2, RecordSuccessInv DEF RecordOutcome, CongestionInv, CongestionTypeOK
  <1>3. CASE ~success
    BY <1>1, <1>3, RecordFailureInv DEF RecordOutcome
  <1>. QED BY <1>2, <1>3

\* Only a run of failures lowers the cap.
THEOREM HalvingIsEarned == CongestionSpec => HalvedOnlyByFailureRun
  <1>1. CongestionInit => CongestionInv
    BY CongestionInitInv
  <1>2. CongestionInv /\ [CongestionNext]_congestionVars => CongestionInv'
    BY RecordOutcomeInv, CongestionStutter DEF CongestionNext
  <1>. QED BY <1>1, <1>2, HalvingStep, PTL DEF CongestionSpec, HalvedOnlyByFailureRun

----------------------------------------------------------------------------
(* Types.                                                                  *)

\* A fetcher that is fetching has a peer to blame when it fails.
SourceIsPeer == \A f \in Fetchers : stage[f] = "fetching" => source[f] \in Peers

TypeInv == TypeOK /\ CongestionInv /\ SourceIsPeer

\* Zero is an index and a position of every track.
LEMMA ZeroIsIndex == 0 \in Chunks /\ 0 \in Positions
  BY TrackAssumption DEF Chunks, Positions

LEMMA TypeInit == Init => TypeInv
  <1>. SUFFICES ASSUME Init PROVE TypeInv
    OBVIOUS
  <1>1. CongestionInv
    BY CongestionInitInv DEF Init, SchedulerInit
  <1>2. SourceIsPeer
    BY DEF Init, SourceIsPeer
  <1>3. TypeOK
    <2>1. CongestionTypeOK
      BY <1>1 DEF CongestionInv
    <2>2. /\ failed \in [Chunks -> SUBSET Peers]
          /\ chunks \in [Chunks -> 0 .. PartsPerChunk]
      BY ReadBufferAssumption DEF Init, SchedulerInit, ReadBufferInit
    <2>3. /\ stage \in [Fetchers -> FetchStages]
          /\ chunk \in [Fetchers -> Chunks]
          /\ source \in [Fetchers -> Peers \cup {NoPeer}]
          /\ seenPos \in [Fetchers -> Positions]
      BY ZeroIsIndex DEF Init, FetchStages
    <2>. QED
      BY <2>1, <2>2, <2>3, ZeroIsIndex
      DEF Init, SchedulerInit, ReadBufferInit, TypeOK, ReaderStages,
          LoopStages, MonitorStages
  <1>. QED BY <1>1, <1>2, <1>3 DEF TypeInv

\* The variables of the congestion control change only by RecordOutcome.
LEMMA CongestionFrame == [Next]_vars => [CongestionNext]_congestionVars
  <1>. SUFFICES ASSUME [Next]_vars
                PROVE  \/ UNCHANGED congestionVars
                       \/ \E success \in BOOLEAN : RecordOutcome(success)
    BY DEF CongestionNext
  <1>1. CASE Loop
    BY <1>1
    DEF Loop, Dispatch, LoopCheck, LoopWait, LoopProceed, LoopSchedule, LoopDispatch,
        LoopIdle, LoopFinish, LoopAnnounce, LoopReturn, LoopOnly, NextRequests
  <1>2. ASSUME NEW f \in Fetchers, Fetcher(f)
        PROVE  \/ UNCHANGED congestionVars
               \/ \E success \in BOOLEAN : RecordOutcome(success)
    BY <1>2
    DEF Fetcher, FetchFail, FetchSucceed, AcceptNew, AcceptDuplicate, Announce,
        ReportPosition, MarkFailed, MarkCompleted, SetCurrentPosition
  <1>3. CASE Monitor
    BY <1>3 DEF Monitor, MonitorSample, MonitorReset, MonitorReturn, ResetTo
  <1>4. CASE ReaderStep \/ CancelStep \/ DisconnectStep \/ UNCHANGED vars
    BY <1>4 DEF ReaderStep, CancelStep, DisconnectStep, DownloadUnchanged, vars
  <1>. QED BY <1>1, <1>2, <1>3, <1>4 DEF Next

LEMMA CongestionNextInv ==
    ASSUME CongestionInv, [Next]_vars
    PROVE  CongestionInv'
  BY CongestionFrame, CongestionStutter, RecordOutcomeInv DEF CongestionNext

\* A step of the download loop keeps the types.
LEMMA LoopType ==
    ASSUME TypeInv, Loop, CongestionInv'
    PROVE  TypeInv'
  <1>. USE DEF TypeInv, TypeOK, SourceIsPeer
  <1>0. CongestionTypeOK'
    BY DEF CongestionInv
  <1>1. CASE LoopCheck \/ LoopProceed \/ LoopIdle \/ LoopReturn
    BY <1>0, <1>1
    DEF LoopCheck, LoopProceed, LoopIdle, LoopReturn, LoopOnly, LoopStages,
        schedulerVars, readVars, bufferVars, fetcherVars, monitorVars
  <1>2. CASE LoopWait \/ LoopFinish \/ LoopAnnounce
    BY <1>0, <1>2
    DEF LoopWait, LoopFinish, LoopAnnounce, LoopOnly, LoopStages, Sleep, Threads,
        SetDone, Broadcast, schedulerVars, bufferVars, fetcherVars, monitorVars
  <1>3. CASE LoopSchedule
    <2>1. inflight' \subseteq Chunks /\ failed' \in [Chunks -> SUBSET Peers]
      BY <1>3 DEF LoopSchedule, NextRequests, Taken, Candidates
    <2>2. requests' \subseteq Requests
      <3>1. PICK choice \in RequestChoices :
              requests' = {[index |-> i, peer |-> choice[i]] : i \in Taken}
        BY <1>3 DEF LoopSchedule
      <3>2. Taken \subseteq Chunks /\ choice \in [Taken -> Peers]
        BY DEF RequestChoices, Taken, Candidates
      <3>. QED BY <3>1, <3>2 DEF Requests
    <2>. QED
      BY <1>0, <1>3, <2>1, <2>2
      DEF LoopSchedule, NextRequests, LoopStages, readVars, bufferVars,
          fetcherVars, monitorVars
  <1>4. CASE Dispatch
    <2>1. PICK f \in Fetchers, r \in requests : LoopDispatch(f, r)
      BY <1>4 DEF Dispatch
    <2>2. r.index \in Chunks /\ r.peer \in Peers
      BY DEF Requests
    <2>. QED
      BY <1>0, <2>1, <2>2
      DEF LoopDispatch, LoopStages, FetchStages, schedulerVars, readVars,
          bufferVars, monitorVars
  <1>. QED BY <1>1, <1>2, <1>3, <1>4 DEF Loop

\* A step of a fetcher keeps the types.
LEMMA FetcherType ==
    ASSUME TypeInv, NEW f \in Fetchers, Fetcher(f), CongestionInv'
    PROVE  TypeInv'
  <1>. USE DEF TypeInv, TypeOK, SourceIsPeer
  <1>0. CongestionTypeOK'
    BY DEF CongestionInv
  <1>1. CASE FetchFail(f)
    <2>1. failed' \in [Chunks -> SUBSET Peers]
      BY <1>1 DEF FetchFail, MarkFailed
    <2>. QED
      BY <1>0, <1>1, <2>1, ZeroIsIndex
      DEF FetchFail, MarkFailed, Finish, FetchStages, readVars, bufferVars,
          monitorVars
  <1>2. CASE FetchSucceed(f)
    BY <1>0, <1>2
    DEF FetchSucceed, MarkCompleted, Advance, FetchStages, readVars, bufferVars,
        monitorVars
  <1>3. CASE AcceptNew(f)
    <2>1. /\ chunks' \in [Chunks -> 0 .. PartsPerChunk]
          /\ received' \in Nat
      BY <1>3, ReadBufferAssumption DEF AcceptNew, Store
    <2>. QED
      BY <1>0, <1>3, <2>1
      DEF AcceptNew, Advance, FetchStages, schedulerVars, monitorVars
  <1>4. CASE AcceptDuplicate(f)
    BY <1>0, <1>4, ZeroIsIndex
    DEF AcceptDuplicate, Finish, FetchStages, schedulerVars, readVars,
        bufferVars, monitorVars
  <1>5. CASE Announce(f)
    BY <1>0, <1>5
    DEF Announce, Broadcast, Advance, FetchStages, schedulerVars, bufferVars,
        monitorVars
  <1>6. CASE ReportPosition(f)
    BY <1>0, <1>6, ZeroIsIndex
    DEF ReportPosition, SetCurrentPosition, Finish, FetchStages, readVars,
        bufferVars, monitorVars
  <1>. QED BY <1>1, <1>2, <1>3, <1>4, <1>5, <1>6 DEF Fetcher

\* A step of the stall monitor keeps the types.
LEMMA MonitorType ==
    ASSUME TypeInv, Monitor, CongestionInv'
    PROVE  TypeInv'
  BY ZeroIsIndex
  DEF TypeInv, TypeOK, SourceIsPeer, CongestionInv, Monitor, MonitorSample,
      MonitorReset, MonitorReturn, MonitorOnly, MonitorStages, ResetTo,
      schedulerVars, readVars, bufferVars, fetcherVars

\* A step of the reader, a cancellation or a disconnection keeps the types.
LEMMA ReaderType ==
    ASSUME TypeInv, ReaderStep \/ CancelStep \/ DisconnectStep, CongestionInv'
    PROVE  TypeInv'
  <1>. USE DEF TypeInv, TypeOK, SourceIsPeer
  <1>0. CongestionTypeOK' /\ SourceIsPeer'
    BY DEF CongestionInv, ReaderStep, CancelStep, DisconnectStep,
           DownloadUnchanged, fetcherVars
  <1>1. /\ chunks' \in [Chunks -> 0 .. PartsPerChunk]
        /\ nextRead' \in Positions
        /\ received' = received
    <2>1. CASE ReadPart
      <3>1. PICK n \in 1 .. chunks[nextRead] - 1 :
              chunks' = [chunks EXCEPT ![nextRead] = @ - n]
        BY <2>1 DEF ReadPart
      <3>2. nextRead \in Chunks
        BY <2>1 DEF ReadPart, Buffered
      <3>3. chunks[nextRead] - n \in 0 .. PartsPerChunk
        BY <3>2, ReadBufferAssumption
      <3>. QED BY <2>1, <3>1, <3>3 DEF ReadPart
    <2>2. CASE ReadRest
      <3>1. nextRead + 1 \in Positions
        BY <2>2, TrackAssumption DEF ReadRest, Buffered, Chunks, Positions
      <3>2. 0 \in 0 .. PartsPerChunk
        BY ReadBufferAssumption
      <3>. QED BY <2>2, <3>1, <3>2 DEF ReadRest
    <2>3. CASE UNCHANGED <<chunks, nextRead, received>>
      BY <2>3
    <2>. QED
      BY <2>1, <2>2, <2>3
      DEF ReaderStep, Reader, CancelStep, DisconnectStep, PassGate, GateCancelled,
          GateWait, ReadEOF, ReadMissing, ReadWait, Cancel, Disconnect, bufferVars
  <1>2. /\ done' = done
        /\ cancelled' \in BOOLEAN
        /\ asleep' \subseteq Threads
        /\ readerPc' \in ReaderStages
    BY DEF ReaderStep, Reader, CancelStep, DisconnectStep, PassGate, GateCancelled,
           GateWait, ReadPart, ReadRest, ReadEOF, ReadMissing, ReadWait, Cancel,
           Disconnect, bufferVars, ReaderStages, Threads, Sleep, Broadcast
  <1>. QED
    BY <1>0, <1>1, <1>2
    DEF ReaderStep, CancelStep, DisconnectStep, DownloadUnchanged, schedulerVars,
        fetcherVars, monitorVars

LEMMA TypeStep ==
    ASSUME TypeInv, [Next]_vars
    PROVE  TypeInv'
  <1>1. CongestionInv'
    BY CongestionNextInv DEF TypeInv
  <1>2. CASE UNCHANGED vars
    BY <1>1, <1>2
    DEF TypeInv, TypeOK, CongestionInv, SourceIsPeer, vars, schedulerVars,
        readVars, bufferVars, fetcherVars, monitorVars
  <1>. QED
    BY <1>1, <1>2, LoopType, FetcherType, MonitorType, ReaderType DEF Next

\* Every variable of the engine stays in its type: indices are chunks of the
\* track, positions do not pass its end, a failure is blamed on a peer.
THEOREM DownloadTypeCorrect == Spec => []TypeOK
  <1>1. Init => TypeInv
    BY TypeInit
  <1>2. TypeInv /\ [Next]_vars => TypeInv'
    BY TypeStep
  <1>3. TypeInv => TypeOK
    BY DEF TypeInv
  <1>. QED BY <1>1, <1>2, <1>3, PTL DEF Spec

\* The cap of the running engine, with its loop, fetches, resets and stale
\* positions, is the congestion control alone: it moves only by outcomes.
THEOREM EngineMovesTheCap ==
    Spec => CongestionInit /\ [][CongestionNext]_congestionVars
  <1>1. Init => CongestionInit
    BY DEF Init, SchedulerInit
  <1>. QED BY <1>1, CongestionFrame, PTL DEF Spec

\* So the engine halves it only at the end of a run of failed fetches.
THEOREM EngineHalvesOnFailures == Spec => HalvedOnlyByFailureRun
  <1>1. CongestionInit => CongestionInv
    BY CongestionInitInv
  <1>2. CongestionInv /\ [CongestionNext]_congestionVars => CongestionInv'
    BY RecordOutcomeInv, CongestionStutter DEF CongestionNext
  <1>. QED
    BY EngineMovesTheCap, <1>1, <1>2, HalvingStep, PTL DEF HalvedOnlyByFailureRun

----------------------------------------------------------------------------
(* How a step can change a fetcher and what has reached the reader.        *)

FetcherUnchanged(f) ==
    /\ stage'[f] = stage[f]
    /\ chunk'[f] = chunk[f]
    /\ source'[f] = source[f]
    /\ seenPos'[f] = seenPos[f]

\* Only its own steps and its dispatch change a fetcher.
LEMMA FetcherFrame ==
    ASSUME TypeInv, [Next]_vars, NEW f \in Fetchers
    PROVE  \/ Fetcher(f)
           \/ \E r \in requests : LoopDispatch(f, r)
           \/ FetcherUnchanged(f)
  <1>. USE DEF TypeInv, TypeOK, FetcherUnchanged
  <1>1. CASE Loop
    BY <1>1
    DEF Loop, Dispatch, LoopCheck, LoopWait, LoopProceed, LoopSchedule, LoopDispatch,
        LoopIdle, LoopFinish, LoopAnnounce, LoopReturn, LoopOnly, fetcherVars
  <1>2. ASSUME NEW g \in Fetchers, Fetcher(g)
        PROVE  Fetcher(f) \/ FetcherUnchanged(f)
    BY <1>2
    DEF Fetcher, FetchFail, FetchSucceed, AcceptNew, AcceptDuplicate, Announce,
        ReportPosition, Finish, Advance
  <1>3. CASE Monitor
    BY <1>3
    DEF Monitor, MonitorSample, MonitorReset, MonitorReturn, MonitorOnly, fetcherVars
  <1>4. CASE ReaderStep \/ CancelStep \/ DisconnectStep \/ UNCHANGED vars
    BY <1>4
    DEF ReaderStep, CancelStep, DisconnectStep, DownloadUnchanged, vars, fetcherVars
  <1>. QED BY <1>1, <1>2, <1>3, <1>4 DEF Next

\* Only AcceptNew and a completed Read change the buffer or the position.
LEMMA BufferFrame ==
    ASSUME [Next]_vars
    PROVE  \/ \E f \in Fetchers : AcceptNew(f)
           \/ ReaderStep /\ (ReadPart \/ ReadRest)
           \/ UNCHANGED <<chunks, nextRead, received>>
  <1>1. CASE Loop
    BY <1>1
    DEF Loop, Dispatch, LoopCheck, LoopWait, LoopProceed, LoopSchedule, LoopDispatch,
        LoopIdle, LoopFinish, LoopAnnounce, LoopReturn, SetDone, readVars, bufferVars
  <1>2. ASSUME NEW f \in Fetchers, Fetcher(f)
        PROVE  AcceptNew(f) \/ UNCHANGED <<chunks, nextRead, received>>
    BY <1>2
    DEF Fetcher, FetchFail, FetchSucceed, AcceptDuplicate, Announce,
        ReportPosition, readVars, bufferVars
  <1>3. CASE Monitor
    BY <1>3
    DEF Monitor, MonitorSample, MonitorReset, MonitorReturn, MonitorOnly, readVars,
        bufferVars
  <1>4. CASE ReaderStep
    BY <1>4
    DEF ReaderStep, Reader, PassGate, GateCancelled, GateWait, ReadEOF, ReadMissing,
        ReadWait, bufferVars
  <1>5. CASE CancelStep \/ DisconnectStep \/ UNCHANGED vars
    BY <1>5
    DEF CancelStep, DisconnectStep, Cancel, Disconnect, vars, readVars, bufferVars
  <1>. QED BY <1>1, <1>2, <1>3, <1>4, <1>5 DEF Next

\* A Read keeps every chunk at the reader: the one it finishes is behind
\* nextRead from then on.
LEMMA ReadKeepsChunks ==
    ASSUME TypeInv, ReadPart \/ ReadRest
    PROVE  /\ \A i \in Chunks : AtReader(i)' <=> AtReader(i)
           /\ received' = received
           /\ nextRead' >= nextRead
           /\ \A i \in Chunks : chunks'[i] > 0 => chunks[i] > 0
           /\ nextRead' # nextRead => chunks'[nextRead] = 0
           /\ nextRead' \in {nextRead, nextRead + 1}
  <1>. USE DEF TypeInv, TypeOK
  <1>0. nextRead \in Nat /\ Chunks \subseteq Nat
    BY TrackAssumption DEF Chunks, Positions
  <1>1. CASE ReadPart
    <2>1. PICK n \in 1 .. chunks[nextRead] - 1 :
            chunks' = [chunks EXCEPT ![nextRead] = @ - n]
      BY <1>1 DEF ReadPart
    <2>2. nextRead \in Chunks /\ chunks[nextRead] - n > 0
      BY <1>1, <2>1, ReadBufferAssumption DEF ReadPart, Buffered
    <2>3. \A i \in Chunks : chunks'[i] > 0 <=> chunks[i] > 0
      BY <2>1, <2>2, ReadBufferAssumption
    <2>. QED BY <1>0, <1>1, <2>3 DEF ReadPart, AtReader
  <1>2. CASE ReadRest
    <2>1. /\ chunks' = [chunks EXCEPT ![nextRead] = 0]
          /\ nextRead' = nextRead + 1
          /\ received' = received
          /\ nextRead \in Chunks
          /\ chunks[nextRead] > 0
      BY <1>2 DEF ReadRest, Buffered
    <2>. QED BY <1>0, <2>1 DEF AtReader
  <1>. QED BY <1>1, <1>2

\* What AcceptNew does to the chunk it accepts, and to the others.
LEMMA AcceptAddsChunk ==
    ASSUME TypeInv, NEW f \in Fetchers, AcceptNew(f),
           NEW i \in Chunks, i = chunk[f]
    PROVE  /\ ~AtReader(i)
           /\ AtReader(i)'
           /\ \A j \in Chunks \ {i} : AtReader(j)' <=> AtReader(j)
           /\ received' = received + 1
           /\ nextRead' = nextRead
  <1>. USE DEF TypeInv, TypeOK
  <1>1. /\ chunks' = [chunks EXCEPT ![i] = PartsPerChunk]
        /\ received' = received + 1
        /\ nextRead' = nextRead
        /\ ~(i < nextRead) /\ i \notin Buffered
    BY DEF AcceptNew, IsDuplicate, Store
  <1>2. chunks'[i] > 0 /\ \A j \in Chunks \ {i} : chunks'[j] = chunks[j]
    BY <1>1, ReadBufferAssumption
  <1>. QED BY <1>1, <1>2 DEF AtReader, Buffered

\* What has reached the reader is never lost.
LEMMA AtReaderKept ==
    ASSUME TypeInv, [Next]_vars, NEW i \in Chunks, AtReader(i)
    PROVE  AtReader(i)'
  <1>1. CASE UNCHANGED <<chunks, nextRead, received>>
    BY <1>1 DEF AtReader
  <1>2. ASSUME NEW f \in Fetchers, AcceptNew(f)
        PROVE  AtReader(i)'
    <2>1. chunk[f] \in Chunks
      BY DEF TypeInv, TypeOK
    <2>. QED BY <1>2, <2>1, AcceptAddsChunk
  <1>. QED BY <1>1, <1>2, BufferFrame, ReadKeepsChunks

----------------------------------------------------------------------------
(* Delivery: no chunk is lost, each is counted once, the end is the end.   *)

LEMMA NoLostChunkStep ==
    ASSUME TypeInv, NoLostChunk, [Next]_vars
    PROVE  NoLostChunk'
  <1>. SUFFICES ASSUME NEW i \in completed', ~AtReader(i)'
                PROVE  \E f \in Fetchers : stage'[f] = "fetched" /\ chunk'[f] = i
    BY DEF NoLostChunk
  <1>1. i \in Chunks
    BY TypeStep DEF TypeInv, TypeOK
  <1>2. CASE i \in completed
    <2>1. PICK f \in Fetchers : stage[f] = "fetched" /\ chunk[f] = i
      BY <1>1, <1>2, AtReaderKept DEF NoLostChunk
    <2>2. ~AcceptNew(f)
      BY <1>1, <2>1, AcceptAddsChunk
    <2>3. ~AcceptDuplicate(f)
      <3>1. ASSUME AcceptDuplicate(f) PROVE AtReader(i)
        BY <2>1, <3>1 DEF AcceptDuplicate, IsDuplicate, Buffered, AtReader
      <3>. QED BY <1>1, <3>1, AtReaderKept
    <2>4. FetcherUnchanged(f)
      BY <2>1, <2>2, <2>3, FetcherFrame
      DEF Fetcher, FetchFail, FetchSucceed, Announce, ReportPosition, LoopDispatch
    <2>. QED BY <2>1, <2>4 DEF FetcherUnchanged
  <1>3. CASE i \notin completed
    <2>1. PICK f \in Fetchers : FetchSucceed(f) /\ i = chunk[f]
      <3>1. CASE Loop
        BY <1>3, <3>1
        DEF Loop, Dispatch, LoopCheck, LoopWait, LoopProceed, LoopSchedule,
            LoopDispatch, LoopIdle, LoopFinish, LoopAnnounce, LoopReturn, LoopOnly,
            NextRequests, schedulerVars
      <3>2. ASSUME NEW f \in Fetchers, Fetcher(f)
            PROVE  FetchSucceed(f) /\ i = chunk[f]
        BY <1>3, <3>2
        DEF Fetcher, FetchFail, FetchSucceed, AcceptNew, AcceptDuplicate, Announce,
            ReportPosition, MarkFailed, MarkCompleted, SetCurrentPosition, schedulerVars
      <3>3. CASE Monitor
        BY <1>3, <3>3
        DEF Monitor, MonitorSample, MonitorReset, MonitorReturn, ResetTo, schedulerVars
      <3>4. CASE ReaderStep \/ CancelStep \/ DisconnectStep \/ UNCHANGED vars
        BY <1>3, <3>4
        DEF ReaderStep, CancelStep, DisconnectStep, DownloadUnchanged, vars,
            schedulerVars
      <3>. QED BY <3>1, <3>2, <3>3, <3>4 DEF Next
    <2>. QED BY <2>1 DEF FetchSucceed, Advance, TypeInv, TypeOK
  <1>. QED BY <1>2, <1>3

\* Chunks read or buffered; ReceivedExact counts them.
Here == {i \in Chunks : AtReader(i)}

LEMMA ChunksFinite ==
    /\ IsFiniteSet(Chunks)
    /\ Cardinality(Chunks) = TotalChunks
    /\ \A S \in SUBSET Chunks :
         /\ IsFiniteSet(S)
         /\ Cardinality(S) \in Nat
         /\ Cardinality(S) <= TotalChunks
         /\ Cardinality(S) = TotalChunks => S = Chunks
  <1>1. IsFiniteSet(Chunks) /\ Cardinality(Chunks) = TotalChunks
    BY FS_Interval, TrackAssumption DEF Chunks
  <1>. QED BY <1>1, FS_Subset, FS_CardinalityType

LEMMA ReceivedStep ==
    ASSUME TypeInv, ReceivedExact, [Next]_vars
    PROVE  ReceivedExact'
  <1>0. received = Cardinality(Here)
    BY DEF ReceivedExact, Here
  <1>. SUFFICES received' = Cardinality(Here')
    BY DEF ReceivedExact, Here
  <1>1. ASSUME NEW f \in Fetchers, AcceptNew(f)
        PROVE  received' = Cardinality(Here')
    <2>. DEFINE i == chunk[f]
    <2>1. i \in Chunks
      BY DEF TypeInv, TypeOK
    <2>. HIDE DEF i
    <2>2. /\ i \notin Here
          /\ Here' = Here \cup {i}
          /\ received' = received + 1
      <3>1. i = chunk[f]
        BY DEF i
      <3>. QED BY <1>1, <2>1, <3>1, AcceptAddsChunk DEF Here
    <2>3. Here \in SUBSET Chunks
      BY DEF Here
    <2>. QED BY <1>0, <2>2, <2>3, FS_AddElement, ChunksFinite
  <1>2. CASE ReadPart \/ ReadRest
    <2>1. Here' = Here /\ received' = received
      BY <1>2, ReadKeepsChunks DEF Here
    <2>. QED BY <1>0, <2>1
  <1>3. CASE UNCHANGED <<chunks, nextRead, received>>
    <2>1. Here' = Here /\ received' = received
      BY <1>3 DEF Here, AtReader
    <2>. QED BY <1>0, <2>1
  <1>. QED BY <1>1, <1>2, <1>3, BufferFrame

\* The loop sets done only after it found every chunk received.
WholeTrackHere == done \/ loopPc = "finish" => \A i \in Chunks : AtReader(i)

LEMMA WholeTrackStep ==
    ASSUME TypeInv, ReceivedExact, WholeTrackHere, [Next]_vars
    PROVE  WholeTrackHere'
  <1>. SUFFICES ASSUME done' \/ loopPc' = "finish", NEW i \in Chunks
                PROVE  AtReader(i)'
    BY DEF WholeTrackHere
  <1>. SUFFICES AtReader(i)
    BY AtReaderKept
  <1>1. CASE done \/ loopPc = "finish"
    BY <1>1 DEF WholeTrackHere
  <1>2. CASE LoopIdle /\ loopPc' = "finish"
    <2>1. Here \in SUBSET Chunks /\ Cardinality(Here) >= TotalChunks
      BY <1>2 DEF LoopIdle, ReceivedExact, Here
    <2>2. Cardinality(Here) = TotalChunks
      BY <2>1, ChunksFinite, TrackAssumption
    <2>3. Here = Chunks
      BY <2>1, <2>2, ChunksFinite
    <2>. QED BY <2>3 DEF Here
  <1>3. (done \/ loopPc = "finish") \/ (LoopIdle /\ loopPc' = "finish")
    <2>1. CASE Loop
      BY <2>1
      DEF Loop, Dispatch, LoopCheck, LoopWait, LoopProceed, LoopSchedule,
          LoopDispatch, LoopIdle, LoopFinish, LoopAnnounce, LoopReturn, readVars,
          bufferVars
    <2>2. ASSUME NEW f \in Fetchers, Fetcher(f)
          PROVE  done' = done /\ loopPc' = loopPc
      BY <2>2
      DEF Fetcher, FetchFail, FetchSucceed, AcceptNew, AcceptDuplicate, Announce,
          ReportPosition, readVars, bufferVars
    <2>3. CASE Monitor
      BY <2>3
      DEF Monitor, MonitorSample, MonitorReset, MonitorReturn, MonitorOnly,
          readVars, bufferVars
    <2>4. CASE ReaderStep
      BY <2>4
      DEF ReaderStep, Reader, PassGate, GateCancelled, GateWait, ReadPart, ReadRest,
          ReadEOF, ReadMissing, ReadWait, DownloadUnchanged, bufferVars
    <2>5. CASE CancelStep \/ DisconnectStep \/ UNCHANGED vars
      BY <2>5
      DEF CancelStep, DisconnectStep, Cancel, Disconnect, DownloadUnchanged, vars,
          readVars, bufferVars
    <2>. QED BY <2>1, <2>2, <2>3, <2>4, <2>5 DEF Next
  <1>. QED BY <1>1, <1>2, <1>3

DeliveryInv == TypeInv /\ NoLostChunk /\ ReceivedExact /\ WholeTrackHere

LEMMA DeliveryInit == Init => DeliveryInv
  <1>. SUFFICES ASSUME Init PROVE DeliveryInv
    OBVIOUS
  <1>1. TypeInv
    BY TypeInit
  <1>2. completed = {} /\ ~done /\ loopPc = "top" /\ received = 0
    BY DEF Init, SchedulerInit, ReadBufferInit
  <1>3. \A i \in Chunks : ~AtReader(i)
    BY TrackAssumption DEF Init, ReadBufferInit, AtReader, Chunks
  <1>4. ReceivedExact
    <2>1. {i \in Chunks : AtReader(i)} = {}
      BY <1>3
    <2>. QED BY <1>2, <2>1, FS_EmptySet DEF ReceivedExact
  <1>. QED BY <1>1, <1>2, <1>4 DEF DeliveryInv, NoLostChunk, WholeTrackHere

LEMMA DeliveryStep == DeliveryInv /\ [Next]_vars => DeliveryInv'
  BY TypeStep, NoLostChunkStep, ReceivedStep, WholeTrackStep DEF DeliveryInv

LEMMA DeliveryAlways == Spec => []DeliveryInv
  BY DeliveryInit, DeliveryStep, PTL DEF Spec

\* Whatever is fetched twice, after a reset or too late, a completed chunk is
\* not lost on its way to the reader.
THEOREM NoChunkIsLost == Spec => []NoLostChunk
  <1>1. DeliveryInv => NoLostChunk
    BY DEF DeliveryInv
  <1>. QED BY <1>1, DeliveryAlways, PTL

\* received counts each chunk read or buffered, once.
THEOREM ReceivedIsExact == Spec => []ReceivedExact
  <1>1. DeliveryInv => ReceivedExact
    BY DEF DeliveryInv
  <1>. QED BY <1>1, DeliveryAlways, PTL

\* done is not set before the whole track is read or buffered.
THEOREM StreamIsWhole == Spec => []NeverTruncated
  <1>1. DeliveryInv => NeverTruncated
    BY DEF DeliveryInv, WholeTrackHere, NeverTruncated
  <1>. QED BY <1>1, DeliveryAlways, PTL

----------------------------------------------------------------------------
(* The window: nobody works ahead of the reader by more than Window.       *)

LEMMA ReaderAdvances ==
    ASSUME TypeInv, [Next]_vars
    PROVE  nextRead' \in Nat /\ nextRead \in Nat /\ nextRead' >= nextRead
  <1>1. nextRead \in Nat
    BY TrackAssumption DEF TypeInv, TypeOK, Positions
  <1>2. nextRead' \in Nat
    BY TypeStep, TrackAssumption DEF TypeInv, TypeOK, Positions
  <1>3. CASE ReadPart \/ ReadRest
    BY <1>1, <1>2, <1>3, ReadKeepsChunks
  <1>4. CASE UNCHANGED <<chunks, nextRead, received>>
    BY <1>1, <1>4
  <1>5. ASSUME NEW f \in Fetchers, AcceptNew(f)
        PROVE  nextRead' = nextRead
    BY <1>5 DEF AcceptNew
  <1>. QED BY <1>1, <1>2, <1>3, <1>4, <1>5, BufferFrame

LEMMA PositionStep ==
    ASSUME TypeInv, PositionBehindReader, [Next]_vars
    PROVE  PositionBehindReader'
  <1>1. nextRead' \in Nat /\ nextRead \in Nat /\ nextRead' >= nextRead
    BY ReaderAdvances
  <1>2. /\ currentPos \in Nat
        /\ monitorPos \in Nat
        /\ \A f \in Fetchers : seenPos[f] \in Nat
    BY TrackAssumption DEF TypeInv, TypeOK, Positions
  <1>3. \A f \in Fetchers : seenPos'[f] <= nextRead'
    <2>. SUFFICES ASSUME NEW f \in Fetchers PROVE seenPos'[f] <= nextRead'
      OBVIOUS
    <2>1. \/ seenPos'[f] = seenPos[f]
          \/ seenPos'[f] = 0
          \/ Announce(f)
      BY FetcherFrame
      DEF TypeInv, TypeOK, FetcherUnchanged, Fetcher, FetchFail, FetchSucceed,
          AcceptNew, AcceptDuplicate, ReportPosition, Finish, LoopDispatch
    <2>2. CASE Announce(f)
      BY <1>1, <2>2 DEF Announce, TypeInv, TypeOK, bufferVars
    <2>. QED BY <1>1, <1>2, <2>1, <2>2 DEF PositionBehindReader
  <1>4. monitorPos' \in {0, monitorPos, nextRead}
    <2>1. CASE Loop
      BY <2>1
      DEF Loop, Dispatch, LoopCheck, LoopWait, LoopProceed, LoopSchedule,
          LoopDispatch, LoopIdle, LoopFinish, LoopAnnounce, LoopReturn, LoopOnly,
          monitorVars
    <2>2. ASSUME NEW f \in Fetchers, Fetcher(f)
          PROVE  monitorPos' = monitorPos
      BY <2>2
      DEF Fetcher, FetchFail, FetchSucceed, AcceptNew, AcceptDuplicate, Announce,
          ReportPosition, monitorVars
    <2>3. CASE Monitor
      BY <2>3 DEF Monitor, MonitorSample, MonitorReset, MonitorReturn
    <2>4. CASE ReaderStep \/ CancelStep \/ DisconnectStep \/ UNCHANGED vars
      BY <2>4
      DEF ReaderStep, CancelStep, DisconnectStep, DownloadUnchanged, vars, monitorVars
    <2>. QED BY <2>1, <2>2, <2>3, <2>4 DEF Next
  <1>5. \/ currentPos' \in {currentPos, monitorPos}
        \/ \E f \in Fetchers : currentPos' = seenPos[f]
    <2>1. CASE Loop
      BY <2>1
      DEF Loop, Dispatch, LoopCheck, LoopWait, LoopProceed, LoopSchedule,
          LoopDispatch, LoopIdle, LoopFinish, LoopAnnounce, LoopReturn, LoopOnly,
          NextRequests, schedulerVars
    <2>2. ASSUME NEW f \in Fetchers, Fetcher(f)
          PROVE  currentPos' \in {currentPos, seenPos[f]}
      BY <2>2
      DEF Fetcher, FetchFail, FetchSucceed, AcceptNew, AcceptDuplicate, Announce,
          ReportPosition, MarkFailed, MarkCompleted, SetCurrentPosition, schedulerVars
    <2>3. CASE Monitor
      BY <2>3
      DEF Monitor, MonitorSample, MonitorReset, MonitorReturn, ResetTo, schedulerVars
    <2>4. CASE ReaderStep \/ CancelStep \/ DisconnectStep \/ UNCHANGED vars
      BY <2>4
      DEF ReaderStep, CancelStep, DisconnectStep, DownloadUnchanged, vars, schedulerVars
    <2>. QED BY <2>1, <2>2, <2>3, <2>4 DEF Next
  <1>. QED BY <1>1, <1>2, <1>3, <1>4, <1>5 DEF PositionBehindReader

\* Chunk i is not beyond the window of a reader at pos.
Reachable(i, pos) == i < pos + Window

\* As the reader moves on, chunks only come into reach.
LEMMA ReachGrows ==
    ASSUME NEW i \in Nat, NEW p \in Nat, NEW q \in Nat, p <= q, Reachable(i, p)
    PROVE  Reachable(i, q)
  BY SchedulerAssumption DEF Reachable

\* Everything requested, in the hands of a fetcher or buffered lies in the
\* window that begins at the reader.
InWindow ==
    /\ \A r \in requests : Reachable(r.index, nextRead)
    /\ \A f \in Fetchers :
         stage[f] \in {"fetching", "fetched"} => Reachable(chunk[f], nextRead)
    /\ \A i \in Chunks :
         chunks[i] > 0 => nextRead <= i /\ Reachable(i, nextRead)

LEMMA WindowStep ==
    ASSUME TypeInv, PositionBehindReader, InWindow, [Next]_vars
    PROVE  InWindow'
  <1>1. nextRead' \in Nat /\ nextRead \in Nat /\ nextRead' >= nextRead
    BY ReaderAdvances
  <1>2. Chunks \subseteq Nat
    BY TrackAssumption DEF Chunks
  <1>3. ASSUME NEW i \in Nat, Reachable(i, nextRead)
        PROVE  Reachable(i, nextRead')
    BY <1>1, <1>3, ReachGrows
  <1>4. ASSUME NEW r \in requests'
        PROVE  Reachable(r.index, nextRead')
    <2>1. CASE LoopSchedule
      <3>1. r.index \in Taken
        BY <1>4, <2>1 DEF LoopSchedule
      <3>2. r.index \in Nat /\ Reachable(r.index, currentPos)
        BY <1>2, <3>1 DEF Taken, Candidates, Reachable
      <3>3. currentPos \in Nat /\ currentPos <= nextRead
        BY TrackAssumption DEF PositionBehindReader, TypeInv, TypeOK, Positions
      <3>. QED BY <1>1, <1>3, <3>2, <3>3, ReachGrows
    <2>2. CASE r \in requests
      <3>1. r.index \in Nat
        BY <1>2, <2>2 DEF TypeInv, TypeOK, Requests
      <3>. QED BY <1>3, <2>2, <3>1 DEF InWindow
    <2>3. LoopSchedule \/ r \in requests
      <3>1. CASE Loop
        BY <1>4, <3>1
        DEF Loop, Dispatch, LoopCheck, LoopWait, LoopProceed, LoopDispatch,
            LoopIdle, LoopFinish, LoopAnnounce, LoopReturn
      <3>2. ASSUME NEW f \in Fetchers, Fetcher(f)
            PROVE  requests' = requests
        BY <3>2
        DEF Fetcher, FetchFail, FetchSucceed, AcceptNew, AcceptDuplicate, Announce,
            ReportPosition
      <3>3. CASE Monitor
        BY <1>4, <3>3
        DEF Monitor, MonitorSample, MonitorReset, MonitorReturn, MonitorOnly
      <3>4. CASE ReaderStep \/ CancelStep \/ DisconnectStep \/ UNCHANGED vars
        BY <1>4, <3>4
        DEF ReaderStep, CancelStep, DisconnectStep, DownloadUnchanged, vars
      <3>. QED BY <1>4, <3>1, <3>2, <3>3, <3>4 DEF Next
    <2>. QED BY <2>1, <2>2, <2>3
  <1>5. ASSUME NEW f \in Fetchers, stage'[f] \in {"fetching", "fetched"}
        PROVE  Reachable(chunk'[f], nextRead')
    <2>1. \/ stage[f] \in {"fetching", "fetched"} /\ chunk'[f] = chunk[f]
          \/ \E r \in requests : chunk'[f] = r.index
      BY <1>5, FetcherFrame
      DEF TypeInv, TypeOK, FetcherUnchanged, Fetcher, FetchFail, FetchSucceed,
          AcceptNew, AcceptDuplicate, Announce, ReportPosition, Finish, Advance,
          LoopDispatch
    <2>2. Reachable(chunk'[f], nextRead)
      BY <2>1 DEF InWindow
    <2>3. chunk'[f] \in Nat
      BY <1>2, <2>1 DEF TypeInv, TypeOK, Requests
    <2>. QED BY <1>3, <2>2, <2>3
  <1>6. ASSUME NEW i \in Chunks, chunks'[i] > 0
        PROVE  nextRead' <= i /\ Reachable(i, nextRead')
    <2>1. CASE UNCHANGED <<chunks, nextRead, received>>
      BY <1>6, <2>1 DEF InWindow
    <2>2. CASE ReadPart \/ ReadRest
      <3>1. chunks[i] > 0 /\ (nextRead' # nextRead => i # nextRead)
        BY <1>6, <2>2, ReadKeepsChunks
      <3>2. nextRead' \in {nextRead, nextRead + 1}
        BY <2>2, ReadKeepsChunks
      <3>3. i \in Nat /\ nextRead <= i /\ Reachable(i, nextRead)
        BY <1>2, <3>1 DEF InWindow
      <3>4. nextRead' <= i
        BY <1>1, <3>1, <3>2, <3>3
      <3>. QED BY <1>3, <3>3, <3>4
    <2>3. ASSUME NEW f \in Fetchers, AcceptNew(f)
          PROVE  nextRead' <= i /\ Reachable(i, nextRead')
      <3>1. nextRead' = nextRead /\ (i = chunk[f] \/ chunks[i] > 0)
        BY <1>6, <2>3 DEF AcceptNew, Store, TypeInv, TypeOK
      <3>2. i = chunk[f] => ~(i < nextRead) /\ Reachable(i, nextRead)
        BY <2>3 DEF AcceptNew, IsDuplicate, InWindow
      <3>3. chunks[i] > 0 => nextRead <= i /\ Reachable(i, nextRead)
        BY DEF InWindow
      <3>4. nextRead <= i /\ Reachable(i, nextRead)
        BY <1>1, <1>2, <3>1, <3>2, <3>3
      <3>. QED BY <3>1, <3>4
    <2>. QED BY <2>1, <2>2, <2>3, BufferFrame
  <1>. QED BY <1>4, <1>5, <1>6 DEF InWindow

WindowInv == TypeInv /\ PositionBehindReader /\ InWindow

LEMMA WindowInit == Init => WindowInv
  <1>. SUFFICES ASSUME Init PROVE WindowInv
    OBVIOUS
  <1>1. PositionBehindReader
    BY DEF Init, SchedulerInit, ReadBufferInit, PositionBehindReader
  <1>2. InWindow
    BY DEF Init, ReadBufferInit, InWindow
  <1>. QED BY <1>1, <1>2, TypeInit DEF WindowInv

LEMMA WindowInvStep == WindowInv /\ [Next]_vars => WindowInv'
  BY TypeStep, PositionStep, WindowStep DEF WindowInv

\* The buffer fits in the Window places that begin at nextRead, so a full
\* buffer has no gap at the place the reader needs.
LEMMA BufferFits ==
    ASSUME WindowInv
    PROVE  BufferBounded /\ FullBufferIsReadable
  <1>. DEFINE ahead == {i \in Buffered : i >= nextRead}
              places == nextRead .. nextRead + Window - 1
  <1>1. /\ nextRead \in Nat
        /\ Window \in Nat \ {0}
        /\ MaxBufferChunks \in Nat \ {0}
        /\ Window <= MaxBufferChunks
        /\ Chunks \subseteq Nat
    BY TrackAssumption, SchedulerAssumption, ReadBufferAssumption,
       DownloadAssumption
    DEF WindowInv, TypeInv, TypeOK, Positions, Chunks
  <1>2. IsFiniteSet(places) /\ Cardinality(places) = Window
    BY <1>1, FS_Interval
  <1>3. Buffered \in SUBSET places /\ ahead \in SUBSET places
    <2>. SUFFICES ASSUME NEW i \in Buffered PROVE i \in places
      OBVIOUS
    <2>1. i \in Chunks /\ nextRead <= i /\ i < nextRead + Window
      BY DEF Buffered, WindowInv, InWindow, Reachable
    <2>. QED BY <1>1, <2>1
  <1>. HIDE DEF places
  <1>4. /\ Cardinality(Buffered) \in Nat /\ Cardinality(Buffered) <= Window
        /\ Cardinality(ahead) \in Nat /\ Cardinality(ahead) <= Window
        /\ Cardinality(ahead) = Window => ahead = places
    <2>. HIDE DEF ahead
    <2>. QED BY <1>2, <1>3, FS_Subset, FS_CardinalityType
  <1>5. BufferBounded
    BY <1>1, <1>4 DEF BufferBounded
  <1>6. ASSUME Full PROVE nextRead \in Buffered
    <2>1. Cardinality(ahead) >= MaxBufferChunks
      BY <1>6 DEF Full, BufferAhead
    <2>2. ahead = places
      BY <1>1, <1>4, <2>1
    <2>3. nextRead \in places
      BY <1>1 DEF places
    <2>. QED BY <2>2, <2>3
  <1>. QED BY <1>5, <1>6 DEF FullBufferIsReadable

LEMMA WindowAlways == Spec => []WindowInv
  BY WindowInit, WindowInvStep, PTL DEF Spec

\* No stale position, whichever thread carries it, is ahead of the reader.
THEOREM PositionIsBehind == Spec => []PositionBehindReader
  <1>1. WindowInv => PositionBehindReader
    BY DEF WindowInv
  <1>. QED BY <1>1, WindowAlways, PTL

\* The buffer is bounded although fetches land after the backpressure check.
THEOREM BufferIsBounded == Spec => []BufferBounded
  BY BufferFits, WindowAlways, PTL

\* A full buffer always holds the chunk the reader needs.
THEOREM FullBufferIsUseful == Spec => []FullBufferIsReadable
  BY BufferFits, WindowAlways, PTL

----------------------------------------------------------------------------
(* Requests: every chunk in flight has somebody who will report it.        *)

\* Requests wait only while the loop dispatches them.
RequestsAreDispatched == requests # {} => loopPc = "dispatch"

\* Somebody will report chunk i.
HasOwner(i) ==
    \/ \E r \in requests : r.index = i
    \/ \E f \in Fetchers : stage[f] = "fetching" /\ chunk[f] = i

LEMMA DispatchedStep ==
    ASSUME RequestsAreDispatched, [Next]_vars
    PROVE  RequestsAreDispatched'
  <1>. USE DEF RequestsAreDispatched
  <1>1. CASE LoopSchedule
    <2>1. Taken = {} => requests' = {}
      BY <1>1 DEF LoopSchedule
    <2>. QED BY <1>1, <2>1 DEF LoopSchedule
  <1>2. CASE Dispatch
    BY <1>2 DEF Dispatch, LoopDispatch
  <1>3. CASE Loop /\ ~LoopSchedule /\ ~Dispatch
    BY <1>3
    DEF Loop, LoopCheck, LoopWait, LoopProceed, LoopIdle, LoopFinish, LoopAnnounce,
        LoopReturn
  <1>4. ASSUME NEW f \in Fetchers, Fetcher(f)
        PROVE  RequestsAreDispatched'
    BY <1>4
    DEF Fetcher, FetchFail, FetchSucceed, AcceptNew, AcceptDuplicate, Announce,
        ReportPosition
  <1>5. CASE Monitor
    BY <1>5 DEF Monitor, MonitorSample, MonitorReset, MonitorReturn, MonitorOnly
  <1>6. CASE ReaderStep \/ CancelStep \/ DisconnectStep \/ UNCHANGED vars
    BY <1>6 DEF ReaderStep, CancelStep, DisconnectStep, DownloadUnchanged, vars
  <1>. QED BY <1>1, <1>2, <1>3, <1>4, <1>5, <1>6 DEF Next

\* An owner stays until its report takes the chunk out of flight.
LEMMA OwnerStays ==
    ASSUME TypeInv, RequestsAreDispatched, [Next]_vars,
           NEW i \in inflight, i \in inflight', HasOwner(i)
    PROVE  HasOwner(i)'
  <1>. USE DEF HasOwner
  <1>1. ASSUME NEW r \in requests, r.index = i
        PROVE  HasOwner(i)'
    <2>1. CASE r \in requests'
      BY <1>1, <2>1
    <2>2. CASE r \notin requests'
      <3>1. ~LoopSchedule
        BY <1>1 DEF RequestsAreDispatched, LoopSchedule
      <3>2. \E f \in Fetchers : LoopDispatch(f, r)
        <4>1. CASE Loop
          BY <2>2, <3>1, <4>1
          DEF Loop, Dispatch, LoopCheck, LoopWait, LoopProceed, LoopDispatch,
              LoopIdle, LoopFinish, LoopAnnounce, LoopReturn
        <4>2. ASSUME NEW f \in Fetchers, Fetcher(f)
              PROVE  requests' = requests
          BY <4>2
          DEF Fetcher, FetchFail, FetchSucceed, AcceptNew, AcceptDuplicate,
              Announce, ReportPosition
        <4>3. CASE Monitor
          BY <2>2, <4>3
          DEF Monitor, MonitorSample, MonitorReset, MonitorReturn, MonitorOnly
        <4>4. CASE ReaderStep \/ CancelStep \/ DisconnectStep \/ UNCHANGED vars
          BY <2>2, <4>4
          DEF ReaderStep, CancelStep, DisconnectStep, DownloadUnchanged, vars
        <4>. QED BY <2>2, <4>1, <4>2, <4>3, <4>4 DEF Next
      <3>. QED BY <1>1, <3>2 DEF LoopDispatch, TypeInv, TypeOK
    <2>. QED BY <2>1, <2>2
  <1>2. ASSUME NEW f \in Fetchers, stage[f] = "fetching", chunk[f] = i
        PROVE  HasOwner(i)'
    <2>1. ~FetchFail(f) /\ ~FetchSucceed(f)
      BY <1>2 DEF FetchFail, FetchSucceed, MarkFailed, MarkCompleted
    <2>2. FetcherUnchanged(f)
      BY <1>2, <2>1, FetcherFrame
      DEF Fetcher, AcceptNew, AcceptDuplicate, Announce, ReportPosition, LoopDispatch
    <2>. QED BY <1>2, <2>2 DEF FetcherUnchanged
  <1>. QED BY <1>1, <1>2

\* What NextRequests and the reports do to the chunks in flight.
LEMMA InflightFrame ==
    ASSUME [Next]_vars
    PROVE  \/ LoopSchedule
           \/ \E f \in Fetchers : FetchSucceed(f)
           \/ inflight' \subseteq inflight /\ completed' = completed
  <1>1. CASE Loop
    BY <1>1
    DEF Loop, Dispatch, LoopCheck, LoopWait, LoopProceed, LoopDispatch, LoopIdle,
        LoopFinish, LoopAnnounce, LoopReturn, LoopOnly, schedulerVars
  <1>2. ASSUME NEW f \in Fetchers, Fetcher(f)
        PROVE  \/ FetchSucceed(f)
               \/ inflight' \subseteq inflight /\ completed' = completed
    BY <1>2
    DEF Fetcher, FetchFail, AcceptNew, AcceptDuplicate, Announce, ReportPosition,
        MarkFailed, SetCurrentPosition, schedulerVars
  <1>3. CASE Monitor
    BY <1>3
    DEF Monitor, MonitorSample, MonitorReset, MonitorReturn, ResetTo, schedulerVars
  <1>4. CASE ReaderStep \/ CancelStep \/ DisconnectStep \/ UNCHANGED vars
    BY <1>4
    DEF ReaderStep, CancelStep, DisconnectStep, DownloadUnchanged, vars, schedulerVars
  <1>. QED BY <1>1, <1>2, <1>3, <1>4 DEF Next

LEMMA InflightStep ==
    ASSUME TypeInv, RequestsAreDispatched, InflightIsLive, [Next]_vars
    PROVE  InflightIsLive'
  <1>. SUFFICES ASSUME NEW i \in inflight'
                PROVE  i \notin completed' /\ HasOwner(i)'
    BY DEF InflightIsLive, HasOwner
  <1>0. ASSUME i \in inflight PROVE HasOwner(i)'
    BY <1>0, OwnerStays DEF InflightIsLive, HasOwner
  <1>1. CASE LoopSchedule
    <2>1. i \in inflight \/ i \in Taken
      BY <1>1 DEF LoopSchedule, NextRequests
    <2>2. completed' = completed
      BY <1>1 DEF LoopSchedule, NextRequests
    <2>3. ASSUME i \in Taken PROVE i \notin completed /\ HasOwner(i)'
      <3>1. i \notin completed
        BY <2>3 DEF Taken, Candidates
      <3>2. PICK choice \in RequestChoices :
              requests' = {[index |-> j, peer |-> choice[j]] : j \in Taken}
        BY <1>1 DEF LoopSchedule
      <3>3. [index |-> i, peer |-> choice[i]] \in requests'
        BY <2>3, <3>2
      <3>4. \E r \in requests' : r.index = i
        BY <3>3
      <3>. QED BY <3>1, <3>4 DEF HasOwner
    <2>. QED BY <1>0, <2>1, <2>2, <2>3 DEF InflightIsLive
  <1>2. ASSUME NEW f \in Fetchers, FetchSucceed(f)
        PROVE  i \notin completed' /\ HasOwner(i)'
    <2>1. i \in inflight /\ i # chunk[f] /\ completed' = completed \cup {chunk[f]}
      BY <1>2 DEF FetchSucceed, MarkCompleted
    <2>. QED BY <1>0, <2>1 DEF InflightIsLive
  <1>3. CASE inflight' \subseteq inflight /\ completed' = completed
    BY <1>0, <1>3 DEF InflightIsLive
  <1>. QED BY <1>1, <1>2, <1>3, InflightFrame

\* A chunk in flight is not completed and has a request or a fetch that will
\* report it, so no chunk is skipped for ever by NextRequests, although a
\* reset makes the scheduler forget fetches that still run.
THEOREM NoChunkIsStuck == Spec => []InflightIsLive
  <1>. DEFINE Inv == TypeInv /\ RequestsAreDispatched /\ InflightIsLive
  <1>1. Init => Inv
    BY TypeInit DEF Init, SchedulerInit, RequestsAreDispatched, InflightIsLive
  <1>2. Inv /\ [Next]_vars => Inv'
    BY TypeStep, DispatchedStep, InflightStep
  <1>. QED BY <1>1, <1>2, PTL DEF Spec

----------------------------------------------------------------------------
(* Sleeping and waking.                                                    *)

\* Where a thread can be while it sleeps.
SleepersInPlace ==
    /\ "producer" \in asleep => loopPc = "backpressure"
    /\ "reader" \in asleep => readerPc \in {"gate", "reading"}

\* Whoever sleeps has a reason to.
SleepJustified ==
    /\ "producer" \in asleep => Full
    /\ "reader" \in asleep /\ readerPc = "gate" => ~GateOpen
    /\ "reader" \in asleep /\ readerPc = "reading" =>
         nextRead \notin Buffered /\ ~done

\* The steps that make a condition true, and those that wake everybody.
Eventful ==
    \/ LoopFinish \/ LoopAnnounce \/ ReadRest
    \/ \E f \in Fetchers : AcceptNew(f) \/ Announce(f)

\* Somebody is about to wake everybody.
WakeupPending == loopPc = "announce" \/ \E f \in Fetchers : stage[f] = "accepted"

LEMMA ReadPartKeepsBuffered ==
    ASSUME TypeInv, ReadPart
    PROVE  Buffered' = Buffered
  <1>. USE DEF TypeInv, TypeOK
  <1>1. PICK n \in 1 .. chunks[nextRead] - 1 :
          chunks' = [chunks EXCEPT ![nextRead] = @ - n]
    BY DEF ReadPart
  <1>2. nextRead \in Chunks /\ chunks[nextRead] > 0 /\ chunks[nextRead] - n > 0
    BY <1>1, ReadBufferAssumption DEF ReadPart, Buffered
  <1>. QED BY <1>1, <1>2 DEF Buffered

\* An uneventful step changes no condition a thread sleeps on.
LEMMA QuietStep ==
    ASSUME TypeInv, [Next]_vars, ~Eventful
    PROVE  /\ UNCHANGED <<nextRead, received, done>>
           /\ Buffered' = Buffered
           /\ UNCHANGED <<Full, GateOpen>>
  <1>1. UNCHANGED <<nextRead, received, done>> /\ Buffered' = Buffered
    <2>1. CASE Loop
      BY <2>1
      DEF Eventful, Loop, Dispatch, LoopCheck, LoopWait, LoopProceed, LoopSchedule,
          LoopDispatch, LoopIdle, LoopReturn, readVars, bufferVars, Buffered
    <2>2. ASSUME NEW f \in Fetchers, Fetcher(f)
          PROVE  UNCHANGED <<nextRead, received, done>> /\ Buffered' = Buffered
      BY <2>2
      DEF Eventful, Fetcher, FetchFail, FetchSucceed, AcceptDuplicate,
          ReportPosition, readVars, bufferVars, Buffered
    <2>3. CASE Monitor
      BY <2>3
      DEF Monitor, MonitorSample, MonitorReset, MonitorReturn, MonitorOnly,
          readVars, bufferVars, Buffered
    <2>4. CASE ReadPart
      BY <2>4, ReadPartKeepsBuffered DEF ReadPart
    <2>5. CASE ReaderStep /\ ~ReadPart
      BY <2>5
      DEF Eventful, ReaderStep, Reader, PassGate, GateCancelled, GateWait, ReadEOF,
          ReadMissing, ReadWait, bufferVars, Buffered
    <2>6. CASE CancelStep \/ DisconnectStep \/ UNCHANGED vars
      BY <2>6
      DEF CancelStep, DisconnectStep, Cancel, Disconnect, vars, readVars, bufferVars,
          Buffered
    <2>. QED BY <2>1, <2>2, <2>3, <2>4, <2>5, <2>6 DEF Next
  <1>. QED BY <1>1 DEF Full, BufferAhead, GateOpen

\* Who can fall asleep and where the threads go in an uneventful step.
LEMMA QuietThreads ==
    ASSUME [Next]_vars, ~Eventful
    PROVE  /\ "producer" \in asleep' =>
                \/ "producer" \in asleep /\ (loopPc = "backpressure" => loopPc' = loopPc)
                \/ loopPc' = "backpressure" /\ Full
           /\ "reader" \in asleep' =>
                \/ "reader" \in asleep /\ readerPc' = readerPc
                \/ readerPc' = "gate" /\ ~GateOpen
                \/ readerPc' = "reading" /\ nextRead \notin Buffered /\ ~done
           /\ loopPc = "announce" => loopPc' = "announce"
  <1>1. CASE Loop
    BY <1>1
    DEF Eventful, Loop, Dispatch, LoopCheck, LoopWait, LoopProceed, LoopSchedule,
        LoopDispatch, LoopIdle, LoopReturn, Sleep, readVars
  <1>2. ASSUME NEW f \in Fetchers, Fetcher(f)
        PROVE  UNCHANGED <<asleep, loopPc, readerPc>>
    BY <1>2
    DEF Eventful, Fetcher, FetchFail, FetchSucceed, AcceptDuplicate, ReportPosition,
        readVars
  <1>3. CASE Monitor
    BY <1>3
    DEF Monitor, MonitorSample, MonitorReset, MonitorReturn, MonitorOnly, readVars
  <1>4. CASE ReaderStep
    BY <1>4
    DEF Eventful, ReaderStep, Reader, PassGate, GateCancelled, GateWait, ReadPart,
        ReadEOF, ReadMissing, ReadWait, ReaderRuns, Sleep, DownloadUnchanged
  <1>5. CASE CancelStep \/ DisconnectStep \/ UNCHANGED vars
    BY <1>5
    DEF CancelStep, DisconnectStep, Cancel, Disconnect, ReaderRuns,
        DownloadUnchanged, vars, readVars
  <1>. QED BY <1>1, <1>2, <1>3, <1>4, <1>5 DEF Next

LEMMA EventfulStep ==
    ASSUME TypeInv, [Next]_vars, Eventful, SleepersInPlace
    PROVE  SleepersInPlace' /\ (SleepJustified' \/ WakeupPending')
  <1>. USE DEF SleepersInPlace, SleepJustified, WakeupPending
  <1>1. CASE LoopFinish
    BY <1>1 DEF LoopFinish
  <1>2. CASE LoopAnnounce \/ ReadRest
    BY <1>2 DEF LoopAnnounce, ReadRest, Broadcast
  <1>3. ASSUME NEW f \in Fetchers, AcceptNew(f)
        PROVE  SleepersInPlace' /\ WakeupPending'
    BY <1>3 DEF AcceptNew, Advance, TypeInv, TypeOK
  <1>4. ASSUME NEW f \in Fetchers, Announce(f)
        PROVE  SleepersInPlace' /\ SleepJustified'
    BY <1>4 DEF Announce, Broadcast
  <1>. QED BY <1>1, <1>2, <1>3, <1>4 DEF Eventful

LEMMA WakeupStep ==
    ASSUME TypeInv, SleepersInPlace, NoLostWakeup, [Next]_vars
    PROVE  SleepersInPlace' /\ NoLostWakeup'
  <1>1. SleepJustified \/ WakeupPending
    BY DEF NoLostWakeup, SleepJustified, WakeupPending
  <1>2. SleepersInPlace' /\ (SleepJustified' \/ WakeupPending')
    <2>1. CASE Eventful
      BY <2>1, EventfulStep
    <2>2. CASE ~Eventful
      <3>1. SleepersInPlace'
        BY <2>2, QuietThreads DEF SleepersInPlace
      <3>2. ASSUME SleepJustified PROVE SleepJustified'
        BY <2>2, <3>2, QuietStep, QuietThreads DEF SleepJustified
      <3>3. ASSUME WakeupPending PROVE WakeupPending'
        <4>1. CASE loopPc = "announce"
          BY <2>2, <4>1, QuietThreads DEF WakeupPending
        <4>2. ASSUME NEW f \in Fetchers, stage[f] = "accepted"
              PROVE  WakeupPending'
          <5>1. FetcherUnchanged(f)
            BY <2>2, <4>2, FetcherFrame
            DEF Eventful, Fetcher, FetchFail, FetchSucceed, AcceptDuplicate,
                ReportPosition, LoopDispatch
          <5>. QED BY <4>2, <5>1 DEF FetcherUnchanged, WakeupPending
        <4>. QED BY <3>3, <4>1, <4>2 DEF WakeupPending
      <3>. QED BY <1>1, <3>1, <3>2, <3>3
    <2>. QED BY <2>1, <2>2
  <1>. QED BY <1>2 DEF NoLostWakeup, SleepJustified, WakeupPending

\* The two threads cannot both have a reason to sleep.
LEMMA OneThreadIsAwake ==
    ASSUME WindowInv, ReceivedExact, SleepersInPlace, NoLostWakeup
    PROVE  NoMutualSleep
  <1>. SUFFICES ASSUME asleep = Threads, \A f \in Fetchers : stage[f] # "accepted"
                PROVE  FALSE
    BY DEF NoMutualSleep
  <1>1. "producer" \in asleep /\ "reader" \in asleep
    BY DEF Threads
  <1>2. SleepJustified /\ Full
    BY <1>1 DEF SleepersInPlace, NoLostWakeup, SleepJustified
  <1>3. nextRead \in Buffered
    BY <1>2, BufferFits DEF FullBufferIsReadable
  <1>4. CASE readerPc = "reading"
    BY <1>1, <1>2, <1>3, <1>4 DEF SleepJustified
  <1>5. CASE readerPc = "gate"
    <2>. DEFINE ahead == {i \in Buffered : i >= nextRead}
    <2>1. Cardinality(ahead) >= MaxBufferChunks
      BY <1>2 DEF Full, BufferAhead
    <2>2. ahead \in SUBSET Here /\ Here \in SUBSET Chunks
      BY DEF Here, Buffered, AtReader
    <2>. HIDE DEF ahead
    <2>3. IsFiniteSet(Here) /\ IsFiniteSet(ahead)
      BY <2>2, ChunksFinite, FS_Subset
    <2>4. /\ Cardinality(ahead) \in Nat
          /\ Cardinality(Here) \in Nat
          /\ Cardinality(ahead) <= Cardinality(Here)
      BY <2>2, <2>3, FS_Subset, FS_CardinalityType
    <2>5. received = Cardinality(Here)
      BY DEF ReceivedExact, Here
    <2>6. ~(received >= GateChunks)
      BY <1>1, <1>2, <1>5 DEF SleepJustified, GateOpen
    <2>. QED BY <2>1, <2>4, <2>5, <2>6, ReadBufferAssumption
  <1>. QED BY <1>1, <1>4, <1>5 DEF SleepersInPlace

WakeupInv == WindowInv /\ DeliveryInv /\ SleepersInPlace /\ NoLostWakeup

LEMMA WakeupAlways == Spec => []WakeupInv
  <1>1. Init => WakeupInv
    <2>1. Init => SleepersInPlace /\ NoLostWakeup
      BY DEF Init, ReadBufferInit, SleepersInPlace, NoLostWakeup
    <2>. QED BY <2>1, WindowInit, DeliveryInit DEF WakeupInv
  <1>2. WakeupInv /\ [Next]_vars => WakeupInv'
    BY WindowInvStep, DeliveryStep, WakeupStep DEF WakeupInv, WindowInv
  <1>. QED BY <1>1, <1>2, PTL DEF Spec

\* Nobody sleeps through the event it waits for: the signal may come after the
\* unlock, but it comes.
THEOREM NoWakeupIsLost == Spec => []NoLostWakeup
  <1>1. WakeupInv => NoLostWakeup
    BY DEF WakeupInv
  <1>. QED BY <1>1, WakeupAlways, PTL

\* The loop and the reader never sleep waiting for each other.
THEOREM NeverBothAsleep == Spec => []NoMutualSleep
  <1>1. WakeupInv => NoMutualSleep
    BY OneThreadIsAwake DEF WakeupInv, DeliveryInv
  <1>. QED BY <1>1, WakeupAlways, PTL

----------------------------------------------------------------------------
(* The bound on the chunks in flight.                                      *)

\* What has reached the reader, and what a fetcher carries to it, is completed.
LandedIsCompleted ==
    /\ \A i \in Chunks : AtReader(i) => i \in completed
    /\ \A f \in Fetchers : stage[f] = "fetched" => chunk[f] \in completed

LEMMA CompletedGrows ==
    ASSUME [Next]_vars
    PROVE  completed \subseteq completed'
  BY InflightFrame DEF LoopSchedule, NextRequests, FetchSucceed, MarkCompleted

LEMMA LandedStep ==
    ASSUME TypeInv, LandedIsCompleted, [Next]_vars
    PROVE  LandedIsCompleted'
  <1>1. ASSUME NEW i \in Chunks, AtReader(i)'
        PROVE  i \in completed'
    <2>1. CASE AtReader(i)
      BY <2>1, CompletedGrows DEF LandedIsCompleted
    <2>2. ASSUME ~AtReader(i)
          PROVE  i \in completed
      <3>1. PICK f \in Fetchers : AcceptNew(f)
        <4>1. ~(ReadPart \/ ReadRest)
          BY <1>1, <2>2, ReadKeepsChunks
        <4>2. ~UNCHANGED <<chunks, nextRead, received>>
          BY <1>1, <2>2 DEF AtReader
        <4>. QED BY <4>1, <4>2, BufferFrame
      <3>2. chunk[f] \in Chunks
        BY DEF TypeInv, TypeOK
      <3>3. i = chunk[f]
        BY <1>1, <2>2, <3>1, <3>2, AcceptAddsChunk
      <3>. QED BY <3>1, <3>3 DEF AcceptNew, LandedIsCompleted
    <2>. QED BY <2>1, <2>2, CompletedGrows
  <1>2. ASSUME NEW f \in Fetchers, stage'[f] = "fetched"
        PROVE  chunk'[f] \in completed'
    <2>1. CASE FetchSucceed(f)
      BY <2>1 DEF FetchSucceed, MarkCompleted, Advance
    <2>2. CASE ~FetchSucceed(f)
      <3>1. stage[f] = "fetched" /\ chunk'[f] = chunk[f]
        BY <1>2, <2>2, FetcherFrame
        DEF TypeInv, TypeOK, FetcherUnchanged, Fetcher, FetchFail, AcceptNew,
            AcceptDuplicate, Announce, ReportPosition, Finish, Advance, LoopDispatch
      <3>. QED BY <3>1, CompletedGrows DEF LandedIsCompleted
    <2>. QED BY <2>1, <2>2
  <1>. QED BY <1>1, <1>2 DEF LandedIsCompleted

\* Chunks taken within the cap have distinct numbers of more urgent
\* candidates, all less than what is available, so they are not more than that.
LEMMA TakenWithinCap ==
    ASSUME TypeInv
    PROVE  LET T == {i \in Taken : ~IsCritical(i)}
           IN  /\ IsFiniteSet(T)
               /\ Cardinality(T) \in Nat
               /\ Cardinality(T) <= Available
  <1>. DEFINE T == {i \in Taken : ~IsCritical(i)}
              rank == [i \in T |-> Cardinality(MoreUrgent(i))]
  <1>1. T \in SUBSET Chunks /\ Candidates \in SUBSET Chunks /\ Chunks \subseteq Int
    BY TrackAssumption DEF Taken, Candidates, Chunks
  <1>2. IsFiniteSet(T) /\ Cardinality(T) \in Nat
    <2>. HIDE DEF T
    <2>. QED BY <1>1, ChunksFinite
  <1>3. Available \in Nat
    <2>1. Cardinality(inflight) \in Nat
      BY ChunksFinite DEF TypeInv, TypeOK
    <2>2. maxInflight \in Nat
      BY DEF TypeInv, CongestionInv, CongestionTypeOK
    <2>. QED BY <2>1, <2>2 DEF Available
  <1>4. \A i \in Chunks : /\ IsFiniteSet(MoreUrgent(i))
                          /\ Cardinality(MoreUrgent(i)) \in Nat
    BY <1>1, ChunksFinite DEF MoreUrgent
  <1>5. rank \in [T -> 0 .. Available - 1]
    <2>. SUFFICES ASSUME NEW i \in T
                  PROVE  Cardinality(MoreUrgent(i)) \in 0 .. Available - 1
      OBVIOUS
    <2>1. Cardinality(MoreUrgent(i)) < Available
      BY DEF Taken
    <2>2. Cardinality(MoreUrgent(i)) \in Nat
      BY <1>1, <1>4
    <2>. QED BY <1>3, <2>1, <2>2
  <1>6. ASSUME NEW i \in T, NEW j \in T, i < j
        PROVE  rank[i] < rank[j]
    <2>1. i \in Candidates /\ i \in Int /\ j \in Int /\ i \in Chunks /\ j \in Chunks
      BY <1>1 DEF Taken
    <2>2. i \notin MoreUrgent(i)
      BY <2>1 DEF MoreUrgent
    <2>3. (MoreUrgent(i) \cup {i}) \in SUBSET MoreUrgent(j)
      <3>1. \A k \in MoreUrgent(i) : k \in Candidates /\ k \in Int /\ k < i
        BY <1>1 DEF MoreUrgent
      <3>2. \A k \in MoreUrgent(i) : k \in MoreUrgent(j)
        BY <1>6, <2>1, <3>1 DEF MoreUrgent
      <3>3. i \in MoreUrgent(j)
        BY <1>6, <2>1 DEF MoreUrgent
      <3>. QED BY <3>2, <3>3
    <2>4. Cardinality(MoreUrgent(i) \cup {i}) = Cardinality(MoreUrgent(i)) + 1
      BY <1>4, <2>1, <2>2, FS_AddElement
    <2>5. Cardinality(MoreUrgent(i) \cup {i}) <= Cardinality(MoreUrgent(j))
      BY <1>4, <2>1, <2>3, FS_Subset
    <2>6. Cardinality(MoreUrgent(i)) < Cardinality(MoreUrgent(j))
      BY <1>4, <2>1, <2>4, <2>5
    <2>. QED BY <2>6
  <1>7. ~(Available < Cardinality(T))
    <2>1. IsFiniteSet(0 .. Available - 1) /\ Cardinality(0 .. Available - 1) = Available
      BY <1>3, FS_Interval
    <2>2. \A i, j \in T : i # j => rank[i] # rank[j]
      <3>1. TAKE i, j \in T
      <3>2. HAVE i # j
      <3>3. rank[i] \in Int /\ rank[j] \in Int /\ i \in Int /\ j \in Int
        <4>1. rank[i] \in 0 .. Available - 1 /\ rank[j] \in 0 .. Available - 1
          <5>. HIDE DEF rank, T
          <5>. QED BY <1>5, <3>1
        <4>2. i \in Int /\ j \in Int
          <5>. HIDE DEF rank, T
          <5>. QED BY <1>1, <3>1
        <4>. QED BY <1>3, <4>1, <4>2
      <3>4. i < j \/ j < i
        BY <3>2, <3>3
      <3>5. rank[i] < rank[j] \/ rank[j] < rank[i]
        BY <1>6, <3>4
      <3>. HIDE DEF rank
      <3>. QED BY <3>3, <3>5
    <2>. HIDE DEF rank, T
    <2>. QED BY <1>2, <1>5, <2>1, <2>2, FS_PigeonHole
  <1>. QED BY <1>2, <1>3, <1>7

\* Chunk i is not critical for a reader at pos.
Beyond(i, pos) == ~(i < pos + CriticalEnd)

\* The chunks in flight that no bypass can account for.
FarInflight == {i \in inflight : Beyond(i, nextRead)}

FarWithinCap == Cardinality(FarInflight) <= MaxMaxInflight

LEMMA BeyondShrinks ==
    ASSUME NEW i \in Nat, NEW p \in Nat, NEW q \in Nat, p <= q, Beyond(i, q)
    PROVE  Beyond(i, p)
  BY SchedulerAssumption DEF Beyond

\* A set of chunks, and what is below it.
LEMMA FewerChunks ==
    ASSUME NEW S \in SUBSET Chunks, NEW T \in SUBSET S
    PROVE  /\ Cardinality(S) \in Nat
           /\ Cardinality(T) \in Nat
           /\ Cardinality(T) <= Cardinality(S)
  BY ChunksFinite, FS_Subset

LEMMA FarStep ==
    ASSUME WindowInv, FarWithinCap, [Next]_vars
    PROVE  FarWithinCap'
  <1>. USE DEF WindowInv
  <1>1. nextRead' \in Nat /\ nextRead \in Nat /\ nextRead' >= nextRead
    BY ReaderAdvances
  <1>2. inflight \in SUBSET Chunks /\ Chunks \subseteq Nat
    BY TrackAssumption DEF TypeInv, TypeOK, Chunks
  <1>3. FarInflight \in SUBSET inflight
    BY DEF FarInflight
  <1>4. MaxMaxInflight \in Nat
    BY CongestionAssumption
  <1>5. CASE inflight' \subseteq inflight
    <2>1. \A i \in inflight' : Beyond(i, nextRead') => Beyond(i, nextRead)
      BY <1>1, <1>2, <1>5, BeyondShrinks
    <2>2. FarInflight' \in SUBSET FarInflight
      BY <1>5, <2>1 DEF FarInflight
    <2>3. /\ Cardinality(FarInflight') \in Nat
          /\ Cardinality(FarInflight) \in Nat
          /\ Cardinality(FarInflight') <= Cardinality(FarInflight)
      BY <1>2, <1>3, <2>2, FewerChunks
    <2>. QED BY <1>4, <2>3 DEF FarWithinCap
  <1>6. CASE LoopSchedule
    <2>. DEFINE T == {i \in Taken : ~IsCritical(i)}
    <2>1. inflight' = inflight \cup Taken /\ nextRead' = nextRead
      BY <1>6 DEF LoopSchedule, NextRequests, readVars, bufferVars
    <2>2. \A i \in Taken : Beyond(i, nextRead) => ~IsCritical(i)
      <3>1. currentPos \in Nat /\ currentPos <= nextRead /\ CriticalEnd \in Nat
        BY TrackAssumption, SchedulerAssumption
        DEF PositionBehindReader, TypeInv, TypeOK, Positions
      <3>2. Taken \subseteq Nat
        BY <1>2 DEF Taken, Candidates
      <3>. QED BY <1>1, <3>1, <3>2 DEF Beyond, IsCritical
    <2>3. FarInflight' \in SUBSET (FarInflight \cup T)
      BY <2>1, <2>2 DEF FarInflight
    <2>4. IsFiniteSet(T) /\ Cardinality(T) \in Nat /\ Cardinality(T) <= Available
      BY TakenWithinCap
    <2>5. T \in SUBSET Chunks
      BY DEF Taken, Candidates
    <2>. HIDE DEF T
    <2>6. /\ IsFiniteSet(FarInflight)
          /\ Cardinality(FarInflight) \in Nat
          /\ Cardinality(inflight) \in Nat
          /\ Cardinality(FarInflight) <= Cardinality(inflight)
          /\ FarInflight \cup T \in SUBSET Chunks
      BY <1>2, <1>3, <2>5, ChunksFinite, FewerChunks
    <2>7. /\ Cardinality(FarInflight') \in Nat
          /\ Cardinality(FarInflight \cup T) \in Nat
          /\ Cardinality(FarInflight') <= Cardinality(FarInflight \cup T)
      BY <2>3, <2>6, FewerChunks
    <2>8. Cardinality(FarInflight \cup T) <= Cardinality(FarInflight) + Cardinality(T)
      <3>1. Cardinality(FarInflight \cap T) \in Nat
        BY <2>6, FS_Intersection, FS_CardinalityType
      <3>2. Cardinality(FarInflight \cup T)
              = Cardinality(FarInflight) + Cardinality(T) - Cardinality(FarInflight \cap T)
        BY <2>4, <2>6, FS_Union
      <3>. QED BY <2>4, <2>6, <3>1, <3>2
    <2>9. CASE Cardinality(T) = 0
      BY <1>4, <2>4, <2>6, <2>7, <2>8, <2>9 DEF FarWithinCap
    <2>10. CASE Cardinality(T) # 0
      <3>1. /\ maxInflight \in Nat
            /\ maxInflight <= MaxMaxInflight
        BY DEF TypeInv, CongestionInv, CongestionTypeOK, CapInRange
      <3>2. Available = maxInflight - Cardinality(inflight)
        BY <2>4, <2>10 DEF Available
      <3>. QED
        BY <1>4, <2>4, <2>6, <2>7, <2>8, <3>1, <3>2 DEF FarWithinCap
    <2>. QED BY <2>9, <2>10
  <1>7. ASSUME NEW f \in Fetchers, FetchSucceed(f)
        PROVE  inflight' \subseteq inflight
    BY <1>7 DEF FetchSucceed, MarkCompleted
  <1>. QED BY <1>5, <1>6, <1>7, InflightFrame

LEMMA FarBoundsInflight ==
    ASSUME WindowInv, InflightIsLive, LandedIsCompleted, FarWithinCap
    PROVE  InflightBounded
  <1>. DEFINE near == {i \in inflight : ~Beyond(i, nextRead)}
              critical == nextRead .. nextRead + CriticalEnd - 1
  <1>1. nextRead \in Nat /\ CriticalEnd \in Nat \ {0} /\ MaxMaxInflight \in Nat
    BY TrackAssumption, SchedulerAssumption, CongestionAssumption
    DEF WindowInv, TypeInv, TypeOK, Positions
  <1>2. inflight \in SUBSET Chunks /\ Chunks \subseteq Nat
    BY TrackAssumption DEF WindowInv, TypeInv, TypeOK, Chunks
  <1>3. near \in SUBSET critical
    <2>. SUFFICES ASSUME NEW i \in near PROVE i \in critical
      OBVIOUS
    <2>1. i \in inflight /\ i \in Chunks /\ i \in Nat /\ i < nextRead + CriticalEnd
      BY <1>2 DEF Beyond
    <2>2. ~(i < nextRead)
      BY <2>1 DEF InflightIsLive, LandedIsCompleted, AtReader
    <2>. QED BY <1>1, <2>1, <2>2
  <1>4. IsFiniteSet(critical) /\ Cardinality(critical) = CriticalEnd
    BY <1>1, FS_Interval
  <1>5. /\ IsFiniteSet(FarInflight) /\ Cardinality(FarInflight) \in Nat
        /\ inflight = FarInflight \cup near
    BY <1>2, ChunksFinite DEF FarInflight
  <1>6. /\ IsFiniteSet(near)
        /\ Cardinality(near) \in Nat
        /\ Cardinality(near) <= CriticalEnd
    <2>. HIDE DEF near, critical
    <2>. QED BY <1>3, <1>4, FS_Subset, FS_CardinalityType
  <1>. HIDE DEF near
  <1>7. Cardinality(inflight) <= Cardinality(FarInflight) + Cardinality(near)
    <2>1. Cardinality(FarInflight \cap near) \in Nat
      BY <1>5, FS_Intersection, FS_CardinalityType
    <2>2. Cardinality(inflight)
            = Cardinality(FarInflight) + Cardinality(near) - Cardinality(FarInflight \cap near)
      BY <1>5, <1>6, FS_Union
    <2>. QED BY <1>5, <1>6, <2>1, <2>2
  <1>8. Cardinality(inflight) \in Nat
    BY <1>2, ChunksFinite
  <1>. QED BY <1>1, <1>5, <1>6, <1>7, <1>8 DEF FarWithinCap, InflightBounded

\* The chunks in flight never exceed the ceiling of the cap by more than the
\* critical zone, although critical chunks bypass the cap and the zone moves,
\* forwards and backwards, while they are in flight: whatever position the
\* scheduler believes, the chunks it can take by the bypass lie in the critical
\* zone of the real reader.
THEOREM InflightIsBounded == Spec => []InflightBounded
  <1>. DEFINE Inv == /\ WindowInv /\ RequestsAreDispatched /\ InflightIsLive
                     /\ LandedIsCompleted /\ FarWithinCap
  <1>1. Init => Inv
    <2>. SUFFICES ASSUME Init PROVE Inv
      OBVIOUS
    <2>1. inflight = {} /\ completed = {} /\ requests = {}
      BY DEF Init, SchedulerInit
    <2>2. WindowInv
      BY WindowInit
    <2>3. \A i \in Chunks : ~AtReader(i)
      BY TrackAssumption DEF Init, ReadBufferInit, AtReader, Chunks
    <2>4. LandedIsCompleted
      BY <2>3 DEF Init, LandedIsCompleted
    <2>5. FarWithinCap
      <3>1. FarInflight = {}
        BY <2>1 DEF FarInflight
      <3>. QED BY <3>1, FS_EmptySet, CongestionAssumption DEF FarWithinCap
    <2>. QED BY <2>1, <2>2, <2>4, <2>5 DEF RequestsAreDispatched, InflightIsLive
  <1>2. Inv /\ [Next]_vars => Inv'
    BY WindowInvStep, DispatchedStep, InflightStep, LandedStep, FarStep DEF WindowInv
  <1>3. Inv => InflightBounded
    BY FarBoundsInflight
  <1>. QED BY <1>1, <1>2, <1>3, PTL DEF Spec

----------------------------------------------------------------------------
(* Refinement: the engine implements TrackReader.                          *)

\* Parts of the next chunk already delivered.
Begun == IF nextRead \in Buffered THEN PartsPerChunk - chunks[nextRead] ELSE 0

\* Only the chunk the reader is in can be partly read.
OnlyNextIsBegun ==
    \A i \in Chunks : i # nextRead => chunks[i] \in {0, PartsPerChunk}

LEMMA BegunStep ==
    ASSUME TypeInv, OnlyNextIsBegun, [Next]_vars
    PROVE  OnlyNextIsBegun'
  <1>. USE DEF TypeInv, TypeOK, OnlyNextIsBegun
  <1>1. CASE UNCHANGED <<chunks, nextRead, received>>
    BY <1>1
  <1>2. ASSUME NEW f \in Fetchers, AcceptNew(f)
        PROVE  OnlyNextIsBegun'
    BY <1>2 DEF AcceptNew, Store
  <1>3. CASE ReadPart
    BY <1>3 DEF ReadPart
  <1>4. CASE ReadRest
    BY <1>4 DEF ReadRest
  <1>. QED BY <1>1, <1>2, <1>3, <1>4, BufferFrame

\* Where the reader is, in numbers.
LEMMA ReaderPlace ==
    ASSUME TypeInv
    PROVE  /\ PartsPerChunk \in Nat \ {0}
           /\ nextRead \in Nat /\ nextRead <= TotalChunks
           /\ Begun \in 0 .. PartsPerChunk - 1
           /\ PartsDelivered = nextRead * PartsPerChunk + Begun
  <1>1. PartsPerChunk \in Nat \ {0}
    BY ReadBufferAssumption
  <1>2. nextRead \in Nat /\ nextRead <= TotalChunks
    BY TrackAssumption DEF TypeInv, TypeOK, Positions
  <1>3. Begun \in 0 .. PartsPerChunk - 1
    <2>1. CASE nextRead \in Buffered
      <3>1. chunks[nextRead] \in 0 .. PartsPerChunk /\ chunks[nextRead] > 0
        BY <2>1 DEF Buffered, TypeInv, TypeOK
      <3>. QED BY <1>1, <2>1, <3>1 DEF Begun
    <2>2. CASE nextRead \notin Buffered
      BY <1>1, <2>2 DEF Begun
    <2>. QED BY <2>1, <2>2
  <1>. QED BY <1>1, <1>2, <1>3 DEF PartsDelivered, Begun

\* Reading n more parts of chunk q, r of which are read, is a Deliver.
LEMMA DeliverFits ==
    ASSUME NEW q \in Nat, q < TotalChunks,
           NEW r \in 0 .. PartsPerChunk - 1,
           NEW n \in 1 .. PartsPerChunk - r,
           PartsDelivered = q * PartsPerChunk + r,
           PartsDelivered' = q * PartsPerChunk + r + n,
           ReaderStatus = "open", ReaderStatus' = "open"
    PROVE  Promise!Deliver
  <1>. DEFINE p == q * PartsPerChunk + r
  <1>1. PartsPerChunk \in Nat \ {0} /\ TotalChunks \in Nat
    BY ReadBufferAssumption, TrackAssumption
  <1>2. p \in Nat /\ p % PartsPerChunk = r
    BY <1>1
  <1>3. p < TotalChunks * PartsPerChunk
    <2>1. (q + 1) * PartsPerChunk <= TotalChunks * PartsPerChunk
      BY <1>1
    <2>2. p < (q + 1) * PartsPerChunk
      BY <1>1
    <2>3. (q + 1) * PartsPerChunk \in Int /\ TotalChunks * PartsPerChunk \in Int
      BY <1>1
    <2>. QED BY <1>2, <2>1, <2>2, <2>3
  <1>4. PartsDelivered = p /\ PartsDelivered' = p + n
    OBVIOUS
  <1>. HIDE DEF p
  <1>. QED
    BY <1>2, <1>3, <1>4 DEF Promise!Deliver, Promise!PartsLeft, Promise!TrackParts

\* A Read that returns data delivers the next parts of the track.
LEMMA ReadDelivers ==
    ASSUME TypeInv, OnlyNextIsBegun, ReadPart \/ ReadRest
    PROVE  Promise!Deliver
  <1>. DEFINE left == chunks[nextRead]
  <1>1. ReaderStatus = "open" /\ ReaderStatus' = "open"
    BY DEF ReadPart, ReadRest, ReaderRuns, ReaderStatus
  <1>2. nextRead \in Chunks /\ nextRead \in Buffered /\ left \in 1 .. PartsPerChunk
    BY ReadBufferAssumption DEF ReadPart, ReadRest, Buffered, TypeInv, TypeOK
  <1>3. nextRead \in Nat /\ nextRead < TotalChunks
    BY <1>2, TrackAssumption DEF Chunks
  <1>4. PartsPerChunk \in Nat \ {0} /\ Begun = PartsPerChunk - left
    BY <1>2, ReadBufferAssumption DEF Begun
  <1>5. /\ PartsDelivered = nextRead * PartsPerChunk + Begun
        /\ PartsDelivered' = nextRead' * PartsPerChunk + Begun'
    BY DEF PartsDelivered, Begun
  <1>6. PICK q \in Nat, r \in 0 .. PartsPerChunk - 1 : q = nextRead /\ r = Begun
    BY <1>3, ReaderPlace
  <1>7. CASE ReadPart
    <2>1. PICK n \in 1 .. left - 1 : chunks' = [chunks EXCEPT ![nextRead] = @ - n]
      BY <1>7 DEF ReadPart
    <2>2. nextRead' = nextRead /\ chunks'[nextRead] = left - n
      BY <1>2, <1>7, <2>1 DEF ReadPart, TypeInv, TypeOK
    <2>3. Buffered' = Buffered
      BY <1>7, ReadPartKeepsBuffered
    <2>4. Begun' = PartsPerChunk - (left - n)
      BY <1>2, <2>2, <2>3 DEF Begun
    <2>5. Begun' = r + n /\ n \in 1 .. PartsPerChunk - r
      BY <1>2, <1>4, <1>6, <2>1, <2>4
    <2>6. PartsDelivered' = q * PartsPerChunk + r + n
      <3>1. PartsDelivered' = q * PartsPerChunk + (r + n)
        BY <1>5, <1>6, <2>2, <2>5
      <3>. QED BY <1>4, <3>1
    <2>. QED BY <1>1, <1>3, <1>5, <1>6, <2>5, <2>6, DeliverFits
  <1>8. CASE ReadRest
    <2>1. nextRead' = nextRead + 1
      BY <1>8 DEF ReadRest
    <2>2. Begun' = 0
      <3>1. CASE nextRead' \in Buffered'
        <4>1. nextRead' \in Chunks /\ chunks'[nextRead'] > 0
          BY <3>1 DEF Buffered
        <4>2. chunks'[nextRead'] = chunks[nextRead']
          BY <1>3, <1>8, <2>1, <4>1 DEF ReadRest, TypeInv, TypeOK
        <4>3. chunks[nextRead'] \in {0, PartsPerChunk}
          BY <1>3, <2>1, <4>1 DEF OnlyNextIsBegun
        <4>. QED BY <1>4, <3>1, <4>1, <4>2, <4>3 DEF Begun
      <3>2. CASE nextRead' \notin Buffered'
        BY <3>2 DEF Begun
      <3>. QED BY <3>1, <3>2
    <2>3. PICK n \in 1 .. PartsPerChunk - r : n = PartsPerChunk - r
      BY <1>4
    <2>4. PartsDelivered' = q * PartsPerChunk + r + n
      <3>1. PartsDelivered' = (q + 1) * PartsPerChunk + 0
        BY <1>5, <1>6, <2>1, <2>2
      <3>. QED BY <1>4, <2>3, <3>1
    <2>. QED BY <1>1, <1>3, <1>5, <1>6, <2>3, <2>4, DeliverFits
  <1>. QED BY <1>7, <1>8

\* Accepting a chunk delivers nothing.
LEMMA AcceptStutters ==
    ASSUME TypeInv, NEW f \in Fetchers, AcceptNew(f)
    PROVE  UNCHANGED <<PartsDelivered, ReaderStatus>>
  <1>. USE DEF TypeInv, TypeOK
  <1>1. /\ chunks' = [chunks EXCEPT ![chunk[f]] = PartsPerChunk]
        /\ nextRead' = nextRead /\ readerPc' = readerPc
        /\ chunk[f] \notin Buffered
    BY DEF AcceptNew, Store, IsDuplicate
  <1>2. Begun' = Begun
    <2>1. CASE nextRead = chunk[f]
      <3>1. nextRead \notin Buffered /\ nextRead' \in Chunks
        BY <1>1, <2>1
      <3>2. chunks'[nextRead'] = PartsPerChunk
        BY <1>1, <2>1
      <3>. QED BY <3>1, <3>2, ReadBufferAssumption DEF Begun
    <2>2. CASE nextRead # chunk[f]
      <3>1. nextRead' \in Buffered' <=> nextRead \in Buffered
        BY <1>1, <2>2 DEF Buffered
      <3>2. nextRead \in Buffered => chunks'[nextRead'] = chunks[nextRead]
        BY <1>1, <2>2 DEF Buffered
      <3>. QED BY <3>1, <3>2 DEF Begun
    <2>. QED BY <2>1, <2>2
  <1>. QED BY <1>1, <1>2 DEF PartsDelivered, Begun, ReaderStatus

\* What happens to the reader's status in a step that does not touch the buffer.
LEMMA OtherSteps ==
    ASSUME DeliveryInv, [Next]_vars, UNCHANGED <<chunks, nextRead, received>>
    PROVE  [Promise!Next]_<<PartsDelivered, ReaderStatus>>
  <1>1. PartsDelivered' = PartsDelivered
    BY DEF PartsDelivered, Buffered
  <1>2. CASE readerPc' = readerPc \/ PassGate
    BY <1>1, <1>2 DEF PassGate, ReaderRuns, ReaderStatus
  <1>3. CASE GateCancelled \/ Disconnect
    <2>1. ReaderStatus = "open" /\ ReaderStatus' = "closed"
      BY <1>3 DEF GateCancelled, Disconnect, ReaderRuns, ReaderStatus
    <2>. QED BY <1>1, <2>1 DEF Promise!Next, Promise!GiveUp
  <1>4. CASE ReadEOF
    <2>1. ReaderStatus = "open" /\ ReaderStatus' = "ended"
      BY <1>4 DEF ReadEOF, ReaderRuns, ReaderStatus
    <2>2. nextRead = TotalChunks /\ nextRead \notin Buffered
      BY <1>4, TrackAssumption DEF ReadEOF, DeliveryInv, TypeInv, TypeOK, Positions
    <2>3. PartsDelivered = TotalChunks * PartsPerChunk
      <3>1. PartsDelivered = TotalChunks * PartsPerChunk + 0
        BY <2>2 DEF PartsDelivered
      <3>. QED BY <3>1, TrackAssumption, ReadBufferAssumption
    <2>. QED BY <1>1, <2>1, <2>3 DEF Promise!Next, Promise!End, Promise!TrackParts
  <1>5. ~ReadMissing
    <2>. SUFFICES ASSUME ReadMissing PROVE FALSE
      OBVIOUS
    <2>1. done /\ nextRead \in Chunks /\ nextRead \notin Buffered /\ nextRead \in Nat
      BY TrackAssumption
      DEF ReadMissing, DeliveryInv, TypeInv, TypeOK, Positions, Chunks
    <2>2. AtReader(nextRead)
      BY <2>1 DEF DeliveryInv, WholeTrackHere
    <2>. QED BY <2>1, <2>2 DEF AtReader, Buffered
  <1>6. \/ readerPc' = readerPc \/ PassGate \/ GateCancelled
        \/ Disconnect \/ ReadEOF \/ ReadMissing
    <2>1. CASE Loop
      BY <2>1
      DEF Loop, Dispatch, LoopCheck, LoopWait, LoopProceed, LoopSchedule,
          LoopDispatch, LoopIdle, LoopFinish, LoopAnnounce, LoopReturn, readVars
    <2>2. ASSUME NEW f \in Fetchers, Fetcher(f)
          PROVE  readerPc' = readerPc
      BY <2>2
      DEF Fetcher, FetchFail, FetchSucceed, AcceptNew, AcceptDuplicate, Announce,
          ReportPosition, readVars
    <2>3. CASE Monitor
      BY <2>3
      DEF Monitor, MonitorSample, MonitorReset, MonitorReturn, MonitorOnly, readVars
    <2>4. CASE ReaderStep
      BY <2>4 DEF ReaderStep, Reader, GateWait, ReadPart, ReadRest, ReadWait
    <2>5. CASE CancelStep \/ DisconnectStep \/ UNCHANGED vars
      BY <2>5 DEF CancelStep, DisconnectStep, Cancel, vars, readVars
    <2>. QED BY <2>1, <2>2, <2>3, <2>4, <2>5 DEF Next
  <1>. QED BY <1>2, <1>3, <1>4, <1>5, <1>6

\* Every step of the engine is a step of TrackReader or a stutter.
LEMMA StepRefines ==
    ASSUME DeliveryInv, OnlyNextIsBegun, [Next]_vars
    PROVE  [Promise!Next]_<<PartsDelivered, ReaderStatus>>
  <1>1. TypeInv
    BY DEF DeliveryInv
  <1>2. CASE ReadPart \/ ReadRest
    BY <1>1, <1>2, ReadDelivers DEF Promise!Next
  <1>3. ASSUME NEW f \in Fetchers, AcceptNew(f)
        PROVE  UNCHANGED <<PartsDelivered, ReaderStatus>>
    BY <1>1, <1>3, AcceptStutters
  <1>4. CASE UNCHANGED <<chunks, nextRead, received>>
    BY <1>4, OtherSteps
  <1>. QED BY <1>2, <1>3, <1>4, BufferFrame

LEMMA InitRefines ==
    ASSUME Init
    PROVE  Promise!Init /\ OnlyNextIsBegun
  <1>1. nextRead = 0 /\ readerPc = "gate" /\ \A i \in Chunks : chunks[i] = 0
    BY DEF Init, ReadBufferInit
  <1>2. nextRead \notin Buffered
    BY <1>1 DEF Buffered
  <1>3. PartsDelivered = 0
    <2>1. PartsDelivered = 0 * PartsPerChunk + 0
      BY <1>1, <1>2 DEF PartsDelivered
    <2>. QED BY <2>1, ReadBufferAssumption
  <1>4. ReaderStatus = "open"
    BY <1>1 DEF ReaderStatus
  <1>. QED BY <1>1, <1>3, <1>4 DEF Promise!Init, OnlyNextIsBegun

\* Whatever is fetched late, twice, in any order, or after a reset, and
\* whenever the stream is cancelled, the reader gets the parts of the track in
\* order, none twice and none skipped, EOF after the last and only then, and
\* never a missing chunk.
THEOREM DownloadRefines == Spec => ImplementsTrackReader
  <1>. DEFINE Inv == DeliveryInv /\ OnlyNextIsBegun
  <1>1. Init => Promise!Init /\ Inv
    BY InitRefines, DeliveryInit
  <1>2. Inv /\ [Next]_vars => Inv'
    BY DeliveryStep, BegunStep DEF DeliveryInv
  <1>3. Inv /\ [Next]_vars => [Promise!Next]_<<PartsDelivered, ReaderStatus>>
    BY StepRefines
  <1>. QED BY <1>1, <1>2, <1>3, PTL DEF Spec, ImplementsTrackReader, Promise!Spec

\* What a reader is told when it stops: no chunk is ever missing, and the end of
\* the track comes after exactly the whole of it.
ToldTheTruth ==
    /\ ReaderStatus \in {"open", "ended", "closed"}
    /\ ReaderStatus = "ended" => PartsDelivered = TotalChunks * PartsPerChunk

\* EOF means that every part of the track was read, and Read never returns the
\* error of a missing chunk: this follows from TrackReader alone.
THEOREM EndMeansWhole == Spec => []ToldTheTruth
  <1>1. Promise!Init => ToldTheTruth
    BY DEF Promise!Init, ToldTheTruth
  <1>2. ToldTheTruth /\ [Promise!Next]_<<PartsDelivered, ReaderStatus>> => ToldTheTruth'
    <2>. SUFFICES ASSUME ToldTheTruth, [Promise!Next]_<<PartsDelivered, ReaderStatus>>
                  PROVE  ToldTheTruth'
      OBVIOUS
    <2>1. CASE Promise!End
      BY <2>1 DEF Promise!End, Promise!TrackParts, ToldTheTruth
    <2>2. CASE Promise!Deliver \/ Promise!GiveUp
      BY <2>2 DEF Promise!Deliver, Promise!GiveUp, ToldTheTruth
    <2>3. CASE UNCHANGED <<PartsDelivered, ReaderStatus>>
      BY <2>3 DEF ToldTheTruth
    <2>. QED BY <2>1, <2>2, <2>3 DEF Promise!Next
  <1>. QED BY <1>1, <1>2, DownloadRefines, PTL DEF ImplementsTrackReader, Promise!Spec

----------------------------------------------------------------------------
(* Refinement: the engine relies on ChunkFetch and no more.                *)

Calls == [f \in Fetchers |-> CallOf(f)]

\* A step of a fetcher, or its dispatch, as a step of ChunkFetch.
LEMMA FetcherFollowsContract ==
    ASSUME TypeInv, [Next]_vars, NEW f \in Fetchers,
           \A g \in Fetchers : g # f => CallOf(g)' = CallOf(g),
           Fetcher(f) \/ \E r \in requests : LoopDispatch(f, r)
    PROVE  [Contract!Next]_Calls
  <1>. USE DEF TypeInv, TypeOK
  <1>1. /\ Calls[f] = CallOf(f)
        /\ Calls' = [Calls EXCEPT ![f] = CallOf(f)']
    BY DEF Calls
  <1>2. CASE CallOf(f)' = CallOf(f)
    <2>1. Calls' = Calls
      BY <1>1, <1>2 DEF Calls
    <2>. QED BY <2>1
  <1>3. ASSUME NEW r \in requests, LoopDispatch(f, r) PROVE Contract!Next
    <2>1. r.index \in Chunks
      BY DEF Requests
    <2>2. stage[f] = "idle" /\ stage'[f] = "fetching" /\ chunk'[f] = r.index
      BY <1>3 DEF LoopDispatch
    <2>3. CallOf(f) = << >> /\ CallOf(f)' = <<r.index>>
      BY <2>2 DEF CallOf
    <2>. QED BY <1>1, <2>1, <2>3 DEF Contract!Next, Contract!Ask, Calls
  <1>4. CASE FetchSucceed(f)
    <2>1. /\ stage[f] = "fetching" /\ stage'[f] = "fetched"
          /\ chunk' = chunk /\ chunk[f] \in Chunks
      BY <1>4 DEF FetchSucceed, Advance
    <2>2. CallOf(f) = <<chunk[f]>> /\ CallOf(f)' = <<chunk[f], chunk[f]>>
      BY <2>1 DEF CallOf
    <2>3. PICK i \in Chunks : i = chunk[f]
      BY <2>1
    <2>4. /\ CallOf(f) = <<i>> /\ CallOf(f)' = <<i, i>>
          /\ [j \in Chunks |-> j][i] = i
      BY <2>2, <2>3
    <2>5. Contract!Succeed(f)
      BY <1>1, <2>4 DEF Contract!Succeed, Calls
    <2>. QED BY <2>5 DEF Contract!Next
  <1>5. CASE FetchFail(f) \/ AcceptNew(f) \/ AcceptDuplicate(f)
    <2>1. stage[f] \in {"fetching", "fetched"} /\ stage'[f] \in {"idle", "accepted"}
      BY <1>5 DEF FetchFail, AcceptNew, AcceptDuplicate, Finish, Advance
    <2>2. CallOf(f) # << >> /\ CallOf(f)' = << >>
      BY <2>1 DEF CallOf
    <2>. QED BY <1>1, <2>2 DEF Contract!Next, Contract!Return, Calls
  <1>6. CASE Announce(f) \/ ReportPosition(f)
    <2>1. stage[f] \in {"accepted", "reporting"} /\ stage'[f] \in {"reporting", "idle"}
      BY <1>6 DEF Announce, ReportPosition, Finish, Advance
    <2>2. CallOf(f) = << >> /\ CallOf(f)' = << >>
      BY <2>1 DEF CallOf
    <2>. QED BY <1>2, <2>2
  <1>. QED BY <1>3, <1>4, <1>5, <1>6 DEF Fetcher

\* At most one fetcher moves in a step.
LEMMA OneFetcherMoves ==
    ASSUME TypeInv, [Next]_vars
    PROVE  \/ UNCHANGED <<stage, chunk>>
           \/ \E f \in Fetchers :
                /\ Fetcher(f) \/ \E r \in requests : LoopDispatch(f, r)
                /\ \A g \in Fetchers : g # f => CallOf(g)' = CallOf(g)
  <1>. USE DEF TypeInv, TypeOK
  <1>1. CASE Dispatch
    <2>1. PICK f \in Fetchers, r \in requests : LoopDispatch(f, r)
      BY <1>1 DEF Dispatch
    <2>2. \A g \in Fetchers : g # f => stage'[g] = stage[g] /\ chunk'[g] = chunk[g]
      BY <2>1 DEF LoopDispatch
    <2>. QED BY <2>1, <2>2 DEF CallOf
  <1>2. CASE Loop /\ ~Dispatch
    BY <1>2
    DEF Loop, LoopCheck, LoopWait, LoopProceed, LoopSchedule, LoopIdle, LoopFinish,
        LoopAnnounce, LoopReturn, LoopOnly, fetcherVars
  <1>3. ASSUME NEW f \in Fetchers, Fetcher(f)
        PROVE  \A g \in Fetchers : g # f => CallOf(g)' = CallOf(g)
    <2>1. \A g \in Fetchers : g # f => stage'[g] = stage[g] /\ chunk'[g] = chunk[g]
      BY <1>3
      DEF Fetcher, FetchFail, FetchSucceed, AcceptNew, AcceptDuplicate, Announce,
          ReportPosition, Finish, Advance
    <2>. QED BY <2>1 DEF CallOf
  <1>4. CASE Monitor
    BY <1>4
    DEF Monitor, MonitorSample, MonitorReset, MonitorReturn, MonitorOnly, fetcherVars
  <1>5. CASE ReaderStep \/ CancelStep \/ DisconnectStep \/ UNCHANGED vars
    BY <1>5
    DEF ReaderStep, CancelStep, DisconnectStep, DownloadUnchanged, vars, fetcherVars
  <1>. QED BY <1>1, <1>2, <1>3, <1>4, <1>5 DEF Next

\* Each goroutine makes one call for one chunk and leaves it when it has failed
\* or its data is offered to the buffer.  Together with Protocol's
\* FetchesKeepTheContract: what Download takes as one step is what fetchChunk does.
THEOREM EngineReliesOnContract == Spec => ReliesOnChunkFetch
  <1>1. Init => Contract!Init
    BY DEF Init, Contract!Init, CallOf
  <1>2. TypeInv /\ [Next]_vars => [Contract!Next]_Calls
    <2>. SUFFICES ASSUME TypeInv, [Next]_vars PROVE [Contract!Next]_Calls
      OBVIOUS
    <2>1. CASE UNCHANGED <<stage, chunk>>
      <3>1. Calls' = Calls
        BY <2>1 DEF Calls, CallOf
      <3>. QED BY <3>1
    <2>. QED BY <2>1, OneFetcherMoves, FetcherFollowsContract
  <1>3. Init => TypeInv
    BY TypeInit
  <1>4. TypeInv /\ [Next]_vars => TypeInv'
    BY TypeStep
  <1>. QED
    BY <1>1, <1>2, <1>3, <1>4, PTL DEF Spec, ReliesOnChunkFetch, Contract!Spec, Calls

=============================================================================

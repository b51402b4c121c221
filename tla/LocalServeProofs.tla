-------------------------- MODULE LocalServeProofs --------------------------
(***************************************************************************)
(* Theorems of LocalServe, for every length of the track, size of the      *)
(* buffer and gate.  The buffer is the run of chunks between reader and    *)
(* producer; everything else follows from where the run starts and ends.   *)
(***************************************************************************)
EXTENDS LocalServe, FiniteSetTheorems, TLAPS

----------------------------------------------------------------------------
(* The invariant.                                                          *)

\* The producer is inside the track until it stops, and it stops early only
\* if the track was removed.
StopsAtTheEnd ==
    /\ servePc \in {"check", "get", "store", "woken"} => serveIndex < TotalChunks
    /\ servePc \in {"finish", "close"} \/ done => serveIndex = TotalChunks \/ removed
    /\ done => servePc \in {"close", "returned"}
    /\ ~stored => removed
    /\ readerPc = "missing" => removed

RunStarts == nextRead <= serveIndex

SleepsInPlace == "producer" \in asleep => servePc = "woken"

LocalInv ==
    TypeOK /\ BufferIsARun /\ RunStarts /\ StopsAtTheEnd /\ SleepsInPlace /\ SleepsForAReason

LEMMA LocalStarts == Init => LocalInv
  <1>. SUFFICES ASSUME Init PROVE LocalInv
    OBVIOUS
  <1>. USE TrackAssumption, ReadBufferAssumption DEF Init, ReadBufferInit
  <1>1. TypeOK
    <2>1. 0 \in 0 .. PartsPerChunk /\ 0 \in Positions
      BY DEF Positions
    <2>2. chunks \in [Chunks -> 0 .. PartsPerChunk]
      BY <2>1
    <2>. QED BY <2>1, <2>2 DEF TypeOK, ReaderStages, ServeStages
  <1>2. Buffered = {}
    BY DEF Buffered
  <1>3. 0 .. 0 - 1 = {}
    OBVIOUS
  <1>4. BufferIsARun
    BY <1>2, <1>3 DEF BufferIsARun
  <1>5. RunStarts /\ StopsAtTheEnd /\ SleepsInPlace
    BY DEF RunStarts, StopsAtTheEnd, SleepsInPlace
  <1>6. SleepsForAReason
    BY DEF SleepsForAReason, Threads
  <1>. QED BY <1>1, <1>4, <1>5, <1>6 DEF LocalInv

\* A full buffer holds the chunk the reader is at and opens the gate: the run
\* is not empty and starts with that chunk.
LEMMA FullIsReadable ==
    ASSUME TypeOK, BufferIsARun, Full
    PROVE  nextRead \in Buffered /\ GateOpen
  <1>. USE TrackAssumption, ReadBufferAssumption
  <1>1. nextRead \in Nat /\ serveIndex \in Nat /\ received = serveIndex
    BY DEF TypeOK, BufferIsARun, Positions
  <1>2. {i \in Buffered : i >= nextRead} = nextRead .. serveIndex - 1
    BY <1>1 DEF BufferIsARun
  <1>3. BufferAhead = Cardinality(nextRead .. serveIndex - 1)
    BY <1>2 DEF BufferAhead
  <1>4. Cardinality(nextRead .. serveIndex - 1) =
          IF nextRead > serveIndex - 1 THEN 0 ELSE (serveIndex - 1) - nextRead + 1
    BY <1>1, FS_Interval
  <1>5. Cardinality(nextRead .. serveIndex - 1) >= MaxBufferChunks
    BY <1>3 DEF Full
  <1>6. nextRead < serveIndex /\ serveIndex - nextRead >= MaxBufferChunks
    BY <1>1, <1>4, <1>5
  <1>7. nextRead \in Buffered
    BY <1>1, <1>6 DEF BufferIsARun
  <1>. QED BY <1>1, <1>6, <1>7 DEF GateOpen

\* Whether the buffer is full depends on which chunks are in it.
LEMMA FullStays ==
    ASSUME UNCHANGED nextRead, Buffered' = Buffered
    PROVE  Full' <=> Full
  BY DEF Full, BufferAhead

----------------------------------------------------------------------------
(* The producer.                                                           *)

\* Steps that change neither the buffer nor who sleeps.
LEMMA ProducerMoves ==
    ASSUME LocalInv, ServeCheck \/ ServeGet \/ ServeWoken
    PROVE  LocalInv'
  <1>. USE TrackAssumption
  <1>1. UNCHANGED <<chunks, nextRead, received, done, cancelled, asleep, readerPc,
                    serveIndex, stored, removed>>
    BY DEF ServeCheck, ServeGet, ServeWoken, readVars, bufferVars, storageVars
  <1>2. Buffered' = Buffered
    BY <1>1 DEF Buffered
  <1>3. TypeOK' /\ BufferIsARun' /\ RunStarts'
    BY <1>1, <1>2 DEF LocalInv, TypeOK, BufferIsARun, RunStarts, ServeCheck, ServeGet, ServeWoken, ServeStages
  <1>4. StopsAtTheEnd'
    BY <1>1 DEF LocalInv, StopsAtTheEnd, ServeCheck, ServeGet, ServeWoken
  <1>5. SleepsInPlace'
    BY <1>1 DEF LocalInv, SleepsInPlace, ServeCheck, ServeGet, ServeWoken
  <1>6. SleepsForAReason'
    <2>1. Full' <=> Full
      BY <1>1, <1>2, FullStays
    <2>2. servePc \notin {"announce", "close"}
      BY DEF ServeCheck, ServeGet, ServeWoken
    <2>. QED BY <1>1, <1>2, <2>1, <2>2 DEF LocalInv, SleepsForAReason, GateOpen
  <1>. QED BY <1>3, <1>4, <1>5, <1>6 DEF LocalInv

LEMMA ProducerWaits ==
    ASSUME LocalInv, ServeWait
    PROVE  LocalInv'
  <1>1. /\ UNCHANGED <<chunks, nextRead, received, done, cancelled, readerPc,
                       serveIndex, stored, removed>>
        /\ asleep' = asleep \cup {"producer"} /\ servePc = "store" /\ servePc' = "woken" /\ Full
    BY DEF ServeWait, Sleep, bufferVars, storageVars
  <1>2. Buffered' = Buffered
    BY <1>1 DEF Buffered
  <1>3. TypeOK' /\ BufferIsARun' /\ RunStarts' /\ StopsAtTheEnd' /\ SleepsInPlace'
    BY <1>1, <1>2 DEF LocalInv, TypeOK, BufferIsARun, RunStarts, StopsAtTheEnd, SleepsInPlace, ServeStages, Threads
  <1>4. "reader" \notin asleep
    <2>1. nextRead \in Buffered /\ GateOpen
      BY <1>1, FullIsReadable DEF LocalInv
    <2>. QED BY <1>1, <2>1 DEF LocalInv, SleepsForAReason
  <1>5. Full'
    BY <1>1, <1>2, FullStays
  <1>6. SleepsForAReason'
    BY <1>1, <1>4, <1>5 DEF SleepsForAReason, Threads
  <1>. QED BY <1>3, <1>6 DEF LocalInv

LEMMA ProducerStores ==
    ASSUME LocalInv, ServeStore
    PROVE  LocalInv'
  <1>. USE TrackAssumption, ReadBufferAssumption
  <1>1. /\ UNCHANGED <<nextRead, done, cancelled, asleep, readerPc, stored, removed>>
        /\ chunks' = [chunks EXCEPT ![serveIndex] = PartsPerChunk]
        /\ received' = received + 1
        /\ serveIndex' = serveIndex + 1
        /\ servePc = "store" /\ servePc' = "announce"
    BY DEF ServeStore, Store, storageVars
  <1>2. /\ serveIndex \in Nat /\ serveIndex < TotalChunks /\ nextRead \in Nat
        /\ serveIndex \in Chunks /\ TotalChunks \in Nat
    BY <1>1 DEF LocalInv, TypeOK, StopsAtTheEnd, Positions, Chunks
  <1>3. nextRead <= serveIndex
    BY DEF LocalInv, RunStarts
  <1>4. TypeOK'
    BY <1>1, <1>2 DEF LocalInv, TypeOK, BufferIsARun, Positions, ServeStages
  <1>5. Buffered' = Buffered \cup {serveIndex}
    BY <1>1, <1>2 DEF LocalInv, TypeOK, Buffered
  <1>6. BufferIsARun'
    <2>1. nextRead .. serveIndex = nextRead .. serveIndex - 1 \cup {serveIndex}
      BY <1>2, <1>3
    <2>2. (serveIndex + 1) - 1 = serveIndex
      BY <1>2
    <2>. QED BY <1>1, <1>5, <2>1, <2>2 DEF LocalInv, BufferIsARun
  <1>7. RunStarts' /\ StopsAtTheEnd' /\ SleepsInPlace'
    BY <1>1, <1>2, <1>3 DEF RunStarts, LocalInv, StopsAtTheEnd, SleepsInPlace
  <1>8. SleepsForAReason'
    BY <1>1 DEF LocalInv, SleepsForAReason, SleepsInPlace
  <1>. QED BY <1>4, <1>6, <1>7, <1>8 DEF LocalInv

LEMMA ProducerAnnounces ==
    ASSUME LocalInv, ServeAnnounce \/ ServeClose
    PROVE  LocalInv'
  <1>1. /\ UNCHANGED <<chunks, nextRead, received, done, cancelled, readerPc,
                       serveIndex, stored, removed>>
        /\ asleep' = {}
        /\ \/ servePc = "announce" /\ servePc' = IF serveIndex < TotalChunks THEN "check" ELSE "finish"
           \/ servePc = "close" /\ servePc' = "returned"
    BY DEF ServeAnnounce, ServeClose, Broadcast, bufferVars, storageVars
  <1>2. Buffered' = Buffered
    BY <1>1 DEF Buffered
  <1>3. TypeOK' /\ BufferIsARun' /\ RunStarts' /\ SleepsInPlace'
    BY <1>1, <1>2 DEF LocalInv, TypeOK, BufferIsARun, RunStarts, SleepsInPlace, ServeStages
  <1>4. StopsAtTheEnd'
    <2>1. ~(serveIndex < TotalChunks) => serveIndex = TotalChunks
      BY TrackAssumption DEF LocalInv, TypeOK, Positions
    <2>. QED BY <1>1, <2>1 DEF LocalInv, StopsAtTheEnd
  <1>5. SleepsForAReason'
    BY <1>1 DEF SleepsForAReason, Threads
  <1>. QED BY <1>3, <1>4, <1>5 DEF LocalInv

LEMMA ProducerFinishes ==
    ASSUME LocalInv, ServeFinish
    PROVE  LocalInv'
  <1>1. /\ UNCHANGED <<chunks, nextRead, received, cancelled, asleep, readerPc,
                       serveIndex, stored, removed>>
        /\ done' = TRUE /\ servePc = "finish" /\ servePc' = "close"
    BY DEF ServeFinish, SetDone, storageVars
  <1>2. Buffered' = Buffered
    BY <1>1 DEF Buffered
  <1>3. /\ TypeOK' /\ BufferIsARun' /\ RunStarts' /\ StopsAtTheEnd' /\ SleepsInPlace'
    BY <1>1, <1>2 DEF LocalInv, TypeOK, BufferIsARun, RunStarts, StopsAtTheEnd, SleepsInPlace, ServeStages
  <1>4. SleepsForAReason'
    BY <1>1 DEF LocalInv, SleepsForAReason, SleepsInPlace
  <1>. QED BY <1>3, <1>4 DEF LocalInv

----------------------------------------------------------------------------
(* The reader, and what others do.                                         *)

\* Steps that leave the buffer alone and wake nobody.
LEMMA OthersMove ==
    ASSUME LocalInv, UNCHANGED <<bufferVars, serveVars>>,
           cancelled' \in BOOLEAN, stored' \in BOOLEAN, removed' \in BOOLEAN,
           removed => removed', ~stored' => removed',
           readerPc' \in ReaderStages, readerPc' = "missing" => removed',
           \/ UNCHANGED <<asleep, readerPc>>
           \/ asleep' = asleep /\ "reader" \notin asleep
           \/ /\ asleep' = asleep \cup {"reader"} /\ readerPc' = readerPc
              /\ \/ readerPc = "gate" /\ ~GateOpen
                 \/ readerPc = "reading" /\ nextRead \notin Buffered /\ ~done
    PROVE  LocalInv'
  <1>1. UNCHANGED <<chunks, nextRead, received, done, servePc, serveIndex>>
    BY DEF bufferVars, serveVars
  <1>2. Buffered' = Buffered
    BY <1>1 DEF Buffered
  <1>3. TypeOK' /\ BufferIsARun' /\ RunStarts' /\ StopsAtTheEnd' /\ SleepsInPlace'
    BY <1>1, <1>2 DEF LocalInv, TypeOK, BufferIsARun, RunStarts, StopsAtTheEnd, SleepsInPlace, Threads
  <1>4. SleepsForAReason'
    <2>1. Full' <=> Full
      BY <1>1, <1>2, FullStays
    <2>2. Full => nextRead \in Buffered /\ GateOpen
      BY FullIsReadable DEF LocalInv
    <2>3. GateOpen' <=> GateOpen
      BY <1>1 DEF GateOpen
    <2>4. CASE UNCHANGED <<asleep, readerPc>>
      BY <1>1, <1>2, <2>1, <2>3, <2>4 DEF LocalInv, SleepsForAReason
    <2>5. CASE asleep' = asleep /\ "reader" \notin asleep
      BY <1>1, <1>2, <2>1, <2>5 DEF LocalInv, SleepsForAReason, Threads
    <2>6. CASE /\ asleep' = asleep \cup {"reader"} /\ readerPc' = readerPc
               /\ \/ readerPc = "gate" /\ ~GateOpen
                  \/ readerPc = "reading" /\ nextRead \notin Buffered /\ ~done
      <3>1. ~Full
        BY <2>2, <2>6
      <3>2. "producer" \notin asleep
        BY <3>1 DEF LocalInv, SleepsForAReason
      <3>. QED BY <1>1, <1>2, <2>3, <2>6, <3>2 DEF SleepsForAReason, Threads
    <2>. QED BY <2>4, <2>5, <2>6
  <1>. QED BY <1>3, <1>4 DEF LocalInv

LEMMA PartRead ==
    ASSUME LocalInv, ReadPart, UNCHANGED <<serveVars, storageVars>>
    PROVE  LocalInv'
  <1>. USE TrackAssumption, ReadBufferAssumption
  <1>1. PICK n \in 1 .. chunks[nextRead] - 1 : chunks' = [chunks EXCEPT ![nextRead] = @ - n]
    BY DEF ReadPart
  <1>2. /\ UNCHANGED <<nextRead, received, done, cancelled, asleep, readerPc,
                       servePc, serveIndex, stored, removed>>
        /\ nextRead \in Buffered /\ readerPc = "reading" /\ "reader" \notin asleep
    BY DEF ReadPart, ReaderRuns, serveVars, storageVars
  <1>3. nextRead \in Chunks /\ chunks[nextRead] \in 0 .. PartsPerChunk
    BY <1>2 DEF LocalInv, TypeOK, Buffered
  <1>4. chunks[nextRead] - n \in 1 .. PartsPerChunk
    BY <1>1, <1>3
  <1>5. chunks' \in [Chunks -> 0 .. PartsPerChunk] /\ Buffered' = Buffered
    BY <1>1, <1>2, <1>3, <1>4 DEF LocalInv, TypeOK, Buffered
  <1>6. TypeOK' /\ BufferIsARun' /\ RunStarts' /\ StopsAtTheEnd' /\ SleepsInPlace'
    BY <1>2, <1>5 DEF LocalInv, TypeOK, BufferIsARun, RunStarts, StopsAtTheEnd, SleepsInPlace
  <1>7. SleepsForAReason'
    <2>1. Full' <=> Full
      BY <1>2, <1>5, FullStays
    <2>. QED BY <1>2, <2>1 DEF LocalInv, SleepsForAReason
  <1>. QED BY <1>6, <1>7 DEF LocalInv

LEMMA RestRead ==
    ASSUME LocalInv, ReadRest, UNCHANGED <<serveVars, storageVars>>
    PROVE  LocalInv'
  <1>. USE TrackAssumption, ReadBufferAssumption
  <1>1. /\ chunks' = [chunks EXCEPT ![nextRead] = 0]
        /\ nextRead' = nextRead + 1 /\ asleep' = {}
        /\ UNCHANGED <<received, done, cancelled, readerPc, servePc, serveIndex, stored, removed>>
        /\ nextRead \in Buffered
    BY DEF ReadRest, Broadcast, serveVars, storageVars
  <1>2. /\ nextRead \in Nat /\ serveIndex \in Nat /\ serveIndex <= TotalChunks
        /\ nextRead \in Chunks /\ nextRead < serveIndex
    BY <1>1 DEF LocalInv, TypeOK, BufferIsARun, Positions, Buffered
  <1>3. TypeOK'
    <2>1. nextRead + 1 \in Positions
      BY <1>2 DEF Positions
    <2>. QED BY <1>1, <1>2, <2>1 DEF LocalInv, TypeOK
  <1>4. Buffered' = Buffered \ {nextRead}
    BY <1>1, <1>2 DEF LocalInv, TypeOK, Buffered
  <1>5. BufferIsARun'
    <2>1. (nextRead + 1) .. serveIndex - 1 = (nextRead .. serveIndex - 1) \ {nextRead}
      BY <1>2
    <2>. QED BY <1>1, <1>4, <2>1 DEF LocalInv, BufferIsARun
  <1>6. RunStarts' /\ StopsAtTheEnd' /\ SleepsInPlace' /\ SleepsForAReason'
    BY <1>1, <1>2 DEF LocalInv, RunStarts, StopsAtTheEnd, SleepsInPlace, SleepsForAReason, Threads
  <1>. QED BY <1>3, <1>5, <1>6 DEF LocalInv

\* A reader that finds a chunk missing is where a removed track was cut off.
LEMMA MissingRead ==
    ASSUME LocalInv, ReadMissing
    PROVE  removed
  <1>1. nextRead \notin Buffered /\ done /\ nextRead < TotalChunks
    BY DEF ReadMissing
  <1>2. serveIndex # TotalChunks
    BY <1>1, TrackAssumption DEF LocalInv, TypeOK, BufferIsARun, Positions
  <1>. QED BY <1>1, <1>2 DEF LocalInv, StopsAtTheEnd

LEMMA LocalSteps == LocalInv /\ [Next]_vars => LocalInv'
  <1>. SUFFICES ASSUME LocalInv, [Next]_vars PROVE LocalInv'
    OBVIOUS
  <1>0. TypeOK /\ StopsAtTheEnd
    BY DEF LocalInv
  <1>. USE <1>0 DEF TypeOK, StopsAtTheEnd, ReaderStages
  <1>1. CASE Serve
    BY <1>1, ProducerMoves, ProducerWaits, ProducerStores, ProducerAnnounces, ProducerFinishes
       DEF Serve
  <1>2. CASE RemoveTrack \/ LoadTrack
    BY <1>2, OthersMove DEF RemoveTrack, LoadTrack, readVars
  <1>3. CASE CancelStep \/ DisconnectStep
    BY <1>3, OthersMove
       DEF CancelStep, DisconnectStep, Cancel, Disconnect, ReaderRuns, storageVars
  <1>4. CASE ReaderStep
    <2>0. UNCHANGED <<serveVars, storageVars>>
      BY <1>4 DEF ReaderStep
    <2>1. CASE ReadPart
      BY <2>0, <2>1, PartRead
    <2>2. CASE ReadRest
      BY <2>0, <2>2, RestRead
    <2>3. CASE ReadMissing
      <3>1. removed
        BY <2>3, MissingRead
      <3>. QED BY <2>0, <2>3, <3>1, OthersMove DEF ReadMissing, ReaderRuns, storageVars
    <2>4. CASE PassGate \/ GateCancelled \/ ReadEOF
      BY <2>0, <2>4, OthersMove DEF PassGate, GateCancelled, ReadEOF, ReaderRuns, storageVars
    <2>5. CASE GateWait \/ ReadWait
      BY <2>0, <2>5, OthersMove DEF GateWait, ReadWait, ReaderRuns, Sleep, storageVars
    <2>. QED BY <1>4, <2>1, <2>2, <2>3, <2>4, <2>5 DEF ReaderStep, Reader
  <1>5. CASE UNCHANGED vars
    BY <1>5, OthersMove DEF vars, readVars, storageVars
  <1>. QED BY <1>1, <1>2, <1>3, <1>4, <1>5 DEF Next

LEMMA LocalInvariant == Spec => []LocalInv
  BY LocalStarts, LocalSteps, PTL DEF Spec

----------------------------------------------------------------------------
(* The theorems.                                                           *)

\* Every variable stays in its type.
THEOREM LocalTypeCorrect == Spec => []TypeOK
  <1>1. LocalInv => TypeOK
    BY DEF LocalInv
  <1>. QED BY LocalInvariant, <1>1, PTL

\* The buffer is the run of chunks between the reader and the producer.
THEOREM ServedInOrder == Spec => []BufferIsARun
  <1>1. LocalInv => BufferIsARun
    BY DEF LocalInv
  <1>. QED BY LocalInvariant, <1>1, PTL

\* Producer and reader never sleep waiting for each other, and no wake-up is
\* lost.
THEOREM NoWakeupIsMissed == Spec => []SleepsForAReason
  <1>1. LocalInv => SleepsForAReason
    BY DEF LocalInv
  <1>. QED BY LocalInvariant, <1>1, PTL

\* A truncated track was removed from storage.
THEOREM TruncatedIsRemoved == Spec => []MissingOnlyIfRemoved
  <1>1. LocalInv => MissingOnlyIfRemoved
    BY DEF LocalInv, StopsAtTheEnd, MissingOnlyIfRemoved
  <1>. QED BY LocalInvariant, <1>1, PTL

----------------------------------------------------------------------------
(* Refinement: a track that is not removed is served as TrackReader says.  *)

\* Parts of the next chunk already delivered.
Begun == IF nextRead \in Buffered THEN PartsPerChunk - chunks[nextRead] ELSE 0

\* Only the chunk the reader is in can be partly read.
OnlyNextIsBegun ==
    \A i \in Chunks : i # nextRead => chunks[i] \in {0, PartsPerChunk}

ServingInv == LocalInv /\ OnlyNextIsBegun

LEMMA BegunKept ==
    ASSUME ServingInv, [Next]_vars
    PROVE  OnlyNextIsBegun'
  <1>. USE DEF ServingInv, LocalInv, TypeOK, OnlyNextIsBegun
  <1>1. CASE UNCHANGED <<chunks, nextRead>>
    BY <1>1
  <1>2. CASE ServeStore
    BY <1>2 DEF ServeStore, Store
  <1>3. CASE ReadPart
    BY <1>3 DEF ReadPart
  <1>4. CASE ReadRest
    BY <1>4 DEF ReadRest
  <1>5. CASE Serve /\ ~ServeStore
    BY <1>1, <1>5
    DEF Serve, ServeCheck, ServeGet, ServeWait, ServeWoken, ServeAnnounce, ServeFinish,
        ServeClose, SetDone, readVars, bufferVars
  <1>6. CASE ReaderStep /\ ~ReadPart /\ ~ReadRest
    BY <1>1, <1>6
    DEF ReaderStep, Reader, PassGate, GateCancelled, GateWait, ReadEOF, ReadMissing,
        ReadWait, bufferVars
  <1>7. CASE RemoveTrack \/ LoadTrack \/ CancelStep \/ DisconnectStep \/ UNCHANGED vars
    BY <1>1, <1>7
    DEF RemoveTrack, LoadTrack, CancelStep, DisconnectStep, Cancel, Disconnect, vars,
        readVars, bufferVars
  <1>. QED BY <1>2, <1>3, <1>4, <1>5, <1>6, <1>7 DEF Next, ReaderStep

\* Reading n more parts of chunk q, r of which are read, is a Deliver.
LEMMA ReadIsDeliver ==
    ASSUME NEW q \in Nat, q < TotalChunks,
           NEW r \in 0 .. PartsPerChunk - 1,
           NEW n \in 1 .. PartsPerChunk - r,
           PartsDelivered = q * PartsPerChunk + r,
           PartsDelivered' = q * PartsPerChunk + (r + n),
           ReaderStatus = "open", ReaderStatus' = "open"
    PROVE  Promise!Deliver
  <1>. DEFINE p == q * PartsPerChunk + r
  <1>1. PartsPerChunk \in Nat \ {0} /\ TotalChunks \in Nat
    BY ReadBufferAssumption, TrackAssumption
  <1>2. p \in Nat /\ p % PartsPerChunk = r /\ q * PartsPerChunk + (r + n) = p + n
    BY <1>1
  <1>3. p < TotalChunks * PartsPerChunk
    <2>1. /\ (q + 1) * PartsPerChunk \in Int /\ TotalChunks * PartsPerChunk \in Int
          /\ (q + 1) * PartsPerChunk <= TotalChunks * PartsPerChunk
      BY <1>1
    <2>2. p < (q + 1) * PartsPerChunk
      BY <1>1
    <2>. QED BY <1>2, <2>1, <2>2
  <1>. HIDE DEF p
  <1>4. PartsDelivered = p /\ PartsDelivered' = p + n
    BY <1>2 DEF p
  <1>. QED BY <1>2, <1>3, <1>4 DEF Promise!Deliver, Promise!PartsLeft, Promise!TrackParts

\* A Read that returns data delivers the next parts of the track.
LEMMA ReadDelivers ==
    ASSUME ServingInv, ReadPart \/ ReadRest
    PROVE  Promise!Deliver
  <1>. USE DEF ServingInv, LocalInv, TypeOK
  <1>1. ReaderStatus = "open" /\ ReaderStatus' = "open"
    BY DEF ReadPart, ReadRest, ReaderRuns, ReaderStatus
  <1>2. /\ nextRead \in Nat /\ nextRead < TotalChunks /\ nextRead \in Chunks
        /\ nextRead \in Buffered /\ chunks[nextRead] \in 1 .. PartsPerChunk
        /\ PartsPerChunk \in Nat \ {0}
    BY TrackAssumption, ReadBufferAssumption DEF ReadPart, ReadRest, Buffered, Chunks
  <1>3. PICK left \in 1 .. PartsPerChunk : left = chunks[nextRead]
    BY <1>2
  <1>4. PICK r \in 0 .. PartsPerChunk - 1 : r = PartsPerChunk - left
    BY <1>2
  <1>5. /\ PartsDelivered = nextRead * PartsPerChunk + r
        /\ PartsDelivered' = nextRead' * PartsPerChunk + Begun'
    BY <1>2, <1>3, <1>4 DEF PartsDelivered, Begun
  <1>6. CASE ReadPart
    <2>1. PICK n \in 1 .. left - 1 : chunks' = [chunks EXCEPT ![nextRead] = @ - n]
      BY <1>3, <1>6 DEF ReadPart
    <2>2. nextRead' = nextRead /\ chunks'[nextRead] = left - n
      BY <1>2, <1>3, <1>6, <2>1 DEF ReadPart
    <2>3. nextRead' \in Buffered'
      BY <1>2, <1>3, <2>1, <2>2 DEF Buffered
    <2>4. Begun' = r + n /\ n \in 1 .. PartsPerChunk - r
      BY <1>2, <1>3, <1>4, <2>1, <2>2, <2>3 DEF Begun
    <2>. QED BY <1>1, <1>2, <1>5, <2>2, <2>4, ReadIsDeliver
  <1>7. CASE ReadRest
    <2>1. nextRead' = nextRead + 1 /\ chunks' = [chunks EXCEPT ![nextRead] = 0]
      BY <1>7 DEF ReadRest
    <2>2. Begun' = 0
      <3>1. CASE nextRead' \in Buffered'
        <4>1. nextRead' \in Chunks /\ nextRead' # nextRead /\ chunks'[nextRead'] > 0
          BY <1>2, <2>1, <3>1 DEF Buffered
        <4>2. chunks'[nextRead'] = PartsPerChunk
          BY <2>1, <4>1 DEF OnlyNextIsBegun
        <4>. QED BY <1>2, <3>1, <4>2 DEF Begun
      <3>2. CASE nextRead' \notin Buffered'
        BY <3>2 DEF Begun
      <3>. QED BY <3>1, <3>2
    <2>3. PICK n \in 1 .. PartsPerChunk - r : n = left
      BY <1>2, <1>3, <1>4
    <2>4. PartsDelivered' = nextRead * PartsPerChunk + (r + n)
      <3>1. PartsDelivered' = (nextRead + 1) * PartsPerChunk + 0
        BY <1>5, <2>1, <2>2
      <3>2. r + n = PartsPerChunk
        BY <1>2, <1>4, <2>3
      <3>. QED BY <1>2, <3>1, <3>2
    <2>. QED BY <1>1, <1>2, <1>5, <2>4, ReadIsDeliver
  <1>. QED BY <1>6, <1>7

\* The chunk stored is not the one the reader is in.
LEMMA StoringStutters ==
    ASSUME ServingInv, ServeStore
    PROVE  UNCHANGED <<PartsDelivered, ReaderStatus>>
  <1>. USE DEF ServingInv, LocalInv, TypeOK
  <1>1. /\ chunks' = [chunks EXCEPT ![serveIndex] = PartsPerChunk]
        /\ UNCHANGED <<nextRead, readerPc>>
    BY DEF ServeStore, Store
  <1>2. serveIndex \in Chunks /\ serveIndex \in Nat
    BY TrackAssumption DEF ServeStore, StopsAtTheEnd, Positions, Chunks
  <1>3. CASE nextRead = serveIndex
    <2>1. nextRead \notin Buffered
      BY <1>2, <1>3 DEF BufferIsARun
    <2>2. chunks'[nextRead'] = PartsPerChunk
      BY <1>1, <1>2, <1>3
    <2>. QED BY <1>1, <2>1, <2>2, ReadBufferAssumption DEF PartsDelivered, ReaderStatus
  <1>4. CASE nextRead # serveIndex
    <2>1. nextRead \in Buffered' <=> nextRead \in Buffered
      BY <1>1, <1>2, <1>4 DEF Buffered
    <2>2. nextRead \in Buffered => chunks'[nextRead] = chunks[nextRead]
      BY <1>1, <1>4 DEF Buffered
    <2>. QED BY <1>1, <2>1, <2>2 DEF PartsDelivered, ReaderStatus
  <1>. QED BY <1>3, <1>4

\* The other steps leave what was delivered; they may end the stream.
LEMMA EndsAsPromised ==
    ASSUME ServingInv, [Next]_vars, UNCHANGED <<chunks, nextRead>>
    PROVE  [Promise!Next \/ CutShort]_<<PartsDelivered, ReaderStatus>>
  <1>1. PartsDelivered' = PartsDelivered
    BY DEF PartsDelivered, Buffered
  <1>2. CASE readerPc' = readerPc \/ PassGate
    BY <1>1, <1>2 DEF PassGate, ReaderRuns, ReaderStatus
  <1>3. CASE GateCancelled \/ Disconnect
    <2>1. ReaderStatus = "open" /\ ReaderStatus' = "closed"
      BY <1>3 DEF GateCancelled, Disconnect, ReaderRuns, ReaderStatus
    <2>. QED BY <1>1, <2>1 DEF Promise!Next, Promise!GiveUp
  <1>4. CASE ReadEOF
    <2>1. ReaderStatus = "open" /\ ReaderStatus' = "ended"
      BY <1>4 DEF ReadEOF, ReaderRuns, ReaderStatus
    <2>2. nextRead = TotalChunks /\ nextRead \notin Buffered
      BY <1>4, TrackAssumption DEF ReadEOF, ServingInv, LocalInv, TypeOK, Positions
    <2>3. PartsDelivered = TotalChunks * PartsPerChunk
      <3>1. PartsDelivered = TotalChunks * PartsPerChunk + 0
        BY <2>2 DEF PartsDelivered
      <3>. QED BY <3>1, TrackAssumption, ReadBufferAssumption
    <2>. QED BY <1>1, <2>1, <2>3 DEF Promise!Next, Promise!End, Promise!TrackParts
  <1>5. CASE ReadMissing
    <2>1. removed
      BY <1>5, MissingRead DEF ServingInv
    <2>2. ReaderStatus = "open" /\ ReaderStatus' = "broken"
      BY <1>5 DEF ReadMissing, ReaderRuns, ReaderStatus
    <2>. QED BY <1>1, <2>1, <2>2 DEF CutShort
  <1>6. \/ readerPc' = readerPc \/ PassGate \/ GateCancelled
        \/ Disconnect \/ ReadEOF \/ ReadMissing
    <2>1. CASE Serve \/ RemoveTrack \/ LoadTrack
      BY <2>1
      DEF Serve, ServeCheck, ServeGet, ServeWait, ServeWoken, ServeStore, ServeAnnounce,
          ServeFinish, ServeClose, RemoveTrack, LoadTrack, readVars
    <2>2. CASE ReaderStep
      BY <2>2 DEF ReaderStep, Reader, GateWait, ReadPart, ReadRest, ReadWait
    <2>3. CASE CancelStep \/ DisconnectStep \/ UNCHANGED vars
      BY <2>3 DEF CancelStep, DisconnectStep, Cancel, vars, readVars
    <2>. QED BY <2>1, <2>2, <2>3 DEF Next
  <1>. QED BY <1>2, <1>3, <1>4, <1>5, <1>6

LEMMA ServingStep ==
    ASSUME ServingInv, [Next]_vars
    PROVE  [Promise!Next \/ CutShort]_<<PartsDelivered, ReaderStatus>>
  <1>1. CASE ReadPart \/ ReadRest
    BY <1>1, ReadDelivers DEF Promise!Next
  <1>2. CASE ServeStore
    BY <1>2, StoringStutters
  <1>3. CASE UNCHANGED <<chunks, nextRead>>
    BY <1>3, EndsAsPromised
  <1>4. \/ ReadPart \/ ReadRest \/ ServeStore \/ UNCHANGED <<chunks, nextRead>>
    <2>1. CASE Serve
      BY <2>1
      DEF Serve, ServeCheck, ServeGet, ServeWait, ServeWoken, ServeAnnounce, ServeFinish,
          ServeClose, SetDone, readVars, bufferVars
    <2>2. CASE ReaderStep
      BY <2>2
      DEF ReaderStep, Reader, PassGate, GateCancelled, GateWait, ReadEOF, ReadMissing,
          ReadWait, bufferVars
    <2>3. CASE RemoveTrack \/ LoadTrack \/ CancelStep \/ DisconnectStep \/ UNCHANGED vars
      BY <2>3
      DEF RemoveTrack, LoadTrack, CancelStep, DisconnectStep, Cancel, Disconnect, vars,
          readVars, bufferVars
    <2>. QED BY <2>1, <2>2, <2>3 DEF Next
  <1>. QED BY <1>1, <1>2, <1>3, <1>4

LEMMA ServingStarts == Init => Promise!Init /\ ServingInv
  <1>. SUFFICES ASSUME Init PROVE Promise!Init /\ ServingInv
    OBVIOUS
  <1>1. nextRead = 0 /\ readerPc = "gate" /\ \A i \in Chunks : chunks[i] = 0
    BY DEF Init, ReadBufferInit
  <1>2. nextRead \notin Buffered
    BY <1>1 DEF Buffered
  <1>3. PartsDelivered = 0
    <2>1. PartsDelivered = 0 * PartsPerChunk + 0
      BY <1>1, <1>2 DEF PartsDelivered
    <2>. QED BY <2>1, ReadBufferAssumption
  <1>4. ReaderStatus = "open"
    BY <1>1 DEF ReaderStatus
  <1>. QED BY <1>1, <1>3, <1>4, LocalStarts DEF Promise!Init, ServingInv, OnlyNextIsBegun

\* Whatever producer and reader interleave, and however often the track is
\* removed and shared again: the reader gets its parts in order, none twice and
\* none skipped, and EOF after the last and only then; the stream breaks off
\* only if the track was removed.
THEOREM LocalServesTheTrack == Spec => ServesTheTrack
  <1>1. ServingInv /\ [Next]_vars => ServingInv'
    BY LocalSteps, BegunKept DEF ServingInv
  <1>2. ServingInv /\ [Next]_vars
          => [Promise!Next \/ CutShort]_<<PartsDelivered, ReaderStatus>>
    BY ServingStep
  <1>. QED BY <1>1, <1>2, ServingStarts, PTL DEF Spec, ServesTheTrack

=============================================================================

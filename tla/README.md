# music_p2p in TLA+

A verification project for the peer-to-peer music node of this repository
(`src/`, Go): TLA+ modules of its components, TLC runs over small instances, and
proofs checked by TLAPS. Line numbers below refer to the files under `src/`.

## 1. Inventory

The node shares MP3 tracks cut into frame-aligned chunks, finds providers
through a DHT, downloads chunks from several peers at a time and plays or
re-serves them. Components, their state, what is hard about them, and what
makes them correct:

| component | state | operations | hard behaviour | correct when | modelled |
|---|---|---|---|---|---|
| **chunk scheduler** `internal/scheduler` | position, chunks in flight, completed, failures per chunk and peer, congestion window | NextRequests, MarkCompleted, MarkFailed, SetCurrentPosition, ResetTo | called by four kinds of threads; stale positions; resets under running fetches | no chunk is skipped for ever; requests stay within the cap and the critical zone | yes |
| **streaming engine** `internal/streaming/engine.go` | read buffer, `nextRead`, `received`, `done`, one condition variable | StartStreaming, download loop, fetch goroutines, stall monitor, Read, WaitForChunks, Stop | duplicates, stalls, backpressure, lost wake-ups, cancellation, reuse for the next track | the reader gets the track whole, in order and once, and it ends | yes |
| **local playback** same file | the same buffer | serveFromLocalStorage | the track is removed meanwhile | in order, bounded, truncated only if removed | yes |
| **connection pool** `internal/connpool` | idle stack and active count per peer | Acquire, Release, reapLoop, Close | dialling outside the lock, expiry, close | a stream has one user; none leaks | yes |
| **music protocol** engine.go ServeStream, fetchChunk | a stream with its buffered reader | GET, TOTAL | a pooled stream after an error, framing | a reply belongs to the request before it | yes |
| **storage** `internal/storage` | chunks per CID | LoadTrack, GetChunk, RemoveTrack | frame headers at the end of the data | chunks concatenate to the frames of the file | yes |
| **queue** `internal/queue` | items, history, current | Next, Enqueue, Insert, Clear | edited through the API while the loop takes items | each item is taken once, in order | yes |
| **player, playback loop** `internal/audio`, `cmd/node` | streamers with current and next track, the shared engine | Play, SetNext, preloadNext | preloaders that wake late, a streamer that goes on to the next track | one track sounds at a time, from an engine that serves it | partly |
| **metadata gossip** `internal/metadata` | signed records by CID and MetaID | Publish, receive, upsert | records in any order, deduplication, a signature over JSON | nodes that got the same records know equally complete ones | yes |
| **finding providers** `internal/dht`, StartStreaming | provider records | Provide, FindProviders, TOTAL | stale records, peers that go meanwhile | a provider that has the track is found behind stale ones | partly |
| **joining** `internal/invite`, `internal/discovery`, API | connections, invite codes | join, connect, bootstrap, mDNS, rendezvous | stale codes, timeouts, races of two dials | the answer to a join is true; a peer that stays is connected again | partly |
| **HTTP API** `internal/api` | playback state | handlers, streaming handler | concurrent callers | each handler's effect on the components above | partly |
| **peer scoring** `internal/scoring` | successes, failures, latency per peer | RecordSuccess, RecordFailure, BestPeers | a hung peer keeps its score | a peer that fails is avoided | no |
| **adaptive bitrate** `internal/bitrate` | bandwidth estimate, current variant | MeasureBandwidth, SelectVariant | zero samples | the variant fits the estimate | no |
| **metrics, logging, generated docs** | counters | | | | no |

How they interact. One *download loop* per stream asks the scheduler what to
request and starts a goroutine per request. The goroutine takes a stream from the
pool, fetches, reports to the scheduler, offers the chunk to the read buffer and
tells the scheduler where the reader is. The *reader* (audio player or HTTP
handler) empties the buffer in order. The *stall monitor* resets the scheduler to
the reader's position when no chunk came for two seconds. Scheduler and buffer
have a mutex each (`s.mu`, `e.mu`); no thread holds both, so every value carried
from one to the other may be stale when it is used.

Above the engine, `main` takes one queue item after the other, starts the shared
engine on it and polls the player until it has finished. Each track starts a
`preloadNext` goroutine, which waits for the end of a track and may attach a
sound of a second engine to the streamer. API handlers change queue, catalogue,
metadata and connections at any time. The list of hazards, each at its line, is
in `PROJECT.json`.

## 2. Modules

| module | models | refers to |
|---|---|---|
| `Track` | the number of chunks, which the engine's modules share | engine.go, storage.go |
| `Congestion` | `recordOutcome`: the cap on requests in flight | scheduler.go:107-141 |
| `Scheduler` | the methods of the scheduler, as operators | scheduler.go |
| `ReadBuffer` | what `e.mu` guards, the condition variable and the reader | engine.go |
| `TrackReader` | abstract: parts of the track in order, then the end | what Read promises |
| `ChunkFetch` | abstract: a call for a chunk returns that chunk's bytes or fails | what fetchChunk promises |
| `Download` | loop, fetch goroutines, monitor, over Scheduler and ReadBuffer | engine.go:129-343 |
| `LocalServe` | the local producer over ReadBuffer, and storage | engine.go:174-210 |
| `EngineReuse` | one engine for track after track, late fetches included | engine.go, main.go:276-316 |
| `ConnPool` | the stream pool with its clients and reaper | pool.go |
| `Protocol` | fetchChunk and ServeStream over ConnPool's streams, which break | engine.go:345-386, 479-545 |
| `PlayQueue` | the methods of the queue, as operators | queue.go |
| `Playback` | loop of main, player, preloaders and queue handlers over PlayQueue | main.go:255-362, player.go, handlers.go |
| `Gossip` | metadata stores, their topic, signatures, restarts | metadata.go |
| `Storage` | frame sizes, the scan for frames, chunks, the catalogue | storage.go |
| `Lookup` | StartStreaming up to the first chunk, provider records that outlive tracks | engine.go:85-127, 388-427, dht.go |
| `Joining` | invite codes, join and connect, bootstrap, mDNS, rendezvous | invite.go, discovery, main.go, handlers.go |
| `*Proofs` | theorems and their lemmas | section 5 |
| `MC*` | instances for TLC; `*.cfg` give the constants | |

Two compositions matter. `Download` conjoins operators of `Scheduler` (with
`Congestion`) and `ReadBuffer`; `LocalServe` uses the same `ReadBuffer` with its
other producer, and both are shown to be `TrackReader` to whoever reads. `Protocol`
extends `ConnPool`: a pool client is a fetch, and what it does with the stream it
holds decides whether it releases it with an error.

The two meet in `ChunkFetch`. `Protocol` shows that fetchChunk, over streams that are
shared, reaped and broken, keeps that contract (`ImplementsChunkFetch`); `Download`,
where a fetch is one step that delivers or fails, uses no more than the contract
allows (`ReliesOnChunkFetch`). So the step `Download` takes is what the protocol does,
and their product, which no run could explore, need not be built.

Correspondence. An action is one critical section with the local code next to it.
Where the code releases a lock and takes it again, or broadcasts after the unlock,
there are two actions: `AcceptNew` then `Announce`; `LoopFinish` then
`LoopAnnounce`; `MonitorSample` then `MonitorReset`; `ServeStore` then
`ServeAnnounce`; `GetQueueCurrent` then `GetQueueUpcoming`; `PreloadTarget` then
`PreloadAttach`; `AcquireNone`, the dial, then `CountDialed`. `loopPc`,
`stage[f]`, `phase[c]`, `monitorPc`, `readerPc`, `servePc` and `preloadPc[n]` say
where each thread is. `asleep` is the wait set of `readCond`: a thread in it takes
no step until somebody broadcasts, even if its condition is true.

Abstractions.

* A chunk in the buffer is the number of its parts still unread; two chunks of one
  index are equal because the CID addresses the content. (`EngineReuse` drops that
  assumption and says which track a buffered chunk is of.) A reply on the wire is
  a length line and `Parts` parts tagged with their chunk, or an error line.
* Goroutines have identities from a set (`Fetchers`, `Clients`), which bounds how
  many run at a time and nothing else; the theorems hold for every such set.
* Time is not modelled: "no chunk for two seconds" may be found at any tick, an
  idle stream may expire, a join time out and a DHT record expire at any time.
* Peer scores are left out: any viable peer may be the best. So are the ABR
  estimate, metrics, logs, and `inPanic`, which selects what is logged.
* The sort of NextRequests compares priority zone and distance; both grow with the
  index, so it is the order by index, and its third key (rarity) never decides.
* In `Playback` an engine delivers its track or fails at once. Queue items are
  entries, not CIDs, and an entry is added once; so the n-th successful Play makes
  streamer n and there are at most as many streamers as items.
* In `Gossip` one letter stands for bytes that are no UTF-8 and two for what
  encoding/json makes of them; any other text comes back as it was. A signature is
  the text that was signed.
* In `Storage` a byte that starts a sync word is the record of the header fields
  that start there. Reading the file and SHA-256 are left out; the CID is the file.
* `Lookup` has one track, `Joining` the view of one node. libp2p's dialling, DHT and
  pubsub are modelled from what the code relies on and marked external in the map.

Operators that a comment calls *Mutant* state a plausible mistake in the
definition that follows them. No specification uses them; they show that a
property would notice.

## 3. Runs

| run | question | bounds | result |
|---|---|---|---|
| `congestion` | is the cap in range, lowered only by a run of failures, and does it recover? | window of 10, so that one failure in ten is tolerated, as two in twenty are; the cap moves in 2..7 | holds |
| `download` | do racing fetches, resets, partial reads and cancellation lose, repeat or block anything? Does the engine implement `TrackReader`? | 3 chunks in 2 parts, window and buffer of 2, one peer, two fetchers | holds |
| `download_liveness` | is the whole track played? | 3 chunks, window 2, two peers, one fetcher | holds |
| `local` | is local playback in order, awake and finite while the track is removed and shared? Is it `TrackReader`, cut short only by a removal? | 5 chunks in 2 parts, buffer and gate of 2 | holds |
| `protocol` | is a stream exclusive, counted, never leaked and reaped, does each fetch end, with the reply to its own request? Does it implement `ChunkFetch`? | 1 peer, 2 fetches, 3 streams, idle limit 1, 2 chunks in 2 parts | holds |
| `playback` | does one track sound at a time, from an engine that serves it, and is every item taken? | 3 items | holds |
| `gossip` | do stores given the same records agree on how complete they are, whatever is lost, reordered or restarted? | 2 nodes, 3 records: two that collide, one that JSON changes | holds |
| `storage` | are the chunks the frames of the file? | every file of at most 6 bytes over 5 kinds of byte; headers of 2 bytes, 2 frames a chunk | holds |
| `lookup` | is a provider found behind stale ones? | this node and 3 peers | holds |
| `joining` | is the answer to a join true, and is a peer that stays connected again? | 2 peers, 2 addresses | holds |
| `cancel_loop` | does a cancelled download loop return? | 2 chunks | **no** |
| `reuse` | does the buffer hold the track the engine plays? | 2 tracks, 2 chunks | **no** |

The bounds are the smallest in which the hazards occur.

* *Engine.* The track is longer than window and buffer, so the window moves and
  backpressure happens. Two fetchers with resets put one chunk in flight twice,
  before and after it was read. Locally, the producer can be a whole buffer ahead.
* *Protocol.* Two fetches of different chunks on one peer outnumber the idle limit,
  so that a release finds the stack full, and a third stream can be dialled while
  others are held or idle. Replies have a length and two parts, so a fetch
  can give up between any two of them and a stream break in the middle.
* *Playback.* Three items are the one that sounds, the one preloaded and the one
  the loop takes instead; with three streamers a preloader can wake two tracks
  late. More items repeat this.
* *Gossip.* Two records with one MetaID and different completeness, on two nodes,
  arrive in both orders and twice. A record no receiver accepts is the third.
* *Storage.* Frames of 2, 3 and 4 bytes, headers in the last byte, cut-off frames,
  a version without a table, and one to three frames for chunks of two.
* *Lookup.* Of three peers one can be stale, one unreachable and one good, in every
  order.
* *Joining.* Two peers, so that the code's owner and another are connected
  independently; two addresses, so that a code can be half out of date.

Some things worth knowing that the runs show:

* *The stall monitor is what makes a download progress.* Only a fetch goroutine
  that just delivered a chunk moves the scheduler's position. If the whole window
  is fetched before the reader reads on, nothing is left to fetch and nobody moves
  the window; the loop polls every 50 ms without effect until the monitor, two
  seconds after the last chunk, resets the scheduler to the reader's position.
  `EventuallyPlayed` holds because of the monitor: with the mutant of `ResetTo`
  that does not move the position, it fails.
* *The buffer never blocks the chunk the reader needs* because the window is no
  larger than the buffer (both are 50, in two packages):
  `FullBufferIsReadable` rests on `Window <= MaxBufferChunks`.
* *A stream goes back to the pool clean because fetchChunk reads all of a reply or
  reports an error.* Without the error flag, the rest of a reply is read by the
  next fetch (`ReplyAnswersRequest` and its mutant of `Return`).
* *The loop must wait for `IsPlaying`, not for `doneCh`.* After a gapless switch the
  streamer sounds on although its first track has fired doneCh. Polling the wrong
  one makes two tracks sound (the mutant `LoopPollBoundary`).
* *The join answer is about the connection, not about the dial*: it is 200 also when
  the peer dialled first, and with a code whose addresses are out of date.

### Disagreements between code and documents

* `cancel_loop`: the loop asleep on backpressure looks at no context, and Stop
  broadcasts nothing. When the reader has gone, the loop sleeps for ever, against
  `.specify/memory/constitution.md:46`. The local producer has the same defect
  (engine.go:193).
* `reuse`: acceptChunk gets an index and bytes, not the track. Stop waits for no
  fetch, so a fetch of the previous track that ends after StartStreaming on the
  next puts its bytes into the next track's buffer (engine.go:306, :330).

Noted while reading, and checked by no run:

* The wire format of `README.md:349` is out of date: a chunk is announced by a line
  with its length, and an error is the line `-1`, not `ERR` (engine.go:499-537).
* WaitForChunks promises to return when its context is cancelled (engine.go:547),
  but a cancellation does not wake it.
* A late report of one of two fetches of a chunk takes the chunk out of `inflight`
  while the other still runs (scheduler.go:255, :265), so it may be asked for once
  more after a failure. `InflightIsLive` is the other direction only: nothing in
  flight is without a fetch.
* ResetTo forgets requests that still run. The same chunks are sent again, so more
  fetches run than the window of `constitution.md:45` allows; the number is not
  bounded by anything but the stalls. That the copies do no harm is `ReceivedExact`.
* Seek (engine.go:437) clears chunks the scheduler believes completed and leaves
  `received`, so they would never be fetched again. Nothing calls it; it is not
  modelled.
* The pool's Close (pool.go:71) does not close the idle streams that its comment
  says it cleans up. pool.go:30 speaks of a maximum of concurrent streams per peer,
  but `maxStreamsPerPeer` is only compared with the number of idle ones. The gauge
  `PoolIdleStreams` is not decremented for expired streams (pool.go:109, :193).
* fetchChunk sets no deadline: a peer that hangs on an open stream holds its fetch
  for ever.
* StartStreaming looks at local storage twice (engine.go:88, :391). A track shared
  between the two, when this node's own record is the only one, starts a download
  with no peer to ask. `Lookup` reaches that state.
* preloadNext attaches the next track only after the current one has fired doneCh,
  while `constitution.md:101` wants SetNext before. An engine it has made is never
  stopped (main.go:356). An engine whose StartStreaming fails keeps its pool's
  goroutine (main.go:150).
* The index by CID keeps the record that came last, also when it is less complete
  (metadata.go:206); only the index by MetaID compares.
* A record whose title is not UTF-8 is rejected by every receiver: it is marshalled
  again to check the signature, and the text is then another (metadata.go:152).
  `KnownVerbatim` holds for that reason.
* storage.go:108 speaks of MPEG-1/2/2.5 frames, but the bitrates of MPEG-2 and 2.5
  are not in the tables, so those frames are skipped as junk.

## 4. Fairness

* `Download`: weak fairness of the loop, of each fetcher, of the monitor and of the
  reader (goroutines that can run do run), and strong fairness of "chunk i is
  fetched" per chunk: a chunk that is requested again and again is some day
  delivered. Weak fairness of a fetcher says that every fetch ends, which the code
  does not enforce (no deadline). Weak fairness of the monitor is justified although
  it resets only after two seconds without a chunk: the chunks of a track are
  finitely many, so from some time on no new one is accepted and every tick finds a
  stall until `done`. Nobody is obliged to cancel; `PlaySpec` is the stream nobody
  cancels.
* `Congestion`: weak fairness of `RecordSuccess`, some fetch succeeds as long as the
  stream downloads.
* `LocalServe`: weak fairness of producer and reader.
* `Protocol`: each fetch runs, and each stream's server answers a request that has
  come, or the stream breaks. This is the assumption a hung peer falsifies. Time
  passes and the reaper ticks; nobody has to begin a fetch.
* `Playback`: the loop and the speaker's threads run. Preloaders and API callers owe
  nothing, so `EveryItemIsTaken` holds with preloaders that stop anywhere.
* `Joining`: the discovery goroutines run and a lookup of the rendezvous succeeds
  some day, as often as it fails. Dials end (libp2p's timeouts).
* `Gossip`, `Storage`, `Lookup`: safety only.

Where a run says `CHECK_DEADLOCK FALSE`, the system really stops: the track has
ended or was cancelled, or the process has exited.

## 5. Proofs

**`DownloadProofs`** proves `Congestion` and `Download`. Of `Congestion`, for every
floor, ceiling, window and run length allowed by `CongestionAssumption`:

* `CongestionCorrect`: type, `CapInRange` and `FailureRun` always hold. Their
  conjunction is inductive. The step that needs work is a failure that slides a
  full window: the run of failures at its end grows by one and still fits
  (`SlideFailure`), because a run is halved away before it exceeds the window.
* `HalvingIsEarned`: the action property `HalvedOnlyByFailureRun`. It needs
  `FailureRun` before the step: the counter alone does not say that the outcomes
  it counted are still in the window and are failures.
* `EngineMovesTheCap`: every step of the engine, with its loop, fetches, resets and
  stale positions, is a step of `Congestion` or leaves its variables alone. What is
  proved of the small specification is therefore true of the large one;
  `EngineHalvesOnFailures` states it for `HalvedOnlyByFailureRun`.

Of `Download`, for every track length, chunk size, window, buffer, gate, set
of peers and set of fetchers allowed by the assumptions `TrackAssumption`,
`SchedulerAssumption`, `ReadBufferAssumption`, `DownloadAssumption` and
`CongestionAssumption`. Most invariants are not inductive alone; what they need:

| theorem | strengthening, and why |
|---|---|
| `DownloadTypeCorrect` | `TypeInv`: the congestion invariant, and that a fetcher that is fetching has a peer to blame |
| `NoChunkIsLost` | none beside the types; `AtReaderKept`: what has reached the reader stays there |
| `ReceivedIsExact` | none; `AcceptAddsChunk`: an accepted chunk was not at the reader, so the set `Here` grows by one when `received` does |
| `StreamIsWhole` | `WholeTrackHere` also at `loopPc = "finish"`, between the test and `done`; `received >= TotalChunks` and `ReceivedExact` make `Here` all of `Chunks` |
| `PositionIsBehind` | none; `nextRead` only grows (`ReaderAdvances`), so a stale copy is a lower one |
| `BufferIsBounded`, `FullBufferIsUseful` | `InWindow`: requests, fetches and buffered chunks lie in the `Window` places from `nextRead` on. A buffer of `MaxBufferChunks >= Window` chunks fills them all, the first included |
| `NoChunkIsStuck` | `RequestsAreDispatched`: NextRequests is not called while requests wait, so it overwrites none |
| `NoWakeupIsLost` | `SleepersInPlace`, and the split into *eventful* steps (they change a condition or broadcast) and quiet ones |
| `NeverBothAsleep` | the three invariants above together: a full buffer is readable, and opens the gate because `GateChunks <= MaxBufferChunks` |
| `InflightIsBounded` | `FarWithinCap`: the chunks in flight beyond the critical zone *of the real reader* are within the cap, and `LandedIsCompleted`: all chunks in flight are ahead of the reader. That at most `Available` chunks are taken within the cap is a pigeonhole argument on the number of more urgent candidates (`TakenWithinCap`) |
| `DownloadRefines` | `OnlyNextIsBegun`: only the chunk the reader is in is partly read, so finishing it moves exactly to the start of the next; `StreamIsWhole` rules out the missing chunk |
| `EndMeansWhole` | a consequence of `DownloadRefines` and `TrackReader` alone: EOF comes after exactly `TotalChunks * PartsPerChunk` parts |
| `EngineReliesOnContract` | only the types: a goroutine works on the chunk it was given until it has failed or delivered, and the engine's steps touch one goroutine at a time |

These proofs show which assumption carries what. `BufferIsBounded` uses the window
and not the backpressure check: with both at 50, a loop that sleeps on a full
buffer would have found nothing to request. `FullBufferIsUseful` and
`NeverBothAsleep` fail without `Window <= MaxBufferChunks`, which no line of the
code states: the buffer then fills up with later chunks, the loop sleeps, and the
reader waits for a chunk nobody will fetch. `InflightBounded` is in no run: an
instance that could break it is too large for TLC.

**`LocalServeProofs`**, for every track, buffer and gate. `LocalInv` adds to the
checked invariants `StopsAtTheEnd` (the producer is inside the track until it stops,
and stops early only if the track was removed), `RunStarts` and `SleepsInPlace`. That
producer and reader are not both asleep follows from counting: a full buffer is a run
of `MaxBufferChunks` chunks that starts at the reader, so it is readable and opens
the gate. `LocalServesTheTrack` is a refinement up to one step: the reader gets what
`TrackReader` promises, and the only step outside it, `CutShort`, tells it that the
rest of a track is missing that was removed meanwhile. `OnlyNextIsBegun` is the same
strengthening as for the download. That only a removed track is truncated is
`TruncatedIsRemoved`.

**`ProtocolProofs`** proves `ConnPool` and `Protocol`, for every set of peers,
fetches and streams, any limit of idle streams, any chunks and parts. The pool's
`PoolInv` has two clauses per idea: streams are held by one client or idle in one
place of one stack (`Apart`), a stream is open iff one of the two (`OpenIsOwned`), a
client's hands match its stage, and the active count is the number of clients in the
stages that count. On top of it `Matches` says what is on the wire of the stream in
each phase of a fetch, and `QuietWhenUnused` that nothing is on the wire of any other
stream. `ReplyIsForRequest` follows; it is where the error flag of `Return`
is needed, because a failed fetch leaves its stream in an unknown state and releases
it to be closed. The count of active streams is the only clause that needs
cardinalities, hence finitely many clients. `FetchesKeepTheContract` maps the phases
of a fetch to the calls of `ChunkFetch`: to acquire, write, wait and read are
stutters, and the step in which the last part is read is `Succeed`, with the bytes
of the chunk asked for because `Matches` holds.

**`GossipProofs`**, for every set of nodes and records. `Best`: of the records a store
was given, the one under their MetaID is at least as complete as each. Two stores
given the same records then know equally complete ones; that the better of two is
kept is `Dedup`. Deletion does not exist, a restart forgets both. `KnownIsVerbatim`
rests on the lemma that a record which comes back from JSON changed does not match
its signature. `LearningOnlyImproves` is about steps: whatever arrives, in whatever
order, a node that does not restart forgets nothing it knows by MetaID and replaces it
only by a more complete record (`DedupImproves`).

**`LookupProofs`**: `ProviderIsFound`, for any finite set of peers. The invariant is
about the providers asked so far: none has been able to serve ever since the lookup.

**`PlaybackProofs`**, for every finite set of items. `QueueInv`: an item is upcoming,
current or history, in one place. `Counted`: every streamer stands for an item of the
history or the current one, so there are never more than items. `InTurn`: all
streamers but the last have finished, and so has the last unless the loop waits for
it; this gives `OneTrackAtATime`, with `EngineInv` also `EngineIsNotTakenAway`: only
the last streamer can sound, and a preloaded sound never uses the shared engine.
`SnapshotIsFresh` needs that an item that was current never becomes upcoming again.
`OrderIsKept` looks at history, current and upcoming items as one list, the `Line`:
taking an item leaves it as it is (`LineWhenTaken`), an insertion puts an item between
two others (`BeforeWhenAdded`), and clearing drops its end.

**`StorageProofs`**: `ChunksAreTheFrames`, for every file, header size, chunk size and
table of rates. The scan, the starts of frames and the grouping are recursive
functions, so the theorem needs induction over data. The library's induction theorems
take an operator as a parameter, which the installed provers cannot instantiate; but
a set of numbers with no least element is empty (`LeastNat`, from the library's
`NatLessThanWellFounded`), and the claims are proved with the least position at which
they fail. The scan looks ahead, so there it is the last one (`NoLastFailure`). The
steps:

* the recursive definition of the scan has a solution, and the solution returns
  consecutive, disjoint frames that miss none (`ScanExists`, `FramesFrom`,
  `ScanCorrect`); a frame is at least one byte long and inside the file;
* the property describes the starts of frames by a recursion of its own,
  `FrameStarts`, on the bytes before a position; it has one solution
  (`StartsUnique`), and the starts the scan finds are one (`FrameStartsIsScan`);
* the chunks hold `FramesPerChunk` frames each, the last the rest (`Grouped`), and
  joined they are the frames (`GroupsFlatten`).

`StoredTracksStay`: a file that is stored again while peers are served its chunks
yields the same ones, so a peer gets chunks of one cut.

**`JoiningProofs`**: `JoinIsAnsweredTruly`, for every set of peers and addresses.
`CheckedIsForeign` says that the checks of handleJoin let through exactly the codes
that another node gives out; the invariant says so of the code of the join that runs,
and `met` only grows.

Some theorems state what no run checks, to keep the runs few: `NeverBothAsleep`,
`InflightIsBounded`, `EngineReliesOnContract`, `EngineMovesTheCap`, `EndMeansWhole`,
`LearningOnlyImproves`, `OrderIsKept`, `StoredTracksStay` and `TruncatedIsRemoved`.

Only model-checked: liveness, that is `EventuallyPlayed`, `RecoversToCeiling`,
`EventuallyEnds`, `NoStreamIdlesForever`, `EveryFetchEnds`, `EveryItemIsTaken` and
`DiscoveryReconnects` (fairness and ENABLED are out of the prover's reach). Every
invariant and every action property a run checks is proved. No module uses RECURSIVE.

## 6. Not modelled, and the plan

* *Peer scoring*: a score is a function of measured latencies and only orders peers;
  `Download` lets any viable peer be the best. Score reads counters after the lock
  (scoring.go:51), a data race on those numbers.
* *Adaptive bitrate*: floating-point estimates; nothing in the wired system switches
  variants.
* *API*: the playback status, which only `/playback/status` and a gauge read; request
  decoding and middleware. `invite.IsPublic` only chooses a note to the user.
* *Player.Stop* outside the interrupt: only the exit calls it. *Decoding* of audio.
* *Engine.Seek*, *LeastLoadedPeer*: nothing calls them.
* Metrics, logs, generated swagger documentation, flag parsing, starting libp2p.

Left to do: the safety half of the liveness properties, as far as an invariant can
say what remains possible; a module of scores with hung peers, if the fetches get a
deadline; the playback state of the API with concurrent listeners; `Playback` over an
engine that is `Download` and not a single step.

------------------------------ MODULE Playback ------------------------------
(***************************************************************************)
(* Playing the queue: the loop of main (cmd/node/main.go) that takes an    *)
(* item, streams it through the shared engine and plays it; the player     *)
(* with its gapless streamers (internal/audio/player.go); the preloadNext  *)
(* goroutine started with every track; and the API handlers that read and  *)
(* change the queue meanwhile (internal/api/handlers.go).                  *)
(*                                                                         *)
(* The n-th successful Play makes streamer n and starts preloader n.  An   *)
(* engine delivers its track or fails at once: what goes on inside is      *)
(* Download.  The process ends when the loop does.  main cancels its       *)
(* context only then, so the wait for the first chunks is never cancelled. *)
(***************************************************************************)
EXTENDS PlayQueue, FiniteSets

VARIABLES
    added,          \* the items somebody has queued
    loopPc,         \* where main is
    engineItem,     \* what the shared engine streams, NoItem when stopped
    plays,          \* how many streamers there are; the last is p.streamer
    playing,        \* p.playing
    cur, nxt,       \* per streamer, the sound it plays and the one that follows
    fired,          \* per streamer, doneCh is closed
    audio,          \* per streamer, where the speaker's thread is with it
    preloadPc,      \* per preloader, where it is
    aim,            \* per preloader, the streamer it waits for, or sets
    pick,           \* per preloader, the item it peeked at
    snapPc,         \* GET /queue: has Current been read, Upcoming not yet?
    snapCur         \* the current item it has read

loopVars == <<loopPc, engineItem>>
playerVars == <<plays, playing, cur, nxt, fired, audio>>
preloadVars == <<preloadPc, aim, pick>>
apiVars == <<snapPc, snapCur>>
vars == <<queueVars, added, loopVars, playerVars, preloadVars, apiVars>>

Streamers == 1 .. Cardinality(Items)    \* an item is played once at most
Sounds == [item : Items, engine : {"shared", "own"}]
Silence == [item |-> NoItem, engine |-> "none"]

Init ==
    /\ QueueInit
    /\ added = {}
    /\ loopPc = "fill"
    /\ engineItem = NoItem
    /\ plays = 0
    /\ playing = FALSE
    /\ cur = [n \in Streamers |-> Silence]
    /\ nxt = [n \in Streamers |-> Silence]
    /\ fired = [n \in Streamers |-> FALSE]
    /\ audio = [n \in Streamers |-> "none"]
    /\ preloadPc = [n \in Streamers |-> "none"]
    /\ aim = [n \in Streamers |-> 0]
    /\ pick = [n \in Streamers |-> NoItem]
    /\ snapPc = "idle"
    /\ snapCur = NoItem

Running == loopPc # "exited"

----------------------------------------------------------------------------
(* The loop of main.                                                       *)

New(x) == x \notin added /\ added' = added \cup {x}

\* --play and --queue.
LoopFill(x) ==
    /\ loopPc = "fill"
    /\ New(x)
    /\ Enqueue(x)
    /\ UNCHANGED <<loopVars, playerVars, preloadVars, apiVars>>

LoopBegin ==
    /\ loopPc = "fill"
    /\ loopPc' = "next"
    /\ UNCHANGED <<queueVars, added, engineItem, playerVars, preloadVars, apiVars>>

LoopNext ==
    /\ loopPc = "next"
    /\ TakeNext
    /\ loopPc' = IF items = << >> THEN "exited" ELSE "stream"
    /\ UNCHANGED <<added, engineItem, playerVars, preloadVars, apiVars>>

\* StartStreaming on the shared engine: on an error the item is given up.
LoopStream ==
    /\ loopPc = "stream"
    /\ \/ engineItem' = current /\ loopPc' = "play"
       \/ loopPc' = "next" /\ UNCHANGED engineItem
    /\ UNCHANGED <<queueVars, added, playerVars, preloadVars, apiVars>>

\* Play: a new streamer replaces the last one, and go preloadNext.
LoopPlay ==
    /\ loopPc = "play"
    /\ plays' = plays + 1
    /\ playing' = TRUE
    /\ cur' = [cur EXCEPT ![plays'] = [item |-> engineItem, engine |-> "shared"]]
    /\ audio' = [audio EXCEPT ![plays'] = "sounding"]
    /\ preloadPc' = [preloadPc EXCEPT ![plays'] = "start"]
    /\ loopPc' = "playing"
    /\ UNCHANGED <<queueVars, added, engineItem, nxt, fired, aim, pick, apiVars>>

\* The stream does not decode, or the speaker cannot be set up.
LoopPlayFails ==
    /\ loopPc = "play"
    /\ engineItem' = NoItem
    /\ loopPc' = "next"
    /\ UNCHANGED <<queueVars, added, playerVars, preloadVars, apiVars>>

\* Mutants of LoopPoll: the loop moves on when the track has fired its
\* doneCh; or whatever the player does.
LoopPollBoundary ==
    /\ loopPc = "playing"
    /\ fired[plays]
    /\ engineItem' = NoItem
    /\ loopPc' = "next"
    /\ UNCHANGED <<queueVars, added, playerVars, preloadVars, apiVars>>
LoopPollAlways ==
    /\ loopPc = "playing"
    /\ engineItem' = NoItem
    /\ loopPc' = "next"
    /\ UNCHANGED <<queueVars, added, playerVars, preloadVars, apiVars>>

\* IsPlaying has become false: stop the engine and go on.
LoopPoll ==
    /\ loopPc = "playing"
    /\ ~playing
    /\ engineItem' = NoItem
    /\ loopPc' = "next"
    /\ UNCHANGED <<queueVars, added, playerVars, preloadVars, apiVars>>

\* SIGINT while a track plays: player and engine are stopped, main returns.
LoopInterrupt ==
    /\ loopPc = "playing"
    /\ engineItem' = NoItem
    /\ loopPc' = "exited"
    /\ UNCHANGED <<queueVars, added, playerVars, preloadVars, apiVars>>

Loop ==
    \/ LoopBegin \/ LoopNext \/ LoopStream
    \/ LoopPlay \/ LoopPlayFails \/ LoopPoll

----------------------------------------------------------------------------
(* The speaker's thread, in gaplessStreamer.Stream, and Play's goroutine.  *)

\* Mutant of Exhaust: next is not cleared when it is taken.
ExhaustKeepsNext(n) ==
    /\ Running
    /\ audio[n] = "sounding"
    /\ cur' = [cur EXCEPT ![n] = nxt[n]]
    /\ audio' = [audio EXCEPT ![n] = "closing"]
    /\ UNCHANGED <<queueVars, added, loopVars, plays, playing, nxt, fired,
                   preloadVars, apiVars>>

\* The sound is exhausted: under the lock the next one, or none, replaces it.
Exhaust(n) ==
    /\ Running
    /\ audio[n] = "sounding"
    /\ cur' = [cur EXCEPT ![n] = nxt[n]]
    /\ nxt' = [nxt EXCEPT ![n] = Silence]
    /\ audio' = [audio EXCEPT ![n] = "closing"]
    /\ UNCHANGED <<queueVars, added, loopVars, plays, playing, fired,
                   preloadVars, apiVars>>

\* After the lock, doneCh is closed once; without a next sound the streamer
\* is over and the callback closes allDoneCh.
CloseDone(n) ==
    /\ Running
    /\ audio[n] = "closing"
    /\ fired' = [fired EXCEPT ![n] = TRUE]
    /\ audio' = [audio EXCEPT ![n] = IF cur[n] = Silence THEN "over" ELSE "sounding"]
    /\ UNCHANGED <<queueVars, added, loopVars, plays, playing, cur, nxt,
                   preloadVars, apiVars>>

\* Play's goroutine has waited for allDoneCh.
PlayReturns(n) ==
    /\ Running
    /\ audio[n] = "over"
    /\ audio' = [audio EXCEPT ![n] = "finished"]
    /\ playing' = FALSE
    /\ UNCHANGED <<queueVars, added, loopVars, plays, cur, nxt, fired,
                   preloadVars, apiVars>>

Speaker(n) == Exhaust(n) \/ CloseDone(n) \/ PlayReturns(n)

----------------------------------------------------------------------------
(* preloadNext.                                                            *)

PreloadOnly(n, next) ==
    /\ preloadPc' = [preloadPc EXCEPT ![n] = next]
    /\ UNCHANGED <<queueVars, added, loopVars, plays, playing, cur, fired, audio, apiVars>>

\* CurrentTrackDone: the channel of whichever streamer is current by now.
PreloadStart(n) ==
    /\ Running
    /\ preloadPc[n] = "start"
    /\ aim' = [aim EXCEPT ![n] = plays]
    /\ PreloadOnly(n, "wait")
    /\ UNCHANGED <<nxt, pick>>

PreloadPeek(n) ==
    /\ Running
    /\ preloadPc[n] = "wait"
    /\ fired[aim[n]]
    /\ items # << >>
    /\ pick' = [pick EXCEPT ![n] = Head(items)]
    /\ PreloadOnly(n, "stream")
    /\ UNCHANGED <<nxt, aim>>

\* Nothing is queued, StartStreaming fails or the stream does not decode.
PreloadGivesUp(n) ==
    /\ Running
    /\ \/ preloadPc[n] = "wait" /\ fired[aim[n]] /\ items = << >>
       \/ preloadPc[n] \in {"stream", "attach"}
    /\ PreloadOnly(n, "ended")
    /\ UNCHANGED <<nxt, aim, pick>>

\* A new engine streams the item; SetNext reads which streamer is current.
PreloadTarget(n) ==
    /\ Running
    /\ preloadPc[n] = "stream"
    /\ aim' = [aim EXCEPT ![n] = plays]
    /\ PreloadOnly(n, "attach")
    /\ UNCHANGED <<nxt, pick>>

\* The rest of SetNext, after decoding.  A next sound set before is closed.
PreloadAttach(n) ==
    /\ Running
    /\ preloadPc[n] = "attach"
    /\ nxt' = [nxt EXCEPT ![aim[n]] = [item |-> pick[n], engine |-> "own"]]
    /\ PreloadOnly(n, "ended")
    /\ UNCHANGED <<aim, pick>>

Preload(n) ==
    \/ PreloadStart(n) \/ PreloadPeek(n) \/ PreloadGivesUp(n)
    \/ PreloadTarget(n) \/ PreloadAttach(n)

----------------------------------------------------------------------------
(* The API handlers of the queue.                                          *)

ApiOnly ==
    /\ Running
    /\ UNCHANGED <<loopVars, playerVars, preloadVars>>

HandleEnqueue(x) == ApiOnly /\ New(x) /\ Enqueue(x) /\ UNCHANGED apiVars

HandleInsert(pos, x) == ApiOnly /\ New(x) /\ Insert(pos, x) /\ UNCHANGED apiVars

HandleClear == ApiOnly /\ Clear /\ UNCHANGED <<added, apiVars>>

\* handleGetQueue reads Current, and under another lock Upcoming.
GetQueueCurrent ==
    /\ ApiOnly
    /\ snapPc = "idle"
    /\ snapCur' = current
    /\ snapPc' = "between"
    /\ UNCHANGED <<queueVars, added>>

GetQueueUpcoming ==
    /\ ApiOnly
    /\ snapPc = "between"
    /\ snapCur' = NoItem
    /\ snapPc' = "idle"
    /\ UNCHANGED <<queueVars, added>>

Api ==
    \/ \E x \in Items : HandleEnqueue(x)
    \/ \E x \in Items, pos \in -1 .. Len(items) + 1 : HandleInsert(pos, x)
    \/ HandleClear
    \/ GetQueueCurrent
    \/ GetQueueUpcoming

----------------------------------------------------------------------------

Next ==
    \/ \E x \in Items : LoopFill(x)
    \/ Loop
    \/ LoopInterrupt
    \/ \E n \in Streamers : Speaker(n) \/ Preload(n)
    \/ Api

Spec == Init /\ [][Next]_vars

\* The loop, the speaker and Play's goroutines run.  Preloaders and API
\* clients owe nothing.
FairSpec ==
    /\ Spec
    /\ WF_vars(Loop)
    /\ \A n \in Streamers : WF_vars(Speaker(n))

----------------------------------------------------------------------------
(* Properties.                                                             *)

\* Type invariant.
TypeOK ==
    /\ items \in Seq(Items) /\ IsInjective(items)
    /\ history \in Seq(Items) /\ IsInjective(history)
    /\ current \in Items \cup {NoItem}
    /\ added \subseteq Items
    /\ loopPc \in {"fill", "next", "stream", "play", "playing", "exited"}
    /\ engineItem \in Items \cup {NoItem}
    /\ plays \in 0 .. Cardinality(Items)
    /\ playing \in BOOLEAN
    /\ cur \in [Streamers -> Sounds \cup {Silence}]
    /\ nxt \in [Streamers -> Sounds \cup {Silence}]
    /\ fired \in [Streamers -> BOOLEAN]
    /\ audio \in [Streamers -> {"none", "sounding", "closing", "over", "finished"}]
    /\ preloadPc \in [Streamers -> {"none", "start", "wait", "stream", "attach", "ended"}]
    /\ aim \in [Streamers -> 0 .. Cardinality(Items)]
    /\ pick \in [Streamers -> Items \cup {NoItem}]
    /\ snapPc \in {"idle", "between"}
    /\ snapCur \in Items \cup {NoItem}

\* The shared engine is not turned to another track, nor stopped, while the
\* player still reads the last one from it.
EngineServesWhatSounds ==
    \A n \in Streamers :
        Running /\ audio[n] = "sounding" /\ cur[n].engine = "shared" =>
            engineItem = cur[n].item

\* Two tracks never sound at the same time, although a streamer that has gone
\* over to a preloaded track sounds on after its own track has fired doneCh.
OneTrackSounds ==
    \A m, n \in Streamers :
        audio[m] = "sounding" /\ audio[n] = "sounding" => m = n

\* GET /queue reads the current item and the upcoming ones under two locks.
\* It may miss an item the loop takes in between, but never shows one twice.
SnapshotShowsNoItemTwice ==
    snapPc = "between" => snapCur \notin ToSet(items)

\* All items, from the first played to the last upcoming, and their order.
Played == IF current = NoItem THEN history ELSE Append(history, current)
Line == Played \o items
Before(x, y, line) == \E i, j \in DOMAIN line : i < j /\ line[i] = x /\ line[j] = y

\* Two items keep their order for ever, whoever inserts between them and
\* whenever one is taken: only those still upcoming when the API clears the
\* queue are dropped.
LineKeepsOrder ==
    [][\A x, y \in Items : Before(x, y, Line) =>
         Before(x, y, Line') \/ (HandleClear /\ y \in ToSet(items))]_vars

\* Every item leaves the queue some day: the loop never waits for a player that
\* does not come to an end, whatever the preloaders attach to its streamer.
EveryItemIsTaken ==
    \A x \in Items : x \in ToSet(items) ~> (x \notin ToSet(items) \/ ~Running)

=============================================================================

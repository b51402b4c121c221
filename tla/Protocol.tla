------------------------------ MODULE Protocol ------------------------------
(***************************************************************************)
(* The music protocol (internal/streaming/engine.go) over pooled streams:  *)
(* fetchChunk, which writes one request and reads one reply, and           *)
(* ServeStream, the loop at the other end that answers one request after   *)
(* the other.  Composed with ConnPool, whose clients are the fetches.      *)
(*                                                                         *)
(* A reply is a line with a length and that many bytes, which arrive in    *)
(* Parts parts; or a line that reports an error.  Every peer shares one    *)
(* track, which its user may remove and load again.  A stream may break at *)
(* any time; what has arrived before can still be read.                    *)
(***************************************************************************)
EXTENDS ConnPool

CONSTANTS
    Chunks,         \* chunk indices a fetch asks for
    Parts           \* in how many parts the bytes of a reply arrive

ASSUME ProtocolAssumption == Parts \in Nat \ {0}

VARIABLES
    phase,          \* per client using a stream, where in fetchChunk it is
    want,           \* per client, the chunk it asks for
    got,            \* per client, the bytes it has read: parts
    requests,       \* per stream, the requests not yet read by the server
    replies,        \* per stream, the bytes not yet read by the client
    broken,         \* streams that have failed at the libp2p level
    shared          \* the peers that have the track

fetchVars == <<phase, want, got>>
wireVars == <<requests, replies, broken>>
vars == <<connVars, fetchVars, wireVars, shared>>

Phases == {"none", "write", "length", "body", "done", "failed"}

Init ==
    /\ PoolInit
    /\ phase = [c \in Clients |-> "none"]
    /\ want \in [Clients -> Chunks]
    /\ got = [c \in Clients |-> << >>]
    /\ requests = [s \in Streams |-> << >>]
    /\ replies = [s \in Streams |-> << >>]
    /\ broken = {}
    /\ shared = Peers

\* The parts of a reply.
LengthOf(i) == <<i, "length">>
Bytes(i) == [k \in 1 .. Parts |-> <<i, k>>]
ErrorLine(i) == <<i, "error">>

\* Nothing is left of a stream once it is closed.
WiresFollow ==
    /\ requests' = [s \in Streams |-> IF s \in open' THEN requests[s] ELSE << >>]
    /\ replies' = [s \in Streams |-> IF s \in open' THEN replies[s] ELSE << >>]
    /\ broken' = broken \cap open'
    /\ UNCHANGED shared

----------------------------------------------------------------------------
(* fetchChunk.                                                             *)

\* Acquire, on its way from the call for chunk i to a stream in hand.
Acquiring(c, i) ==
    /\ Acquire(c)
    /\ want' = [want EXCEPT ![c] = IF stage[c] = "outside" THEN i ELSE @]
    /\ phase' = [phase EXCEPT ![c] = IF stage'[c] = "using" THEN "write" ELSE "none"]
    /\ UNCHANGED got
    /\ WiresFollow

FetchOnly(c, next) ==
    /\ phase' = [phase EXCEPT ![c] = next]
    /\ UNCHANGED <<connVars, want, broken, shared>>

Write(c) ==
    /\ phase[c] = "write"
    /\ holds[c] \notin broken
    /\ requests' = [requests EXCEPT ![holds[c]] = Append(@, want[c])]
    /\ FetchOnly(c, "length")
    /\ UNCHANGED <<got, replies>>

\* The next part of what is to be read from the stream of c.
Arrived(c) == replies[holds[c]] # << >>
Incoming(c) == Head(replies[holds[c]])
Consume(c) ==
    /\ Arrived(c)
    /\ replies' = [replies EXCEPT ![holds[c]] = Tail(@)]
    /\ UNCHANGED requests

\* A line that is no length, as the error line, ends the fetch.
ReadLength(c) ==
    /\ phase[c] = "length"
    /\ Consume(c)
    /\ FetchOnly(c, IF Incoming(c)[2] = "length" THEN "body" ELSE "failed")
    /\ UNCHANGED got

\* Mutant of ReadBody: a single Read, which returns what has come.
ReadBodyOnce(c) ==
    /\ phase[c] = "body"
    /\ Consume(c)
    /\ got' = [got EXCEPT ![c] = Append(@, Incoming(c))]
    /\ FetchOnly(c, "done")

\* io.ReadFull goes on until all bytes have come.
ReadBody(c) ==
    /\ phase[c] = "body"
    /\ Consume(c)
    /\ got' = [got EXCEPT ![c] = Append(@, Incoming(c))]
    /\ FetchOnly(c, IF Len(got[c]) + 1 = Parts THEN "done" ELSE "body")

\* The write fails, or a read that finds nothing left.
StreamFails(c) ==
    /\ phase[c] \in {"write", "length", "body"}
    /\ holds[c] \in broken
    /\ FetchOnly(c, "failed")
    /\ UNCHANGED <<got, requests, replies>>

\* Mutant of Return: an error reported by the peer, or a failed read, leaves
\* hadError unset.
ReturnUnflagged(c) ==
    /\ phase[c] \in {"done", "failed"}
    /\ ReleaseClose(c, FALSE) \/ ReleaseIdle(c)
    /\ phase' = [phase EXCEPT ![c] = "none"]
    /\ got' = [got EXCEPT ![c] = << >>]
    /\ UNCHANGED want
    /\ WiresFollow

\* The deferred Release, with hadError, and return to the engine.
Return(c) ==
    /\ \/ phase[c] = "failed" /\ ReleaseClose(c, TRUE)
       \/ phase[c] = "done" /\ (ReleaseClose(c, FALSE) \/ ReleaseIdle(c))
    /\ phase' = [phase EXCEPT ![c] = "none"]
    /\ got' = [got EXCEPT ![c] = << >>]
    /\ UNCHANGED want
    /\ WiresFollow

Begin(c) == stage[c] = "outside" /\ \E i \in Chunks : Acquiring(c, i)

Fetch(c) ==
    \/ stage[c] # "outside" /\ Acquiring(c, want[c])
    \/ Write(c) \/ ReadLength(c) \/ ReadBody(c) \/ StreamFails(c) \/ Return(c)

----------------------------------------------------------------------------
(* The other end, and the pool's goroutine.                                *)

\* The peer at the other end: the one whose client, or stack, has the stream.
PeerOf(s) == CHOOSE p \in Peers :
    s \in IdleStreams(p) \/ \E c \in Clients : holds[c] = s /\ target[c] = p

\* Mutant of Serve: an index it cannot serve is only logged.
ServeSilently(s) ==
    /\ requests[s] # << >>
    /\ s \notin broken
    /\ requests' = [requests EXCEPT ![s] = Tail(@)]
    /\ replies' = [replies EXCEPT ![s] = @ \o
         LET i == Head(requests[s])
         IN  IF PeerOf(s) \in shared THEN <<LengthOf(i)>> \o Bytes(i) ELSE << >>]
    /\ UNCHANGED <<connVars, fetchVars, broken, shared>>

\* One round of ServeStream.
Serve(s) ==
    /\ requests[s] # << >>
    /\ s \notin broken
    /\ requests' = [requests EXCEPT ![s] = Tail(@)]
    /\ replies' = [replies EXCEPT ![s] = @ \o
         LET i == Head(requests[s])
         IN  IF PeerOf(s) \in shared THEN <<LengthOf(i)>> \o Bytes(i) ELSE <<ErrorLine(i)>>]
    /\ UNCHANGED <<connVars, fetchVars, broken, shared>>

Break(s) ==
    /\ s \in open \ broken
    /\ broken' = broken \cup {s}
    /\ UNCHANGED <<connVars, fetchVars, requests, replies, shared>>

\* The user of p removes the track or loads it again.
Share(p) ==
    /\ shared' = IF p \in shared THEN shared \ {p} ELSE shared \cup {p}
    /\ UNCHANGED <<connVars, fetchVars, wireVars>>

Pool(step) == step /\ UNCHANGED fetchVars /\ WiresFollow

----------------------------------------------------------------------------

Next ==
    \/ \E c \in Clients : Begin(c) \/ Fetch(c)
    \/ \E s \in Streams : Serve(s) \/ Break(s)
    \/ \E p \in Peers : Share(p) \/ Pool(Age(p))
    \/ Pool(Reaper) \/ Pool(Close)

Spec == Init /\ [][Next]_vars

\* Goroutines run, time passes, and a peer that can be reached answers: the
\* engine sets no deadline, so a peer that hangs on an open stream is outside
\* this assumption.  Nobody has to fetch, nor a stream to break.
FairSpec ==
    /\ Spec
    /\ \A c \in Clients : WF_vars(Fetch(c))
    /\ \A s \in Streams : WF_vars(Serve(s))
    /\ \A p \in Peers : WF_vars(Pool(Age(p))) /\ WF_vars(Pool(Reap(p)))

----------------------------------------------------------------------------
(* Properties, besides those of ConnPool.                                  *)

\* Type invariant.  A client is somewhere in fetchChunk when it uses a stream.
TypeOK ==
    /\ PoolTypeOK
    /\ phase \in [Clients -> Phases]
    /\ \A c \in Clients : phase[c] # "none" <=> stage[c] = "using"
    /\ want \in [Clients -> Chunks]
    /\ \A c \in Clients : Len(got[c]) <= Parts
    /\ broken \subseteq open
    /\ shared \subseteq Peers

\* The bytes a fetch returns are those of the chunk it asked for, whoever used
\* the stream before and however his fetch ended; for that, an idle stream has
\* no request and no byte left on it.
ReplyAnswersRequest ==
    /\ \A c \in Clients : phase[c] = "done" => got[c] = Bytes(want[c])
    /\ \A s \in AllIdle : requests[s] = << >> /\ replies[s] = << >>

\* To the goroutines that fetch, all this is ChunkFetch: no stream that is
\* shared, broken or taken over changes what a call asks for, and each returns
\* once, with the chunk asked for or with an error.
CallOf(c) ==
    CASE stage[c] = "outside" -> << >>
      [] phase[c] = "done" -> <<want[c], got[c]>>
      [] OTHER -> <<want[c]>>

Contract == INSTANCE ChunkFetch WITH
    Callers <- Clients, Content <- [i \in Chunks |-> Bytes(i)],
    call <- [c \in Clients |-> CallOf(c)]

ImplementsChunkFetch == Contract!Spec

\* Every fetch ends, with a chunk or an error: each request has its reply.
EveryFetchEnds ==
    \A c \in Clients : stage[c] # "outside" ~> stage[c] = "outside"

=============================================================================

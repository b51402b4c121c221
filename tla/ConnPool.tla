------------------------------ MODULE ConnPool ------------------------------
(***************************************************************************)
(* The pool of libp2p streams an engine fetches chunks over                *)
(* (internal/connpool/pool.go): per peer a stack of idle streams and a     *)
(* count of active ones, clients (fetchChunk) that acquire and release,    *)
(* and a goroutine that reaps streams idle for too long.                   *)
(*                                                                         *)
(* Streams are pushed with the current time, so those past maxIdleTimeout  *)
(* are always at the bottom of the stack: expired counts them.  The two    *)
(* metrics gauges are left out.  What a client does with the stream it     *)
(* holds, and so whether it releases it with an error, is Protocol's.      *)
(***************************************************************************)
EXTENDS Integers, Sequences, FiniteSets, SequencesExt

CONSTANTS
    Peers,                 \* remote peers
    Clients,               \* goroutines in fetchChunk
    Streams,               \* stream identities; one may be reused once closed
    NoStream,
    MaxStreamsPerPeer      \* maxStreamsPerPeer, 8

ASSUME ConnPoolAssumption ==
    /\ MaxStreamsPerPeer \in Nat \ {0}
    /\ NoStream \notin Streams
    /\ Peers # {}
    /\ IsFiniteSet(Clients)

VARIABLES
    idle,           \* per peer, the idle streams, the last released at the end
    expired,        \* per peer, how many idle streams are past maxIdleTimeout
    active,         \* per peer, the count of active streams
    open,           \* streams open at the libp2p level
    stage,          \* per client, where it is
    target,         \* per client, the peer it talks to (any peer when outside)
    holds,          \* per client, the stream it has in hand
    poolClosed,     \* p.done is closed
    reaperPc        \* where the reap goroutine is

poolVars == <<idle, expired, active>>
clientVars == <<stage, target, holds>>
lifeVars == <<poolClosed, reaperPc>>
connVars == <<poolVars, open, clientVars, lifeVars>>

ClientStages == {"outside", "dialing", "dialed", "using"}

PoolInit ==
    /\ idle = [p \in Peers |-> << >>]
    /\ expired = [p \in Peers |-> 0]
    /\ active = [p \in Peers |-> 0]
    /\ open = {}
    /\ stage = [c \in Clients |-> "outside"]
    /\ target \in [Clients -> Peers]
    /\ holds = [c \in Clients |-> NoStream]
    /\ poolClosed = FALSE
    /\ reaperPc = "ticking"

IdleStreams(p) == ToSet(idle[p])

----------------------------------------------------------------------------
(* Acquire.                                                                *)

\* The last released stream is the youngest: if it has expired, all have.
HasUsable(p) == Len(idle[p]) > expired[p]

\* Mutant of AcquireIdle: the stream handed out stays in the stack.
AcquireIdleKeeps(c, p) ==
    /\ stage[c] = "outside"
    /\ HasUsable(p)
    /\ holds' = [holds EXCEPT ![c] = Last(idle[p])]
    /\ active' = [active EXCEPT ![p] = @ + 1]
    /\ stage' = [stage EXCEPT ![c] = "using"]
    /\ target' = [target EXCEPT ![c] = p]
    /\ UNCHANGED <<idle, expired, open, lifeVars>>

\* Reuse the stream on top.
AcquireIdle(c, p) ==
    /\ stage[c] = "outside"
    /\ HasUsable(p)
    /\ holds' = [holds EXCEPT ![c] = Last(idle[p])]
    /\ idle' = [idle EXCEPT ![p] = Front(@)]
    /\ active' = [active EXCEPT ![p] = @ + 1]
    /\ stage' = [stage EXCEPT ![c] = "using"]
    /\ target' = [target EXCEPT ![c] = p]
    /\ UNCHANGED <<expired, open, lifeVars>>

\* Close whatever is left in the stack, all of it expired, and unlock to dial.
AcquireNone(c, p) ==
    /\ stage[c] = "outside"
    /\ ~HasUsable(p)
    /\ open' = open \ IdleStreams(p)
    /\ idle' = [idle EXCEPT ![p] = << >>]
    /\ expired' = [expired EXCEPT ![p] = 0]
    /\ stage' = [stage EXCEPT ![c] = "dialing"]
    /\ target' = [target EXCEPT ![c] = p]
    /\ UNCHANGED <<active, holds, lifeVars>>

InHand == {holds[c] : c \in Clients}
AllIdle == UNION {IdleStreams(p) : p \in Peers}

\* host.NewStream, outside the lock.
DialSucceeds(c, s) ==
    /\ stage[c] = "dialing"
    /\ s \notin open \cup InHand \cup AllIdle
    /\ open' = open \cup {s}
    /\ holds' = [holds EXCEPT ![c] = s]
    /\ stage' = [stage EXCEPT ![c] = "dialed"]
    /\ UNCHANGED <<poolVars, target, lifeVars>>

\* Mutant of DialFails: the stream is counted before it is dialled.
DialFailsCounted(c) ==
    /\ stage[c] = "dialing"
    /\ active' = [active EXCEPT ![target[c]] = @ + 1]
    /\ stage' = [stage EXCEPT ![c] = "outside"]
    /\ UNCHANGED <<idle, expired, open, target, holds, lifeVars>>

DialFails(c) ==
    /\ stage[c] = "dialing"
    /\ stage' = [stage EXCEPT ![c] = "outside"]
    /\ UNCHANGED <<poolVars, open, target, holds, lifeVars>>

\* Back under the lock, the new stream is counted.
CountDialed(c) ==
    /\ stage[c] = "dialed"
    /\ active' = [active EXCEPT ![target[c]] = @ + 1]
    /\ stage' = [stage EXCEPT ![c] = "using"]
    /\ UNCHANGED <<idle, expired, open, target, holds, lifeVars>>

----------------------------------------------------------------------------
(* Release.                                                                *)

StopUsing(c) ==
    /\ stage[c] = "using"
    /\ active' = [active EXCEPT ![target[c]] = IF @ > 0 THEN @ - 1 ELSE @]
    /\ holds' = [holds EXCEPT ![c] = NoStream]
    /\ stage' = [stage EXCEPT ![c] = "outside"]
    /\ UNCHANGED <<target, expired, lifeVars>>

IdleIsFull(p) == Len(idle[p]) >= MaxStreamsPerPeer

\* The stream failed, or enough streams are idle already.
ReleaseClose(c, hadError) ==
    /\ StopUsing(c)
    /\ hadError \/ IdleIsFull(target[c])
    /\ open' = open \ {holds[c]}
    /\ UNCHANGED idle

\* Mutant of ReleaseIdle: the reference is cleared before it is pushed.
ReleaseIdleCleared(c) ==
    /\ StopUsing(c)
    /\ ~IdleIsFull(target[c])
    /\ idle' = [idle EXCEPT ![target[c]] = Append(@, holds'[c])]
    /\ UNCHANGED open

ReleaseIdle(c) ==
    /\ StopUsing(c)
    /\ ~IdleIsFull(target[c])
    /\ idle' = [idle EXCEPT ![target[c]] = Append(@, holds[c])]
    /\ UNCHANGED open

----------------------------------------------------------------------------
(* Time, the reap goroutine and Close.                                     *)

\* The oldest stream of p not yet expired reaches maxIdleTimeout.
Age(p) ==
    /\ expired[p] < Len(idle[p])
    /\ expired' = [expired EXCEPT ![p] = @ + 1]
    /\ UNCHANGED <<idle, active, open, clientVars, lifeVars>>

\* Mutants of Reap: streams leave the pool without being closed; the sweep
\* starts one stream too late.
ReapWithoutClose(p) ==
    /\ reaperPc = "ticking"
    /\ expired[p] > 0
    /\ idle' = [idle EXCEPT ![p] = SubSeq(@, expired[p] + 1, Len(@))]
    /\ expired' = [expired EXCEPT ![p] = 0]
    /\ UNCHANGED <<active, open, clientVars, lifeVars>>
ReapTooFew(p) ==
    /\ reaperPc = "ticking"
    /\ expired[p] > 1
    /\ open' = open \ ToSet(SubSeq(idle[p], 2, expired[p]))
    /\ idle' = [idle EXCEPT ![p] = <<Head(@)>> \o SubSeq(@, expired[p] + 1, Len(@))]
    /\ expired' = [expired EXCEPT ![p] = 1]
    /\ UNCHANGED <<active, clientVars, lifeVars>>

\* reapLoop at peer p, under p's lock.
Reap(p) ==
    /\ reaperPc = "ticking"
    /\ expired[p] > 0
    /\ open' = open \ ToSet(SubSeq(idle[p], 1, expired[p]))
    /\ idle' = [idle EXCEPT ![p] = SubSeq(@, expired[p] + 1, Len(@))]
    /\ expired' = [expired EXCEPT ![p] = 0]
    /\ UNCHANGED <<active, clientVars, lifeVars>>

ReaperReturn ==
    /\ reaperPc = "ticking"
    /\ poolClosed
    /\ reaperPc' = "returned"
    /\ UNCHANGED <<poolVars, open, clientVars, poolClosed>>

\* Engine.Stop; closeOnce makes later calls do nothing.
Close ==
    /\ ~poolClosed
    /\ poolClosed' = TRUE
    /\ UNCHANGED <<poolVars, open, clientVars, reaperPc>>

----------------------------------------------------------------------------

Acquire(c) ==
    \/ \E p \in Peers : AcquireIdle(c, p) \/ AcquireNone(c, p)
    \/ \E s \in Streams : DialSucceeds(c, s)
    \/ DialFails(c)
    \/ CountDialed(c)

Reaper == ReaperReturn \/ \E p \in Peers : Reap(p)

----------------------------------------------------------------------------
(* Properties.                                                             *)

\* Part of the type invariant of Protocol.  The expired streams are at the
\* bottom of a stack of bounded height.
PoolTypeOK ==
    /\ idle \in [Peers -> Seq(Streams)]
    /\ expired \in [Peers -> Nat]
    /\ \A p \in Peers : expired[p] <= Len(idle[p]) /\ Len(idle[p]) <= MaxStreamsPerPeer
    /\ active \in [Peers -> Nat]
    /\ open \subseteq Streams
    /\ stage \in [Clients -> ClientStages]
    /\ target \in [Clients -> Peers]
    /\ holds \in [Clients -> Streams \cup {NoStream}]
    /\ poolClosed \in BOOLEAN
    /\ reaperPc \in {"ticking", "returned"}

\* Two requests never share a stream: a stream is in the hand of one client or
\* in one place of one stack.  A stream carries one reply at a time.
ExclusiveStreams ==
    /\ \A c, d \in Clients :
         c # d /\ holds[c] # NoStream => holds[c] # holds[d]
    /\ \A p \in Peers :
         /\ IsInjective(idle[p])
         /\ IdleStreams(p) \cap InHand = {}
         /\ \A q \in Peers \ {p} : IdleStreams(p) \cap IdleStreams(q) = {}

\* No stream is leaked or handed out closed: the open streams are exactly those
\* somebody holds or the pool keeps.
OpenMeansOwned == open = (InHand \ {NoStream}) \cup AllIdle

Users(p) == {c \in Clients : stage[c] = "using" /\ target[c] = p}

\* The active count is exact at every peer, so the test for a count already 0
\* in Release never hides an error.
ActiveExact == \A p \in Peers : active[p] = Cardinality(Users(p))

\* A stream does not stay idle for ever while the pool is open: it is reused or
\* closed.
NoStreamIdlesForever ==
    \A s \in Streams : s \in AllIdle ~> (s \notin AllIdle \/ poolClosed)

=============================================================================

------------------------------- MODULE Lookup -------------------------------
(***************************************************************************)
(* How a node starts to stream a track (StartStreaming in                  *)
(* internal/streaming/engine.go): from its own storage, or from the        *)
(* providers the DHT knows (internal/dht/dht.go), asking one after the     *)
(* other how many chunks there are.  Meanwhile the users of all nodes      *)
(* share, announce and delete the track (internal/api/handlers.go), whose  *)
(* provider records outlive it, and peers come and go.                     *)
(*                                                                         *)
(* There is one track.  What happens once it streams is LocalServe and     *)
(* Download.                                                               *)
(***************************************************************************)
EXTENDS Integers, Sequences, FiniteSets, SequencesExt

CONSTANTS Self, Peers

ASSUME LookupAssumption == Self \notin Peers /\ IsFiniteSet(Peers)

VARIABLES
    has,            \* the nodes that store the track
    records,        \* the nodes with a provider record in the DHT
    up,             \* the peers that can be reached
    pc,             \* where StartStreaming is
    found,          \* the providers it works with, in the DHT's order
    next,           \* the one to ask next
    steady          \* history: nodes able to serve ever since the lookup

startVars == <<pc, found, next>>
vars == <<has, records, up, startVars, steady>>

Nodes == Peers \cup {Self}
Outcomes == {"local", "download", "refused"}

Init ==
    /\ has = {}
    /\ records = {}
    /\ up = Peers
    /\ pc = "idle"
    /\ found = << >>
    /\ next = 1
    /\ steady = {}

----------------------------------------------------------------------------
(* The catalogue of every node.                                            *)

\* DHT.Provide, which may fail; callers ignore the error.
Provide(n) == records' \in {records, records \cup {n}}

\* handleShareTrack and --share; once loaded, later failures are ignored.
ShareTrack(n, announce) ==
    /\ has' = has \cup {n}
    /\ IF announce THEN Provide(n) ELSE UNCHANGED records
    /\ UNCHANGED <<up, startVars, steady>>

\* handleDHTProvide, for any CID, stored here or not.
HandleDHTProvide(n) ==
    /\ Provide(n)
    /\ UNCHANGED <<has, up, startVars, steady>>

\* The record stays in the DHT.
HandleDeleteTrack(n) ==
    /\ n \in has
    /\ has' = has \ {n}
    /\ steady' = steady \ {n}
    /\ UNCHANGED <<records, up, startVars>>

\* Provider records expire, and peers cannot be reached for a while.
Expire(n) ==
    /\ records' = records \ {n}
    /\ UNCHANGED <<has, up, startVars, steady>>
Leave(p) ==
    /\ up' = up \ {p}
    /\ steady' = steady \ {p}
    /\ UNCHANGED <<has, records, startVars>>
Return(p) ==
    /\ up' = up \cup {p}
    /\ UNCHANGED <<has, records, startVars, steady>>

----------------------------------------------------------------------------
(* StartStreaming.                                                         *)

Goto(stage) == pc' = stage /\ UNCHANGED <<has, records, up>>

StartLocal ==
    /\ pc = "idle"
    /\ Self \in has
    /\ Goto("local")
    /\ UNCHANGED <<found, next, steady>>

StartRemote ==
    /\ pc = "idle"
    /\ Self \notin has
    /\ Goto("lookup")
    /\ UNCHANGED <<found, next, steady>>

\* The lookup brings back some of the records, in any order, or fails.
FindProviders ==
    /\ pc = "lookup"
    /\ \E S \in SUBSET records : found' \in SetToSeqs(S)
    /\ next' = 1
    /\ steady' = has \cap up
    /\ Goto(IF found' = << >> THEN "refused" ELSE "connect")

\* Failures to connect are logged.  queryTotalChunks looks into local storage
\* again before it asks.
Connect ==
    /\ pc = "connect"
    /\ Goto(IF Self \in has THEN "download" ELSE "ask")
    /\ UNCHANGED <<found, next, steady>>

Answers(p) == p \in (has \cap up) \ {Self}

\* Mutant of QueryTotal: the first provider that cannot say ends the query.
QueryTotalFirst ==
    /\ pc = "ask"
    /\ Goto(IF next <= Len(found) /\ Answers(found[next]) THEN "download" ELSE "refused")
    /\ UNCHANGED <<found, next, steady>>

\* queryTotalFromPeer: the next provider has the track and says so; or it has
\* not, cannot be reached, or is this node, and is passed over.
QueryTotal ==
    /\ pc = "ask"
    /\ Goto(IF next > Len(found) THEN "refused"
            ELSE IF Answers(found[next]) THEN "download" ELSE "ask")
    /\ next' = IF pc' = "ask" THEN next + 1 ELSE next
    /\ UNCHANGED <<found, steady>>

\* The caller has its answer.
Finish ==
    /\ pc \in Outcomes
    /\ Goto("idle")
    /\ found' = << >>
    /\ next' = 1
    /\ steady' = {}

StartStreaming ==
    StartLocal \/ StartRemote \/ FindProviders \/ Connect \/ QueryTotal \/ Finish

Next ==
    \/ StartStreaming
    \/ \E n \in Nodes :
         \/ \E announce \in BOOLEAN : ShareTrack(n, announce)
         \/ HandleDHTProvide(n) \/ HandleDeleteTrack(n) \/ Expire(n)
    \/ \E p \in Peers : Leave(p) \/ Return(p)

Spec == Init /\ [][Next]_vars

----------------------------------------------------------------------------
(* Properties.                                                             *)

\* Stale records do not hide a track: once the lookup has found providers, the
\* stream is refused only if none of them has had the track and been reachable
\* all the while.
StaleProvidersDontHide ==
    pc = "refused" => steady \cap ToSet(found) = {}

=============================================================================

----------------------------- MODULE Scheduler -----------------------------
(***************************************************************************)
(* The chunk scheduler (internal/scheduler/scheduler.go): which chunks to  *)
(* request next, and from which peer.                                      *)
(*                                                                         *)
(* Each operator below is one method, executed under s.mu and therefore    *)
(* atomic.  The module has no next-state relation of its own: Download     *)
(* conjoins these operators with the steps of the threads that call them.  *)
(*                                                                         *)
(* Every provider advertises every chunk (engine.go:139-147), so the map   *)
(* chunkPeers is the constant Peers.  BestPeers picks the viable peer with *)
(* the best measured score; scores depend on latencies and sizes, so any   *)
(* viable peer may be picked.                                              *)
(***************************************************************************)
EXTENDS Track, Congestion

CONSTANTS
    Peers,         \* the providers of the track, this node excluded
    Window,        \* window, 50: how far ahead of currentPos chunks are requested
    CriticalEnd    \* zoneCriticalEnd, 5

ASSUME SchedulerAssumption ==
    /\ Peers # {}
    /\ Window \in Nat \ {0}
    /\ CriticalEnd \in 1 .. Window

VARIABLES
    currentPos,    \* where the scheduler believes the reader is
    inflight,      \* chunks handed out and not reported back
    completed,     \* chunks reported as fetched
    failed         \* per chunk, the peers that failed it

schedulerVars == <<currentPos, inflight, completed, failed>>

SchedulerInit ==
    /\ CongestionInit
    /\ currentPos = 0
    /\ inflight = {}
    /\ completed = {}
    /\ failed = [i \in Chunks |-> {}]

----------------------------------------------------------------------------
(* NextRequests.                                                           *)

\* Mutant of Candidates: the window is one chunk too long.
CandidatesOneTooMany ==
    {i \in Chunks : currentPos <= i /\ i <= currentPos + Window}
        \ (completed \cup inflight)

Candidates ==
    {i \in Chunks : currentPos <= i /\ i < currentPos + Window}
        \ (completed \cup inflight)

\* Every peer has failed chunk i, so none would be left to ask.
Exhausted(i) == Peers \subseteq failed[i]

\* The peers chunk i may be asked from; when all have failed it, all again.
Viable(i) == IF Exhausted(i) THEN Peers ELSE Peers \ failed[i]

Available ==
    IF Cardinality(inflight) >= maxInflight
    THEN 0
    ELSE maxInflight - Cardinality(inflight)

IsCritical(i) == i - currentPos < CriticalEnd

\* The candidates more urgent than i.  Priority zones are ranges of distance
\* and distances are distinct, so the sort is by index.
MoreUrgent(i) == {j \in Candidates : j < i}

\* Mutant of Taken: the cap is compared with > instead of >=.
TakenOneTooMany ==
    {i \in Candidates :
        IsCritical(i) \/ Cardinality(MoreUrgent(i)) <= Available}

\* Critical chunks bypass the cap; the others are taken in order until the cap
\* is used up, the critical ones counted.
Taken ==
    {i \in Candidates :
        IsCritical(i) \/ Cardinality(MoreUrgent(i)) < Available}

\* A choice of requests: the peer each taken chunk is asked from.
RequestChoices ==
    {choice \in [Taken -> Peers] : \A i \in Taken : choice[i] \in Viable(i)}

\* The taken chunks are in flight as soon as NextRequests returns, before any
\* of them is dispatched; every exhausted candidate is forgiven, taken or not.
NextRequests ==
    /\ inflight' = inflight \cup Taken
    /\ failed' = [i \in Chunks |->
                    IF i \in Candidates /\ Exhausted(i) THEN {} ELSE failed[i]]
    /\ UNCHANGED <<currentPos, completed, congestionVars>>

----------------------------------------------------------------------------
(* Reports of the fetch goroutines and of the stall monitor.               *)

MarkCompleted(i) ==
    /\ inflight' = inflight \ {i}
    /\ completed' = completed \cup {i}
    /\ RecordOutcome(TRUE)
    /\ UNCHANGED <<currentPos, failed>>

\* Mutant of MarkFailed: the chunk stays in flight.
MarkFailedKeepsInflight(i, p) ==
    /\ failed' = [failed EXCEPT ![i] = @ \cup {p}]
    /\ RecordOutcome(FALSE)
    /\ UNCHANGED <<currentPos, inflight, completed>>

MarkFailed(i, p) ==
    /\ inflight' = inflight \ {i}
    /\ failed' = [failed EXCEPT ![i] = @ \cup {p}]
    /\ RecordOutcome(FALSE)
    /\ UNCHANGED <<currentPos, completed>>

SetCurrentPosition(pos) ==
    /\ currentPos' = pos
    /\ UNCHANGED <<inflight, completed, failed, congestionVars>>

\* Mutant of ResetTo: the window does not follow the reader.
ResetKeepsPosition(pos) ==
    /\ inflight' = {}
    /\ UNCHANGED <<currentPos, completed, failed, congestionVars>>

\* Completed chunks are preserved; what is in flight is forgotten.
ResetTo(pos) ==
    /\ currentPos' = pos
    /\ inflight' = {}
    /\ UNCHANGED <<completed, failed, congestionVars>>

=============================================================================

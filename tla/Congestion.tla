----------------------------- MODULE Congestion -----------------------------
(***************************************************************************)
(* The congestion control of the chunk scheduler                           *)
(* (internal/scheduler/scheduler.go, recordOutcome): a cap on the number   *)
(* of requests in flight that is halved after a run of failures and raised *)
(* by one while the recent outcomes are good.                              *)
(*                                                                         *)
(* Scheduler extends this module and calls RecordOutcome; on its own it is *)
(* checked against an environment that reports outcomes in any order.      *)
(***************************************************************************)
EXTENDS Integers, Sequences, FiniteSets

CONSTANTS
    InitialMaxInflight,   \* initialMaxInflight, 8
    MinMaxInflight,       \* minMaxInflight, 2
    MaxMaxInflight,       \* maxMaxInflight, 32
    CongestionWindow,     \* congestionWindow, 20
    FailuresToHalve       \* the literal 3 of recordOutcome

ASSUME CongestionAssumption ==
    /\ MinMaxInflight \in Nat \ {0}
    /\ InitialMaxInflight \in Nat
    /\ MaxMaxInflight \in Nat
    /\ MinMaxInflight <= InitialMaxInflight
    /\ InitialMaxInflight <= MaxMaxInflight
    /\ CongestionWindow \in Nat \ {0}
    /\ FailuresToHalve \in 1 .. CongestionWindow

VARIABLES
    maxInflight,       \* the current cap
    recentOutcomes,    \* the last outcomes, oldest first; TRUE is a success
    consecutiveFail    \* failures since the last success or halving

congestionVars == <<maxInflight, recentOutcomes, consecutiveFail>>

CongestionInit ==
    /\ maxInflight = InitialMaxInflight
    /\ recentOutcomes = << >>
    /\ consecutiveFail = 0

----------------------------------------------------------------------------

\* The sliding window after one more outcome; the oldest is dropped when full.
Slide(outcomes, success) ==
    IF Len(outcomes) < CongestionWindow
    THEN Append(outcomes, success)
    ELSE Tail(Append(outcomes, success))

Successes(outcomes) == Cardinality({k \in DOMAIN outcomes : outcomes[k]})

\* Mutant of SustainedSuccess: the window is never longer than its size.
SustainedSuccessNever(outcomes) ==
    /\ Len(outcomes) > CongestionWindow
    /\ 10 * Successes(outcomes) >= 9 * CongestionWindow

\* At least nine successes in ten over a full window.
SustainedSuccess(outcomes) ==
    /\ Len(outcomes) >= CongestionWindow
    /\ 10 * Successes(outcomes) >= 9 * CongestionWindow

\* Mutant of Halved: no floor.
HalvedNoFloor(limit) == limit \div 2

Halved(limit) ==
    IF limit \div 2 < MinMaxInflight THEN MinMaxInflight ELSE limit \div 2

\* Mutant of RecordFailure: the counter is not reset after halving.
RecordFailureNoReset ==
    /\ recentOutcomes' = Slide(recentOutcomes, FALSE)
    /\ consecutiveFail' = consecutiveFail + 1
    /\ maxInflight' = IF consecutiveFail + 1 >= FailuresToHalve
                      THEN Halved(maxInflight) ELSE maxInflight

\* A failure that completes a run of FailuresToHalve halves the cap and
\* starts a new run.
RecordFailure ==
    /\ recentOutcomes' = Slide(recentOutcomes, FALSE)
    /\ \/ /\ consecutiveFail + 1 >= FailuresToHalve
          /\ maxInflight' = Halved(maxInflight)
          /\ consecutiveFail' = 0
       \/ /\ consecutiveFail + 1 < FailuresToHalve
          /\ consecutiveFail' = consecutiveFail + 1
          /\ UNCHANGED maxInflight

\* Mutant of RecordSuccess: the run of failures survives a success.
RecordSuccessKeepsRun ==
    /\ recentOutcomes' = Slide(recentOutcomes, TRUE)
    /\ UNCHANGED <<consecutiveFail, maxInflight>>

\* A success ends the run of failures; it raises the cap by one when the whole
\* window is good and the ceiling is not reached.
RecordSuccess ==
    /\ recentOutcomes' = Slide(recentOutcomes, TRUE)
    /\ consecutiveFail' = 0
    /\ maxInflight' =
         IF SustainedSuccess(recentOutcomes') /\ maxInflight < MaxMaxInflight
         THEN maxInflight + 1
         ELSE maxInflight

RecordOutcome(success) == IF success THEN RecordSuccess ELSE RecordFailure

----------------------------------------------------------------------------
(* The congestion control alone, with outcomes in any order.               *)

CongestionNext == \E success \in BOOLEAN : RecordOutcome(success)

\* Some fetches succeed as long as the stream downloads.
CongestionSpec ==
    /\ CongestionInit
    /\ [][CongestionNext]_congestionVars
    /\ WF_congestionVars(RecordSuccess)

\* Type invariant; the window never holds more than CongestionWindow outcomes.
CongestionTypeOK ==
    /\ maxInflight \in Nat
    /\ recentOutcomes \in Seq(BOOLEAN)
    /\ Len(recentOutcomes) <= CongestionWindow
    /\ consecutiveFail \in 0 .. FailuresToHalve - 1

\* The cap stays between its floor and its ceiling whatever the outcomes, so
\* the scheduler can always send something and never more than the ceiling
\* ("2-32 in-flight requests").
CapInRange == maxInflight \in MinMaxInflight .. MaxMaxInflight

\* The n most recent outcomes are failures.
EndsInFailures(outcomes, n) ==
    /\ n <= Len(outcomes)
    /\ \A k \in DOMAIN outcomes : k > Len(outcomes) - n => ~outcomes[k]

\* The run counter never runs ahead of the outcomes: the consecutiveFail most
\* recent outcomes are all in the window and are all failures.
FailureRun == EndsInFailures(recentOutcomes, consecutiveFail)

\* The cap only ever shrinks on the last of FailuresToHalve failures in a row,
\* never because of failures scattered between successes.
HalvedOnlyByFailureRun ==
    [][maxInflight' < maxInflight
         => EndsInFailures(recentOutcomes', FailuresToHalve)]_congestionVars

\* Halving is not for ever: once failures stop, the cap climbs back to the
\* ceiling and stays there.
RecoversToCeiling ==
    <>[][~RecordFailure]_congestionVars => <>[](maxInflight = MaxMaxInflight)

=============================================================================

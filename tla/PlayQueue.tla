----------------------------- MODULE PlayQueue -----------------------------
(***************************************************************************)
(* The playback queue (internal/queue/queue.go): its methods, each one a   *)
(* critical section, conjoined by the threads that call them.  Titles and  *)
(* artists are left out.  An item is one entry of the queue: two entries   *)
(* for one CID are two items.                                              *)
(***************************************************************************)
EXTENDS Integers, Sequences, FiniteSets, SequencesExt

CONSTANTS Items, NoItem

ASSUME PlayQueueAssumption == NoItem \notin Items /\ IsFiniteSet(Items)

VARIABLES
    items,          \* upcoming, the next to play first
    history,        \* played or given up, the most recent last
    current         \* the item last taken, or NoItem

queueVars == <<items, history, current>>

QueueInit ==
    /\ items = << >>
    /\ history = << >>
    /\ current = NoItem

Enqueue(x) ==
    /\ items' = Append(items, x)
    /\ UNCHANGED <<history, current>>

\* A position below the front is the front, one past the end is the end.
Insert(pos, x) ==
    /\ items' = InsertAt(items, IF pos < 0 THEN 1
                                ELSE IF pos >= Len(items) THEN Len(items) + 1
                                ELSE pos + 1, x)
    /\ UNCHANGED <<history, current>>

Retire == history' = IF current = NoItem THEN history ELSE Append(history, current)

\* Mutant of TakeNext: the item is shown as current and stays upcoming.
TakeNextKeeps ==
    /\ Retire
    /\ current' = IF items = << >> THEN NoItem ELSE Head(items)
    /\ UNCHANGED items

\* Mutant of TakeNext: a queue that repeats, the item played goes to its end.
TakeNextRepeats ==
    /\ Retire
    /\ current' = IF items = << >> THEN NoItem ELSE Head(items)
    /\ items' = (IF items = << >> THEN items ELSE Tail(items))
                  \o (IF current = NoItem THEN << >> ELSE <<current>>)

\* Next.  On an empty queue the last item still goes to the history.
TakeNext ==
    /\ Retire
    /\ current' = IF items = << >> THEN NoItem ELSE Head(items)
    /\ items' = IF items = << >> THEN items ELSE Tail(items)

Clear ==
    /\ items' = << >>
    /\ UNCHANGED <<history, current>>

=============================================================================

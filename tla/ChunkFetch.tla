----------------------------- MODULE ChunkFetch -----------------------------
(***************************************************************************)
(* What fetchChunk (internal/streaming/engine.go) promises its callers,    *)
(* the goroutines that fetch: a call for a chunk is not changed while it   *)
(* runs, and returns that chunk's bytes or fails.  Calls run side by side. *)
(*                                                                         *)
(* Protocol implements it with requests, replies and pooled streams;       *)
(* Download relies on no more of it.                                       *)
(***************************************************************************)
CONSTANTS
    Callers,
    Chunks,
    Content     \* per chunk, what a fetch of it returns

VARIABLE
    call        \* per caller: << >> outside, <<i>> while it asks for chunk i,
                \* <<i, data>> when it has got data

Init == call = [c \in Callers |-> << >>]

Ask(c) ==
    /\ call[c] = << >>
    /\ \E i \in Chunks : call' = [call EXCEPT ![c] = <<i>>]

Succeed(c) ==
    \E i \in Chunks :
        /\ call[c] = <<i>>
        /\ call' = [call EXCEPT ![c] = <<i, Content[i]>>]

\* With an error, or with the data.
Return(c) ==
    /\ call[c] # << >>
    /\ call' = [call EXCEPT ![c] = << >>]

Next == \E c \in Callers : Ask(c) \/ Succeed(c) \/ Return(c)

Spec == Init /\ [][Next]_call

=============================================================================

--------------------------- MODULE MCCongestion ---------------------------
(***************************************************************************)
(* Congestion with a window of ten outcomes: the smallest window in which  *)
(* nine in ten tolerates one failure, as eighteen in twenty tolerates two. *)
(***************************************************************************)
EXTENDS Congestion
=============================================================================

----------------------------- MODULE MCDownload -----------------------------
(***************************************************************************)
(* Download on small instances.  Fetchers bounds the goroutines that run   *)
(* at a time: more of them than the window has chunks lets a reset         *)
(* dispatch a chunk that is already being fetched.                         *)
(***************************************************************************)
EXTENDS Download, TLC

Symmetry == Permutations(Fetchers)
=============================================================================

----------------------------- MODULE MCPlayback -----------------------------
(***************************************************************************)
(* Playback on small instances: three items, so that the preloader of one  *)
(* track can be late by a whole track and still find an item to peek at.   *)
(***************************************************************************)
EXTENDS Playback
=============================================================================

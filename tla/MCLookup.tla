------------------------------ MODULE MCLookup ------------------------------
(***************************************************************************)
(* Lookup on small instances: three providers, one of them this node, so   *)
(* that a stale record may come before, between and after the good one.    *)
(***************************************************************************)
EXTENDS Lookup
=============================================================================

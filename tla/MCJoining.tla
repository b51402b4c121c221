----------------------------- MODULE MCJoining -----------------------------
(***************************************************************************)
(* Joining on small instances: peers with two addresses to move between,   *)
(* so that codes and lookups go stale.                                     *)
(***************************************************************************)
EXTENDS Joining
=============================================================================

----------------------------- MODULE MCProtocol -----------------------------
(***************************************************************************)
(* Protocol on small instances: more clients than MaxStreamsPerPeer, so    *)
(* that a release finds the idle stack full, and more streams than clients. *)
(***************************************************************************)
EXTENDS Protocol
=============================================================================

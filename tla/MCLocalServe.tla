---------------------------- MODULE MCLocalServe ----------------------------
(***************************************************************************)
(* LocalServe on small instances: a buffer smaller than the track, so that *)
(* backpressure and a removal in mid-track both happen.                    *)
(***************************************************************************)
EXTENDS LocalServe
=============================================================================

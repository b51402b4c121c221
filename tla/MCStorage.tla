----------------------------- MODULE MCStorage -----------------------------
(***************************************************************************)
(* Storage on every file of up to MaxLength bytes over an alphabet of junk *)
(* and headers of frames of 2, 3 and 4 bytes, and of one whose version has *)
(* no bitrates.  A header has 2 bytes here and a chunk 2 frames.           *)
(***************************************************************************)
EXTENDS Storage

CONSTANT MaxLength

Header(version, layer, bitrateIdx, padding) ==
    [version |-> version, layer |-> layer, bitrateIdx |-> bitrateIdx,
     sampleIdx |-> 0, padding |-> padding]
Letters == {Junk, Header(3, 1, 1, 0), Header(3, 1, 1, 1), Header(3, 3, 1, 0), Header(2, 1, 1, 0)}

MCFiles == UNION {[1 .. n -> Letters] : n \in 0 .. MaxLength}

\* 144000 / 72000 = 2 bytes, and (12 * 6000 / 72000) * 4 = 4 bytes.
MCBitrates == (3 :> (1 :> [i \in 0 .. 15 |-> i] @@ 3 :> [i \in 0 .. 15 |-> 6 * i]))
MCSampleRates == (2 :> [i \in 0 .. 2 |-> 36000]) @@ (3 :> [i \in 0 .. 2 |-> 72000])
=============================================================================

------------------------------ MODULE MCGossip ------------------------------
(***************************************************************************)
(* Gossip on small instances.  Two records of one track share a MetaID, as *)
(* "ab" by nobody and "a" by "b", and a third has a title that is not UTF-8. *)
(***************************************************************************)
EXTENDS Gossip, TLC

CONSTANTS n1, n2, c1, c2, a, b

Record(cid, title, artist) ==
    [cid |-> cid, title |-> title, artist |-> artist, duration |-> 0, metaID |-> << >>]

MCKnown == {Record(c1, <<a, b>>, << >>), Record(c1, <<a>>, <<b>>), Record(c2, <<Bad>>, <<a>>)}
Symmetry == Permutations(Nodes)
=============================================================================

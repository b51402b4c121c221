------------------------------- MODULE Gossip -------------------------------
(***************************************************************************)
(* Track metadata (internal/metadata/metadata.go): every node keeps a      *)
(* store in memory, signs the records it announces, publishes them on one  *)
(* gossipsub topic and merges those it receives.  The handlers that call   *)
(* the store are those of internal/api/handlers.go and of main.            *)
(*                                                                         *)
(* A text is a sequence of letters.  One letter, Bad, stands for bytes     *)
(* that are no UTF-8 (a file name may hold some): encoding/json writes     *)
(* them as an escape, and reads the escape as the replacement character,   *)
(* which it writes as itself.  No handler sets variants.                   *)
(***************************************************************************)
EXTENDS Integers, Sequences, FiniteSets

CONSTANTS
    Nodes,
    CIDs, Letters,
    Known,              \* the records users announce, without MetaID
    Bad, Escape, Replacement

ASSUME GossipAssumption ==
    /\ Known \subseteq [cid : CIDs, title : Seq(Letters), artist : Seq(Letters),
                        duration : Nat, metaID : {<< >>}]
    /\ Escape \notin Letters
    /\ Replacement # Escape

VARIABLES
    index,              \* per node, by CID
    byMeta,             \* per node, by MetaID
    publishing,         \* per node, the records its handlers will publish next
    inbox,              \* per node, the envelopes on their way to it
    seen,               \* history: per node, the records its store was given
    announced           \* history: the records given to any node by its user

storeVars == <<index, byMeta, seen>>
vars == <<storeVars, publishing, inbox, announced>>

Empty == [x \in {} |-> x]

Init ==
    /\ index = [n \in Nodes |-> Empty]
    /\ byMeta = [n \in Nodes |-> Empty]
    /\ publishing = [n \in Nodes |-> {}]
    /\ inbox = [n \in Nodes |-> {}]
    /\ seen = [n \in Nodes |-> {}]
    /\ announced = {}

----------------------------------------------------------------------------
(* Records.                                                                *)

\* The hash of title, artist and duration, one after the other: records that
\* split one text differently between title and artist share a MetaID.
ComputeMetaID(m) == m.title \o m.artist \o <<m.duration>>

Filled(m) ==
    IF m.metaID = << >> THEN [m EXCEPT !.metaID = ComputeMetaID(m)] ELSE m

completeness(m) ==
    Cardinality({f \in {"title", "artist"} : m[f] # << >>}) + (IF m.duration = 0 THEN 0 ELSE 1)

Spell(text, from, to) == [i \in DOMAIN text |-> IF text[i] = from THEN to ELSE text[i]]
Respell(m, from, to) ==
    [m EXCEPT !.title = Spell(@, from, to), !.artist = Spell(@, from, to)]
Marshal(m) == Respell(m, Bad, Escape)
Unmarshal(json) == Respell(json, Escape, Replacement)

\* Publish signs Marshal of the record: the signature is that JSON.
Envelope(m) == [metadata |-> Marshal(m), signature |-> Marshal(m)]

\* Mutant of verify: every signature is valid.
verifyNothing(env) == TRUE

\* The receiver marshals again what it has unmarshalled.
verify(env) == Marshal(Unmarshal(env.metadata)) = env.signature

----------------------------------------------------------------------------
(* The store.                                                              *)

Keep(f, key, m) == [x \in DOMAIN f \cup {key} |-> IF x = key THEN m ELSE f[x]]

\* Mutant of Dedup: a later record replaces an earlier one.
DedupLatest(f, m) == Keep(f, m.metaID, m)

Dedup(f, m) ==
    IF m.metaID \in DOMAIN f /\ completeness(m) <= completeness(f[m.metaID])
    THEN f
    ELSE Keep(f, m.metaID, m)

\* Mutant of upsert: only the first record of a CID is filed by MetaID.
upsertKnown(n, m) ==
    /\ index' = [index EXCEPT ![n] = Keep(@, m.cid, m)]
    /\ byMeta' = [byMeta EXCEPT ![n] = IF m.cid \in DOMAIN index[n] THEN @ ELSE Dedup(@, m)]
    /\ seen' = [seen EXCEPT ![n] = @ \cup {m}]

upsert(n, m) ==
    /\ index' = [index EXCEPT ![n] = Keep(@, m.cid, m)]
    /\ byMeta' = [byMeta EXCEPT ![n] = Dedup(@, m)]
    /\ seen' = [seen EXCEPT ![n] = @ \cup {m}]

\* handlePublishMetadata, handleShareTrack and --share: AddLocal; and then, if
\* the track is announced, Publish, after other handlers may have run.
AddLocal(n, m, announce) ==
    /\ upsert(n, Filled(m))
    /\ announced' = announced \cup {Filled(m)}
    /\ publishing' = [publishing EXCEPT ![n] = IF announce THEN @ \cup {m} ELSE @]
    /\ UNCHANGED inbox

\* The envelope goes to every subscriber, the publisher among them.
Publish(n, m) ==
    /\ m \in publishing[n]
    /\ publishing' = [publishing EXCEPT ![n] = @ \ {m}]
    /\ inbox' = [k \in Nodes |-> inbox[k] \cup {Envelope(Filled(m))}]
    /\ UNCHANGED <<storeVars, announced>>

\* receiveLoop, on any envelope: the topic keeps no order.
Receive(n, env) ==
    /\ env \in inbox[n]
    /\ inbox' = [inbox EXCEPT ![n] = @ \ {env}]
    /\ IF verify(env) THEN upsert(n, Filled(Unmarshal(env.metadata)))
                      ELSE UNCHANGED storeVars
    /\ UNCHANGED <<publishing, announced>>

\* gossipsub promises no delivery.
Lose(n, env) ==
    /\ env \in inbox[n]
    /\ inbox' = [inbox EXCEPT ![n] = @ \ {env}]
    /\ UNCHANGED <<storeVars, publishing, announced>>

\* Mutant of Restart: the map by CID survives.
RestartKeepsIndex(n) ==
    /\ byMeta' = [byMeta EXCEPT ![n] = Empty]
    /\ seen' = [seen EXCEPT ![n] = {}]
    /\ publishing' = [publishing EXCEPT ![n] = {}]
    /\ inbox' = [inbox EXCEPT ![n] = {}]
    /\ UNCHANGED <<index, announced>>

\* Nothing is on disk.
Restart(n) ==
    /\ index' = [index EXCEPT ![n] = Empty]
    /\ byMeta' = [byMeta EXCEPT ![n] = Empty]
    /\ seen' = [seen EXCEPT ![n] = {}]
    /\ publishing' = [publishing EXCEPT ![n] = {}]
    /\ inbox' = [inbox EXCEPT ![n] = {}]
    /\ UNCHANGED announced

Next == \E n \in Nodes :
    \/ \E m \in Known, announce \in BOOLEAN : AddLocal(n, m, announce)
    \/ \E m \in Known : Publish(n, m)
    \/ \E env \in inbox[n] : Receive(n, env) \/ Lose(n, env)
    \/ Restart(n)

Spec == Init /\ [][Next]_vars

----------------------------------------------------------------------------
(* Properties.                                                             *)

\* Type invariant: a store holds only records it was given, under their keys.
TypeOK == \A n \in Nodes :
    /\ \A cid \in DOMAIN index[n] : index[n][cid] \in seen[n] /\ index[n][cid].cid = cid
    /\ \A id \in DOMAIN byMeta[n] : byMeta[n][id] \in seen[n] /\ byMeta[n][id].metaID = id
    /\ publishing[n] \subseteq Known
    /\ inbox[n] \subseteq {Envelope(Filled(m)) : m \in Known}
    /\ announced \subseteq {Filled(m) : m \in Known}

\* Stores that were given the same records, in whatever orders, know equally
\* complete ones for every MetaID.
SameSeenSameCompleteness ==
    \A m, n \in Nodes : seen[m] = seen[n] =>
        /\ DOMAIN byMeta[m] = DOMAIN byMeta[n]
        /\ \A id \in DOMAIN byMeta[m] :
             completeness(byMeta[m][id]) = completeness(byMeta[n][id])

\* The two maps agree: what is found by CID is also found by MetaID, and not
\* less complete.
IndexedHasMetaEntry ==
    \A n \in Nodes : \A cid \in DOMAIN index[n] :
        LET m == index[n][cid]
        IN  /\ m.metaID \in DOMAIN byMeta[n]
            /\ completeness(byMeta[n][m.metaID]) >= completeness(m)

\* A record reaches other nodes as it was announced or not at all, although
\* JSON does not bring every text back.
KnownVerbatim == \A n \in Nodes : seen[n] \subseteq announced

\* A node that keeps running learns only: nothing it knows of a track is
\* forgotten, or replaced by a less complete record, whatever it is told after.
NothingIsUnlearned ==
    [][\A n \in Nodes : Restart(n) \/ \A id \in DOMAIN byMeta[n] :
         /\ id \in DOMAIN byMeta'[n]
         /\ completeness(byMeta'[n][id]) >= completeness(byMeta[n][id])]_vars

=============================================================================

---------------------------- MODULE GossipProofs ----------------------------
(***************************************************************************)
(* What the metadata stores know, for any records and any number of nodes. *)
(* The invariant: a store holds records it was given, each under its keys, *)
(* and by MetaID the most complete of them; and what it was given, some    *)
(* user has announced word for word.  The last needs that a record which   *)
(* JSON changes fails its signature check.                                 *)
(***************************************************************************)
EXTENDS Gossip, FiniteSetTheorems, SequenceTheorems, TLAPS

\* Every record given to a store is found by its MetaID, or a more complete one.
Best(n) ==
    \A m \in seen[n] :
        /\ m.metaID \in DOMAIN byMeta[n]
        /\ completeness(byMeta[n][m.metaID]) >= completeness(m)

\* An envelope is that of a record some user has announced.
Announced(env) == \E m \in Known : Filled(m) \in announced /\ env = Envelope(Filled(m))

Domains ==
    /\ DOMAIN index = Nodes
    /\ DOMAIN byMeta = Nodes
    /\ DOMAIN publishing = Nodes
    /\ DOMAIN inbox = Nodes
    /\ DOMAIN seen = Nodes

StoreInv(n) ==
    /\ \A cid \in DOMAIN index[n] : index[n][cid] \in seen[n] /\ index[n][cid].cid = cid
    /\ \A id \in DOMAIN byMeta[n] : byMeta[n][id] \in seen[n] /\ byMeta[n][id].metaID = id
    /\ Best(n)
    /\ seen[n] \subseteq announced

WireInv(n) ==
    /\ publishing[n] \subseteq {m \in Known : Filled(m) \in announced}
    /\ \A env \in inbox[n] : Announced(env)

GossipInv ==
    /\ Domains
    /\ announced \subseteq {Filled(m) : m \in Known}
    /\ \A n \in Nodes : StoreInv(n) /\ WireInv(n)

----------------------------------------------------------------------------
(* Completeness and deduplication.                                         *)

LEMMA CompletenessNat == ASSUME NEW m PROVE completeness(m) \in Nat
  <1>. DEFINE given == {f \in {"title", "artist"} : m[f] # << >>}
  <1>1. IsFiniteSet({"title", "artist"})
    <2>1. IsFiniteSet({"title"})
      BY FS_Singleton
    <2>2. {"title", "artist"} = {"title"} \cup {"artist"}
      OBVIOUS
    <2>. QED BY <2>1, <2>2, FS_AddElement
  <1>2. Cardinality(given) \in Nat
    BY <1>1, FS_Subset, FS_CardinalityType
  <1>. QED BY <1>2 DEF completeness

\* Dedup never makes an entry less complete, and has m or a better one.
LEMMA DedupImproves ==
    ASSUME NEW f, NEW m
    PROVE  /\ DOMAIN Dedup(f, m) = DOMAIN f \cup {m.metaID}
           /\ \A id \in DOMAIN f : completeness(Dedup(f, m)[id]) >= completeness(f[id])
           /\ completeness(Dedup(f, m)[m.metaID]) >= completeness(m)
           /\ \A id \in DOMAIN f :
                Dedup(f, m)[id] = f[id] \/ (id = m.metaID /\ Dedup(f, m)[id] = m)
           /\ m.metaID \notin DOMAIN f => Dedup(f, m)[m.metaID] = m
  <1>1. /\ completeness(m) \in Nat
        /\ \A id \in DOMAIN f : completeness(f[id]) \in Nat
    BY CompletenessNat
  <1>2. CASE m.metaID \in DOMAIN f /\ completeness(m) <= completeness(f[m.metaID])
    <2>1. Dedup(f, m) = f
      BY <1>2 DEF Dedup
    <2>. QED BY <1>1, <1>2, <2>1
  <1>3. CASE ~(m.metaID \in DOMAIN f /\ completeness(m) <= completeness(f[m.metaID]))
    <2>1. Dedup(f, m) = Keep(f, m.metaID, m)
      BY <1>3 DEF Dedup
    <2>. QED BY <1>1, <1>3, <2>1 DEF Keep
  <1>. QED BY <1>2, <1>3

----------------------------------------------------------------------------
(* Records and JSON.                                                       *)

FullRecords ==
    [cid : CIDs, title : Seq(Letters), artist : Seq(Letters), duration : Nat,
     metaID : Seq(Letters \cup Nat)]

LEMMA FilledIsFull ==
    ASSUME NEW m \in Known
    PROVE  Filled(m) \in FullRecords /\ Filled(m).metaID # << >>
  <1>1. m \in [cid : CIDs, title : Seq(Letters), artist : Seq(Letters),
               duration : Nat, metaID : {<< >>}]
    BY GossipAssumption
  <1>2. m.title \in Seq(Letters \cup Nat) /\ m.artist \in Seq(Letters \cup Nat)
    BY <1>1
  <1>3. <<m.duration>> \in Seq(Letters \cup Nat) /\ Len(<<m.duration>>) = 1
    BY <1>1
  <1>4. /\ ComputeMetaID(m) \in Seq(Letters \cup Nat)
        /\ Len(ComputeMetaID(m)) = Len(m.title) + Len(m.artist) + 1
    BY <1>2, <1>3 DEF ComputeMetaID
  <1>5. ComputeMetaID(m) # << >>
    <2>1. Len(m.title) \in Nat /\ Len(m.artist) \in Nat
      BY <1>1
    <2>2. \A x, y \in Nat : x + y + 1 # 0
      OBVIOUS
    <2>3. Len(ComputeMetaID(m)) # 0
      BY <1>4, <2>1, <2>2, Zenon
    <2>. QED BY <2>3
  <1>6. Filled(m) = [m EXCEPT !.metaID = ComputeMetaID(m)]
    BY <1>1 DEF Filled
  <1>. QED BY <1>1, <1>4, <1>5, <1>6 DEF FullRecords

\* A text that JSON changes is not signed as it is read.
LEMMA SpellTwice ==
    ASSUME NEW text \in Seq(Letters),
           Spell(Spell(Spell(text, Bad, Escape), Escape, Replacement), Bad, Escape)
             = Spell(text, Bad, Escape)
    PROVE  Spell(Spell(text, Bad, Escape), Escape, Replacement) = text
  <1>. DEFINE back == Spell(Spell(text, Bad, Escape), Escape, Replacement)
  <1>1. \A i \in DOMAIN text : text[i] \in Letters /\ text[i] # Escape
    BY GossipAssumption
  <1>2. ASSUME NEW i \in DOMAIN text PROVE back[i] = text[i]
    <2>1. CASE text[i] = Bad
      <3>1. Spell(text, Bad, Escape)[i] = Escape
        BY <2>1 DEF Spell
      <3>2. back[i] = Replacement
        BY <3>1 DEF Spell
      <3>3. Spell(back, Bad, Escape)[i] = Escape
        BY <3>1
      <3>4. Replacement = Bad
        BY <3>2, <3>3, GossipAssumption DEF Spell
      <3>. QED BY <2>1, <3>2, <3>4
    <2>2. CASE text[i] # Bad
      BY <1>1, <2>2 DEF Spell
    <2>. QED BY <2>1, <2>2
  <1>3. DOMAIN back = DOMAIN text
    BY DEF Spell
  <1>4. back = [i \in DOMAIN text |-> back[i]]
    BY <1>3 DEF Spell
  <1>5. text = [i \in DOMAIN text |-> text[i]]
    OBVIOUS
  <1>. QED BY <1>2, <1>4, <1>5

\* A record that passes its check is the one that was signed.
LEMMA VerifiedIsVerbatim ==
    ASSUME NEW r \in FullRecords, r.metaID # << >>, verify(Envelope(r))
    PROVE  Filled(Unmarshal(Envelope(r).metadata)) = r
  <1>. DEFINE back == Unmarshal(Marshal(r))
  <1>1. Marshal(back) = Marshal(r)
    BY DEF verify, Envelope
  <1>2. /\ back.title = Spell(Spell(r.title, Bad, Escape), Escape, Replacement)
        /\ back.artist = Spell(Spell(r.artist, Bad, Escape), Escape, Replacement)
        /\ Marshal(back).title = Spell(back.title, Bad, Escape)
        /\ Marshal(back).artist = Spell(back.artist, Bad, Escape)
        /\ Marshal(r).title = Spell(r.title, Bad, Escape)
        /\ Marshal(r).artist = Spell(r.artist, Bad, Escape)
    BY DEF Marshal, Unmarshal, Respell, FullRecords
  <1>3. back.title = r.title /\ back.artist = r.artist
    BY <1>1, <1>2, SpellTwice DEF FullRecords
  <1>4. back = [r EXCEPT !.title = back.title, !.artist = back.artist]
    BY DEF Marshal, Unmarshal, Respell, FullRecords
  <1>5. back = r
    BY <1>3, <1>4 DEF FullRecords
  <1>. QED BY <1>5 DEF Filled, Envelope

----------------------------------------------------------------------------
(* The invariant.                                                          *)

LEMMA GossipInit == Init => GossipInv
  BY DEF Init, GossipInv, Domains, StoreInv, WireInv, Best, Empty

\* A record announced by some user is merged into the store of n.
LEMMA UpsertStore ==
    ASSUME Domains, NEW n \in Nodes, NEW m, upsert(n, m),
           announced \subseteq announced', m \in announced',
           \A k \in Nodes : StoreInv(k)
    PROVE  /\ \A k \in Nodes : StoreInv(k)'
           /\ DOMAIN index' = Nodes /\ DOMAIN byMeta' = Nodes /\ DOMAIN seen' = Nodes
  <1>1. /\ index'[n] = Keep(index[n], m.cid, m)
        /\ byMeta'[n] = Dedup(byMeta[n], m)
        /\ seen'[n] = seen[n] \cup {m}
        /\ \A k \in Nodes \ {n} : /\ index'[k] = index[k]
                                  /\ byMeta'[k] = byMeta[k]
                                  /\ seen'[k] = seen[k]
    BY DEF upsert, Domains
  <1>2. ASSUME NEW k \in Nodes \ {n} PROVE StoreInv(k)'
    BY <1>1, <1>2 DEF StoreInv, Best
  <1>3. StoreInv(n)'
    <2>. DEFINE f == byMeta[n]
    <2>0. /\ DOMAIN Dedup(f, m) = DOMAIN f \cup {m.metaID}
          /\ \A id \in DOMAIN f : completeness(Dedup(f, m)[id]) >= completeness(f[id])
          /\ completeness(Dedup(f, m)[m.metaID]) >= completeness(m)
          /\ \A id \in DOMAIN f :
               Dedup(f, m)[id] = f[id] \/ (id = m.metaID /\ Dedup(f, m)[id] = m)
          /\ m.metaID \notin DOMAIN f => Dedup(f, m)[m.metaID] = m
      BY DedupImproves
    <2>1. \A cid \in DOMAIN index'[n] :
             index'[n][cid] \in seen'[n] /\ index'[n][cid].cid = cid
      BY <1>1 DEF StoreInv, Keep
    <2>2. \A id \in DOMAIN byMeta'[n] :
             byMeta'[n][id] \in seen'[n] /\ byMeta'[n][id].metaID = id
      BY <1>1, <2>0 DEF StoreInv
    <2>3. ASSUME NEW r \in seen'[n]
          PROVE  /\ r.metaID \in DOMAIN byMeta'[n]
                 /\ completeness(byMeta'[n][r.metaID]) >= completeness(r)
      <3>1. CASE r = m
        BY <1>1, <2>0, <3>1
      <3>2. CASE r \in seen[n]
        <4>1. r.metaID \in DOMAIN f /\ completeness(f[r.metaID]) >= completeness(r)
          BY <3>2 DEF StoreInv, Best
        <4>2. /\ r.metaID \in DOMAIN Dedup(f, m)
              /\ completeness(Dedup(f, m)[r.metaID]) >= completeness(f[r.metaID])
          BY <2>0, <4>1
        <4>3. /\ completeness(Dedup(f, m)[r.metaID]) \in Nat
              /\ completeness(f[r.metaID]) \in Nat
              /\ completeness(r) \in Nat
          BY CompletenessNat
        <4>. QED BY <1>1, <4>1, <4>2, <4>3
      <3>. QED BY <1>1, <3>1, <3>2
    <2>4. seen'[n] \subseteq announced'
      BY <1>1 DEF StoreInv
    <2>. QED BY <2>1, <2>2, <2>3, <2>4 DEF StoreInv, Best
  <1>. QED BY <1>2, <1>3 DEF upsert, Domains

\* Steps that leave the stores alone.
LEMMA StoreStays ==
    ASSUME Domains, UNCHANGED storeVars, announced \subseteq announced',
           \A k \in Nodes : StoreInv(k)
    PROVE  /\ \A k \in Nodes : StoreInv(k)'
           /\ DOMAIN index' = Nodes /\ DOMAIN byMeta' = Nodes /\ DOMAIN seen' = Nodes
  BY DEF Domains, storeVars, StoreInv, Best

LEMMA AddLocalKeeps ==
    ASSUME GossipInv, NEW n \in Nodes, NEW m \in Known, NEW announce \in BOOLEAN,
           AddLocal(n, m, announce)
    PROVE  GossipInv'
  <1>1. /\ upsert(n, Filled(m))
        /\ announced' = announced \cup {Filled(m)}
        /\ publishing' = [publishing EXCEPT ![n] = IF announce THEN @ \cup {m} ELSE @]
        /\ inbox' = inbox
    BY DEF AddLocal
  <1>2. /\ \A k \in Nodes : StoreInv(k)'
        /\ DOMAIN index' = Nodes /\ DOMAIN byMeta' = Nodes /\ DOMAIN seen' = Nodes
    BY <1>1, UpsertStore DEF GossipInv
  <1>3. \A k \in Nodes : WireInv(k)'
    BY <1>1 DEF GossipInv, Domains, WireInv, Announced
  <1>. QED BY <1>1, <1>2, <1>3 DEF GossipInv, Domains

LEMMA PublishKeeps ==
    ASSUME GossipInv, NEW n \in Nodes, NEW m \in Known, Publish(n, m)
    PROVE  GossipInv'
  <1>1. /\ m \in publishing[n]
        /\ publishing' = [publishing EXCEPT ![n] = @ \ {m}]
        /\ inbox' = [k \in Nodes |-> inbox[k] \cup {Envelope(Filled(m))}]
        /\ UNCHANGED <<storeVars, announced>>
    BY DEF Publish
  <1>2. Announced(Envelope(Filled(m)))
    BY <1>1 DEF GossipInv, WireInv, Announced
  <1>3. /\ \A k \in Nodes : StoreInv(k)'
        /\ DOMAIN index' = Nodes /\ DOMAIN byMeta' = Nodes /\ DOMAIN seen' = Nodes
    BY <1>1, StoreStays DEF GossipInv
  <1>4. \A k \in Nodes : WireInv(k)'
    BY <1>1, <1>2 DEF GossipInv, Domains, WireInv, Announced
  <1>. QED BY <1>1, <1>3, <1>4 DEF GossipInv, Domains

LEMMA ReceiveKeeps ==
    ASSUME GossipInv, NEW n \in Nodes, NEW env \in inbox[n], Receive(n, env)
    PROVE  GossipInv'
  <1>. DEFINE m == Filled(Unmarshal(env.metadata))
  <1>1. /\ inbox' = [inbox EXCEPT ![n] = @ \ {env}]
        /\ UNCHANGED <<publishing, announced>>
    BY DEF Receive
  <1>2. \A k \in Nodes : WireInv(k)'
    BY <1>1 DEF GossipInv, Domains, WireInv, Announced
  <1>3. CASE verify(env)
    <2>1. PICK k \in Known : Filled(k) \in announced /\ env = Envelope(Filled(k))
      BY DEF GossipInv, WireInv, Announced
    <2>2. m = Filled(k)
      BY <1>3, <2>1, FilledIsFull, VerifiedIsVerbatim
    <2>3. upsert(n, m)
      BY <1>3 DEF Receive
    <2>. HIDE DEF m
    <2>4. m \in announced'
      BY <1>1, <2>1, <2>2
    <2>5. /\ \A l \in Nodes : StoreInv(l)'
          /\ DOMAIN index' = Nodes /\ DOMAIN byMeta' = Nodes /\ DOMAIN seen' = Nodes
      BY <1>1, <2>3, <2>4, UpsertStore DEF GossipInv
    <2>. QED BY <1>1, <1>2, <2>5 DEF GossipInv, Domains
  <1>4. CASE ~verify(env)
    <2>1. UNCHANGED storeVars
      BY <1>4 DEF Receive
    <2>2. /\ \A l \in Nodes : StoreInv(l)'
          /\ DOMAIN index' = Nodes /\ DOMAIN byMeta' = Nodes /\ DOMAIN seen' = Nodes
      BY <1>1, <2>1, StoreStays DEF GossipInv
    <2>. QED BY <1>1, <1>2, <2>2 DEF GossipInv, Domains
  <1>. QED BY <1>3, <1>4

LEMMA LoseKeeps ==
    ASSUME GossipInv, NEW n \in Nodes, NEW env \in inbox[n], Lose(n, env)
    PROVE  GossipInv'
  <1>1. /\ inbox' = [inbox EXCEPT ![n] = @ \ {env}]
        /\ UNCHANGED <<storeVars, publishing, announced>>
    BY DEF Lose
  <1>2. /\ \A k \in Nodes : StoreInv(k)'
        /\ DOMAIN index' = Nodes /\ DOMAIN byMeta' = Nodes /\ DOMAIN seen' = Nodes
    BY <1>1, StoreStays DEF GossipInv
  <1>3. \A k \in Nodes : WireInv(k)'
    BY <1>1 DEF GossipInv, Domains, WireInv, Announced
  <1>. QED BY <1>1, <1>2, <1>3 DEF GossipInv, Domains

LEMMA RestartKeeps ==
    ASSUME GossipInv, NEW n \in Nodes, Restart(n)
    PROVE  GossipInv'
  <1>1. /\ \A k \in Nodes \ {n} : /\ index'[k] = index[k] /\ byMeta'[k] = byMeta[k]
                                  /\ seen'[k] = seen[k] /\ inbox'[k] = inbox[k]
                                  /\ publishing'[k] = publishing[k]
        /\ index'[n] = Empty /\ byMeta'[n] = Empty /\ seen'[n] = {}
        /\ inbox'[n] = {} /\ publishing'[n] = {}
        /\ announced' = announced
        /\ Domains'
    BY DEF Restart, GossipInv, Domains
  <1>2. ASSUME NEW k \in Nodes \ {n} PROVE StoreInv(k)' /\ WireInv(k)'
    BY <1>1 DEF GossipInv, StoreInv, WireInv, Best, Announced
  <1>3. StoreInv(n)' /\ WireInv(n)'
    BY <1>1 DEF StoreInv, WireInv, Best, Empty
  <1>. QED BY <1>1, <1>2, <1>3 DEF GossipInv

LEMMA GossipNext == GossipInv /\ [Next]_vars => GossipInv'
  <1>. SUFFICES ASSUME GossipInv, [Next]_vars PROVE GossipInv'
    OBVIOUS
  <1>1. ASSUME NEW n \in Nodes, NEW m \in Known, NEW announce \in BOOLEAN,
               AddLocal(n, m, announce)
        PROVE  GossipInv'
    BY <1>1, AddLocalKeeps
  <1>2. ASSUME NEW n \in Nodes, NEW m \in Known, Publish(n, m) PROVE GossipInv'
    BY <1>2, PublishKeeps
  <1>3. ASSUME NEW n \in Nodes, NEW env \in inbox[n], Receive(n, env) \/ Lose(n, env)
        PROVE  GossipInv'
    BY <1>3, ReceiveKeeps, LoseKeeps
  <1>4. ASSUME NEW n \in Nodes, Restart(n) PROVE GossipInv'
    BY <1>4, RestartKeeps
  <1>5. CASE UNCHANGED vars
    BY <1>5 DEF vars, storeVars, GossipInv, Domains, StoreInv, WireInv, Best, Announced
  <1>. QED BY <1>1, <1>2, <1>3, <1>4, <1>5 DEF Next

\* What a step makes of a store: nothing known by MetaID is lost or made less
\* complete, unless the node restarts.
KeepsKnowing(n) ==
    \A id \in DOMAIN byMeta[n] :
        /\ id \in DOMAIN byMeta'[n]
        /\ completeness(byMeta'[n][id]) >= completeness(byMeta[n][id])

LEMMA UnchangedIsKnown ==
    ASSUME NEW n, byMeta'[n] = byMeta[n]
    PROVE  KeepsKnowing(n)
  <1>1. ASSUME NEW id \in DOMAIN byMeta[n]
        PROVE  completeness(byMeta[n][id]) >= completeness(byMeta[n][id])
    BY CompletenessNat
  <1>. QED BY <1>1 DEF KeepsKnowing

\* A record merged at one node improves that store and leaves the others.
LEMMA UpsertIsKnown ==
    ASSUME Domains, NEW n \in Nodes, NEW m, upsert(n, m), NEW k \in Nodes
    PROVE  KeepsKnowing(k)
  <1>1. CASE k = n
    <2>1. byMeta'[n] = Dedup(byMeta[n], m)
      BY DEF upsert, Domains
    <2>2. /\ DOMAIN Dedup(byMeta[n], m) = DOMAIN byMeta[n] \cup {m.metaID}
          /\ \A id \in DOMAIN byMeta[n] :
               completeness(Dedup(byMeta[n], m)[id]) >= completeness(byMeta[n][id])
      BY DedupImproves
    <2>. QED BY <1>1, <2>1, <2>2, Zenon DEF KeepsKnowing
  <1>2. CASE k # n
    BY <1>2, UnchangedIsKnown DEF upsert, Domains
  <1>. QED BY <1>1, <1>2

LEMMA StepIsKnown ==
    ASSUME Domains, [Next]_vars, NEW k \in Nodes
    PROVE  Restart(k) \/ KeepsKnowing(k)
  <1>1. ASSUME NEW n \in Nodes, NEW m \in Known, NEW announce \in BOOLEAN,
               AddLocal(n, m, announce)
        PROVE  KeepsKnowing(k)
    BY <1>1, UpsertIsKnown DEF AddLocal
  <1>2. ASSUME NEW n \in Nodes, NEW env \in inbox[n], Receive(n, env)
        PROVE  KeepsKnowing(k)
    BY <1>2, UpsertIsKnown, UnchangedIsKnown DEF Receive, storeVars
  <1>3. ASSUME NEW n \in Nodes, n # k, Restart(n) PROVE KeepsKnowing(k)
    BY <1>3, UnchangedIsKnown DEF Restart, Domains
  <1>4. CASE UNCHANGED storeVars
    BY <1>4, UnchangedIsKnown DEF storeVars
  <1>. QED BY <1>1, <1>2, <1>3, <1>4 DEF Next, Publish, Lose, vars, storeVars

----------------------------------------------------------------------------
(* The theorems.                                                           *)

\* A store holds only records it was given, under their keys.
THEOREM GossipTypeCorrect == Spec => []TypeOK
  <1>1. GossipInv => TypeOK
    BY DEF GossipInv, StoreInv, WireInv, TypeOK, Announced
  <1>. QED BY GossipInit, GossipNext, <1>1, PTL DEF Spec

\* Stores given the same records know equally complete ones for every MetaID,
\* in whatever orders the records came.
THEOREM OrderDoesNotMatter == Spec => []SameSeenSameCompleteness
  <1>1. ASSUME GossipInv PROVE SameSeenSameCompleteness
    <2>. SUFFICES ASSUME NEW m \in Nodes, NEW n \in Nodes, seen[m] = seen[n]
                  PROVE  /\ DOMAIN byMeta[m] = DOMAIN byMeta[n]
                         /\ \A id \in DOMAIN byMeta[m] :
                              completeness(byMeta[m][id]) = completeness(byMeta[n][id])
      BY DEF SameSeenSameCompleteness
    <2>1. StoreInv(m) /\ StoreInv(n)
      BY <1>1 DEF GossipInv
    <2>2. DOMAIN byMeta[m] = DOMAIN byMeta[n]
      <3>1. \A id \in DOMAIN byMeta[m] : id \in DOMAIN byMeta[n]
        BY <2>1 DEF StoreInv, Best
      <3>2. \A id \in DOMAIN byMeta[n] : id \in DOMAIN byMeta[m]
        BY <2>1 DEF StoreInv, Best
      <3>. QED BY <3>1, <3>2
    <2>3. ASSUME NEW id \in DOMAIN byMeta[m]
          PROVE  completeness(byMeta[m][id]) = completeness(byMeta[n][id])
      <3>1. /\ byMeta[m][id] \in seen[n] /\ byMeta[m][id].metaID = id
            /\ byMeta[n][id] \in seen[m] /\ byMeta[n][id].metaID = id
        BY <2>1, <2>2 DEF StoreInv
      <3>2. /\ completeness(byMeta[n][id]) >= completeness(byMeta[m][id])
            /\ completeness(byMeta[m][id]) >= completeness(byMeta[n][id])
        BY <2>1, <3>1 DEF StoreInv, Best
      <3>3. completeness(byMeta[m][id]) \in Nat /\ completeness(byMeta[n][id]) \in Nat
        BY CompletenessNat
      <3>. QED BY <3>2, <3>3
    <2>. QED BY <2>2, <2>3
  <1>. QED BY GossipInit, GossipNext, <1>1, PTL DEF Spec

\* What is found by CID is found by MetaID, and not less complete.
THEOREM IndexedIsKnownByMeta == Spec => []IndexedHasMetaEntry
  <1>1. GossipInv => IndexedHasMetaEntry
    BY DEF GossipInv, StoreInv, Best, IndexedHasMetaEntry
  <1>. QED BY GossipInit, GossipNext, <1>1, PTL DEF Spec

\* A record reaches other nodes as it was announced, or not at all.
THEOREM KnownIsVerbatim == Spec => []KnownVerbatim
  <1>1. GossipInv => KnownVerbatim
    BY DEF GossipInv, StoreInv, KnownVerbatim
  <1>. QED BY GossipInit, GossipNext, <1>1, PTL DEF Spec

\* A node that keeps running forgets nothing it knows of a track and never comes
\* to know a less complete record of it, in whatever order records arrive.
THEOREM LearningOnlyImproves == Spec => NothingIsUnlearned
  <1>1. ASSUME GossipInv, [Next]_vars
        PROVE  [\A n \in Nodes : Restart(n) \/ \A id \in DOMAIN byMeta[n] :
                  /\ id \in DOMAIN byMeta'[n]
                  /\ completeness(byMeta'[n][id]) >= completeness(byMeta[n][id])]_vars
    BY <1>1, StepIsKnown DEF GossipInv, KeepsKnowing
  <1>. QED BY GossipInit, GossipNext, <1>1, PTL DEF Spec, NothingIsUnlearned

=============================================================================

---------------------------- MODULE LookupProofs ----------------------------
(***************************************************************************)
(* Lookup finds a provider that serves, for any number of peers.  The      *)
(* invariant says of the providers already asked that none of them has     *)
(* been able to serve ever since the lookup: whoever passes a provider     *)
(* over has seen it unable to.                                             *)
(***************************************************************************)
EXTENDS Lookup, FiniteSetTheorems, TLAPS

LookupTypeOK ==
    /\ records \subseteq Nodes
    /\ up \subseteq Peers
    /\ pc \in {"idle", "lookup", "connect", "ask"} \cup Outcomes
    /\ found \in Seq(Nodes)
    /\ next \in Nat \ {0}

\* The providers before the next one to ask.
Asked == {found[i] : i \in {j \in DOMAIN found : j < next}}

LookupInv ==
    /\ LookupTypeOK
    /\ steady \subseteq has \cap up
    /\ pc = "ask" => steady \cap Asked = {}
    /\ pc = "connect" => next = 1
    /\ StaleProvidersDontHide

\* What the lookup brings back is a sequence of nodes with records.
LEMMA FoundIsSeq ==
    ASSUME NEW S, S \subseteq Nodes, NEW s \in SetToSeqs(S)
    PROVE  s \in Seq(Nodes)
  <1>1. IsFiniteSet(Nodes)
    BY LookupAssumption, FS_AddElement DEF Nodes
  <1>2. Cardinality(S) \in Nat
    BY <1>1, FS_Subset, FS_CardinalityType
  <1>3. s \in [1 .. Cardinality(S) -> S]
    BY DEF SetToSeqs
  <1>. QED BY <1>2, <1>3

\* The step that asks a provider, the only one that may refuse.
LEMMA AskedStayUnable ==
    ASSUME LookupInv, QueryTotal
    PROVE  LookupInv'
  <1>. USE DEF LookupInv, LookupTypeOK
  <1>1. LookupTypeOK'
    BY DEF QueryTotal, Goto, Outcomes
  <1>2. CASE next > Len(found)
    <2>1. DOMAIN found = 1 .. Len(found)
      OBVIOUS
    <2>2. \A j \in DOMAIN found : j < next
      BY <1>2, <2>1
    <2>3. ToSet(found) = Asked
      BY <2>2 DEF ToSet, Asked
    <2>4. pc = "ask" /\ pc' = "refused" /\ UNCHANGED <<found, has, up, steady>>
      BY <1>2 DEF QueryTotal, Goto
    <2>5. StaleProvidersDontHide'
      BY <2>3, <2>4 DEF StaleProvidersDontHide
    <2>. QED BY <1>1, <2>4, <2>5
  <1>3. CASE next <= Len(found) /\ Answers(found[next])
    <2>1. pc' = "download" /\ UNCHANGED <<found, has, up, steady>>
      BY <1>3 DEF QueryTotal, Goto
    <2>. QED BY <1>1, <2>1 DEF StaleProvidersDontHide
  <1>4. CASE next <= Len(found) /\ ~Answers(found[next])
    <2>1. /\ pc = "ask" /\ pc' = "ask" /\ next' = next + 1
          /\ UNCHANGED <<found, has, up, steady>>
      BY <1>4 DEF QueryTotal, Goto
    <2>2. found[next] \notin steady
      BY <1>4, LookupAssumption DEF Answers
    <2>3. \A j \in DOMAIN found : j < next + 1 => j < next \/ j = next
      OBVIOUS
    <2>4. Asked' \subseteq Asked \cup {found[next]}
      BY <2>1, <2>3 DEF Asked
    <2>5. (steady \cap Asked)' = {}
      BY <2>1, <2>2, <2>4
    <2>. QED BY <1>1, <2>1, <2>5 DEF StaleProvidersDontHide
  <1>5. next > Len(found) \/ next <= Len(found)
    OBVIOUS
  <1>. QED BY <1>2, <1>3, <1>4, <1>5

LEMMA LookupInvInit == Init => LookupInv
  BY DEF Init, LookupInv, LookupTypeOK, StaleProvidersDontHide, Nodes

LEMMA LookupInvNext == LookupInv /\ [Next]_vars => LookupInv'
  <1>. SUFFICES ASSUME LookupInv, [Next]_vars PROVE LookupInv'
    OBVIOUS
  <1>. USE DEF LookupInv, LookupTypeOK
  <1>1. ASSUME UNCHANGED startVars, UNCHANGED steady \/ (steady' = {}),
               has \subseteq has', up \subseteq up', up' \subseteq Peers,
               records' \subseteq Nodes
        PROVE  LookupInv'
    <2>1. Asked' = Asked
      BY <1>1 DEF Asked, startVars
    <2>. QED BY <1>1, <2>1 DEF startVars, StaleProvidersDontHide
  <1>2. ASSUME NEW n \in Nodes, UNCHANGED startVars, steady' = steady \ {n},
               has \ {n} \subseteq has', up \ {n} \subseteq up', up' \subseteq Peers,
               records' \subseteq Nodes
        PROVE  LookupInv'
    <2>1. Asked' = Asked
      BY <1>2 DEF Asked, startVars
    <2>. QED BY <1>2, <2>1 DEF startVars, StaleProvidersDontHide
  <1>3. ASSUME NEW n \in Nodes,
               \/ \E announce \in BOOLEAN : ShareTrack(n, announce)
               \/ HandleDHTProvide(n) \/ HandleDeleteTrack(n) \/ Expire(n)
        PROVE  LookupInv'
    <2>1. ASSUME NEW announce \in BOOLEAN, ShareTrack(n, announce) PROVE LookupInv'
      BY <1>1, <2>1 DEF ShareTrack, Provide
    <2>2. CASE HandleDHTProvide(n)
      BY <1>1, <2>2 DEF HandleDHTProvide, Provide
    <2>3. CASE HandleDeleteTrack(n)
      BY <1>2, <2>3 DEF HandleDeleteTrack
    <2>4. CASE Expire(n)
      BY <1>1, <2>4 DEF Expire
    <2>. QED BY <1>3, <2>1, <2>2, <2>3, <2>4
  <1>4. ASSUME NEW p \in Peers, Leave(p) \/ Return(p)
        PROVE  LookupInv'
    <2>1. p \in Nodes
      BY DEF Nodes
    <2>2. CASE Leave(p)
      BY <1>2, <2>1, <2>2 DEF Leave
    <2>3. CASE Return(p)
      BY <1>1, <2>3 DEF Return
    <2>. QED BY <1>4, <2>2, <2>3
  <1>5. CASE StartLocal
    BY <1>5 DEF StartLocal, Goto, Outcomes, StaleProvidersDontHide
  <1>6. CASE StartRemote
    BY <1>6 DEF StartRemote, Goto, StaleProvidersDontHide
  <1>7. CASE FindProviders
    <2>1. found' \in Seq(Nodes)
      BY <1>7, FoundIsSeq DEF FindProviders
    <2>2. /\ pc' = IF found' = << >> THEN "refused" ELSE "connect"
          /\ next' = 1 /\ steady' = has \cap up
          /\ UNCHANGED <<has, up, records>>
      BY <1>7 DEF FindProviders, Goto
    <2>3. found' = << >> => ToSet(found') = {}
      BY DEF ToSet
    <2>. QED BY <2>1, <2>2, <2>3 DEF StaleProvidersDontHide, Outcomes
  <1>8. CASE Connect
    <2>1. next = 1 /\ UNCHANGED <<found, next, steady, has, up, records>>
      BY <1>8 DEF Connect, Goto
    <2>2. \A j \in DOMAIN found : ~(j < 1)
      OBVIOUS
    <2>3. Asked' = {}
      BY <2>1, <2>2 DEF Asked
    <2>4. pc' \in {"download", "ask"}
      BY <1>8 DEF Connect, Goto
    <2>. QED BY <2>1, <2>3, <2>4 DEF StaleProvidersDontHide, Outcomes
  <1>9. CASE QueryTotal
    BY <1>9, AskedStayUnable
  <1>10. CASE Finish
    BY <1>10 DEF Finish, Goto, StaleProvidersDontHide
  <1>11. CASE UNCHANGED vars
    BY <1>1, <1>11 DEF vars
  <1>. QED BY <1>3, <1>4, <1>5, <1>6, <1>7, <1>8, <1>9, <1>10, <1>11
           DEF Next, StartStreaming

\* A stream is refused only if no provider found has had the track and been
\* reachable ever since the lookup, however many stale records there are.
THEOREM ProviderIsFound == Spec => []StaleProvidersDontHide
  <1>1. LookupInv => StaleProvidersDontHide
    BY DEF LookupInv
  <1>. QED BY LookupInvInit, LookupInvNext, <1>1, PTL DEF Spec

=============================================================================

--------------------------- MODULE JoiningProofs ---------------------------
(***************************************************************************)
(* Proofs about Joining, for every set of peers and addresses.  The        *)
(* invariant says of each phase of a join what its code is and what its    *)
(* answer will have to agree with; the lemma behind it is that the checks  *)
(* of handleJoin let through exactly the codes other nodes give out.       *)
(***************************************************************************)
EXTENDS Joining, TLAPS

\* The codes other nodes give out.
Foreign == {Encode(p, S) : p \in Peers, S \in SUBSET Addrs}

\* A code gets through the checks exactly if another node can have given it out.
LEMMA CheckedIsForeign ==
    ASSUME NEW c \in Codes
    PROVE  (Decodes(c) /\ c.id # Self) <=> c \in Foreign
  <1>1. \A f \in Foreign : /\ f.v = Version /\ f.id \in Peers /\ f # NoCode
    <2>1. TAKE f \in Foreign
    <2>2. PICK p \in Peers, S \in SUBSET Addrs : f = Encode(p, S)
      BY <2>1 DEF Foreign
    <2>3. f = [v |-> Version, id |-> p, addrs |-> S]
      BY <2>2, JoiningAssumption DEF Encode
    <2>. QED BY <2>3, JoiningAssumption
  <1>2. CASE c = NoCode
    BY <1>1, <1>2 DEF Decodes
  <1>3. ASSUME NEW n \in Nodes, c = [v |-> OtherVersion, id |-> n, addrs |-> {}]
        PROVE  ~Decodes(c) /\ c \notin Foreign
    BY <1>1, <1>3, JoiningAssumption DEF Decodes
  <1>4. ASSUME NEW n \in Nodes, NEW S \in SUBSET (Addrs \cup {Loopback}), c = Encode(n, S)
        PROVE  (Decodes(c) /\ c.id # Self) <=> c \in Foreign
    <2>1. S \ {Loopback} \in SUBSET Addrs
      BY <1>4
    <2>2. c = [v |-> Version, id |-> n, addrs |-> S \ {Loopback}]
      BY <1>4 DEF Encode
    <2>3. c # NoCode
      BY <2>1, <2>2, JoiningAssumption DEF Nodes
    <2>4. Decodes(c) /\ c.id = n
      BY <2>2, <2>3 DEF Decodes
    <2>5. ASSUME n \in Peers PROVE c \in Foreign
      <3>1. c = Encode(n, S \ {Loopback})
        BY <2>2 DEF Encode
      <3>. QED BY <2>1, <2>5, <3>1 DEF Foreign
    <2>6. ASSUME n = Self PROVE c \notin Foreign
      BY <1>1, <2>4, <2>6, JoiningAssumption
    <2>. QED BY <2>4, <2>5, <2>6, JoiningAssumption DEF Nodes
  <1>. QED BY <1>2, <1>3, <1>4 DEF Codes

----------------------------------------------------------------------------
(* The invariant.                                                          *)

\* While a join dials, its code is another node's.  The answer is JoinAnswerTrue.
JoinInv ==
    /\ joinPc \in {"idle", "dialing", "answered"}
    /\ joinPc = "dialing" => code \in Foreign
    /\ joinPc = "answered" =>
         /\ status = 400 <=> code \notin Foreign
         /\ status = 200 => code.id \in met

LEMMA JoinStepInv ==
    ASSUME JoinInv, [Next]_vars
    PROVE  JoinInv'
  <1>. USE DEF JoinInv
  <1>1. ASSUME NEW c \in Codes, HandleJoin(c) PROVE JoinInv'
    <2>1. CASE Decodes(c) /\ c.id # Self
      BY <1>1, <2>1, CheckedIsForeign DEF HandleJoin
    <2>2. CASE ~(Decodes(c) /\ c.id # Self)
      BY <1>1, <2>2, CheckedIsForeign DEF HandleJoin
    <2>. QED BY <2>1, <2>2
  <1>2. CASE JoinDialled
    <2>1. code' = code /\ code \in Foreign /\ joinPc' = "answered"
      BY <1>2 DEF JoinDialled
    <2>2. CASE code.id \in connected'
      <3>1. status' = 200 /\ code.id \in met'
        BY <1>2, <2>2 DEF JoinDialled, Dial
      <3>. QED BY <2>1, <3>1
    <2>3. CASE code.id \notin connected'
      BY <1>2, <2>1, <2>3 DEF JoinDialled
    <2>. QED BY <2>2, <2>3
  <1>3. CASE JoinTimedOut
    BY <1>3 DEF JoinTimedOut
  <1>4. CASE JoinDone
    BY <1>4 DEF JoinDone
  \* Whatever else happens leaves the join alone and may add to met.
  <1>5. ASSUME UNCHANGED <<joinPc, code, status>>, met \subseteq met' PROVE JoinInv'
    BY <1>5
  <1>6. ASSUME NEW p \in Peers,
               Accept(p) \/ HandlePeerFound(p) \/ \E S \in SUBSET Addrs : Move(p, S)
        PROVE  JoinInv'
    BY <1>5, <1>6 DEF Accept, HandlePeerFound, Dial, Move, joinVars
  <1>7. ASSUME NEW n \in Nodes, NEW a \in Addrs, HandleConnectPeer(n, a) PROVE JoinInv'
    BY <1>5, <1>7 DEF HandleConnectPeer, Dial
  <1>8. CASE Discovery
    <2>1. ASSUME NEW info, BootstrapDial(info) \/ ConnectFound(info) PROVE JoinInv'
      BY <1>5, <2>1 DEF BootstrapDial, ConnectFound, Dial
    <2>2. CASE BootstrapReturn \/ ChannelClosed
      BY <1>5, <2>2 DEF BootstrapReturn, ChannelClosed, joinVars
    <2>. QED BY <1>8, <2>1, <2>2 DEF Discovery
  <1>9. CASE FindPeers \/ FindPeersFails \/ UNCHANGED vars
    BY <1>5, <1>9 DEF FindPeers, FindPeersFails, vars, joinVars
  <1>. QED BY <1>1, <1>2, <1>3, <1>4, <1>6, <1>7, <1>8, <1>9 DEF Next, Join

----------------------------------------------------------------------------

\* Whoever dials whom while a join runs, however stale its code and wherever the
\* peers move: it is answered 400 exactly for codes no other node gave out, and
\* 200 only if this node was connected to the code's owner in the meantime.
THEOREM JoinIsAnsweredTruly == Spec => []JoinAnswerTrue
  <1>1. Init => JoinInv
    BY DEF Init, JoinInv
  <1>2. JoinInv /\ [Next]_vars => JoinInv'
    BY JoinStepInv
  <1>3. JoinInv => JoinAnswerTrue
    BY DEF JoinInv, JoinAnswerTrue, Foreign
  <1>. QED BY <1>1, <1>2, <1>3, PTL DEF Spec

=============================================================================

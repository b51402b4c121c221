------------------------------ MODULE Joining ------------------------------
(***************************************************************************)
(* How a node gets connected: invite codes (internal/invite/invite.go,     *)
(* joinByCode in cmd/node/main.go, the join and connect handlers of        *)
(* internal/api/handlers.go), and the discovery loops of                   *)
(* internal/discovery: bootstrap at the start, mDNS, and the rendezvous in *)
(* the DHT.  Seen from one node; addresses of its peers change.            *)
(*                                                                         *)
(* Dialling is libp2p's: it succeeds when one of the addresses given is    *)
(* one the peer listens on.  Addresses known from before are left out.     *)
(***************************************************************************)
EXTENDS FiniteSets

CONSTANTS
    Self, Peers,
    Addrs, Loopback,        \* addresses others can dial, and one they cannot
    Version,                \* the invite format of this node
    OtherVersion,           \* one it does not speak
    NoCode                  \* a text that is no code

ASSUME JoiningAssumption ==
    /\ Self \notin Peers
    /\ Loopback \notin Addrs
    /\ Version # OtherVersion
    /\ NoCode \notin [v : {Version, OtherVersion}, id : Peers \cup {Self}, addrs : SUBSET Addrs]

VARIABLES
    listens,        \* per peer, the addresses it listens on; none when it is off
    connected,      \* the peers this node has a connection with
    joinPc,         \* where POST /peers/join or --join is
    code,           \* the code it was given
    status,         \* its answer
    met,            \* history: the peers connected at some time during the join
    booting,        \* the bootstrap addresses not yet tried
    discoveryPc,    \* the rendezvous loop
    candidates      \* what FindPeers has still to deliver

joinVars == <<joinPc, code, status, met>>
discoveryVars == <<booting, discoveryPc, candidates>>
vars == <<listens, connected, joinVars, discoveryVars>>

Nodes == Peers \cup {Self}

Init ==
    /\ listens = [p \in Peers |-> {}]
    /\ connected = {}
    /\ joinPc = "idle"
    /\ code = NoCode
    /\ status = 0
    /\ met = {}
    /\ booting \in SUBSET [id : Nodes, addrs : {{a} : a \in Addrs}]
    /\ discoveryPc = "booting"
    /\ candidates = {}

----------------------------------------------------------------------------
(* The network.                                                            *)

CanDial(info) ==
    \/ info.id \in connected
    \/ /\ info.id \in Peers
       /\ listens[info.id] \cap info.addrs # {}

\* host.Connect.
Dial(info) ==
    /\ connected' = IF CanDial(info) THEN connected \cup {info.id} ELSE connected
    /\ met' = met \cup connected'

\* A peer starts, moves or stops; connections also drop by themselves.
Move(p, S) ==
    /\ listens' = [listens EXCEPT ![p] = S]
    /\ connected' = connected \ {p}
    /\ UNCHANGED <<joinVars, discoveryVars>>

\* A peer dials this node.
Accept(p) ==
    /\ listens[p] # {}
    /\ connected' = connected \cup {p}
    /\ met' = met \cup connected'
    /\ UNCHANGED <<listens, joinPc, code, status, discoveryVars>>

----------------------------------------------------------------------------
(* Invite codes.                                                           *)

\* buildInvite: the code a node gives out when it listens on S.
Encode(n, S) == [v |-> Version, id |-> n, addrs |-> S \ {Loopback}]

\* What Decode makes of a code: an error, or whom to dial.
Decodes(c) == c # NoCode /\ c.v = Version
Target(c) == [id |-> c.id, addrs |-> c.addrs]

\* The codes users type in: those some node gave out at some time, those of
\* later versions, and anything else.
Codes ==
    {Encode(n, S) : n \in Nodes, S \in SUBSET (Addrs \cup {Loopback})}
    \cup {[v |-> OtherVersion, id |-> n, addrs |-> {}] : n \in Nodes}
    \cup {NoCode}

\* Mutant of HandleJoin: the node's own code is not refused.
HandleJoinOwn(c) ==
    /\ joinPc = "idle"
    /\ code' = c
    /\ met' = connected
    /\ IF Decodes(c) THEN joinPc' = "dialing" /\ status' = 0
                     ELSE joinPc' = "answered" /\ status' = 400
    /\ UNCHANGED <<listens, connected, discoveryVars>>

\* handleJoin up to the dial: malformed codes and the node's own are refused.
HandleJoin(c) ==
    /\ joinPc = "idle"
    /\ code' = c
    /\ met' = connected
    /\ IF Decodes(c) /\ c.id # Self THEN joinPc' = "dialing" /\ status' = 0
                                    ELSE joinPc' = "answered" /\ status' = 400
    /\ UNCHANGED <<listens, connected, discoveryVars>>

\* The dial ends: connected, or failed or timed out.
JoinDialled ==
    /\ joinPc = "dialing"
    /\ Dial(Target(code))
    /\ status' = IF code.id \in connected' THEN 200 ELSE 504
    /\ joinPc' = "answered"
    /\ UNCHANGED <<listens, code, discoveryVars>>
JoinTimedOut ==
    /\ joinPc = "dialing"
    /\ status' = 504
    /\ joinPc' = "answered"
    /\ UNCHANGED <<listens, connected, code, met, discoveryVars>>

JoinDone ==
    /\ joinPc = "answered"
    /\ joinPc' = "idle"
    /\ code' = NoCode
    /\ status' = 0
    /\ met' = {}
    /\ UNCHANGED <<listens, connected, discoveryVars>>

Join == JoinDialled \/ JoinTimedOut \/ JoinDone

----------------------------------------------------------------------------
(* Discovery.                                                              *)

\* Bootstrap: one goroutine per address; main waits for all of them.
BootstrapDial(info) ==
    /\ discoveryPc = "booting"
    /\ info \in booting
    /\ booting' = booting \ {info}
    /\ IF info.id = Self THEN UNCHANGED <<connected, met>> ELSE Dial(info)
    /\ UNCHANGED <<listens, joinPc, code, status, discoveryPc, candidates>>
BootstrapReturn ==
    /\ discoveryPc = "booting"
    /\ booting = {}
    /\ discoveryPc' = "waiting"
    /\ UNCHANGED <<listens, connected, joinVars, booting, candidates>>

\* mDNS reports a peer at the addresses it has.
HandlePeerFound(p) ==
    /\ Dial([id |-> p, addrs |-> listens[p]])
    /\ UNCHANGED <<listens, joinPc, code, status, discoveryVars>>

\* POST /peers/connect, with an address that may be out of date.  The handler
\* does not look whether it is this node's own, which libp2p does not dial.
HandleConnectPeer(n, a) ==
    /\ Dial([id |-> n, addrs |-> {a}])
    /\ UNCHANGED <<listens, joinPc, code, status, discoveryVars>>

\* Mutant of FindPeersFails: the loop returns on an error.
FindPeersFailsOnce ==
    /\ discoveryPc = "waiting"
    /\ discoveryPc' = "returned"
    /\ UNCHANGED <<listens, connected, joinVars, booting, candidates>>

\* The ticker of the rendezvous loop: FindPeers fails, or finds this node and
\* peers at the addresses they have.
FindPeersFails ==
    /\ discoveryPc = "waiting"
    /\ UNCHANGED vars
FindPeers ==
    /\ discoveryPc = "waiting"
    /\ candidates' = {[id |-> p, addrs |-> listens[p]] : p \in {q \in Peers : listens[q] # {}}}
                     \cup {[id |-> Self, addrs |-> {}]}
    /\ discoveryPc' = "connecting"
    /\ UNCHANGED <<listens, connected, joinVars, booting>>

\* One peer from the channel: skipped, or dialled.
ConnectFound(info) ==
    /\ discoveryPc = "connecting"
    /\ info \in candidates
    /\ candidates' = candidates \ {info}
    /\ IF info.id = Self \/ info.id \in connected
       THEN UNCHANGED <<connected, met>>
       ELSE Dial(info)
    /\ UNCHANGED <<listens, joinPc, code, status, booting, discoveryPc>>
ChannelClosed ==
    /\ discoveryPc = "connecting"
    /\ candidates = {}
    /\ discoveryPc' = "waiting"
    /\ UNCHANGED <<listens, connected, joinVars, booting, candidates>>

Discovery ==
    \/ \E info \in booting : BootstrapDial(info)
    \/ BootstrapReturn
    \/ \E info \in candidates : ConnectFound(info)
    \/ ChannelClosed

----------------------------------------------------------------------------

Next ==
    \/ \E p \in Peers : Accept(p) \/ HandlePeerFound(p) \/ \E S \in SUBSET Addrs : Move(p, S)
    \/ \E n \in Nodes, a \in Addrs : HandleConnectPeer(n, a)
    \/ \E c \in Codes : HandleJoin(c)
    \/ Join
    \/ Discovery
    \/ FindPeers
    \/ FindPeersFails

Spec == Init /\ [][Next]_vars

\* Goroutines run; the lookup in the DHT does not fail for ever.
FairSpec == Spec /\ WF_vars(Discovery) /\ WF_vars(FindPeers)

----------------------------------------------------------------------------
(* Properties.                                                             *)

\* The answer to a join tells what happened: 400 for a code no other node can
\* have given out, 200 when this node was connected to the one that gave the
\* code out, whoever dialled, and 504 otherwise.
JoinAnswerTrue ==
    joinPc = "answered" =>
        LET foreign == code \in {Encode(p, S) : p \in Peers, S \in SUBSET Addrs}
        IN  /\ status = 400 <=> ~foreign
            /\ status = 200 => code.id \in met

\* A peer that stays at its address gets connected again and again, however
\* often connections drop and lookups fail.
DiscoveryReconnects ==
    \A p \in Peers : \A a \in Addrs :
        <>[](listens[p] = {a}) => []<>(p \in connected)

=============================================================================

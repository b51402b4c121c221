--------------------------- MODULE ProtocolProofs ---------------------------
(***************************************************************************)
(* Theorems of Protocol, for every set of peers, fetches and streams, any  *)
(* limit of idle streams, any chunks and any number of parts of a reply.   *)
(* First PoolInv, which is inductive for the steps of the pool; on top of  *)
(* it comes what is on the wire of a stream in each phase of the fetch     *)
(* that uses it.                                                           *)
(***************************************************************************)
EXTENDS Protocol, FiniteSetTheorems, SequenceTheorems, TLAPS


----------------------------------------------------------------------------
(* Stacks: sequences without repetitions, as sets.                         *)

\* What is left of a stack when its top is taken.
LEMMA FrontOfStack ==
    ASSUME NEW S, NEW s \in Seq(S), Len(s) > 0, IsInjective(s)
    PROVE  /\ Front(s) \in Seq(S) /\ Len(Front(s)) = Len(s) - 1
           /\ IsInjective(Front(s))
           /\ Last(s) \in ToSet(s) /\ Last(s) \in S
           /\ ToSet(Front(s)) = ToSet(s) \ {Last(s)}
  <1>1. Len(s) \in Nat /\ DOMAIN s = 1 .. Len(s)
    OBVIOUS
  <1>2. /\ Front(s) \in Seq(S) /\ Len(Front(s)) = Len(s) - 1
        /\ DOMAIN Front(s) = 1 .. Len(s) - 1
        /\ \A i \in 1 .. Len(s) - 1 : Front(s)[i] = s[i]
    BY <1>1 DEF Front
  <1>3. IsInjective(Front(s))
    BY <1>1, <1>2 DEF IsInjective
  <1>4. Last(s) \in ToSet(s) /\ Last(s) \in S
    BY <1>1 DEF Last, ToSet
  <1>5. ASSUME NEW i \in 1 .. Len(s) - 1 PROVE s[i] # Last(s)
    BY <1>1 DEF IsInjective, Last
  <1>6. ToSet(Front(s)) = ToSet(s) \ {Last(s)}
    <2>1. ToSet(Front(s)) \subseteq ToSet(s) \ {Last(s)}
      BY <1>1, <1>2, <1>5 DEF ToSet
    <2>2. ASSUME NEW x \in ToSet(s), x # Last(s) PROVE x \in ToSet(Front(s))
      <3>1. PICK i \in 1 .. Len(s) : x = s[i]
        BY <1>1 DEF ToSet
      <3>2. i \in 1 .. Len(s) - 1
        BY <1>1, <3>1, <2>2 DEF Last
      <3>. QED BY <1>2, <3>1, <3>2 DEF ToSet
    <2>. QED BY <2>1, <2>2
  <1>. QED BY <1>2, <1>3, <1>4, <1>6

\* A stack with one stream more.
LEMMA PushOnStack ==
    ASSUME NEW S, NEW s \in Seq(S), NEW x \in S, x \notin ToSet(s), IsInjective(s)
    PROVE  /\ Append(s, x) \in Seq(S) /\ Len(Append(s, x)) = Len(s) + 1
           /\ IsInjective(Append(s, x))
           /\ ToSet(Append(s, x)) = ToSet(s) \cup {x}
  <1>. DEFINE t == Append(s, x)
  <1>1. Len(s) \in Nat /\ DOMAIN s = 1 .. Len(s)
    OBVIOUS
  <1>2. /\ t \in Seq(S) /\ Len(t) = Len(s) + 1
        /\ DOMAIN t = 1 .. Len(s) + 1
        /\ \A i \in 1 .. Len(s) : t[i] = s[i]
        /\ t[Len(s) + 1] = x
    OBVIOUS
  <1>. HIDE DEF t
  <1>3. \A i \in 1 .. Len(s) : s[i] # x
    BY <1>1 DEF ToSet
  <1>4. IsInjective(t)
    <2>. SUFFICES ASSUME NEW i \in 1 .. Len(s) + 1, NEW j \in 1 .. Len(s) + 1, t[i] = t[j]
                  PROVE  i = j
      BY <1>2 DEF IsInjective
    <2>1. CASE i = Len(s) + 1 \/ j = Len(s) + 1
      BY <1>1, <1>2, <1>3, <2>1
    <2>2. CASE i \in 1 .. Len(s) /\ j \in 1 .. Len(s)
      BY <1>1, <1>2, <2>2 DEF IsInjective
    <2>. QED BY <1>1, <2>1, <2>2
  <1>5. ToSet(t) = ToSet(s) \cup {x}
    <2>1. ToSet(t) \subseteq ToSet(s) \cup {x}
      <3>. SUFFICES ASSUME NEW i \in 1 .. Len(s) + 1 PROVE t[i] \in ToSet(s) \cup {x}
        BY <1>2 DEF ToSet
      <3>1. CASE i = Len(s) + 1
        BY <1>2, <3>1
      <3>2. CASE i \in 1 .. Len(s)
        BY <1>1, <1>2, <3>2 DEF ToSet
      <3>. QED BY <1>1, <3>1, <3>2
    <2>2. x \in ToSet(t)
      BY <1>1, <1>2 DEF ToSet
    <2>3. ASSUME NEW i \in 1 .. Len(s) PROVE s[i] \in ToSet(t)
      BY <1>1, <1>2 DEF ToSet
    <2>. QED BY <1>1, <2>1, <2>2, <2>3 DEF ToSet
  <1>. QED BY <1>2, <1>4, <1>5 DEF t

\* What is left of a stack when its k oldest streams are taken.
LEMMA TopOfStack ==
    ASSUME NEW S, NEW s \in Seq(S), NEW k \in Nat, k <= Len(s), IsInjective(s)
    PROVE  /\ SubSeq(s, k + 1, Len(s)) \in Seq(S)
           /\ Len(SubSeq(s, k + 1, Len(s))) = Len(s) - k
           /\ IsInjective(SubSeq(s, k + 1, Len(s)))
           /\ ToSet(SubSeq(s, 1, k)) \subseteq ToSet(s)
           /\ ToSet(SubSeq(s, k + 1, Len(s))) = ToSet(s) \ ToSet(SubSeq(s, 1, k))
  <1>. DEFINE t == SubSeq(s, k + 1, Len(s))
              b == SubSeq(s, 1, k)
  <1>1. Len(s) \in Nat /\ DOMAIN s = 1 .. Len(s)
    OBVIOUS
  <1>2. /\ t \in Seq(S) /\ Len(t) = Len(s) - k
        /\ DOMAIN t = 1 .. Len(s) - k
        /\ \A i \in 1 .. Len(s) - k : t[i] = s[i + k]
    <2>1. \A i \in k + 1 .. Len(s) : s[i] \in S
      BY <1>1
    <2>2. k + 1 \in Int /\ Len(s) \in Int
      BY <1>1
    <2>3. /\ t \in Seq(S)
          /\ Len(t) = IF k + 1 <= Len(s) THEN Len(s) - (k + 1) + 1 ELSE 0
          /\ \A i \in 1 .. Len(s) - (k + 1) + 1 : t[i] = s[(k + 1) + i - 1]
      BY <2>1, <2>2, SubSeqProperties
    <2>4. Len(t) = Len(s) - k
      <3>. HIDE DEF t
      <3>1. CASE k + 1 <= Len(s)
        <4>1. Len(t) = Len(s) - (k + 1) + 1
          BY <2>3, <3>1
        <4>. QED BY <1>1, <4>1
      <3>2. CASE ~(k + 1 <= Len(s))
        <4>1. Len(t) = 0
          BY <2>3, <3>2
        <4>2. Len(s) = k
          <5>1. \A m, n \in Nat : m <= n /\ ~(m + 1 <= n) => n = m
            OBVIOUS
          <5>. QED BY <1>1, <3>2, <5>1, Zenon
        <4>3. Len(s) - k = 0
          BY <4>2
        <4>. QED BY <4>1, <4>3
      <3>. QED BY <3>1, <3>2
    <2>5. DOMAIN t = 1 .. Len(s) - k
      BY <2>3, <2>4
    <2>6. \A i \in 1 .. Len(s) - k : t[i] = s[i + k]
      <3>. SUFFICES ASSUME NEW i \in 1 .. Len(s) - k PROVE t[i] = s[i + k]
        OBVIOUS
      <3>1. i \in 1 .. Len(s) - (k + 1) + 1 /\ (k + 1) + i - 1 = i + k
        BY <1>1
      <3>. HIDE DEF t
      <3>. QED BY <2>3, <3>1
    <2>. QED BY <2>3, <2>4, <2>5, <2>6
  <1>3. /\ DOMAIN b = 1 .. k
        /\ \A i \in 1 .. k : b[i] = s[i]
    BY <1>1
  <1>. HIDE DEF t, b
  <1>4. IsInjective(t)
    <2>. SUFFICES ASSUME NEW i \in 1 .. Len(s) - k, NEW j \in 1 .. Len(s) - k, t[i] = t[j]
                  PROVE  i = j
      BY <1>2 DEF IsInjective
    <2>1. i + k \in 1 .. Len(s) /\ j + k \in 1 .. Len(s) /\ s[i + k] = s[j + k]
      BY <1>1, <1>2
    <2>2. i + k = j + k
      BY <1>1, <2>1 DEF IsInjective
    <2>. QED BY <1>1, <2>2
  <1>5. ToSet(b) \subseteq ToSet(s)
    BY <1>1, <1>3 DEF ToSet
  <1>6. ToSet(t) = ToSet(s) \ ToSet(b)
    <2>1. ASSUME NEW i \in 1 .. Len(s) - k PROVE t[i] \in ToSet(s) /\ t[i] \notin ToSet(b)
      <3>1. i + k \in 1 .. Len(s) /\ t[i] = s[i + k]
        BY <1>1, <1>2
      <3>2. ASSUME NEW j \in 1 .. k PROVE s[i + k] # b[j]
        BY <1>1, <1>3, <3>1 DEF IsInjective
      <3>. QED BY <1>1, <1>3, <3>1, <3>2 DEF ToSet
    <2>2. ASSUME NEW i \in 1 .. Len(s), s[i] \notin ToSet(b) PROVE s[i] \in ToSet(t)
      <3>1. i \notin 1 .. k
        BY <1>3, <2>2 DEF ToSet
      <3>2. i - k \in 1 .. Len(s) - k /\ t[i - k] = s[i]
        BY <1>1, <1>2, <3>1
      <3>. QED BY <1>2, <3>2 DEF ToSet
    <2>3. ToSet(t) \subseteq ToSet(s) \ ToSet(b)
      BY <1>2, <2>1 DEF ToSet
    <2>. QED BY <1>1, <2>2, <2>3 DEF ToSet
  <1>. QED BY <1>2, <1>4, <1>5, <1>6 DEF t, b

----------------------------------------------------------------------------
(* The invariant, stream by stream and client by client.                   *)

Apart ==
    /\ \A c, d \in Clients : c # d /\ holds[c] # NoStream => holds[c] # holds[d]
    /\ \A p \in Peers :
         /\ IsInjective(idle[p])
         /\ \A c \in Clients : holds[c] \notin IdleStreams(p)
         /\ \A q \in Peers : p # q => IdleStreams(p) \cap IdleStreams(q) = {}

Held(s) == \E c \in Clients : holds[c] = s
Kept(s) == \E p \in Peers : s \in IdleStreams(p)
OpenIsOwned == \A s \in Streams : s \in open <=> Held(s) \/ Kept(s)

\* A client has a stream from the dial, or from the stack, to the release.
HandsMatchStages ==
    \A c \in Clients : holds[c] # NoStream <=> stage[c] \in {"dialed", "using"}

PoolInv == PoolTypeOK /\ Apart /\ OpenIsOwned /\ HandsMatchStages /\ ActiveExact

\* A step of the pool or of its clients.
PoolStep ==
    \/ \E c \in Clients : Acquire(c) \/ ReleaseIdle(c) \/ \E e \in BOOLEAN : ReleaseClose(c, e)
    \/ \E p \in Peers : Age(p)
    \/ Reaper \/ Close

LEMMA IdleAreStreams ==
    ASSUME PoolTypeOK, NEW p \in Peers
    PROVE  IdleStreams(p) \subseteq Streams
  BY DEF PoolTypeOK, IdleStreams, ToSet

LEMMA PoolStarts == PoolInit => PoolInv
  <1>. SUFFICES ASSUME PoolInit PROVE PoolInv
    OBVIOUS
  <1>. USE ConnPoolAssumption
  <1>1. PoolTypeOK
    <2>1. \A p \in Peers : idle[p] = << >> /\ Len(idle[p]) = 0 /\ expired[p] = 0
      BY DEF PoolInit
    <2>2. idle \in [Peers -> Seq(Streams)] /\ expired \in [Peers -> Nat]
      BY DEF PoolInit
    <2>3. \A p \in Peers : expired[p] <= Len(idle[p]) /\ Len(idle[p]) <= MaxStreamsPerPeer
      BY <2>1
    <2>4. /\ active \in [Peers -> Nat] /\ open \subseteq Streams
          /\ stage \in [Clients -> ClientStages] /\ target \in [Clients -> Peers]
          /\ holds \in [Clients -> Streams \cup {NoStream}]
          /\ poolClosed \in BOOLEAN /\ reaperPc \in {"ticking", "returned"}
      BY DEF PoolInit, ClientStages
    <2>. QED BY <2>2, <2>3, <2>4 DEF PoolTypeOK
  <1>2. \A p \in Peers : IdleStreams(p) = {} /\ IsInjective(idle[p])
    BY DEF PoolInit, IdleStreams, ToSet, IsInjective
  <1>3. Apart /\ OpenIsOwned /\ HandsMatchStages
    BY <1>2 DEF PoolInit, Apart, OpenIsOwned, HandsMatchStages, Held, Kept
  <1>4. ActiveExact
    <2>1. \A p \in Peers : Users(p) = {}
      BY DEF PoolInit, Users
    <2>. QED BY <2>1, FS_EmptySet DEF PoolInit, ActiveExact
  <1>. QED BY <1>1, <1>3, <1>4 DEF PoolInv

----------------------------------------------------------------------------
(* The count of active streams.                                            *)

LEMMA UsersFinite ==
    ASSUME NEW p \in Peers
    PROVE  IsFiniteSet(Users(p)) /\ Cardinality(Users(p)) \in Nat
  <1>1. Users(p) \in SUBSET Clients
    BY DEF Users
  <1>. QED BY <1>1, ConnPoolAssumption, FS_Subset, FS_CardinalityType

\* A client starts to use a stream of p.
LEMMA OneUserMore ==
    ASSUME PoolTypeOK, ActiveExact, NEW c \in Clients, NEW p \in Peers,
           stage[c] # "using",
           active' = [active EXCEPT ![p] = @ + 1],
           \A q \in Peers : Users(q)' = IF q = p THEN Users(q) \cup {c} ELSE Users(q)
    PROVE  ActiveExact' /\ active' \in [Peers -> Nat]
  <1>1. c \notin Users(p)
    BY DEF Users
  <1>2. Cardinality(Users(p) \cup {c}) = Cardinality(Users(p)) + 1
    BY <1>1, UsersFinite, FS_AddElement
  <1>3. active \in [Peers -> Nat] /\ \A q \in Peers : active[q] = Cardinality(Users(q))
    BY DEF PoolTypeOK, ActiveExact
  <1>4. active' \in [Peers -> Nat]
    BY <1>3
  <1>5. ASSUME NEW q \in Peers PROVE active'[q] = Cardinality(Users(q)')
    <2>1. CASE q = p
      BY <1>2, <1>3, <2>1
    <2>2. CASE q # p
      BY <1>3, <2>2
    <2>. QED BY <2>1, <2>2
  <1>. QED BY <1>4, <1>5 DEF ActiveExact

\* A client releases its stream: the count was not 0.
LEMMA OneUserLess ==
    ASSUME PoolTypeOK, ActiveExact, NEW c \in Clients, StopUsing(c)
    PROVE  ActiveExact' /\ active' \in [Peers -> Nat]
  <1>. DEFINE p == target[c]
  <1>1. p \in Peers /\ stage[c] = "using" /\ c \in Users(p)
    BY DEF PoolTypeOK, StopUsing, Users
  <1>2. \A q \in Peers : Users(q)' = IF q = p THEN Users(q) \ {c} ELSE Users(q)
    BY <1>1 DEF StopUsing, Users, PoolTypeOK, ClientStages
  <1>3. Cardinality(Users(p) \ {c}) = Cardinality(Users(p)) - 1
    BY <1>1, UsersFinite, FS_RemoveElement
  <1>4. Cardinality(Users(p)) \in Nat /\ Cardinality(Users(p)) > 0
    <2>1. IsFiniteSet(Users(p)) /\ Cardinality(Users(p)) \in Nat
      BY <1>1, UsersFinite
    <2>2. Cardinality(Users(p)) # 0
      BY <1>1, <2>1, FS_EmptySet
    <2>. QED BY <2>1, <2>2
  <1>5. active \in [Peers -> Nat] /\ \A q \in Peers : active[q] = Cardinality(Users(q))
    BY DEF PoolTypeOK, ActiveExact
  <1>6. active' = [active EXCEPT ![p] = IF @ > 0 THEN @ - 1 ELSE @]
    BY DEF StopUsing
  <1>. HIDE DEF p
  <1>7. active' = [active EXCEPT ![p] = Cardinality(Users(p)) - 1]
    BY <1>1, <1>4, <1>5, <1>6
  <1>8. active' \in [Peers -> Nat]
    BY <1>1, <1>4, <1>5, <1>7
  <1>9. ASSUME NEW q \in Peers PROVE active'[q] = Cardinality(Users(q)')
    <2>1. CASE q = p
      BY <1>2, <1>3, <1>5, <1>7, <2>1
    <2>2. CASE q # p
      BY <1>2, <1>5, <1>7, <2>2
    <2>. QED BY <2>1, <2>2
  <1>. QED BY <1>8, <1>9 DEF ActiveExact

\* Steps in which nobody starts or stops to use a stream.
LEMMA SameUsers ==
    ASSUME ActiveExact, active' = active, \A p \in Peers : Users(p)' = Users(p)
    PROVE  ActiveExact'
  BY DEF ActiveExact

----------------------------------------------------------------------------
(* The steps.                                                              *)

\* The idle streams after a step that replaces the stack of p.
LEMMA OneStackChanges ==
    ASSUME PoolTypeOK, NEW p \in Peers, NEW t, idle' = [idle EXCEPT ![p] = t]
    PROVE  \A q \in Peers : /\ idle'[q] = IF q = p THEN t ELSE idle[q]
                            /\ IdleStreams(q)' = IF q = p THEN ToSet(t) ELSE IdleStreams(q)
  BY DEF PoolTypeOK, IdleStreams

LEMMA AcquireIdleInv ==
    ASSUME PoolInv, NEW c \in Clients, NEW p \in Peers, AcquireIdle(c, p)
    PROVE  PoolInv'
  <1>. DEFINE s == idle[p]
              x == Last(s)
  <1>0. PoolTypeOK /\ Apart /\ OpenIsOwned /\ HandsMatchStages /\ ActiveExact
    BY DEF PoolInv
  <1>1. s \in Seq(Streams) /\ expired[p] \in Nat /\ Len(s) > expired[p] /\ Len(s) > 0
        /\ Len(s) <= MaxStreamsPerPeer /\ IsInjective(s)
    BY <1>0 DEF PoolTypeOK, AcquireIdle, HasUsable, Apart
  <1>2. /\ Front(s) \in Seq(Streams) /\ Len(Front(s)) = Len(s) - 1
        /\ IsInjective(Front(s))
        /\ x \in IdleStreams(p) /\ x \in Streams
        /\ ToSet(Front(s)) = IdleStreams(p) \ {x}
    BY <1>1, FrontOfStack DEF IdleStreams
  <1>. HIDE DEF s, x
  <1>3. /\ holds' = [holds EXCEPT ![c] = x]
        /\ idle' = [idle EXCEPT ![p] = Front(s)]
        /\ active' = [active EXCEPT ![p] = @ + 1]
        /\ stage' = [stage EXCEPT ![c] = "using"]
        /\ target' = [target EXCEPT ![c] = p]
        /\ expired' = expired /\ open' = open
        /\ poolClosed' = poolClosed /\ reaperPc' = reaperPc
        /\ stage[c] = "outside" /\ holds[c] = NoStream
    BY <1>0 DEF AcquireIdle, s, x, lifeVars, HandsMatchStages, PoolTypeOK
  <1>4. \A q \in Peers : /\ idle'[q] = IF q = p THEN Front(s) ELSE idle[q]
                         /\ IdleStreams(q)' = IF q = p THEN IdleStreams(p) \ {x}
                                                       ELSE IdleStreams(q)
    BY <1>0, <1>2, <1>3, OneStackChanges
  <1>5. ActiveExact' /\ active' \in [Peers -> Nat]
    <2>1. \A q \in Peers : Users(q)' = IF q = p THEN Users(q) \cup {c} ELSE Users(q)
      BY <1>0, <1>3 DEF Users, PoolTypeOK
    <2>. QED BY <1>0, <1>3, <2>1, OneUserMore
  <1>6. PoolTypeOK'
    <2>1. \A q \in Peers : expired'[q] <= Len(idle'[q]) /\ Len(idle'[q]) <= MaxStreamsPerPeer
      <3>. SUFFICES ASSUME NEW q \in Peers
                    PROVE  expired[q] <= Len(idle'[q]) /\ Len(idle'[q]) <= MaxStreamsPerPeer
        BY <1>3
      <3>1. CASE q = p
        BY <1>1, <1>2, <1>4, <3>1, ConnPoolAssumption
      <3>2. CASE q # p
        BY <1>0, <1>4, <3>2 DEF PoolTypeOK
      <3>. QED BY <3>1, <3>2
    <2>2. idle' \in [Peers -> Seq(Streams)]
      BY <1>0, <1>2, <1>3 DEF PoolTypeOK
    <2>. QED BY <1>0, <1>2, <1>3, <1>5, <2>1, <2>2 DEF PoolTypeOK, ClientStages
  <1>10. \A d \in Clients : holds'[d] = IF d = c THEN x ELSE holds[d]
    BY <1>0, <1>3 DEF PoolTypeOK
  <1>11. \A d \in Clients : holds[d] # x
    BY <1>0, <1>2 DEF Apart
  <1>12. \A q \in Peers : q # p => x \notin IdleStreams(q)
    BY <1>0, <1>2 DEF Apart
  <1>7. Apart'
    <2>1. \A d, e \in Clients : d # e /\ holds'[d] # NoStream => holds'[d] # holds'[e]
      BY <1>0, <1>10, <1>11 DEF Apart
    <2>2. \A q \in Peers : IsInjective(idle'[q])
      BY <1>0, <1>2, <1>4 DEF Apart
    <2>3. \A q \in Peers : \A d \in Clients : holds'[d] \notin IdleStreams(q)'
      BY <1>0, <1>4, <1>10, <1>12 DEF Apart
    <2>4. \A q, r \in Peers : q # r => IdleStreams(q)' \cap IdleStreams(r)' = {}
      BY <1>0, <1>4 DEF Apart
    <2>. QED BY <2>1, <2>2, <2>3, <2>4 DEF Apart
  <1>8. OpenIsOwned'
    <2>. SUFFICES ASSUME NEW y \in Streams PROVE (y \in open <=> Held(y) \/ Kept(y))'
      BY DEF OpenIsOwned
    <2>1. y \in open <=> Held(y) \/ Kept(y)
      BY <1>0 DEF OpenIsOwned
    <2>2. Held(y)' <=> Held(y) \/ y = x
      BY <1>3, <1>10, ConnPoolAssumption DEF Held
    <2>3. Kept(y)' <=> Kept(y) /\ y # x
      BY <1>2, <1>4, <1>12 DEF Kept
    <2>4. Kept(x)
      BY <1>2 DEF Kept
    <2>. QED BY <1>3, <2>1, <2>2, <2>3, <2>4
  <1>9. HandsMatchStages'
    BY <1>0, <1>2, <1>3, ConnPoolAssumption DEF HandsMatchStages, PoolTypeOK
  <1>. QED BY <1>5, <1>6, <1>7, <1>8, <1>9 DEF PoolInv

LEMMA AcquireNoneInv ==
    ASSUME PoolInv, NEW c \in Clients, NEW p \in Peers, AcquireNone(c, p)
    PROVE  PoolInv'
  <1>0. PoolTypeOK /\ Apart /\ OpenIsOwned /\ HandsMatchStages /\ ActiveExact
    BY DEF PoolInv
  <1>1. /\ open' = open \ IdleStreams(p)
        /\ idle' = [idle EXCEPT ![p] = << >>]
        /\ expired' = [expired EXCEPT ![p] = 0]
        /\ stage' = [stage EXCEPT ![c] = "dialing"]
        /\ target' = [target EXCEPT ![c] = p]
        /\ active' = active /\ holds' = holds
        /\ poolClosed' = poolClosed /\ reaperPc' = reaperPc
        /\ stage[c] = "outside"
    BY DEF AcquireNone, lifeVars
  <1>2. << >> \in Seq(Streams) /\ Len(<< >>) = 0 /\ IsInjective(<< >>) /\ ToSet(<< >>) = {}
    BY DEF IsInjective, ToSet
  <1>3. \A q \in Peers : /\ idle'[q] = IF q = p THEN << >> ELSE idle[q]
                         /\ IdleStreams(q)' = IF q = p THEN {} ELSE IdleStreams(q)
    BY <1>0, <1>1, <1>2, OneStackChanges
  <1>4. \A q \in Peers : Users(q)' = Users(q)
    BY <1>0, <1>1 DEF Users, PoolTypeOK
  <1>5. ActiveExact'
    BY <1>0, <1>1, <1>4, SameUsers
  <1>6. PoolTypeOK'
    <2>1. \A q \in Peers : expired'[q] <= Len(idle'[q]) /\ Len(idle'[q]) <= MaxStreamsPerPeer
      <3>. SUFFICES ASSUME NEW q \in Peers
                    PROVE  expired'[q] <= Len(idle'[q]) /\ Len(idle'[q]) <= MaxStreamsPerPeer
        OBVIOUS
      <3>1. CASE q = p
        <4>1. idle'[q] = << >> /\ expired'[q] = 0
          BY <1>0, <1>1, <1>3, <3>1 DEF PoolTypeOK
        <4>. QED BY <1>2, <4>1, ConnPoolAssumption
      <3>2. CASE q # p
        BY <1>0, <1>1, <1>3, <3>2 DEF PoolTypeOK
      <3>. QED BY <3>1, <3>2
    <2>2. idle' \in [Peers -> Seq(Streams)]
      BY <1>0, <1>1, <1>2 DEF PoolTypeOK
    <2>. QED BY <1>0, <1>1, <2>1, <2>2 DEF PoolTypeOK, ClientStages
  <1>7. Apart'
    BY <1>0, <1>1, <1>2, <1>3 DEF Apart
  <1>8. OpenIsOwned'
    <2>. SUFFICES ASSUME NEW s \in Streams PROVE (s \in open <=> Held(s) \/ Kept(s))'
      BY DEF OpenIsOwned
    <2>1. Held(s)' <=> Held(s)
      BY <1>1 DEF Held
    <2>2. Kept(s)' <=> Kept(s) /\ s \notin IdleStreams(p)
      BY <1>0, <1>3 DEF Kept, Apart
    <2>3. Held(s) => s \notin IdleStreams(p)
      BY <1>0 DEF Held, Apart
    <2>. QED BY <1>0, <1>1, <2>1, <2>2, <2>3 DEF OpenIsOwned
  <1>9. HandsMatchStages'
    BY <1>0, <1>1 DEF HandsMatchStages, PoolTypeOK
  <1>. QED BY <1>5, <1>6, <1>7, <1>8, <1>9 DEF PoolInv

\* Steps that change no stack.
LEMMA SameStacks ==
    ASSUME idle' = idle
    PROVE  /\ \A p \in Peers : IdleStreams(p)' = IdleStreams(p)
           /\ \A s : Kept(s)' <=> Kept(s)
  BY DEF IdleStreams, Kept

LEMMA DialSucceedsInv ==
    ASSUME PoolInv, NEW c \in Clients, NEW s \in Streams, DialSucceeds(c, s)
    PROVE  PoolInv'
  <1>0. PoolTypeOK /\ Apart /\ OpenIsOwned /\ HandsMatchStages /\ ActiveExact
    BY DEF PoolInv
  <1>1. /\ open' = open \cup {s}
        /\ holds' = [holds EXCEPT ![c] = s]
        /\ stage' = [stage EXCEPT ![c] = "dialed"]
        /\ idle' = idle /\ expired' = expired /\ active' = active /\ target' = target
        /\ poolClosed' = poolClosed /\ reaperPc' = reaperPc
        /\ stage[c] = "dialing" /\ holds[c] = NoStream
    BY <1>0 DEF DialSucceeds, poolVars, lifeVars, HandsMatchStages
  <1>2. /\ s \notin open /\ s # NoStream
        /\ \A d \in Clients : holds[d] # s
        /\ \A p \in Peers : s \notin IdleStreams(p)
    BY ConnPoolAssumption DEF DialSucceeds, InHand, AllIdle
  <1>3. \A p \in Peers : IdleStreams(p)' = IdleStreams(p)
    BY <1>1, SameStacks
  <1>4. \A d \in Clients : holds'[d] = IF d = c THEN s ELSE holds[d]
    BY <1>0, <1>1 DEF PoolTypeOK
  <1>5. ActiveExact'
    <2>1. \A p \in Peers : Users(p)' = Users(p)
      BY <1>0, <1>1 DEF Users, PoolTypeOK
    <2>. QED BY <1>0, <1>1, <2>1, SameUsers
  <1>6. PoolTypeOK'
    BY <1>0, <1>1 DEF PoolTypeOK, ClientStages
  <1>7. Apart'
    <2>1. \A d, e \in Clients : d # e /\ holds'[d] # NoStream => holds'[d] # holds'[e]
      BY <1>0, <1>2, <1>4 DEF Apart
    <2>. QED BY <1>0, <1>1, <1>2, <1>3, <1>4, <2>1 DEF Apart
  <1>8. OpenIsOwned'
    <2>. SUFFICES ASSUME NEW y \in Streams PROVE (y \in open <=> Held(y) \/ Kept(y))'
      BY DEF OpenIsOwned
    <2>1. Held(y)' <=> Held(y) \/ y = s
      BY <1>1, <1>4, ConnPoolAssumption DEF Held
    <2>2. Kept(y)' <=> Kept(y)
      BY <1>1, SameStacks
    <2>. QED BY <1>0, <1>1, <2>1, <2>2 DEF OpenIsOwned
  <1>9. HandsMatchStages'
    BY <1>0, <1>1, <1>2 DEF HandsMatchStages, PoolTypeOK
  <1>. QED BY <1>5, <1>6, <1>7, <1>8, <1>9 DEF PoolInv

\* Steps that change no stack, no hand and nothing that is open.
LEMMA StreamsStay ==
    ASSUME Apart, OpenIsOwned, UNCHANGED <<idle, holds, open>>
    PROVE  Apart' /\ OpenIsOwned'
  <1>1. \A p \in Peers : IdleStreams(p)' = IdleStreams(p)
    BY SameStacks
  <1>2. \A s : (Kept(s)' <=> Kept(s)) /\ (Held(s)' <=> Held(s))
    BY SameStacks DEF Held
  <1>. QED BY <1>1, <1>2 DEF Apart, OpenIsOwned

LEMMA DialFailsInv ==
    ASSUME PoolInv, NEW c \in Clients, DialFails(c)
    PROVE  PoolInv'
  <1>0. PoolTypeOK /\ Apart /\ OpenIsOwned /\ HandsMatchStages /\ ActiveExact
    BY DEF PoolInv
  <1>1. /\ stage[c] = "dialing" /\ stage' = [stage EXCEPT ![c] = "outside"]
        /\ UNCHANGED <<idle, expired, active, open, target, holds, poolClosed, reaperPc>>
    BY DEF DialFails, poolVars, lifeVars
  <1>2. \A p \in Peers : Users(p)' = Users(p)
    BY <1>0, <1>1 DEF Users, PoolTypeOK
  <1>3. ActiveExact'
    BY <1>0, <1>1, <1>2, SameUsers
  <1>4. PoolTypeOK'
    BY <1>0, <1>1 DEF PoolTypeOK, ClientStages
  <1>5. HandsMatchStages'
    BY <1>0, <1>1 DEF HandsMatchStages, PoolTypeOK
  <1>6. Apart' /\ OpenIsOwned'
    BY <1>0, <1>1, StreamsStay
  <1>. QED BY <1>3, <1>4, <1>5, <1>6 DEF PoolInv

LEMMA CountDialedInv ==
    ASSUME PoolInv, NEW c \in Clients, CountDialed(c)
    PROVE  PoolInv'
  <1>0. PoolTypeOK /\ Apart /\ OpenIsOwned /\ HandsMatchStages /\ ActiveExact
    BY DEF PoolInv
  <1>1. /\ stage[c] = "dialed" /\ stage' = [stage EXCEPT ![c] = "using"]
        /\ active' = [active EXCEPT ![target[c]] = @ + 1]
        /\ UNCHANGED <<idle, expired, open, target, holds, poolClosed, reaperPc>>
    BY DEF CountDialed, lifeVars
  <1>2. target[c] \in Peers
    BY <1>0 DEF PoolTypeOK
  <1>3. ActiveExact' /\ active' \in [Peers -> Nat]
    <2>1. \A q \in Peers : Users(q)' = IF q = target[c] THEN Users(q) \cup {c} ELSE Users(q)
      BY <1>0, <1>1 DEF Users, PoolTypeOK
    <2>. QED BY <1>0, <1>1, <1>2, <2>1, OneUserMore
  <1>4. PoolTypeOK'
    BY <1>0, <1>1, <1>3 DEF PoolTypeOK, ClientStages
  <1>5. HandsMatchStages'
    BY <1>0, <1>1 DEF HandsMatchStages, PoolTypeOK
  <1>6. Apart' /\ OpenIsOwned'
    BY <1>0, <1>1, StreamsStay
  <1>. QED BY <1>3, <1>4, <1>5, <1>6 DEF PoolInv

\* What releasing leaves of the invariant to show for each way of doing it.
LEMMA Released ==
    ASSUME PoolInv, NEW c \in Clients, StopUsing(c)
    PROVE  /\ target[c] \in Peers
           /\ holds[c] \in Streams
           /\ \A d \in Clients : holds'[d] = IF d = c THEN NoStream ELSE holds[d]
           /\ \A d \in Clients : d # c => holds[d] # holds[c]
           /\ \A p \in Peers : holds[c] \notin IdleStreams(p)
           /\ ActiveExact' /\ active' \in [Peers -> Nat]
           /\ HandsMatchStages'
           /\ stage' \in [Clients -> ClientStages]
           /\ holds' \in [Clients -> Streams \cup {NoStream}]
           /\ UNCHANGED <<target, expired, poolClosed, reaperPc>>
  <1>0. PoolTypeOK /\ Apart /\ OpenIsOwned /\ HandsMatchStages /\ ActiveExact
    BY DEF PoolInv
  <1>1. /\ stage[c] = "using"
        /\ holds' = [holds EXCEPT ![c] = NoStream]
        /\ stage' = [stage EXCEPT ![c] = "outside"]
        /\ UNCHANGED <<target, expired, poolClosed, reaperPc>>
    BY DEF StopUsing, lifeVars
  <1>2. target[c] \in Peers /\ holds[c] \in Streams
    BY <1>0, <1>1 DEF PoolTypeOK, HandsMatchStages
  <1>3. /\ \A d \in Clients : d # c => holds[d] # holds[c]
        /\ \A p \in Peers : holds[c] \notin IdleStreams(p)
    BY <1>0, <1>2, ConnPoolAssumption DEF Apart
  <1>4. ActiveExact' /\ active' \in [Peers -> Nat]
    BY <1>0, OneUserLess
  <1>5. /\ \A d \in Clients : holds'[d] = IF d = c THEN NoStream ELSE holds[d]
        /\ stage' \in [Clients -> ClientStages]
        /\ holds' \in [Clients -> Streams \cup {NoStream}]
    BY <1>0, <1>1 DEF PoolTypeOK, ClientStages
  <1>6. HandsMatchStages'
    BY <1>0, <1>1 DEF HandsMatchStages, PoolTypeOK
  <1>. QED BY <1>1, <1>2, <1>3, <1>4, <1>5, <1>6

LEMMA ReleaseCloseInv ==
    ASSUME PoolInv, NEW c \in Clients, NEW e \in BOOLEAN, ReleaseClose(c, e)
    PROVE  PoolInv'
  <1>0. PoolTypeOK /\ Apart /\ OpenIsOwned
    BY DEF PoolInv
  <1>1. StopUsing(c) /\ open' = open \ {holds[c]} /\ idle' = idle
    BY DEF ReleaseClose
  <1>2. /\ holds[c] \in Streams
        /\ \A d \in Clients : holds'[d] = IF d = c THEN NoStream ELSE holds[d]
        /\ \A d \in Clients : d # c => holds[d] # holds[c]
        /\ \A p \in Peers : holds[c] \notin IdleStreams(p)
        /\ ActiveExact' /\ active' \in [Peers -> Nat]
        /\ HandsMatchStages'
        /\ stage' \in [Clients -> ClientStages]
        /\ holds' \in [Clients -> Streams \cup {NoStream}]
        /\ UNCHANGED <<target, expired, poolClosed, reaperPc>>
    BY <1>1, Released
  <1>3. \A p \in Peers : IdleStreams(p)' = IdleStreams(p)
    BY <1>1, SameStacks
  <1>4. PoolTypeOK'
    BY <1>0, <1>1, <1>2 DEF PoolTypeOK
  <1>5. Apart'
    <2>1. \A p \in Peers : NoStream \notin IdleStreams(p)
      BY <1>0, IdleAreStreams, ConnPoolAssumption
    <2>. QED BY <1>0, <1>1, <1>2, <1>3, <2>1 DEF Apart
  <1>6. OpenIsOwned'
    <2>. SUFFICES ASSUME NEW s \in Streams PROVE (s \in open <=> Held(s) \/ Kept(s))'
      BY DEF OpenIsOwned
    <2>1. Held(s)' <=> Held(s) /\ s # holds[c]
      BY <1>2, ConnPoolAssumption DEF Held
    <2>2. Kept(s)' <=> Kept(s)
      BY <1>1, SameStacks
    <2>3. s = holds[c] => ~Kept(s)
      BY <1>2 DEF Kept
    <2>. QED BY <1>0, <1>1, <2>1, <2>2, <2>3 DEF OpenIsOwned
  <1>. QED BY <1>2, <1>4, <1>5, <1>6 DEF PoolInv

LEMMA ReleaseIdleInv ==
    ASSUME PoolInv, NEW c \in Clients, ReleaseIdle(c)
    PROVE  PoolInv'
  <1>. DEFINE p == target[c]
              x == holds[c]
              t == Append(idle[p], x)
  <1>0. PoolTypeOK /\ Apart /\ OpenIsOwned
    BY DEF PoolInv
  <1>1. StopUsing(c) /\ ~IdleIsFull(p) /\ open' = open /\ idle' = [idle EXCEPT ![p] = t]
    BY DEF ReleaseIdle
  <1>2. /\ p \in Peers /\ x \in Streams
        /\ \A d \in Clients : holds'[d] = IF d = c THEN NoStream ELSE holds[d]
        /\ \A d \in Clients : d # c => holds[d] # x
        /\ \A q \in Peers : x \notin IdleStreams(q)
        /\ ActiveExact' /\ active' \in [Peers -> Nat]
        /\ HandsMatchStages'
        /\ stage' \in [Clients -> ClientStages]
        /\ holds' \in [Clients -> Streams \cup {NoStream}]
        /\ UNCHANGED <<target, expired, poolClosed, reaperPc>>
    BY <1>1, Released
  <1>3. /\ t \in Seq(Streams) /\ Len(t) = Len(idle[p]) + 1
        /\ IsInjective(t)
        /\ ToSet(t) = IdleStreams(p) \cup {x}
    <2>1. idle[p] \in Seq(Streams) /\ IsInjective(idle[p]) /\ x \notin ToSet(idle[p])
      BY <1>0, <1>2 DEF PoolTypeOK, Apart, IdleStreams
    <2>. QED BY <1>2, <2>1, PushOnStack DEF IdleStreams
  <1>4. Len(idle[p]) < MaxStreamsPerPeer /\ Len(idle[p]) \in Nat /\ expired[p] \in Nat
        /\ expired[p] <= Len(idle[p])
    BY <1>0, <1>1, <1>2, ConnPoolAssumption DEF IdleIsFull, PoolTypeOK
  <1>. HIDE DEF t, p, x
  <1>5. \A q \in Peers : /\ idle'[q] = IF q = p THEN t ELSE idle[q]
                         /\ IdleStreams(q)' = IF q = p THEN IdleStreams(p) \cup {x}
                                                       ELSE IdleStreams(q)
    BY <1>0, <1>1, <1>2, <1>3, OneStackChanges
  <1>6. PoolTypeOK'
    <2>1. \A q \in Peers : expired'[q] <= Len(idle'[q]) /\ Len(idle'[q]) <= MaxStreamsPerPeer
      <3>. SUFFICES ASSUME NEW q \in Peers
                    PROVE  expired[q] <= Len(idle'[q]) /\ Len(idle'[q]) <= MaxStreamsPerPeer
        BY <1>2
      <3>1. CASE q = p
        BY <1>3, <1>4, <1>5, <3>1, ConnPoolAssumption
      <3>2. CASE q # p
        BY <1>0, <1>5, <3>2 DEF PoolTypeOK
      <3>. QED BY <3>1, <3>2
    <2>2. idle' \in [Peers -> Seq(Streams)]
      BY <1>0, <1>1, <1>3 DEF PoolTypeOK
    <2>. QED BY <1>0, <1>1, <1>2, <2>1, <2>2 DEF PoolTypeOK
  <1>7. Apart'
    <2>1. \A d, e \in Clients : d # e /\ holds'[d] # NoStream => holds'[d] # holds'[e]
      BY <1>0, <1>2 DEF Apart
    <2>2. \A q \in Peers : IsInjective(idle'[q])
      BY <1>0, <1>3, <1>5 DEF Apart
    <2>3. \A q \in Peers : NoStream \notin IdleStreams(q)
      BY <1>0, IdleAreStreams, ConnPoolAssumption
    <2>4. \A q \in Peers : \A d \in Clients : holds'[d] \notin IdleStreams(q)'
      BY <1>0, <1>2, <1>5, <2>3, ConnPoolAssumption DEF Apart
    <2>5. \A q, r \in Peers : q # r => IdleStreams(q)' \cap IdleStreams(r)' = {}
      BY <1>0, <1>2, <1>5 DEF Apart
    <2>. QED BY <2>1, <2>2, <2>4, <2>5 DEF Apart
  <1>8. OpenIsOwned'
    <2>. SUFFICES ASSUME NEW y \in Streams PROVE (y \in open <=> Held(y) \/ Kept(y))'
      BY DEF OpenIsOwned
    <2>1. Held(y)' <=> Held(y) /\ y # x
      BY <1>2, ConnPoolAssumption DEF Held, x
    <2>2. Kept(y)' <=> Kept(y) \/ y = x
      BY <1>2, <1>5 DEF Kept
    <2>3. Held(x)
      BY DEF Held, x
    <2>. QED BY <1>0, <1>1, <2>1, <2>2, <2>3 DEF OpenIsOwned
  <1>. QED BY <1>2, <1>6, <1>7, <1>8 DEF PoolInv

LEMMA AgeInv ==
    ASSUME PoolInv, NEW p \in Peers, Age(p)
    PROVE  PoolInv'
  <1>0. PoolTypeOK /\ Apart /\ OpenIsOwned /\ HandsMatchStages /\ ActiveExact
    BY DEF PoolInv
  <1>1. /\ expired[p] < Len(idle[p])
        /\ expired' = [expired EXCEPT ![p] = @ + 1]
        /\ UNCHANGED <<idle, active, open, stage, target, holds, poolClosed, reaperPc>>
    BY DEF Age, clientVars, lifeVars
  <1>2. PoolTypeOK'
    <2>1. \A q \in Peers : expired'[q] <= Len(idle'[q])
      <3>. SUFFICES ASSUME NEW q \in Peers PROVE expired'[q] <= Len(idle[q])
        BY <1>1
      <3>1. expired[q] \in Nat /\ expired[q] <= Len(idle[q]) /\ Len(idle[q]) \in Nat
        BY <1>0 DEF PoolTypeOK
      <3>2. expired'[q] = IF q = p THEN expired[q] + 1 ELSE expired[q]
        BY <1>0, <1>1 DEF PoolTypeOK
      <3>. QED BY <1>1, <3>1, <3>2
    <2>. QED BY <1>0, <1>1, <2>1 DEF PoolTypeOK
  <1>3. Apart' /\ OpenIsOwned'
    BY <1>0, <1>1, StreamsStay
  <1>4. HandsMatchStages' /\ ActiveExact'
    BY <1>0, <1>1 DEF HandsMatchStages, ActiveExact, Users
  <1>. QED BY <1>2, <1>3, <1>4 DEF PoolInv

LEMMA ReapInv ==
    ASSUME PoolInv, NEW p \in Peers, Reap(p)
    PROVE  PoolInv'
  <1>. DEFINE gone == ToSet(SubSeq(idle[p], 1, expired[p]))
              t == SubSeq(idle[p], expired[p] + 1, Len(idle[p]))
  <1>0. PoolTypeOK /\ Apart /\ OpenIsOwned /\ HandsMatchStages /\ ActiveExact
    BY DEF PoolInv
  <1>1. /\ open' = open \ gone
        /\ idle' = [idle EXCEPT ![p] = t]
        /\ expired' = [expired EXCEPT ![p] = 0]
        /\ UNCHANGED <<active, stage, target, holds, poolClosed, reaperPc>>
    BY DEF Reap, clientVars, lifeVars
  <1>2. /\ idle[p] \in Seq(Streams) /\ IsInjective(idle[p])
        /\ expired[p] \in Nat /\ expired[p] <= Len(idle[p])
        /\ Len(idle[p]) <= MaxStreamsPerPeer
    BY <1>0 DEF PoolTypeOK, Apart
  <1>3. /\ t \in Seq(Streams) /\ Len(t) = Len(idle[p]) - expired[p]
        /\ IsInjective(t)
        /\ gone \subseteq IdleStreams(p)
        /\ ToSet(t) = IdleStreams(p) \ gone
    BY <1>2, TopOfStack DEF IdleStreams
  <1>. HIDE DEF t, gone
  <1>4. \A q \in Peers : /\ idle'[q] = IF q = p THEN t ELSE idle[q]
                         /\ IdleStreams(q)' = IF q = p THEN IdleStreams(p) \ gone
                                                       ELSE IdleStreams(q)
    BY <1>0, <1>1, <1>3, OneStackChanges
  <1>5. PoolTypeOK'
    <2>1. \A q \in Peers : expired'[q] <= Len(idle'[q]) /\ Len(idle'[q]) <= MaxStreamsPerPeer
      <3>. SUFFICES ASSUME NEW q \in Peers
                    PROVE  expired'[q] <= Len(idle'[q]) /\ Len(idle'[q]) <= MaxStreamsPerPeer
        OBVIOUS
      <3>1. CASE q = p
        <4>1. idle'[q] = t /\ expired'[q] = 0
          BY <1>0, <1>1, <1>4, <3>1 DEF PoolTypeOK
        <4>2. Len(t) \in Nat /\ Len(idle[p]) \in Nat
          BY <1>2, <1>3
        <4>. QED BY <1>2, <1>3, <4>1, <4>2, ConnPoolAssumption
      <3>2. CASE q # p
        BY <1>0, <1>1, <1>4, <3>2 DEF PoolTypeOK
      <3>. QED BY <3>1, <3>2
    <2>2. idle' \in [Peers -> Seq(Streams)]
      BY <1>0, <1>1, <1>3 DEF PoolTypeOK
    <2>. QED BY <1>0, <1>1, <2>1, <2>2 DEF PoolTypeOK
  <1>6. Apart'
    BY <1>0, <1>1, <1>3, <1>4 DEF Apart
  <1>7. OpenIsOwned'
    <2>. SUFFICES ASSUME NEW s \in Streams PROVE (s \in open <=> Held(s) \/ Kept(s))'
      BY DEF OpenIsOwned
    <2>1. Held(s)' <=> Held(s)
      BY <1>1 DEF Held
    <2>2. Kept(s)' <=> Kept(s) /\ s \notin gone
      BY <1>0, <1>3, <1>4 DEF Kept, Apart
    <2>3. Held(s) => s \notin gone
      BY <1>0, <1>3 DEF Held, Apart
    <2>. QED BY <1>0, <1>1, <2>1, <2>2, <2>3 DEF OpenIsOwned
  <1>8. HandsMatchStages' /\ ActiveExact'
    BY <1>0, <1>1 DEF HandsMatchStages, ActiveExact, Users
  <1>. QED BY <1>5, <1>6, <1>7, <1>8 DEF PoolInv

LEMMA LifeInv ==
    ASSUME PoolInv, UNCHANGED <<poolVars, open, clientVars>>,
           poolClosed' \in BOOLEAN, reaperPc' \in {"ticking", "returned"}
    PROVE  PoolInv'
  <1>1. UNCHANGED <<idle, expired, active, open, stage, target, holds>>
    BY DEF poolVars, clientVars
  <1>2. Apart' /\ OpenIsOwned'
    BY <1>1, StreamsStay DEF PoolInv
  <1>3. PoolTypeOK' /\ HandsMatchStages' /\ ActiveExact'
    BY <1>1 DEF PoolInv, PoolTypeOK, HandsMatchStages, ActiveExact, Users
  <1>. QED BY <1>2, <1>3 DEF PoolInv

LEMMA PoolStepInv == PoolInv /\ [PoolStep]_connVars => PoolInv'
  <1>. SUFFICES ASSUME PoolInv, [PoolStep]_connVars PROVE PoolInv'
    OBVIOUS
  <1>1. ASSUME NEW c \in Clients, Acquire(c) PROVE PoolInv'
    BY <1>1, AcquireIdleInv, AcquireNoneInv, DialSucceedsInv, DialFailsInv, CountDialedInv
       DEF Acquire
  <1>2. ASSUME NEW c \in Clients, ReleaseIdle(c) PROVE PoolInv'
    BY <1>2, ReleaseIdleInv
  <1>3. ASSUME NEW c \in Clients, NEW e \in BOOLEAN, ReleaseClose(c, e) PROVE PoolInv'
    BY <1>3, ReleaseCloseInv
  <1>4. ASSUME NEW p \in Peers, Age(p) PROVE PoolInv'
    BY <1>4, AgeInv
  <1>5. CASE Reaper
    <2>1. CASE ReaperReturn
      BY <2>1, LifeInv DEF ReaperReturn, PoolInv, PoolTypeOK
    <2>2. ASSUME NEW p \in Peers, Reap(p) PROVE PoolInv'
      BY <2>2, ReapInv
    <2>. QED BY <1>5, <2>1, <2>2 DEF Reaper
  <1>6. CASE Close
    BY <1>6, LifeInv DEF Close, PoolInv, PoolTypeOK
  <1>7. CASE UNCHANGED connVars
    BY <1>7, LifeInv DEF connVars, lifeVars, PoolInv, PoolTypeOK
  <1>. QED BY <1>1, <1>2, <1>3, <1>4, <1>5, <1>6, <1>7 DEF PoolStep

\* The properties of ConnPool, in terms of the invariant.
LEMMA PoolInvImplies ==
    PoolInv => PoolTypeOK /\ ExclusiveStreams /\ OpenMeansOwned /\ ActiveExact
  <1>. SUFFICES ASSUME PoolInv PROVE ExclusiveStreams /\ OpenMeansOwned
    BY DEF PoolInv
  <1>0. PoolTypeOK /\ Apart /\ OpenIsOwned
    BY DEF PoolInv
  <1>1. ExclusiveStreams
    BY <1>0 DEF Apart, ExclusiveStreams, InHand
  <1>2. \A s \in Streams : /\ Held(s) <=> s \in InHand \ {NoStream}
                           /\ Kept(s) <=> s \in AllIdle
    BY ConnPoolAssumption DEF Held, Kept, InHand, AllIdle
  <1>3. open \subseteq Streams /\ InHand \ {NoStream} \subseteq Streams
    BY <1>0 DEF PoolTypeOK, InHand
  <1>4. AllIdle \subseteq Streams
    BY <1>0, IdleAreStreams DEF AllIdle
  <1>5. OpenMeansOwned
    BY <1>0, <1>2, <1>3, <1>4 DEF OpenIsOwned, OpenMeansOwned
  <1>. QED BY <1>1, <1>5

----------------------------------------------------------------------------
(* Replies.                                                                *)

Items == {LengthOf(i) : i \in Chunks} \cup {ErrorLine(i) : i \in Chunks}
         \cup {<<i, k>> : i \in Chunks, k \in 1 .. Parts}

\* What a fetch of chunk i has read, what is left of the bytes after k parts,
\* and a whole reply.
Begun(i, k, g) ==
    g \in Seq(Items) /\ Len(g) = k /\ \A j \in 1 .. k : g[j] = <<i, j>>
Rest(i, k, r) ==
    r \in Seq(Items) /\ Len(r) = Parts - k /\ \A j \in 1 .. Parts - k : r[j] = <<i, k + j>>
Answered(i, r) ==
    /\ r \in Seq(Items) /\ Len(r) = Parts + 1 /\ r[1] = LengthOf(i)
    /\ \A j \in 1 .. Parts : r[j + 1] = <<i, j>>

LEMMA ItemsOf ==
    ASSUME NEW i \in Chunks
    PROVE  /\ LengthOf(i) \in Items /\ ErrorLine(i) \in Items
           /\ \A k \in 1 .. Parts : <<i, k>> \in Items
  BY DEF Items

\* The server's reply is a whole one.
LEMMA ServedIsAnswered ==
    ASSUME NEW i \in Chunks
    PROVE  Answered(i, << >> \o (<<LengthOf(i)>> \o Bytes(i)))
  <1>. USE ProtocolAssumption
  <1>. DEFINE h == <<LengthOf(i)>>
              b == Bytes(i)
              r == h \o b
  <1>1. h \in Seq(Items) /\ Len(h) = 1 /\ h[1] = LengthOf(i)
    BY ItemsOf
  <1>2. b \in Seq(Items) /\ Len(b) = Parts /\ \A j \in 1 .. Parts : b[j] = <<i, j>>
    BY ItemsOf DEF Bytes
  <1>. HIDE DEF h, b
  <1>3. r \in Seq(Items) /\ Len(r) = Parts + 1 /\ r[1] = LengthOf(i)
        /\ \A j \in 1 .. Parts : r[j + 1] = <<i, j>>
    <2>1. r \in Seq(Items) /\ Len(r) = 1 + Parts
      BY <1>1, <1>2, ConcatProperties
    <2>0. \A j \in 1 .. 1 + Parts : r[j] = IF j <= 1 THEN h[j] ELSE b[j - 1]
      BY <1>1, <1>2, ConcatProperties
    <2>2. r[1] = LengthOf(i)
      BY <1>1, <2>0
    <2>3. \A j \in 1 .. Parts : r[j + 1] = b[j]
      <3>. SUFFICES ASSUME NEW j \in 1 .. Parts PROVE r[j + 1] = b[j]
        OBVIOUS
      <3>1. j + 1 \in 1 .. 1 + Parts /\ ~(j + 1 <= 1) /\ (j + 1) - 1 = j
        OBVIOUS
      <3>. HIDE DEF r
      <3>. QED BY <2>0, <3>1
    <2>. QED BY <1>2, <2>1, <2>2, <2>3
  <1>. HIDE DEF r
  <1>4. << >> \o r = r
    BY <1>3
  <1>. QED BY <1>3, <1>4 DEF Answered, r, h, b

\* The first read of a reply takes the line with the length.
LEMMA LengthIsRead ==
    ASSUME NEW i \in Chunks, NEW r, Answered(i, r)
    PROVE  Head(r) = LengthOf(i) /\ Rest(i, 0, Tail(r)) /\ Tail(r) \in Seq(Items)
  <1>. USE ProtocolAssumption
  <1>1. r \in Seq(Items) /\ Len(r) = Parts + 1 /\ r[1] = LengthOf(i)
        /\ \A j \in 1 .. Parts : r[j + 1] = <<i, j>>
    BY DEF Answered
  <1>2. r # << >>
    BY <1>1
  <1>3. Tail(r) \in Seq(Items) /\ Len(Tail(r)) = Len(r) - 1
        /\ \A j \in 1 .. Len(Tail(r)) : Tail(r)[j] = r[j + 1]
    BY <1>1, <1>2, HeadTailProperties
  <1>4. Len(Tail(r)) = Parts
    BY <1>1, <1>3
  <1>5. \A j \in 1 .. Parts : Tail(r)[j] = <<i, j>>
    BY <1>1, <1>3, <1>4
  <1>6. Head(r) = LengthOf(i)
    BY <1>1, <1>2
  <1>7. Parts - 0 = Parts /\ \A j \in 1 .. Parts : 0 + j = j
    OBVIOUS
  <1>. QED BY <1>3, <1>4, <1>5, <1>6, <1>7 DEF Rest

\* Each further read takes one part.
LEMMA PartIsRead ==
    ASSUME NEW i \in Chunks, NEW k \in Nat, NEW g, NEW r, k < Parts,
           Begun(i, k, g), Rest(i, k, r)
    PROVE  /\ Begun(i, k + 1, Append(g, Head(r))) /\ Rest(i, k + 1, Tail(r))
           /\ Tail(r) \in Seq(Items)
  <1>. USE ProtocolAssumption
  <1>1. g \in Seq(Items) /\ Len(g) = k /\ \A j \in 1 .. k : g[j] = <<i, j>>
    BY DEF Begun
  <1>2. r \in Seq(Items) /\ Len(r) = Parts - k
        /\ \A j \in 1 .. Parts - k : r[j] = <<i, k + j>>
    BY DEF Rest
  <1>3. r # << >> /\ 1 \in 1 .. Parts - k
    BY <1>2
  <1>4. Head(r) = <<i, k + 1>> /\ Head(r) \in Items
    BY <1>2, <1>3
  <1>5. Tail(r) \in Seq(Items) /\ Len(Tail(r)) = Len(r) - 1
        /\ \A j \in 1 .. Len(Tail(r)) : Tail(r)[j] = r[j + 1]
    BY <1>2, <1>3, HeadTailProperties
  <1>6. Len(Tail(r)) = Parts - (k + 1)
    BY <1>2, <1>5
  <1>7. ASSUME NEW j \in 1 .. Parts - (k + 1) PROVE Tail(r)[j] = <<i, (k + 1) + j>>
    <2>1. j + 1 \in 1 .. Parts - k /\ k + (j + 1) = (k + 1) + j
      OBVIOUS
    <2>. QED BY <1>2, <1>5, <1>6, <2>1
  <1>8. Append(g, Head(r)) \in Seq(Items) /\ Len(Append(g, Head(r))) = k + 1
    BY <1>1, <1>4
  <1>9. ASSUME NEW j \in 1 .. k + 1 PROVE Append(g, Head(r))[j] = <<i, j>>
    <2>1. CASE j = k + 1
      BY <1>1, <1>4, <2>1
    <2>2. CASE j \in 1 .. k
      BY <1>1, <1>4, <2>2
    <2>3. j = k + 1 \/ j \in 1 .. k
      OBVIOUS
    <2>. QED BY <2>1, <2>2, <2>3, Zenon
  <1>10. Begun(i, k + 1, Append(g, Head(r)))
    BY <1>8, <1>9 DEF Begun
  <1>11. Rest(i, k + 1, Tail(r))
    BY <1>5, <1>6, <1>7 DEF Rest
  <1>. QED BY <1>5, <1>10, <1>11

\* After the last part nothing is left, and the chunk is there.
LEMMA AllIsRead ==
    ASSUME NEW i \in Chunks, NEW g, NEW r
    PROVE  /\ Begun(i, Parts, g) => g = Bytes(i)
           /\ Rest(i, Parts, r) => r = << >>
  <1>. USE ProtocolAssumption
  <1>1. ASSUME Begun(i, Parts, g) PROVE g = Bytes(i)
    <2>1. g \in Seq(Items) /\ Len(g) = Parts /\ \A j \in 1 .. Parts : g[j] = <<i, j>>
      BY <1>1 DEF Begun
    <2>2. g = [j \in 1 .. Parts |-> g[j]]
      BY <2>1
    <2>. QED BY <2>1, <2>2 DEF Bytes
  <1>2. ASSUME Rest(i, Parts, r) PROVE r = << >>
    <2>1. r \in Seq(Items) /\ Len(r) = 0
      BY <1>2 DEF Rest
    <2>. QED BY <2>1
  <1>. QED BY <1>1, <1>2

----------------------------------------------------------------------------
(* The invariant.                                                          *)

ProtocolTypes ==
    /\ phase \in [Clients -> Phases]
    /\ \A c \in Clients : phase[c] # "none" <=> stage[c] = "using"
    /\ want \in [Clients -> Chunks]
    /\ got \in [Clients -> Seq(Items)]
    /\ \A c \in Clients : Len(got[c]) <= Parts
    /\ requests \in [Streams -> Seq(Chunks)]
    /\ replies \in [Streams -> Seq(Items)]
    /\ broken \subseteq open
    /\ shared \subseteq Peers

Unused(s) == \A c \in Clients : holds[c] = s => stage[c] # "using"
Quiet(s) == requests[s] = << >> /\ replies[s] = << >>

\* Nothing is on the wire of a stream no fetch uses.
QuietWhenUnused == \A s \in Streams : Unused(s) => Quiet(s)

\* What is on the wire of the stream a fetch uses, and what it has read.
Matches(c) ==
    LET s == holds[c]
        i == want[c]
    IN  /\ phase[c] \in {"none", "write", "length"} => got[c] = << >>
        /\ phase[c] = "write" => Quiet(s)
        /\ phase[c] = "length" =>
             \/ requests[s] = <<i>> /\ replies[s] = << >>
             \/ /\ requests[s] = << >>
                /\ Answered(i, replies[s]) \/ replies[s] = <<ErrorLine(i)>>
        /\ phase[c] = "body" =>
             /\ requests[s] = << >>
             /\ Len(got[c]) < Parts
             /\ Begun(i, Len(got[c]), got[c])
             /\ Rest(i, Len(got[c]), replies[s])
        /\ phase[c] = "done" => Quiet(s) /\ Begun(i, Parts, got[c])

ProtocolInv ==
    /\ PoolInv /\ ProtocolTypes /\ QuietWhenUnused
    /\ \A c \in Clients : Matches(c)

LEMMA ProtocolStarts == Init => ProtocolInv
  <1>. SUFFICES ASSUME Init PROVE ProtocolInv
    OBVIOUS
  <1>. USE ProtocolAssumption
  <1>1. PoolInv
    BY PoolStarts DEF Init
  <1>2. \A c \in Clients : stage[c] = "outside" /\ phase[c] = "none" /\ got[c] = << >>
    BY DEF Init, PoolInit
  <1>3. \A c \in Clients : Len(got[c]) <= Parts
    BY <1>2
  <1>4. ProtocolTypes
    BY <1>2, <1>3 DEF Init, PoolInit, ProtocolTypes, Phases
  <1>5. QuietWhenUnused
    BY DEF Init, QuietWhenUnused, Quiet
  <1>6. \A c \in Clients : Matches(c)
    BY <1>2 DEF Matches
  <1>. QED BY <1>1, <1>4, <1>5, <1>6 DEF ProtocolInv

----------------------------------------------------------------------------
(* Steps of the pool.                                                      *)

Stays(c) ==
    /\ stage'[c] = stage[c] /\ holds'[c] = holds[c]
    /\ phase'[c] = phase[c] /\ want'[c] = want[c] /\ got'[c] = got[c]

\* c has no stream in use after the step; the one it had is quiet.
Without(c) ==
    /\ stage'[c] # "using" /\ phase'[c] = "none" /\ got'[c] = << >>
    /\ stage[c] = "using" => requests'[holds[c]] = << >> /\ replies'[holds[c]] = << >>

\* c starts to use a stream nobody used.
Starts(c) ==
    /\ stage[c] # "using" /\ stage'[c] = "using"
    /\ phase'[c] = "write" /\ got'[c] = << >>
    /\ holds'[c] \in Streams /\ Unused(holds'[c])

\* Closing a stream keeps it quiet.
LEMMA QuietStays ==
    ASSUME ProtocolTypes, WiresFollow, NEW s \in Streams
    PROVE  /\ Quiet(s) => Quiet(s)'
           /\ s \notin open' => Quiet(s)'
           /\ s \in open' => requests'[s] = requests[s] /\ replies'[s] = replies[s]
  BY DEF WiresFollow, Quiet, ProtocolTypes

LEMMA PoolKeepsProtocol ==
    ASSUME ProtocolInv, PoolInv', WiresFollow,
           phase' \in [Clients -> Phases], want' \in [Clients -> Chunks],
           got' \in [Clients -> Seq(Items)],
           \A c \in Clients : Stays(c) \/ Without(c) \/ Starts(c)
    PROVE  ProtocolInv'
  <1>. USE ProtocolAssumption
  <1>0. PoolInv /\ ProtocolTypes /\ QuietWhenUnused /\ \A c \in Clients : Matches(c)
    BY DEF ProtocolInv
  <1>1. ProtocolTypes'
    <2>1. ASSUME NEW c \in Clients
          PROVE  (phase'[c] # "none" <=> stage'[c] = "using") /\ Len(got'[c]) <= Parts
      <3>1. CASE Stays(c)
        BY <1>0, <3>1 DEF Stays, ProtocolTypes
      <3>2. CASE Without(c) \/ Starts(c)
        <4>1. got'[c] = << >> /\ (phase'[c] # "none" <=> stage'[c] = "using")
          BY <3>2 DEF Without, Starts
        <4>2. Len(<< >>) = 0
          OBVIOUS
        <4>. QED BY <4>1, <4>2
      <3>. QED BY <3>1, <3>2
    <2>2. requests' \in [Streams -> Seq(Chunks)] /\ replies' \in [Streams -> Seq(Items)]
      <3>1. << >> \in Seq(Chunks) /\ << >> \in Seq(Items)
        OBVIOUS
      <3>. QED BY <1>0, <3>1 DEF WiresFollow, ProtocolTypes
    <2>3. broken' \subseteq open' /\ shared' \subseteq Peers
      BY <1>0 DEF WiresFollow, ProtocolTypes
    <2>. QED BY <2>1, <2>2, <2>3 DEF ProtocolTypes
  <1>2. QuietWhenUnused'
    <2>. SUFFICES ASSUME NEW s \in Streams, Unused(s)' PROVE Quiet(s)'
      BY DEF QuietWhenUnused
    <2>1. CASE Unused(s)
      BY <1>0, <2>1, QuietStays DEF QuietWhenUnused
    <2>2. CASE ~Unused(s)
      <3>1. PICK c \in Clients : holds[c] = s /\ stage[c] = "using"
        BY <2>2 DEF Unused
      <3>2. ~Stays(c) /\ ~Starts(c)
        BY <3>1 DEF Unused, Stays, Starts
      <3>. QED BY <3>1, <3>2 DEF Without, Quiet
    <2>. QED BY <2>1, <2>2
  <1>3. ASSUME NEW c \in Clients PROVE Matches(c)'
    <2>1. CASE Stays(c)
      <3>1. CASE stage[c] = "using"
        <4>1. holds[c] \in Streams
          BY <1>0, <3>1 DEF PoolInv, PoolTypeOK, HandsMatchStages
        <4>2. holds[c] \in open'
          BY <2>1, <4>1 DEF PoolInv, OpenIsOwned, Held, Stays
        <4>3. /\ requests'[holds[c]] = requests[holds[c]]
              /\ replies'[holds[c]] = replies[holds[c]]
          BY <1>0, <4>1, <4>2, QuietStays
        <4>. QED BY <1>0, <2>1, <4>3 DEF Stays, Matches, Quiet
      <3>2. CASE stage[c] # "using"
        <4>1. phase[c] = "none"
          BY <1>0, <3>2 DEF ProtocolTypes
        <4>. QED BY <1>0, <2>1, <4>1 DEF Stays, Matches
      <3>. QED BY <3>1, <3>2
    <2>2. CASE Without(c)
      BY <2>2 DEF Without, Matches
    <2>3. CASE Starts(c)
      <3>1. Quiet(holds'[c])
        BY <1>0, <2>3 DEF Starts, QuietWhenUnused
      <3>2. Quiet(holds[c])'
        BY <1>0, <2>3, <3>1 DEF Starts, Quiet, WiresFollow, ProtocolTypes
      <3>. QED BY <2>3, <3>2 DEF Starts, Matches
    <2>. QED BY <2>1, <2>2, <2>3
  <1>. QED BY <1>1, <1>2, <1>3 DEF ProtocolInv

LEMMA UnusedOutside ==
    ASSUME PoolInv, NEW c \in Clients, stage[c] = "dialed"
    PROVE  holds[c] \in Streams /\ Unused(holds[c])
  BY DEF PoolInv, PoolTypeOK, HandsMatchStages, Apart, Unused

LEMMA AcquiringInv ==
    ASSUME ProtocolInv, NEW c \in Clients, NEW i \in Chunks, Acquiring(c, i)
    PROVE  ProtocolInv'
  <1>0. PoolInv /\ PoolTypeOK /\ ProtocolTypes /\ \A d \in Clients : Matches(d)
    BY DEF ProtocolInv, PoolInv
  <1>1. Acquire(c) /\ WiresFollow /\ got' = got
    BY DEF Acquiring
  <1>2. /\ phase' = [phase EXCEPT ![c] = IF stage'[c] = "using" THEN "write" ELSE "none"]
        /\ want' = [want EXCEPT ![c] = IF stage[c] = "outside" THEN i ELSE @]
    BY DEF Acquiring
  <1>3. PoolInv'
    BY <1>0, <1>1, PoolStepInv DEF PoolStep
  <1>4. stage[c] # "using" /\ \A d \in Clients : d # c => stage'[d] = stage[d] /\ holds'[d] = holds[d]
    BY <1>0, <1>1 DEF Acquire, AcquireIdle, AcquireNone, DialSucceeds, DialFails, CountDialed, PoolTypeOK
  <1>5. stage'[c] = "using" => holds'[c] \in Streams /\ Unused(holds'[c])
    <2>1. ASSUME NEW p \in Peers, AcquireIdle(c, p)
          PROVE  holds'[c] \in Streams /\ Unused(holds'[c])
      <3>1. holds'[c] = Last(idle[p])
        BY <1>0, <2>1 DEF AcquireIdle, PoolTypeOK
      <3>2. idle[p] \in Seq(Streams) /\ Len(idle[p]) > 0 /\ IsInjective(idle[p])
        BY <1>0, <2>1 DEF PoolInv, PoolTypeOK, Apart, AcquireIdle, HasUsable
      <3>3. Last(idle[p]) \in IdleStreams(p) /\ Last(idle[p]) \in Streams
        BY <3>2, FrontOfStack DEF IdleStreams
      <3>. QED BY <1>0, <3>1, <3>3 DEF PoolInv, Apart, Unused
    <2>2. CASE CountDialed(c)
      <3>1. stage[c] = "dialed" /\ holds' = holds
        BY <2>2 DEF CountDialed
      <3>. QED BY <1>0, <3>1, UnusedOutside
    <2>3. CASE (\E p \in Peers : AcquireNone(c, p)) \/ (\E s \in Streams : DialSucceeds(c, s))
               \/ DialFails(c)
      BY <1>0, <2>3 DEF AcquireNone, DialSucceeds, DialFails, PoolTypeOK
    <2>. QED BY <1>1, <2>1, <2>2, <2>3 DEF Acquire
  <1>6. phase[c] = "none" /\ got[c] = << >>
    BY <1>0, <1>4 DEF ProtocolTypes, Matches
  <1>7. \A d \in Clients : Stays(d) \/ Without(d) \/ Starts(d)
    <2>. SUFFICES ASSUME NEW d \in Clients PROVE Stays(d) \/ Without(d) \/ Starts(d)
      OBVIOUS
    <2>1. CASE d # c
      BY <1>0, <1>1, <1>2, <1>4, <2>1 DEF Stays, ProtocolTypes
    <2>2. CASE d = c /\ stage'[c] = "using"
      BY <1>0, <1>1, <1>2, <1>4, <1>5, <1>6, <2>2 DEF Starts, ProtocolTypes
    <2>3. CASE d = c /\ stage'[c] # "using"
      BY <1>0, <1>1, <1>2, <1>4, <1>6, <2>3 DEF Without, ProtocolTypes
    <2>. QED BY <2>1, <2>2, <2>3
  <1>8. phase' \in [Clients -> Phases] /\ want' \in [Clients -> Chunks] /\ got' \in [Clients -> Seq(Items)]
    BY <1>0, <1>1, <1>2 DEF ProtocolTypes, Phases
  <1>. QED BY <1>1, <1>3, <1>7, <1>8, PoolKeepsProtocol

LEMMA ReturnInv ==
    ASSUME ProtocolInv, NEW c \in Clients, Return(c)
    PROVE  ProtocolInv'
  <1>0. PoolInv /\ PoolTypeOK /\ ProtocolTypes /\ \A d \in Clients : Matches(d)
    BY DEF ProtocolInv, PoolInv
  <1>1. /\ phase' = [phase EXCEPT ![c] = "none"]
        /\ got' = [got EXCEPT ![c] = << >>]
        /\ want' = want
        /\ WiresFollow
    BY DEF Return
  <1>2. StopUsing(c)
    BY DEF Return, ReleaseClose, ReleaseIdle
  <1>3. PoolInv'
    <2>1. (\E e \in BOOLEAN : ReleaseClose(c, e)) \/ ReleaseIdle(c)
      BY DEF Return
    <2>. QED BY <1>0, <2>1, PoolStepInv DEF PoolStep
  <1>4. /\ stage' = [stage EXCEPT ![c] = "outside"]
        /\ holds' = [holds EXCEPT ![c] = NoStream]
    BY <1>2 DEF StopUsing
  <1>5. holds[c] \in Streams
    BY <1>0, <1>2, Released
  <1>6. requests'[holds[c]] = << >> /\ replies'[holds[c]] = << >>
    <2>1. CASE \E e \in BOOLEAN : ReleaseClose(c, e)
      <3>1. holds[c] \notin open'
        BY <2>1 DEF ReleaseClose
      <3>. QED BY <1>1, <1>5, <3>1 DEF WiresFollow
    <2>2. CASE phase[c] = "done" /\ ReleaseIdle(c)
      <3>1. requests[holds[c]] = << >> /\ replies[holds[c]] = << >>
        BY <1>0, <2>2 DEF Matches, Quiet
      <3>. QED BY <1>1, <1>5, <3>1 DEF WiresFollow
    <2>. QED BY <2>1, <2>2 DEF Return
  <1>7. \A d \in Clients : Stays(d) \/ Without(d)
    <2>. SUFFICES ASSUME NEW d \in Clients PROVE Stays(d) \/ Without(d)
      OBVIOUS
    <2>1. CASE d # c
      BY <1>0, <1>1, <1>4, <2>1 DEF Stays, ProtocolTypes, PoolTypeOK
    <2>2. CASE d = c
      BY <1>0, <1>1, <1>4, <1>6, <2>2 DEF Without, ProtocolTypes, PoolTypeOK
    <2>. QED BY <2>1, <2>2
  <1>8. phase' \in [Clients -> Phases] /\ want' \in [Clients -> Chunks] /\ got' \in [Clients -> Seq(Items)]
    <2>1. << >> \in Seq(Items)
      OBVIOUS
    <2>. QED BY <1>0, <1>1, <2>1 DEF ProtocolTypes, Phases
  <1>. QED BY <1>1, <1>3, <1>7, <1>8, PoolKeepsProtocol

\* The goroutine of the pool, Close and the passing of time.
LEMMA PoolAloneInv ==
    ASSUME ProtocolInv, UNCHANGED fetchVars, WiresFollow,
           Reaper \/ Close \/ \E p \in Peers : Age(p)
    PROVE  ProtocolInv'
  <1>0. PoolInv /\ ProtocolTypes
    BY DEF ProtocolInv
  <1>1. PoolInv'
    BY <1>0, PoolStepInv DEF PoolStep
  <1>2. UNCHANGED <<stage, holds, phase, want, got>>
    BY DEF Reaper, ReaperReturn, Reap, Close, Age, clientVars, fetchVars
  <1>3. \A c \in Clients : Stays(c)
    BY <1>2 DEF Stays
  <1>4. phase' \in [Clients -> Phases] /\ want' \in [Clients -> Chunks] /\ got' \in [Clients -> Seq(Items)]
    BY <1>0, <1>2 DEF ProtocolTypes
  <1>. QED BY <1>1, <1>3, <1>4, PoolKeepsProtocol

----------------------------------------------------------------------------
(* Steps on one stream.                                                    *)

LEMMA UserHasStream ==
    ASSUME ProtocolInv, NEW c \in Clients, phase[c] # "none"
    PROVE  /\ stage[c] = "using" /\ holds[c] \in Streams
           /\ \A d \in Clients : d # c => holds[d] # holds[c]
  <1>1. stage[c] = "using" /\ holds[c] # NoStream
    BY DEF ProtocolInv, ProtocolTypes, PoolInv, HandsMatchStages
  <1>. QED BY <1>1 DEF ProtocolInv, PoolInv, PoolTypeOK, Apart

\* A step that touches nothing but the stream of c and what c has read.
LEMMA OneStreamChanges ==
    ASSUME ProtocolInv, NEW c \in Clients, phase[c] # "none",
           UNCHANGED <<connVars, want, broken, shared>>,
           \A d \in Clients : d # c => phase'[d] = phase[d] /\ got'[d] = got[d],
           \A s \in Streams : s # holds[c] =>
              requests'[s] = requests[s] /\ replies'[s] = replies[s],
           phase' \in [Clients -> Phases], phase'[c] # "none",
           got' \in [Clients -> Seq(Items)], Len(got'[c]) <= Parts,
           requests' \in [Streams -> Seq(Chunks)], replies' \in [Streams -> Seq(Items)],
           Matches(c)'
    PROVE  ProtocolInv'
  <1>0. PoolInv /\ PoolTypeOK /\ ProtocolTypes /\ QuietWhenUnused /\ \A d \in Clients : Matches(d)
    BY DEF ProtocolInv, PoolInv
  <1>1. UNCHANGED <<idle, expired, active, open, stage, target, holds, want>>
    BY DEF connVars, poolVars, clientVars
  <1>2. /\ stage[c] = "using" /\ holds[c] \in Streams
        /\ \A d \in Clients : d # c => holds[d] # holds[c]
    BY UserHasStream
  <1>3. PoolInv'
    BY <1>0, PoolStepInv
  <1>4. ProtocolTypes'
    <2>1. \A d \in Clients : (phase'[d] # "none" <=> stage'[d] = "using") /\ Len(got'[d]) <= Parts
      BY <1>0, <1>1, <1>2 DEF ProtocolTypes
    <2>. QED BY <1>0, <1>1, <2>1 DEF ProtocolTypes
  <1>5. QuietWhenUnused'
    <2>. SUFFICES ASSUME NEW s \in Streams, Unused(s)' PROVE Quiet(s)'
      BY DEF QuietWhenUnused
    <2>1. Unused(s) /\ s # holds[c]
      BY <1>1, <1>2 DEF Unused
    <2>. QED BY <1>0, <2>1 DEF QuietWhenUnused, Quiet
  <1>6. ASSUME NEW d \in Clients PROVE Matches(d)'
    <2>1. CASE d = c
      BY <2>1
    <2>2. CASE d # c /\ phase[d] = "none"
      BY <1>0, <1>1, <2>2 DEF Matches
    <2>3. CASE d # c /\ phase[d] # "none"
      <3>1. holds[d] \in Streams /\ holds[d] # holds[c]
        BY <1>2, <2>3, UserHasStream
      <3>2. requests'[holds[d]] = requests[holds[d]] /\ replies'[holds[d]] = replies[holds[d]]
        BY <3>1
      <3>. QED BY <1>0, <1>1, <2>3, <3>2 DEF Matches, Quiet
    <2>. QED BY <2>1, <2>2, <2>3
  <1>. QED BY <1>3, <1>4, <1>5, <1>6 DEF ProtocolInv

LEMMA WriteInv ==
    ASSUME ProtocolInv, NEW c \in Clients, Write(c)
    PROVE  ProtocolInv'
  <1>. DEFINE s == holds[c]
              i == want[c]
  <1>0. ProtocolTypes /\ Matches(c)
    BY DEF ProtocolInv
  <1>1. /\ phase[c] = "write" /\ phase' = [phase EXCEPT ![c] = "length"]
        /\ requests' = [requests EXCEPT ![s] = Append(@, i)]
        /\ UNCHANGED <<connVars, want, got, replies, broken, shared>>
    BY DEF Write, FetchOnly
  <1>2. s \in Streams /\ i \in Chunks /\ holds' = holds
    BY <1>0, <1>1, UserHasStream DEF ProtocolTypes, connVars, clientVars
  <1>3. requests[s] = << >> /\ replies[s] = << >> /\ got[c] = << >>
    BY <1>0, <1>1 DEF Matches, Quiet
  <1>4. Append(<< >>, i) = <<i>> /\ <<i>> \in Seq(Chunks)
    BY <1>2
  <1>5. requests'[s] = <<i>> /\ replies'[s] = << >> /\ got'[c] = << >> /\ phase'[c] = "length"
    BY <1>0, <1>1, <1>2, <1>3, <1>4 DEF ProtocolTypes
  <1>6. Matches(c)'
    BY <1>1, <1>2, <1>5 DEF Matches
  <1>7. requests' \in [Streams -> Seq(Chunks)]
    BY <1>0, <1>1, <1>2, <1>3, <1>4 DEF ProtocolTypes
  <1>. QED BY <1>0, <1>1, <1>5, <1>6, <1>7, OneStreamChanges DEF ProtocolTypes, Phases

LEMMA ReadLengthInv ==
    ASSUME ProtocolInv, NEW c \in Clients, ReadLength(c)
    PROVE  ProtocolInv'
  <1>. USE ProtocolAssumption
  <1>. DEFINE s == holds[c]
              i == want[c]
              r == replies[s]
              next == IF Head(r)[2] = "length" THEN "body" ELSE "failed"
  <1>0. ProtocolTypes /\ Matches(c)
    BY DEF ProtocolInv
  <1>1. /\ phase[c] = "length" /\ phase' = [phase EXCEPT ![c] = next]
        /\ r # << >>
        /\ replies' = [replies EXCEPT ![s] = Tail(@)]
        /\ UNCHANGED <<connVars, want, got, requests, broken, shared>>
    BY DEF ReadLength, Consume, Arrived, Incoming, FetchOnly
  <1>2. s \in Streams /\ i \in Chunks /\ holds' = holds /\ r \in Seq(Items)
    BY <1>0, <1>1, UserHasStream DEF ProtocolTypes, connVars, clientVars
  <1>3. /\ got[c] = << >> /\ requests[s] = << >>
        /\ Answered(i, r) \/ r = <<ErrorLine(i)>>
    BY <1>0, <1>1 DEF Matches
  <1>4. phase'[c] = next /\ replies'[s] = Tail(r)
    BY <1>0, <1>1, <1>2 DEF ProtocolTypes
  <1>5. Tail(r) \in Seq(Items)
    BY <1>1, <1>2, HeadTailProperties
  <1>6. Matches(c)'
    <2>1. CASE Answered(i, r)
      <3>1. Rest(i, 0, Tail(r))
        BY <1>2, <2>1, LengthIsRead
      <3>2. Head(r)[2] = "length"
        BY <1>2, <2>1, LengthIsRead DEF LengthOf
      <3>3. Begun(i, 0, << >>) /\ Len(<< >>) = 0 /\ 0 < Parts
        BY DEF Begun
      <3>4. phase'[c] = "body"
        BY <1>4, <3>2
      <3>. HIDE DEF r
      <3>. QED BY <1>1, <1>2, <1>3, <1>4, <3>1, <3>3, <3>4 DEF Matches
    <2>2. CASE r = <<ErrorLine(i)>>
      <3>1. Head(r)[2] = "error"
        BY <2>2 DEF ErrorLine
      <3>2. phase'[c] = "failed"
        BY <1>4, <3>1
      <3>. QED BY <3>2 DEF Matches
    <2>. QED BY <1>3, <2>1, <2>2
  <1>7. replies' \in [Streams -> Seq(Items)]
    BY <1>0, <1>1, <1>2, <1>5 DEF ProtocolTypes
  <1>8. phase' \in [Clients -> Phases] /\ phase'[c] # "none"
    BY <1>0, <1>1, <1>4 DEF ProtocolTypes, Phases
  <1>. HIDE DEF r, next
  <1>. QED BY <1>0, <1>1, <1>6, <1>7, <1>8, OneStreamChanges DEF ProtocolTypes

LEMMA ReadBodyInv ==
    ASSUME ProtocolInv, NEW c \in Clients, ReadBody(c)
    PROVE  ProtocolInv'
  <1>. USE ProtocolAssumption
  <1>. DEFINE s == holds[c]
              i == want[c]
              r == replies[s]
              g == got[c]
              k == Len(g)
              next == IF k + 1 = Parts THEN "done" ELSE "body"
  <1>0. ProtocolTypes /\ Matches(c)
    BY DEF ProtocolInv
  <1>1. /\ phase[c] = "body" /\ phase' = [phase EXCEPT ![c] = next]
        /\ got' = [got EXCEPT ![c] = Append(@, Head(r))]
        /\ replies' = [replies EXCEPT ![s] = Tail(@)]
        /\ UNCHANGED <<connVars, want, requests, broken, shared>>
    BY DEF ReadBody, Consume, Incoming, FetchOnly
  <1>2. s \in Streams /\ i \in Chunks /\ holds' = holds /\ g \in Seq(Items) /\ k \in Nat
    BY <1>0, <1>1, UserHasStream DEF ProtocolTypes, connVars, clientVars
  <1>3. requests[s] = << >> /\ k < Parts /\ Begun(i, k, g) /\ Rest(i, k, r)
    BY <1>0, <1>1 DEF Matches
  <1>4. phase'[c] = next /\ replies'[s] = Tail(r) /\ got'[c] = Append(g, Head(r))
    BY <1>0, <1>1, <1>2 DEF ProtocolTypes
  <1>. HIDE DEF k, g, r
  <1>5. /\ Begun(i, k + 1, Append(g, Head(r))) /\ Rest(i, k + 1, Tail(r))
        /\ Tail(r) \in Seq(Items)
    BY <1>2, <1>3, PartIsRead
  <1>6. /\ Append(g, Head(r)) \in Seq(Items) /\ Len(Append(g, Head(r))) = k + 1
    BY <1>5 DEF Begun
  <1>7. Matches(c)'
    <2>1. CASE k + 1 = Parts
      <3>1. Tail(r) = << >>
        BY <1>2, <1>5, <2>1, AllIsRead
      <3>2. phase'[c] = "done" /\ Begun(i, Parts, got'[c])
        BY <1>4, <1>5, <2>1
      <3>. QED BY <1>1, <1>2, <1>3, <1>4, <3>1, <3>2 DEF Matches, Quiet
    <2>2. CASE k + 1 # Parts
      <3>1. k + 1 < Parts /\ phase'[c] = "body"
        BY <1>2, <1>3, <1>4, <2>2
      <3>2. Len(got'[c]) = k + 1
        BY <1>4, <1>6
      <3>. QED BY <1>1, <1>2, <1>3, <1>4, <1>5, <3>1, <3>2 DEF Matches
    <2>. QED BY <2>1, <2>2
  <1>8. replies' \in [Streams -> Seq(Items)] /\ got' \in [Clients -> Seq(Items)]
    BY <1>0, <1>1, <1>2, <1>4, <1>5, <1>6 DEF ProtocolTypes, r, g
  <1>9. phase' \in [Clients -> Phases] /\ phase'[c] # "none"
    BY <1>0, <1>1, <1>4 DEF ProtocolTypes, Phases
  <1>10. Len(got'[c]) <= Parts
    BY <1>2, <1>3, <1>4, <1>6
  <1>. HIDE DEF next
  <1>. QED BY <1>0, <1>1, <1>7, <1>8, <1>9, <1>10, OneStreamChanges DEF ProtocolTypes

LEMMA StreamFailsInv ==
    ASSUME ProtocolInv, NEW c \in Clients, StreamFails(c)
    PROVE  ProtocolInv'
  <1>0. ProtocolTypes
    BY DEF ProtocolInv
  <1>1. /\ phase[c] \in {"write", "length", "body"}
        /\ phase' = [phase EXCEPT ![c] = "failed"]
        /\ UNCHANGED <<connVars, want, got, requests, replies, broken, shared>>
    BY DEF StreamFails, FetchOnly
  <1>2. phase' \in [Clients -> Phases] /\ phase'[c] = "failed" /\ phase[c] # "none"
    BY <1>0, <1>1 DEF ProtocolTypes, Phases
  <1>3. Matches(c)'
    BY <1>2 DEF Matches
  <1>. QED BY <1>0, <1>1, <1>2, <1>3, OneStreamChanges DEF ProtocolTypes

\* The server writes on a stream some fetch waits on, or has given up.
LEMMA ServeInv ==
    ASSUME ProtocolInv, NEW s \in Streams, Serve(s)
    PROVE  ProtocolInv'
  <1>. DEFINE i == Head(requests[s])
              reply == IF PeerOf(s) \in shared THEN <<LengthOf(i)>> \o Bytes(i) ELSE <<ErrorLine(i)>>
  <1>0. ProtocolTypes /\ QuietWhenUnused /\ \A d \in Clients : Matches(d)
    BY DEF ProtocolInv
  <1>1. /\ requests[s] # << >>
        /\ requests' = [requests EXCEPT ![s] = Tail(@)]
        /\ replies' = [replies EXCEPT ![s] = @ \o reply]
        /\ UNCHANGED <<connVars, fetchVars, broken, shared>>
    BY DEF Serve
  <1>2. UNCHANGED <<holds, phase, want, got>>
    BY <1>1 DEF connVars, clientVars, fetchVars
  <1>3. PICK c \in Clients : holds[c] = s /\ stage[c] = "using"
    BY <1>0, <1>1 DEF QuietWhenUnused, Unused, Quiet
  <1>4. requests[s] \in Seq(Chunks) /\ i \in Chunks /\ Tail(requests[s]) \in Seq(Chunks)
    BY <1>0, <1>1 DEF ProtocolTypes
  <1>5. /\ replies[s] \in Seq(Items) /\ reply \in Seq(Items)
        /\ Answered(i, << >> \o reply) \/ << >> \o reply = <<ErrorLine(i)>>
    <2>1. replies[s] \in Seq(Items)
      BY <1>0 DEF ProtocolTypes
    <2>2. CASE PeerOf(s) \in shared
      <3>1. Answered(i, << >> \o reply)
        BY <1>4, <2>2, ServedIsAnswered
      <3>2. <<LengthOf(i)>> \in Seq(Items) /\ Bytes(i) \in Seq(Items)
        BY <1>4, ItemsOf, ProtocolAssumption DEF Bytes
      <3>3. reply \in Seq(Items)
        BY <2>2, <3>2, ConcatProperties
      <3>. QED BY <2>1, <3>1, <3>3
    <2>3. CASE PeerOf(s) \notin shared
      <3>1. reply = <<ErrorLine(i)>> /\ <<ErrorLine(i)>> \in Seq(Items)
        BY <1>4, <2>3, ItemsOf
      <3>2. << >> \o <<ErrorLine(i)>> = <<ErrorLine(i)>>
        OBVIOUS
      <3>. QED BY <2>1, <3>1, <3>2
    <2>. QED BY <2>2, <2>3
  <1>. HIDE DEF reply
  <1>6. /\ requests'[s] = Tail(requests[s])
        /\ replies'[s] = replies[s] \o reply
        /\ replies[s] \o reply \in Seq(Items)
    BY <1>0, <1>1, <1>5, ConcatProperties DEF ProtocolTypes
  <1>7. requests' \in [Streams -> Seq(Chunks)] /\ replies' \in [Streams -> Seq(Items)]
    BY <1>0, <1>1, <1>4, <1>6 DEF ProtocolTypes
  <1>8. phase[c] \in {"length", "failed"}
    <2>1. phase[c] \in Phases /\ phase[c] # "none"
      BY <1>0, <1>3 DEF ProtocolTypes
    <2>2. phase[c] \notin {"write", "body", "done"}
      BY <1>0, <1>1, <1>3 DEF Matches, Quiet
    <2>. QED BY <2>1, <2>2 DEF Phases
  <1>9. Matches(c)'
    <2>1. CASE phase[c] = "failed"
      BY <1>2, <2>1 DEF Matches
    <2>2. CASE phase[c] = "length"
      <3>1. requests[s] = <<want[c]>> /\ replies[s] = << >> /\ got[c] = << >>
        BY <1>0, <1>1, <1>3, <2>2 DEF Matches
      <3>2. i = want[c] /\ Tail(requests[s]) = << >>
        BY <3>1
      <3>3. /\ requests'[s] = << >>
            /\ Answered(want[c], replies'[s]) \/ replies'[s] = <<ErrorLine(want[c])>>
        BY <1>5, <1>6, <3>1, <3>2
      <3>. QED BY <1>2, <1>3, <2>2, <3>1, <3>3 DEF Matches
    <2>. QED BY <1>8, <2>1, <2>2
  <1>. HIDE DEF i
  <1>10. /\ UNCHANGED <<connVars, want, broken, shared>>
         /\ \A d \in Clients : d # c => phase'[d] = phase[d] /\ got'[d] = got[d]
         /\ \A y \in Streams : y # holds[c] =>
              requests'[y] = requests[y] /\ replies'[y] = replies[y]
    BY <1>0, <1>1, <1>2, <1>3 DEF ProtocolTypes
  <1>11. /\ phase' \in [Clients -> Phases] /\ phase[c] # "none" /\ phase'[c] # "none"
         /\ got' \in [Clients -> Seq(Items)] /\ Len(got'[c]) <= Parts
    BY <1>0, <1>2, <1>8 DEF ProtocolTypes
  <1>. QED BY <1>7, <1>9, <1>10, <1>11, OneStreamChanges

\* Steps that change neither the pool nor what is on a wire.
LEMMA OutsideInv ==
    ASSUME ProtocolInv, UNCHANGED <<connVars, fetchVars, requests, replies>>,
           broken' \subseteq open, shared' \subseteq Peers
    PROVE  ProtocolInv'
  <1>0. PoolInv /\ ProtocolTypes /\ QuietWhenUnused /\ \A d \in Clients : Matches(d)
    BY DEF ProtocolInv
  <1>1. UNCHANGED <<open, stage, holds, phase, want, got, requests, replies>>
    BY DEF connVars, clientVars, fetchVars
  <1>2. PoolInv'
    BY <1>0, PoolStepInv
  <1>3. ProtocolTypes'
    BY <1>0, <1>1 DEF ProtocolTypes
  <1>4. QuietWhenUnused'
    BY <1>0, <1>1 DEF QuietWhenUnused, Unused, Quiet
  <1>5. \A d \in Clients : Matches(d)'
    BY <1>0, <1>1 DEF Matches, Quiet
  <1>. QED BY <1>2, <1>3, <1>4, <1>5 DEF ProtocolInv

----------------------------------------------------------------------------
(* The theorems.                                                           *)

LEMMA ProtocolSteps == ProtocolInv /\ [Next]_vars => ProtocolInv'
  <1>. SUFFICES ASSUME ProtocolInv, [Next]_vars PROVE ProtocolInv'
    OBVIOUS
  <1>0. ProtocolTypes
    BY DEF ProtocolInv
  <1>1. ASSUME NEW c \in Clients, Begin(c) PROVE ProtocolInv'
    BY <1>1, AcquiringInv DEF Begin
  <1>2. ASSUME NEW c \in Clients, Fetch(c) PROVE ProtocolInv'
    <2>1. want[c] \in Chunks
      BY <1>0 DEF ProtocolTypes
    <2>. QED BY <1>2, <2>1, AcquiringInv, WriteInv, ReadLengthInv, ReadBodyInv,
               StreamFailsInv, ReturnInv DEF Fetch
  <1>3. ASSUME NEW s \in Streams, Serve(s) PROVE ProtocolInv'
    BY <1>3, ServeInv
  <1>4. ASSUME NEW s \in Streams, Break(s) PROVE ProtocolInv'
    BY <1>0, <1>4, OutsideInv DEF Break, ProtocolTypes
  <1>5. ASSUME NEW p \in Peers, Share(p) PROVE ProtocolInv'
    BY <1>0, <1>5, OutsideInv DEF Share, ProtocolTypes, wireVars
  <1>6. ASSUME NEW p \in Peers, Pool(Age(p)) PROVE ProtocolInv'
    BY <1>6, PoolAloneInv DEF Pool
  <1>7. CASE Pool(Reaper)
    BY <1>7, PoolAloneInv DEF Pool
  <1>8. CASE Pool(Close)
    BY <1>8, PoolAloneInv DEF Pool
  <1>9. CASE UNCHANGED vars
    BY <1>0, <1>9, OutsideInv DEF vars, wireVars, ProtocolTypes
  <1>. QED BY <1>1, <1>2, <1>3, <1>4, <1>5, <1>6, <1>7, <1>8, <1>9 DEF Next

LEMMA ProtocolInvariant == Spec => []ProtocolInv
  BY ProtocolStarts, ProtocolSteps, PTL DEF Spec

\* Every variable stays in its type, the idle streams of a peer within their
\* limit and the expired ones at the bottom of their stack.
THEOREM ProtocolTypeCorrect == Spec => []TypeOK
  <1>1. ProtocolInv => TypeOK
    BY PoolInvImplies DEF ProtocolInv, ProtocolTypes, TypeOK
  <1>. QED BY ProtocolInvariant, <1>1, PTL

\* Two fetches never share a stream.
THEOREM StreamsAreExclusive == Spec => []ExclusiveStreams
  <1>1. ProtocolInv => ExclusiveStreams
    BY PoolInvImplies DEF ProtocolInv
  <1>. QED BY ProtocolInvariant, <1>1, PTL

\* The streams open are those a fetch holds or the pool keeps: none leaks, none
\* is handed out closed.
THEOREM NoStreamLeaks == Spec => []OpenMeansOwned
  <1>1. ProtocolInv => OpenMeansOwned
    BY PoolInvImplies DEF ProtocolInv
  <1>. QED BY ProtocolInvariant, <1>1, PTL

\* The pool counts the fetches that use a stream.
THEOREM CountIsExact == Spec => []ActiveExact
  <1>1. ProtocolInv => ActiveExact
    BY PoolInvImplies DEF ProtocolInv
  <1>. QED BY ProtocolInvariant, <1>1, PTL

\* A fetch returns the bytes of the chunk it asked for, and leaves a stream it
\* gives back with nothing on the wire.
THEOREM ReplyIsForRequest == Spec => []ReplyAnswersRequest
  <1>1. ASSUME ProtocolInv PROVE ReplyAnswersRequest
    <2>0. PoolInv /\ PoolTypeOK /\ ProtocolTypes /\ QuietWhenUnused /\ \A d \in Clients : Matches(d)
      BY <1>1 DEF ProtocolInv, PoolInv
    <2>1. ASSUME NEW c \in Clients, phase[c] = "done" PROVE got[c] = Bytes(want[c])
      <3>1. Begun(want[c], Parts, got[c]) /\ want[c] \in Chunks
        BY <2>0, <2>1 DEF Matches, ProtocolTypes
      <3>. QED BY <3>1, AllIsRead
    <2>2. ASSUME NEW p \in Peers, NEW s \in IdleStreams(p)
          PROVE  requests[s] = << >> /\ replies[s] = << >>
      <3>1. s \in Streams /\ Unused(s)
        BY <2>0, IdleAreStreams DEF PoolInv, Apart, Unused
      <3>. QED BY <2>0, <3>1 DEF QuietWhenUnused, Quiet
    <2>. QED BY <2>1, <2>2 DEF ReplyAnswersRequest, AllIdle
  <1>. QED BY ProtocolInvariant, <1>1, PTL

----------------------------------------------------------------------------
(* Refinement: to its callers, fetchChunk is ChunkFetch.                   *)

Calls == [c \in Clients |-> CallOf(c)]

\* The call of c as a step of ChunkFetch sees it, the others' left alone.
LEMMA OneCallChanges ==
    ASSUME NEW c \in Clients, \A d \in Clients : d # c => CallOf(d)' = CallOf(d)
    PROVE  /\ Calls[c] = CallOf(c)
           /\ Calls' = [Calls EXCEPT ![c] = CallOf(c)']
  BY DEF Calls

\* A step of a fetch is one of its caller's.
LEMMA FetchIsOnesOwn ==
    ASSUME ProtocolInv, NEW c \in Clients, Begin(c) \/ Fetch(c)
    PROVE  \A d \in Clients : d # c => CallOf(d)' = CallOf(d)
  <1>0. PoolTypeOK /\ ProtocolTypes
    BY DEF ProtocolInv, PoolInv
  <1>1. ASSUME NEW i, Acquiring(c, i)
        PROVE  \A d \in Clients : d # c => CallOf(d)' = CallOf(d)
    <2>1. \A d \in Clients : d # c => stage'[d] = stage[d]
      BY <1>0, <1>1
      DEF Acquiring, Acquire, AcquireIdle, AcquireNone, DialSucceeds, DialFails,
          CountDialed, PoolTypeOK
    <2>2. \A d \in Clients : d # c => phase'[d] = phase[d] /\ want'[d] = want[d] /\ got'[d] = got[d]
      BY <1>0, <1>1 DEF Acquiring, ProtocolTypes
    <2>. QED BY <2>1, <2>2 DEF CallOf
  <1>2. CASE Write(c) \/ ReadLength(c) \/ ReadBody(c) \/ StreamFails(c)
    <2>1. stage' = stage /\ want' = want
      BY <1>2 DEF Write, ReadLength, ReadBody, StreamFails, FetchOnly, connVars, clientVars
    <2>2. \A d \in Clients : d # c => phase'[d] = phase[d] /\ got'[d] = got[d]
      BY <1>0, <1>2 DEF Write, ReadLength, ReadBody, StreamFails, FetchOnly, ProtocolTypes
    <2>. QED BY <2>1, <2>2 DEF CallOf
  <1>3. CASE Return(c)
    <2>1. \A d \in Clients : d # c => stage'[d] = stage[d]
      BY <1>0, <1>3 DEF Return, ReleaseClose, ReleaseIdle, StopUsing, PoolTypeOK
    <2>2. \A d \in Clients : d # c => phase'[d] = phase[d] /\ want'[d] = want[d] /\ got'[d] = got[d]
      BY <1>0, <1>3 DEF Return, ProtocolTypes
    <2>. QED BY <2>1, <2>2 DEF CallOf
  <1>. QED BY <1>1, <1>2, <1>3 DEF Begin, Fetch

\* What a call looks like; a fetch that is done has the bytes of its chunk.
CallShape ==
    \A c \in Clients :
        /\ want[c] \in Chunks
        /\ stage[c] = "outside" => CallOf(c) = << >>
        /\ stage[c] # "outside" /\ phase[c] # "done" => CallOf(c) = <<want[c]>>
        /\ phase[c] = "done" => CallOf(c) = <<want[c], Bytes(want[c])>>

LEMMA CallIs == ProtocolInv => CallShape
  <1>. SUFFICES ASSUME ProtocolInv, NEW c \in Clients
                PROVE  /\ want[c] \in Chunks
                       /\ stage[c] = "outside" => CallOf(c) = << >>
                       /\ stage[c] # "outside" /\ phase[c] # "done" => CallOf(c) = <<want[c]>>
                       /\ phase[c] = "done" => CallOf(c) = <<want[c], Bytes(want[c])>>
    BY DEF CallShape
  <1>1. ProtocolTypes /\ want[c] \in Chunks /\ Matches(c)
    BY DEF ProtocolInv, ProtocolTypes
  <1>2. stage[c] = "outside" => phase[c] # "done"
    BY <1>1 DEF ProtocolTypes
  <1>3. phase[c] = "done" => got[c] = Bytes(want[c])
    BY <1>1, AllIsRead DEF Matches
  <1>. QED BY <1>1, <1>2, <1>3 DEF CallOf

LEMMA FetchFollowsContract ==
    ASSUME ProtocolInv, ProtocolInv', NEW c \in Clients, Begin(c) \/ Fetch(c)
    PROVE  [Contract!Next]_Calls
  <1>0. PoolTypeOK /\ ProtocolTypes
    BY DEF ProtocolInv, PoolInv
  <1>1. /\ Calls[c] = CallOf(c)
        /\ Calls' = [Calls EXCEPT ![c] = CallOf(c)']
    BY FetchIsOnesOwn, OneCallChanges
  <1>2. /\ want[c] \in Chunks
        /\ stage[c] = "outside" => CallOf(c) = << >>
        /\ stage[c] # "outside" /\ phase[c] # "done" => CallOf(c) = <<want[c]>>
        /\ phase[c] = "done" => CallOf(c) = <<want[c], Bytes(want[c])>>
    BY CallIs DEF CallShape
  <1>3. /\ want'[c] \in Chunks
        /\ stage'[c] = "outside" => CallOf(c)' = << >>
        /\ stage'[c] # "outside" /\ phase'[c] # "done" => CallOf(c)' = <<want'[c]>>
        /\ phase'[c] = "done" => CallOf(c)' = <<want'[c], Bytes(want'[c])>>
    <2>1. CallShape'
      BY CallIs, PTL
    <2>. QED BY <2>1 DEF CallShape, Bytes
  <1>4. CASE CallOf(c)' = CallOf(c)
    <2>1. Calls' = Calls
      BY <1>1, <1>4 DEF Calls
    <2>. QED BY <2>1
  <1>5. ASSUME NEW i \in Chunks, CallOf(c) = << >>, CallOf(c)' = <<i>>
        PROVE  Contract!Next
    BY <1>1, <1>5 DEF Contract!Next, Contract!Ask, Calls
  <1>6. ASSUME NEW i \in Chunks, CallOf(c) = <<i>>, CallOf(c)' = <<i, Bytes(i)>>
        PROVE  Contract!Next
    <2>1. [j \in Chunks |-> Bytes(j)][i] = Bytes(i)
      OBVIOUS
    <2>. QED BY <1>1, <1>6, <2>1 DEF Contract!Next, Contract!Succeed, Calls
  <1>7. ASSUME CallOf(c) # << >>, CallOf(c)' = << >>
        PROVE  Contract!Next
    BY <1>1, <1>7 DEF Contract!Next, Contract!Return, Calls
  <1>8. CASE \E i \in Chunks : Acquiring(c, i)
    <2>1. stage[c] # "using" /\ phase[c] # "done" /\ phase'[c] # "done"
      BY <1>0, <1>8
      DEF Acquiring, Acquire, AcquireIdle, AcquireNone, DialSucceeds, DialFails,
          CountDialed, ProtocolTypes
    <2>2. stage[c] = "outside" => stage'[c] # "outside"
      BY <1>0, <1>8
      DEF Acquiring, Acquire, AcquireIdle, AcquireNone, DialSucceeds, DialFails,
          CountDialed, PoolTypeOK
    <2>3. stage[c] # "outside" => want'[c] = want[c]
      BY <1>0, <1>8 DEF Acquiring, ProtocolTypes
    <2>4. CASE stage[c] = "outside"
      BY <1>2, <1>3, <1>5, <2>1, <2>2, <2>4
    <2>5. CASE stage[c] # "outside" /\ stage'[c] = "outside"
      <3>1. <<want[c]>> # << >>
        OBVIOUS
      <3>. QED BY <1>2, <1>3, <1>7, <2>1, <2>5, <3>1
    <2>6. CASE stage[c] # "outside" /\ stage'[c] # "outside"
      BY <1>2, <1>3, <1>4, <2>1, <2>3, <2>6
    <2>. QED BY <2>4, <2>5, <2>6
  <1>9. CASE Write(c) \/ ReadLength(c) \/ ReadBody(c) \/ StreamFails(c)
    <2>1. stage' = stage /\ want' = want /\ phase[c] \notin {"none", "done"}
      BY <1>9
      DEF Write, ReadLength, ReadBody, StreamFails, FetchOnly, connVars, clientVars
    <2>2. stage[c] # "outside"
      BY <1>0, <2>1 DEF ProtocolTypes
    <2>3. CASE phase'[c] = "done"
      BY <1>2, <1>3, <1>6, <2>1, <2>2, <2>3
    <2>4. CASE phase'[c] # "done"
      BY <1>2, <1>3, <1>4, <2>1, <2>2, <2>4
    <2>. QED BY <2>3, <2>4
  <1>10. CASE Return(c)
    <2>1. stage'[c] = "outside" /\ stage[c] # "outside"
      BY <1>0, <1>10 DEF Return, ReleaseClose, ReleaseIdle, StopUsing, PoolTypeOK
    <2>2. <<want[c]>> # << >> /\ <<want[c], Bytes(want[c])>> # << >>
      OBVIOUS
    <2>. QED BY <1>2, <1>3, <1>7, <2>1, <2>2
  <1>11. (\E i \in Chunks : Acquiring(c, i))
         \/ Write(c) \/ ReadLength(c) \/ ReadBody(c) \/ StreamFails(c) \/ Return(c)
    BY <1>2 DEF Begin, Fetch
  <1>. QED BY <1>8, <1>9, <1>10, <1>11

LEMMA ProtocolFollowsContract ==
    ASSUME ProtocolInv, ProtocolInv', [Next]_vars
    PROVE  [Contract!Next]_Calls
  <1>1. ASSUME NEW c \in Clients, Begin(c) \/ Fetch(c) PROVE [Contract!Next]_Calls
    BY <1>1, FetchFollowsContract
  <1>2. ASSUME UNCHANGED <<stage, fetchVars>> PROVE [Contract!Next]_Calls
    <2>1. Calls' = Calls
      BY <1>2 DEF Calls, CallOf, fetchVars
    <2>. QED BY <2>1
  <1>3. ASSUME NEW s \in Streams, Serve(s) \/ Break(s) PROVE [Contract!Next]_Calls
    BY <1>2, <1>3 DEF Serve, Break, connVars, clientVars
  <1>4. ASSUME NEW p \in Peers, Share(p) \/ Pool(Age(p)) PROVE [Contract!Next]_Calls
    BY <1>2, <1>4 DEF Share, Pool, Age, connVars, clientVars
  <1>5. CASE Pool(Reaper) \/ Pool(Close)
    BY <1>2, <1>5 DEF Pool, Reaper, ReaperReturn, Reap, Close, clientVars
  <1>6. CASE UNCHANGED vars
    BY <1>2, <1>6 DEF vars, connVars, clientVars
  <1>. QED BY <1>1, <1>3, <1>4, <1>5, <1>6 DEF Next

\* Whoever had the stream before, and whether it breaks, is served, reaped or
\* closed meanwhile: a call of fetchChunk asks for one chunk from beginning to
\* end and returns once, with that chunk's bytes or an error.
THEOREM FetchesKeepTheContract == Spec => ImplementsChunkFetch
  <1>1. Init => Contract!Init
    BY DEF Init, PoolInit, Contract!Init, CallOf
  <1>2. ProtocolInv /\ ProtocolInv' /\ [Next]_vars => [Contract!Next]_Calls
    BY ProtocolFollowsContract
  <1>. QED
    BY ProtocolInvariant, <1>1, <1>2, PTL
    DEF Spec, ImplementsChunkFetch, Contract!Spec, Calls

=============================================================================

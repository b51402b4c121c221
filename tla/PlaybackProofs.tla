--------------------------- MODULE PlaybackProofs ---------------------------
(***************************************************************************)
(* Theorems of Playback, for every finite set of items.  An item is in one *)
(* place of the queue at a time and never comes back, so there are never   *)
(* more streamers than items; and the loop starts a streamer only when the *)
(* one before has finished.                                                *)
(***************************************************************************)
EXTENDS Playback, FiniteSetTheorems, SequenceTheorems, TLAPS

----------------------------------------------------------------------------
(* Lists without repetitions.                                              *)

LEMMA InsertedInList ==
    ASSUME NEW S, NEW s \in Seq(S), NEW x \in S, NEW k \in 1 .. Len(s) + 1,
           x \notin ToSet(s), IsInjective(s)
    PROVE  /\ InsertAt(s, k, x) \in Seq(S)
           /\ IsInjective(InsertAt(s, k, x))
           /\ ToSet(InsertAt(s, k, x)) = ToSet(s) \cup {x}
           /\ Len(InsertAt(s, k, x)) = Len(s) + 1
           /\ \A i \in 1 .. k - 1 : InsertAt(s, k, x)[i] = s[i]
           /\ \A i \in k .. Len(s) : InsertAt(s, k, x)[i + 1] = s[i]
  <1>. DEFINE a == SubSeq(s, 1, k - 1)
              b == SubSeq(s, k, Len(s))
              ax == a \o <<x>>
              t == ax \o b
              n == Len(s)
  <1>1. n \in Nat /\ DOMAIN s = 1 .. n /\ k \in Nat /\ 1 <= k /\ k <= n + 1
    OBVIOUS
  <1>2. \A i \in 1 .. n : s[i] \in S /\ s[i] # x
    BY <1>1 DEF ToSet
  <1>. HIDE DEF n
  <1>3. a \in Seq(S) /\ Len(a) = k - 1 /\ \A i \in 1 .. k - 1 : a[i] = s[i]
    <2>1. 1 \in Int /\ k - 1 \in Int /\ \A i \in 1 .. k - 1 : s[i] \in S
      BY <1>1, <1>2
    <2>2. /\ a \in Seq(S)
          /\ Len(a) = IF 1 <= k - 1 THEN (k - 1) - 1 + 1 ELSE 0
          /\ \A i \in 1 .. (k - 1) - 1 + 1 : a[i] = s[1 + i - 1]
      BY <2>1, SubSeqProperties
    <2>. HIDE DEF a
    <2>3. Len(a) = k - 1
      BY <1>1, <2>2
    <2>4. ASSUME NEW i \in 1 .. k - 1 PROVE a[i] = s[i]
      <3>1. i \in 1 .. (k - 1) - 1 + 1 /\ 1 + i - 1 = i
        BY <1>1
      <3>. QED BY <2>2, <3>1
    <2>. QED BY <2>2, <2>3, <2>4
  <1>4. b \in Seq(S) /\ Len(b) = n - k + 1 /\ \A i \in 1 .. n - k + 1 : b[i] = s[k + i - 1]
    <2>1. k \in Int /\ n \in Int /\ \A i \in k .. n : s[i] \in S
      BY <1>1, <1>2
    <2>2. b = SubSeq(s, k, n)
      BY DEF n
    <2>3. /\ b \in Seq(S)
          /\ Len(b) = IF k <= n THEN n - k + 1 ELSE 0
          /\ \A i \in 1 .. n - k + 1 : b[i] = s[k + i - 1]
      BY <2>1, <2>2, SubSeqProperties
    <2>. HIDE DEF b
    <2>4. Len(b) = n - k + 1
      BY <1>1, <2>3
    <2>. QED BY <2>3, <2>4
  <1>. HIDE DEF a, b
  <1>5. ax \in Seq(S) /\ Len(ax) = k /\ ax[k] = x /\ \A i \in 1 .. k - 1 : ax[i] = s[i]
    <2>1. <<x>> \in Seq(S) /\ Len(<<x>>) = 1 /\ <<x>>[1] = x
      OBVIOUS
    <2>2. /\ ax \in Seq(S) /\ Len(ax) = Len(a) + 1
          /\ \A i \in 1 .. Len(a) + 1 : ax[i] = IF i <= Len(a) THEN a[i] ELSE <<x>>[i - Len(a)]
      BY <1>3, <2>1, ConcatProperties
    <2>. HIDE DEF ax
    <2>3. Len(a) + 1 = k /\ Len(a) = k - 1 /\ k - (k - 1) = 1 /\ k \in 1 .. k /\ ~(k <= k - 1)
      BY <1>1, <1>3
    <2>4. ax[k] = x
      BY <2>1, <2>2, <2>3
    <2>5. \A i \in 1 .. k - 1 : ax[i] = s[i]
      <3>. SUFFICES ASSUME NEW i \in 1 .. k - 1 PROVE ax[i] = s[i]
        OBVIOUS
      <3>1. i \in 1 .. k /\ i <= k - 1
        BY <1>1
      <3>. QED BY <1>3, <2>2, <2>3, <3>1
    <2>. QED BY <2>2, <2>3, <2>4, <2>5
  <1>. HIDE DEF ax
  <1>6. /\ t \in Seq(S) /\ Len(t) = n + 1 /\ DOMAIN t = 1 .. n + 1
        /\ t[k] = x
        /\ \A i \in 1 .. k - 1 : t[i] = s[i]
        /\ \A i \in k .. n : t[i + 1] = s[i]
    <2>1. /\ t \in Seq(S) /\ Len(t) = k + Len(b)
          /\ \A i \in 1 .. k + Len(b) : t[i] = IF i <= k THEN ax[i] ELSE b[i - k]
      BY <1>4, <1>5, ConcatProperties
    <2>. HIDE DEF t
    <2>2. k + Len(b) = n + 1 /\ k \in 1 .. n + 1
      BY <1>1, <1>4
    <2>3. DOMAIN t = 1 .. n + 1
      BY <2>1, <2>2
    <2>4. t[k] = x
      BY <1>1, <1>5, <2>1, <2>2
    <2>5. ASSUME NEW i \in 1 .. k - 1 PROVE t[i] = s[i]
      <3>1. i \in 1 .. n + 1 /\ i <= k
        BY <1>1
      <3>. QED BY <1>5, <2>1, <2>2, <3>1
    <2>6. ASSUME NEW i \in k .. n PROVE t[i + 1] = s[i]
      <3>1. i + 1 \in 1 .. n + 1 /\ ~(i + 1 <= k) /\ (i + 1) - k \in 1 .. n - k + 1
            /\ k + ((i + 1) - k) - 1 = i
        BY <1>1
      <3>. QED BY <1>4, <2>1, <2>2, <3>1
    <2>. QED BY <2>1, <2>2, <2>3, <2>4, <2>5, <2>6
  <1>7. InsertAt(s, k, x) = t
    BY DEF InsertAt, t, ax, a, b
  <1>. HIDE DEF t
  \* Where an entry of the new list comes from.
  <1>. DEFINE from(i) == IF i < k THEN i ELSE i - 1
  <1>8. \A i \in 1 .. n + 1 : i # k => from(i) \in 1 .. n /\ t[i] = s[from(i)]
    <2>. SUFFICES ASSUME NEW i \in 1 .. n + 1, i # k PROVE from(i) \in 1 .. n /\ t[i] = s[from(i)]
      OBVIOUS
    <2>1. CASE i < k
      BY <1>1, <1>6, <2>1
    <2>2. CASE i > k
      <3>1. i - 1 \in k .. n /\ (i - 1) + 1 = i /\ i - 1 \in 1 .. n /\ ~(i < k)
        BY <1>1, <2>2
      <3>. QED BY <1>6, <3>1
    <2>. QED BY <1>1, <2>1, <2>2
  <1>9. \A i, j \in 1 .. n + 1 : i # k /\ j # k /\ from(i) = from(j) => i = j
    BY <1>1
  <1>. HIDE DEF from
  <1>10. IsInjective(t)
    <2>. SUFFICES ASSUME NEW i \in 1 .. n + 1, NEW j \in 1 .. n + 1, t[i] = t[j] PROVE i = j
      BY <1>6 DEF IsInjective
    <2>1. CASE i # k /\ j # k
      <3>1. from(i) \in 1 .. n /\ from(j) \in 1 .. n /\ s[from(i)] = s[from(j)]
        BY <1>8, <2>1
      <3>2. from(i) = from(j)
        BY <1>1, <3>1 DEF IsInjective
      <3>. QED BY <1>9, <2>1, <3>2
    <2>2. CASE i = k \/ j = k
      BY <1>2, <1>6, <1>8, <2>2
    <2>. QED BY <2>1, <2>2
  <1>11. ToSet(t) = ToSet(s) \cup {x}
    <2>1. ASSUME NEW i \in 1 .. n + 1 PROVE t[i] \in ToSet(s) \cup {x}
      BY <1>1, <1>6, <1>8 DEF ToSet
    <2>2. x \in ToSet(t)
      BY <1>1, <1>6 DEF ToSet
    <2>3. ASSUME NEW i \in 1 .. n PROVE s[i] \in ToSet(t)
      <3>1. CASE i < k
        BY <1>1, <1>6, <3>1 DEF ToSet
      <3>2. CASE i >= k
        <4>1. i \in k .. n /\ i + 1 \in 1 .. n + 1
          BY <1>1, <3>2
        <4>. QED BY <1>6, <4>1 DEF ToSet
      <3>. QED BY <1>1, <3>1, <3>2
    <2>. QED BY <1>1, <1>6, <2>1, <2>2, <2>3 DEF ToSet
  <1>. QED BY <1>6, <1>7, <1>10, <1>11 DEF n

\* An item appended to a list.
LEMMA AppendedToList ==
    ASSUME NEW S, NEW s \in Seq(S), NEW x \in S, x \notin ToSet(s), IsInjective(s)
    PROVE  /\ Append(s, x) \in Seq(S) /\ Len(Append(s, x)) = Len(s) + 1
           /\ IsInjective(Append(s, x))
           /\ ToSet(Append(s, x)) = ToSet(s) \cup {x}
  <1>. DEFINE t == Append(s, x)
  <1>1. Len(s) \in Nat /\ DOMAIN s = 1 .. Len(s)
    OBVIOUS
  <1>2. /\ t \in Seq(S) /\ Len(t) = Len(s) + 1
        /\ DOMAIN t = 1 .. Len(s) + 1
        /\ \A i \in 1 .. Len(s) : t[i] = s[i]
        /\ t[Len(s) + 1] = x
    OBVIOUS
  <1>. HIDE DEF t
  <1>3. \A i \in 1 .. Len(s) : s[i] # x
    BY <1>1 DEF ToSet
  <1>4. \A i \in 1 .. Len(s) + 1 : i = Len(s) + 1 \/ i \in 1 .. Len(s)
    BY <1>1
  <1>5. IsInjective(t)
    BY <1>1, <1>2, <1>3, <1>4 DEF IsInjective
  <1>6. ToSet(t) = ToSet(s) \cup {x}
    <2>1. \A i \in 1 .. Len(s) + 1 : t[i] \in ToSet(s) \cup {x}
      BY <1>1, <1>2, <1>4 DEF ToSet
    <2>2. x \in ToSet(t) /\ \A i \in 1 .. Len(s) : s[i] \in ToSet(t)
      BY <1>1, <1>2 DEF ToSet
    <2>. QED BY <1>1, <1>2, <2>1, <2>2 DEF ToSet
  <1>. QED BY <1>2, <1>5, <1>6 DEF t

\* A list without its first item.
LEMMA TailOfList ==
    ASSUME NEW S, NEW s \in Seq(S), s # << >>, IsInjective(s)
    PROVE  /\ Head(s) \in ToSet(s) /\ Head(s) \in S
           /\ Tail(s) \in Seq(S) /\ IsInjective(Tail(s))
           /\ ToSet(Tail(s)) \subseteq ToSet(s) \ {Head(s)}
  <1>. DEFINE t == Tail(s)
  <1>1. Len(s) \in Nat /\ Len(s) > 0 /\ DOMAIN s = 1 .. Len(s) /\ Head(s) = s[1]
    OBVIOUS
  <1>2. t \in Seq(S) /\ Len(t) = Len(s) - 1 /\ \A i \in 1 .. Len(t) : t[i] = s[i + 1]
    BY HeadTailProperties
  <1>. HIDE DEF t
  <1>3. DOMAIN t = 1 .. Len(s) - 1
    BY <1>2
  <1>4. \A i \in 1 .. Len(s) - 1 : i + 1 \in 1 .. Len(s) /\ i + 1 # 1
    BY <1>1
  <1>5. IsInjective(t)
    <2>. SUFFICES ASSUME NEW i \in 1 .. Len(s) - 1, NEW j \in 1 .. Len(s) - 1, t[i] = t[j]
                  PROVE  i = j
      BY <1>3 DEF IsInjective
    <2>1. i + 1 \in 1 .. Len(s) /\ j + 1 \in 1 .. Len(s) /\ s[i + 1] = s[j + 1]
      BY <1>2, <1>4
    <2>2. i + 1 = j + 1
      BY <1>1, <2>1 DEF IsInjective
    <2>. QED BY <1>1, <2>2
  <1>6. ASSUME NEW i \in 1 .. Len(s) - 1 PROVE t[i] \in ToSet(s) /\ t[i] # Head(s)
    <2>1. t[i] = s[i + 1] /\ i + 1 \in 1 .. Len(s) /\ i + 1 # 1
      BY <1>2, <1>4
    <2>. QED BY <1>1, <2>1 DEF ToSet, IsInjective
  <1>7. ToSet(t) \subseteq ToSet(s) \ {Head(s)}
    BY <1>3, <1>6 DEF ToSet
  <1>8. Head(s) \in ToSet(s) /\ Head(s) \in S
    BY <1>1 DEF ToSet
  <1>. QED BY <1>2, <1>5, <1>7, <1>8 DEF t

----------------------------------------------------------------------------
(* The queue.                                                              *)

\* An item is upcoming, current or history, in one place, and was added.
QueueInv ==
    /\ items \in Seq(Items) /\ IsInjective(items)
    /\ history \in Seq(Items) /\ IsInjective(history)
    /\ current \in Items \cup {NoItem}
    /\ added \subseteq Items
    /\ ToSet(items) \subseteq added /\ ToSet(history) \subseteq added
    /\ ToSet(items) \cap ToSet(history) = {}
    /\ current # NoItem =>
         current \in added /\ current \notin ToSet(items) /\ current \notin ToSet(history)

\* An item that was current when it was shown does not become upcoming again.
SnapInv ==
    /\ snapPc \in {"idle", "between"}
    /\ snapCur \in Items \cup {NoItem}
    /\ snapCur # NoItem => snapCur \in added /\ snapCur \notin ToSet(items)

\* There is room for one item more in the history.
LEMMA HistoryFits ==
    ASSUME QueueInv
    PROVE  /\ Cardinality(Items) \in Nat
           /\ Len(history) \in Nat
           /\ current # NoItem => Len(history) + 1 <= Cardinality(Items)
  <1>1. IsFiniteSet(Items) /\ Cardinality(Items) \in Nat
    BY PlayQueueAssumption, FS_CardinalityType
  <1>2. Len(history) \in Nat /\ DOMAIN history = 1 .. Len(history)
    BY DEF QueueInv
  <1>3. ASSUME current # NoItem PROVE Len(history) + 1 <= Cardinality(Items)
    <2>. DEFINE T == Items \ {current}
                D == 1 .. Len(history)
    <2>1. current \in Items
      BY <1>3 DEF QueueInv
    <2>2. IsFiniteSet(T) /\ Cardinality(T) = Cardinality(Items) - 1
      BY <1>1, <2>1, FS_RemoveElement
    <2>3. \A i \in D : history[i] \in T
      BY <1>2, <1>3 DEF QueueInv, ToSet
    <2>4. history \in [D -> T]
      BY <1>2, <2>3 DEF QueueInv
    <2>5. history \in Injection(D, T)
      BY <2>4 DEF Injection, QueueInv
    <2>6. Cardinality(D) <= Cardinality(T)
      BY <2>2, <2>5, FS_Injection
    <2>7. Cardinality(D) = IF 1 > Len(history) THEN 0 ELSE Len(history) - 1 + 1
      BY <1>2, FS_Interval
    <2>8. Cardinality(D) = Len(history)
      BY <1>2, <2>7
    <2>. HIDE DEF D, T
    <2>. QED BY <1>1, <1>2, <2>2, <2>6, <2>8
  <1>. QED BY <1>1, <1>2, <1>3

\* Whoever changes the queue.
LEMMA ItemAdded ==
    ASSUME QueueInv, SnapInv, NEW x \in Items, New(x),
           \/ Enqueue(x) \/ \E pos \in Int : Insert(pos, x)
    PROVE  QueueInv' /\ history' = history /\ current' = current /\ (UNCHANGED apiVars => SnapInv')
  <1>1. x \notin added /\ added' = added \cup {x} /\ x \notin ToSet(items)
    BY DEF New, QueueInv
  <1>2. history' = history /\ current' = current
    BY DEF Enqueue, Insert
  <1>3. items' \in Seq(Items) /\ IsInjective(items') /\ ToSet(items') = ToSet(items) \cup {x}
    <2>0. items \in Seq(Items) /\ IsInjective(items) /\ Len(items) \in Nat
      BY DEF QueueInv
    <2>1. CASE Enqueue(x)
      <3>1. items' = Append(items, x)
        BY <2>1 DEF Enqueue
      <3>. QED BY <1>1, <2>0, <3>1, AppendedToList
    <2>2. ASSUME NEW pos \in Int, Insert(pos, x)
          PROVE  items' \in Seq(Items) /\ IsInjective(items') /\ ToSet(items') = ToSet(items) \cup {x}
      <3>. DEFINE k == IF pos < 0 THEN 1 ELSE IF pos >= Len(items) THEN Len(items) + 1 ELSE pos + 1
      <3>1. k \in 1 .. Len(items) + 1
        BY <2>0
      <3>2. items' = InsertAt(items, k, x)
        BY <2>2 DEF Insert
      <3>. HIDE DEF k
      <3>. QED BY <1>1, <2>0, <3>1, <3>2, InsertedInList
    <2>. QED BY <2>1, <2>2
  <1>4. x \notin ToSet(history) /\ current # x
    BY <1>1, PlayQueueAssumption DEF QueueInv
  <1>5. QueueInv'
    BY <1>1, <1>2, <1>3, <1>4 DEF QueueInv
  <1>6. UNCHANGED apiVars => SnapInv'
    BY <1>1, <1>3 DEF SnapInv, apiVars
  <1>. QED BY <1>2, <1>5, <1>6

LEMMA ItemTaken ==
    ASSUME QueueInv, SnapInv, TakeNext, added' = added, UNCHANGED apiVars
    PROVE  /\ QueueInv' /\ SnapInv'
           /\ Len(history') = IF current = NoItem THEN Len(history) ELSE Len(history) + 1
           /\ current' = NoItem <=> items = << >>
  <1>0. items \in Seq(Items) /\ history \in Seq(Items) /\ IsInjective(items) /\ IsInjective(history)
        /\ current \in Items \cup {NoItem}
    BY DEF QueueInv
  <1>1. history' = IF current = NoItem THEN history ELSE Append(history, current)
    BY DEF TakeNext, Retire
  <1>2. /\ history' \in Seq(Items) /\ IsInjective(history')
        /\ ToSet(history') \subseteq ToSet(history) \cup (IF current = NoItem THEN {} ELSE {current})
        /\ Len(history') = IF current = NoItem THEN Len(history) ELSE Len(history) + 1
    <2>1. CASE current = NoItem
      BY <1>0, <1>1, <2>1
    <2>2. CASE current # NoItem
      <3>1. current \in Items /\ current \notin ToSet(history) /\ history' = Append(history, current)
        BY <1>0, <1>1, <2>2 DEF QueueInv
      <3>2. /\ Append(history, current) \in Seq(Items)
            /\ Len(Append(history, current)) = Len(history) + 1
            /\ IsInjective(Append(history, current))
            /\ ToSet(Append(history, current)) = ToSet(history) \cup {current}
        BY <1>0, <3>1, AppendedToList
      <3>. QED BY <2>2, <3>1, <3>2
    <2>. QED BY <2>1, <2>2
  <1>3. CASE items = << >>
    <2>1. items' = items /\ current' = NoItem
      BY <1>3 DEF TakeNext
    <2>2. ToSet(items) = {}
      BY <1>3 DEF ToSet
    <2>. QED BY <1>0, <1>2, <1>3, <2>1, <2>2 DEF QueueInv, SnapInv, apiVars
  <1>4. CASE items # << >>
    <2>1. items' = Tail(items) /\ current' = Head(items)
      BY <1>4 DEF TakeNext
    <2>2. /\ Head(items) \in ToSet(items) /\ Head(items) \in Items
          /\ Tail(items) \in Seq(Items) /\ IsInjective(Tail(items))
          /\ ToSet(Tail(items)) \subseteq ToSet(items) \ {Head(items)}
      BY <1>0, <1>4, TailOfList
    <2>3. Head(items) # NoItem
      BY <2>2, PlayQueueAssumption
    <2>4. QueueInv'
      BY <1>0, <1>2, <2>1, <2>2 DEF QueueInv
    <2>5. SnapInv'
      BY <2>1, <2>2 DEF SnapInv, apiVars
    <2>. QED BY <1>2, <1>4, <2>1, <2>3, <2>4, <2>5
  <1>. QED BY <1>3, <1>4

LEMMA QueueCleared ==
    ASSUME QueueInv, SnapInv, Clear, added' = added, UNCHANGED apiVars
    PROVE  QueueInv' /\ SnapInv'
  <1>1. items' = << >> /\ history' = history /\ current' = current
    BY DEF Clear
  <1>2. << >> \in Seq(Items) /\ IsInjective(<< >>) /\ ToSet(<< >>) = {}
    BY DEF IsInjective, ToSet
  <1>3. items' \in Seq(Items) /\ IsInjective(items') /\ ToSet(items') = {}
    BY <1>1, <1>2
  <1>. QED BY <1>1, <1>3 DEF QueueInv, SnapInv, apiVars

----------------------------------------------------------------------------
(* The loop and the player.                                                *)

\* Each streamer is for an item of its own: those before the current one are
\* in the history.
Counted ==
    /\ plays \in Nat /\ plays <= Cardinality(Items)
    /\ loopPc = "fill" => plays = 0
    /\ loopPc \in {"stream", "play", "playing"} => current # NoItem
    /\ loopPc \in {"stream", "play"} => plays <= Len(history)
    /\ loopPc = "next" => plays <= Len(history) + (IF current = NoItem THEN 0 ELSE 1)
    /\ loopPc = "playing" => plays \in Streamers /\ plays <= Len(history) + 1

\* Every streamer but the last has finished, and the last one when the loop
\* does not wait for it.
InTurn ==
    /\ \A n \in Streamers : n > plays => audio[n] = "none"
    /\ \A n \in Streamers : n < plays => audio[n] = "finished"
    /\ loopPc \notin {"playing", "exited"} =>
         \A n \in Streamers : n = plays => audio[n] = "finished"
    /\ loopPc \notin {"playing", "exited"} => ~playing
    /\ loopPc = "playing" =>
         audio[plays] # "none" /\ (playing <=> audio[plays] # "finished")

\* The track that sounds is that of the engine; only a track of its own engine
\* can follow.
EngineInv ==
    /\ loopPc = "play" => engineItem \in Items
    /\ loopPc = "playing" /\ cur[plays].engine = "shared" => engineItem = cur[plays].item
    /\ \A n \in Streamers : nxt[n].engine # "shared"
    /\ \A n \in Streamers : preloadPc[n] \in {"stream", "attach"} => pick[n] \in Items

PlayerTypes ==
    /\ loopPc \in {"fill", "next", "stream", "play", "playing", "exited"}
    /\ engineItem \in Items \cup {NoItem}
    /\ playing \in BOOLEAN
    /\ cur \in [Streamers -> Sounds \cup {Silence}]
    /\ nxt \in [Streamers -> Sounds \cup {Silence}]
    /\ fired \in [Streamers -> BOOLEAN]
    /\ audio \in [Streamers -> {"none", "sounding", "closing", "over", "finished"}]
    /\ preloadPc \in [Streamers -> {"none", "start", "wait", "stream", "attach", "ended"}]
    /\ aim \in [Streamers -> 0 .. Cardinality(Items)]
    /\ pick \in [Streamers -> Items \cup {NoItem}]

PlayInv == QueueInv /\ SnapInv /\ Counted /\ InTurn /\ EngineInv /\ PlayerTypes

LEMMA PlaybackStarts == Init => PlayInv
  <1>. SUFFICES ASSUME Init PROVE PlayInv
    OBVIOUS
  <1>. USE DEF Init, QueueInit
  <1>1. << >> \in Seq(Items) /\ IsInjective(<< >>) /\ ToSet(<< >>) = {}
    BY DEF IsInjective, ToSet
  <1>2. QueueInv /\ SnapInv
    BY <1>1 DEF QueueInv, SnapInv
  <1>3. Cardinality(Items) \in Nat
    BY PlayQueueAssumption, FS_CardinalityType
  <1>4. Counted
    BY <1>3 DEF Counted
  <1>5. InTurn /\ EngineInv
    BY <1>3 DEF InTurn, EngineInv, Silence, Streamers
  <1>6. PlayerTypes
    <2>1. 0 \in 0 .. Cardinality(Items)
      BY <1>3
    <2>. QED BY <2>1 DEF PlayerTypes
  <1>. QED BY <1>2, <1>4, <1>5, <1>6 DEF PlayInv

----------------------------------------------------------------------------
(* Steps of the queue and its readers.                                     *)

LEMMA ApiInv ==
    ASSUME PlayInv, Api \/ \E x \in Items : LoopFill(x)
    PROVE  PlayInv'
  <1>0. QueueInv /\ SnapInv /\ Counted /\ InTurn /\ EngineInv /\ PlayerTypes
    BY DEF PlayInv
  <1>1. UNCHANGED <<loopPc, engineItem, plays, playing, cur, nxt, fired, audio, preloadPc, aim, pick>>
    BY DEF Api, HandleEnqueue, HandleInsert, HandleClear, GetQueueCurrent, GetQueueUpcoming,
           ApiOnly, LoopFill, loopVars, playerVars, preloadVars
  <1>2. QueueInv' /\ SnapInv' /\ UNCHANGED <<history, current>>
    <2>1. ASSUME NEW x \in Items, LoopFill(x) \/ HandleEnqueue(x)
          PROVE  QueueInv' /\ SnapInv' /\ UNCHANGED <<history, current>>
      BY <1>0, <2>1, ItemAdded DEF LoopFill, HandleEnqueue
    <2>2. ASSUME NEW x \in Items, NEW pos \in -1 .. Len(items) + 1, HandleInsert(pos, x)
          PROVE  QueueInv' /\ SnapInv' /\ UNCHANGED <<history, current>>
      <3>1. pos \in Int
        BY <1>0 DEF QueueInv
      <3>. QED BY <1>0, <2>2, <3>1, ItemAdded DEF HandleInsert
    <2>3. CASE HandleClear
      BY <1>0, <2>3, QueueCleared DEF HandleClear, Clear
    <2>4. CASE GetQueueCurrent \/ GetQueueUpcoming
      BY <1>0, <2>4 DEF GetQueueCurrent, GetQueueUpcoming, queueVars, QueueInv, SnapInv
    <2>. QED BY <2>1, <2>2, <2>3, <2>4 DEF Api
  <1>3. Counted' /\ InTurn' /\ EngineInv' /\ PlayerTypes'
    BY <1>0, <1>1, <1>2 DEF Counted, InTurn, EngineInv, PlayerTypes
  <1>. QED BY <1>2, <1>3 DEF PlayInv

\* Nothing but the loop changes the queue's items, but for the API.
LEMMA QueueStays ==
    ASSUME QueueInv, SnapInv, UNCHANGED <<queueVars, added, apiVars>>
    PROVE  QueueInv' /\ SnapInv' /\ UNCHANGED <<history, current>>
  BY DEF queueVars, apiVars, QueueInv, SnapInv

----------------------------------------------------------------------------
(* Steps of the loop.                                                      *)

LEMMA LoopNextInv ==
    ASSUME PlayInv, LoopNext
    PROVE  PlayInv'
  <1>0. QueueInv /\ SnapInv /\ Counted /\ InTurn /\ EngineInv /\ PlayerTypes
    BY DEF PlayInv
  <1>1. /\ UNCHANGED <<added, engineItem, plays, playing, cur, nxt, fired, audio, preloadPc, aim, pick>>
        /\ loopPc = "next" /\ loopPc' = IF items = << >> THEN "exited" ELSE "stream"
        /\ TakeNext /\ UNCHANGED apiVars
    BY DEF LoopNext, playerVars, preloadVars
  <1>2. /\ QueueInv' /\ SnapInv'
        /\ Len(history') = IF current = NoItem THEN Len(history) ELSE Len(history) + 1
        /\ current' = NoItem <=> items = << >>
    BY <1>0, <1>1, ItemTaken
  <1>3. Counted'
    <2>1. plays <= Len(history')
      BY <1>0, <1>1, <1>2, HistoryFits DEF Counted
    <2>. QED BY <1>0, <1>1, <1>2, <2>1 DEF Counted
  <1>4. InTurn' /\ EngineInv' /\ PlayerTypes'
    BY <1>0, <1>1 DEF InTurn, EngineInv, PlayerTypes
  <1>. QED BY <1>2, <1>3, <1>4 DEF PlayInv

LEMMA LoopPlayInv ==
    ASSUME PlayInv, LoopPlay
    PROVE  PlayInv'
  <1>0. QueueInv /\ SnapInv /\ Counted /\ InTurn /\ EngineInv /\ PlayerTypes
    BY DEF PlayInv
  <1>. DEFINE m == plays + 1
  <1>1. /\ UNCHANGED <<engineItem, nxt, fired, aim, pick>>
        /\ loopPc = "play" /\ loopPc' = "playing"
        /\ plays' = m /\ playing' = TRUE
        /\ cur' = [cur EXCEPT ![m] = [item |-> engineItem, engine |-> "shared"]]
        /\ audio' = [audio EXCEPT ![m] = "sounding"]
        /\ preloadPc' = [preloadPc EXCEPT ![m] = "start"]
    BY DEF LoopPlay
  <1>2. QueueInv' /\ SnapInv' /\ UNCHANGED <<history, current>>
    BY <1>0, QueueStays DEF LoopPlay
  <1>3. plays \in Nat /\ m \in Streamers /\ m <= Len(history) + 1 /\ m <= Cardinality(Items) /\ m \in Nat
    BY <1>0, <1>1, HistoryFits DEF Counted, Streamers
  <1>4. \A n \in Streamers : n \in Nat
    BY DEF Streamers
  <1>. HIDE DEF m
  <1>5. Counted'
    BY <1>0, <1>1, <1>2, <1>3 DEF Counted
  <1>6. engineItem \in Items
    BY <1>0, <1>1 DEF EngineInv
  <1>7. PlayerTypes'
    <2>1. [item |-> engineItem, engine |-> "shared"] \in Sounds
      BY <1>6 DEF Sounds
    <2>2. cur' \in [Streamers -> Sounds \cup {Silence}]
      BY <1>0, <1>1, <2>1 DEF PlayerTypes
    <2>. QED BY <1>0, <1>1, <1>6, <2>2 DEF PlayerTypes
  <1>8. InTurn'
    <2>1. \A n \in Streamers : audio'[n] = IF n = m THEN "sounding" ELSE audio[n]
      BY <1>0, <1>1 DEF PlayerTypes
    <2>2. \A n \in Streamers : n > m => audio'[n] = "none"
      BY <1>0, <1>3, <1>4, <2>1 DEF InTurn, m
    <2>3. \A n \in Streamers : n < m => audio'[n] = "finished"
      <3>. SUFFICES ASSUME NEW n \in Streamers, n < m PROVE audio'[n] = "finished"
        OBVIOUS
      <3>1. n # m /\ (n < plays \/ n = plays)
        BY <1>3, <1>4 DEF m
      <3>. QED BY <1>0, <1>1, <2>1, <3>1 DEF InTurn
    <2>. QED BY <1>1, <1>3, <2>1, <2>2, <2>3 DEF InTurn
  <1>9. EngineInv'
    <2>1. cur'[m] = [item |-> engineItem, engine |-> "shared"]
      BY <1>0, <1>1, <1>3 DEF PlayerTypes
    <2>2. \A n \in Streamers : preloadPc'[n] \in {"stream", "attach"} => preloadPc'[n] = preloadPc[n]
      BY <1>0, <1>1 DEF PlayerTypes
    <2>. QED BY <1>0, <1>1, <2>1, <2>2 DEF EngineInv
  <1>. QED BY <1>2, <1>5, <1>7, <1>8, <1>9 DEF PlayInv

\* The other steps of the loop change where it is and what the engine streams.
LEMMA LoopMovesInv ==
    ASSUME PlayInv, LoopBegin \/ LoopStream \/ LoopPlayFails \/ LoopPoll \/ LoopInterrupt
    PROVE  PlayInv'
  <1>0. QueueInv /\ SnapInv /\ Counted /\ InTurn /\ EngineInv /\ PlayerTypes
    BY DEF PlayInv
  <1>1. UNCHANGED <<plays, playing, cur, nxt, fired, audio, preloadPc, aim, pick>>
    BY DEF LoopBegin, LoopStream, LoopPlayFails, LoopPoll, LoopInterrupt, playerVars, preloadVars
  <1>2. QueueInv' /\ SnapInv' /\ UNCHANGED <<history, current>>
    BY <1>0, QueueStays DEF LoopBegin, LoopStream, LoopPlayFails, LoopPoll, LoopInterrupt
  <1>3. Len(history) \in Nat
    BY <1>0, HistoryFits
  <1>4. /\ loopPc' \in {"next", "play", "exited"}
        /\ engineItem' \in Items \cup {NoItem}
        /\ loopPc' = "play" => loopPc = "stream" /\ engineItem' \in Items
        /\ loopPc' = "next" => \/ loopPc \in {"fill", "stream", "play"}
                               \/ loopPc = "playing" /\ ~playing
    BY <1>0 DEF LoopBegin, LoopStream, LoopPlayFails, LoopPoll, LoopInterrupt, PlayerTypes,
                QueueInv, Counted
  <1>5. Counted'
    <2>1. loopPc' = "next" => plays <= Len(history) + (IF current = NoItem THEN 0 ELSE 1)
      BY <1>0, <1>3, <1>4 DEF Counted
    <2>. QED BY <1>0, <1>1, <1>2, <1>4, <2>1 DEF Counted
  <1>6. InTurn'
    <2>1. loopPc' # "exited" => ~playing /\ \A n \in Streamers : n = plays => audio[n] = "finished"
      BY <1>0, <1>4 DEF InTurn
    <2>. QED BY <1>0, <1>1, <1>4, <2>1 DEF InTurn
  <1>7. EngineInv' /\ PlayerTypes'
    BY <1>0, <1>1, <1>4 DEF EngineInv, PlayerTypes
  <1>. QED BY <1>2, <1>5, <1>6, <1>7 DEF PlayInv

----------------------------------------------------------------------------
(* Steps of the speaker and the preloaders.                                *)

\* Only the last streamer is at work, and the loop waits for it.
LEMMA OnlyLastWorks ==
    ASSUME PlayInv, Running, NEW n \in Streamers, audio[n] \notin {"none", "finished"}
    PROVE  n = plays /\ loopPc = "playing"
  <1>1. n \in Nat /\ plays \in Nat
    BY DEF PlayInv, Counted, Streamers
  <1>2. ~(n > plays) /\ ~(n < plays)
    BY DEF PlayInv, InTurn
  <1>. QED BY <1>1, <1>2 DEF PlayInv, InTurn, Running

LEMMA SpeakerInv ==
    ASSUME PlayInv, NEW n \in Streamers, Speaker(n)
    PROVE  PlayInv'
  <1>0. QueueInv /\ SnapInv /\ Counted /\ InTurn /\ EngineInv /\ PlayerTypes
    BY DEF PlayInv
  <1>1. UNCHANGED <<loopPc, engineItem, plays, preloadPc, aim, pick>>
    BY DEF Speaker, Exhaust, CloseDone, PlayReturns, loopVars, preloadVars
  <1>2. QueueInv' /\ SnapInv' /\ UNCHANGED <<history, current>>
    BY <1>0, QueueStays DEF Speaker, Exhaust, CloseDone, PlayReturns
  <1>3. audio[n] \in {"sounding", "closing", "over"} /\ Running
    BY DEF Speaker, Exhaust, CloseDone, PlayReturns
  <1>4. n = plays /\ loopPc = "playing" /\ playing = TRUE
    BY <1>0, <1>3, OnlyLastWorks DEF InTurn, PlayerTypes
  <1>5. /\ \A k \in Streamers : k # n => audio'[k] = audio[k]
        /\ audio'[n] # "none"
        /\ playing' = (audio'[n] # "finished")
        /\ audio' \in [Streamers -> {"none", "sounding", "closing", "over", "finished"}]
        /\ fired' \in [Streamers -> BOOLEAN]
    BY <1>0, <1>4 DEF Speaker, Exhaust, CloseDone, PlayReturns, PlayerTypes
  <1>6. /\ \/ UNCHANGED <<cur, nxt>>
           \/ cur' = [cur EXCEPT ![n] = nxt[n]] /\ nxt' = [nxt EXCEPT ![n] = Silence]
    BY DEF Speaker, Exhaust, CloseDone, PlayReturns
  <1>7. Counted'
    BY <1>0, <1>1, <1>2 DEF Counted
  <1>8. InTurn'
    <2>1. \A k \in Streamers : k > plays => audio'[k] = "none"
      <3>1. ~(n > plays)
        BY <1>0, <1>4 DEF Counted
      <3>. QED BY <1>0, <1>5, <3>1 DEF InTurn
    <2>2. \A k \in Streamers : k < plays => audio'[k] = "finished"
      <3>1. ~(n < plays)
        BY <1>0, <1>4 DEF Counted
      <3>. QED BY <1>0, <1>5, <3>1 DEF InTurn
    <2>. QED BY <1>1, <1>4, <1>5, <2>1, <2>2 DEF InTurn
  <1>9. EngineInv' /\ PlayerTypes'
    <2>1. Silence.engine # "shared"
      BY DEF Silence
    <2>2. /\ cur' \in [Streamers -> Sounds \cup {Silence}]
          /\ nxt' \in [Streamers -> Sounds \cup {Silence}]
      BY <1>0, <1>6 DEF PlayerTypes
    <2>3. /\ \A k \in Streamers : nxt'[k].engine # "shared"
          /\ cur'[n] = cur[n] \/ cur'[n].engine # "shared"
      BY <1>0, <1>6, <2>1 DEF EngineInv, PlayerTypes
    <2>. QED BY <1>0, <1>1, <1>4, <1>5, <2>2, <2>3 DEF EngineInv, PlayerTypes
  <1>. QED BY <1>2, <1>7, <1>8, <1>9 DEF PlayInv

LEMMA PreloadInv ==
    ASSUME PlayInv, NEW n \in Streamers, Preload(n)
    PROVE  PlayInv'
  <1>0. QueueInv /\ SnapInv /\ Counted /\ InTurn /\ EngineInv /\ PlayerTypes
    BY DEF PlayInv
  <1>1. UNCHANGED <<loopPc, engineItem, plays, playing, cur, fired, audio>>
    BY DEF Preload, PreloadStart, PreloadPeek, PreloadGivesUp, PreloadTarget, PreloadAttach,
           PreloadOnly, loopVars
  <1>2. QueueInv' /\ SnapInv' /\ UNCHANGED <<history, current>>
    BY <1>0, QueueStays
       DEF Preload, PreloadStart, PreloadPeek, PreloadGivesUp, PreloadTarget, PreloadAttach, PreloadOnly
  <1>3. Counted' /\ InTurn'
    BY <1>0, <1>1, <1>2 DEF Counted, InTurn
  <1>4. plays \in 0 .. Cardinality(Items)
    BY <1>0, HistoryFits DEF Counted
  <1>5. /\ preloadPc' \in [Streamers -> {"none", "start", "wait", "stream", "attach", "ended"}]
        /\ aim' \in [Streamers -> 0 .. Cardinality(Items)]
    BY <1>0, <1>4
       DEF Preload, PreloadStart, PreloadPeek, PreloadGivesUp, PreloadTarget, PreloadAttach,
           PreloadOnly, PlayerTypes
  <1>6. /\ pick' \in [Streamers -> Items \cup {NoItem}]
        /\ \A k \in Streamers : preloadPc'[k] \in {"stream", "attach"} => pick'[k] \in Items
    <2>1. CASE PreloadPeek(n)
      <3>1. Head(items) \in Items
        BY <1>0, <2>1 DEF PreloadPeek, QueueInv
      <3>2. /\ preloadPc' = [preloadPc EXCEPT ![n] = "stream"]
            /\ pick' = [pick EXCEPT ![n] = Head(items)]
        BY <2>1 DEF PreloadPeek, PreloadOnly
      <3>. QED BY <1>0, <3>1, <3>2 DEF PlayerTypes, EngineInv
    <2>2. CASE PreloadStart(n) \/ PreloadGivesUp(n) \/ PreloadTarget(n) \/ PreloadAttach(n)
      BY <1>0, <2>2
         DEF PreloadStart, PreloadGivesUp, PreloadTarget, PreloadAttach, PreloadOnly,
             PlayerTypes, EngineInv
    <2>. QED BY <2>1, <2>2 DEF Preload
  <1>7. /\ nxt' \in [Streamers -> Sounds \cup {Silence}]
        /\ \A k \in Streamers : nxt'[k].engine # "shared"
    <2>1. CASE PreloadAttach(n)
      <3>. DEFINE snd == [item |-> pick[n], engine |-> "own"]
      <3>1. pick[n] \in Items
        BY <1>0, <2>1 DEF PreloadAttach, EngineInv
      <3>2. snd \in Sounds /\ snd.engine # "shared"
        BY <3>1 DEF Sounds
      <3>3. nxt' = [nxt EXCEPT ![aim[n]] = snd]
        BY <2>1 DEF PreloadAttach
      <3>. HIDE DEF snd
      <3>. QED BY <1>0, <3>2, <3>3 DEF PlayerTypes, EngineInv
    <2>2. CASE ~PreloadAttach(n)
      <3>1. nxt' = nxt
        BY <2>2 DEF Preload, PreloadStart, PreloadPeek, PreloadGivesUp, PreloadTarget
      <3>. QED BY <1>0, <3>1 DEF PlayerTypes, EngineInv
    <2>. QED BY <2>1, <2>2
  <1>8. EngineInv' /\ PlayerTypes'
    BY <1>0, <1>1, <1>5, <1>6, <1>7 DEF EngineInv, PlayerTypes
  <1>. QED BY <1>2, <1>3, <1>8 DEF PlayInv

LEMMA PlaySteps == PlayInv /\ [Next]_vars => PlayInv'
  <1>. SUFFICES ASSUME PlayInv, [Next]_vars PROVE PlayInv'
    OBVIOUS
  <1>1. CASE Loop \/ LoopInterrupt
    BY <1>1, LoopNextInv, LoopPlayInv, LoopMovesInv DEF Loop
  <1>2. CASE Api \/ \E x \in Items : LoopFill(x)
    BY <1>2, ApiInv
  <1>3. ASSUME NEW n \in Streamers, Speaker(n) \/ Preload(n) PROVE PlayInv'
    BY <1>3, SpeakerInv, PreloadInv
  <1>4. CASE UNCHANGED vars
    <2>1. QueueInv' /\ SnapInv' /\ UNCHANGED <<history, current>>
      BY <1>4, QueueStays DEF vars, PlayInv
    <2>. QED BY <1>4, <2>1
             DEF vars, loopVars, playerVars, preloadVars, PlayInv, Counted, InTurn, EngineInv, PlayerTypes
  <1>. QED BY <1>1, <1>2, <1>3, <1>4 DEF Next

LEMMA PlayInvariant == Spec => []PlayInv
  BY PlaybackStarts, PlaySteps, PTL DEF Spec

----------------------------------------------------------------------------
(* The order of the items.                                                 *)

\* The order in a list made of two.
LEMMA BeforeInConcat ==
    ASSUME NEW S, NEW p \in Seq(S), NEW s \in Seq(S), NEW x, NEW y
    PROVE  Before(x, y, p \o s) <=>
             \/ Before(x, y, p)
             \/ x \in ToSet(p) /\ y \in ToSet(s)
             \/ Before(x, y, s)
  <1>. DEFINE t == p \o s
              m == Len(p)
              n == Len(s)
  <1>1. /\ m \in Nat /\ n \in Nat /\ DOMAIN p = 1 .. m /\ DOMAIN s = 1 .. n
        /\ DOMAIN t = 1 .. m + n
        /\ \A i \in 1 .. m : t[i] = p[i]
        /\ \A i \in 1 .. n : t[m + i] = s[i]
    <2>1. /\ t \in Seq(S) /\ Len(t) = m + n
          /\ \A i \in 1 .. m + n : t[i] = IF i <= m THEN p[i] ELSE s[i - m]
      BY ConcatProperties
    <2>2. m \in Nat /\ n \in Nat /\ DOMAIN p = 1 .. m /\ DOMAIN s = 1 .. n /\ DOMAIN t = 1 .. m + n
      BY <2>1
    <2>. HIDE DEF t, m, n
    <2>3. ASSUME NEW i \in 1 .. m PROVE t[i] = p[i]
      BY <2>1, <2>2
    <2>4. ASSUME NEW i \in 1 .. n PROVE t[m + i] = s[i]
      <3>1. m + i \in 1 .. m + n /\ ~(m + i <= m) /\ (m + i) - m = i
        BY <2>2
      <3>. QED BY <2>1, <3>1
    <2>. QED BY <2>2, <2>3, <2>4
  <1>. HIDE DEF t, m, n
  <1>2. ASSUME NEW i \in 1 .. m + n
        PROVE  i \in 1 .. m \/ (i > m /\ i - m \in 1 .. n /\ t[i] = s[i - m])
    <2>1. CASE i <= m
      BY <1>1, <2>1
    <2>2. CASE i > m
      <3>1. i - m \in 1 .. n /\ m + (i - m) = i
        BY <1>1, <2>2
      <3>. QED BY <1>1, <2>2, <3>1
    <2>. QED BY <1>1, <2>1, <2>2
  <1>3. ASSUME Before(x, y, t)
        PROVE  Before(x, y, p) \/ (x \in ToSet(p) /\ y \in ToSet(s)) \/ Before(x, y, s)
    <2>1. PICK i, j \in 1 .. m + n : i < j /\ t[i] = x /\ t[j] = y
      BY <1>1, <1>3 DEF Before
    <2>2. CASE j \in 1 .. m
      <3>1. i \in 1 .. m
        BY <1>1, <2>1, <2>2
      <3>. QED BY <1>1, <2>1, <2>2, <3>1 DEF Before
    <2>3. CASE j \notin 1 .. m
      <3>1. j - m \in 1 .. n /\ s[j - m] = y
        BY <1>2, <2>1, <2>3
      <3>2. CASE i \in 1 .. m
        BY <1>1, <2>1, <3>1, <3>2 DEF ToSet
      <3>3. CASE i \notin 1 .. m
        <4>1. i - m \in 1 .. n /\ s[i - m] = x /\ i - m < j - m
          BY <1>1, <1>2, <2>1, <3>3
        <4>. QED BY <1>1, <3>1, <4>1 DEF Before
      <3>. QED BY <3>2, <3>3
    <2>. QED BY <2>2, <2>3
  <1>4. ASSUME Before(x, y, p) PROVE Before(x, y, t)
    <2>1. PICK i, j \in 1 .. m : i < j /\ p[i] = x /\ p[j] = y
      BY <1>1, <1>4 DEF Before
    <2>. QED BY <1>1, <2>1 DEF Before
  <1>5. ASSUME x \in ToSet(p), y \in ToSet(s) PROVE Before(x, y, t)
    <2>1. PICK i \in 1 .. m, j \in 1 .. n : p[i] = x /\ s[j] = y
      BY <1>1, <1>5 DEF ToSet
    <2>2. i \in 1 .. m + n /\ m + j \in 1 .. m + n /\ i < m + j
      BY <1>1
    <2>. QED BY <1>1, <2>1, <2>2 DEF Before
  <1>6. ASSUME Before(x, y, s) PROVE Before(x, y, t)
    <2>1. PICK i, j \in 1 .. n : i < j /\ s[i] = x /\ s[j] = y
      BY <1>1, <1>6 DEF Before
    <2>2. m + i \in 1 .. m + n /\ m + j \in 1 .. m + n /\ m + i < m + j
      BY <1>1, <2>1
    <2>. QED BY <1>1, <2>1, <2>2 DEF Before
  <1>. QED BY <1>3, <1>4, <1>5, <1>6 DEF t

\* An item inserted anywhere leaves the others in their order.
LEMMA BeforeWhenAdded ==
    ASSUME QueueInv, NEW x \in Items, New(x),
           \/ Enqueue(x) \/ \E pos \in Int : Insert(pos, x)
    PROVE  \A a, b \in Items : Before(a, b, items) => Before(a, b, items')
  <1>. SUFFICES ASSUME NEW a \in Items, NEW b \in Items, Before(a, b, items)
                PROVE  Before(a, b, items')
    OBVIOUS
  <1>. DEFINE n == Len(items)
  <1>1. items \in Seq(Items) /\ IsInjective(items) /\ x \notin ToSet(items)
    BY DEF QueueInv, New
  <1>2. n \in Nat /\ DOMAIN items = 1 .. n
    BY <1>1
  <1>3. PICK i, j \in 1 .. n : i < j /\ items[i] = a /\ items[j] = b
    BY <1>2 DEF Before
  <1>4. PICK k \in 1 .. n + 1 :
          /\ DOMAIN items' = 1 .. n + 1
          /\ \A l \in 1 .. k - 1 : items'[l] = items[l]
          /\ \A l \in k .. n : items'[l + 1] = items[l]
    <2>1. CASE Enqueue(x)
      <3>1. items' = Append(items, x)
        BY <2>1 DEF Enqueue
      <3>2. /\ DOMAIN items' = 1 .. n + 1
            /\ \A l \in 1 .. n : items'[l] = items[l]
        BY <1>1, <3>1
      <3>3. n + 1 \in 1 .. n + 1 /\ (n + 1) - 1 = n /\ n + 1 .. n = {}
        BY <1>2
      <3>. QED BY <3>2, <3>3
    <2>2. ASSUME NEW pos \in Int, Insert(pos, x)
          PROVE  \E k \in 1 .. n + 1 :
                   /\ DOMAIN items' = 1 .. n + 1
                   /\ \A l \in 1 .. k - 1 : items'[l] = items[l]
                   /\ \A l \in k .. n : items'[l + 1] = items[l]
      <3>. DEFINE k == IF pos < 0 THEN 1 ELSE IF pos >= n THEN n + 1 ELSE pos + 1
      <3>1. k \in 1 .. n + 1
        BY <1>2
      <3>2. items' = InsertAt(items, k, x)
        BY <2>2 DEF Insert
      <3>. HIDE DEF k
      <3>3. /\ InsertAt(items, k, x) \in Seq(Items)
            /\ Len(InsertAt(items, k, x)) = n + 1
            /\ \A l \in 1 .. k - 1 : InsertAt(items, k, x)[l] = items[l]
            /\ \A l \in k .. n : InsertAt(items, k, x)[l + 1] = items[l]
        BY <1>1, <3>1, InsertedInList
      <3>4. DOMAIN items' = 1 .. n + 1
        BY <3>2, <3>3
      <3>. QED BY <3>1, <3>2, <3>3, <3>4
    <2>. QED BY <2>1, <2>2
  <1>. HIDE DEF n
  <1>. DEFINE to(l) == IF l < k THEN l ELSE l + 1
  <1>5. \A l \in 1 .. n : to(l) \in 1 .. n + 1 /\ items'[to(l)] = items[l]
    <2>. SUFFICES ASSUME NEW l \in 1 .. n
                  PROVE  to(l) \in 1 .. n + 1 /\ items'[to(l)] = items[l]
      OBVIOUS
    <2>1. CASE l < k
      <3>1. l \in 1 .. k - 1 /\ l \in 1 .. n + 1 /\ to(l) = l
        BY <1>2, <2>1
      <3>. QED BY <1>4, <3>1
    <2>2. CASE ~(l < k)
      <3>1. l \in k .. n /\ l + 1 \in 1 .. n + 1 /\ to(l) = l + 1
        BY <1>2, <2>2
      <3>. QED BY <1>4, <3>1
    <2>. QED BY <2>1, <2>2
  <1>6. to(i) < to(j)
    BY <1>2, <1>3
  <1>. HIDE DEF to
  <1>. QED BY <1>3, <1>4, <1>5, <1>6 DEF Before

\* The queue and what it has played, as one list.
LEMMA LineOfQueue ==
    ASSUME QueueInv
    PROVE  items \in Seq(Items) /\ Played \in Seq(Items)
  <1>1. items \in Seq(Items) /\ history \in Seq(Items) /\ current \in Items \cup {NoItem}
    BY DEF QueueInv
  <1>. QED BY <1>1, AppendProperties DEF Played

\* Taking an item moves none.
LEMMA LineWhenTaken ==
    ASSUME QueueInv, TakeNext
    PROVE  Line' = Line
  <1>1. items \in Seq(Items) /\ Played \in Seq(Items)
    BY LineOfQueue
  <1>2. history' = Played
    BY DEF TakeNext, Retire, Played
  <1>3. CASE items = << >>
    BY <1>2, <1>3 DEF TakeNext, Line, Played
  <1>4. CASE items # << >>
    <2>. DEFINE x == Head(items)
    <2>1. x \in Items /\ Tail(items) \in Seq(Items) /\ <<x>> \in Seq(Items)
      BY <1>1, <1>4, HeadTailProperties
    <2>2. current' = x /\ items' = Tail(items) /\ x # NoItem
      BY <1>4, <2>1, PlayQueueAssumption DEF TakeNext
    <2>3. Played' = Append(Played, x)
      BY <1>2, <2>2 DEF Played
    <2>4. Append(Played, x) = Played \o <<x>>
      BY <1>1, <2>1, AppendIsConcat
    <2>5. <<x>> \o Tail(items) = items
      BY <1>1, <1>4
    <2>. HIDE DEF x
    <2>6. (Played \o <<x>>) \o Tail(items) = Played \o (<<x>> \o Tail(items))
      BY <1>1, <2>1, ConcatAssociative
    <2>. QED BY <2>2, <2>3, <2>4, <2>5, <2>6 DEF Line
  <1>. QED BY <1>3, <1>4

\* What a step makes of the order of two items.
KeepsOrder ==
    \A x, y \in Items : Before(x, y, Line) =>
        Before(x, y, Line') \/ (HandleClear /\ y \in ToSet(items))

LEMMA OrderWhenAdded ==
    ASSUME QueueInv, NEW x \in Items, New(x),
           \/ Enqueue(x) \/ \E pos \in Int : Insert(pos, x)
    PROVE  KeepsOrder
  <1>1. items \in Seq(Items) /\ Played \in Seq(Items)
    BY LineOfQueue
  <1>2. Played' = Played
    BY DEF Played, Enqueue, Insert
  <1>3. items' \in Seq(Items) /\ ToSet(items) \subseteq ToSet(items')
    <2>1. items \in Seq(Items) /\ IsInjective(items) /\ Len(items) \in Nat /\ x \notin ToSet(items)
      BY DEF QueueInv, New
    <2>2. CASE Enqueue(x)
      BY <2>1, <2>2, AppendedToList DEF Enqueue
    <2>3. ASSUME NEW pos \in Int, Insert(pos, x)
          PROVE  items' \in Seq(Items) /\ ToSet(items) \subseteq ToSet(items')
      <3>. DEFINE k == IF pos < 0 THEN 1 ELSE IF pos >= Len(items) THEN Len(items) + 1 ELSE pos + 1
      <3>1. k \in 1 .. Len(items) + 1
        BY <2>1
      <3>2. items' = InsertAt(items, k, x)
        BY <2>3 DEF Insert
      <3>. HIDE DEF k
      <3>. QED BY <2>1, <3>1, <3>2, InsertedInList
    <2>. QED BY <2>2, <2>3
  <1>4. \A a, b \in Items : Before(a, b, items) => Before(a, b, items')
    BY BeforeWhenAdded
  <1>5. ASSUME NEW a \in Items, NEW b \in Items, Before(a, b, Line)
        PROVE  Before(a, b, Line')
    <2>1. \/ Before(a, b, Played)
          \/ a \in ToSet(Played) /\ b \in ToSet(items)
          \/ Before(a, b, items)
      BY <1>1, <1>5, BeforeInConcat DEF Line
    <2>2. \/ Before(a, b, Played)
          \/ a \in ToSet(Played) /\ b \in ToSet(items')
          \/ Before(a, b, items')
      BY <1>3, <1>4, <2>1
    <2>3. Before(a, b, Played \o items')
      BY <1>1, <1>3, <2>2, BeforeInConcat
    <2>. QED BY <1>2, <2>3 DEF Line
  <1>. QED BY <1>5 DEF KeepsOrder

LEMMA OrderWhenCleared ==
    ASSUME QueueInv, HandleClear
    PROVE  KeepsOrder
  <1>1. items \in Seq(Items) /\ Played \in Seq(Items)
    BY LineOfQueue
  <1>2. Played' = Played /\ items' = << >>
    BY DEF HandleClear, Clear, Played
  <1>3. Line' = Played
    BY <1>1, <1>2, ConcatEmptySeq DEF Line
  <1>4. ASSUME NEW a \in Items, NEW b \in Items, Before(a, b, Line), b \notin ToSet(items)
        PROVE  Before(a, b, Played)
    <2>1. ~Before(a, b, items)
      BY <1>4 DEF Before, ToSet
    <2>. QED BY <1>1, <1>4, <2>1, BeforeInConcat DEF Line
  <1>. QED BY <1>3, <1>4 DEF KeepsOrder

LEMMA OrderKept ==
    ASSUME QueueInv, [Next]_vars
    PROVE  KeepsOrder
  <1>1. ASSUME UNCHANGED queueVars PROVE KeepsOrder
    <2>1. Line' = Line
      BY <1>1 DEF queueVars, Line, Played
    <2>. QED BY <2>1 DEF KeepsOrder
  <1>2. ASSUME LoopNext PROVE KeepsOrder
    <2>1. Line' = Line
      BY <1>2, LineWhenTaken DEF LoopNext
    <2>. QED BY <2>1 DEF KeepsOrder
  <1>3. ASSUME NEW x \in Items, LoopFill(x) PROVE KeepsOrder
    BY <1>3, OrderWhenAdded DEF LoopFill
  <1>4. ASSUME Api PROVE KeepsOrder
    <2>1. ASSUME NEW x \in Items, HandleEnqueue(x) PROVE KeepsOrder
      BY <2>1, OrderWhenAdded DEF HandleEnqueue
    <2>2. ASSUME NEW x \in Items, NEW pos \in -1 .. Len(items) + 1, HandleInsert(pos, x)
          PROVE  KeepsOrder
      <3>1. pos \in Int
        BY DEF QueueInv
      <3>. QED BY <2>2, <3>1, OrderWhenAdded DEF HandleInsert
    <2>3. CASE GetQueueCurrent \/ GetQueueUpcoming
      BY <1>1, <2>3 DEF GetQueueCurrent, GetQueueUpcoming
    <2>. QED BY <1>4, <2>1, <2>2, <2>3, OrderWhenCleared DEF Api
  <1>5. ASSUME NEW n \in Streamers, Speaker(n) \/ Preload(n) PROVE UNCHANGED queueVars
    BY <1>5 DEF Speaker, Exhaust, CloseDone, PlayReturns, Preload, PreloadStart, PreloadPeek,
                PreloadGivesUp, PreloadTarget, PreloadAttach, PreloadOnly
  <1>6. ASSUME Loop \/ LoopInterrupt, ~LoopNext PROVE UNCHANGED queueVars
    BY <1>6 DEF Loop, LoopBegin, LoopStream, LoopPlay, LoopPlayFails, LoopPoll, LoopInterrupt
  <1>. QED BY <1>1, <1>2, <1>3, <1>4, <1>5, <1>6 DEF Next, vars

----------------------------------------------------------------------------
(* The theorems.                                                           *)

\* Every variable stays in its type: no item is twice in the queue or in the
\* history, and there are no more streamers than items.
THEOREM PlaybackTypeCorrect == Spec => []TypeOK
  <1>1. ASSUME PlayInv PROVE TypeOK
    <2>1. plays \in 0 .. Cardinality(Items)
      BY <1>1, HistoryFits DEF PlayInv, Counted
    <2>. QED BY <1>1, <2>1 DEF PlayInv, QueueInv, SnapInv, PlayerTypes, TypeOK
  <1>. QED BY PlayInvariant, <1>1, PTL

\* Two tracks never sound at the same time.
THEOREM OneTrackAtATime == Spec => []OneTrackSounds
  <1>1. ASSUME PlayInv PROVE OneTrackSounds
    <2>. SUFFICES ASSUME NEW m \in Streamers, NEW n \in Streamers,
                         audio[m] = "sounding", audio[n] = "sounding"
                  PROVE  m = n
      BY DEF OneTrackSounds
    <2>1. m \in Nat /\ n \in Nat /\ plays \in Nat
      BY <1>1 DEF PlayInv, Counted, Streamers
    <2>2. ~(m > plays) /\ ~(m < plays) /\ ~(n > plays) /\ ~(n < plays)
      BY <1>1 DEF PlayInv, InTurn
    <2>. QED BY <2>1, <2>2
  <1>. QED BY PlayInvariant, <1>1, PTL

\* The shared engine streams the track that sounds from it.
THEOREM EngineIsNotTakenAway == Spec => []EngineServesWhatSounds
  <1>1. ASSUME PlayInv PROVE EngineServesWhatSounds
    <2>. SUFFICES ASSUME NEW n \in Streamers, Running, audio[n] = "sounding", cur[n].engine = "shared"
                  PROVE  engineItem = cur[n].item
      BY DEF EngineServesWhatSounds
    <2>1. n = plays /\ loopPc = "playing"
      BY <1>1, OnlyLastWorks
    <2>. QED BY <1>1, <2>1 DEF PlayInv, EngineInv
  <1>. QED BY PlayInvariant, <1>1, PTL

\* GET /queue never shows one item as current and as upcoming.
THEOREM SnapshotIsFresh == Spec => []SnapshotShowsNoItemTwice
  <1>1. ASSUME PlayInv PROVE SnapshotShowsNoItemTwice
    <2>1. NoItem \notin ToSet(items)
      BY <1>1, PlayQueueAssumption DEF PlayInv, QueueInv
    <2>. QED BY <1>1, <2>1 DEF PlayInv, SnapInv, SnapshotShowsNoItemTwice
  <1>. QED BY PlayInvariant, <1>1, PTL
\* Two items keep their order from the day both are in the queue to the end of
\* the history, unless the API drops the later one with the rest of the queue.
THEOREM OrderIsKept == Spec => LineKeepsOrder
  <1>1. ASSUME PlayInv, [Next]_vars
        PROVE  [\A x, y \in Items : Before(x, y, Line) =>
                  Before(x, y, Line') \/ (HandleClear /\ y \in ToSet(items))]_vars
    BY <1>1, OrderKept DEF PlayInv, KeepsOrder
  <1>. QED BY PlayInvariant, <1>1, PTL DEF Spec, LineKeepsOrder

=============================================================================

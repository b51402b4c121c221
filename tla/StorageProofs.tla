--------------------------- MODULE StorageProofs ---------------------------
(***************************************************************************)
(* What the scan for frames and the grouping into chunks compute, for      *)
(* every file, header size, chunk size and table of rates.  Both are       *)
(* defined by recursion on positions; the induction is by the least        *)
(* position at which a claim fails (LeastNat), and for the scan, which     *)
(* looks ahead, by the last one.                                           *)
(***************************************************************************)
EXTENDS Storage, WellFoundedInduction, SequenceTheorems, FiniteSetTheorems, TLAPS

----------------------------------------------------------------------------
(* Numbers.                                                                *)

LEMMA LeastNat ==
    ASSUME NEW T \in SUBSET Nat, T # {}
    PROVE  \E n \in T : \A m \in T : n <= m
  <1>. DEFINE R == {ss \in Nat \X Nat : ss[1] < ss[2]}
  <1>1. IsWellFoundedOn(R, Nat)
    BY NatLessThanWellFounded DEF OpToRel
  <1>2. \E x \in T : \A y \in T : <<y, x>> \notin R
    BY <1>1, WFMin, Zenon
  <1>3. \A x, y \in T : <<y, x>> \notin R => x <= y
    OBVIOUS
  <1>. QED BY <1>2, <1>3

\* If a claim that fails at a position fails at a later one too, up to n, it
\* fails nowhere.
LEMMA NoLastFailure ==
    ASSUME NEW n \in Nat, NEW T \in SUBSET (1 .. n),
           \A i \in T : \E j \in T : j > i
    PROVE  T = {}
  <1>. SUFFICES ASSUME T # {} PROVE FALSE
    OBVIOUS
  <1>. DEFINE D == {n - i : i \in T}
  <1>. \A i \in T : i \in 1 .. n
    OBVIOUS
  <1>1. D \in SUBSET Nat /\ D # {}
    <2>1. \A i \in T : n - i \in Nat /\ n - i \in D
      OBVIOUS
    <2>2. \A d \in D : \E i \in T : d = n - i
      OBVIOUS
    <2>. QED BY <2>1, <2>2
  <1>2. PICK d \in D : \A e \in D : d <= e
    BY <1>1, LeastNat
  <1>3. PICK i \in T : d = n - i
    OBVIOUS
  <1>4. PICK j \in T : j > i
    BY <1>3
  <1>5. n - j \in D
    BY <1>4
  <1>6. i \in Int /\ j \in Int /\ d <= n - j
    BY <1>2, <1>5
  <1>. QED BY <1>3, <1>4, <1>6

----------------------------------------------------------------------------
(* Headers.                                                                *)

LEMMA FrameSizeType ==
    ASSUME NEW h \in Headers
    PROVE  mp3FrameSize(h) \in Nat
  <1>. DEFINE v == h.version
              l == h.layer
              b == h.bitrateIdx
              r == h.sampleIdx
  <1>1. h.padding \in Nat /\ b \in 0 .. 15 /\ r \in 0 .. 3
    BY DEF Headers
  <1>2. CASE b \in {0, 15} \/ r = 3 \/ v \notin DOMAIN Bitrates \/ l \notin DOMAIN Bitrates[v]
    BY <1>2 DEF mp3FrameSize
  <1>3. CASE b \in 1 .. 14 /\ r \in 0 .. 2 /\ v \in DOMAIN Bitrates /\ l \in DOMAIN Bitrates[v]
    <2>. DEFINE bitrate == 1000 * Bitrates[v][l][b]
                rate == SampleRates[v][r]
    <2>1. bitrate \in Nat /\ rate \in Nat \ {0}
      <3>1. Bitrates[v][l][b] \in Nat
        BY <1>3, StorageAssumption
      <3>2. rate \in Nat \ {0}
        BY <1>3, StorageAssumption
      <3>3. \A x \in Nat : 1000 * x \in Nat
        OBVIOUS
      <3>. QED BY <3>1, <3>2, <3>3
    <2>. HIDE DEF bitrate, rate
    <2>2. (12 * bitrate) \div rate \in Nat /\ (144 * bitrate) \div rate \in Nat
      BY <2>1
    <2>3. h.padding \in Nat
      BY <1>1
    <2>4. mp3FrameSize(h) = IF l = 3 THEN ((12 * bitrate) \div rate + h.padding) * 4
                            ELSE (144 * bitrate) \div rate + h.padding
      BY <1>3 DEF mp3FrameSize, bitrate, rate
    <2>. QED BY <2>2, <2>3, <2>4
  <1>. QED BY <1>1, <1>2, <1>3

LEMMA SizeType ==
    ASSUME NEW file \in Files, NEW i \in 1 .. Len(file) + 1
    PROVE  Size(file, i) \in Nat
  <1>1. file \in Seq(Headers \cup {Junk}) /\ HeaderSize \in Nat \ {0}
    BY StorageAssumption
  <1>2. CASE i <= Len(file) - HeaderSize + 1 /\ file[i] # Junk
    <2>1. file[i] \in Headers
      BY <1>1, <1>2
    <2>. QED BY <1>2, <2>1, FrameSizeType DEF Size
  <1>. QED BY <1>2 DEF Size

\* A frame lies in the file.
LEMMA FrameFits ==
    ASSUME NEW file \in Files, NEW i \in 1 .. Len(file) + 1, FrameAt(file, i)
    PROVE  /\ Size(file, i) \in Nat \ {0}
           /\ i <= Len(file)
           /\ i + Size(file, i) \in i + 1 .. Len(file) + 1
  <1>1. Len(file) \in Nat
    BY StorageAssumption, LenProperties
  <1>. QED BY <1>1, SizeType DEF FrameAt

----------------------------------------------------------------------------
(* The scan.                                                               *)

ScanStep(file, s, i) ==
    IF i > Len(file) THEN << >>
    ELSE IF FrameAt(file, i)
         THEN <<<<i, i + Size(file, i) - 1>>>> \o s[i + Size(file, i)]
         ELSE s[i + 1]

\* s is the scan from position k on.
Scans(file, s, k) == s = [i \in k .. Len(file) + 1 |-> ScanStep(file, s, i)]

\* The recursive definition has a solution.
LEMMA ScanExists ==
    ASSUME NEW file \in Files
    PROVE  \E s : Scans(file, s, 1)
  <1>. DEFINE L == Len(file)
              T == {k \in 1 .. L + 1 : ~ \E s : Scans(file, s, k)}
  <1>1. L \in Nat
    BY StorageAssumption, LenProperties
  <1>2. \A k \in T : \E j \in T : j > k
    <2>. SUFFICES ASSUME NEW k \in T PROVE \E j \in T : j > k
      OBVIOUS
    <2>1. k # L + 1
      <3>. SUFFICES ASSUME k = L + 1 PROVE FALSE
        OBVIOUS
      <3>. DEFINE s == [i \in L + 1 .. L + 1 |-> << >>]
      <3>1. \A i \in L + 1 .. L + 1 : ScanStep(file, s, i) = << >>
        BY <1>1 DEF ScanStep
      <3>2. s = [i \in L + 1 .. L + 1 |-> ScanStep(file, s, i)]
        BY <3>1
      <3>3. Scans(file, s, k)
        BY <3>2 DEF Scans
      <3>. QED BY <3>3
    <2>2. k \in 1 .. L /\ k + 1 \in 1 .. L + 1 /\ k + 1 > k
      BY <1>1, <2>1
    <2>3. ASSUME NEW g, Scans(file, g, k + 1) PROVE FALSE
      <3>. DEFINE s == [i \in k .. L + 1 |-> IF i = k THEN ScanStep(file, g, k) ELSE g[i]]
      <3>1. \A i \in k + 1 .. L + 1 : s[i] = g[i]
        BY <2>2, <1>1
      <3>2. \A i \in k .. L + 1 : ScanStep(file, s, i) = ScanStep(file, g, i)
        <4>. SUFFICES ASSUME NEW i \in k .. L + 1
                      PROVE  ScanStep(file, s, i) = ScanStep(file, g, i)
          OBVIOUS
        <4>. SUFFICES ASSUME i <= L
                      PROVE  ScanStep(file, s, i) = ScanStep(file, g, i)
          <5>1. i > L => ScanStep(file, s, i) = ScanStep(file, g, i)
            BY DEF ScanStep
          <5>. QED BY <1>1, <2>2, <5>1
        <4>1. i + 1 \in k + 1 .. L + 1
          BY <1>1, <2>2
        <4>2. FrameAt(file, i) => i + Size(file, i) \in k + 1 .. L + 1
          BY <1>1, <2>2, FrameFits
        <4>3. s[i + 1] = g[i + 1] /\ (FrameAt(file, i) => s[i + Size(file, i)] = g[i + Size(file, i)])
          BY <3>1, <4>1, <4>2
        <4>. HIDE DEF s
        <4>. QED BY <4>3 DEF ScanStep
      <3>3. \A i \in k + 1 .. L + 1 : g[i] = ScanStep(file, g, i)
        BY <2>3 DEF Scans
      <3>4. s = [i \in k .. L + 1 |-> ScanStep(file, s, i)]
        <4>1. \A i \in k .. L + 1 : s[i] = ScanStep(file, g, i)
          BY <1>1, <2>2, <3>3
        <4>2. \A i \in k .. L + 1 : s[i] = ScanStep(file, s, i)
          BY <3>2, <4>1
        <4>3. s = [i \in k .. L + 1 |-> s[i]]
          OBVIOUS
        <4>. HIDE DEF s
        <4>. QED BY <4>2, <4>3
      <3>. QED BY <3>4 DEF Scans
    <2>. QED BY <2>2, <2>3
  <1>3. L + 1 \in Nat /\ T \in SUBSET (1 .. L + 1) /\ 1 \in 1 .. L + 1
    BY <1>1
  <1>. HIDE DEF T
  <1>4. T = {}
    BY <1>2, <1>3, NoLastFailure
  <1>. USE DEF T
  <1>. QED BY <1>3, <1>4

LEMMA ScanResult ==
    ASSUME NEW file \in Files
    PROVE  \E s : Scans(file, s, 1) /\ extractMP3Frames(file) = s[1]
  <1>. DEFINE d == CHOOSE s : Scans(file, s, 1)
  <1>1. Scans(file, d, 1)
    BY ScanExists
  <1>2. extractMP3Frames(file) = d[1]
    BY DEF extractMP3Frames, Scans, ScanStep
  <1>. QED BY <1>1, <1>2

\* r are the frames from position i on: frames, in order, none left out but
\* those that start inside another.
FramesFrom(file, i, r) ==
    /\ r \in Seq(Nat \X Nat)
    /\ \A j \in DOMAIN r :
         /\ r[j][1] \in i .. Len(file)
         /\ FrameAt(file, r[j][1])
         /\ r[j][2] = r[j][1] + Size(file, r[j][1]) - 1
    /\ \A j, k \in DOMAIN r : j < k => r[j][2] < r[k][1]
    /\ \A p \in i .. Len(file) :
         FrameAt(file, p) => \E j \in DOMAIN r : r[j][1] <= p /\ p <= r[j][2]

\* A frame in front of the frames that follow it.
LEMMA FrameAhead ==
    ASSUME NEW file \in Files, NEW i \in 1 .. Len(file), FrameAt(file, i),
           NEW r, FramesFrom(file, i + Size(file, i), r)
    PROVE  FramesFrom(file, i, <<<<i, i + Size(file, i) - 1>>>> \o r)
  <1>. DEFINE L == Len(file)
              z == Size(file, i)
              f == <<i, i + z - 1>>
              q == <<f>> \o r
  <1>1. L \in Nat
    BY StorageAssumption, LenProperties
  <1>2. z \in Nat \ {0} /\ i + z \in i + 1 .. L + 1
    BY <1>1, FrameFits
  <1>3. r \in Seq(Nat \X Nat) /\ Len(r) \in Nat /\ DOMAIN r = 1 .. Len(r)
    BY DEF FramesFrom
  <1>4. f \in Nat \X Nat /\ f[1] = i /\ f[2] = i + z - 1
    BY <1>1, <1>2
  <1>. HIDE DEF f, z
  <1>5. /\ q \in Seq(Nat \X Nat)
        /\ DOMAIN q = 1 .. Len(r) + 1
        /\ q[1] = f
        /\ \A j \in 2 .. Len(r) + 1 : q[j] = r[j - 1]
    BY <1>3, <1>4
  <1>. HIDE DEF q
  <1>6. ASSUME NEW j \in DOMAIN q, j # 1
         PROVE  j \in Int /\ j - 1 \in DOMAIN r /\ q[j] = r[j - 1]
    <2>. DEFINE n == Len(r)
    <2>1. n \in Nat /\ j \in 1 .. n + 1
      BY <1>3, <1>5
    <2>. HIDE DEF n
    <2>2. j \in 2 .. n + 1 /\ j - 1 \in 1 .. n
      BY <2>1, <1>6
    <2>. QED BY <2>2, <1>3, <1>5 DEF n
  <1>7. ASSUME NEW j \in DOMAIN r
         PROVE  j + 1 \in DOMAIN q /\ q[j + 1] = r[j]
    <2>. DEFINE n == Len(r)
    <2>1. n \in Nat /\ j \in 1 .. n
      BY <1>3
    <2>. HIDE DEF n
    <2>2. j + 1 \in 2 .. n + 1 /\ j + 1 \in 1 .. n + 1 /\ (j + 1) - 1 = j
      BY <2>1
    <2>. QED BY <2>2, <1>3, <1>5 DEF n
  <1>8. ASSUME NEW j \in DOMAIN q
        PROVE  /\ q[j][1] \in i .. L
               /\ FrameAt(file, q[j][1])
               /\ q[j][2] = q[j][1] + Size(file, q[j][1]) - 1
    <2>1. CASE j = 1
      BY <2>1, <1>1, <1>2, <1>4, <1>5 DEF z
    <2>2. CASE j # 1
      <3>1. j - 1 \in DOMAIN r /\ q[j] = r[j - 1]
        BY <2>2, <1>6
      <3>2. /\ r[j - 1][1] \in i + z .. L
            /\ FrameAt(file, r[j - 1][1])
            /\ r[j - 1][2] = r[j - 1][1] + Size(file, r[j - 1][1]) - 1
        BY <3>1 DEF FramesFrom, z
      <3>. QED BY <3>1, <3>2, <1>1, <1>2
    <2>. QED BY <2>1, <2>2
  <1>9. ASSUME NEW j \in DOMAIN q, NEW k \in DOMAIN q, j < k
        PROVE  q[j][2] < q[k][1]
    <2>. j \in 1 .. Len(r) + 1 /\ k \in 1 .. Len(r) + 1 /\ Len(r) \in Nat
      BY <1>3, <1>5
    <2>1. k - 1 \in DOMAIN r /\ q[k] = r[k - 1]
      <3>1. k # 1
        BY <1>9
      <3>. QED BY <3>1, <1>6
    <2>2. CASE j = 1
      <3>1. r[k - 1][1] \in i + z .. L
        BY <2>1 DEF FramesFrom, z
      <3>2. q[j][2] = i + z - 1
        BY <2>2, <1>4, <1>5
      <3>3. i \in Int /\ z \in Int /\ r[k - 1][1] \in Int /\ r[k - 1][1] >= i + z
        BY <3>1, <1>1, <1>2
      <3>4. i + z - 1 < r[k - 1][1]
        BY <3>3
      <3>. QED BY <2>1, <3>2, <3>4
    <2>3. CASE j # 1
      <3>1. j - 1 \in DOMAIN r /\ q[j] = r[j - 1] /\ j - 1 < k - 1
        BY <2>3, <1>9, <1>6
      <3>. QED BY <2>1, <3>1 DEF FramesFrom
    <2>. QED BY <2>2, <2>3
  <1>10. ASSUME NEW p \in i .. L, FrameAt(file, p)
        PROVE  \E j \in DOMAIN q : q[j][1] <= p /\ p <= q[j][2]
    <2>1. CASE p <= i + z - 1
      <3>1. 1 \in DOMAIN q /\ q[1][1] <= p /\ p <= q[1][2]
        BY <2>1, <1>3, <1>4, <1>5
      <3>. QED BY <3>1
    <2>2. CASE p > i + z - 1
      <3>1. p \in i + z .. L
        BY <2>2, <1>1, <1>2
      <3>2. PICK j \in DOMAIN r : r[j][1] <= p /\ p <= r[j][2]
        BY <3>1, <1>10 DEF FramesFrom, z
      <3>3. j + 1 \in DOMAIN q /\ q[j + 1] = r[j]
        BY <1>7
      <3>. QED BY <3>2, <3>3
    <2>. QED BY <2>1, <2>2, <1>1, <1>2
  <1>11. FramesFrom(file, i, q)
    BY <1>5, <1>8, <1>9, <1>10 DEF FramesFrom
  <1>. QED BY <1>11 DEF q, f, z

LEMMA ScanCorrect ==
    ASSUME NEW file \in Files, NEW s, Scans(file, s, 1)
    PROVE  \A i \in 1 .. Len(file) + 1 : FramesFrom(file, i, s[i])
  <1>. DEFINE L == Len(file)
              T == {i \in 1 .. L + 1 : ~ FramesFrom(file, i, s[i])}
  <1>1. L \in Nat
    BY StorageAssumption, LenProperties
  <1>2. \A i \in 1 .. L + 1 : s[i] = ScanStep(file, s, i)
    BY DEF Scans
  <1>3. \A i \in T : \E j \in T : j > i
    <2>. SUFFICES ASSUME NEW i \in T PROVE \E j \in T : j > i
      OBVIOUS
    <2>1. i # L + 1
      <3>. SUFFICES ASSUME i = L + 1 PROVE FALSE
        OBVIOUS
      <3>1. s[i] = << >>
        <4>1. s[L + 1] = ScanStep(file, s, L + 1) /\ L + 1 > L
          BY <1>1, <1>2
        <4>. QED BY <4>1 DEF ScanStep
      <3>2. FramesFrom(file, i, << >>)
        BY <1>1 DEF FramesFrom
      <3>. QED BY <3>1, <3>2
    <2>2. i \in 1 .. L /\ ~(i > L)
      BY <1>1, <2>1
    <2>3. CASE FrameAt(file, i)
      <3>1. i + Size(file, i) \in i + 1 .. L + 1
        BY <1>1, <2>3, FrameFits
      <3>2. s[i] = <<<<i, i + Size(file, i) - 1>>>> \o s[i + Size(file, i)]
        BY <1>2, <2>2, <2>3 DEF ScanStep
      <3>3. i + Size(file, i) \in T
        <4>1. i + Size(file, i) \in 1 .. L + 1
          BY <1>1, <2>2, <3>1
        <4>2. FramesFrom(file, i + Size(file, i), s[i + Size(file, i)]) => FramesFrom(file, i, s[i])
          BY <2>2, <2>3, <3>2, FrameAhead
        <4>. QED BY <4>1, <4>2
      <3>. QED BY <1>1, <3>1, <3>3
    <2>4. CASE ~FrameAt(file, i)
      <3>1. s[i] = s[i + 1]
        BY <1>2, <2>2, <2>4 DEF ScanStep
      <3>2. ASSUME NEW r, FramesFrom(file, i + 1, r) PROVE FramesFrom(file, i, r)
        <4>1. \A j \in DOMAIN r : r[j][1] \in i .. L
          BY <3>2, <1>1, <2>2 DEF FramesFrom
        <4>2. \A p \in i .. L : FrameAt(file, p) => p \in i + 1 .. L
          BY <1>1, <2>2, <2>4
        <4>. QED BY <3>2, <4>1, <4>2 DEF FramesFrom
      <3>3. i + 1 \in T
        BY <1>1, <2>2, <3>1, <3>2
      <3>. QED BY <1>1, <3>3
    <2>. QED BY <2>3, <2>4
  <1>4. L + 1 \in Nat /\ T \in SUBSET (1 .. L + 1)
    BY <1>1
  <1>. HIDE DEF T
  <1>5. T = {}
    BY <1>3, <1>4, NoLastFailure
  <1>. USE DEF T
  <1>. QED BY <1>5

\* extractMP3Frames returns the frames of the file.
LEMMA ExtractIsScan ==
    ASSUME NEW file \in Files
    PROVE  FramesFrom(file, 1, extractMP3Frames(file))
  <1>1. Len(file) \in Nat
    BY StorageAssumption, LenProperties
  <1>. QED BY <1>1, ScanResult, ScanCorrect

----------------------------------------------------------------------------
(* The frames of a file, without a scan.                                   *)

\* What FrameStarts chooses.
AreStarts(file, S) ==
    \A i \in DOMAIN file :
        i \in S <=> /\ FrameAt(file, i)
                    /\ \A j \in S : j < i => j + Size(file, j) <= i

\* It leaves no choice: two answers agree up to each position.
LEMMA StartsUnique ==
    ASSUME NEW file \in Files,
           NEW S \in SUBSET DOMAIN file, NEW U \in SUBSET DOMAIN file,
           AreStarts(file, S), AreStarts(file, U)
    PROVE  S = U
  <1>. DEFINE T == {i \in DOMAIN file : ~(i \in S <=> i \in U)}
  <1>1. DOMAIN file \subseteq Nat
    BY StorageAssumption, LenProperties
  <1>2. SUFFICES ASSUME T # {} PROVE FALSE
    OBVIOUS
  <1>3. T \in SUBSET Nat
    BY <1>1
  <1>. HIDE DEF T
  <1>4. PICK i \in T : \A m \in T : i <= m
    BY <1>2, <1>3, LeastNat
  <1>. USE DEF T
  <1>5. \A j \in DOMAIN file : j < i => (j \in S <=> j \in U)
    BY <1>1, <1>3, <1>4
  <1>6. i \in S <=> i \in U
    BY <1>5 DEF AreStarts
  <1>. QED BY <1>4, <1>6

Starts(frames) == {frames[j][1] : j \in DOMAIN frames}

LEMMA ScanStarts ==
    ASSUME NEW file \in Files, NEW r, FramesFrom(file, 1, r)
    PROVE  Starts(r) \subseteq DOMAIN file /\ AreStarts(file, Starts(r))
  <1>. DEFINE L == Len(file)
  <1>1. L \in Nat /\ DOMAIN file = 1 .. L
    BY StorageAssumption, LenProperties
  <1>2. Len(r) \in Nat /\ DOMAIN r = 1 .. Len(r)
    BY DEF FramesFrom
  <1>3. \A j \in DOMAIN r : r[j][1] \in 1 .. L
    BY DEF FramesFrom
  <1>4. ASSUME NEW j \in DOMAIN r
        PROVE  /\ r[j][1] \in 1 .. L /\ FrameAt(file, r[j][1])
               /\ Size(file, r[j][1]) \in Nat \ {0}
               /\ r[j][2] = r[j][1] + Size(file, r[j][1]) - 1
    <2>1. r[j][1] \in 1 .. L /\ FrameAt(file, r[j][1])
      BY DEF FramesFrom
    <2>2. r[j][1] \in 1 .. L + 1
      BY <1>1, <2>1
    <2>. QED BY <2>1, <2>2, FrameFits DEF FramesFrom
  <1>5. ASSUME NEW j \in DOMAIN r, NEW k \in DOMAIN r, r[j][1] < r[k][1]
        PROVE  r[j][1] + Size(file, r[j][1]) <= r[k][1]
    <2>1. j # k
      BY <1>3, <1>5
    <2>2. ~(k < j)
      <3>1. SUFFICES ASSUME k < j PROVE FALSE
        OBVIOUS
      <3>2. r[k][2] < r[j][1]
        BY <3>1 DEF FramesFrom
      <3>. QED BY <1>4, <1>5, <3>2
    <2>3. j < k
      BY <1>2, <2>1, <2>2
    <2>4. r[j][2] < r[k][1]
      BY <2>3 DEF FramesFrom
    <2>. QED BY <1>4, <2>4
  <1>6. ASSUME NEW i \in DOMAIN file, i \in Starts(r)
        PROVE  FrameAt(file, i) /\ \A j \in Starts(r) : j < i => j + Size(file, j) <= i
    BY <1>4, <1>5, <1>6 DEF Starts
  <1>7. ASSUME NEW i \in DOMAIN file, FrameAt(file, i),
               \A j \in Starts(r) : j < i => j + Size(file, j) <= i
        PROVE  i \in Starts(r)
    <2>1. PICK j \in DOMAIN r : r[j][1] <= i /\ i <= r[j][2]
      BY <1>1, <1>7 DEF FramesFrom
    <2>2. r[j][1] \in Starts(r)
      BY DEF Starts
    <2>3. ~(r[j][1] < i)
      BY <1>1, <1>4, <1>7, <2>1, <2>2
    <2>. QED BY <1>1, <1>3, <2>1, <2>2, <2>3
  <1>8. Starts(r) \subseteq DOMAIN file
    BY <1>1, <1>3 DEF Starts
  <1>. QED BY <1>6, <1>7, <1>8 DEF AreStarts

LEMMA FrameStartsIsScan ==
    ASSUME NEW file \in Files
    PROVE  FrameStarts(file) = Starts(extractMP3Frames(file))
  <1>. DEFINE S == Starts(extractMP3Frames(file))
  <1>1. S \in SUBSET DOMAIN file /\ AreStarts(file, S)
    BY ExtractIsScan, ScanStarts
  <1>2. FrameStarts(file) = CHOOSE U \in SUBSET DOMAIN file : AreStarts(file, U)
    BY DEF FrameStarts, AreStarts
  <1>. HIDE DEF S
  <1>3. FrameStarts(file) \in SUBSET DOMAIN file /\ AreStarts(file, FrameStarts(file))
    BY <1>1, <1>2
  <1>. QED BY <1>1, <1>3, StartsUnique DEF S

----------------------------------------------------------------------------
(* The grouping.                                                           *)

\* Where chunk k ends.
LEMMA ChunkBounds ==
    ASSUME NEW f \in Nat \ {0}, NEW a \in Nat \ {0},
           NEW n, n = (a + f - 1) \div f
    PROVE  n \in Nat \ {0} /\ (n - 1) * f < a /\ a <= n * f
  <1>. DEFINE b == a + f - 1
  <1>1. b \in Nat /\ b >= f
    OBVIOUS
  <1>2. n \in Int /\ n * f <= b /\ b < (n + 1) * f
    BY <1>1
  <1>3. (n + 1) * f = n * f + f /\ (n - 1) * f = n * f - f
    BY <1>2
  <1>4. n * f > b - f
    BY <1>2, <1>3
  <1>5. n > 0
    BY <1>1, <1>2
  <1>. QED BY <1>2, <1>3, <1>4, <1>5

LEMMA TimesMonotonic ==
    ASSUME NEW i \in Int, NEW j \in Int, NEW f \in Nat, i <= j
    PROVE  i * f <= j * f
  <1>1. (j - i) * f \in Nat
    OBVIOUS
  <1>2. (j - i) * f = j * f - i * f
    OBVIOUS
  <1>. QED BY <1>1, <1>2

\* The chunks, by the frames they hold: FramesPerChunk each, the rest in the
\* last.
LEMMA Grouped ==
    ASSUME NEW S, NEW frames \in Seq(S), frames # << >>
    PROVE  \E n \in Nat \ {0} : \E end \in [0 .. n -> 0 .. Len(frames)] :
             /\ end[0] = 0 /\ end[n] = Len(frames)
             /\ \A k \in 1 .. n - 1 : end[k] = end[k - 1] + FramesPerChunk
             /\ end[n] - end[n - 1] \in 1 .. FramesPerChunk
             /\ groupFrames(frames) = [k \in 1 .. n |-> SubSeq(frames, end[k - 1] + 1, end[k])]
  <1>. DEFINE chunks == groupFrames(frames)
              a == Len(frames)
              f == FramesPerChunk
              n == (a + f - 1) \div f
              end == [k \in 0 .. n |-> IF k = n THEN a ELSE k * f]
  <1>1. f \in Nat \ {0} /\ a \in Nat \ {0}
    BY StorageAssumption, EmptySeq, LenProperties
  <1>2. n \in Nat \ {0} /\ (n - 1) * f < a /\ a <= n * f
    BY <1>1, ChunkBounds
  <1>3. chunks = [k \in 1 .. n |-> SubSeq(frames, (k - 1) * f + 1, Min({k * f, a}))]
    BY <1>1 DEF groupFrames
  <1>. HIDE DEF n, f, a, chunks
  <1>4. ASSUME NEW k \in 0 .. n
        PROVE  /\ k * f \in Nat
               /\ k < n => k * f < a /\ (k + 1) * f = k * f + f
               /\ k = n => a <= k * f
    <2>1. k * f \in Nat /\ (k + 1) * f = k * f + f
      BY <1>1, <1>2
    <2>2. k < n => k * f <= (n - 1) * f
      <3>1. k < n => k <= n - 1
        BY <1>2
      <3>. QED BY <1>1, <1>2, <3>1, TimesMonotonic
    <2>3. (n - 1) * f \in Int
      BY <1>1, <1>2
    <2>. QED BY <1>1, <1>2, <2>1, <2>2, <2>3
  <1>5. 0 * f = 0 /\ n * f = (n - 1) * f + f
    BY <1>1, <1>2
  <1>6. end \in [0 .. n -> 0 .. a]
    <2>1. ASSUME NEW k \in 0 .. n PROVE (IF k = n THEN a ELSE k * f) \in 0 .. a
      <3>1. k = n \/ k < n
        BY <1>2
      <3>. QED BY <1>1, <1>4, <3>1
    <2>. QED BY <2>1
  <1>7. /\ end[0] = 0 /\ end[n] = a
        /\ \A k \in 0 .. n : k < n => end[k] = k * f
    BY <1>2, <1>5
  <1>8. ASSUME NEW k \in 1 .. n
        PROVE  /\ k - 1 \in 0 .. n /\ k \in 0 .. n /\ end[k - 1] = (k - 1) * f
               /\ k < n => end[k] = end[k - 1] + f
               /\ end[k] = Min({k * f, a})
    <2>1. k - 1 \in 0 .. n /\ k \in 0 .. n /\ k - 1 < n /\ k \in Int /\ (k - 1) + 1 = k
      BY <1>2
    <2>2. end[k - 1] = (k - 1) * f
      BY <1>7, <2>1
    <2>3. k < n => end[k] = end[k - 1] + f
      <3>1. k * f = (k - 1) * f + f
        BY <1>1, <2>1
      <3>. QED BY <1>7, <2>1, <2>2, <3>1
    <2>4. ASSUME NEW x \in Int, NEW y \in Int, x <= y
          PROVE  Min({x, y}) = x /\ Min({y, x}) = x
      BY <2>4 DEF Min
    <2>5. k < n => end[k] = Min({k * f, a})
      BY <1>1, <1>4, <1>7, <2>1, <2>4
    <2>6. k = n => end[k] = Min({k * f, a})
      BY <1>1, <1>4, <1>7, <2>1, <2>4
    <2>. QED BY <1>2, <2>1, <2>2, <2>3, <2>5, <2>6
  <1>9. end[n] - end[n - 1] \in 1 .. f
    <2>1. n \in 1 .. n /\ (n - 1) * f \in Int
      BY <1>1, <1>2
    <2>2. end[n - 1] = (n - 1) * f
      BY <1>8, <2>1
    <2>. QED BY <1>1, <1>2, <1>5, <1>7, <2>1, <2>2
  <1>10. chunks = [k \in 1 .. n |-> SubSeq(frames, end[k - 1] + 1, end[k])]
    BY <1>3, <1>8
  <1>11. \A k \in 1 .. n - 1 : end[k] = end[k - 1] + f
    BY <1>2, <1>8
  <1>. HIDE DEF end
  <1>. QED BY <1>2, <1>6, <1>7, <1>9, <1>10, <1>11 DEF f, a, chunks

----------------------------------------------------------------------------
(* Playing chunk by chunk.                                                 *)

Flattens(seqs, s) ==
    s = [i \in 1 .. Len(seqs) |-> IF i = 1 THEN seqs[i] ELSE s[i - 1] \o seqs[i]]

LEMMA FlattenedIs ==
    ASSUME NEW seqs, Len(seqs) \in Nat \ {0}, NEW h, Flattens(seqs, h)
    PROVE  FlattenSeq(seqs) = h[Len(seqs)]
  <1>. DEFINE d == CHOOSE s : Flattens(seqs, s)
              n == Len(seqs)
              T == {i \in 1 .. n : d[i] # h[i]}
  <1>1. Flattens(seqs, d)
    OBVIOUS
  <1>2. FlattenSeq(seqs) = d[n]
    BY DEF FlattenSeq, Flattens
  <1>. HIDE DEF d
  <1>3. SUFFICES ASSUME T # {} PROVE FALSE
    BY <1>2
  <1>4. T \in SUBSET Nat
    OBVIOUS
  <1>. HIDE DEF T
  <1>5. PICK i \in T : \A m \in T : i <= m
    BY <1>3, <1>4, LeastNat
  <1>. USE DEF T
  <1>6. i # 1 => d[i - 1] = h[i - 1]
    BY <1>5
  <1>7. \A j \in 1 .. n : /\ d[j] = IF j = 1 THEN seqs[j] ELSE d[j - 1] \o seqs[j]
                          /\ h[j] = IF j = 1 THEN seqs[j] ELSE h[j - 1] \o seqs[j]
    BY <1>1 DEF Flattens
  <1>. QED BY <1>5, <1>6, <1>7

\* The chunks, one after the other, are the frames.
LEMMA GroupsFlatten ==
    ASSUME NEW S, NEW frames \in Seq(S), frames # << >>
    PROVE  FlattenSeq(groupFrames(frames)) = frames
  <1>. DEFINE chunks == groupFrames(frames)
              a == Len(frames)
  <1>0. PICK n \in Nat \ {0} : \E end \in [0 .. n -> 0 .. a] :
             /\ end[0] = 0 /\ end[n] = a
             /\ \A k \in 1 .. n - 1 : end[k] = end[k - 1] + FramesPerChunk
             /\ end[n] - end[n - 1] \in 1 .. FramesPerChunk
             /\ chunks = [k \in 1 .. n |-> SubSeq(frames, end[k - 1] + 1, end[k])]
    BY Grouped
  <1>1. PICK end \in [0 .. n -> 0 .. a] :
             /\ end[0] = 0 /\ end[n] = a
             /\ \A k \in 1 .. n - 1 : end[k] = end[k - 1] + FramesPerChunk
             /\ end[n] - end[n - 1] \in 1 .. FramesPerChunk
             /\ chunks = [k \in 1 .. n |-> SubSeq(frames, end[k - 1] + 1, end[k])]
    BY <1>0
  <1>. HIDE DEF chunks
  <1>. DEFINE h == [k \in 1 .. n |-> SubSeq(frames, 1, end[k])]
  <1>2. a \in Nat /\ FramesPerChunk \in Nat \ {0}
    BY StorageAssumption
  <1>3. Len(chunks) = n
    BY <1>1
  <1>4. ASSUME NEW k \in 1 .. n
        PROVE  h[k] = IF k = 1 THEN chunks[k] ELSE h[k - 1] \o chunks[k]
    <2>1. /\ k \in Int /\ k - 1 \in 0 .. n /\ end[k] \in 0 .. a /\ end[k - 1] \in 0 .. a
          /\ end[k - 1] <= end[k]
      <3>1. k - 1 \in 0 .. n /\ k \in 0 .. n /\ (k = n \/ k \in 1 .. n - 1)
        OBVIOUS
      <3>2. end[k] \in 0 .. a /\ end[k - 1] \in 0 .. a
        BY <3>1
      <3>3. k = n => end[k - 1] <= end[k]
        BY <1>1, <1>2, <3>2
      <3>4. k \in 1 .. n - 1 => end[k - 1] <= end[k]
        BY <1>1, <1>2, <3>2
      <3>. QED BY <3>1, <3>2, <3>3, <3>4
    <2>2. CASE k = 1
      <3>1. end[k - 1] = 0 /\ 0 + 1 = 1
        BY <1>1, <2>2
      <3>2. chunks[k] = SubSeq(frames, end[k - 1] + 1, end[k])
        BY <1>1
      <3>3. chunks[k] = SubSeq(frames, 1, end[k])
        BY <3>1, <3>2
      <3>4. h[k] = SubSeq(frames, 1, end[k])
        OBVIOUS
      <3>. QED BY <2>2, <3>3, <3>4
    <2>3. CASE k # 1
      <3>1. k - 1 \in 1 .. n /\ h[k - 1] = SubSeq(frames, 1, end[k - 1])
        BY <2>3
      <3>2. chunks[k] = SubSeq(frames, end[k - 1] + 1, end[k])
        BY <1>1
      <3>3. SubSeq(frames, 1, end[k - 1]) \o SubSeq(frames, end[k - 1] + 1, end[k])
              = SubSeq(frames, 1, end[k])
        <4>. DEFINE x == end[k - 1]
                    y == end[k]
        <4>1. 1 \in 1 .. Len(frames) + 1 /\ x \in 1 - 1 .. Len(frames) /\ y \in x .. Len(frames)
          BY <1>2, <2>1
        <4>. HIDE DEF x, y
        <4>2. SubSeq(frames, 1, x) \o SubSeq(frames, x + 1, y) = SubSeq(frames, 1, y)
          BY <4>1, ConcatAdjacentSubSeq
        <4>. QED BY <4>2 DEF x, y
      <3>. QED BY <2>3, <3>1, <3>2, <3>3
    <2>. QED BY <2>2, <2>3
  <1>5. Flattens(chunks, h)
    BY <1>3, <1>4 DEF Flattens
  <1>6. FlattenSeq(chunks) = h[n]
    BY <1>3, <1>5, FlattenedIs
  <1>7. h[n] = frames
    BY <1>1, <1>2, SubSeqFull
  <1>. QED BY <1>6, <1>7 DEF chunks

----------------------------------------------------------------------------
(* The invariant: a stored track is its file, cut.                         *)

StorageInv ==
    /\ disk \in Files
    /\ DOMAIN tracks \subseteq Files
    /\ \A cid \in DOMAIN tracks :
         /\ extractMP3Frames(cid) # << >>
         /\ tracks[cid] = groupFrames(extractMP3Frames(cid))
    /\ refused => extractMP3Frames(disk) = << >>

LEMMA LoadTrackInv ==
    ASSUME StorageInv, LoadTrack
    PROVE  StorageInv'
  <1>. DEFINE frames == extractMP3Frames(disk)
  <1>1. disk' = disk /\ disk \in Files /\ refused' = (frames = << >>)
    BY DEF LoadTrack, StorageInv
  <1>2. CASE frames = << >>
    <2>1. refused' /\ tracks' = tracks
      BY <1>2 DEF LoadTrack
    <2>. QED BY <1>1, <1>2, <2>1 DEF StorageInv
  <1>3. CASE frames # << >>
    <2>1. /\ ~refused'
          /\ tracks' = [cid \in DOMAIN tracks \cup {disk} |->
                          IF cid = disk THEN groupFrames(frames) ELSE tracks[cid]]
      BY <1>3 DEF LoadTrack
    <2>2. \A cid \in DOMAIN tracks' :
            extractMP3Frames(cid) # << >> /\ tracks'[cid] = groupFrames(extractMP3Frames(cid))
      BY <1>3, <2>1 DEF StorageInv
    <2>3. DOMAIN tracks' \subseteq Files
      BY <1>1, <2>1 DEF StorageInv
    <2>. QED BY <1>1, <2>1, <2>2, <2>3 DEF StorageInv
  <1>. QED BY <1>2, <1>3

LEMMA StorageInvariant == Spec => []StorageInv
  <1>1. Init => StorageInv
    <2>. SUFFICES ASSUME Init PROVE StorageInv
      OBVIOUS
    <2>1. DOMAIN tracks = {} /\ disk \in Files /\ ~refused
      BY DEF Init
    <2>. QED BY <2>1 DEF StorageInv
  <1>2. StorageInv /\ [Next]_vars => StorageInv'
    <2>. SUFFICES ASSUME StorageInv, [Next]_vars PROVE StorageInv'
      OBVIOUS
    <2>1. CASE LoadTrack
      BY <2>1, LoadTrackInv
    <2>2. ASSUME NEW cid \in DOMAIN tracks, RemoveTrack(cid) PROVE StorageInv'
      <3>1. /\ tracks' = [c \in DOMAIN tracks \ {cid} |-> tracks[c]]
            /\ disk' = disk /\ refused' = refused
        BY <2>2 DEF RemoveTrack
      <3>. QED BY <3>1 DEF StorageInv
    <2>3. CASE UNCHANGED vars
      BY <2>3 DEF vars, StorageInv
    <2>. QED BY <2>1, <2>2, <2>3 DEF Next
  <1>. QED BY <1>1, <1>2, PTL DEF Spec

----------------------------------------------------------------------------
(* The theorems.                                                           *)

\* The chunks of a stored track are all frames of its file, in order and each
\* once, FramesPerChunk to a chunk; a file is refused only if it has none.
THEOREM ChunksAreTheFrames == Spec => []ChunksAreFrames
  <1>1. ASSUME StorageInv PROVE ChunksAreFrames
    <2>1. ASSUME refused PROVE FrameStarts(disk) = {}
      <3>1. disk \in Files /\ extractMP3Frames(disk) = << >>
        BY <1>1, <2>1 DEF StorageInv
      <3>. QED BY <3>1, FrameStartsIsScan DEF Starts
    <2>2. ASSUME NEW cid \in DOMAIN tracks
          PROVE  LET n == GetTotalChunks(cid)
                     frames == FlattenSeq(tracks[cid])
                 IN  /\ n > 0
                     /\ \A k \in 1 .. n - 1 : Len(tracks[cid][k]) = FramesPerChunk
                     /\ Len(tracks[cid][n]) \in 1 .. FramesPerChunk
                     /\ ToSet(frames) = {<<i, i + Size(cid, i) - 1>> : i \in FrameStarts(cid)}
                     /\ \A j, k \in DOMAIN frames : j < k => frames[j][2] < frames[k][1]
      <3>. DEFINE r == extractMP3Frames(cid)
                  a == Len(r)
                  f == FramesPerChunk
      <3>1. cid \in Files /\ r # << >> /\ tracks[cid] = groupFrames(r)
        BY <1>1 DEF StorageInv
      <3>2. FramesFrom(cid, 1, r)
        BY <3>1, ExtractIsScan
      <3>3. r \in Seq(Nat \X Nat)
        BY <3>2 DEF FramesFrom
      <3>. HIDE DEF r
      <3>4. a \in Nat /\ f \in Nat \ {0}
        BY <3>3, StorageAssumption
      <3>5. PICK n \in Nat \ {0} : \E end \in [0 .. n -> 0 .. a] :
                   /\ end[0] = 0 /\ end[n] = a
                   /\ \A k \in 1 .. n - 1 : end[k] = end[k - 1] + f
                   /\ end[n] - end[n - 1] \in 1 .. f
                   /\ groupFrames(r) = [k \in 1 .. n |-> SubSeq(r, end[k - 1] + 1, end[k])]
        BY <3>1, <3>3, Grouped
      <3>6. PICK end \in [0 .. n -> 0 .. a] :
                   /\ end[0] = 0 /\ end[n] = a
                   /\ \A k \in 1 .. n - 1 : end[k] = end[k - 1] + f
                   /\ end[n] - end[n - 1] \in 1 .. f
                   /\ groupFrames(r) = [k \in 1 .. n |-> SubSeq(r, end[k - 1] + 1, end[k])]
        BY <3>5
      <3>7. GetTotalChunks(cid) = n
        BY <3>1, <3>6 DEF GetTotalChunks
      <3>8. ASSUME NEW k \in 1 .. n
            PROVE  /\ k < n => Len(tracks[cid][k]) = f
                   /\ k = n => Len(tracks[cid][k]) \in 1 .. f
        <4>. DEFINE x == end[k - 1]
                    y == end[k]
        <4>1. tracks[cid][k] = SubSeq(r, x + 1, y)
          BY <3>1, <3>6
        <4>2. k - 1 \in 0 .. n /\ k \in 0 .. n /\ k \in Int
          OBVIOUS
        <4>3. x \in 0 .. a /\ y \in 0 .. a
          BY <4>2
        <4>4. k < n => y = x + f
          BY <3>6
        <4>5. k = n => y - x \in 1 .. f
          BY <3>6
        <4>. HIDE DEF x, y
        <4>6. x + 1 \in Int /\ y \in Int /\ \A i \in x + 1 .. y : r[i] \in Nat \X Nat
          BY <3>3, <3>4, <4>3
        <4>7. Len(SubSeq(r, x + 1, y)) = IF x + 1 <= y THEN y - (x + 1) + 1 ELSE 0
          BY <4>6, SubSeqProperties
        <4>. QED BY <3>4, <4>1, <4>3, <4>4, <4>5, <4>7
      <3>9. FlattenSeq(tracks[cid]) = r
        BY <3>1, <3>3, GroupsFlatten
      <3>10. ToSet(r) = {<<i, i + Size(cid, i) - 1>> : i \in FrameStarts(cid)}
        <4>1. FrameStarts(cid) = {r[j][1] : j \in DOMAIN r}
          BY <3>1, FrameStartsIsScan DEF Starts, r
        <4>2. ASSUME NEW j \in DOMAIN r
              PROVE  r[j] = <<r[j][1], r[j][1] + Size(cid, r[j][1]) - 1>>
          <5>1. r[j] \in Nat \X Nat
            BY <3>3
          <5>2. r[j][2] = r[j][1] + Size(cid, r[j][1]) - 1
            BY <3>2 DEF FramesFrom
          <5>. QED BY <5>1, <5>2
        <4>3. ToSet(r) = {r[j] : j \in DOMAIN r}
          BY DEF ToSet
        <4>. QED BY <4>1, <4>2, <4>3
      <3>11. \A j, k \in DOMAIN r : j < k => r[j][2] < r[k][1]
        BY <3>2 DEF FramesFrom
      <3>12. n > 0 /\ n \in 1 .. n /\ \A k \in 1 .. n - 1 : k \in 1 .. n /\ k < n
        OBVIOUS
      <3>. QED BY <3>7, <3>8, <3>9, <3>10, <3>11, <3>12
    <2>. QED BY <2>1, <2>2 DEF ChunksAreFrames
  <1>. QED BY StorageInvariant, <1>1, PTL

\* A peer that is served chunk after chunk gets them of one cut, also when the
\* file is stored again meanwhile.
THEOREM StoredTracksStay == Spec => StoredChunksStay
  <1>1. ASSUME StorageInv, StorageInv', [Next]_vars
        PROVE  [\A cid \in DOMAIN tracks \cap DOMAIN tracks' : tracks'[cid] = tracks[cid]]_vars
    BY <1>1 DEF StorageInv
  <1>. QED BY StorageInvariant, <1>1, PTL DEF Spec, StoredChunksStay

=============================================================================

------------------------- MODULE LoopDetectorProofs -------------------------
(***************************************************************************)
(* Theorems about LoopDetector, for every window size, entry lifetime, set *)
(* of messages and skew: although the detector forgets all but a window,   *)
(* the depths it reports are right about the whole log.                    *)
(***************************************************************************)
EXTENDS LoopDetector, SequenceTheorems, FiniteSetTheorems, TLAPS

-----------------------------------------------------------------------------
(* Positions: what Nth and Keep yield.                                     *)

Below(K, i) == {j \in K : j <= i}

LEMMA IntervalSize ==
  ASSUME NEW a \in Int, NEW b \in Int, a <= b + 1
  PROVE  IsFiniteSet(a..b) /\ Cardinality(a..b) = b - a + 1
BY FS_Interval

(* From one position to a later one there are at most as many others as    *)
(* there are numbers between, and at least the later one.                  *)
LEMMA BelowGrows ==
  ASSUME NEW K, \A j \in K : j \in Int, IsFiniteSet(K), NEW i \in K, NEW k \in K, i < k
  PROVE  /\ Cardinality(Below(K, i)) \in Nat /\ Cardinality(Below(K, k)) \in Nat
         /\ Cardinality(Below(K, i)) < Cardinality(Below(K, k))
         /\ Cardinality(Below(K, k)) - Cardinality(Below(K, i)) <= k - i
<1> DEFINE between == {j \in K : i < j /\ j <= k}
<1>1. /\ Below(K, i) \cap between = {}
      /\ Below(K, k) = Below(K, i) \cup between
      /\ between \in SUBSET ((i + 1)..k)
      /\ k \in between
  BY DEF Below
<1>2. IsFiniteSet(Below(K, i)) /\ IsFiniteSet(between) /\ IsFiniteSet(Below(K, k))
  <2>1. Below(K, i) \in SUBSET K /\ between \in SUBSET K /\ Below(K, k) \in SUBSET K
    BY DEF Below
  <2> HIDE DEF between
  <2> QED BY <2>1, FS_Subset
<1> HIDE DEF between
<1>3. /\ IsFiniteSet((i + 1)..k) /\ Cardinality((i + 1)..k) = k - i
  <2>1. i \in Int /\ k \in Int
    OBVIOUS
  <2> QED BY <2>1, IntervalSize
<1>4. Cardinality(between) <= k - i
  <2>1. Cardinality(between) <= Cardinality((i + 1)..k)
    BY <1>1, <1>3, FS_Subset
  <2> QED BY <2>1, <1>3
<1>5. Cardinality(between) \in Nat /\ Cardinality(between) # 0
  BY <1>1, <1>2, FS_EmptySet, FS_CardinalityType
<1>6. Cardinality(Below(K, i)) \in Nat /\ Cardinality(Below(K, k)) \in Nat
  BY <1>2, FS_CardinalityType
<1>7. Cardinality(Below(K, k)) = Cardinality(Below(K, i)) + Cardinality(between)
  <2>1. Cardinality(Below(K, i) \cup between) =
          Cardinality(Below(K, i)) + Cardinality(between)
            - Cardinality(Below(K, i) \cap between)
    BY <1>2, FS_Union
  <2> QED BY <2>1, <1>1, <1>5, <1>6, FS_EmptySet
<1> QED BY <1>4, <1>5, <1>6, <1>7

(* Every number up to the size of K is the rank of a position.             *)
LEMMA NthPosition ==
  ASSUME NEW K, \A j \in K : j \in Int, IsFiniteSet(K), NEW n \in 1..Cardinality(K)
  PROVE  Nth(K, n) \in K /\ Cardinality(Below(K, Nth(K, n))) = n
<1> DEFINE c == Cardinality(K)
           rank == [i \in K |-> Cardinality(Below(K, i))]
<1>1. c \in Nat
  BY FS_CardinalityType
<1>2. \A i \in K : rank[i] \in 1..c
  <2> SUFFICES ASSUME NEW i \in K PROVE Cardinality(Below(K, i)) \in 1..c
    OBVIOUS
  <2>1. Below(K, i) \in SUBSET K /\ i \in Below(K, i)
    BY DEF Below
  <2>2. IsFiniteSet(Below(K, i)) /\ Cardinality(Below(K, i)) <= c
    BY <2>1, FS_Subset
  <2>3. Cardinality(Below(K, i)) \in Nat /\ Cardinality(Below(K, i)) # 0
    BY <2>1, <2>2, FS_EmptySet, FS_CardinalityType
  <2> QED BY <2>2, <2>3, <1>1
<1>3. \A i, k \in K : rank[i] = rank[k] => i = k
  <2> SUFFICES ASSUME NEW i \in K, NEW k \in K, rank[i] = rank[k], i # k PROVE FALSE
    OBVIOUS
  <2>1. CASE i < k
    BY <2>1, BelowGrows
  <2>2. CASE k < i
    BY <2>2, BelowGrows
  <2> QED BY <2>1, <2>2
<1>4. rank \in Injection(K, 1..c)
  BY <1>2, <1>3 DEF Injection, IsInjective
<1>5. IsFiniteSet(1..c) /\ Cardinality(1..c) = c
  BY <1>1, IntervalSize
<1> HIDE DEF rank
<1>6. rank \in Surjection(K, 1..c)
  BY <1>4, <1>5, FS_Injection
<1>7. \E i \in K : rank[i] = n
  BY <1>6 DEF Surjection
<1>8. \E i \in K : Cardinality({j \in K : j <= i}) = n
  BY <1>7 DEF rank, Below
<1> QED BY <1>8 DEF Nth, Below

(* A finite set of integers has the maximum that Max picks.                *)
LEMMA MaxOfFinite ==
  ASSUME NEW K, \A j \in K : j \in Int, IsFiniteSet(K), K # {}
  PROVE  Max(K) \in K /\ \A i \in K : i <= Max(K)
<1> DEFINE c == Cardinality(K)
           top == Nth(K, c)
<1>1. c \in Nat /\ c # 0
  BY FS_EmptySet, FS_CardinalityType
<1>2. top \in K /\ Cardinality(Below(K, top)) = c
  BY <1>1, NthPosition
<1> HIDE DEF top
<1>3. Below(K, top) \in SUBSET K
  BY DEF Below
<1>4. Below(K, top) = K
  BY <1>2, <1>3, FS_Subset
<1>5. \A i \in K : top >= i
  BY <1>2, <1>4 DEF Below
<1> QED BY <1>2, <1>5 DEF Max

LEMMA MaxIs ==
  ASSUME NEW K, \A j \in K : j \in Int, NEW x \in K, \A i \in K : i <= x
  PROVE  Max(K) = x
<1>1. Max(K) \in K /\ \A i \in K : Max(K) >= i
  BY DEF Max
<1> QED BY <1>1

(* Keep selects elements and does not move any two of them apart.          *)
LEMMA KeepSelects ==
  ASSUME NEW S, NEW s \in Seq(S), NEW K \in SUBSET (1..Len(s))
  PROVE  /\ Keep(s, K) \in Seq(S)
         /\ Cardinality(K) \in 0..Len(s) /\ Len(Keep(s, K)) = Cardinality(K)
         /\ \A n \in 1..Cardinality(K) : Nth(K, n) \in K /\ Keep(s, K)[n] = s[Nth(K, n)]
         /\ \A m, n \in 1..Cardinality(K) : m <= n => Nth(K, n) - Nth(K, m) >= n - m
<1> DEFINE c == Cardinality(K)
<1>1. Len(s) \in Nat /\ IsFiniteSet(1..Len(s)) /\ Cardinality(1..Len(s)) = Len(s)
  BY IntervalSize, LenProperties
<1>2. IsFiniteSet(K) /\ c \in 0..Len(s) /\ \A j \in K : j \in Int
  <2>1. IsFiniteSet(K) /\ c <= Cardinality(1..Len(s))
    BY <1>1, FS_Subset
  <2>2. c \in Nat
    BY <2>1, FS_CardinalityType
  <2> QED BY <2>1, <2>2, <1>1
<1>3. \A n \in 1..c : Nth(K, n) \in K
  BY <1>2, NthPosition
<1>4. \A n \in 1..c : s[Nth(K, n)] \in S
  BY <1>3, ElementOfSeq
<1>5. Keep(s, K) \in Seq(S) /\ Len(Keep(s, K)) = c
  BY <1>2, <1>4 DEF Keep
<1>6. ASSUME NEW m \in 1..c, NEW n \in 1..c, m <= n PROVE Nth(K, n) - Nth(K, m) >= n - m
  <2> DEFINE i == Nth(K, m)
             k == Nth(K, n)
  <2>1. /\ i \in K /\ Cardinality(Below(K, i)) = m
        /\ k \in K /\ Cardinality(Below(K, k)) = n
    BY <1>2, NthPosition
  <2>2. i \in Int /\ k \in Int /\ m \in Int /\ n \in Int
    <3>1. c \in Int
      BY <1>1, <1>2
    <3> HIDE DEF c, i, k
    <3> QED BY <3>1, <2>1, <1>2
  <2> HIDE DEF i, k
  <2>3. ASSUME k = i PROVE k - i >= n - m
    <3>1. n = m
      BY <2>1, <2>3, Zenon
    <3> QED BY <3>1, <2>2, <2>3
  <2>4. ASSUME k < i PROVE k - i >= n - m
    <3>1. Cardinality(Below(K, k)) < Cardinality(Below(K, i))
      BY <2>1, <2>4, <1>2, BelowGrows
    <3> QED BY <3>1, <2>1, <2>2, <1>6
  <2>5. ASSUME i < k PROVE k - i >= n - m
    <3>1. Cardinality(Below(K, k)) - Cardinality(Below(K, i)) <= k - i
      BY <2>1, <2>5, <1>2, BelowGrows
    <3>2. n - m <= k - i
      BY <3>1, <2>1, Zenon
    <3> QED BY <3>2, <2>2
  <2>6. k - i >= n - m
    <3> HIDE DEF c
    <3> QED BY <2>2, <2>3, <2>4, <2>5
  <2> QED BY <2>6 DEF i, k
<1> QED BY <1>2, <1>3, <1>5, <1>6 DEF Keep

(* Positions that reach up to the end select a suffix.                     *)
LEMMA KeepSuffix ==
  ASSUME NEW S, NEW s \in Seq(S), NEW K \in SUBSET (1..Len(s)),
         \A i \in K, k \in 1..Len(s) : i <= k => k \in K
  PROVE  \E m \in 1..(Len(s) + 1) : /\ K = m..Len(s)
                                    /\ Keep(s, K) = SubSeq(s, m, Len(s))
<1> DEFINE c == Cardinality(K)
           m == Len(s) - c + 1
<1>1. Len(s) \in Nat
  BY LenProperties
<1>2. /\ c \in 0..Len(s) /\ Len(Keep(s, K)) = c /\ Keep(s, K) \in Seq(S)
      /\ \A n \in 1..c : Nth(K, n) \in K /\ Keep(s, K)[n] = s[Nth(K, n)]
  BY KeepSelects
<1>3. IsFiniteSet(K) /\ \A j \in K : j \in Int
  <2>1. IsFiniteSet(1..Len(s))
    BY <1>1, IntervalSize
  <2>2. IsFiniteSet(K)
    BY <2>1, FS_Subset
  <2> QED BY <2>2, <1>1
<1>4. K \in SUBSET (m..Len(s))
  <2> SUFFICES ASSUME NEW i \in K PROVE i >= m
    OBVIOUS
  <2>1. i..Len(s) \in SUBSET K
    OBVIOUS
  <2>2. Cardinality(i..Len(s)) <= c
    BY <2>1, <1>3, FS_Subset
  <2>3. i \in Int /\ i <= Len(s) + 1
    BY <1>1
  <2>4. Cardinality(i..Len(s)) = Len(s) - i + 1
    BY <2>3, <1>1, IntervalSize
  <2> QED BY <2>2, <2>3, <2>4, <1>1, <1>2
<1>5. IsFiniteSet(m..Len(s)) /\ Cardinality(m..Len(s)) = c
  <2>1. m \in Int /\ m <= Len(s) + 1 /\ Len(s) \in Int /\ Len(s) - m + 1 = c
    BY <1>1, <1>2
  <2> HIDE DEF m, c
  <2>2. IsFiniteSet(m..Len(s)) /\ Cardinality(m..Len(s)) = Len(s) - m + 1
    BY <2>1, IntervalSize
  <2> QED BY <2>1, <2>2
<1>6. K = m..Len(s)
  BY <1>4, <1>5, FS_Subset
<1>7. \A n \in 1..c : Nth(K, n) = m + n - 1
  <2> SUFFICES ASSUME NEW n \in 1..c PROVE Nth(K, n) = m + n - 1
    OBVIOUS
  <2>1. Nth(K, n) \in K /\ Cardinality(Below(K, Nth(K, n))) = n
    BY <1>3, NthPosition
  <2>2. /\ Nth(K, n) \in Int /\ Nth(K, n) <= Len(s) /\ m \in Int /\ n \in Int
        /\ m <= Nth(K, n)
    BY <2>1, <1>1, <1>2, <1>6
  <2>3. Below(K, Nth(K, n)) = m..Nth(K, n)
    <3>1. Below(m..Len(s), Nth(K, n)) = m..Nth(K, n)
      <4> HIDE DEF m
      <4> QED BY <2>2, <1>1 DEF Below
    <3> QED BY <3>1, <1>6
  <2>4. Cardinality(m..Nth(K, n)) = Nth(K, n) - m + 1
    <3> HIDE DEF m
    <3> QED BY <2>2, IntervalSize
  <2> QED BY <2>1, <2>2, <2>3, <2>4
<1>8. /\ SubSeq(s, m, Len(s)) \in Seq(S) /\ Len(SubSeq(s, m, Len(s))) = c
      /\ \A n \in 1..c : SubSeq(s, m, Len(s))[n] = s[m + n - 1]
  BY <1>1, <1>2, SubSeqProperties
<1>9. Keep(s, K) = SubSeq(s, m, Len(s))
  BY <1>2, <1>7, <1>8, SeqEqual
<1>10. m \in 1..(Len(s) + 1)
  BY <1>1, <1>2
<1> QED BY <1>6, <1>9, <1>10

-----------------------------------------------------------------------------
(* The inductive invariant.                                                *)

Entry == [sig : {Signature(m) : m \in Message}, seenAt : Int]

Shape ==
  /\ log \in Seq(Entry)
  /\ window \in Seq(Entry) /\ Len(window) <= LoopWindowSize
  /\ depth \in 0..LoopWindowSize

(* The entries u are from the log, f says which, and they are no further   *)
(* from each other than there.                                             *)
Selects(u, f) ==
  /\ f \in [1..Len(u) -> 1..Len(log)]
  /\ \A i \in 1..Len(u) : u[i] = log[f[i]]
  /\ \A i, j \in 1..Len(u) : i <= j => f[j] - f[i] >= j - i

Remembered == \E f : Selects(window, f)

Ordered == \A i \in 2..Len(log) : log[i - 1].seenAt <= log[i].seenAt

(* All that was dropped before the m-th entry was too far back or expired. *)
Suffix(m) ==
  /\ m \in 1..(Len(log) + 1)
  /\ window = SubSeq(log, m, Len(log))
  /\ \A i \in 1..(m - 1) :
       \/ i <= Len(log) - LoopWindowSize
       \/ log[i].seenAt <= log[Len(log)].seenAt - LoopEntryTTL

Recent == Ordered => \E m \in 1..(Len(log) + 1) : Suffix(m)

IInv == Shape /\ Remembered /\ Recent /\ DepthSound /\ DepthExact

(* What is left of the window when it has been pruned at time now.         *)
Kept(now) == {i \in DOMAIN window : window[i].seenAt > now - LoopEntryTTL}

LEMMA UnexpiredSelects ==
  ASSUME Shape, NEW now \in Int, NEW u, u = Unexpired(window, now)
  PROVE  /\ u \in Seq(Entry) /\ Len(u) \in Nat /\ Len(u) <= Len(window)
         /\ \A i \in 1..Len(u) : /\ Nth(Kept(now), i) \in 1..Len(window)
                               /\ u[i] = window[Nth(Kept(now), i)]
                               /\ u[i].seenAt > now - LoopEntryTTL
         /\ \A i, j \in 1..Len(u) :
              i <= j => Nth(Kept(now), j) - Nth(Kept(now), i) >= j - i
<1>1. Kept(now) \in SUBSET (1..Len(window)) /\ window \in Seq(Entry) /\ Len(window) \in Nat
  BY DEF Shape, Kept
<1>2. u = Keep(window, Kept(now))
  BY DEF Unexpired, Kept
<1>3. \A i \in Kept(now) : i \in 1..Len(window) /\ window[i].seenAt > now - LoopEntryTTL
  BY <1>1 DEF Kept
<1>4. /\ u \in Seq(Entry)
      /\ Cardinality(Kept(now)) \in 0..Len(window) /\ Len(u) = Cardinality(Kept(now))
      /\ \A n \in 1..Len(u) : Nth(Kept(now), n) \in Kept(now)
                            /\ u[n] = window[Nth(Kept(now), n)]
      /\ \A k, n \in 1..Len(u) : k <= n => Nth(Kept(now), n) - Nth(Kept(now), k) >= n - k
  BY <1>1, <1>2, KeepSelects
<1> QED BY <1>1, <1>3, <1>4

LEMMA SlideProperties ==
  ASSUME NEW u \in Seq(Entry), Len(u) <= LoopWindowSize, NEW e \in Entry
  PROVE  \E d \in {1, 2} :
           /\ d = 2 <=> Len(u) = LoopWindowSize
           /\ Slide(u, e) = SubSeq(Append(u, e), d, Len(u) + 1)
           /\ Slide(u, e) \in Seq(Entry) /\ Len(Slide(u, e)) = Len(u) + 2 - d
           /\ \A i \in 1..(Len(u) + 2 - d) :
                Slide(u, e)[i] = IF d + i - 1 <= Len(u) THEN u[d + i - 1] ELSE e
<1> DEFINE w == Append(u, e)
           d == IF Len(u) = LoopWindowSize THEN 2 ELSE 1
<1>1. /\ Len(u) \in Nat /\ w \in Seq(Entry) /\ Len(w) = Len(u) + 1
      /\ \A i \in 1..(Len(u) + 1) : w[i] = IF i <= Len(u) THEN u[i] ELSE e
  OBVIOUS
<1>2. Max({1, Len(w) - LoopWindowSize + 1}) = d
  <2>1. Len(w) - LoopWindowSize + 1 \in Int
    BY <1>1, LoopWindowAssumption
  <2>2. /\ d \in {1, Len(w) - LoopWindowSize + 1}
        /\ \A i \in {1, Len(w) - LoopWindowSize + 1} : i <= d /\ i \in Int
    BY <1>1, <2>1, LoopWindowAssumption
  <2> QED BY <2>2, MaxIs
<1>3. d \in {1, 2} /\ (d = 2 <=> Len(u) = LoopWindowSize)
  OBVIOUS
<1>4. Slide(u, e) = SubSeq(w, d, Len(u) + 1)
  BY <1>1, <1>2 DEF Slide
<1> HIDE DEF w, d
<1>5. \A i \in d..(Len(u) + 1) : w[i] \in Entry
  BY <1>1, <1>3, ElementOfSeq
<1>6. /\ SubSeq(w, d, Len(u) + 1) \in Seq(Entry)
      /\ Len(SubSeq(w, d, Len(u) + 1)) = Len(u) + 2 - d
      /\ \A i \in 1..(Len(u) + 1 - d + 1) : SubSeq(w, d, Len(u) + 1)[i] = w[d + i - 1]
  BY <1>1, <1>3, <1>5, SubSeqProperties
<1>7. \A i \in 1..(Len(u) + 2 - d) :
        Slide(u, e)[i] = IF d + i - 1 <= Len(u) THEN u[d + i - 1] ELSE e
  <2> SUFFICES ASSUME NEW i \in 1..(Len(u) + 2 - d)
               PROVE  Slide(u, e)[i] = IF d + i - 1 <= Len(u) THEN u[d + i - 1] ELSE e
    OBVIOUS
  <2>1. d + i - 1 \in 1..(Len(u) + 1) /\ i \in 1..(Len(u) + 1 - d + 1)
    BY <1>1, <1>3
  <2>2. Slide(u, e)[i] = w[d + i - 1]
    BY <2>1, <1>4, <1>6
  <2> QED BY <2>1, <2>2, <1>1
<1> QED BY <1>3, <1>4, <1>6, <1>7 DEF w

(* The depth is the distance to the closest match.                         *)
LEMMA LoopDepthProperties ==
  ASSUME NEW u \in Seq(Entry), NEW sig
  PROVE  \/ Matches(u, sig) = {} /\ LoopDepth(u, sig) = 0
         \/ \E x \in Matches(u, sig) : /\ \A y \in Matches(u, sig) : y <= x
                                      /\ LoopDepth(u, sig) = Len(u) + 1 - x
<1>1. Len(u) \in Nat /\ Matches(u, sig) \in SUBSET (1..Len(u))
  BY DEF Matches
<1>2. IsFiniteSet(1..Len(u))
  BY <1>1, IntervalSize
<1>3. IsFiniteSet(Matches(u, sig)) /\ \A i \in Matches(u, sig) : i \in Int
  <2>1. IsFiniteSet(Matches(u, sig))
    BY <1>1, <1>2, FS_Subset
  <2> QED BY <2>1, <1>1
<1>4. CASE Matches(u, sig) # {}
  <2>1. /\ Max(Matches(u, sig)) \in Matches(u, sig)
        /\ \A y \in Matches(u, sig) : y <= Max(Matches(u, sig))
    BY <1>3, <1>4, MaxOfFinite
  <2> QED BY <2>1, <1>4 DEF LoopDepth
<1>5. CASE Matches(u, sig) = {}
  BY <1>5 DEF LoopDepth
<1> QED BY <1>4, <1>5

(* The step in terms of what pruning left of the window.                   *)
LEMMA Detection ==
  ASSUME Shape, NEW m \in Message, NEW now \in Int, detectLoop(m, now)
  PROVE  \E u \in Seq(Entry), e \in Entry :
           /\ u = Unexpired(window, now)
           /\ e = [sig |-> Signature(m), seenAt |-> now]
           /\ log' = Append(log, e)
           /\ depth' = LoopDepth(u, e.sig)
           /\ window' = Slide(u, e)
           /\ Len(u) <= LoopWindowSize
<1> DEFINE u == Unexpired(window, now)
           e == [sig |-> Signature(m), seenAt |-> now]
<1>1. e \in Entry /\ e.sig = Signature(m)
  BY DEF Entry
<1>2. u \in Seq(Entry) /\ Len(u) <= LoopWindowSize
  <2>1. u \in Seq(Entry) /\ Len(u) \in Nat /\ Len(u) <= Len(window)
    BY UnexpiredSelects
  <2> HIDE DEF u
  <2> QED BY <2>1, LoopWindowAssumption DEF Shape
<1>3. /\ log' = Append(log, e)
      /\ depth' = LoopDepth(u, Signature(m))
      /\ window' = Slide(u, e)
  BY DEF detectLoop, DetectedDepth, WindowAfter
<1> QED BY <1>1, <1>2, <1>3

LEMMA ShapeKept ==
  ASSUME Shape, NEW m \in Message, NEW now \in Int, detectLoop(m, now)
  PROVE  Shape'
<1>1. PICK u \in Seq(Entry), e \in Entry :
        /\ log' = Append(log, e)
        /\ depth' = LoopDepth(u, e.sig)
        /\ window' = Slide(u, e)
        /\ Len(u) <= LoopWindowSize
  BY Detection
<1>2. log' \in Seq(Entry)
  BY <1>1 DEF Shape
<1>3. window' \in Seq(Entry) /\ Len(window') <= LoopWindowSize
  <2>1. PICK d \in {1, 2} : /\ d = 2 <=> Len(u) = LoopWindowSize
                            /\ Slide(u, e) \in Seq(Entry)
                            /\ Len(Slide(u, e)) = Len(u) + 2 - d
    BY <1>1, SlideProperties
  <2>2. Len(u) \in Nat
    OBVIOUS
  <2>3. Len(window') = Len(u) + 2 - d /\ window' \in Seq(Entry)
    BY <1>1, <2>1
  <2> QED BY <1>1, <2>1, <2>2, <2>3, LoopWindowAssumption
<1>4. depth' \in 0..LoopWindowSize
  <2>1. CASE depth' = 0
    BY <2>1, LoopWindowAssumption
  <2>2. ASSUME NEW x \in Matches(u, e.sig), depth' = Len(u) + 1 - x
        PROVE  depth' \in 0..LoopWindowSize
    <3>1. x \in 1..Len(u) /\ Len(u) \in Nat
      BY DEF Matches
    <3> QED BY <2>2, <3>1, <1>1, LoopWindowAssumption
  <2> QED BY <1>1, <2>1, <2>2, LoopDepthProperties
<1> QED BY <1>2, <1>3, <1>4 DEF Shape

(* What pruning leaves selects from the log too.                           *)
LEMMA UnexpiredFromLog ==
  ASSUME Shape, Remembered, NEW now \in Int, NEW u, u = Unexpired(window, now)
  PROVE  \E h : Selects(u, h)
<1>1. PICK f : Selects(window, f)
  BY DEF Remembered
<1> DEFINE g(i) == Nth(Kept(now), i)
           h == [i \in 1..Len(u) |-> f[g(i)]]
<1>2. /\ \A i \in 1..Len(u) : g(i) \in 1..Len(window) /\ u[i] = window[g(i)]
      /\ \A i, j \in 1..Len(u) : i <= j => g(j) - g(i) >= j - i
      /\ Len(u) \in Nat
  BY UnexpiredSelects
<1> HIDE DEF g
<1>3. DOMAIN window = 1..Len(window) /\ DOMAIN log = 1..Len(log)
      /\ Len(window) \in Nat /\ Len(log) \in Nat
  BY DEF Shape
<1>4. \A i \in 1..Len(u) : h[i] \in 1..Len(log) /\ u[i] = log[h[i]]
  BY <1>1, <1>2, <1>3 DEF Selects
<1>5. ASSUME NEW i \in 1..Len(u), NEW j \in 1..Len(u), i <= j
      PROVE  h[j] - h[i] >= j - i
  <2>1. g(i) \in 1..Len(window) /\ g(j) \in 1..Len(window) /\ g(j) - g(i) >= j - i
    BY <1>2, <1>5
  <2>2. g(i) <= g(j)
    BY <2>1, <1>2, <1>3, <1>5
  <2>3. f[g(j)] - f[g(i)] >= g(j) - g(i)
    BY <1>1, <1>3, <2>1, <2>2 DEF Selects
  <2>4. f[g(j)] \in Int /\ f[g(i)] \in Int
    BY <1>1, <1>3, <2>1 DEF Selects
  <2>5. f[g(j)] - f[g(i)] >= j - i
    BY <2>1, <2>3, <2>4, <1>3, <1>2
  <2> QED BY <2>5
<1> QED BY <1>4, <1>5 DEF Selects

LEMMA RememberedKept ==
  ASSUME Shape, Remembered, NEW m \in Message, NEW now \in Int, detectLoop(m, now)
  PROVE  Remembered'
<1>1. PICK u \in Seq(Entry), e \in Entry :
        /\ u = Unexpired(window, now)
        /\ log' = Append(log, e)
        /\ window' = Slide(u, e)
        /\ Len(u) <= LoopWindowSize
  BY Detection
<1>2. PICK h : Selects(u, h)
  BY <1>1, UnexpiredFromLog
<1>3. PICK d \in {1, 2} :
        /\ d = 2 <=> Len(u) = LoopWindowSize
        /\ Slide(u, e) = SubSeq(Append(u, e), d, Len(u) + 1)
        /\ Slide(u, e) \in Seq(Entry) /\ Len(Slide(u, e)) = Len(u) + 2 - d
        /\ \A i \in 1..(Len(u) + 2 - d) :
             Slide(u, e)[i] = IF d + i - 1 <= Len(u) THEN u[d + i - 1] ELSE e
  BY <1>1, SlideProperties
<1> DEFINE n == Len(log) + 1
<1>0. PICK f : f = [i \in 1..(Len(u) + 2 - d) |->
                     IF d + i - 1 <= Len(u) THEN h[d + i - 1] ELSE n]
  OBVIOUS
<1>4. /\ Len(u) \in Nat /\ Len(log) \in Nat
      /\ DOMAIN log' = 1..n /\ DOMAIN window' = 1..(Len(u) + 2 - d)
      /\ \A i \in 1..n : log'[i] = IF i <= Len(log) THEN log[i] ELSE e
  BY <1>1, <1>3, SMTT(30) DEF Shape
<1>5. ASSUME NEW i \in 1..(Len(u) + 2 - d)
      PROVE  f[i] \in 1..n /\ window'[i] = log'[f[i]]
  <2>1. CASE d + i - 1 <= Len(u)
    <3>1. d + i - 1 \in 1..Len(u)
      BY <1>4, <2>1
    <3>2. f[i] = h[d + i - 1] /\ h[d + i - 1] \in 1..Len(log)
      BY <1>0, <1>2, <2>1, <3>1 DEF Selects
    <3>3. window'[i] = log[h[d + i - 1]]
      BY <1>1, <1>2, <1>3, <2>1, <3>1 DEF Selects
    <3> QED BY <3>2, <3>3, <1>4
  <2>2. CASE ~(d + i - 1 <= Len(u))
    <3>1. f[i] = n /\ window'[i] = e
      BY <1>0, <1>1, <1>3, <2>2
    <3> QED BY <3>1, <1>4
  <2> QED BY <2>1, <2>2
<1>6. ASSUME NEW i \in 1..(Len(u) + 2 - d), NEW j \in 1..(Len(u) + 2 - d), i <= j
      PROVE  f[j] - f[i] >= j - i
  <2> DEFINE a == d + i - 1
             b == d + j - 1
  <2>1. a \in 1..(Len(u) + 1) /\ b \in 1..(Len(u) + 1) /\ a <= b /\ b - a = j - i
    BY <1>4, <1>6
  <2>2. /\ f[i] = IF a <= Len(u) THEN h[a] ELSE n
        /\ f[j] = IF b <= Len(u) THEN h[b] ELSE n
    BY <1>0
  <2> HIDE DEF a, b
  <2>3. CASE b <= Len(u)
    <3>1. h[b] - h[a] >= b - a /\ a \in 1..Len(u)
      BY <2>1, <2>3, <1>2, <1>4 DEF Selects
    <3> QED BY <3>1, <2>1, <2>2, <2>3
  <2>4. CASE ~(b <= Len(u)) /\ a <= Len(u)
    <3>1. b = Len(u) + 1 /\ a \in 1..Len(u) /\ Len(u) \in 1..Len(u)
      BY <2>1, <2>4, <1>4
    <3>2. h[Len(u)] - h[a] >= Len(u) - a
      BY <3>1, <1>2 DEF Selects
    <3>3. h[Len(u)] \in 1..Len(log) /\ h[a] \in 1..Len(log)
      BY <3>1, <1>2 DEF Selects
    <3>4. n - h[a] >= b - a
      BY <3>1, <3>2, <3>3, <1>4, SMTT(30)
    <3> QED BY <3>4, <2>1, <2>2, <2>4
  <2>5. CASE ~(b <= Len(u)) /\ ~(a <= Len(u))
    <3>1. a = b
      BY <2>1, <2>5, <1>4
    <3> QED BY <3>1, <2>1, <2>2, <2>5, <1>4
  <2> QED BY <2>3, <2>4, <2>5
<1>7. Selects(window, f)'
  <2>1. f \in [1..(Len(u) + 2 - d) -> 1..n]
    BY <1>0, <1>5
  <2>2. Len(window') = Len(u) + 2 - d /\ Len(log') = n
    BY <1>1, <1>3, <1>4 DEF Shape
  <2> HIDE DEF n
  <2> QED BY <2>1, <2>2, <1>5, <1>6 DEF Selects
<1> QED BY <1>7 DEF Remembered

LEMMA DepthSoundKept ==
  ASSUME Shape, Remembered, NEW m \in Message, NEW now \in Int, detectLoop(m, now)
  PROVE  DepthSound'
<1>1. PICK u \in Seq(Entry), e \in Entry :
        /\ u = Unexpired(window, now)
        /\ e = [sig |-> Signature(m), seenAt |-> now]
        /\ log' = Append(log, e)
        /\ depth' = LoopDepth(u, e.sig)
  BY Detection
<1>2. PICK h : Selects(u, h)
  BY <1>1, UnexpiredFromLog
<1> DEFINE n == Len(log) + 1
<1>3. /\ Len(u) \in Nat /\ Len(log) \in Nat /\ Len(log') = n
      /\ \A i \in 1..n : log'[i] = IF i <= Len(log) THEN log[i] ELSE e
      /\ e.seenAt = now
  BY <1>1 DEF Shape
<1> SUFFICES ASSUME depth' > 0
             PROVE  \E i \in Repeats' : Len(log') - i >= depth'
  BY DEF DepthSound
<1>4. PICK x \in Matches(u, e.sig) : depth' = Len(u) + 1 - x
  BY <1>1, LoopDepthProperties
<1>5. x \in 1..Len(u) /\ u[x].sig = e.sig /\ e.sig.contentKey # NoContent
  BY <1>4 DEF Matches
<1>6. u[x].seenAt > now - LoopEntryTTL
  BY <1>1, <1>5, UnexpiredSelects
<1>7. h[x] \in 1..Len(log) /\ log'[h[x]] = u[x] /\ log'[n] = e
  <2>1. h[x] \in 1..Len(log) /\ u[x] = log[h[x]]
    BY <1>2, <1>5 DEF Selects
  <2> QED BY <2>1, <1>3
<1>8. h[x] \in Repeats'
  BY <1>3, <1>5, <1>6, <1>7 DEF Repeats
<1>9. n - h[x] >= Len(u) + 1 - x
  <2>1. Len(u) \in 1..Len(u)
    BY <1>3, <1>5
  <2>2. h[Len(u)] - h[x] >= Len(u) - x /\ h[Len(u)] \in 1..Len(log)
    BY <2>1, <1>2, <1>5 DEF Selects
  <2> QED BY <2>2, <1>3, <1>5, <1>7
<1> QED BY <1>3, <1>4, <1>8, <1>9

LEMMA EntryTimes ==
  ASSUME NEW s \in Seq(Entry)
  PROVE  Len(s) \in Nat /\ \A i \in 1..Len(s) : s[i] \in Entry /\ s[i].seenAt \in Int
<1>1. \A e \in Entry : e.seenAt \in Int
  BY DEF Entry
<1>2. Len(s) \in Nat /\ \A i \in 1..Len(s) : s[i] \in Entry
  OBVIOUS
<1> QED BY <1>1, <1>2

(* Timestamps that never run backwards from one message to the next do not *)
(* do so over many.                                                        *)
LEMMA OrderedLog ==
  ASSUME log \in Seq(Entry), Ordered, NEW i \in 1..Len(log), NEW j \in 1..Len(log), i <= j
  PROVE  log[i].seenAt <= log[j].seenAt
<1>1. Len(log) \in Nat /\ \A k \in 1..Len(log) : log[k].seenAt \in Int
  BY EntryTimes
<1> DEFINE Later == {k \in 1..j : log[k].seenAt > log[j].seenAt}
<1> SUFFICES ASSUME i \in Later PROVE FALSE
  BY <1>1
<1>2. IsFiniteSet(Later) /\ \A k \in Later : k \in Int
  <2>1. IsFiniteSet(1..j) /\ Later \in SUBSET (1..j)
    BY <1>1, IntervalSize
  <2>2. IsFiniteSet(Later)
    BY <2>1, FS_Subset
  <2> QED BY <2>1, <2>2
<1>3. PICK k \in Later : \A n \in Later : n <= k
  <2> HIDE DEF Later
  <2> QED BY <1>2, MaxOfFinite
<1>4. k \in 1..j /\ k # j /\ log[k].seenAt > log[j].seenAt
  BY <1>1, <1>3
<1>5. k + 1 \in 2..Len(log) /\ k + 1 \in 1..j
  BY <1>1, <1>4
<1>6. log[k].seenAt <= log[k + 1].seenAt
  BY <1>1, <1>4, <1>5 DEF Ordered
<1>7. k + 1 \in Later
  BY <1>1, <1>4, <1>5, <1>6
<1>8. k + 1 <= k
  <2> HIDE DEF Later
  <2> QED BY <1>3, <1>7
<1> QED BY <1>4, <1>8, <1>1

(* While timestamps have not run backwards, pruning leaves the last        *)
(* entries of the log: all unexpired ones among the last LoopWindowSize.   *)
LEMMA UnexpiredIsSuffix ==
  ASSUME Shape, Recent, NEW now \in Int, NEW u, u = Unexpired(window, now),
         Ordered, log # <<>> => log[Len(log)].seenAt <= now
  PROVE  \E k \in 1..(Len(log) + 1) :
           /\ Len(u) = Len(log) + 1 - k
           /\ u = SubSeq(log, k, Len(log))
           /\ \A i \in 1..Len(u) : u[i] = log[k + i - 1]
           /\ \A i \in 1..(k - 1) : \/ i <= Len(log) - LoopWindowSize
                                 \/ log[i].seenAt <= now - LoopEntryTTL
<1>1. PICK m \in 1..(Len(log) + 1) : Suffix(m)
  BY DEF Recent
<1> DEFINE K == Kept(now)
           L == Len(log)
<1>2. /\ L \in Nat /\ Len(window) = L + 1 - m
      /\ \A i \in 1..Len(window) : window[i] = log[m + i - 1]
      /\ \A i \in 1..L : log[i] \in Entry /\ log[i].seenAt \in Int
      /\ window \in Seq(Entry)
  <2>1. L \in Nat /\ \A i \in 1..L : log[i] \in Entry /\ log[i].seenAt \in Int
    BY EntryTimes DEF Shape
  <2>2. \A i \in m..L : log[i] \in Entry
    BY <2>1
  <2>3. /\ SubSeq(log, m, L) \in Seq(Entry)
        /\ Len(SubSeq(log, m, L)) = IF m <= L THEN L - m + 1 ELSE 0
        /\ \A i \in 1..(L - m + 1) : SubSeq(log, m, L)[i] = log[m + i - 1]
    BY <2>1, <2>2, SubSeqProperties
  <2> QED BY <2>1, <2>3, <1>1 DEF Suffix
<1>3. \A i, j \in 1..L : i <= j => log[i].seenAt <= log[j].seenAt
  BY <1>2, OrderedLog DEF Shape
<1>4. \A i \in K, k \in 1..Len(window) : i <= k => k \in K
  <2> SUFFICES ASSUME NEW i \in K, NEW k \in 1..Len(window), i <= k PROVE k \in K
    OBVIOUS
  <2>1. i \in 1..Len(window) /\ window[i].seenAt > now - LoopEntryTTL
    BY <1>2 DEF Kept
  <2>2. /\ m + i - 1 \in 1..L /\ m + k - 1 \in 1..L /\ m + i - 1 <= m + k - 1
    BY <1>2, <2>1
  <2>3. log[m + i - 1].seenAt <= log[m + k - 1].seenAt
    BY <1>3, <2>2
  <2>4. window[k].seenAt \in Int /\ window[i].seenAt <= window[k].seenAt
        /\ window[i].seenAt \in Int
    BY <1>2, <2>1, <2>2, <2>3
  <2>5. window[k].seenAt > now - LoopEntryTTL
    BY <2>1, <2>4, LoopWindowAssumption
  <2> QED BY <2>5, <1>2 DEF Kept
<1>5. K \in SUBSET (1..Len(window)) /\ u = Keep(window, K)
  BY <1>2 DEF Kept, Unexpired
<1> HIDE DEF K
<1>6. PICK p \in 1..(Len(window) + 1) : K = p..Len(window) /\ u = SubSeq(window, p, Len(window))
  BY <1>2, <1>4, <1>5, KeepSuffix
<1> DEFINE k == m + p - 1
<1>7. k \in 1..(L + 1) /\ k >= m
  BY <1>2
<1>8. /\ Len(u) = L + 1 - k /\ u \in Seq(Entry)
      /\ \A i \in 1..Len(u) : u[i] = log[k + i - 1]
  <2>1. Len(window) \in Nat /\ \A i \in p..Len(window) : window[i] \in Entry
    BY <1>2
  <2>2. /\ SubSeq(window, p, Len(window)) \in Seq(Entry)
        /\ Len(SubSeq(window, p, Len(window))) =
             IF p <= Len(window) THEN Len(window) - p + 1 ELSE 0
        /\ \A i \in 1..(Len(window) - p + 1) :
             SubSeq(window, p, Len(window))[i] = window[p + i - 1]
    BY <2>1, SubSeqProperties
  <2>3. Len(u) = L + 1 - k /\ u \in Seq(Entry)
    <3>1. u \in Seq(Entry) /\ Len(u) = IF p <= Len(window) THEN Len(window) - p + 1 ELSE 0
      BY <1>6, <2>2
    <3>2. Len(u) = Len(window) - p + 1
      BY <3>1, <2>1
    <3> QED BY <3>1, <3>2, <1>2
  <2>4. ASSUME NEW i \in 1..Len(u) PROVE u[i] = log[k + i - 1]
    <3>1. i \in 1..(Len(window) - p + 1) /\ p + i - 1 \in 1..Len(window)
      BY <1>2, <1>6, <2>1, <2>2
    <3>2. u[i] = window[p + i - 1] /\ window[p + i - 1] = log[m + (p + i - 1) - 1]
      BY <3>1, <1>2, <1>6, <2>2
    <3>3. m + (p + i - 1) - 1 = k + i - 1
      BY <3>1
    <3> QED BY <3>2, <3>3
  <2> QED BY <2>3, <2>4
<1>9. u = SubSeq(log, k, L)
  <2>1. \A i \in k..L : log[i] \in Entry
    BY <1>2, <1>7
  <2>2. /\ SubSeq(log, k, L) \in Seq(Entry)
        /\ Len(SubSeq(log, k, L)) = IF k <= L THEN L - k + 1 ELSE 0
        /\ \A i \in 1..(L - k + 1) : SubSeq(log, k, L)[i] = log[k + i - 1]
    BY <1>2, <1>7, <2>1, SubSeqProperties
  <2> HIDE DEF k, L
  <2>3. Len(SubSeq(log, k, L)) = Len(u)
    BY <1>2, <1>7, <1>8, <2>2
  <2>4. \A i \in 1..Len(u) : u[i] = SubSeq(log, k, L)[i]
    BY <1>2, <1>7, <1>8, <2>2
  <2> QED BY <1>8, <2>2, <2>3, <2>4, SeqEqual
<1>10. ASSUME NEW i \in 1..(k - 1)
       PROVE  i <= L - LoopWindowSize \/ log[i].seenAt <= now - LoopEntryTTL
  <2>1. i \in 1..L
    BY <1>2, <1>7
  <2>2. CASE i <= m - 1
    <3>1. i <= L - LoopWindowSize \/ log[i].seenAt <= log[L].seenAt - LoopEntryTTL
      BY <1>1, <2>2 DEF Suffix
    <3>2. log[L].seenAt <= now /\ log[L].seenAt \in Int /\ log[i].seenAt \in Int
      BY <1>2, <2>1
    <3> QED BY <3>1, <3>2, LoopWindowAssumption
  <2>3. CASE ~(i <= m - 1)
    <3>1. i - m + 1 \in 1..Len(window) /\ i - m + 1 < p /\ m + (i - m + 1) - 1 = i
      BY <2>1, <2>3, <1>2, <1>7
    <3>2. window[i - m + 1] = log[i]
      BY <3>1, <1>2
    <3>3. i - m + 1 \notin K
      BY <3>1, <1>6
    <3>4. ~(log[i].seenAt > now - LoopEntryTTL)
      BY <3>1, <3>2, <3>3, <1>2 DEF K, Kept
    <3>5. log[i].seenAt \in Int
      BY <1>2, <2>1
    <3> QED BY <3>4, <3>5, LoopWindowAssumption
  <2> QED BY <2>2, <2>3
<1> QED BY <1>7, <1>8, <1>9, <1>10

LEMMA OrderedBefore ==
  ASSUME Shape, NEW e \in Entry, log' = Append(log, e), Ordered'
  PROVE  Ordered /\ (log # <<>> => log[Len(log)].seenAt <= e.seenAt)
<1>1. /\ Len(log) \in Nat /\ Len(log') = Len(log) + 1
      /\ \A i \in 1..(Len(log) + 1) : log'[i] = IF i <= Len(log) THEN log[i] ELSE e
      /\ log # <<>> => Len(log) >= 1
  BY DEF Shape
<1>2. \A i \in 2..(Len(log) + 1) : log'[i - 1].seenAt <= log'[i].seenAt
  BY <1>1 DEF Ordered
<1>3. ASSUME NEW i \in 2..Len(log) PROVE log[i - 1].seenAt <= log[i].seenAt
  <2>1. log'[i - 1] = log[i - 1] /\ log'[i] = log[i] /\ i \in 2..(Len(log) + 1)
    BY <1>1
  <2> QED BY <2>1, <1>2
<1>4. ASSUME log # <<>> PROVE log[Len(log)].seenAt <= e.seenAt
  <2>1. Len(log) + 1 \in 2..(Len(log) + 1) /\ (Len(log) + 1) - 1 = Len(log)
    BY <1>1, <1>4
  <2>2. log'[Len(log)] = log[Len(log)] /\ log'[Len(log) + 1] = e
    BY <1>1, <1>4
  <2> QED BY <2>1, <2>2, <1>2
<1> QED BY <1>3, <1>4 DEF Ordered

LEMMA RecentKept ==
  ASSUME Shape, Recent, NEW m \in Message, NEW now \in Int, detectLoop(m, now)
  PROVE  Recent'
<1> SUFFICES ASSUME Ordered' PROVE \E k \in 1..(Len(log') + 1) : Suffix(k)'
  BY DEF Recent
<1>1. PICK u \in Seq(Entry), e \in Entry :
        /\ u = Unexpired(window, now)
        /\ e = [sig |-> Signature(m), seenAt |-> now]
        /\ log' = Append(log, e)
        /\ window' = Slide(u, e)
        /\ Len(u) <= LoopWindowSize
  BY Detection
<1>2. Ordered /\ (log # <<>> => log[Len(log)].seenAt <= now)
  BY <1>1, OrderedBefore
<1> DEFINE L == Len(log)
<1>3. PICK k \in 1..(L + 1) :
        /\ Len(u) = L + 1 - k
        /\ u = SubSeq(log, k, L)
        /\ \A i \in 1..Len(u) : u[i] = log[k + i - 1]
        /\ \A i \in 1..(k - 1) : \/ i <= L - LoopWindowSize
                              \/ log[i].seenAt <= now - LoopEntryTTL
  BY <1>1, <1>2, UnexpiredIsSuffix
<1>4. PICK d \in {1, 2} :
        /\ d = 2 <=> Len(u) = LoopWindowSize
        /\ Slide(u, e) = SubSeq(Append(u, e), d, Len(u) + 1)
        /\ Slide(u, e) \in Seq(Entry) /\ Len(Slide(u, e)) = Len(u) + 2 - d
        /\ \A i \in 1..(Len(u) + 2 - d) :
             Slide(u, e)[i] = IF d + i - 1 <= Len(u) THEN u[d + i - 1] ELSE e
  BY <1>1, SlideProperties
<1>5. /\ L \in Nat /\ Len(log') = L + 1 /\ log' \in Seq(Entry)
      /\ \A i \in 1..(L + 1) : log'[i] = IF i <= L THEN log[i] ELSE e
      /\ e.seenAt = now
      /\ LoopWindowSize \in Nat
  BY <1>1, LoopWindowAssumption DEF Shape
<1>6. PICK q : q = k + d - 1
  OBVIOUS
<1>7. q \in 1..(L + 2) /\ q \in Int /\ (L + 1) - q + 1 = Len(u) + 2 - d
  BY <1>3, <1>5, <1>6
<1>8. window' = SubSeq(log', q, L + 1)
  <2>1. \A i \in q..(L + 1) : log'[i] \in Entry
    BY <1>5, <1>7
  <2>2. /\ SubSeq(log', q, L + 1) \in Seq(Entry)
        /\ Len(SubSeq(log', q, L + 1)) = IF q <= L + 1 THEN (L + 1) - q + 1 ELSE 0
        /\ \A i \in 1..((L + 1) - q + 1) : SubSeq(log', q, L + 1)[i] = log'[q + i - 1]
    <3> HIDE DEF L
    <3> QED BY <1>5, <1>7, <2>1, SubSeqProperties
  <2>3. Len(SubSeq(log', q, L + 1)) = Len(window')
    BY <1>1, <1>4, <1>5, <1>7, <2>2
  <2>4. ASSUME NEW i \in 1..Len(window') PROVE window'[i] = SubSeq(log', q, L + 1)[i]
    <3>1. i \in 1..(Len(u) + 2 - d)
      BY <1>1, <1>4
    <3>2. /\ window'[i] = IF d + i - 1 <= Len(u) THEN u[d + i - 1] ELSE e
          /\ SubSeq(log', q, L + 1)[i] = log'[q + i - 1]
      BY <1>1, <1>4, <1>7, <2>2, <3>1
    <3>3. CASE d + i - 1 <= Len(u)
      <4>1. d + i - 1 \in 1..Len(u)
        BY <1>3, <1>5, <3>1, <3>3
      <4>2. u[d + i - 1] = log[k + (d + i - 1) - 1] /\ k + (d + i - 1) - 1 = q + i - 1
        <5>1. \A j \in 1..Len(u) : u[j] = log[k + j - 1]
          BY <1>3
        <5>2. u[d + i - 1] = log[k + (d + i - 1) - 1]
          BY <4>1, <5>1
        <5>3. k \in Int /\ d \in Int /\ i \in Int
          BY <1>5, <3>1
        <5>4. k + (d + i - 1) - 1 = q + i - 1
          BY <1>6, <5>3
        <5> QED BY <5>2, <5>4
      <4>3. q + i - 1 \in 1..L
        BY <1>3, <1>5, <1>6, <3>1, <4>1, SMTT(30)
      <4>4. log'[q + i - 1] = log[q + i - 1]
        BY <1>5, <4>3
      <4>5. u[d + i - 1] = log[q + i - 1]
        BY <4>2
      <4> HIDE DEF L
      <4> QED BY <3>2, <3>3, <4>4, <4>5
    <3>4. CASE ~(d + i - 1 <= Len(u))
      <4>1. q + i - 1 = L + 1
        BY <1>3, <1>5, <1>6, <3>1, <3>4
      <4>2. log'[L + 1] = e
        BY <1>5
      <4>3. log'[q + i - 1] = e
        BY <4>1, <4>2
      <4> QED BY <3>2, <3>4, <4>3
    <3> QED BY <3>3, <3>4
  <2>5. window' \in Seq(Entry)
    BY <1>1, <1>4
  <2> HIDE DEF L
  <2> QED BY <2>2, <2>3, <2>4, <2>5, SeqEqual
<1>9. ASSUME NEW i \in 1..(q - 1)
      PROVE  \/ i <= L + 1 - LoopWindowSize
             \/ log'[i].seenAt <= log'[L + 1].seenAt - LoopEntryTTL
  <2>1. log'[L + 1].seenAt = now
    BY <1>5
  <2>2. CASE i <= k - 1
    <3>1. i \in 1..(k - 1) /\ i \in 1..L
      BY <1>5, <1>7, <2>2
    <3>2. i <= L - LoopWindowSize \/ log[i].seenAt <= now - LoopEntryTTL
      BY <1>3, <3>1
    <3>3. log'[i] = log[i]
      BY <1>5, <3>1
    <3> QED BY <1>5, <2>1, <3>1, <3>2, <3>3
  <2>3. CASE ~(i <= k - 1)
    <3>1. i = k /\ d = 2
      BY <1>5, <1>6, <2>3
    <3>2. L + 1 - k = LoopWindowSize
      BY <1>3, <1>4, <3>1
    <3> QED BY <1>5, <3>1, <3>2
  <2> QED BY <2>2, <2>3
<1>10. Suffix(q)' /\ q \in 1..(Len(log') + 1)
  BY <1>5, <1>7, <1>8, <1>9 DEF Suffix
<1> QED BY <1>10

LEMMA DepthExactKept ==
  ASSUME Shape, Recent, NEW m \in Message, NEW now \in Int, detectLoop(m, now)
  PROVE  DepthExact'
<1> DEFINE L == Len(log)
           near == {i \in Repeats : Len(log) - i <= LoopWindowSize}
<1> SUFFICES ASSUME Ordered'
             PROVE  depth' = IF near' = {} THEN 0 ELSE Len(log') - Max(near')
  BY DEF DepthExact, Ordered
<1>1. PICK u \in Seq(Entry), e \in Entry :
        /\ u = Unexpired(window, now)
        /\ e = [sig |-> Signature(m), seenAt |-> now]
        /\ log' = Append(log, e)
        /\ depth' = LoopDepth(u, e.sig)
        /\ Len(u) <= LoopWindowSize
  BY Detection
<1>2. Ordered /\ (log # <<>> => log[Len(log)].seenAt <= now)
  BY <1>1, OrderedBefore
<1>3. PICK k \in 1..(L + 1) :
        /\ Len(u) = L + 1 - k
        /\ u = SubSeq(log, k, L)
        /\ \A i \in 1..Len(u) : u[i] = log[k + i - 1]
        /\ \A i \in 1..(k - 1) : \/ i <= L - LoopWindowSize
                              \/ log[i].seenAt <= now - LoopEntryTTL
  BY <1>1, <1>2, UnexpiredIsSuffix
<1>4. /\ L \in Nat /\ Len(log') = L + 1
      /\ \A i \in 1..(L + 1) : log'[i] = IF i <= L THEN log[i] ELSE e
      /\ \A i \in 1..L : log[i].seenAt \in Int
      /\ e.seenAt = now
      /\ LoopWindowSize \in Nat /\ LoopEntryTTL \in Nat
  BY <1>1, EntryTimes, LoopWindowAssumption DEF Shape
<1> DEFINE M == Matches(u, e.sig)
<1>5. near' = {i \in 1..L : /\ log[i].sig = e.sig
                            /\ e.sig.contentKey # NoContent
                            /\ log[i].seenAt > now - LoopEntryTTL
                            /\ L + 1 - i <= LoopWindowSize}
  <2>1. Repeats' = {i \in 1..L : /\ log'[i].sig = log'[L + 1].sig
                                 /\ log'[L + 1].sig.contentKey # NoContent
                                 /\ log'[i].seenAt > log'[L + 1].seenAt - LoopEntryTTL}
    BY <1>4 DEF Repeats
  <2>2. log'[L + 1] = e /\ \A i \in 1..L : log'[i] = log[i]
    BY <1>4
  <2>3. Repeats' = {i \in 1..L : /\ log[i].sig = e.sig
                                 /\ e.sig.contentKey # NoContent
                                 /\ log[i].seenAt > now - LoopEntryTTL}
    BY <2>1, <2>2, <1>4
  <2> QED BY <2>3, <1>4
(* The two sets hold the same messages, at positions k - 1 apart.          *)
<1>6. ASSUME NEW x \in M PROVE k + x - 1 \in near'
  <2>1. x \in 1..Len(u) /\ u[x].sig = e.sig /\ e.sig.contentKey # NoContent
    BY DEF Matches
  <2>2. u[x].seenAt > now - LoopEntryTTL
    BY <1>1, <2>1, UnexpiredSelects
  <2>3. u[x] = log[k + x - 1] /\ k + x - 1 \in 1..L /\ L + 1 - (k + x - 1) <= LoopWindowSize
    BY <1>1, <1>3, <1>4, <2>1
  <2> HIDE DEF near
  <2> QED BY <1>5, <2>1, <2>2, <2>3
<1>7. ASSUME NEW i \in near' PROVE i - k + 1 \in M /\ i \in Int
  <2>1. /\ i \in 1..L /\ log[i].sig = e.sig /\ e.sig.contentKey # NoContent
        /\ log[i].seenAt > now - LoopEntryTTL
        /\ L + 1 - i <= LoopWindowSize
    BY <1>5
  <2>2. i >= k
    <3> SUFFICES ASSUME i <= k - 1 PROVE FALSE
      BY <1>4, <2>1
    <3>1. i <= L - LoopWindowSize \/ log[i].seenAt <= now - LoopEntryTTL
      BY <1>3, <1>4, <2>1
    <3>2. log[i].seenAt \in Int
      BY <1>4, <2>1
    <3> QED BY <1>4, <2>1, <3>1, <3>2
  <2>3. i - k + 1 \in 1..Len(u) /\ k + (i - k + 1) - 1 = i
    BY <1>3, <1>4, <2>1, <2>2
  <2>4. u[i - k + 1] = log[i]
    BY <1>3, <2>3
  <2> QED BY <2>1, <2>3, <2>4 DEF Matches
<1> HIDE DEF near, M
<1>8. CASE M = {} /\ depth' = 0
  BY <1>7, <1>8
<1>9. ASSUME NEW x \in M, \A y \in M : y <= x, depth' = Len(u) + 1 - x
      PROVE  near' # {} /\ depth' = Len(log') - Max(near')
  <2>1. x \in 1..Len(u) /\ Len(u) \in Nat
    BY DEF M, Matches
  <2>2. k + x - 1 \in near'
    BY <1>6
  <2>3. \A i \in near' : i \in Int /\ i <= k + x - 1
    <3> SUFFICES ASSUME NEW i \in near' PROVE i \in Int /\ i <= k + x - 1
      OBVIOUS
    <3>1. i \in Int /\ i - k + 1 <= x
      BY <1>7, <1>9
    <3> QED BY <3>1, <2>1
  <2>4. Max(near') = k + x - 1
    BY <2>2, <2>3, MaxIs
  <2>5. Len(log') - (k + x - 1) = Len(u) + 1 - x
    BY <1>3, <1>4, <2>1
  <2> QED BY <1>9, <2>2, <2>4, <2>5
<1>10. \/ M = {} /\ depth' = 0
       \/ \E x \in M : (\A y \in M : y <= x) /\ depth' = Len(u) + 1 - x
  BY <1>1, LoopDepthProperties DEF M
<1> QED BY <1>8, <1>9, <1>10

LEMMA InitIInv == Init => IInv
<1> SUFFICES ASSUME Init PROVE IInv
  OBVIOUS
<1>1. window = <<>> /\ log = <<>> /\ depth = 0
  BY DEF Init
<1>2. Shape
  BY <1>1, LoopWindowAssumption DEF Shape
<1>3. Remembered
  <2>1. Selects(window, <<>>)
    BY <1>1 DEF Selects
  <2> QED BY <2>1 DEF Remembered
<1>4. Recent
  <2>1. Suffix(1)
    BY <1>1, SubSeqEmpty DEF Suffix
  <2> QED BY <1>1, <2>1 DEF Recent
<1> QED BY <1>1, <1>2, <1>3, <1>4 DEF IInv, DepthSound, DepthExact

LEMMA NextIInv == IInv /\ [Next]_vars => IInv'
<1> SUFFICES ASSUME IInv, [Next]_vars PROVE IInv'
  OBVIOUS
<1>1. CASE Observe
  <2>1. PICK m \in Message, now \in (Newest - MaxSkew)..MaxTime : detectLoop(m, now)
    BY <1>1 DEF Observe
  <2>2. now \in Int
    BY <2>1
  <2> QED BY <2>1, <2>2, ShapeKept, RememberedKept, RecentKept, DepthSoundKept,
             DepthExactKept DEF IInv
<1>2. CASE BoundReached \/ UNCHANGED vars
  BY <1>2 DEF BoundReached, vars, IInv, Shape, Remembered, Selects, Recent, Ordered,
     Suffix, DepthSound, DepthExact, Repeats
<1> QED BY <1>1, <1>2 DEF Next

(* The window never exceeds its size and holds nothing but entries of the  *)
(* log, and a reported depth is within the window.                         *)
THEOREM WindowBounded == Spec => []TypeOK
<1>1. IInv => TypeOK
  <2> SUFFICES ASSUME IInv PROVE TypeOK
    OBVIOUS
  <2>1. PICK f : Selects(window, f)
    BY DEF IInv, Remembered
  <2>2. Len(window) \in Nat /\ DOMAIN window = 1..Len(window) /\ DOMAIN log = 1..Len(log)
    BY DEF IInv, Shape
  <2>3. \A i \in DOMAIN window : window[i] \in {log[j] : j \in DOMAIN log}
    BY <2>1, <2>2 DEF Selects
  <2> QED BY <2>2, <2>3, LoopWindowAssumption DEF IInv, Shape, TypeOK
<1> QED BY <1>1, InitIInv, NextIInv, PTL DEF Spec

(* A loop that is reported was one, whatever order timestamps arrive in:   *)
(* an unexpired earlier message repeats, at least that many steps back.    *)
THEOREM LoopsAreReal == Spec => []DepthSound
<1>1. IInv => DepthSound
  BY DEF IInv
<1> QED BY <1>1, InitIInv, NextIInv, PTL DEF Spec

(* While timestamps do not run backwards, the reported depth is the        *)
(* distance to the closest unexpired repeat among the last LoopWindowSize  *)
(* messages, and 0 when there is none.                                     *)
THEOREM LoopsAreFound == Spec => []DepthExact
<1>1. IInv => DepthExact
  BY DEF IInv
<1> QED BY <1>1, InitIInv, NextIInv, PTL DEF Spec
=============================================================================

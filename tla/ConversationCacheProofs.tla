----------------------- MODULE ConversationCacheProofs -----------------------
(***************************************************************************)
(* The safety of the conversation cache, for every set of conversations,   *)
(* every capacity, lifetime and timestamp skew.                            *)
(***************************************************************************)
EXTENDS ConversationCache, SequenceTheorems, FiniteSetTheorems, TLAPS

(***************************************************************************)
(* The inductive invariant. RecencyOrder is what makes NoneOverdue hold:   *)
(* evictStaleLocked looks only at the tail. It is kept because no live     *)
(* conversation was seen after newest and a record is at most MaxSkew      *)
(* older than newest.                                                      *)
(***************************************************************************)
NoneFromFuture == \A k \in Key : lastSeen[k] <= newest

IInv ==
  /\ TypeOK
  /\ ListMatchesMap
  /\ Bounded
  /\ RecencyOrder
  /\ NoneFromFuture
  /\ NoneOverdue

(***************************************************************************)
(* The three outcomes of a record leave a list of the same form: k first,  *)
(* then the first m entries without k in their old order. The entry at i   *)
(* of the new list stood at Source(i, p): the promoted conversation left a *)
(* gap at p, a new one left none (p is then the new length c).             *)
(***************************************************************************)
Source(i, p) == IF i <= p THEN i - 1 ELSE i

Outcome(k, now, m, c, p) ==
  /\ lru' \in Seq(Key)
  /\ Len(lru') = c
  /\ lru'[1] = k
  /\ \A i \in 2..c : /\ Source(i, p) \in 1..m
                     /\ lru'[i] = lru[Source(i, p)]
                     /\ lru[Source(i, p)] # k
  /\ \A j \in 1..m : lru[j] # k => \E i \in 2..c : Source(i, p) = j
  /\ \A j \in 1..m : lastSeen[lru[j]] > now - ConvTTL - MaxSkew
  /\ Touch(k, now, m)

(* A prefix of the list.                                                   *)
LEMMA PrefixProperties ==
  ASSUME TypeOK, NEW n \in 0..Len(lru)
  PROVE  /\ SubSeq(lru, 1, n) \in Seq(Key)
         /\ Len(SubSeq(lru, 1, n)) = n
         /\ \A i \in 1..n : SubSeq(lru, 1, n)[i] = lru[i]
  BY SubSeqProperties DEF TypeOK

LEMMA PushFrontProperties ==
  ASSUME NEW k \in Key, NEW s \in Seq(Key)
  PROVE  /\ PushFront(k, s) \in Seq(Key)
         /\ Len(PushFront(k, s)) = Len(s) + 1
         /\ PushFront(k, s)[1] = k
         /\ \A i \in 2..(Len(s) + 1) : PushFront(k, s)[i] = s[i - 1]
<1>1. <<k>> \in Seq(Key) /\ Len(<<k>>) = 1 /\ <<k>>[1] = k
  OBVIOUS
<1>2. /\ <<k>> \o s \in Seq(Key)
      /\ Len(<<k>> \o s) = Len(<<k>>) + Len(s)
      /\ \A i \in 1..(Len(<<k>>) + Len(s)) :
           (<<k>> \o s)[i] = IF i <= Len(<<k>>) THEN <<k>>[i] ELSE s[i - Len(<<k>>)]
  BY <1>1, ConcatProperties
<1> QED
  BY <1>1, <1>2 DEF PushFront

LEMMA MoveToFrontProperties ==
  ASSUME NEW s \in Seq(Key), NEW p \in 1..Len(s)
  PROVE  /\ MoveToFront(s, p) \in Seq(Key)
         /\ Len(MoveToFront(s, p)) = Len(s)
         /\ MoveToFront(s, p)[1] = s[p]
         /\ \A i \in 2..Len(s) :
              MoveToFront(s, p)[i] = s[Source(i, p)]
<1> DEFINE e(i) == IF i = 1 THEN s[p] ELSE IF i <= p THEN s[i - 1] ELSE s[i]
<1>1. Len(s) \in Nat /\ \A i \in 1..Len(s) : s[i] \in Key
  OBVIOUS
<1>2. \A i \in 1..Len(s) : e(i) \in Key
  BY <1>1
<1>3. MoveToFront(s, p) = [i \in 1..Len(s) |-> e(i)]
  BY DEF MoveToFront
<1> HIDE DEF e
<1>4. MoveToFront(s, p) \in Seq(Key)
  BY <1>1, <1>2, <1>3, IsASeq
<1>5. Len(MoveToFront(s, p)) = Len(s)
  BY <1>1, <1>3, <1>4
<1>6. \A i \in 1..Len(s) : MoveToFront(s, p)[i] = e(i)
  BY <1>3
<1>7. e(1) = s[p] /\ \A i \in 2..Len(s) : e(i) = s[Source(i, p)]
  BY <1>1 DEF e, Source
<1> QED
  BY <1>1, <1>4, <1>5, <1>6, <1>7

(* Whatever evictStaleLocked leaves is not overdue, and a conversation is  *)
(* in the map exactly when it is in the prefix that survives.              *)
LEMMA SurvivingPrefix ==
  ASSUME IInv, NEW now \in Time, NEW n \in 0..Len(lru), StopsAt(n, now)
  PROVE  /\ \A j \in 1..n : lastSeen[lru[j]] > now - ConvTTL - MaxSkew
         /\ \A m \in 0..n, k \in Key :
              k \in lmap \ PoppedKeys(m) <=> \E j \in 1..m : lru[j] = k
<1> USE CacheAssumption
<1>1. /\ Len(lru) \in Nat
      /\ \A i \in 1..Len(lru) : lru[i] \in Key /\ lastSeen[lru[i]] \in Nat
      /\ DOMAIN lru = 1..Len(lru)
      /\ now \in Nat /\ newest \in Nat
  BY DEF IInv, TypeOK
<1>2. ASSUME NEW j \in 1..n PROVE lastSeen[lru[j]] > now - ConvTTL - MaxSkew
  <2>1. lastSeen[lru[n]] > now - ConvTTL
    BY <1>1 DEF StopsAt, Fresh
  <2>2. lastSeen[lru[j]] >= lastSeen[lru[n]] - MaxSkew
    BY <1>1 DEF IInv, RecencyOrder
  <2> QED
    BY <1>1, <2>1, <2>2
<1>3. ASSUME NEW m \in 0..n, NEW k \in Key
      PROVE  k \in lmap \ PoppedKeys(m) <=> \E j \in 1..m : lru[j] = k
  <2>1. lmap = {lru[i] : i \in 1..Len(lru)}
    BY <1>1 DEF IInv, ListMatchesMap
  <2>2. \A i, j \in 1..Len(lru) : lru[i] = lru[j] => i = j
    BY <1>1 DEF IInv, ListMatchesMap
  <2> QED
    BY <1>1, <2>1, <2>2 DEF PoppedKeys
<1> QED
  BY <1>2, <1>3

(* Every record has the common outcome.                                    *)
LEMMA RecordOutcome ==
  ASSUME IInv, NEW k \in Key, NEW now \in Time, Record(k, now)
  PROVE  \E m \in 0..Len(lru), c \in 1..MaxConversations :
           \E p \in 1..c : Outcome(k, now, m, c, p)
<1> USE CacheAssumption
<1>1. PICK n \in 0..Len(lru) :
        /\ StopsAt(n, now)
        /\ Found(k, now, n) \/ Created(k, now, n) \/ CreatedEvicting(k, now, n)
  BY DEF Record
<1>2. /\ Len(lru) \in Nat /\ Len(lru) <= MaxConversations
      /\ DOMAIN lru = 1..Len(lru)
      /\ \A i, j \in 1..Len(lru) : lru[i] = lru[j] => i = j
      /\ \A i \in 1..Len(lru) : lru[i] \in Key
  BY DEF IInv, TypeOK, Bounded, ListMatchesMap
<1>3. \A j \in 1..n : lastSeen[lru[j]] > now - ConvTTL - MaxSkew
  BY <1>1, SurvivingPrefix
<1>4. \A m \in 0..n : k \in lmap \ PoppedKeys(m) <=> \E j \in 1..m : lru[j] = k
  BY <1>1, SurvivingPrefix
<1>5. ASSUME NEW m \in 0..n, k \notin lmap \ PoppedKeys(n), m < MaxConversations,
             lru' = PushFront(k, SubSeq(lru, 1, m)), Touch(k, now, m)
      PROVE  Outcome(k, now, m, m + 1, m + 1)
  <2> DEFINE kept == SubSeq(lru, 1, m)
  <2>1. kept \in Seq(Key) /\ Len(kept) = m /\ \A i \in 1..m : kept[i] = lru[i]
    BY <1>2, PrefixProperties DEF IInv
  <2>6. lru' = PushFront(k, kept)
    BY <1>5
  <2> HIDE DEF kept
  <2>2. /\ lru' \in Seq(Key) /\ Len(lru') = m + 1 /\ lru'[1] = k
        /\ \A i \in 2..(m + 1) : lru'[i] = kept[i - 1]
    <3>1. /\ PushFront(k, kept) \in Seq(Key)
          /\ Len(PushFront(k, kept)) = Len(kept) + 1
          /\ PushFront(k, kept)[1] = k
          /\ \A i \in 2..(Len(kept) + 1) : PushFront(k, kept)[i] = kept[i - 1]
      BY <2>1, PushFrontProperties
    <3> QED
      BY <2>1, <2>6, <3>1
  <2>3. \A j \in 1..n : lru[j] # k
    BY <1>4, <1>5
  <2>4. \A i \in 2..(m + 1) : /\ Source(i, m + 1) = i - 1
                              /\ i - 1 \in 1..m
                              /\ i - 1 \in 1..n
    BY DEF Source
  <2>5. \A j \in 1..m : j + 1 \in 2..(m + 1) /\ Source(j + 1, m + 1) = j
    BY DEF Source
  <2> QED
    BY <1>3, <1>5, <2>1, <2>2, <2>3, <2>4, <2>5 DEF Outcome
<1>6. CASE Found(k, now, n)
  <2>1. PICK p \in 1..n : lru[p] = k /\ lru' = MoveToFront(SubSeq(lru, 1, n), p)
    BY <1>6 DEF Found
  <2> DEFINE kept == SubSeq(lru, 1, n)
  <2>2. kept \in Seq(Key) /\ Len(kept) = n /\ \A i \in 1..n : kept[i] = lru[i]
    BY PrefixProperties DEF IInv
  <2>9. lru' = MoveToFront(kept, p) /\ p \in 1..Len(kept)
    BY <2>1, <2>2
  <2> HIDE DEF kept
  <2>3. /\ lru' \in Seq(Key) /\ Len(lru') = n /\ lru'[1] = kept[p]
        /\ \A i \in 2..n : lru'[i] = kept[Source(i, p)]
    BY <2>2, <2>9, MoveToFrontProperties
  <2>4. \A i \in 2..n : Source(i, p) \in 1..n /\ Source(i, p) # p
    BY DEF Source
  <2>5. \A i \in 2..n : lru[Source(i, p)] # k
    BY <1>2, <2>1, <2>4
  <2>6. ASSUME NEW j \in 1..n, lru[j] # k PROVE \E i \in 2..n : Source(i, p) = j
    <3>1. j # p
      BY <2>1, <2>6
    <3>2. CASE j < p
      BY <3>2, SMTT(30) DEF Source
    <3>3. CASE j > p
      BY <3>3, SMTT(30) DEF Source
    <3> QED
      BY <3>1, <3>2, <3>3
  <2>7. Outcome(k, now, n, n, p)
    BY <1>3, <1>6, <2>1, <2>2, <2>3, <2>4, <2>5, <2>6 DEF Outcome, Found
  <2>8. n \in 0..Len(lru) /\ n \in 1..MaxConversations
    BY <1>2
  <2> QED
    BY <2>7, <2>8
<1>7. CASE Created(k, now, n)
  <2>1. Outcome(k, now, n, n + 1, n + 1)
    BY <1>5, <1>7 DEF Created
  <2>2. n + 1 \in 1..MaxConversations /\ n + 1 \in 1..(n + 1)
    BY <1>7 DEF Created
  <2> QED
    BY <2>1, <2>2
<1>8. CASE CreatedEvicting(k, now, n)
  <2> DEFINE m == n - 1
  <2>1. m \in 0..n /\ m \in 0..Len(lru) /\ m < MaxConversations
    BY <1>2, <1>8 DEF CreatedEvicting
  <2>2. Outcome(k, now, m, m + 1, m + 1)
    BY <1>5, <1>8, <2>1 DEF CreatedEvicting
  <2>3. m + 1 \in 1..MaxConversations /\ m + 1 \in 1..(m + 1)
    BY <2>1
  <2> QED
    BY <2>1, <2>2, <2>3
<1> QED
  BY <1>1, <1>6, <1>7, <1>8

(* The common outcome keeps every part of the invariant.                   *)
LEMMA OutcomeIInv ==
  ASSUME IInv, NEW k \in Key, NEW now \in Time, now >= newest - MaxSkew,
         NEW m \in 0..Len(lru), NEW c \in 1..MaxConversations, NEW p \in 1..c,
         Outcome(k, now, m, c, p)
  PROVE  IInv'
<1> USE CacheAssumption
<1>1. /\ Len(lru) \in Nat
      /\ DOMAIN lru = 1..Len(lru)
      /\ \A i \in 1..Len(lru) : lru[i] \in Key /\ lastSeen[lru[i]] \in Nat
      /\ \A i, j \in 1..Len(lru) : lru[i] = lru[j] => i = j
      /\ now \in Nat \ {0} /\ newest \in Nat /\ c \in Nat \ {0} /\ p \in Nat
  BY SMTT(30) DEF IInv, TypeOK, ListMatchesMap
<1>2. /\ lru' \in Seq(Key) /\ Len(lru') = c /\ DOMAIN lru' = 1..c /\ lru'[1] = k
      /\ \A i \in 2..c : /\ Source(i, p) \in 1..m
                         /\ lru'[i] = lru[Source(i, p)]
                         /\ lru[Source(i, p)] # k
      /\ \A j \in 1..m : lru[j] # k => \E i \in 2..c : Source(i, p) = j
      /\ \A j \in 1..m : lastSeen[lru[j]] > now - ConvTTL - MaxSkew
  BY DEF Outcome
<1>3. \A i, j \in 2..c : i < j => Source(i, p) < Source(j, p)
  BY <1>1 DEF Source
<1>4. /\ lmap' = (lmap \ PoppedKeys(m)) \cup {k}
      /\ lastSeen' = [x \in Key |-> IF x = k THEN now
                                    ELSE IF x \in PoppedKeys(m) THEN 0 ELSE lastSeen[x]]
      /\ evicted' = Popped(m)
      /\ newest' = IF now > newest THEN now ELSE newest
  BY DEF Outcome, Touch
<1>5. \A j \in 1..m : lru[j] \in lmap \ PoppedKeys(m)
  BY <1>1 DEF IInv, ListMatchesMap, PoppedKeys
<1>6. lastSeen'[k] = now /\ \A j \in 1..m : lru[j] # k => lastSeen'[lru[j]] = lastSeen[lru[j]]
  BY <1>1, <1>4, <1>5
<1>7. TypeOK'
  <2>1. evicted' \in Seq(Key)
    <3>1. Len(lru) - m \in Nat /\ \A j \in 1..(Len(lru) - m) : lru[Len(lru) + 1 - j] \in Key
      BY <1>1
    <3> QED
      BY <1>4, <3>1, IsASeq DEF Popped
  <2> QED
    BY <1>1, <1>2, <1>4, <2>1 DEF IInv, TypeOK
<1>8. ListMatchesMap'
  <2>1. \A i, j \in 1..c : lru'[i] = lru'[j] => i = j
    <3>1. \A i \in 2..c : lru'[i] # k
      BY <1>2
    <3>2. ASSUME NEW i \in 2..c, NEW j \in 2..c, i < j PROVE lru'[i] # lru'[j]
      <4>1. /\ Source(i, p) \in 1..Len(lru) /\ Source(j, p) \in 1..Len(lru)
            /\ Source(i, p) < Source(j, p)
        BY <1>1, <1>2, <1>3, <3>2
      <4>2. lru[Source(i, p)] # lru[Source(j, p)]
        BY <1>1, <4>1
      <4> QED
        BY <1>2, <4>2
    <3>3. \A i \in 1..c : i = 1 \/ i \in 2..c
      BY <1>1
    <3> QED
      BY <1>1, <1>2, <3>1, <3>2, <3>3
  <2>2. lmap' = {lru'[i] : i \in 1..c}
    <3>1. \A i \in 1..c : lru'[i] \in lmap'
      <4>1. \A i \in 1..c : i = 1 \/ i \in 2..c
        BY <1>1
      <4> QED
        BY <1>2, <1>4, <1>5, <4>1
    <3>2. ASSUME NEW x \in lmap' PROVE \E i \in 1..c : lru'[i] = x
      <4>1. CASE x = k
        BY <1>1, <1>2, <4>1
      <4>2. CASE x # k
        <5>1. PICK j \in 1..m : lru[j] = x
          BY <1>1, <1>4, <4>2 DEF IInv, ListMatchesMap, PoppedKeys
        <5>2. PICK i \in 2..c : Source(i, p) = j
          BY <1>2, <4>2, <5>1
        <5> QED
          BY <1>1, <1>2, <5>1, <5>2
      <4> QED
        BY <4>1, <4>2
    <3> QED
      BY <3>1, <3>2
  <2>3. \A x \in Key : lastSeen'[x] # 0 <=> x \in lmap'
    BY <1>1, <1>4 DEF IInv, TypeOK, ListMatchesMap
  <2> QED
    BY <1>2, <2>1, <2>2, <2>3 DEF ListMatchesMap
<1>9. Bounded'
  BY <1>2 DEF Bounded
<1>10. \A x \in Key : lastSeen[x] \in Nat /\ lastSeen[x] <= newest
  BY DEF IInv, TypeOK, NoneFromFuture
<1>11. RecencyOrder'
  <2>1. ASSUME NEW i \in 1..c, NEW j \in 1..c, i < j
        PROVE  lastSeen'[lru'[i]] >= lastSeen'[lru'[j]] - MaxSkew
    <3>1. j \in 2..c
      BY <1>1, <2>1
    <3>2. /\ Source(j, p) \in 1..Len(lru)
          /\ lru'[j] = lru[Source(j, p)]
          /\ lastSeen'[lru'[j]] = lastSeen[lru[Source(j, p)]]
      BY <1>1, <1>2, <1>6, <3>1
    <3>3. CASE i = 1
      <4>1. lastSeen'[lru'[i]] = now
        BY <1>2, <1>6, <3>3
      <4>2. lastSeen[lru[Source(j, p)]] <= newest /\ lastSeen[lru[Source(j, p)]] \in Nat
        BY <1>1, <1>10, <3>2
      <4> QED
        BY <1>1, <3>2, <4>1, <4>2
    <3>4. CASE i \in 2..c
      <4>1. /\ Source(i, p) \in 1..Len(lru)
            /\ lastSeen'[lru'[i]] = lastSeen[lru[Source(i, p)]]
        BY <1>1, <1>2, <1>6, <3>4, SMTT(30)
      <4>2. Source(i, p) < Source(j, p)
        BY <1>3, <2>1, <3>1, <3>4
      <4>3. lastSeen[lru[Source(i, p)]] >= lastSeen[lru[Source(j, p)]] - MaxSkew
        BY <1>1, <3>2, <4>1, <4>2 DEF IInv, RecencyOrder
      <4> QED
        BY <3>2, <4>1, <4>3
    <3> QED
      BY <1>1, <3>3, <3>4
  <2> QED
    BY <1>2, <2>1 DEF RecencyOrder
<1>12. NoneFromFuture'
  BY <1>1, <1>4, <1>10 DEF NoneFromFuture
<1>13. NoneOverdue'
  <2>1. lastSeen'[lru'[1]] = now
    BY <1>2, <1>6
  <2>2. ASSUME NEW x \in lmap' PROVE lastSeen'[x] > now - ConvTTL - MaxSkew
    <3>1. CASE x = k
      BY <1>1, <1>6, <3>1
    <3>2. CASE x # k
      <4>1. PICK j \in 1..m : lru[j] = x
        BY <1>1, <1>4, <3>2 DEF IInv, ListMatchesMap, PoppedKeys
      <4> QED
        BY <1>2, <1>6, <3>2, <4>1
    <3> QED
      BY <3>1, <3>2
  <2> QED
    BY <2>1, <2>2 DEF NoneOverdue
<1> QED
  BY <1>7, <1>8, <1>9, <1>11, <1>12, <1>13 DEF IInv

LEMMA InitIInv == Init => IInv
  BY CacheAssumption
  DEF Init, IInv, TypeOK, ListMatchesMap, Bounded, RecencyOrder, NoneFromFuture,
      NoneOverdue

LEMMA NextIInv == IInv /\ [Next]_vars => IInv'
<1> SUFFICES ASSUME IInv, [Next]_vars PROVE IInv'
  OBVIOUS
<1>1. CASE Next
  <2>1. PICK k \in Key, now \in Time : now >= newest - MaxSkew /\ Record(k, now)
    BY <1>1 DEF Next
  <2>2. PICK m \in 0..Len(lru), c \in 1..MaxConversations :
          \E p \in 1..c : Outcome(k, now, m, c, p)
    BY <2>1, RecordOutcome
  <2> QED
    BY <2>1, <2>2, OutcomeIInv
<1>2. CASE UNCHANGED vars
  BY <1>2
  DEF vars, IInv, TypeOK, ListMatchesMap, Bounded, RecencyOrder, NoneFromFuture,
      NoneOverdue
<1> QED
  BY <1>1, <1>2

(* The list and the map always agree, the capacity is respected, the list  *)
(* is sorted by recency up to the skew, and no conversation outlives its   *)
(* lifetime by more than the skew.                                         *)
THEOREM CacheSafe ==
  Spec => [](TypeOK /\ ListMatchesMap /\ Bounded /\ RecencyOrder /\ NoneOverdue)
<1>1. IInv => TypeOK /\ ListMatchesMap /\ Bounded /\ RecencyOrder /\ NoneOverdue
  BY DEF IInv
<1> QED
  BY InitIInv, NextIInv, <1>1, PTL DEF Spec

(* In particular, when timestamps never run backwards, each record leaves  *)
(* no conversation past its lifetime: looking at the tail is enough.       *)
THEOREM OrderedTimestampsLeaveNoneStale ==
  ASSUME MaxSkew = 0
  PROVE  Spec => []NoStaleLeft
<1>1. IInv => NoStaleLeft
  BY CacheAssumption DEF IInv, TypeOK, NoneOverdue, NoStaleLeft
<1> QED
  BY InitIInv, NextIInv, <1>1, PTL DEF Spec

-----------------------------------------------------------------------------

(* What evictStaleLocked pops is the expired tail; what a record pops are  *)
(* the conversations it removes, one more than the tail at capacity.       *)
LEMMA RecordPopsDeparted ==
  ASSUME IInv, NEW k \in Key, NEW now \in Time, Record(k, now)
  PROVE  \E m \in 0..Len(lru) : Touch(k, now, m) /\ PoppedKeys(m) = Departed(now)
<1> USE CacheAssumption
<1>1. PICK n \in 0..Len(lru) :
        /\ StopsAt(n, now)
        /\ Found(k, now, n) \/ Created(k, now, n) \/ CreatedEvicting(k, now, n)
  BY DEF Record
<1>2. /\ Len(lru) \in Nat /\ DOMAIN lru = 1..Len(lru)
      /\ \A i \in 1..Len(lru) : lru[i] \in Key /\ lastSeen[lru[i]] \in Nat
      /\ \A i, j \in 1..Len(lru) : lru[i] = lru[j] => i = j
      /\ lmap = {lru[i] : i \in 1..Len(lru)}
      /\ now \in Nat
  BY SMTT(30) DEF IInv, TypeOK, ListMatchesMap
<1>3. ExpiredTail(now) = PoppedKeys(n)
  <2> DEFINE Stale(i) == lastSeen[lru[i]] + ConvTTL <= now
  <2>1. \A i \in 1..Len(lru) : Stale(i) <=> ~Fresh(i, now)
    BY <1>2 DEF Fresh
  <2>2. ASSUME NEW j \in 1..Len(lru)
        PROVE  (\A h \in j..Len(lru) : Stale(h)) <=> j \in (n + 1)..Len(lru)
    <3>1. CASE j > n
      <4>1. \A h \in j..Len(lru) : h \in (n + 1)..Len(lru) /\ h \in 1..Len(lru)
        BY <1>2, <3>1
      <4> QED
        BY <1>1, <1>2, <2>1, <3>1, <4>1 DEF StopsAt
    <3>2. CASE j <= n
      <4>1. n \in j..Len(lru) /\ n \in 1..Len(lru) /\ n > 0
        BY <1>2, <3>2
      <4>2. ~Stale(n)
        BY <1>1, <2>1, <4>1 DEF StopsAt
      <4> QED
        BY <1>2, <3>2, <4>1, <4>2
    <3> QED
      BY <1>2, <3>1, <3>2
  <2>3. ExpiredTail(now) = {lru[i] : i \in {j \in 1..Len(lru) :
                                              \A h \in j..Len(lru) : Stale(h)}}
    BY <1>2 DEF ExpiredTail
  <2> HIDE DEF Stale
  <2>4. {j \in 1..Len(lru) : \A h \in j..Len(lru) : Stale(h)} = (n + 1)..Len(lru)
    BY <1>2, <2>2
  <2> QED
    BY <2>3, <2>4 DEF PoppedKeys
<1>4. ASSUME NEW m \in 0..n, Touch(k, now, m), k \notin PoppedKeys(m) \ PoppedKeys(n)
      PROVE  PoppedKeys(m) = Departed(now)
  <2>1. PoppedKeys(n) \subseteq PoppedKeys(m) /\ PoppedKeys(m) \subseteq lmap
    BY <1>2 DEF PoppedKeys
  <2>2. lmap' = (lmap \ PoppedKeys(m)) \cup {k}
    BY <1>4 DEF Touch
  <2> QED
    BY <1>3, <1>4, <2>1, <2>2 DEF Departed
<1>5. CASE Found(k, now, n) \/ Created(k, now, n)
  BY <1>4, <1>5 DEF Found, Created
<1>6. CASE CreatedEvicting(k, now, n)
  <2>1. n - 1 \in 0..n /\ n - 1 \in 0..Len(lru) /\ n \in 1..Len(lru)
    BY <1>2, <1>6 DEF CreatedEvicting
  <2>2. \A j \in 1..n : lru[j] # k
    BY <1>1, <1>6, SurvivingPrefix DEF CreatedEvicting
  <2>3. k \notin PoppedKeys(n - 1) \ PoppedKeys(n)
    BY <1>2, <2>1, <2>2 DEF PoppedKeys
  <2> QED
    BY <1>4, <1>6, <2>1, <2>3 DEF CreatedEvicting
<1> QED
  BY <1>1, <1>5, <1>6

(* The eviction listeners hear of each departure once and of nothing else, *)
(* also when the conversation is recreated by the message that expired it. *)
THEOREM CacheReportsEvictions == Spec => EvictionsReported
<1> DEFINE Reported ==
      /\ {evicted'[i] : i \in DOMAIN evicted'} = Departed(lastSeen'[lru'[1]])
      /\ \A i, j \in DOMAIN evicted' : evicted'[i] = evicted'[j] => i = j
<1>1. ASSUME IInv, Next PROVE Reported
  <2>1. PICK k \in Key, now \in Time : Record(k, now)
    BY <1>1 DEF Next
  <2>2. PICK m \in 0..Len(lru) : Touch(k, now, m) /\ PoppedKeys(m) = Departed(now)
    BY <1>1, <2>1, RecordPopsDeparted
  <2>3. lru'[1] = k
    BY <1>1, <2>1, RecordOutcome DEF Outcome
  <2>4. lastSeen'[lru'[1]] = now /\ evicted' = Popped(m)
    BY <2>2, <2>3 DEF Touch
  <2> DEFINE n == Len(lru)
  <2>5. /\ n \in Nat /\ DOMAIN lru = 1..n
        /\ \A i, j \in 1..n : lru[i] = lru[j] => i = j
    BY <1>1 DEF IInv, TypeOK, ListMatchesMap
  <2>6. /\ DOMAIN evicted' = 1..(n - m)
        /\ \A j \in 1..(n - m) : n + 1 - j \in (m + 1)..n /\ evicted'[j] = lru[n + 1 - j]
    BY <2>4, <2>5 DEF Popped
  <2>7. PoppedKeys(m) = {lru[i] : i \in (m + 1)..n}
    BY DEF PoppedKeys
  <2> HIDE DEF n
  <2>8. \A i, j \in 1..(n - m) : evicted'[i] = evicted'[j] => i = j
    <3> TAKE i, j \in 1..(n - m)
    <3> HAVE evicted'[i] = evicted'[j]
    <3>1. n + 1 - i \in 1..n /\ n + 1 - j \in 1..n
      BY <2>5
    <3>2. n + 1 - i = n + 1 - j
      BY <2>5, <2>6, <3>1
    <3> QED
      BY <2>5, <3>2
  <2>9. ASSUME NEW i \in (m + 1)..n PROVE \E j \in 1..(n - m) : evicted'[j] = lru[i]
    <3>1. n + 1 - i \in 1..(n - m) /\ n + 1 - (n + 1 - i) = i
      BY <2>5
    <3> QED
      BY <2>6, <3>1
  <2>10. {evicted'[j] : j \in 1..(n - m)} = {lru[i] : i \in (m + 1)..n}
    <3>1. {evicted'[j] : j \in 1..(n - m)} \subseteq {lru[i] : i \in (m + 1)..n}
      BY <2>6
    <3>2. {lru[i] : i \in (m + 1)..n} \subseteq {evicted'[j] : j \in 1..(n - m)}
      BY <2>9
    <3> QED
      BY <3>1, <3>2
  <2> QED
    BY <2>2, <2>4, <2>6, <2>7, <2>8, <2>10
<1>2. IInv /\ [Next]_vars => [Reported]_vars
  BY <1>1
<1> QED
  BY InitIInv, NextIInv, <1>2, PTL DEF Spec, EvictionsReported

-----------------------------------------------------------------------------

(* The surviving prefix has as many entries as the abstract cache keeps.   *)
LEMMA PrefixSize ==
  ASSUME IInv, NEW n \in 0..Len(lru)
  PROVE  Cardinality(lmap \ PoppedKeys(n)) = n
<1>1. /\ Len(lru) \in Nat /\ DOMAIN lru = 1..Len(lru)
      /\ \A i, j \in 1..Len(lru) : lru[i] = lru[j] => i = j
      /\ lmap = {lru[i] : i \in 1..Len(lru)}
  BY DEF IInv, TypeOK, ListMatchesMap
<1> DEFINE f == [i \in 1..n |-> lru[i]]
           T == lmap \ PoppedKeys(n)
<1>2. f \in Bijection(1..n, T)
  <2>1. \A i \in 1..n : lru[i] \in T
    BY <1>1 DEF PoppedKeys
  <2>2. \A x \in T : \E i \in 1..n : lru[i] = x
    BY <1>1 DEF PoppedKeys
  <2>3. \A i, j \in 1..n : lru[i] = lru[j] => i = j
    BY <1>1
  <2> HIDE DEF T
  <2> QED
    BY <2>1, <2>2, <2>3 DEF Bijection, Injection, Surjection, IsInjective
<1>3. ExistsBijection(1..n, T)
  BY <1>2 DEF ExistsBijection
<1> QED
  BY <1>3, FS_CountingElements

(* The survivors of evictStaleLocked are survivors of the abstract cache.  *)
LEMMA SurvivorsRefined ==
  ASSUME IInv, NEW now \in Time, NEW n \in 0..Len(lru), StopsAt(n, now)
  PROVE  Cache!Survivors(lmap \ PoppedKeys(n), now)
<1> USE CacheAssumption
<1>1. /\ Len(lru) \in Nat /\ DOMAIN lru = 1..Len(lru)
      /\ lmap = {lru[i] : i \in 1..Len(lru)}
      /\ \A i \in 1..Len(lru) : lru[i] \in Key
      /\ n \in Nat
  BY DEF IInv, TypeOK, ListMatchesMap
<1>2. \A j \in 1..n : lastSeen[lru[j]] > now - ConvTTL - MaxSkew
  BY SurvivingPrefix
<1>3. \A x \in lmap \ PoppedKeys(n) : \E j \in 1..n : lru[j] = x
  BY <1>1 DEF PoppedKeys
<1>4. \A x \in PoppedKeys(n) : ~(lastSeen[x] > now - ConvTTL)
  BY DEF PoppedKeys, StopsAt, Fresh
<1> QED
  BY <1>2, <1>3, <1>4 DEF Cache!Survivors

(* The bookkeeping of a record is that of the abstract cache.              *)
LEMMA TouchRefined ==
  ASSUME IInv, NEW k \in Key, NEW now \in Time, NEW m \in 0..Len(lru), Touch(k, now, m)
  PROVE  Cache!See(k, now, lmap \ PoppedKeys(m))
<1>1. \A x \in Key : x \notin lmap => lastSeen[x] = 0
  BY DEF IInv, TypeOK, ListMatchesMap
<1>2. \A x \in Key :
        (IF x = k THEN now ELSE IF x \in PoppedKeys(m) THEN 0 ELSE lastSeen[x])
        = (IF x = k THEN now ELSE IF x \in lmap \ PoppedKeys(m) THEN lastSeen[x] ELSE 0)
  BY <1>1
<1> QED
  BY <1>2 DEF Touch, Cache!See

LEMMA RecordRefined ==
  ASSUME IInv, NEW k \in Key, NEW now \in Time, now >= newest - MaxSkew, Record(k, now)
  PROVE  Cache!Record(k, now)
<1> USE CacheAssumption
<1>1. PICK n \in 0..Len(lru) :
        /\ StopsAt(n, now)
        /\ Found(k, now, n) \/ Created(k, now, n) \/ CreatedEvicting(k, now, n)
  BY DEF Record
<1> DEFINE keep == lmap \ PoppedKeys(n)
<1>2. keep \in SUBSET lmap /\ Cache!Survivors(keep, now) /\ Cache!Cardinality(keep) = n
  <2>1. Cardinality(keep) = n
    BY PrefixSize
  <2>2. Cache!Cardinality(keep) = Cardinality(keep)
    BY DEF Cardinality, Cache!Cardinality
  <2> QED
    BY <1>1, <2>1, <2>2, SurvivorsRefined
<1>3. CASE Found(k, now, n)
  BY <1>2, <1>3, TouchRefined DEF Found, Cache!Record
<1>4. CASE Created(k, now, n)
  <2>1. Cache!See(k, now, keep) /\ k \notin keep /\ n < MaxConversations
    BY <1>4, TouchRefined DEF Created
  <2> HIDE DEF keep
  <2> QED
    BY <1>2, <2>1 DEF Cache!Record
<1>5. CASE CreatedEvicting(k, now, n)
  <2> DEFINE v == lru[n]
  <2>1. /\ Len(lru) \in Nat /\ DOMAIN lru = 1..Len(lru)
        /\ lmap = {lru[i] : i \in 1..Len(lru)}
        /\ \A i, j \in 1..Len(lru) : lru[i] = lru[j] => i = j
        /\ \A i \in 1..Len(lru) : lru[i] \in Key /\ lastSeen[lru[i]] \in Nat
        /\ n \in 1..Len(lru) /\ n - 1 \in 0..Len(lru)
    <3>1. lru \in Seq(Key) /\ lastSeen \in [Key -> Nat]
      BY DEF IInv, TypeOK
    <3>2. /\ Len(lru) \in Nat /\ DOMAIN lru = 1..Len(lru)
          /\ \A i \in 1..Len(lru) : lru[i] \in Key
      BY <3>1
    <3>3. \A i \in 1..Len(lru) : lastSeen[lru[i]] \in Nat
      BY <3>1, <3>2
    <3>4. /\ lmap = {lru[i] : i \in 1..Len(lru)}
          /\ \A i, j \in 1..Len(lru) : lru[i] = lru[j] => i = j
      BY <3>2 DEF IInv, ListMatchesMap
    <3>5. n >= MaxConversations
      BY <1>5 DEF CreatedEvicting
    <3>6. n \in 1..Len(lru) /\ n - 1 \in 0..Len(lru)
      BY <3>2, <3>5
    <3> QED
      BY <3>2, <3>3, <3>4, <3>6
  <2>2. lmap \ PoppedKeys(n - 1) = keep \ {v} /\ v \in keep
    BY <2>1 DEF PoppedKeys
  <2>3. Cache!LeastRecent(v, keep)
    <3>1. \A x \in keep : \E i \in 1..n : lru[i] = x
      BY <2>1 DEF PoppedKeys
    <3>2. \A i \in 1..n : lastSeen[v] <= lastSeen[lru[i]] + MaxSkew
      <4> TAKE i \in 1..n
      <4>1. CASE i = n
        BY <2>1, <4>1
      <4>2. CASE i < n
        BY <2>1, <4>2, SMTT(30) DEF IInv, RecencyOrder
      <4> QED
        BY <2>1, <4>1, <4>2
    <3> QED
      BY <2>2, <3>1, <3>2 DEF Cache!LeastRecent
  <2>4. Cache!See(k, now, keep \ {v})
    BY <1>5, <2>1, <2>2, TouchRefined DEF CreatedEvicting
  <2>5. k \notin keep /\ n >= MaxConversations /\ v \in keep
    BY <1>5, <2>2 DEF CreatedEvicting
  <2> HIDE DEF keep, v
  <2> QED
    BY <1>2, <2>3, <2>4, <2>5 DEF Cache!Record
<1> QED
  BY <1>1, <1>3, <1>4, <1>5

(* The list-based cache implements the expiring least-recently-used cache  *)
(* of ExpiringCache, whatever the skew of the timestamps.                  *)
THEOREM CacheImplementsExpiringCache == Spec => ImplementsCache
<1>1. Init => Cache!Init
  BY DEF Init, Cache!Init
<1>2. IInv /\ [Next]_vars => [Cache!Next]_(Cache!vars)
  <2>1. IInv /\ Next => Cache!Next
    BY RecordRefined DEF Next, Cache!Next
  <2>2. UNCHANGED vars => UNCHANGED Cache!vars
    BY DEF vars, Cache!vars
  <2> QED
    BY <2>1, <2>2
<1> QED
  BY InitIInv, NextIInv, <1>1, <1>2, PTL DEF Spec, ImplementsCache, Cache!Spec
=============================================================================

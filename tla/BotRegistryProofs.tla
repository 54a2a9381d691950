-------------------------- MODULE BotRegistryProofs --------------------------
(***************************************************************************)
(* The safety of the bot registry, for every set of bots and hashes, every *)
(* capacity and every sequence of getMe answers.                           *)
(***************************************************************************)
EXTENDS BotRegistry, FiniteSetTheorems, SequenceTheorems, TLAPS

(***************************************************************************)
(* The inductive invariant. Bounded needs OrderMatchesMap (the capacity    *)
(* test counts idToHash, the bound is on insertOrder), which needs that    *)
(* eviction finds its victim in idToHash.                                  *)
(***************************************************************************)
IInv == TypeOK /\ OrderMatchesMap /\ Bounded /\ ReverseSound

(* len(r.idToHash) and len(r.insertOrder) agree, so the capacity test of   *)
(* Register counts the rows of Snapshot.                                   *)
LEMMA SizeIsLength ==
  ASSUME TypeOK, OrderMatchesMap
  PROVE  Size = Len(insertOrder)
<1> DEFINE n == Len(insertOrder)
<1>1. n \in Nat /\ DOMAIN insertOrder = 1..n
  BY DEF TypeOK
<1>2. insertOrder \in Bijection(1..n, Known)
  <2>1. \A i \in 1..n : insertOrder[i] \in Known
    BY <1>1 DEF OrderMatchesMap
  <2>2. insertOrder \in [1..n -> Known]
    BY <1>1, <2>1 DEF TypeOK
  <2>3. \A k \in Known : \E i \in 1..n : insertOrder[i] = k
    BY <1>1 DEF OrderMatchesMap
  <2> QED
    BY <1>1, <2>2, <2>3
    DEF OrderMatchesMap, Bijection, Injection, Surjection, IsInjective
<1>3. IsFiniteSet(1..n) /\ Cardinality(1..n) = n
  <2>1. 1 \in Int /\ n \in Int
    BY <1>1
  <2>2. /\ IsFiniteSet(1..n)
        /\ Cardinality(1..n) = IF 1 > n THEN 0 ELSE n - 1 + 1
    BY <2>1, FS_Interval
  <2> QED
    BY <1>1, <2>2
<1> QED
  BY <1>2, <1>3, FS_Bijection DEF ExistsBijection, Size

(* The queue after eviction: Append(Tail(q), x) shifts q by one.           *)
LEMMA Requeue ==
  ASSUME NEW S, NEW q \in Seq(S), q # <<>>, NEW x \in S
  PROVE  LET r == Append(Tail(q), x)
         IN /\ r \in Seq(S)
            /\ Len(r) = Len(q)
            /\ r[Len(q)] = x
            /\ \A i \in 1..(Len(q) - 1) : r[i] = q[i + 1]
<1> DEFINE t == Tail(q)
<1>1. Len(q) \in Nat \ {0}
  OBVIOUS
<1>2. t \in Seq(S) /\ Len(t) = Len(q) - 1 /\ \A i \in 1..Len(t) : t[i] = q[i + 1]
  BY <1>1
<1> HIDE DEF t
<1>3. Append(t, x) \in Seq(S) /\ Len(Append(t, x)) = Len(t) + 1
  BY <1>2
<1>4. Append(t, x)[Len(q)] = x /\ \A i \in 1..Len(t) : Append(t, x)[i] = t[i]
  BY <1>1, <1>2
<1> QED
  BY <1>1, <1>2, <1>3, <1>4 DEF t

LEMMA InitIInv == NewBotRegistry => IInv
  BY RegistryAssumption
  DEF NewBotRegistry, IInv, TypeOK, OrderMatchesMap, Bounded, ReverseSound, Known

(* A rotation keeps the invariant: the old hash no longer leads to the id. *)
LEMMA RotateIInv ==
  ASSUME IInv, NEW id \in BotID, NEW h \in Hash, Rotate(id, h)
  PROVE  IInv'
<1>1. TypeOK'
  BY RegistryAssumption DEF IInv, TypeOK, Rotate, Unlinked
<1>2. Known' = Known
  BY RegistryAssumption DEF IInv, TypeOK, Rotate, Known
<1>3. OrderMatchesMap' /\ Bounded'
  BY <1>2 DEF IInv, OrderMatchesMap, Bounded, Rotate
<1>4. ReverseSound'
  BY RegistryAssumption DEF IInv, TypeOK, ReverseSound, Rotate, Unlinked
<1> QED
  BY <1>1, <1>3, <1>4 DEF IInv

(* Learning with room left keeps the invariant.                            *)
LEMMA LearnIInv ==
  ASSUME IInv, NEW id \in BotID, NEW h \in Hash, Learn(id, h)
  PROVE  IInv'
<1> USE RegistryAssumption
<1>1. /\ Len(insertOrder) \in Nat
      /\ Len(insertOrder') = Len(insertOrder) + 1
      /\ insertOrder'[Len(insertOrder) + 1] = id
      /\ \A i \in 1..Len(insertOrder) : insertOrder'[i] = insertOrder[i]
      /\ insertOrder' \in Seq(BotID)
  BY DEF IInv, TypeOK, Learn
<1>2. TypeOK'
  BY <1>1 DEF IInv, TypeOK, Learn
<1>3. Known' = Known \cup {id} /\ id \notin Known
  BY DEF IInv, TypeOK, Learn, Known
<1>4. OrderMatchesMap'
  BY <1>1, <1>3, SMTT(30) DEF IInv, TypeOK, OrderMatchesMap
<1>5. Bounded'
  <2>1. Size = Len(insertOrder)
    BY SizeIsLength DEF IInv
  <2>2. Len(insertOrder) < MaxEntries
    BY <1>1, <2>1 DEF Learn
  <2> QED
    BY <1>1, <2>2 DEF Bounded
<1>6. ReverseSound'
  BY DEF IInv, TypeOK, ReverseSound, Learn
<1> QED
  BY <1>2, <1>4, <1>5, <1>6 DEF IInv

(* Learning at capacity keeps the invariant: the victim leaves all three   *)
(* structures.                                                             *)
LEMMA LearnEvictingIInv ==
  ASSUME IInv, NEW id \in BotID, NEW h \in Hash, LearnEvicting(id, h)
  PROVE  IInv'
<1> USE RegistryAssumption
<1> DEFINE n == Len(insertOrder)
           oldest == Head(insertOrder)
<1>1. n \in Nat \ {0} /\ oldest = insertOrder[1] /\ oldest \in BotID
  BY DEF IInv, TypeOK, LearnEvicting
<1>2. /\ insertOrder' \in Seq(BotID)
      /\ Len(insertOrder') = n
      /\ insertOrder'[n] = id
      /\ \A i \in 1..(n - 1) : insertOrder'[i] = insertOrder[i + 1]
  BY Requeue DEF IInv, TypeOK, LearnEvicting
<1>3. oldest \in Known /\ id \notin Known
  BY <1>1 DEF IInv, OrderMatchesMap, LearnEvicting, Known
<1>4. /\ idToHash[oldest] # NoHash
      /\ idToHash[oldest] \in Hash
      /\ oldest # id
      /\ idToHash' = [idToHash EXCEPT ![oldest] = NoHash, ![id] = h]
      /\ hashToID' = [Unlinked(idToHash[oldest], oldest) EXCEPT ![h] = id]
  BY <1>1, <1>3 DEF IInv, TypeOK, LearnEvicting, Known
<1> HIDE DEF oldest
<1>5. TypeOK'
  BY <1>1, <1>2, <1>4 DEF IInv, TypeOK, Unlinked
<1>6. Known' = (Known \ {oldest}) \cup {id}
  BY <1>1, <1>4 DEF IInv, TypeOK, Known
<1>7. OrderMatchesMap'
  <2>1. \A i \in 2..n : insertOrder[i] # oldest
    BY <1>1 DEF IInv, TypeOK, OrderMatchesMap
  <2>2. \A i \in 1..n : insertOrder[i] # id
    BY <1>3 DEF IInv, TypeOK, OrderMatchesMap
  <2>3. ASSUME NEW i \in 1..n, NEW j \in 1..n, insertOrder'[i] = insertOrder'[j]
        PROVE  i = j
    <3>1. CASE i # n /\ j # n
      <4>1. i \in 1..(n - 1) /\ j \in 1..(n - 1) /\ i + 1 \in 1..n /\ j + 1 \in 1..n
        BY <1>1, <3>1
      <4>2. insertOrder[i + 1] = insertOrder[j + 1]
        BY <1>2, <2>3, <4>1
      <4>3. i + 1 = j + 1
        BY <4>1, <4>2 DEF IInv, TypeOK, OrderMatchesMap
      <4> QED
        BY <4>3
    <3>2. CASE i = n \/ j = n
      BY <1>1, <1>2, <2>2, <2>3, <3>2
    <3> QED
      BY <3>1, <3>2
  <2>4. \A i \in 1..n : insertOrder'[i] \in Known'
    BY <1>1, <1>2, <1>6, <2>1, SMTT(30) DEF IInv, TypeOK, OrderMatchesMap
  <2>5. ASSUME NEW k \in Known' PROVE \E i \in 1..n : insertOrder'[i] = k
    <3>1. CASE k = id
      BY <1>1, <1>2, <3>1
    <3>2. CASE k # id
      <4>1. PICK j \in 1..n : insertOrder[j] = k
        BY <1>6, <3>2 DEF IInv, TypeOK, OrderMatchesMap
      <4>2. j # 1
        BY <1>1, <1>6, <3>2, <4>1
      <4>3. j - 1 \in 1..(n - 1) /\ insertOrder'[j - 1] = insertOrder[j]
        BY <1>1, <1>2, <4>1, <4>2
      <4> QED
        BY <1>1, <4>1, <4>3
    <3> QED
      BY <3>1, <3>2
  <2>6. DOMAIN insertOrder' = 1..n
    BY <1>1, <1>2
  <2>7. Known' = {insertOrder'[i] : i \in 1..n}
    BY <2>4, <2>5
  <2> QED
    BY <2>3, <2>6, <2>7 DEF OrderMatchesMap
<1>8. Bounded'
  BY <1>2 DEF IInv, Bounded
<1>9. ReverseSound'
  <2> DEFINE kept == Unlinked(idToHash[oldest], oldest)
  <2>1. kept \in [Hash -> BotID \cup {NoBot}]
    BY <1>1, <1>4 DEF IInv, TypeOK, Unlinked
  <2>2. \A k \in Hash : kept[k] # NoBot => kept[k] # oldest /\ idToHash[kept[k]] = k
    BY <1>1, <1>4 DEF IInv, TypeOK, ReverseSound, Unlinked
  <2> HIDE DEF kept
  <2>3. hashToID' = [kept EXCEPT ![h] = id]
    BY <1>4 DEF kept
  <2>4. \A b \in BotID \ {oldest, id} : idToHash'[b] = idToHash[b]
    BY <1>4 DEF IInv, TypeOK
  <2>5. \A k \in Hash : kept[k] # NoBot => kept[k] # id
    BY <1>3, <2>1, <2>2 DEF Known
  <2>6. idToHash'[id] = h
    BY <1>4 DEF IInv, TypeOK
  <2> QED
    BY <2>1, <2>2, <2>3, <2>4, <2>5, <2>6 DEF ReverseSound
<1> QED
  BY <1>5, <1>7, <1>8, <1>9 DEF IInv

LEMMA NextIInv == IInv /\ [Next]_vars => IInv'
<1> SUFFICES ASSUME IInv, [Next]_vars PROVE IInv'
  OBVIOUS
<1>1. CASE Next
  <2>1. PICK a \in Answers : Register(a[1], a[2])
    BY <1>1 DEF Next
  <2>2. a[1] \in BotID /\ a[2] \in Hash
    BY <2>1, RegistryAssumption DEF Register
  <2> QED
    BY <2>1, <2>2, RotateIInv, LearnIInv, LearnEvictingIInv DEF Register
<1>2. CASE UNCHANGED vars
  BY <1>2 DEF IInv, TypeOK, OrderMatchesMap, Bounded, ReverseSound, Known, vars
<1> QED
  BY <1>1, <1>2

(* The registry is always well formed, lists each bot once, stays within   *)
(* its capacity and never follows a reverse entry to a bot registered      *)
(* under another hash.                                                     *)
THEOREM RegistrySafe ==
  Spec => [](TypeOK /\ OrderMatchesMap /\ Bounded /\ ReverseSound)
<1>1. IInv => TypeOK /\ OrderMatchesMap /\ Bounded /\ ReverseSound
  BY DEF IInv
<1> QED
  BY InitIInv, NextIInv, <1>1, PTL DEF Spec

-----------------------------------------------------------------------------

(* Nothing points away from a bot registered under a hash of its own.      *)
LEMMA BidirectionalStep ==
  ASSUME IInv, Bidirectional,
         NEW a \in Answers, Register(a[1], a[2]),
         \A k \in BotID : idToHash[k] # NoHash => <<k, idToHash[k]>> \in Answers
  PROVE  /\ Bidirectional'
         /\ \A k \in BotID : idToHash'[k] # NoHash => <<k, idToHash'[k]>> \in Answers
<1> USE RegistryAssumption
<1> DEFINE id == a[1]
           h  == a[2]
<1>1. id \in BotID /\ h \in Hash /\ <<id, h>> \in Answers
  BY DEF Register
<1>2. \A k \in BotID \ {id} : Exclusive(idToHash[k]) => idToHash[k] # h
  BY <1>1 DEF Exclusive
<1>0. \A x : Exclusive(x) => x # NoHash
  BY DEF Exclusive
<1>6. \A x : Exclusive(x)' <=> Exclusive(x)
  BY DEF Exclusive
<1> HIDE DEF id, h
<1>3. CASE Rotate(id, h)
  BY <1>0, <1>1, <1>2, <1>3 DEF IInv, TypeOK, Bidirectional, Rotate, Unlinked
<1>4. CASE Learn(id, h)
  BY <1>0, <1>1, <1>2, <1>4 DEF IInv, TypeOK, Bidirectional, Learn
<1>5. CASE LearnEvicting(id, h)
  <2> DEFINE oldest == Head(insertOrder)
             old    == idToHash[oldest]
  <2>1. oldest \in BotID
    BY <1>5 DEF IInv, TypeOK, LearnEvicting
  <2>2. /\ idToHash' = [idToHash EXCEPT ![oldest] = NoHash, ![id] = h]
        /\ hashToID' = [(IF old = NoHash THEN hashToID ELSE Unlinked(old, oldest))
                           EXCEPT ![h] = id]
    BY <1>5 DEF LearnEvicting
  <2> HIDE DEF oldest
  <2> QED
    BY <1>0, <1>1, <1>2, <2>1, <2>2 DEF IInv, TypeOK, Bidirectional, Unlinked
<1> QED
  BY <1>3, <1>4, <1>5 DEF Register, id, h

(* A bot registered under a hash no other bot is reported under is found   *)
(* by that hash, through rotations and evictions of any bots.              *)
THEOREM RegistryBidirectional == Spec => []Bidirectional
<1> DEFINE Reported == \A k \in BotID : idToHash[k] # NoHash => <<k, idToHash[k]>> \in Answers
           J == Bidirectional /\ Reported
<1>1. NewBotRegistry => J
  BY RegistryAssumption DEF NewBotRegistry, Bidirectional, Exclusive
<1>2. IInv /\ J /\ [Next]_vars => J'
  <2>1. IInv /\ J /\ Next => J'
    BY BidirectionalStep DEF Next
  <2>2. J /\ UNCHANGED vars => J'
    BY DEF Bidirectional, Exclusive, vars
  <2> QED
    BY <2>1, <2>2
<1>3. J => Bidirectional
  BY DEF Bidirectional
<1> QED
  BY InitIInv, NextIInv, <1>1, <1>2, <1>3, PTL DEF Spec

-----------------------------------------------------------------------------

(* Every step of the registry is a step of the FIFO directory.             *)
LEMMA DirectoryStep ==
  ASSUME IInv, IInv', NEW id \in BotID, NEW h \in Hash
  PROVE  /\ Rotate(id, h) => Directory!Rotate(id, h)
         /\ Learn(id, h) => Directory!Learn(id, h)
         /\ LearnEvicting(id, h) => Directory!Learn(id, h)
<1> USE RegistryAssumption
<1> DEFINE n == Len(insertOrder)
<1>1. n \in Nat /\ DOMAIN insertOrder = 1..n /\ DOMAIN Listing = 1..n
  BY DEF IInv, TypeOK, Listing
<1>2. \A i \in 1..n : insertOrder[i] \in BotID /\ Listing[i].id = insertOrder[i]
  BY <1>1 DEF IInv, TypeOK, Listing
<1>3. ASSUME Rotate(id, h) PROVE Directory!Rotate(id, h)
  <2>1. PICK p \in 1..n : insertOrder[p] = id
    BY <1>1, <1>3 DEF IInv, OrderMatchesMap, Known, Rotate
  <2>2. \A i \in 1..n : i # p => insertOrder[i] # id
    BY <1>1, <2>1 DEF IInv, OrderMatchesMap
  <2>3. Listing' = [Listing EXCEPT ![p].hash = h]
    <3>1. Listing' = [i \in 1..n |-> [id |-> insertOrder[i],
                                      hash |-> IF i = p THEN h ELSE idToHash[insertOrder[i]]]]
      BY <1>1, <1>2, <1>3, <2>1, <2>2 DEF Listing, Rotate, IInv, TypeOK
    <3> QED
      BY <1>1, <2>1, <3>1 DEF Listing
  <2> QED
    BY <1>1, <1>2, <2>1, <2>3 DEF Directory!Rotate
<1>4. Listing \in Seq(Directory!Rows) /\ Len(Listing) = n
  <2>1. \A i \in 1..n : Listing[i] \in Directory!Rows
    BY <1>1, <1>2 DEF IInv, TypeOK, OrderMatchesMap, Known, Listing, Directory!Rows
  <2>2. Listing = [i \in 1..n |-> Listing[i]]
    BY <1>1 DEF Listing
  <2>3. Listing \in Seq(Directory!Rows)
    BY <1>1, <2>1, <2>2, IsASeq
  <2> QED
    BY <1>1, <2>3
<1> DEFINE row == [id |-> id, hash |-> h]
<1>5. row \in Directory!Rows
  BY DEF Directory!Rows
<1>6. ASSUME idToHash[id] = NoHash
      PROVE  \A i \in 1..n : Listing[i].id # id
  BY <1>1, <1>2, <1>6 DEF IInv, OrderMatchesMap, Known
<1>7. ASSUME Learn(id, h) PROVE Directory!Learn(id, h)
  <2>1. n < MaxEntries
    BY <1>1, <1>7, SizeIsLength DEF IInv, Learn, Bounded
  <2>2. Len(insertOrder') = n + 1 /\ DOMAIN insertOrder' = 1..(n + 1)
    BY <1>1, <1>7 DEF IInv, TypeOK, Learn
  <2>3. \A i \in 1..(n + 1) :
          Listing'[i] = IF i = n + 1 THEN row ELSE Listing[i]
    BY <1>1, <1>2, <1>7, <2>2 DEF IInv, TypeOK, OrderMatchesMap, Known, Learn, Listing
  <2>4. Listing' = Append(Listing, row)
    <3> DEFINE next == Append(Listing, row)
    <3> HIDE DEF row
    <3>1. /\ next \in Seq(Directory!Rows)
          /\ Len(next) = n + 1
          /\ next[n + 1] = row
          /\ \A i \in 1..n : next[i] = Listing[i]
      BY <1>1, <1>4, <1>5, AppendProperties
    <3>2. DOMAIN Listing' = 1..(n + 1) /\ Listing' = [i \in 1..(n + 1) |-> Listing'[i]]
      BY <2>2 DEF Listing
    <3> HIDE DEF next
    <3>3. Listing' = next
      BY <1>1, <2>3, <3>1, <3>2
    <3> QED
      BY <3>3 DEF next
  <2> QED
    BY <1>1, <1>4, <1>6, <1>7, <2>1, <2>4 DEF Directory!Learn, Learn
<1>8. ASSUME LearnEvicting(id, h) PROVE Directory!Learn(id, h)
  <2> DEFINE oldest == Head(insertOrder)
  <2>1. n \in Nat \ {0} /\ oldest = insertOrder[1] /\ oldest \in BotID
    BY <1>8 DEF IInv, TypeOK, LearnEvicting
  <2>2. n >= MaxEntries
    BY <1>1, <1>8, SizeIsLength DEF IInv, LearnEvicting
  <2>3. /\ insertOrder' \in Seq(BotID)
        /\ Len(insertOrder') = n
        /\ insertOrder'[n] = id
        /\ \A i \in 1..(n - 1) : insertOrder'[i] = insertOrder[i + 1]
    BY <1>8, Requeue DEF IInv, TypeOK, LearnEvicting
  <2>4. idToHash' = [idToHash EXCEPT ![oldest] = NoHash, ![id] = h]
    BY <1>8 DEF LearnEvicting
  <2>5. \A i \in 2..n : insertOrder[i] # oldest /\ insertOrder[i] # id
    BY <1>1, <1>8, <2>1, SMTT(30) DEF IInv, OrderMatchesMap, Known, LearnEvicting
  <2> HIDE DEF oldest
  <2>6. \A i \in 1..(n - 1) : idToHash'[insertOrder[i + 1]] = idToHash[insertOrder[i + 1]]
    <3> TAKE i \in 1..(n - 1)
    <3>1. i + 1 \in 2..n /\ insertOrder[i + 1] \in BotID
      BY <1>1, <1>2
    <3> QED
      BY <2>4, <2>5, <3>1 DEF IInv, TypeOK
  <2>7. idToHash'[id] = h /\ DOMAIN insertOrder' = 1..n
    BY <2>3, <2>4 DEF IInv, TypeOK
  <2>8. Listing'[n] = row /\ \A i \in 1..(n - 1) : Listing'[i] = Listing[i + 1]
    <3>1. Listing'[n] = row
      BY <2>1, <2>3, <2>7 DEF Listing
    <3>2. ASSUME NEW i \in 1..(n - 1) PROVE Listing'[i] = Listing[i + 1]
      <4>1. i \in 1..n /\ i + 1 \in 1..n /\ insertOrder'[i] = insertOrder[i + 1]
        BY <1>1, <2>3
      <4>2. Listing'[i] = [id |-> insertOrder[i + 1], hash |-> idToHash[insertOrder[i + 1]]]
        BY <2>6, <2>7, <4>1 DEF Listing
      <4> QED
        BY <1>1, <4>1, <4>2 DEF Listing
    <3> QED
      BY <3>1, <3>2
  <2>9. DOMAIN Listing' = 1..n /\ Listing' = [i \in 1..n |-> Listing'[i]]
    BY <2>7 DEF Listing
  <2>10. Listing # <<>>
    BY <1>4, <2>1
  <2> DEFINE next == Append(Tail(Listing), row)
  <2>11. /\ next \in Seq(Directory!Rows)
         /\ Len(next) = n
         /\ next[n] = row
         /\ \A i \in 1..(n - 1) : next[i] = Listing[i + 1]
    BY <1>4, <1>5, <2>10, Requeue
  <2>12. Listing' = next
    <3> HIDE DEF next, row
    <3> QED
      BY <2>1, <2>8, <2>9, <2>11
  <2>13. ~(Len(Listing) < MaxEntries)
    BY <1>1, <1>4, <2>2, RegistryAssumption
  <2> QED
    BY <1>1, <1>6, <1>8, <2>12, <2>13 DEF Directory!Learn, LearnEvicting
<1> QED
  BY <1>3, <1>7, <1>8

(* The registry implements the bounded FIFO directory of BotDirectory.     *)
THEOREM RegistryImplementsDirectory == Spec => ImplementsDirectory
<1>1. NewBotRegistry => Directory!Init
  BY DEF NewBotRegistry, Directory!Init, Listing
<1>2. IInv /\ IInv' /\ [Next]_vars => [Directory!Next]_Listing
  <2> SUFFICES ASSUME IInv, IInv', [Next]_vars PROVE [Directory!Next]_Listing
    OBVIOUS
  <2>1. CASE Next
    <3>1. PICK a \in Answers : Register(a[1], a[2])
      BY <2>1 DEF Next
    <3>2. a[1] \in BotID /\ a[2] \in Hash
      BY <3>1, RegistryAssumption DEF Register
    <3>3. Directory!Rotate(a[1], a[2]) \/ Directory!Learn(a[1], a[2])
      BY <3>1, <3>2, DirectoryStep DEF Register
    <3> QED
      BY <3>2, <3>3 DEF Directory!Next
  <2>2. CASE UNCHANGED vars
    BY <2>2 DEF vars, Listing
  <2> QED
    BY <2>1, <2>2
<1> QED
  BY InitIInv, NextIInv, <1>1, <1>2, PTL
  DEF Spec, ImplementsDirectory, Directory!Spec
=============================================================================

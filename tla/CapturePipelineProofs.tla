----------------------- MODULE CapturePipelineProofs -----------------------
(***************************************************************************)
(* Theorems about CapturePipeline, for any number of workers, keys and     *)
(* messages, and every capacity, lifetime and window size.                 *)
(*                                                                         *)
(* First the trace index against the store; then the store and the sink as *)
(* their own modules describe them; then the balance of events between     *)
(* capture and span with the counters and the gauge; last the list, map    *)
(* and windows of the store. IInv is what the later parts share.           *)
(***************************************************************************)
EXTENDS CapturePipeline, FiniteSetTheorems, SequenceTheorems, TLAPS

Phases == {"idle", "record", "notify", "deliver"}

(* The worker owes the listeners a call.                                   *)
Busy(w) == phase[w] \in {"notify", "deliver"}

(* The conversations with an entry in the trace index.                     *)
Indexed == {k \in Key : index[k] # Sink!NoTrace}

(* The evicted conversations OnEvict has still to be told of by w.         *)
Owed(w) == {owed[w][i] : i \in DOMAIN owed[w]}

Shape ==
  /\ lru \in Seq(Key) /\ lmap \subseteq Key
  /\ born \in [Key -> Nat]
  /\ index \in [Key -> Nat] /\ traces \in Nat
  /\ phase \in [Worker -> Phases]
  /\ inbox \in [Worker -> Seq(Message)]
  /\ \A w \in Worker : phase[w] = "record" => inbox[w] # <<>>
  /\ owed \in [Worker -> Seq(Key)]
  /\ current \in [Worker -> [key : Key \cup {NoCall}, born : Nat, looped : BOOLEAN]]
  /\ \A w \in Worker : Busy(w) => current[w].key \in Key
  /\ DOMAIN call = Worker
  /\ \A w \in Worker : phase[w] = "deliver" =>
       /\ call[w].conv = current[w].key
       /\ owed[w] = <<>>
  /\ serial \in BOOLEAN
  /\ traced \subseteq [key : Key, born : Nat, trace : Nat]

(* One worker at a time is in its notifications, and what it has still to  *)
(* say is exactly the difference between index and store.                  *)
IndexFollows ==
  /\ \A v, w \in Worker : Busy(v) /\ Busy(w) => v = w
  /\ (\A w \in Worker : ~Busy(w)) => Indexed = lmap
  /\ \A w \in Worker : Busy(w) => (Indexed \ Owed(w)) \cup {current[w].key} = lmap

(* Nobody is about to evict k from the index.                              *)
Settled(k) == \A w \in Worker : Busy(w) => k \notin Owed(w)

SpansPast == \A s \in traced : s.trace \in 1..traces /\ s.born <= born[s.key]

SameTrace ==
  \A s, u \in traced : s.trace = u.trace <=> (s.key = u.key /\ s.born = u.born)

(* An indexed trace has a span of its conversation, of the present one     *)
(* unless an eviction is due.                                              *)
IndexedSpans ==
  \A k \in Indexed :
    /\ \E s \in traced : s.key = k /\ s.trace = index[k]
    /\ \A s \in traced : Settled(k) /\ s.key = k /\ s.trace = index[k] => s.born = born[k]

(* The event of a conversation that will not find its trace is its first.  *)
FirstSpans ==
  \A w \in Worker : Busy(w) =>
    LET k == current[w].key
    IN /\ current[w].born = born[k]
       /\ k \notin Indexed \/ k \in Owed(w) =>
            \A s \in traced : ~(s.key = k /\ s.born = born[k])

TracesFollow == SpansPast /\ SameTrace /\ IndexedSpans /\ FirstSpans

IInv == Shape /\ (serial => IndexFollows /\ TracesFollow)

-----------------------------------------------------------------------------

LEMMA InitIInv == Init => IInv
<1> SUFFICES ASSUME Init PROVE IInv
  OBVIOUS
<1> USE DEF Init, Store!Init, Sink!Init, Sink!NoTrace, NoEvent
<1>1. Shape
  BY DEF Shape, Phases, Busy
<1>2. IndexFollows
  BY DEF IndexFollows, Busy, Indexed
<1>3. TracesFollow
  BY DEF TracesFollow, SpansPast, SameTrace, IndexedSpans, FirstSpans, Busy, Indexed
<1> QED BY <1>1, <1>2, <1>3 DEF IInv

(* Steps that touch neither the store, nor the index, nor what is owed.    *)
LEMMA CaptureKeepsIInv ==
  ASSUME IInv, NEW w \in Worker, Capture(w)
  PROVE  IInv'
<1>1. PICK n \in 1..MaxBatch : \E batch \in [1..n -> Message] :
        inbox' = [inbox EXCEPT ![w] = batch]
  BY DEF Capture
<1>2. PICK batch \in [1..n -> Message] : inbox' = [inbox EXCEPT ![w] = batch]
  BY <1>1
<1>3. n \in Nat \ {0}
  BY PipelineAssumption
<1>4. batch \in Seq(Message) /\ Len(batch) = n /\ batch # <<>>
  BY <1>3
<1>5. /\ phase[w] = "idle" /\ phase' = [phase EXCEPT ![w] = "record"]
      /\ UNCHANGED <<owed, current, born, traced, serial, lru, lmap, index, traces, call>>
  BY DEF Capture, convVars, storeVars, sinkVars
<1>6. \A v \in Worker : Busy(v)' <=> Busy(v)
  BY <1>5 DEF Busy, IInv, Shape
<1>7. Shape'
  BY <1>2, <1>4, <1>5, <1>6 DEF IInv, Shape, Phases
<1>8. Indexed' = Indexed /\ \A v : Owed(v)' = Owed(v)
  BY <1>5 DEF Indexed, Owed
<1>9. serial' => IndexFollows' /\ TracesFollow'
  BY <1>5, <1>6, <1>8 DEF IInv, IndexFollows, TracesFollow, SpansPast, SameTrace,
     IndexedSpans, FirstSpans, Settled
<1> QED BY <1>7, <1>9 DEF IInv

(* The sequences the store is made of.                                     *)
LEMMA RecordSets ==
  ASSUME Shape, NEW k \in Key, NEW now, Store!Record(k, now)
  PROVE  /\ lru' \in Seq(Key)
         /\ evicted' \in Seq(Key)
         /\ lmap' = (lmap \ {evicted'[i] : i \in DOMAIN evicted'}) \cup {k}
<1>1. Len(lru) \in Nat /\ DOMAIN lru = 1..Len(lru) /\ \A i \in 1..Len(lru) : lru[i] \in Key
  BY DEF Shape
<1>2. PICK n \in 0..Len(lru) :
        \/ Store!Found(k, now, n) \/ Store!Created(k, now, n) \/ Store!CreatedEvicting(k, now, n)
  BY DEF Store!Record
<1>3. ASSUME NEW m \in 0..Len(lru), Store!Touch(k, now, m)
      PROVE  /\ evicted' \in Seq(Key)
             /\ lmap' = (lmap \ {evicted'[i] : i \in DOMAIN evicted'}) \cup {k}
  <2>1. evicted' = [j \in 1..(Len(lru) - m) |-> lru[Len(lru) + 1 - j]]
    BY <1>3 DEF Store!Touch, Store!Popped
  <2>2. Len(lru) - m \in Nat /\ \A j \in 1..(Len(lru) - m) : Len(lru) + 1 - j \in 1..Len(lru)
    BY <1>1
  <2>3. evicted' \in Seq(Key) /\ DOMAIN evicted' = 1..(Len(lru) - m)
    BY <1>1, <2>1, <2>2
  <2>4. {evicted'[i] : i \in DOMAIN evicted'} = Store!PoppedKeys(m)
    <3>1. ASSUME NEW i \in 1..(Len(lru) - m) PROVE evicted'[i] \in Store!PoppedKeys(m)
      <4>1. Len(lru) + 1 - i \in (m + 1)..Len(lru)
        BY <1>1
      <4> QED BY <2>1, <4>1 DEF Store!PoppedKeys
    <3>2. ASSUME NEW i \in (m + 1)..Len(lru)
          PROVE  lru[i] \in {evicted'[j] : j \in DOMAIN evicted'}
      <4>1. Len(lru) + 1 - i \in 1..(Len(lru) - m) /\ Len(lru) + 1 - (Len(lru) + 1 - i) = i
        BY <1>1
      <4> QED BY <2>1, <2>3, <4>1
    <3> QED BY <2>3, <3>1, <3>2 DEF Store!PoppedKeys
  <2> QED BY <1>3, <2>3, <2>4 DEF Store!Touch
<1>4. ASSUME NEW m \in 0..Len(lru)
      PROVE  /\ SubSeq(lru, 1, m) \in Seq(Key) /\ Len(SubSeq(lru, 1, m)) = m
             /\ Store!PushFront(k, SubSeq(lru, 1, m)) \in Seq(Key)
  BY <1>1 DEF Shape, Store!PushFront
<1>5. CASE Store!Found(k, now, n)
  <2>1. PICK p \in 1..n : lru' = Store!MoveToFront(SubSeq(lru, 1, n), p)
    BY <1>5 DEF Store!Found
  <2> DEFINE s == SubSeq(lru, 1, n)
  <2>2. s \in Seq(Key) /\ Len(s) = n /\ \A i \in 1..n : s[i] \in Key
    BY <1>4
  <2> HIDE DEF s
  <2>3. lru' = [i \in 1..n |-> IF i = 1 THEN s[p] ELSE IF i <= p THEN s[i - 1] ELSE s[i]]
    BY <2>1, <2>2 DEF Store!MoveToFront, s
  <2>4. \A i \in 1..n : lru'[i] \in Key
    BY <2>2, <2>3
  <2>5. lru' \in Seq(Key)
    BY <2>3, <2>4, <1>1
  <2> QED BY <1>3, <1>5, <2>5 DEF Store!Found
<1>6. CASE Store!Created(k, now, n)
  BY <1>3, <1>4, <1>6 DEF Store!Created
<1>7. CASE Store!CreatedEvicting(k, now, n)
  <2>1. n - 1 \in 0..Len(lru)
    BY <1>1, <1>7, PipelineAssumption DEF Store!CreatedEvicting
  <2> QED BY <1>3, <1>4, <1>7, <2>1 DEF Store!CreatedEvicting
<1> QED BY <1>2, <1>5, <1>6, <1>7

(* The critical section: what the store lost is owed to the listeners.     *)
LEMMA CorrelateKeepsIInv ==
  ASSUME IInv, NEW w \in Worker, Correlate(w)
  PROVE  IInv'
<1> DEFINE k == Head(inbox[w]).key
           gone == {evicted'[i] : i \in DOMAIN evicted'}
<1>1. /\ phase[w] = "record"
      /\ Store!Record(k, stamp[w])
      /\ born' = [born EXCEPT ![k] = IF k \in lmap \ gone THEN born[k] ELSE born[k] + 1]
      /\ inbox' = [inbox EXCEPT ![w] = Tail(inbox[w])]
      /\ owed' = [owed EXCEPT ![w] = evicted']
      /\ phase' = [phase EXCEPT ![w] = "notify"]
      /\ serial' = (serial /\ ~Notifying)
      /\ UNCHANGED <<traced, index, traces, call>>
  BY DEF Correlate, Rest, sinkVars
<1>2. \E looped \in BOOLEAN :
        current' = [current EXCEPT ![w] = [key |-> k, born |-> born'[k], looped |-> looped]]
  <2> DEFINE looped == DetectedDepth(Without(window, gone, <<>>)[k],
                                     Signature(Head(inbox[w])), stamp[w]) > 0
  <2>1. current' = [current EXCEPT ![w] = [key |-> k, born |-> born'[k], looped |-> looped]]
    BY DEF Correlate
  <2>2. looped \in BOOLEAN
    OBVIOUS
  <2> HIDE DEF looped
  <2> QED BY <2>1, <2>2
<1>3. /\ inbox[w] \in Seq(Message) /\ inbox[w] # <<>>
      /\ Head(inbox[w]) \in Message /\ Tail(inbox[w]) \in Seq(Message)
  BY <1>1 DEF IInv, Shape
<1>4. k \in Key
  BY <1>3, PipelineAssumption
<1> HIDE DEF k
<1>5. /\ lru' \in Seq(Key) /\ evicted' \in Seq(Key)
      /\ lmap' = (lmap \ gone) \cup {k}
  BY <1>1, <1>4, RecordSets DEF IInv
<1>6. /\ current' \in [Worker -> [key : Key \cup {NoCall}, born : Nat, looped : BOOLEAN]]
      /\ current'[w].key = k /\ current'[w].born = born'[k]
      /\ \A v \in Worker \ {w} : current'[v] = current[v]
  <2>1. born' \in [Key -> Nat]
    BY <1>1, <1>4 DEF IInv, Shape
  <2> QED BY <1>2, <1>4, <2>1 DEF IInv, Shape
<1>7. Shape'
  <2>1. phase' \in [Worker -> Phases] /\ phase'[w] = "notify"
        /\ \A v \in Worker \ {w} : phase'[v] = phase[v]
    BY <1>1 DEF IInv, Shape, Phases
  <2>2. /\ inbox' \in [Worker -> Seq(Message)]
        /\ \A v \in Worker : phase'[v] = "record" => inbox'[v] # <<>>
    BY <1>1, <1>3, <2>1 DEF IInv, Shape
  <2>3. owed' \in [Worker -> Seq(Key)]
    BY <1>1, <1>5 DEF IInv, Shape
  <2>4. \A v \in Worker : Busy(v)' => current'[v].key \in Key
    BY <1>4, <1>6, <2>1 DEF IInv, Shape, Busy
  <2>5. \A v \in Worker : phase'[v] = "deliver" =>
          call'[v].conv = current'[v].key /\ owed'[v] = <<>>
    BY <1>1, <1>6, <2>1 DEF IInv, Shape
  <2>6. lmap' \subseteq Key /\ born' \in [Key -> Nat]
    BY <1>1, <1>4, <1>5 DEF IInv, Shape
  <2>7. serial' \in BOOLEAN
    BY <1>1
  <2> QED BY <1>1, <1>5, <1>6, <2>1, <2>2, <2>3, <2>4, <2>5, <2>6, <2>7 DEF IInv, Shape
<1>8. ASSUME serial' PROVE IndexFollows' /\ TracesFollow'
  <2>1. serial /\ \A v \in Worker : ~Busy(v)
    BY <1>1, <1>8 DEF Notifying, Busy
  <2>2. IndexFollows /\ TracesFollow /\ Shape /\ Indexed = lmap
    BY <2>1 DEF IInv, IndexFollows
  <2>3. Busy(w)' /\ \A v \in Worker \ {w} : ~Busy(v)'
    BY <1>1, <2>1, <2>2 DEF Busy, Shape
  <2>4. Owed(w)' = gone
    BY <1>1, <2>2 DEF Owed, Shape
  <2>5. Indexed' = Indexed
    BY <1>1 DEF Indexed
  <2> HIDE DEF gone
  <2>6. IndexFollows'
    BY <1>5, <1>6, <2>2, <2>3, <2>4, <2>5 DEF IndexFollows
  <2>7. /\ \A x \in Key : born'[x] >= born[x]
        /\ \A x \in Key : x # k \/ k \in lmap \ gone => born'[x] = born[x]
        /\ k \notin lmap \ gone => born'[k] = born[k] + 1
    BY <1>1, <1>4, <2>2 DEF Shape
  <2>8. SpansPast'
    BY <1>1, <1>7, <2>2, <2>7 DEF TracesFollow, SpansPast, Shape
  <2>9. SameTrace'
    BY <1>1, <2>2 DEF TracesFollow, SameTrace
  <2>10. IndexedSpans'
    <3> SUFFICES ASSUME NEW x \in Indexed
                 PROVE  /\ \E s \in traced : s.key = x /\ s.trace = index[x]
                        /\ \A s \in traced : Settled(x)' /\ s.key = x /\ s.trace = index[x]
                                               => s.born = born'[x]
      BY <1>1, <2>5 DEF IndexedSpans
    <3>1. Settled(x)
      BY <2>1 DEF Settled
    <3>2. Settled(x)' => x \in lmap \ gone
      BY <2>2, <2>3, <2>4 DEF Settled
    <3>3. x \in Key
      BY DEF Indexed
    <3> QED BY <2>2, <2>7, <3>1, <3>2, <3>3 DEF TracesFollow, IndexedSpans
  <2>11. FirstSpans'
    <3>1. ASSUME k \notin Indexed \/ k \in gone, NEW s \in traced, s.key = k
          PROVE  s.born # born'[k]
      <4>1. born'[k] = born[k] + 1
        BY <2>2, <2>7, <3>1
      <4>2. s.born <= born[k] /\ s.born \in Nat /\ born[k] \in Nat
        BY <1>4, <2>2, <3>1 DEF TracesFollow, SpansPast, Shape
      <4> QED BY <4>1, <4>2
    <3> QED BY <1>1, <1>6, <2>3, <2>4, <2>5, <3>1 DEF FirstSpans
  <2> QED BY <2>6, <2>8, <2>9, <2>10, <2>11 DEF TracesFollow
<1> QED BY <1>7, <1>8 DEF IInv

(* An eviction reaches the index.                                          *)
LEMMA NotifyEvictKeepsIInv ==
  ASSUME IInv, NEW w \in Worker, NotifyEvict(w)
  PROVE  IInv'
<1> DEFINE h == Head(owed[w])
<1>1. /\ phase[w] = "notify" /\ owed[w] # <<>>
      /\ owed' = [owed EXCEPT ![w] = Tail(owed[w])]
      /\ index' = [index EXCEPT ![h] = 0]
      /\ UNCHANGED <<phase, inbox, current, born, traced, serial, lru, lmap, traces, call>>
  BY DEF NotifyEvict, Sink!OnEvict, Sink!NoTrace, convVars, history, storeVars
<1>2. owed[w] \in Seq(Key) /\ h \in Key /\ Tail(owed[w]) \in Seq(Key)
  BY <1>1 DEF IInv, Shape
<1>3. Owed(w) = {h} \cup Owed(w)'
  <2>1. owed'[w] = Tail(owed[w])
    BY <1>1 DEF IInv, Shape
  <2>2. \A s \in Seq(Key) : s # <<>> =>
          {s[i] : i \in DOMAIN s} = {Head(s)} \cup {Tail(s)[i] : i \in DOMAIN Tail(s)}
    <3> SUFFICES ASSUME NEW s \in Seq(Key), s # <<>>
                 PROVE  {s[i] : i \in DOMAIN s} =
                          {Head(s)} \cup {Tail(s)[i] : i \in DOMAIN Tail(s)}
      OBVIOUS
    <3>1. /\ Len(s) \in Nat \ {0} /\ DOMAIN s = 1..Len(s) /\ Head(s) = s[1]
          /\ DOMAIN Tail(s) = 1..(Len(s) - 1)
          /\ \A i \in 1..(Len(s) - 1) : Tail(s)[i] = s[i + 1]
      OBVIOUS
    <3>2. ASSUME NEW i \in 1..Len(s)
          PROVE  s[i] \in {Head(s)} \cup {Tail(s)[j] : j \in DOMAIN Tail(s)}
      <4>1. CASE i = 1
        BY <3>1, <4>1
      <4>2. CASE i # 1
        <5>1. i - 1 \in 1..(Len(s) - 1) /\ Tail(s)[i - 1] = s[i]
          BY <3>1, <4>2
        <5> QED BY <3>1, <5>1
      <4> QED BY <4>1, <4>2
    <3>3. ASSUME NEW j \in 1..(Len(s) - 1)
          PROVE  Tail(s)[j] \in {s[i] : i \in DOMAIN s}
      BY <3>1
    <3> QED BY <3>1, <3>2, <3>3
  <2> QED BY <1>1, <1>2, <2>1, <2>2 DEF Owed
<1> HIDE DEF h
<1>4. Shape'
  <2>1. owed' \in [Worker -> Seq(Key)] /\ index' \in [Key -> Nat]
    BY <1>1, <1>2 DEF IInv, Shape
  <2>2. \A v \in Worker : phase[v] = "deliver" => owed'[v] = <<>>
    BY <1>1 DEF IInv, Shape
  <2> QED BY <1>1, <2>1, <2>2 DEF IInv, Shape, Busy
<1>5. ASSUME serial' PROVE IndexFollows' /\ TracesFollow'
  <2>1. IndexFollows /\ TracesFollow /\ Shape
    BY <1>1, <1>5 DEF IInv
  <2>2. Busy(w) /\ \A v \in Worker : Busy(v)' <=> Busy(v)
    BY <1>1 DEF Busy
  <2>3. \A v \in Worker : Busy(v) => v = w
    BY <2>1, <2>2 DEF IndexFollows
  <2>4. Indexed' = Indexed \ {h} /\ \A x \in Indexed' : index'[x] = index[x]
    BY <1>1, <1>2, <2>1 DEF Indexed, Shape, Sink!NoTrace
  <2>5. IndexFollows'
    BY <1>1, <1>3, <2>1, <2>2, <2>3, <2>4 DEF IndexFollows
  <2>6. SpansPast' /\ SameTrace'
    BY <1>1, <2>1 DEF TracesFollow, SpansPast, SameTrace
  <2>7. \A x \in Indexed' : Settled(x)' => Settled(x)
    BY <1>3, <2>2, <2>3, <2>4 DEF Settled
  <2>8. IndexedSpans'
    BY <1>1, <2>1, <2>4, <2>7 DEF TracesFollow, IndexedSpans
  <2>9. FirstSpans'
    BY <1>1, <1>3, <2>1, <2>2, <2>3, <2>4 DEF TracesFollow, FirstSpans
  <2> QED BY <2>5, <2>6, <2>8, <2>9 DEF TracesFollow
<1> QED BY <1>4, <1>5 DEF IInv

LEMMA NotifyEventKeepsIInv ==
  ASSUME IInv, NEW w \in Worker, NotifyEvent(w)
  PROVE  IInv'
<1>1. /\ phase[w] = "notify" /\ owed[w] = <<>>
      /\ call' = [call EXCEPT ![w] = [conv |-> current[w].key, looped |-> current[w].looped]]
      /\ phase' = [phase EXCEPT ![w] = "deliver"]
      /\ UNCHANGED <<inbox, owed, current, born, traced, serial, lru, lmap, index, traces>>
  BY DEF NotifyEvent, Sink!OnEvent, Sink!tracing, convVars, history, storeVars
<1>2. \A v \in Worker : Busy(v)' <=> Busy(v)
  BY <1>1 DEF Busy, IInv, Shape
<1>3. Shape'
  <2>1. /\ phase' \in [Worker -> Phases]
        /\ \A v \in Worker : phase'[v] = "record" => inbox[v] # <<>>
    BY <1>1 DEF IInv, Shape, Phases
  <2>2. /\ DOMAIN call' = Worker
        /\ \A v \in Worker : phase'[v] = "deliver" =>
             call'[v].conv = current[v].key /\ owed[v] = <<>>
    BY <1>1 DEF IInv, Shape
  <2> QED BY <1>1, <1>2, <2>1, <2>2 DEF IInv, Shape
<1>4. Indexed' = Indexed /\ \A v : Owed(v)' = Owed(v)
  BY <1>1 DEF Indexed, Owed
<1>5. serial' => IndexFollows' /\ TracesFollow'
  BY <1>1, <1>2, <1>4 DEF IInv, IndexFollows, TracesFollow, SpansPast, SameTrace,
     IndexedSpans, FirstSpans, Settled
<1> QED BY <1>3, <1>5 DEF IInv

(* Steps that leave all the invariant speaks of alone.                     *)
LEMMA StutterKeepsIInv ==
  ASSUME IInv,
         UNCHANGED <<phase, inbox, owed, current, born, traced, serial, lru, lmap, index,
                     traces, call>>
  PROVE  IInv'
<1>1. Shape' /\ Indexed' = Indexed /\ \A v : (Owed(v)' = Owed(v)) /\ (Busy(v)' <=> Busy(v))
  BY DEF IInv, Shape, Indexed, Owed, Busy
<1>2. serial' => IndexFollows' /\ TracesFollow'
  BY <1>1 DEF IInv, IndexFollows, TracesFollow, SpansPast, SameTrace,
     IndexedSpans, FirstSpans, Settled
<1> QED BY <1>1, <1>2 DEF IInv

(* The span: the event finds the trace of its conversation or founds it.   *)
LEMMA TraceKeepsIInv ==
  ASSUME IInv, NEW w \in Worker, Trace(w)
  PROVE  IInv'
<1> DEFINE k == current[w].key
           span == [key |-> k, born |-> current[w].born, trace |-> Sink!TraceFor(k)]
<1>1. /\ phase[w] = "deliver"
      /\ current' = [current EXCEPT ![w] = NoEvent]
      /\ \E next \in {"record", "idle"} :
           /\ next = "record" => inbox[w] # <<>>
           /\ phase' = [phase EXCEPT ![w] = next]
      /\ traced' = traced \cup {span}
      /\ UNCHANGED <<inbox, owed, born, serial, lru, lmap>>
  BY DEF Trace, convVars, storeVars
<1>2. k \in Key /\ call[w].conv = k /\ owed[w] = <<>>
  BY <1>1 DEF IInv, Shape, Busy
<1>3. /\ call' = [call EXCEPT ![w] = NoCall]
      /\ index' = [index EXCEPT ![k] = Sink!TraceFor(k)]
      /\ traces' = IF index[k] # 0 THEN traces ELSE traces + 1
  BY <1>2 DEF Trace, Sink!StartSpan, Sink!Reserve, Sink!NoTrace
<1>4. Sink!TraceFor(k) = IF index[k] # 0 THEN index[k] ELSE traces + 1
  BY DEF Sink!TraceFor, Sink!NoTrace
<1>5. /\ index[k] \in Nat /\ traces \in Nat /\ Sink!TraceFor(k) \in Nat \ {0}
      /\ traces' \in Nat /\ current[w].born \in Nat
  BY <1>2, <1>3, <1>4 DEF IInv, Shape
<1> HIDE DEF k
<1>6. /\ phase' \in [Worker -> Phases] /\ phase'[w] \in {"record", "idle"}
      /\ phase'[w] = "record" => inbox[w] # <<>>
      /\ \A v \in Worker \ {w} : phase'[v] = phase[v]
  BY <1>1 DEF IInv, Shape, Phases
<1>7. Shape'
  <2>1. current' \in [Worker -> [key : Key \cup {NoCall}, born : Nat, looped : BOOLEAN]]
        /\ \A v \in Worker \ {w} : current'[v] = current[v]
    BY <1>1 DEF IInv, Shape, NoEvent
  <2>2. \A v \in Worker : Busy(v)' => current'[v].key \in Key
    BY <1>6, <2>1 DEF IInv, Shape, Busy
  <2>3. index' \in [Key -> Nat] /\ traced' \subseteq [key : Key, born : Nat, trace : Nat]
    BY <1>1, <1>2, <1>3, <1>5 DEF IInv, Shape
  <2>4. \A v \in Worker : phase'[v] = "deliver" => call'[v].conv = current'[v].key
    BY <1>3, <1>6, <2>1 DEF IInv, Shape
  <2>5. DOMAIN call' = Worker /\ \A v \in Worker : phase'[v] = "record" => inbox[v] # <<>>
    BY <1>3, <1>6 DEF IInv, Shape
  <2>6. \A v \in Worker : phase'[v] = "deliver" => owed[v] = <<>>
    BY <1>6 DEF IInv, Shape
  <2> QED BY <1>1, <1>5, <1>6, <2>1, <2>2, <2>3, <2>4, <2>5, <2>6 DEF IInv, Shape
<1>8. ASSUME serial' PROVE IndexFollows' /\ TracesFollow'
  <2>1. IndexFollows /\ TracesFollow /\ Shape
    BY <1>1, <1>8 DEF IInv
  <2>2. Busy(w) /\ \A v \in Worker : Busy(v) => v = w
    BY <1>1, <2>1 DEF Busy, IndexFollows
  <2>3. \A v \in Worker : ~Busy(v)'
    BY <1>6, <2>2 DEF Busy
  <2>4. Owed(w) = {}
    BY <1>2 DEF Owed
  <2>5. Indexed' = Indexed \cup {k}
    BY <1>2, <1>3, <1>5, <2>1 DEF Indexed, Shape, Sink!NoTrace
  <2>6. IndexFollows'
    BY <1>1, <2>1, <2>2, <2>3, <2>4, <2>5 DEF IndexFollows, k
  <2>7. \A x \in Key : Settled(x)
    BY <2>2, <2>4 DEF Settled
  <2>8. span.key = k /\ span.born = born[k] /\ span.trace = Sink!TraceFor(k)
    BY <2>1, <2>2 DEF TracesFollow, FirstSpans, k
  <2>9. CASE k \in Indexed
    <3>1. PICK s \in traced : s.key = k /\ s.trace = index[k]
      BY <2>1, <2>9 DEF TracesFollow, IndexedSpans
    <3>2. s.born = born[k]
      BY <1>2, <2>1, <2>7, <2>9, <3>1 DEF TracesFollow, IndexedSpans
    <3>3. Sink!TraceFor(k) = index[k] /\ index' = index /\ traces' = traces
      BY <1>3, <1>4, <2>1, <2>9 DEF Indexed, Sink!NoTrace, Shape
    <3>4. span = s
      <4>1. s = [key |-> s.key, born |-> s.born, trace |-> s.trace]
        BY <2>1 DEF Shape
      <4>2. span = [key |-> span.key, born |-> span.born, trace |-> span.trace]
        OBVIOUS
      <4> QED BY <2>8, <3>1, <3>2, <3>3, <4>1, <4>2
    <3>5. traced' = traced
      BY <1>1, <3>4
    <3>6. SpansPast' /\ SameTrace'
      BY <1>1, <2>1, <3>3, <3>5 DEF TracesFollow, SpansPast, SameTrace
    <3>7. IndexedSpans'
      BY <1>1, <2>1, <2>5, <2>7, <2>9, <3>3, <3>5 DEF TracesFollow, IndexedSpans, Indexed
    <3>8. FirstSpans'
      BY <2>3 DEF FirstSpans
    <3> QED BY <2>6, <3>6, <3>7, <3>8 DEF TracesFollow
  <2>10. CASE k \notin Indexed
    <3>1. /\ Sink!TraceFor(k) = traces + 1 /\ traces' = traces + 1
          /\ index' = [index EXCEPT ![k] = traces + 1]
      BY <1>2, <1>3, <1>4, <2>10 DEF Indexed, Sink!NoTrace
    <3>2. \A s \in traced : s.trace \in 1..traces /\ ~(s.key = k /\ s.born = born[k])
      BY <2>1, <2>2, <2>10 DEF TracesFollow, SpansPast, FirstSpans, k
    <3>3. span.trace = traces + 1 /\ span.key = k /\ span.born = born[k]
      BY <2>8, <3>1
    <3> HIDE DEF span
    <3>4. SpansPast'
      <4> SUFFICES ASSUME NEW s \in traced'
                   PROVE  s.trace \in 1..traces' /\ s.born <= born[s.key]
        BY <1>1 DEF SpansPast
      <4>1. CASE s \in traced
        BY <1>5, <2>1, <3>1, <4>1 DEF TracesFollow, SpansPast
      <4>2. CASE s = span
        BY <1>2, <1>5, <2>1, <3>1, <3>3, <4>2 DEF Shape
      <4> QED BY <1>1, <4>1, <4>2
    <3>5. SameTrace'
      <4>1. \A s \in traced : s.trace # span.trace /\ ~(s.key = span.key /\ s.born = span.born)
        BY <1>5, <3>2, <3>3
      <4> QED BY <1>1, <2>1, <4>1 DEF TracesFollow, SameTrace
    <3>6. IndexedSpans'
      <4> SUFFICES ASSUME NEW x \in Indexed'
                   PROVE  /\ \E s \in traced' : s.key = x /\ s.trace = index'[x]
                          /\ \A s \in traced' : s.key = x /\ s.trace = index'[x]
                                                  => s.born = born[x]
        BY <1>1 DEF IndexedSpans
      <4>1. CASE x = k
        <5>1. index'[x] = traces + 1
          BY <1>2, <2>1, <3>1, <4>1 DEF Shape
        <5>2. \A s \in traced : s.trace # traces + 1
          BY <1>5, <3>2
        <5> QED BY <1>1, <3>3, <4>1, <5>1, <5>2
      <4>2. CASE x # k
        <5>1. x \in Indexed /\ x \in Key /\ index'[x] = index[x]
          BY <2>1, <2>5, <3>1, <4>2 DEF Indexed, Shape
        <5> QED BY <1>1, <2>1, <2>7, <3>3, <4>2, <5>1 DEF TracesFollow, IndexedSpans
      <4> QED BY <4>1, <4>2
    <3>7. FirstSpans'
      BY <2>3 DEF FirstSpans
    <3> QED BY <2>6, <3>4, <3>5, <3>6, <3>7 DEF TracesFollow
  <2> QED BY <2>9, <2>10
<1> QED BY <1>7, <1>8 DEF IInv

LEMMA NextIInv == IInv /\ [Next]_vars => IInv'
<1> SUFFICES ASSUME IInv, [Next]_vars PROVE IInv'
  OBVIOUS
<1>1. CASE Tick
  BY <1>1, StutterKeepsIInv DEF Tick, recordVars, convVars, history, storeVars, sinkVars
<1>2. ASSUME NEW w \in Worker, Measure(w) PROVE IInv'
  BY <1>2, StutterKeepsIInv
  DEF Measure, Sink!Count, Sink!Score, Sink!Publish, Sink!tracing, recordVars, convVars,
      history, storeVars
<1>3. CASE BoundReached \/ UNCHANGED vars
  BY <1>3, StutterKeepsIInv
  DEF BoundReached, vars, recordVars, convVars, history, storeVars, sinkVars
<1> QED
  BY <1>1, <1>2, <1>3, CaptureKeepsIInv, CorrelateKeepsIInv, NotifyEvictKeepsIInv,
     NotifyEventKeepsIInv, TraceKeepsIInv DEF Next, Work

(* As long as no Record has overlapped the notifications of another, the   *)
(* trace index holds exactly the conversations of the store whenever all   *)
(* have returned, and two spans share a trace exactly when they belong to  *)
(* one conversation between its creation and its eviction.                 *)
THEOREM IndexAndTracesFollowStore ==
  Spec => [](IndexMirrorsStore /\ TracesFollowConversations)
<1>1. IInv => IndexMirrorsStore /\ TracesFollowConversations
  BY DEF IInv, IndexMirrorsStore, TracesFollowConversations, IndexFollows, TracesFollow,
     SameTrace, Quiescent, Indexed, Busy, Shape
<1> QED BY <1>1, InitIInv, NextIInv, PTL DEF Spec

-----------------------------------------------------------------------------
(* The parts of the pipeline are used as their own modules assume.         *)

(* Exchanges carry times that have passed.                                 *)
Clocked ==
  /\ clock \in 1..MaxClock
  /\ newest \in 0..clock
  /\ stamp \in [Worker -> Nat]
  /\ \A w \in Worker : /\ stamp[w] <= clock
                       /\ phase[w] # "idle" => stamp[w] \in 1..clock

LEMMA NextClocked == IInv /\ Clocked /\ [Next]_vars => Clocked'
<1> SUFFICES ASSUME IInv, Clocked, [Next]_vars PROVE Clocked'
  OBVIOUS
<1> USE PipelineAssumption DEF Clocked
<1>1. CASE Tick
  BY <1>1 DEF Tick, recordVars, storeVars
<1>2. ASSUME NEW w \in Worker, Capture(w) PROVE Clocked'
  <2>1. /\ stamp' = [stamp EXCEPT ![w] = clock] /\ UNCHANGED <<clock, newest>>
        /\ phase' = [phase EXCEPT ![w] = "record"]
    BY <1>2 DEF Capture, storeVars
  <2> QED BY <2>1 DEF IInv, Shape
<1>3. ASSUME NEW w \in Worker, Correlate(w) PROVE Clocked'
  <2>1. /\ phase[w] = "record" /\ phase' = [phase EXCEPT ![w] = "notify"]
        /\ UNCHANGED <<clock, stamp>>
    BY <1>3 DEF Correlate
  <2>2. newest' = IF stamp[w] > newest THEN stamp[w] ELSE newest
    BY <1>3 DEF Correlate, Store!Record, Store!Found, Store!Created, Store!CreatedEvicting,
       Store!Touch
  <2>3. stamp[w] \in 1..clock
    BY <2>1
  <2> QED BY <2>1, <2>2, <2>3 DEF IInv, Shape
<1>4. ASSUME NEW w \in Worker, NotifyEvict(w) PROVE Clocked'
  BY <1>4 DEF NotifyEvict, storeVars
<1>5. ASSUME NEW w \in Worker, NotifyEvent(w) PROVE Clocked'
  <2>1. /\ phase[w] = "notify" /\ phase' = [phase EXCEPT ![w] = "deliver"]
        /\ UNCHANGED <<clock, stamp, newest>>
    BY <1>5 DEF NotifyEvent, storeVars
  <2> QED BY <2>1 DEF IInv, Shape
<1>6. ASSUME NEW w \in Worker, Measure(w) PROVE Clocked'
  BY <1>6 DEF Measure, recordVars, storeVars
<1>7. ASSUME NEW w \in Worker, Trace(w) PROVE Clocked'
  <2>1. /\ phase[w] = "deliver"
        /\ \/ /\ phase' = [phase EXCEPT ![w] = "record"]
              /\ stamp' = [stamp EXCEPT ![w] = stamp[w]]
           \/ /\ phase' = [phase EXCEPT ![w] = "idle"]
              /\ stamp' = [stamp EXCEPT ![w] = 0]
        /\ UNCHANGED <<clock, newest>>
    BY <1>7 DEF Trace, storeVars
  <2>2. stamp[w] \in 1..clock /\ w \in DOMAIN phase /\ w \in DOMAIN stamp
    BY <2>1 DEF IInv, Shape
  <2>3. CASE phase' = [phase EXCEPT ![w] = "record"]
    <3>1. stamp' = stamp
      BY <2>1, <2>2, <2>3
    <3> QED BY <2>1, <2>2, <2>3, <3>1
  <2>4. CASE /\ phase' = [phase EXCEPT ![w] = "idle"]
             /\ stamp' = [stamp EXCEPT ![w] = 0]
    BY <2>1, <2>2, <2>4
  <2> QED BY <2>1, <2>3, <2>4
<1>8. CASE BoundReached \/ UNCHANGED vars
  BY <1>8 DEF BoundReached, vars, recordVars, storeVars
<1> QED BY <1>1, <1>2, <1>3, <1>4, <1>5, <1>6, <1>7, <1>8 DEF Next, Work

(* Every step of the pipeline is a step of its store or leaves it alone.   *)
LEMMA StepOfStore ==
  IInv /\ Clocked /\ [Next]_vars => [Store!Next]_(Store!vars)
<1> SUFFICES ASSUME IInv, Clocked, [Next]_vars PROVE [Store!Next]_(Store!vars)
  OBVIOUS
<1>1. CASE Tick \/ BoundReached \/ UNCHANGED vars
  BY <1>1 DEF Tick, BoundReached, vars, storeVars, Store!vars
<1>2. ASSUME NEW w \in Worker,
             Capture(w) \/ NotifyEvict(w) \/ NotifyEvent(w) \/ Measure(w) \/ Trace(w)
      PROVE  UNCHANGED Store!vars
  BY <1>2 DEF Capture, NotifyEvict, NotifyEvent, Measure, Trace, storeVars, Store!vars
<1>3. ASSUME NEW w \in Worker, Correlate(w) PROVE Store!Next
  <2>1. phase[w] = "record" /\ Store!Record(Head(inbox[w]).key, stamp[w])
    BY <1>3 DEF Correlate
  <2>2. Head(inbox[w]).key \in Key
    BY <2>1, PipelineAssumption DEF IInv, Shape
  <2>3. stamp[w] \in 1..MaxClock /\ stamp[w] >= newest - MaxClock
    BY <2>1, PipelineAssumption DEF Clocked
  <2> QED BY <2>1, <2>2, <2>3 DEF Store!Next
<1> QED BY <1>1, <1>2, <1>3 DEF Next, Work

(* What happens to the store is what ConversationCache says: its critical  *)
(* sections are its steps, in any order of the workers, and its timestamps *)
(* lie no further back than the clock has come. Its assumption holds too,  *)
(* so all that is proved of ConversationCache holds of the store here.     *)
THEOREM StoreIsConversationCache == Store!CacheAssumption /\ (Spec => Store!Spec)
<1>0. Store!CacheAssumption
  BY PipelineAssumption DEF Store!CacheAssumption
<1>1. Init => Clocked
  BY PipelineAssumption DEF Init, Store!Init, Clocked
<1>2. Init => Store!Init
  BY DEF Init
<1>3. Spec => Store!Spec
  BY <1>1, <1>2, StepOfStore, InitIInv, NextIInv, NextClocked, PTL DEF Spec, Store!Spec
<1> QED BY <1>0, <1>3

(* Every step of the pipeline is a step of its sink or leaves it alone.    *)
LEMMA StepOfSink ==
  IInv /\ [Next]_vars => [Sink!Next]_(Sink!vars)
<1> SUFFICES ASSUME IInv, [Next]_vars PROVE [Sink!Next]_(Sink!vars)
  OBVIOUS
<1>1. CASE Tick \/ BoundReached \/ UNCHANGED vars
  BY <1>1 DEF Tick, BoundReached, vars, sinkVars, Sink!vars
<1>2. ASSUME NEW w \in Worker, Capture(w) \/ Correlate(w) PROVE UNCHANGED Sink!vars
  BY <1>2 DEF Capture, Correlate, sinkVars, Sink!vars
<1>3. ASSUME NEW w \in Worker, NotifyEvict(w) PROVE Sink!Next
  <2>1. Head(owed[w]) \in Key
    BY <1>3 DEF NotifyEvict, IInv, Shape
  <2> QED BY <1>3, <2>1 DEF NotifyEvict, Sink!Next
<1>4. ASSUME NEW w \in Worker, NotifyEvent(w) PROVE Sink!Next
  <2>1. [conv |-> current[w].key, looped |-> current[w].looped] \in Sink!Calls
    BY <1>4 DEF NotifyEvent, IInv, Shape, Busy, Sink!Calls
  <2> QED BY <1>4, <2>1 DEF NotifyEvent, Sink!Next
<1>5. ASSUME NEW w \in Worker, Measure(w) PROVE Sink!Next
  BY <1>5 DEF Measure, Sink!Next
<1>6. ASSUME NEW w \in Worker, Trace(w) PROVE Sink!Next
  BY <1>6 DEF Trace, Sink!Next
<1> QED BY <1>1, <1>2, <1>3, <1>4, <1>5, <1>6 DEF Next, Work

(* The pipeline calls the sink as TelemetrySink says: a worker is in one   *)
(* OnEvent at a time, with an event of a conversation, and OnEvict gets    *)
(* conversation ids. So all that is proved of TelemetrySink holds here.    *)
THEOREM SinkIsTelemetrySink == Sink!SinkAssumption /\ (Spec => Sink!Spec)
<1>0. Sink!SinkAssumption
  BY PipelineAssumption DEF Sink!SinkAssumption, Sink!IsFiniteSet, IsFiniteSet
<1>1. Init => Sink!Init
  BY DEF Init
<1>2. Spec => Sink!Spec
  BY <1>1, StepOfSink, InitIInv, NextIInv, PTL DEF Spec, Sink!Spec
<1> QED BY <1>0, <1>2
-----------------------------------------------------------------------------
(* Every event is delivered. The messages of an exchange are counted as    *)
(* positions in an inbox, workers in delivery and counters not yet reached *)
(* as sets of workers, and each step moves one message from one count to   *)
(* the next. The loops are counted along the same way.                     *)

InFlight == {w \in Worker : Busy(w)}
Counted  == {w \in Worker : pc[w] \in {"score", "publish", "span"}}
Unscored == {w \in Worker : /\ phase[w] = "notify" \/ pc[w] \in {"count", "score"}
                            /\ current[w].looped}

(* Where a worker is in Record and where in OnEvent.                       *)
InStep ==
  \A w \in Worker :
    /\ pc[w] # "idle" <=> phase[w] = "deliver"
    /\ phase[w] = "deliver" =>
         call[w] = [conv |-> current[w].key, looped |-> current[w].looped]
    /\ phase[w] = "idle" => inbox[w] = <<>>
    /\ Len(inbox[w]) <= MaxBatch

Balance ==
  /\ captured = Cardinality(Waiting) + Cardinality(InFlight) + delivered
  /\ totalMessages = delivered + Cardinality(Counted)
  /\ loops = totalLoops + Cardinality(Unscored)

Delivery ==
  /\ Sink!TypeOK
  /\ captured \in Nat /\ delivered \in Nat /\ loops \in Nat
  /\ IsFiniteSet(Waiting)
  /\ InStep
  /\ Balance

(* What TelemetrySinkProofs shows of the sink's types, for the sink here.  *)
LEMMA SinkStaysTyped ==
  ASSUME Sink!TypeOK, [Sink!Next]_(Sink!vars)
  PROVE  Sink!TypeOK'
<1> USE DEF Sink!TypeOK, Sink!Pcs, Sink!NoTrace
<1>1. ASSUME NEW w \in Worker, NEW c \in Sink!Calls, Sink!OnEvent(w, c)
      PROVE  Sink!TypeOK'
  BY <1>1 DEF Sink!OnEvent, Sink!Goto, Sink!counters, Sink!tracing
<1>2. ASSUME NEW w \in Worker, Sink!Count(w) PROVE Sink!TypeOK'
  BY <1>2 DEF Sink!Count, Sink!Goto, Sink!tracing
<1>3. ASSUME NEW w \in Worker, Sink!Score(w) PROVE Sink!TypeOK'
  BY <1>3 DEF Sink!Score, Sink!Goto, Sink!tracing
<1>4. ASSUME NEW w \in Worker, Sink!Publish(w) PROVE Sink!TypeOK'
  BY <1>4 DEF Sink!Publish, Sink!Goto, Sink!tracing
<1>5. ASSUME NEW w \in Worker, Sink!StartSpan(w) PROVE Sink!TypeOK'
  <2>1. call[w] \in Sink!Calls /\ call[w].conv \in Key
    BY <1>5 DEF Sink!StartSpan, Sink!Goto, Sink!Calls
  <2>2. Sink!TraceFor(call[w].conv) \in Nat
    BY <2>1 DEF Sink!TraceFor
  <2> QED
    BY <1>5, <2>1, <2>2 DEF Sink!StartSpan, Sink!Goto, Sink!Reserve, Sink!counters
<1>6. ASSUME NEW c \in Key, Sink!OnEvict(c) PROVE Sink!TypeOK'
  BY <1>6 DEF Sink!OnEvict, Sink!counters
<1>7. CASE UNCHANGED Sink!vars
  BY <1>7 DEF Sink!vars
<1> QED
  BY <1>1, <1>2, <1>3, <1>4, <1>5, <1>6, <1>7 DEF Sink!Next

(* A worker joins a count.                                                 *)
LEMMA OneMore ==
  ASSUME NEW A \in SUBSET Worker, NEW B, NEW w, w \notin A, B = A \cup {w}
  PROVE  /\ Cardinality(A) \in Nat /\ Cardinality(B) \in Nat
         /\ Cardinality(B) = Cardinality(A) + 1
<1>1. IsFiniteSet(A)
  BY PipelineAssumption, FS_Subset
<1>2. Cardinality(A) \in Nat
  BY <1>1, FS_CardinalityType
<1>3. Cardinality(A \cup {w}) = Cardinality(A) + 1
  BY <1>1, FS_AddElement
<1> QED BY <1>2, <1>3

LEMMA CountsAreNumbers ==
  ASSUME Delivery
  PROVE  /\ Cardinality(Waiting) \in Nat /\ Cardinality(InFlight) \in Nat
         /\ Cardinality(Counted) \in Nat /\ Cardinality(Unscored) \in Nat
<1>1. /\ InFlight \in SUBSET Worker /\ Counted \in SUBSET Worker
      /\ Unscored \in SUBSET Worker
  BY DEF InFlight, Counted, Unscored
<1>2. IsFiniteSet(InFlight) /\ IsFiniteSet(Counted) /\ IsFiniteSet(Unscored)
  BY <1>1, PipelineAssumption, FS_Subset
<1> QED BY <1>2, FS_CardinalityType DEF Delivery

(* A position in an inbox is a message that waits.                         *)
LEMMA WaitingPositions ==
  ASSUME NEW w \in Worker, NEW i
  PROVE  <<w, i>> \in Waiting <=> i \in DOMAIN inbox[w]
BY DEF Waiting

(* A batch adds as many waiting messages as it holds.                      *)
LEMMA BatchSize ==
  ASSUME NEW w, NEW n \in Nat
  PROVE  IsFiniteSet({w} \X (1..n)) /\ Cardinality({w} \X (1..n)) = n
<1> DEFINE f == [i \in 1..n |-> <<w, i>>]
<1>1. f \in Bijection(1..n, {w} \X (1..n))
  <2>1. f \in [1..n -> {w} \X (1..n)]
    OBVIOUS
  <2>2. \A i, j \in 1..n : f[i] = f[j] => i = j
    OBVIOUS
  <2>3. \A p \in {w} \X (1..n) : \E i \in 1..n : f[i] = p
    OBVIOUS
  <2> HIDE DEF f
  <2> QED BY <2>1, <2>2, <2>3 DEF Bijection, Injection, Surjection, IsInjective
<1>2. ExistsBijection(1..n, {w} \X (1..n))
  BY <1>1 DEF ExistsBijection
<1>3. IsFiniteSet(1..n) /\ Cardinality(1..n) = n
  <2>1. 1 \in Int /\ n \in Int
    OBVIOUS
  <2>2. /\ IsFiniteSet(1..n)
        /\ Cardinality(1..n) = IF 1 > n THEN 0 ELSE n - 1 + 1
    BY <2>1, FS_Interval
  <2> QED BY <2>2
<1> QED BY <1>2, <1>3, FS_Bijection

LEMMA InitDelivery == Init => Delivery
<1> SUFFICES ASSUME Init PROVE Delivery
  OBVIOUS
<1> USE DEF Init, Sink!Init
<1>1. Sink!TypeOK
  BY DEF Sink!TypeOK, Sink!Pcs, Sink!NoTrace
<1>2. Waiting = {}
  <2>1. \A w \in Worker : DOMAIN inbox[w] = {}
    OBVIOUS
  <2> QED BY <2>1 DEF Waiting
<1>3. InFlight = {} /\ Counted = {} /\ Unscored = {}
  BY DEF InFlight, Counted, Unscored, Busy
<1>4. InStep
  BY PipelineAssumption DEF InStep
<1>5. IsFiniteSet({}) /\ Cardinality({}) = 0
  BY FS_EmptySet
<1>6. Balance
  BY <1>2, <1>3, <1>5 DEF Balance
<1> QED BY <1>1, <1>2, <1>4, <1>5, <1>6 DEF Delivery

(* A batch arrives.                                                        *)
LEMMA CaptureKeepsDelivery ==
  ASSUME IInv, Delivery, Sink!TypeOK', NEW w \in Worker, Capture(w)
  PROVE  Delivery'
<1>1. PICK n \in 1..MaxBatch :
        /\ phase[w] = "idle"
        /\ \E batch \in [1..n -> Message] : inbox' = [inbox EXCEPT ![w] = batch]
        /\ phase' = [phase EXCEPT ![w] = "record"]
        /\ captured' = captured + n
        /\ UNCHANGED <<current, delivered, loops, totalMessages, totalLoops, pc, call>>
  BY DEF Capture, sinkVars
<1>2. PICK batch \in [1..n -> Message] : inbox' = [inbox EXCEPT ![w] = batch]
  BY <1>1
<1>3. n \in Nat \ {0} /\ n <= MaxBatch
  BY PipelineAssumption
<1>4. /\ batch \in Seq(Message) /\ Len(batch) = n /\ DOMAIN batch = 1..n
      /\ inbox'[w] = batch /\ \A v \in Worker \ {w} : inbox'[v] = inbox[v]
  BY <1>2, <1>3 DEF IInv, Shape
<1>5. /\ \A v \in Worker \ {w} : phase'[v] = phase[v]
      /\ phase'[w] = "record" /\ pc[w] = "idle"
  BY <1>1 DEF IInv, Shape, Delivery, InStep
<1>6. InFlight' = InFlight /\ Counted' = Counted /\ Unscored' = Unscored
  BY <1>1, <1>5 DEF InFlight, Counted, Unscored, Busy
<1>7. Waiting' = Waiting \cup ({w} \X (1..n)) /\ Waiting \cap ({w} \X (1..n)) = {}
  <2>1. inbox[w] = <<>>
    BY <1>1 DEF Delivery, InStep
  <2>2. DOMAIN inbox[w] = {}
    BY <2>1
  <2> QED BY <1>4, <2>2 DEF Waiting
<1>8. /\ IsFiniteSet(Waiting') /\ Cardinality(Waiting') = Cardinality(Waiting) + n
  <2>1. IsFiniteSet({w} \X (1..n)) /\ Cardinality({w} \X (1..n)) = n
    BY <1>3, BatchSize
  <2>2. IsFiniteSet(Waiting) /\ Cardinality(Waiting) \in Nat
    BY CountsAreNumbers DEF Delivery
  <2>3. /\ IsFiniteSet(Waiting \cup ({w} \X (1..n)))
        /\ Cardinality(Waiting \cup ({w} \X (1..n))) =
             Cardinality(Waiting) + Cardinality({w} \X (1..n))
               - Cardinality(Waiting \cap ({w} \X (1..n)))
    BY <2>1, <2>2, FS_Union
  <2>4. Cardinality(Waiting \cap ({w} \X (1..n))) = 0
    BY <1>7, FS_EmptySet
  <2> QED BY <1>3, <1>7, <2>1, <2>2, <2>3, <2>4
<1>9. InStep'
  BY <1>1, <1>3, <1>4, <1>5 DEF Delivery, InStep
<1>10. Balance'
  BY <1>1, <1>3, <1>6, <1>8, CountsAreNumbers DEF Delivery, Balance
<1>11. captured' \in Nat /\ delivered' \in Nat /\ loops' \in Nat
  BY <1>1, <1>3 DEF Delivery
<1> QED BY <1>8, <1>9, <1>10, <1>11 DEF Delivery

(* One message leaves the inbox and is owed to the listeners.              *)
LEMMA CorrelateKeepsDelivery ==
  ASSUME IInv, Delivery, Sink!TypeOK', NEW w \in Worker, Correlate(w)
  PROVE  Delivery'
<1>1. /\ phase[w] = "record"
      /\ inbox' = [inbox EXCEPT ![w] = Tail(inbox[w])]
      /\ phase' = [phase EXCEPT ![w] = "notify"]
      /\ UNCHANGED <<captured, delivered, totalMessages, totalLoops, pc, call>>
  BY DEF Correlate, Rest, sinkVars
<1>2. PICK looped \in BOOLEAN :
        /\ loops' = IF looped THEN loops + 1 ELSE loops
        /\ \E k, b : current' = [current EXCEPT ![w] =
                                   [key |-> k, born |-> b, looped |-> looped]]
  <2> DEFINE m == Head(inbox[w])
             gone == {evicted'[i] : i \in DOMAIN evicted'}
             looped == DetectedDepth(Without(window, gone, <<>>)[m.key],
                                     Signature(m), stamp[w]) > 0
  <2>1. /\ loops' = IF looped THEN loops + 1 ELSE loops
        /\ current' = [current EXCEPT ![w] =
                         [key |-> m.key, born |-> born'[m.key], looped |-> looped]]
    BY DEF Correlate
  <2>2. looped \in BOOLEAN
    OBVIOUS
  <2> HIDE DEF looped
  <2> QED BY <2>1, <2>2
<1>3. /\ current'[w].looped = looped
      /\ \A v \in Worker \ {w} : current'[v] = current[v]
  BY <1>2 DEF IInv, Shape
<1>4. /\ phase'[w] = "notify" /\ \A v \in Worker \ {w} : phase'[v] = phase[v]
      /\ pc[w] = "idle" /\ w \notin InFlight /\ w \notin Unscored
  BY <1>1 DEF IInv, Shape, Delivery, InStep, InFlight, Unscored, Busy
<1>5. /\ inbox[w] \in Seq(Message) /\ inbox[w] # <<>>
      /\ inbox'[w] = Tail(inbox[w]) /\ \A v \in Worker \ {w} : inbox'[v] = inbox[v]
  BY <1>1 DEF IInv, Shape
<1>6. /\ Len(inbox[w]) \in Nat \ {0} /\ DOMAIN inbox[w] = 1..Len(inbox[w])
      /\ DOMAIN inbox'[w] = 1..(Len(inbox[w]) - 1)
      /\ Len(inbox'[w]) = Len(inbox[w]) - 1
  BY <1>5
<1>7. /\ Waiting' = Waiting \ {<<w, Len(inbox[w])>>}
      /\ <<w, Len(inbox[w])>> \in Waiting
  <2>1. DOMAIN inbox'[w] = DOMAIN inbox[w] \ {Len(inbox[w])}
    BY <1>6
  <2>2. Len(inbox[w]) \in DOMAIN inbox[w]
    BY <1>6
  <2>3. ASSUME NEW p
        PROVE  p \in Waiting' <=> p \in Waiting /\ p # <<w, Len(inbox[w])>>
    <3>1. p \in Waiting' <=> \E v \in Worker : \E i \in DOMAIN inbox'[v] : p = <<v, i>>
      BY DEF Waiting
    <3>2. p \in Waiting <=> \E v \in Worker : \E i \in DOMAIN inbox[v] : p = <<v, i>>
      BY DEF Waiting
    <3>3. \A v \in Worker : \A i :
            i \in DOMAIN inbox'[v] <=>
              i \in DOMAIN inbox[v] /\ <<v, i>> # <<w, Len(inbox[w])>>
      BY <1>5, <2>1
    <3> QED BY <3>1, <3>2, <3>3, Zenon
  <2>4. <<w, Len(inbox[w])>> \in Waiting
    BY <2>2, WaitingPositions
  <2> QED BY <2>3, <2>4
<1>8. /\ IsFiniteSet(Waiting') /\ Cardinality(Waiting') = Cardinality(Waiting) - 1
  BY <1>7, FS_RemoveElement DEF Delivery
<1>9. InFlight' = InFlight \cup {w} /\ Counted' = Counted
  BY <1>1, <1>4 DEF InFlight, Counted, Busy
<1>10. Cardinality(InFlight') = Cardinality(InFlight) + 1
  <2>1. InFlight \in SUBSET Worker
    BY DEF InFlight
  <2> QED BY <1>4, <1>9, <2>1, OneMore
<1>11. Cardinality(Unscored') = Cardinality(Unscored) + (IF looped THEN 1 ELSE 0)
  <2>1. CASE looped
    <3>1. Unscored' = Unscored \cup {w}
      BY <1>1, <1>3, <1>4, <2>1 DEF Unscored
    <3>2. Unscored \in SUBSET Worker
      BY DEF Unscored
    <3> QED BY <1>4, <2>1, <3>1, <3>2, OneMore
  <2>2. CASE ~looped
    <3>1. Unscored' = Unscored
      BY <1>1, <1>3, <1>4, <2>2 DEF Unscored
    <3> QED BY <2>2, <3>1, CountsAreNumbers
  <2> QED BY <2>1, <2>2
<1>12. Balance'
  <2>1. Cardinality(Waiting') + Cardinality(InFlight') =
          Cardinality(Waiting) + Cardinality(InFlight)
    BY <1>8, <1>10, CountsAreNumbers
  <2>2. loops' = totalLoops + Cardinality(Unscored')
    BY <1>2, <1>11, CountsAreNumbers DEF Delivery, Balance, Sink!TypeOK
  <2> QED BY <1>1, <1>9, <2>1, <2>2 DEF Delivery, Balance
<1>13. InStep'
  <2>1. Len(inbox'[w]) <= MaxBatch
    <3>1. Len(inbox[w]) <= MaxBatch
      BY DEF Delivery, InStep
    <3>2. MaxBatch \in Nat
      BY PipelineAssumption
    <3> QED BY <1>6, <3>1, <3>2
  <2>2. \A v \in Worker \ {w} : UNCHANGED <<pc[v], phase[v], call[v], current[v], inbox[v]>>
    BY <1>1, <1>3, <1>4, <1>5
  <2> QED BY <1>1, <1>4, <2>1, <2>2 DEF Delivery, InStep
<1>14. captured' \in Nat /\ delivered' \in Nat /\ loops' \in Nat
  BY <1>1, <1>2 DEF Delivery
<1> QED BY <1>8, <1>12, <1>13, <1>14 DEF Delivery

(* Steps that move no message from one count to another: the evictions and *)
(* the call of OnEvent, whose looped flag is that of the event.            *)
LEMMA NotifyKeepsDelivery ==
  ASSUME IInv, Delivery, Sink!TypeOK', NEW w \in Worker, NotifyEvict(w) \/ NotifyEvent(w)
  PROVE  Delivery'
<1>1. /\ phase[w] = "notify"
      /\ UNCHANGED <<inbox, current, captured, delivered, loops, totalMessages, totalLoops>>
      /\ \/ UNCHANGED <<phase, pc, call>>
         \/ /\ phase' = [phase EXCEPT ![w] = "deliver"]
            /\ pc' = [pc EXCEPT ![w] = "count"]
            /\ call' = [call EXCEPT ![w] =
                          [conv |-> current[w].key, looped |-> current[w].looped]]
  BY DEF NotifyEvict, NotifyEvent, Sink!OnEvict, Sink!OnEvent, Sink!Goto, Sink!counters,
     history
<1>2. /\ pc[w] = "idle" /\ phase \in [Worker -> Phases] /\ DOMAIN call = Worker
      /\ pc \in [Worker -> Sink!Pcs]
  BY <1>1 DEF IInv, Shape, Delivery, InStep, Sink!TypeOK
<1>3. /\ \A v \in Worker \ {w} : UNCHANGED <<phase[v], pc[v], call[v]>>
      /\ \/ UNCHANGED <<phase[w], pc[w], call[w]>>
         \/ /\ phase'[w] = "deliver" /\ pc'[w] = "count"
            /\ call'[w] = [conv |-> current[w].key, looped |-> current[w].looped]
  BY <1>1, <1>2
<1>4. InFlight' = InFlight /\ Counted' = Counted /\ Unscored' = Unscored
  BY <1>1, <1>2, <1>3 DEF InFlight, Counted, Unscored, Busy
<1>5. Waiting' = Waiting
  BY <1>1 DEF Waiting
<1>6. InStep'
  BY <1>1, <1>2, <1>3 DEF Delivery, InStep
<1> QED BY <1>1, <1>4, <1>5, <1>6 DEF Delivery, Balance

(* The steps of OnEvent before the span.                                   *)
LEMMA MeasureKeepsDelivery ==
  ASSUME IInv, Delivery, Sink!TypeOK', NEW w \in Worker, Measure(w)
  PROVE  Delivery'
<1>1. /\ phase[w] = "deliver"
      /\ UNCHANGED <<phase, inbox, current, captured, delivered, loops, call>>
  BY DEF Measure, Sink!Count, Sink!Score, Sink!Publish, recordVars, history
<1>2. /\ pc \in [Worker -> Sink!Pcs]
      /\ call[w].looped = current[w].looped /\ current[w].looped \in BOOLEAN
      /\ totalMessages \in Nat /\ totalLoops \in Nat
  BY <1>1 DEF IInv, Shape, Delivery, InStep, Sink!TypeOK
<1>3. Waiting' = Waiting /\ InFlight' = InFlight
  BY <1>1 DEF Waiting, InFlight, Busy
<1>4. Counted \in SUBSET Worker /\ Unscored' \in SUBSET Worker
  BY DEF Counted, Unscored
<1>5. CASE Sink!Count(w)
  <2>1. /\ pc[w] = "count" /\ pc' = [pc EXCEPT ![w] = "score"]
        /\ totalMessages' = totalMessages + 1 /\ UNCHANGED totalLoops
    BY <1>5 DEF Sink!Count, Sink!Goto
  <2>2. pc'[w] = "score" /\ \A v \in Worker \ {w} : pc'[v] = pc[v]
    BY <1>2, <2>1
  <2>3. w \notin Counted /\ Counted' = Counted \cup {w} /\ Unscored' = Unscored
    BY <1>1, <2>1, <2>2 DEF Counted, Unscored
  <2>4. Cardinality(Counted') = Cardinality(Counted) + 1
    BY <1>4, <2>3, OneMore
  <2>5. Balance'
    BY <1>1, <1>2, <1>3, <2>1, <2>3, <2>4, CountsAreNumbers DEF Delivery, Balance
  <2>6. InStep'
    BY <1>1, <2>1, <2>2 DEF Delivery, InStep
  <2> QED BY <1>1, <1>3, <2>5, <2>6 DEF Delivery
<1>6. CASE Sink!Score(w)
  <2>1. /\ pc[w] = "score" /\ pc' = [pc EXCEPT ![w] = "publish"]
        /\ totalLoops' = IF current[w].looped THEN totalLoops + 1 ELSE totalLoops
        /\ UNCHANGED totalMessages
    BY <1>2, <1>6 DEF Sink!Score, Sink!Goto
  <2>2. pc'[w] = "publish" /\ \A v \in Worker \ {w} : pc'[v] = pc[v]
    BY <1>2, <2>1
  <2>3. Counted' = Counted
    BY <2>1, <2>2 DEF Counted
  <2>4. loops' = totalLoops' + Cardinality(Unscored')
    <3>1. CASE current[w].looped
      <4>1. w \notin Unscored' /\ Unscored = Unscored' \cup {w}
        BY <1>1, <2>1, <2>2, <3>1 DEF Unscored
      <4>2. /\ Cardinality(Unscored) = Cardinality(Unscored') + 1
            /\ Cardinality(Unscored') \in Nat
        BY <1>4, <4>1, OneMore
      <4> QED BY <1>1, <1>2, <2>1, <3>1, <4>2 DEF Delivery, Balance
    <3>2. CASE ~current[w].looped
      <4>1. Unscored' = Unscored
        BY <1>1, <2>1, <2>2, <3>2 DEF Unscored
      <4> QED BY <1>1, <2>1, <3>2, <4>1 DEF Delivery, Balance
    <3> QED BY <3>1, <3>2
  <2>5. Balance'
    BY <1>1, <1>3, <2>1, <2>3, <2>4 DEF Delivery, Balance
  <2>6. InStep'
    BY <1>1, <2>1, <2>2 DEF Delivery, InStep
  <2> QED BY <1>1, <1>3, <2>5, <2>6 DEF Delivery
<1>7. CASE Sink!Publish(w)
  <2>1. /\ pc[w] = "publish" /\ pc' = [pc EXCEPT ![w] = "span"]
        /\ UNCHANGED <<totalMessages, totalLoops>>
    BY <1>7 DEF Sink!Publish, Sink!Goto
  <2>2. pc'[w] = "span" /\ \A v \in Worker \ {w} : pc'[v] = pc[v]
    BY <1>2, <2>1
  <2>3. Counted' = Counted /\ Unscored' = Unscored
    BY <1>1, <2>1, <2>2 DEF Counted, Unscored
  <2>4. InStep'
    BY <1>1, <2>1, <2>2 DEF Delivery, InStep
  <2> QED BY <1>1, <1>3, <2>1, <2>3, <2>4 DEF Delivery, Balance
<1> QED BY <1>5, <1>6, <1>7 DEF Measure

(* OnEvent returns: a message leaves the last two counts at once.          *)
LEMMA TraceKeepsDelivery ==
  ASSUME IInv, Delivery, Sink!TypeOK', NEW w \in Worker, Trace(w)
  PROVE  Delivery'
<1>1. /\ phase[w] = "deliver" /\ pc[w] = "span"
      /\ pc' = [pc EXCEPT ![w] = "idle"] /\ call' = [call EXCEPT ![w] = NoCall]
      /\ current' = [current EXCEPT ![w] = NoEvent]
      /\ \E next \in {"record", "idle"} :
           /\ next = "idle" => inbox[w] = <<>>
           /\ phase' = [phase EXCEPT ![w] = next]
      /\ delivered' = delivered + 1
      /\ UNCHANGED <<inbox, captured, loops, totalMessages, totalLoops>>
  BY DEF Trace, Sink!StartSpan, Sink!Goto, Sink!counters
<1>2. /\ pc'[w] = "idle" /\ phase'[w] \in {"record", "idle"}
      /\ phase'[w] = "idle" => inbox[w] = <<>>
      /\ \A v \in Worker \ {w} : UNCHANGED <<phase[v], pc[v], call[v], current[v]>>
  BY <1>1 DEF IInv, Shape, Delivery, Sink!TypeOK
<1>3. Waiting' = Waiting
  BY <1>1 DEF Waiting
<1>4. /\ w \notin InFlight' /\ InFlight = InFlight' \cup {w}
      /\ w \notin Counted' /\ Counted = Counted' \cup {w}
      /\ Unscored' = Unscored
  BY <1>1, <1>2 DEF InFlight, Counted, Unscored, Busy
<1>5. InFlight' \in SUBSET Worker /\ Counted' \in SUBSET Worker
  BY DEF InFlight, Counted
<1>6. /\ Cardinality(InFlight) = Cardinality(InFlight') + 1
      /\ Cardinality(InFlight') \in Nat
  BY <1>4, <1>5, OneMore
<1>7. /\ Cardinality(Counted) = Cardinality(Counted') + 1
      /\ Cardinality(Counted') \in Nat
  BY <1>4, <1>5, OneMore
<1>8. Balance'
  <2>1. /\ captured = Cardinality(Waiting) + Cardinality(InFlight) + delivered
        /\ totalMessages = delivered + Cardinality(Counted)
        /\ loops = totalLoops + Cardinality(Unscored)
        /\ delivered \in Nat
    BY DEF Delivery, Balance
  <2>2. /\ captured' = Cardinality(Waiting) + Cardinality(InFlight') + delivered'
        /\ totalMessages' = delivered' + Cardinality(Counted')
    BY <1>1, <1>6, <1>7, <2>1, CountsAreNumbers, SMTT(30)
  <2> QED BY <1>1, <1>3, <1>4, <2>1, <2>2 DEF Balance
<1>9. InStep'
  <2>1. \A v \in Worker \ {w} : UNCHANGED <<phase[v], pc[v], call[v], current[v], inbox[v]>>
    BY <1>1, <1>2
  <2>2. Len(inbox'[w]) <= MaxBatch
    BY <1>1 DEF Delivery, InStep
  <2> QED BY <1>1, <1>2, <2>1, <2>2 DEF Delivery, InStep
<1> QED BY <1>1, <1>3, <1>8, <1>9 DEF Delivery

LEMMA NextDelivery == IInv /\ Delivery /\ [Next]_vars => Delivery'
<1> SUFFICES ASSUME IInv, Delivery, [Next]_vars PROVE Delivery'
  OBVIOUS
<1>1. Sink!TypeOK'
  BY StepOfSink, SinkStaysTyped DEF Delivery
<1>2. CASE Tick \/ BoundReached \/ UNCHANGED vars
  <2>1. UNCHANGED <<phase, inbox, current, captured, delivered, loops, totalMessages,
                    totalLoops, pc, call>>
    BY <1>2 DEF Tick, BoundReached, vars, recordVars, history, sinkVars
  <2>2. Waiting' = Waiting /\ InFlight' = InFlight /\ Counted' = Counted /\ Unscored' = Unscored
    BY <2>1 DEF Waiting, InFlight, Counted, Unscored, Busy
  <2> QED BY <1>1, <2>1, <2>2 DEF Delivery, Balance, InStep
<1> QED
  BY <1>1, <1>2, CaptureKeepsDelivery, CorrelateKeepsDelivery, NotifyKeepsDelivery,
     MeasureKeepsDelivery, TraceKeepsDelivery DEF Next, Work

(* Every captured message is waiting, in delivery, or counted and traced,  *)
(* and none twice, for any number of workers and any batches, whatever is  *)
(* evicted in between.                                                     *)
THEOREM NoEventLost == Spec => []EveryEventDelivered
<1>1. Delivery => EveryEventDelivered
  BY DEF Delivery, Balance, EveryEventDelivered, InFlight, Counted, Busy
<1> QED BY <1>1, InitIInv, NextIInv, InitDelivery, NextDelivery, PTL DEF Spec

-----------------------------------------------------------------------------
(* The gauge, as long as no Record overlapped another's notifications: the *)
(* one worker in OnEvent carries in its locals what the counters hold.     *)

Totals == [loops |-> totalLoops, total |-> totalMessages]

Measured ==
  /\ (\A w \in Worker : pc[w] \notin {"score", "publish"}) => spamRatio = Totals
  /\ \A w \in Worker : /\ pc[w] = "score" => local[w].total = totalMessages
                       /\ pc[w] = "publish" => local[w] = Totals

Gauge == serial => Measured

LEMMA NextGauge == IInv /\ Delivery /\ Gauge /\ [Next]_vars => Gauge'
<1> SUFFICES ASSUME IInv, Delivery, Gauge, [Next]_vars, serial' PROVE Measured'
  BY DEF Gauge
<1>1. serial
  <2>1. CASE \E w \in Worker : Correlate(w)
    BY <2>1 DEF Correlate
  <2>2. CASE ~\E w \in Worker : Correlate(w)
    BY <2>2 DEF Next, Work, Tick, Capture, NotifyEvict, NotifyEvent, Measure, Trace,
       BoundReached, vars, history
  <2> QED BY <2>1, <2>2
<1>2. Measured /\ \A v, w \in Worker : phase[v] = "deliver" /\ phase[w] = "deliver" => v = w
  BY <1>1 DEF Gauge, IInv, IndexFollows, Busy
<1>3. /\ pc \in [Worker -> Sink!Pcs] /\ local \in [Worker -> [loops : Nat, total : Nat]]
      /\ \A w \in Worker : pc[w] # "idle" => phase[w] = "deliver"
  BY DEF Delivery, InStep, Sink!TypeOK
<1>4. ASSUME NEW w \in Worker, Measure(w) PROVE Measured'
  <2>1. phase[w] = "deliver" /\ \A v \in Worker \ {w} : pc[v] = "idle"
    BY <1>2, <1>3, <1>4 DEF Measure
  <2>2. CASE Sink!Count(w)
    <3>1. /\ pc' = [pc EXCEPT ![w] = "score"]
          /\ local' = [local EXCEPT ![w].total = totalMessages + 1]
          /\ totalMessages' = totalMessages + 1
      BY <2>2 DEF Sink!Count, Sink!Goto
    <3>2. /\ pc'[w] = "score" /\ local'[w].total = totalMessages'
          /\ \A v \in Worker \ {w} : pc'[v] = "idle"
      BY <1>3, <2>1, <3>1
    <3> QED BY <3>2 DEF Measured
  <2>3. CASE Sink!Score(w)
    <3>1. /\ pc[w] = "score" /\ pc' = [pc EXCEPT ![w] = "publish"]
          /\ local' = [local EXCEPT ![w].loops = totalLoops']
          /\ UNCHANGED totalMessages
      BY <2>3 DEF Sink!Score, Sink!Goto
    <3>2. pc'[w] = "publish" /\ \A v \in Worker \ {w} : pc'[v] = "idle"
      BY <1>3, <2>1, <3>1
    <3>3. local[w].total = totalMessages
      BY <1>2, <3>1 DEF Measured
    <3>4. local'[w] = [loops |-> totalLoops', total |-> totalMessages']
      BY <1>3, <3>1, <3>3
    <3> QED BY <3>2, <3>4 DEF Measured, Totals
  <2>4. CASE Sink!Publish(w)
    <3>1. /\ pc[w] = "publish" /\ pc' = [pc EXCEPT ![w] = "span"]
          /\ spamRatio' = local[w] /\ UNCHANGED <<totalMessages, totalLoops>>
      BY <2>4 DEF Sink!Publish, Sink!Goto
    <3>2. pc'[w] = "span" /\ \A v \in Worker \ {w} : pc'[v] = "idle"
      BY <1>3, <2>1, <3>1
    <3> QED BY <1>2, <3>1, <3>2 DEF Measured, Totals
  <2> QED BY <1>4, <2>2, <2>3, <2>4 DEF Measure
<1>5. ASSUME NEW w \in Worker, NotifyEvent(w) PROVE Measured'
  <2>1. /\ pc[w] = "idle" /\ pc' = [pc EXCEPT ![w] = "count"]
        /\ UNCHANGED <<local, spamRatio, totalMessages, totalLoops>>
    BY <1>5 DEF NotifyEvent, Sink!OnEvent, Sink!Goto, Sink!counters
  <2>2. pc'[w] = "count" /\ \A v \in Worker \ {w} : pc'[v] = pc[v]
    BY <1>3, <2>1
  <2> QED BY <1>2, <2>1, <2>2 DEF Measured, Totals
<1>6. ASSUME NEW w \in Worker, Trace(w) PROVE Measured'
  <2>1. /\ pc[w] = "span" /\ pc' = [pc EXCEPT ![w] = "idle"]
        /\ local' = [local EXCEPT ![w] = [loops |-> 0, total |-> 0]]
        /\ UNCHANGED <<spamRatio, totalMessages, totalLoops>>
    BY <1>6 DEF Trace, Sink!StartSpan, Sink!Goto, Sink!counters
  <2>2. /\ pc'[w] = "idle"
        /\ \A v \in Worker \ {w} : pc'[v] = pc[v] /\ local'[v] = local[v]
    BY <1>3, <2>1
  <2> QED BY <1>2, <2>1, <2>2 DEF Measured, Totals
<1>7. CASE UNCHANGED <<pc, local, spamRatio, totalMessages, totalLoops>>
  BY <1>2, <1>7 DEF Measured, Totals
<1>8. ASSUME NEW w \in Worker, Capture(w) \/ Correlate(w) \/ NotifyEvict(w)
      PROVE  UNCHANGED <<pc, local, spamRatio, totalMessages, totalLoops>>
  BY <1>8 DEF Capture, Correlate, NotifyEvict, Sink!OnEvict, Sink!counters, sinkVars
<1>9. CASE Tick \/ BoundReached \/ UNCHANGED vars
  BY <1>7, <1>9 DEF Tick, BoundReached, vars, sinkVars
<1> QED BY <1>4, <1>5, <1>6, <1>7, <1>8, <1>9 DEF Next, Work

(* Once every Record has returned the counters agree with what was         *)
(* captured and with the loops detected, for any number of workers, and    *)
(* the gauge is their ratio when no Record overlapped another.             *)
THEOREM MetricsAgree == Spec => []MetricsSettle
<1>1. Init => Gauge
  BY DEF Init, Sink!Init, Gauge, Measured, Totals
<1>2. IInv /\ Delivery /\ Gauge => MetricsSettle
  <2> SUFFICES ASSUME IInv, Delivery, Gauge, Quiescent
               PROVE  /\ totalMessages = captured /\ totalLoops = loops
                      /\ serial => spamRatio = Totals
    BY DEF MetricsSettle, Totals
  <2>1. \A w \in Worker : phase[w] = "idle" /\ pc[w] = "idle" /\ inbox[w] = <<>>
    BY DEF Quiescent, Delivery, InStep
  <2>2. InFlight = {} /\ Counted = {} /\ Unscored = {} /\ Waiting = {}
    <3>1. \A w \in Worker : DOMAIN inbox[w] = {}
      BY <2>1
    <3> QED BY <2>1, <3>1 DEF InFlight, Counted, Unscored, Waiting, Busy
  <2>3. Cardinality({}) = 0
    BY FS_EmptySet
  <2>4. totalMessages = captured /\ totalLoops = loops
    BY <2>2, <2>3 DEF Delivery, Balance, Sink!TypeOK
  <2>5. serial => spamRatio = Totals
    BY <2>1 DEF Gauge, Measured
  <2> QED BY <2>4, <2>5
<1> QED
  BY <1>1, <1>2, InitIInv, NextIInv, InitDelivery, NextDelivery, NextGauge, PTL DEF Spec

-----------------------------------------------------------------------------
(* The store's list and map, and what is kept for their conversations.     *)

Distinct(s) == \A i, j \in DOMAIN s : s[i] = s[j] => i = j
Elems(s)    == {s[i] : i \in DOMAIN s}

(* What evictStaleLocked leaves, in the same order.                        *)
LEMMA PrefixKeeps ==
  ASSUME NEW s \in Seq(Key), Distinct(s), NEW m \in 0..Len(s)
  PROVE  /\ SubSeq(s, 1, m) \in Seq(Key) /\ Len(SubSeq(s, 1, m)) = m
         /\ Distinct(SubSeq(s, 1, m))
         /\ Elems(SubSeq(s, 1, m)) = Elems(s) \ {s[i] : i \in (m + 1)..Len(s)}
<1>1. /\ Len(s) \in Nat /\ DOMAIN s = 1..Len(s) /\ m \in Nat
      /\ \A i \in 1..Len(s) : s[i] \in Key
  OBVIOUS
<1>2. /\ SubSeq(s, 1, m) \in Seq(Key) /\ Len(SubSeq(s, 1, m)) = m
      /\ \A i \in 1..m : SubSeq(s, 1, m)[i] = s[i]
  BY <1>1, SubSeqProperties
<1> DEFINE u == SubSeq(s, 1, m)
<1>3. u \in Seq(Key) /\ DOMAIN u = 1..m /\ \A i \in 1..m : u[i] = s[i]
  BY <1>1, <1>2
<1> HIDE DEF u
<1>4. Distinct(u)
  BY <1>1, <1>3 DEF Distinct
<1>5. Elems(u) = Elems(s) \ {s[i] : i \in (m + 1)..Len(s)}
  <2>1. ASSUME NEW i \in 1..m PROVE s[i] \in Elems(s) \ {s[j] : j \in (m + 1)..Len(s)}
    BY <1>1 DEF Distinct, Elems
  <2>2. ASSUME NEW i \in 1..Len(s), s[i] \notin {s[j] : j \in (m + 1)..Len(s)}
        PROVE  i \in 1..m
    BY <1>1, <2>2
  <2> QED BY <1>1, <1>3, <2>1, <2>2 DEF Elems
<1> QED BY <1>2, <1>4, <1>5 DEF u

(* A new conversation goes to the front.                                   *)
LEMMA PushKeeps ==
  ASSUME NEW s \in Seq(Key), Distinct(s), NEW k \in Key, k \notin Elems(s)
  PROVE  LET t == Store!PushFront(k, s)
         IN /\ t \in Seq(Key) /\ Len(t) = Len(s) + 1
            /\ Distinct(t) /\ Elems(t) = Elems(s) \cup {k}
<1> DEFINE t == Store!PushFront(k, s)
<1>1. Len(s) \in Nat /\ DOMAIN s = 1..Len(s)
  OBVIOUS
<1>2. <<k>> \in Seq(Key) /\ Len(<<k>>) = 1 /\ <<k>>[1] = k
  OBVIOUS
<1>3. /\ t \in Seq(Key) /\ Len(t) = Len(s) + 1
      /\ \A i \in 1..(Len(s) + 1) : t[i] = IF i <= 1 THEN k ELSE s[i - 1]
  <2>1. /\ <<k>> \o s \in Seq(Key)
        /\ Len(<<k>> \o s) = Len(<<k>>) + Len(s)
        /\ \A i \in 1..(Len(<<k>>) + Len(s)) :
             (<<k>> \o s)[i] = IF i <= Len(<<k>>) THEN <<k>>[i] ELSE s[i - Len(<<k>>)]
    BY <1>2, ConcatProperties
  <2> QED BY <1>1, <1>2, <2>1 DEF Store!PushFront
<1> HIDE DEF t
<1>4. DOMAIN t = 1..(Len(s) + 1) /\ t[1] = k /\ \A i \in 1..Len(s) : t[i + 1] = s[i]
  BY <1>1, <1>3
<1>5. \A i \in DOMAIN t : i = 1 \/ (i - 1 \in 1..Len(s) /\ t[i] = s[i - 1])
  BY <1>1, <1>3, <1>4
<1>6. Distinct(t)
  <2>1. \A i \in 1..Len(s) : s[i] # k
    BY <1>1 DEF Elems
  <2>2. \A i, j \in 1..Len(s) : s[i] = s[j] => i = j
    BY <1>1 DEF Distinct
  <2> QED BY <1>4, <1>5, <2>1, <2>2 DEF Distinct
<1>7. Elems(t) = Elems(s) \cup {k}
  <2>1. \A i \in DOMAIN t : t[i] \in Elems(s) \cup {k}
    BY <1>1, <1>4, <1>5 DEF Elems
  <2>2. \A i \in 1..Len(s) : s[i] \in Elems(t)
    <3> SUFFICES ASSUME NEW i \in 1..Len(s) PROVE s[i] \in Elems(t)
      OBVIOUS
    <3>1. i + 1 \in DOMAIN t /\ t[i + 1] = s[i]
      BY <1>1, <1>4
    <3> QED BY <3>1 DEF Elems
  <2>3. k \in Elems(t)
    BY <1>1, <1>4 DEF Elems
  <2> QED BY <1>1, <2>1, <2>2, <2>3 DEF Elems
<1> QED BY <1>3, <1>6, <1>7 DEF t

(* A known one moves there.                                                *)
LEMMA MoveKeeps ==
  ASSUME NEW s \in Seq(Key), Distinct(s), NEW p \in 1..Len(s)
  PROVE  LET t == Store!MoveToFront(s, p)
         IN t \in Seq(Key) /\ Len(t) = Len(s) /\ Distinct(t) /\ Elems(t) = Elems(s)
<1> DEFINE from(i) == IF i = 1 THEN p ELSE IF i <= p THEN i - 1 ELSE i
           t == Store!MoveToFront(s, p)
<1>1. /\ Len(s) \in Nat /\ DOMAIN s = 1..Len(s) /\ p \in Nat
      /\ \A i \in 1..Len(s) : s[i] \in Key
  OBVIOUS
<1>2. \A i \in 1..Len(s) : from(i) \in 1..Len(s)
  BY <1>1
<1>3. \A i, j \in 1..Len(s) : from(i) = from(j) => i = j
  BY <1>1
<1>4. \A j \in 1..Len(s) : \E i \in 1..Len(s) : from(i) = j
  <2> SUFFICES ASSUME NEW j \in 1..Len(s) PROVE \E i \in 1..Len(s) : from(i) = j
    OBVIOUS
  <2>1. CASE j = p
    <3>1. 1 \in 1..Len(s) /\ from(1) = j
      BY <1>1, <2>1
    <3> QED BY <3>1
  <2>2. CASE j < p
    <3>1. j + 1 \in 1..Len(s) /\ from(j + 1) = j
      BY <1>1, <2>2
    <3> QED BY <3>1
  <2>3. CASE j > p
    <3>1. from(j) = j
      BY <1>1, <2>3
    <3> QED BY <3>1
  <2> QED BY <1>1, <2>1, <2>2, <2>3
<1>5. t = [i \in 1..Len(s) |-> s[from(i)]]
  <2>1. \A i \in 1..Len(s) : (IF i = 1 THEN s[p] ELSE IF i <= p THEN s[i - 1] ELSE s[i])
                               = s[from(i)]
    OBVIOUS
  <2> QED BY <2>1 DEF Store!MoveToFront
<1> HIDE DEF from, t
<1>6. t \in Seq(Key) /\ Len(t) = Len(s) /\ DOMAIN t = 1..Len(s)
  BY <1>1, <1>2, <1>5
<1>7. \A i \in 1..Len(s) : t[i] = s[from(i)]
  BY <1>5
<1>8. Distinct(t)
  BY <1>1, <1>2, <1>3, <1>6, <1>7 DEF Distinct
<1>9. Elems(t) = Elems(s)
  <2>1. \A i \in 1..Len(s) : t[i] \in Elems(s)
    BY <1>1, <1>2, <1>7 DEF Elems
  <2>2. ASSUME NEW j \in 1..Len(s) PROVE s[j] \in Elems(t)
    <3>1. PICK i \in 1..Len(s) : from(i) = j
      BY <1>4
    <3>2. t[i] = s[j]
      BY <1>7, <3>1
    <3> QED BY <1>6, <3>2 DEF Elems
  <2> QED BY <1>1, <1>6, <2>1, <2>2 DEF Elems
<1> QED BY <1>6, <1>8, <1>9 DEF t

StoreInv == Store!TypeOK /\ Store!ListMatchesMap /\ Store!Bounded

(* The critical section keeps list and map in step and within capacity.    *)
LEMMA RecordKeepsStore ==
  ASSUME Shape, StoreInv, NEW k \in Key, NEW now \in Nat \ {0}, Store!Record(k, now)
  PROVE  StoreInv'
<1>1. /\ Len(lru) \in Nat /\ lru \in Seq(Key) /\ Distinct(lru) /\ lmap = Elems(lru)
      /\ Len(lru) <= MaxConversations /\ MaxConversations \in Nat
  BY PipelineAssumption
  DEF StoreInv, Store!TypeOK, Store!ListMatchesMap, Store!Bounded, Distinct, Elems
<1>2. PICK n \in 0..Len(lru) :
        \/ Store!Found(k, now, n) \/ Store!Created(k, now, n) \/ Store!CreatedEvicting(k, now, n)
  BY DEF Store!Record
<1> DEFINE kept(m) == SubSeq(lru, 1, m)
<1>3. \A m \in 0..Len(lru) : /\ kept(m) \in Seq(Key) /\ Len(kept(m)) = m
                             /\ Distinct(kept(m))
                             /\ Elems(kept(m)) = lmap \ Store!PoppedKeys(m)
  BY <1>1, PrefixKeeps DEF Store!PoppedKeys
<1>4. \E m \in 0..Len(lru) :
        /\ Store!Touch(k, now, m)
        /\ lru' \in Seq(Key) /\ Len(lru') <= MaxConversations
        /\ Distinct(lru') /\ Elems(lru') = (lmap \ Store!PoppedKeys(m)) \cup {k}
  <2>1. CASE Store!Found(k, now, n)
    <3>1. PICK p \in 1..n : lru' = Store!MoveToFront(kept(n), p)
      BY <2>1 DEF Store!Found
    <3>2. k \in lmap \ Store!PoppedKeys(n) /\ Store!Touch(k, now, n)
      BY <2>1 DEF Store!Found
    <3>3. kept(n) \in Seq(Key) /\ Len(kept(n)) = n /\ Distinct(kept(n))
      BY <1>3
    <3>4. Elems(kept(n)) = lmap \ Store!PoppedKeys(n)
      BY <1>3
    <3> HIDE DEF kept
    <3>5. /\ lru' \in Seq(Key) /\ Len(lru') = n
          /\ Distinct(lru') /\ Elems(lru') = Elems(kept(n))
      BY <3>1, <3>3, MoveKeeps
    <3> QED BY <1>1, <3>2, <3>4, <3>5
  <2>2. ASSUME NEW m \in 0..n, k \notin lmap \ Store!PoppedKeys(n), m < MaxConversations,
               lru' = Store!PushFront(k, kept(m)), Store!Touch(k, now, m)
        PROVE  /\ lru' \in Seq(Key) /\ Len(lru') <= MaxConversations
               /\ Distinct(lru') /\ Elems(lru') = (lmap \ Store!PoppedKeys(m)) \cup {k}
    <3>1. m \in 0..Len(lru)
      BY <1>1
    <3>2. kept(m) \in Seq(Key) /\ Len(kept(m)) = m /\ Distinct(kept(m))
      BY <1>3, <3>1
    <3>3. Elems(kept(m)) = lmap \ Store!PoppedKeys(m)
      BY <1>3, <3>1
    <3>4. Store!PoppedKeys(n) \subseteq Store!PoppedKeys(m)
      BY <1>1, <3>1 DEF Store!PoppedKeys
    <3>5. k \notin Elems(kept(m))
      BY <2>2, <3>3, <3>4
    <3> HIDE DEF kept
    <3>6. /\ lru' \in Seq(Key) /\ Len(lru') = Len(kept(m)) + 1
          /\ Distinct(lru') /\ Elems(lru') = Elems(kept(m)) \cup {k}
      BY <2>2, <3>2, <3>5, PushKeeps
    <3> QED BY <1>1, <2>2, <3>1, <3>2, <3>3, <3>6
  <2>3. CASE Store!Created(k, now, n)
    BY <2>2, <2>3 DEF Store!Created
  <2>4. CASE Store!CreatedEvicting(k, now, n)
    <3>1. /\ n - 1 \in 0..n /\ n - 1 \in 0..Len(lru) /\ n - 1 < MaxConversations
      BY <1>1, <2>4, PipelineAssumption DEF Store!CreatedEvicting
    <3> QED BY <2>2, <2>4, <3>1 DEF Store!CreatedEvicting
  <2> QED BY <1>2, <2>1, <2>3, <2>4
<1> HIDE DEF kept
<1>5. PICK m \in 0..Len(lru) :
        /\ Store!Touch(k, now, m)
        /\ lru' \in Seq(Key) /\ Len(lru') <= MaxConversations
        /\ Distinct(lru') /\ Elems(lru') = (lmap \ Store!PoppedKeys(m)) \cup {k}
  BY <1>4
<1>6. lmap' = Elems(lru') /\ lmap' \in SUBSET Key
  <2>1. lmap \in SUBSET Key
    BY DEF Shape
  <2> QED BY <1>5, <2>1 DEF Store!Touch
<1>7. lastSeen' \in [Key -> Nat] /\ \A x \in Key : lastSeen'[x] # 0 <=> x \in lmap'
  BY <1>5 DEF Store!Touch, StoreInv, Store!TypeOK, Store!ListMatchesMap
<1>8. evicted' \in Seq(Key)
  BY RecordSets
<1>9. newest' \in Nat
  BY <1>5 DEF Store!Touch, StoreInv, Store!TypeOK
<1> QED
  BY <1>5, <1>6, <1>7, <1>8, <1>9
  DEF StoreInv, Store!TypeOK, Store!ListMatchesMap, Store!Bounded, Distinct, Elems

(* A slice with a length.                                                  *)
Sized(s) == Len(s) \in Nat /\ DOMAIN s = 1..Len(s)

(* However much of a window has expired, it holds the new message and no   *)
(* more than its capacity.                                                 *)
LEMMA WindowSize ==
  ASSUME NEW u, Sized(u), NEW sig, NEW now
  PROVE  /\ Sized(WindowAfter(u, sig, now))
         /\ Len(WindowAfter(u, sig, now)) \in 1..LoopWindowSize
<1> DEFINE K == {i \in DOMAIN u : u[i].seenAt > now - LoopEntryTTL}
           c == Cardinality(K)
           kept == Keep(u, K)
           e == [sig |-> sig, seenAt |-> now]
           S == {kept[n] : n \in 1..c} \cup {e}
           w == Append(kept, e)
<1>1. c \in Nat
  <2>1. 1 \in Int /\ Len(u) \in Int
    BY DEF Sized
  <2>2. IsFiniteSet(1..Len(u))
    BY <2>1, FS_Interval
  <2>3. K \in SUBSET (1..Len(u))
    BY DEF Sized
  <2>4. IsFiniteSet(K)
    BY <2>2, <2>3, FS_Subset
  <2> QED BY <2>4, FS_CardinalityType
<1>2. kept = [n \in 1..c |-> u[Nth(K, n)]]
  BY DEF Keep
<1>3. WindowAfter(u, sig, now) = Slide(kept, e)
  BY DEF WindowAfter, Unexpired
<1> HIDE DEF K, c
<1>4. kept \in Seq(S) /\ Len(kept) = c
  <2>1. \A n \in 1..c : kept[n] \in S
    OBVIOUS
  <2>2. kept \in [1..c -> S]
    BY <1>2, <2>1
  <2> QED BY <1>1, <2>2
<1>5. e \in S
  OBVIOUS
<1> HIDE DEF kept, e, S
<1>6. w \in Seq(S) /\ Len(w) = c + 1
  BY <1>4, <1>5
<1> DEFINE a == Len(w) - LoopWindowSize + 1
           d == IF a > 1 THEN a ELSE 1
<1>7. a \in Int /\ LoopWindowSize \in Nat \ {0}
  BY <1>1, <1>6, LoopWindowAssumption
<1>8. Max({1, a}) = d
  <2>1. d \in {1, a} /\ \A x \in {1, a} : d >= x
    BY <1>7
  <2>2. Max({1, a}) \in {1, a} /\ \A x \in {1, a} : Max({1, a}) >= x
    BY <2>1 DEF Max
  <2> QED BY <1>7, <2>1, <2>2
<1>9. Slide(kept, e) = SubSeq(w, d, c + 1)
  BY <1>6, <1>8 DEF Slide
<1>10. d \in 1..(c + 1) /\ (c + 1) - d + 1 \in 1..LoopWindowSize
  BY <1>1, <1>6, <1>7
<1> HIDE DEF w, d, a
<1>11. \A i \in d..(c + 1) : w[i] \in S
  BY <1>1, <1>6, <1>10, ElementOfSeq
<1>12. SubSeq(w, d, c + 1) \in Seq(S) /\ Len(SubSeq(w, d, c + 1)) = (c + 1) - d + 1
  BY <1>1, <1>10, <1>11, SubSeqProperties
<1>13. Sized(SubSeq(w, d, c + 1))
  BY <1>12, LenProperties DEF Sized
<1> QED BY <1>3, <1>9, <1>10, <1>12, <1>13

(* What is kept for the conversations, and only for them.                  *)
Kept ==
  \A k \in Key :
    /\ Sized(window[k]) /\ Len(window[k]) <= LoopWindowSize
    /\ window[k] # <<>> <=> k \in lmap
    /\ events[k] \in Nat
    /\ events[k] > 0 <=> k \in lmap

LEMMA CorrelateKeepsStore ==
  ASSUME IInv, Clocked, StoreInv, Kept, NEW w \in Worker, Correlate(w)
  PROVE  StoreInv' /\ Kept'
<1> DEFINE k == Head(inbox[w]).key
           gone == {evicted'[i] : i \in DOMAIN evicted'}
           past == Without(window, gone, <<>>)
           before == Without(events, gone, 0)
<1>1. /\ phase[w] = "record" /\ Store!Record(k, stamp[w])
      /\ window' = [past EXCEPT ![k] =
                      WindowAfter(past[k], Signature(Head(inbox[w])), stamp[w])]
      /\ events' = [before EXCEPT ![k] = before[k] + 1]
  BY DEF Correlate
<1>2. k \in Key
  BY <1>1, PipelineAssumption DEF IInv, Shape
<1>3. stamp[w] \in Nat \ {0}
  BY <1>1 DEF Clocked
<1>4. StoreInv'
  BY <1>1, <1>2, <1>3, RecordKeepsStore DEF IInv
<1>5. lmap' = (lmap \ gone) \cup {k}
  BY <1>1, <1>2, RecordSets DEF IInv
<1> HIDE DEF k, gone
<1>6. /\ DOMAIN past = Key /\ DOMAIN before = Key
      /\ \A x \in Key : /\ past[x] = IF x \in gone THEN <<>> ELSE window[x]
                        /\ before[x] = IF x \in gone THEN 0 ELSE events[x]
  BY DEF Without
<1> HIDE DEF past, before
<1>7. Sized(<<>>) /\ Len(<<>>) = 0 /\ LoopWindowSize \in Nat
  BY LoopWindowAssumption DEF Sized
<1>8. \A x \in Key : /\ Sized(past[x]) /\ Len(past[x]) <= LoopWindowSize
                     /\ past[x] # <<>> <=> x \in lmap \ gone
                     /\ before[x] \in Nat
                     /\ before[x] > 0 <=> x \in lmap \ gone
  BY <1>6, <1>7 DEF Kept
<1>9. /\ Sized(window'[k]) /\ Len(window'[k]) \in 1..LoopWindowSize
      /\ window'[k] # <<>>
  <2>1. window'[k] = WindowAfter(past[k], Signature(Head(inbox[w])), stamp[w])
    BY <1>1, <1>2, <1>6
  <2>2. Sized(window'[k]) /\ Len(window'[k]) \in 1..LoopWindowSize
    BY <1>2, <1>8, <2>1, WindowSize
  <2> QED BY <1>7, <2>2
<1>10. \A x \in Key \ {k} : window'[x] = past[x] /\ events'[x] = before[x]
  BY <1>1, <1>6
<1>11. events'[k] = before[k] + 1
  BY <1>1, <1>2, <1>6
<1>12. Kept'
  <2> SUFFICES ASSUME NEW x \in Key
               PROVE  /\ Sized(window'[x]) /\ Len(window'[x]) <= LoopWindowSize
                      /\ window'[x] # <<>> <=> x \in lmap'
                      /\ events'[x] \in Nat
                      /\ events'[x] > 0 <=> x \in lmap'
    BY DEF Kept
  <2>1. CASE x = k
    BY <1>2, <1>5, <1>7, <1>8, <1>9, <1>11, <2>1
  <2>2. CASE x # k
    BY <1>5, <1>8, <1>10, <2>2
  <2> QED BY <2>1, <2>2
<1> QED BY <1>4, <1>12

LEMMA NextStore ==
  IInv /\ Clocked /\ StoreInv /\ Kept /\ [Next]_vars => StoreInv' /\ Kept'
<1> SUFFICES ASSUME IInv, Clocked, StoreInv, Kept, [Next]_vars PROVE StoreInv' /\ Kept'
  OBVIOUS
<1>1. CASE \E w \in Worker : Correlate(w)
  BY <1>1, CorrelateKeepsStore
<1>2. CASE ~\E w \in Worker : Correlate(w)
  <2>1. UNCHANGED <<lru, lmap, lastSeen, evicted, newest, window, events>>
    BY <1>2 DEF Next, Work, Tick, Capture, NotifyEvict, NotifyEvent, Measure, Trace,
       BoundReached, vars, storeVars, convVars
  <2> QED BY <2>1 DEF StoreInv, Store!TypeOK, Store!ListMatchesMap, Store!Bounded, Kept, Sized
<1> QED BY <1>1, <1>2

LEMMA InitStore == Init => Clocked /\ StoreInv /\ Kept
<1> SUFFICES ASSUME Init PROVE Clocked /\ StoreInv /\ Kept
  OBVIOUS
<1> USE PipelineAssumption DEF Init, Store!Init
<1>1. Clocked
  BY DEF Clocked
<1>2. StoreInv
  BY DEF StoreInv, Store!TypeOK, Store!ListMatchesMap, Store!Bounded
<1>3. Kept
  BY LoopWindowAssumption DEF Kept, Sized
<1> QED BY <1>1, <1>2, <1>3

(* List and map of the store agree, its capacity holds, and windows and    *)
(* events are kept for exactly the live conversations, for any number of   *)
(* workers and every window size.                                          *)
THEOREM StoreStaysConsistent == Spec => []StoreConsistent
<1>1. StoreInv /\ Kept => StoreConsistent
  BY DEF StoreInv, Kept, StoreConsistent
<1> QED
  BY <1>1, InitIInv, NextIInv, InitStore, NextClocked, NextStore, PTL DEF Spec

(* The whole pipeline is well typed: no exchange is stamped with a time    *)
(* that has not come, and no batch outgrows its bound.                     *)
THEOREM PipelineTyped == Spec => []TypeOK
<1>1. IInv /\ Clocked /\ StoreInv /\ Delivery => TypeOK
  <2> SUFFICES ASSUME IInv, Clocked, StoreInv, Delivery PROVE TypeOK
    OBVIOUS
  <2>1. \A w \in Worker : stamp[w] <= clock
    BY DEF Clocked
  <2> QED BY <2>1 DEF TypeOK, IInv, Shape, Phases, Clocked, StoreInv, Delivery, InStep
<1> QED
  BY <1>1, InitIInv, NextIInv, InitStore, NextClocked, NextStore, InitDelivery,
     NextDelivery, PTL DEF Spec

=============================================================================

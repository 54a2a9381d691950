------------------------ MODULE TelemetrySinkProofs ------------------------
(***************************************************************************)
(* The safety of the telemetry sink, for every finite set of threads and   *)
(* every set of conversations, and any number of events and evictions.     *)
(***************************************************************************)
EXTENDS TelemetrySink, FiniteSetTheorems, TLAPS

(***************************************************************************)
(* Traces. The index holds the trace of a conversation exactly when a span *)
(* was started since its last eviction: a span of the present epoch is     *)
(* what the index says, and an indexed trace has such a span.              *)
(***************************************************************************)
SpansPast ==
  \A s \in spans : /\ s.trace \in 1..traces
                   /\ s.epoch <= epoch[s.conv]
                   /\ s.epoch = epoch[s.conv] => index[s.conv] = s.trace

IndexedSpans ==
  \A c \in Conv : index[c] # NoTrace =>
    [conv |-> c, epoch |-> epoch[c], trace |-> index[c]] \in spans

TInv == TypeOK /\ SpansPast /\ IndexedSpans /\ OneTracePerEpoch

(***************************************************************************)
(* Types                                                                   *)
(***************************************************************************)

LEMMA InitTypeOK == Init => TypeOK
  BY DEF Init, TypeOK, Pcs, NoTrace

LEMMA StepTypeOK == TypeOK /\ [Next]_vars => TypeOK'
<1> SUFFICES ASSUME TypeOK, [Next]_vars PROVE TypeOK'
  OBVIOUS
<1> USE DEF TypeOK, Pcs, NoTrace
<1>1. ASSUME NEW t \in Thread, NEW c \in Calls, OnEvent(t, c) PROVE TypeOK'
  BY <1>1 DEF OnEvent, Goto, counters, tracing
<1>2. ASSUME NEW t \in Thread, Count(t) PROVE TypeOK'
  BY <1>2 DEF Count, Goto, tracing
<1>3. ASSUME NEW t \in Thread, Score(t) PROVE TypeOK'
  BY <1>3 DEF Score, Goto, tracing
<1>4. ASSUME NEW t \in Thread, Publish(t) PROVE TypeOK'
  BY <1>4 DEF Publish, Goto, tracing
<1>5. ASSUME NEW t \in Thread, StartSpan(t) PROVE TypeOK'
  <2>1. call[t] \in Calls /\ call[t].conv \in Conv
    BY <1>5 DEF StartSpan, Goto, Calls
  <2>2. TraceFor(call[t].conv) \in Nat
    BY <2>1 DEF TraceFor
  <2> QED
    BY <1>5, <2>1, <2>2 DEF StartSpan, Goto, Reserve, counters
<1>6. ASSUME NEW c \in Conv, OnEvict(c) PROVE TypeOK'
  BY <1>6 DEF OnEvict, counters
<1>7. CASE UNCHANGED vars
  BY <1>7 DEF vars
<1> QED
  BY <1>1, <1>2, <1>3, <1>4, <1>5, <1>6, <1>7 DEF Next

(***************************************************************************)
(* Traces                                                                  *)
(***************************************************************************)

LEMMA ReserveKeepsTInv ==
  ASSUME TInv, TypeOK', NEW c \in Conv, Reserve(c), UNCHANGED epoch
  PROVE  TInv'
<1> USE DEF TInv, NoTrace
<1> DEFINE new == [conv |-> c, epoch |-> epoch[c], trace |-> TraceFor(c)]
<1>1. /\ index \in [Conv -> Nat] /\ traces \in Nat /\ epoch \in [Conv -> Nat]
      /\ spans \in SUBSET [conv : Conv, epoch : Nat, trace : Nat]
  BY DEF TypeOK
<1>2. spans' = spans \cup {new} /\ index' = [index EXCEPT ![c] = TraceFor(c)]
  BY DEF Reserve
<1>3. CASE index[c] # NoTrace
  <2>1. TraceFor(c) = index[c] /\ traces' = traces
    BY <1>3 DEF TraceFor, Reserve
  <2>2. index' = index
    BY <1>1, <1>2, <2>1
  <2>3. new \in spans
    BY <1>3, <2>1 DEF IndexedSpans
  <2>4. spans' = spans
    BY <1>2, <2>3
  <2> QED
    BY <2>1, <2>2, <2>4 DEF SpansPast, IndexedSpans, OneTracePerEpoch
<1>4. CASE index[c] = NoTrace
  <2>1. TraceFor(c) = traces + 1 /\ traces' = traces + 1
    BY <1>4 DEF TraceFor, Reserve
  <2>2. index'[c] = traces + 1 /\ \A d \in Conv \ {c} : index'[d] = index[d]
    BY <1>1, <1>2, <2>1
  <2>3. \A s \in spans : ~(s.conv = c /\ s.epoch = epoch[c]) /\ s.trace # traces + 1
    BY <1>1, <1>4 DEF SpansPast
  <2>4. /\ new.conv = c /\ new.epoch = epoch[c] /\ new.trace = traces + 1
    BY <2>1
  <2>5. SpansPast'
    <3> SUFFICES ASSUME NEW s \in spans'
                 PROVE  /\ s.trace \in 1..traces'
                        /\ s.epoch <= epoch[s.conv]
                        /\ s.epoch = epoch[s.conv] => index'[s.conv] = s.trace
      BY DEF SpansPast
    <3>1. CASE s \in spans
      <4>1. /\ s.trace \in 1..traces
            /\ s.epoch <= epoch[s.conv]
            /\ s.epoch = epoch[s.conv] => index[s.conv] = s.trace
            /\ s.conv \in Conv
        BY <1>1, <3>1 DEF SpansPast
      <4>2. s.epoch = epoch[s.conv] => s.conv # c
        BY <2>3, <3>1
      <4> QED
        BY <1>1, <2>1, <2>2, <4>1, <4>2
    <3>2. CASE s = new
      BY <1>1, <2>1, <2>2, <2>4, <3>2
    <3> QED
      BY <1>2, <3>1, <3>2
  <2>6. IndexedSpans'
    <3> SUFFICES ASSUME NEW d \in Conv, index'[d] # NoTrace
                 PROVE  [conv |-> d, epoch |-> epoch[d], trace |-> index'[d]] \in spans'
      BY DEF IndexedSpans
    <3>1. CASE d = c
      BY <1>2, <2>1, <2>2, <3>1
    <3>2. CASE d # c
      BY <1>2, <2>2, <3>2 DEF IndexedSpans
    <3> QED
      BY <3>1, <3>2
  <2>7. OneTracePerEpoch'
    <3> HIDE DEF new
    <3> SUFFICES ASSUME NEW s \in spans \cup {new}, NEW u \in spans \cup {new}
                 PROVE  s.trace = u.trace <=> (s.conv = u.conv /\ s.epoch = u.epoch)
      BY <1>2 DEF OneTracePerEpoch
    <3>1. CASE s \in spans /\ u \in spans
      BY <3>1 DEF OneTracePerEpoch
    <3>2. CASE s \in spans /\ u = new
      BY <2>3, <2>4, <3>2
    <3>3. CASE s = new /\ u \in spans
      BY <2>3, <2>4, <3>3
    <3>4. CASE s = new /\ u = new
      BY <3>4
    <3> QED
      BY <3>1, <3>2, <3>3, <3>4
  <2> QED
    BY <2>5, <2>6, <2>7
<1> QED
  BY <1>3, <1>4

LEMMA OnEvictKeepsTInv ==
  ASSUME TInv, TypeOK', NEW c \in Conv, OnEvict(c)
  PROVE  TInv'
<1> USE DEF TInv, NoTrace
<1>1. /\ index \in [Conv -> Nat] /\ traces \in Nat /\ epoch \in [Conv -> Nat]
      /\ spans \in SUBSET [conv : Conv, epoch : Nat, trace : Nat]
  BY DEF TypeOK
<1>2. /\ index'[c] = 0 /\ epoch'[c] = epoch[c] + 1
      /\ \A d \in Conv \ {c} : index'[d] = index[d] /\ epoch'[d] = epoch[d]
      /\ spans' = spans /\ traces' = traces
  BY <1>1 DEF OnEvict
<1>3. SpansPast'
  <2> SUFFICES ASSUME NEW s \in spans
               PROVE  /\ s.trace \in 1..traces
                      /\ s.epoch <= epoch'[s.conv]
                      /\ s.epoch = epoch'[s.conv] => index'[s.conv] = s.trace
    BY <1>2 DEF SpansPast
  <2>1. /\ s.conv \in Conv /\ s.epoch \in Nat /\ epoch[s.conv] \in Nat
        /\ s.trace \in 1..traces
        /\ s.epoch <= epoch[s.conv]
        /\ s.epoch = epoch[s.conv] => index[s.conv] = s.trace
    BY <1>1 DEF SpansPast
  <2>2. CASE s.conv = c
    BY <1>2, <2>1, <2>2
  <2>3. CASE s.conv # c
    BY <1>2, <2>1, <2>3
  <2> QED
    BY <2>2, <2>3
<1>4. IndexedSpans'
  BY <1>2 DEF IndexedSpans
<1>5. OneTracePerEpoch'
  BY <1>2 DEF OneTracePerEpoch
<1> QED
  BY <1>3, <1>4, <1>5

LEMMA NextKeepsTInv == TInv /\ [Next]_vars => TInv'
<1> SUFFICES ASSUME TInv, [Next]_vars PROVE TInv'
  OBVIOUS
<1>1. TypeOK'
  BY StepTypeOK DEF TInv
<1>2. CASE UNCHANGED tracing
  BY <1>1, <1>2 DEF tracing, TInv, SpansPast, IndexedSpans, OneTracePerEpoch
<1>3. ASSUME NEW t \in Thread, StartSpan(t) PROVE TInv'
  <2>1. call[t] \in Calls
    BY <1>3 DEF TInv, TypeOK, StartSpan, Goto
  <2>2. call[t].conv \in Conv
    BY <2>1 DEF Calls
  <2>3. Reserve(call[t].conv) /\ UNCHANGED epoch
    BY <1>3 DEF StartSpan
  <2> QED
    BY <1>1, <2>2, <2>3, ReserveKeepsTInv
<1>4. ASSUME NEW c \in Conv, OnEvict(c) PROVE TInv'
  BY <1>1, <1>4, OnEvictKeepsTInv
<1>5. ASSUME NEW t \in Thread,
             (\E c \in Calls : OnEvent(t, c)) \/ Count(t) \/ Score(t) \/ Publish(t)
      PROVE  UNCHANGED tracing
  BY <1>5 DEF OnEvent, Count, Score, Publish
<1>6. CASE UNCHANGED vars
  BY <1>2, <1>6 DEF vars, tracing
<1> QED
  BY <1>2, <1>3, <1>4, <1>5, <1>6 DEF Next

(***************************************************************************)
(* However many threads deliver events of one conversation at once, their  *)
(* spans share one trace until the conversation is evicted, and no other   *)
(* span is ever in it.                                                     *)
(***************************************************************************)
THEOREM TracesFollowEpochs == Spec => [](TypeOK /\ OneTracePerEpoch)
<1>1. Init => TInv
  BY InitTypeOK DEF Init, TInv, SpansPast, IndexedSpans, OneTracePerEpoch, NoTrace
<1>2. TInv => TypeOK /\ OneTracePerEpoch
  BY DEF TInv
<1> QED
  BY <1>1, <1>2, NextKeepsTInv, PTL DEF Spec

(***************************************************************************)
(* Counters                                                                *)
(***************************************************************************)

(* The looped events between the two counters.                             *)
Unscored == {t \in Thread : pc[t] = "score" /\ call[t].looped}

LEMMA UnscoredFinite ==
  /\ IsFiniteSet(Unscored) /\ Cardinality(Unscored) \in Nat
  /\ IsFiniteSet(Unscored') /\ Cardinality(Unscored') \in Nat
<1>1. Unscored \subseteq Thread /\ Unscored' \subseteq Thread
  BY DEF Unscored
<1> QED
  BY <1>1, SinkAssumption, FS_Subset, FS_CardinalityType

LEMMA NextKeepsLoopsWithinMessages ==
  TypeOK /\ LoopsWithinMessages /\ [Next]_vars => LoopsWithinMessages'
<1> SUFFICES ASSUME TypeOK, LoopsWithinMessages, [Next]_vars
             PROVE  LoopsWithinMessages'
  OBVIOUS
<1> USE UnscoredFinite
<1>1. /\ totalLoops \in Nat /\ totalMessages \in Nat
      /\ pc \in [Thread -> Pcs] /\ call \in [Thread -> Calls \cup {NoCall}]
  BY DEF TypeOK
<1>2. totalLoops + Cardinality(Unscored) <= totalMessages
  BY DEF LoopsWithinMessages, Unscored
<1>3. SUFFICES totalLoops' + Cardinality(Unscored') <= totalMessages'
  BY DEF LoopsWithinMessages, Unscored
<1>4. ASSUME Unscored' = Unscored, UNCHANGED <<totalLoops, totalMessages>>
      PROVE  totalLoops' + Cardinality(Unscored') <= totalMessages'
  BY <1>2, <1>4
<1>5. ASSUME NEW t \in Thread, NEW c \in Calls, OnEvent(t, c)
      PROVE  totalLoops' + Cardinality(Unscored') <= totalMessages'
  <2>1. Unscored' = Unscored
    BY <1>1, <1>5 DEF OnEvent, Goto, Unscored
  <2> QED
    BY <1>4, <1>5, <2>1 DEF OnEvent, counters
<1>6. ASSUME NEW t \in Thread, Count(t)
      PROVE  totalLoops' + Cardinality(Unscored') <= totalMessages'
  <2>1. Unscored' \subseteq Unscored \cup {t}
    BY <1>1, <1>6 DEF Count, Goto, Unscored
  <2>2. /\ IsFiniteSet(Unscored \cup {t})
        /\ Cardinality(Unscored \cup {t}) =
             IF t \in Unscored THEN Cardinality(Unscored) ELSE Cardinality(Unscored) + 1
    BY FS_AddElement
  <2>3. Cardinality(Unscored') <= Cardinality(Unscored \cup {t})
    BY <2>1, <2>2, FS_Subset
  <2>4. Cardinality(Unscored \cup {t}) \in Nat
    BY <2>2, FS_CardinalityType
  <2> QED
    BY <1>1, <1>2, <1>6, <2>2, <2>3, <2>4 DEF Count
<1>7. ASSUME NEW t \in Thread, Score(t)
      PROVE  totalLoops' + Cardinality(Unscored') <= totalMessages'
  <2>1. Unscored' = Unscored \ {t}
    BY <1>1, <1>7 DEF Score, Goto, Unscored
  <2>2. Cardinality(Unscored') =
          IF t \in Unscored THEN Cardinality(Unscored) - 1 ELSE Cardinality(Unscored)
    BY <2>1, FS_RemoveElement
  <2>3. t \in Unscored <=> call[t].looped
    BY <1>7 DEF Score, Goto, Unscored
  <2> QED
    BY <1>1, <1>2, <1>7, <2>2, <2>3 DEF Score
<1>8. ASSUME NEW t \in Thread, Publish(t)
      PROVE  totalLoops' + Cardinality(Unscored') <= totalMessages'
  <2>1. Unscored' = Unscored
    BY <1>1, <1>8 DEF Publish, Goto, Unscored
  <2> QED
    BY <1>4, <1>8, <2>1 DEF Publish
<1>9. ASSUME NEW t \in Thread, StartSpan(t)
      PROVE  totalLoops' + Cardinality(Unscored') <= totalMessages'
  <2>1. Unscored' = Unscored
    BY <1>1, <1>9 DEF StartSpan, Goto, Unscored
  <2> QED
    BY <1>4, <1>9, <2>1 DEF StartSpan, counters
<1>10. ASSUME NEW c \in Conv, OnEvict(c)
       PROVE  totalLoops' + Cardinality(Unscored') <= totalMessages'
  <2>1. Unscored' = Unscored
    BY <1>10 DEF OnEvict, Unscored
  <2> QED
    BY <1>4, <1>10, <2>1 DEF OnEvict, counters
<1>11. CASE UNCHANGED vars
  <2>1. Unscored' = Unscored
    BY <1>11 DEF vars, Unscored
  <2> QED
    BY <1>4, <1>11, <2>1 DEF vars
<1> QED
  BY <1>5, <1>6, <1>7, <1>8, <1>9, <1>10, <1>11 DEF Next

(***************************************************************************)
(* At no moment have more loops than messages been counted, whatever the   *)
(* order in which the threads pass the two counters.                       *)
(***************************************************************************)
THEOREM CountersOrdered == Spec => []LoopsWithinMessages
<1>1. Init => LoopsWithinMessages
  <2> SUFFICES ASSUME Init PROVE LoopsWithinMessages
    OBVIOUS
  <2>1. Unscored = {}
    BY DEF Init, Unscored
  <2> QED
    BY <2>1, FS_EmptySet DEF Init, LoopsWithinMessages, Unscored
<1> QED
  BY <1>1, InitTypeOK, StepTypeOK, NextKeepsLoopsWithinMessages, PTL DEF Spec
=============================================================================

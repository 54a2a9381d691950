------------------------- MODULE ProxyServerProofs -------------------------
(***************************************************************************)
(* The safety of the process and of the order in which calls are recorded, *)
(* for every set of calls, of bodies, and every body cap.                  *)
(***************************************************************************)
EXTENDS ProxyServer, SequenceTheorems, TLAPS

(***************************************************************************)
(* The inductive invariant, beside the types.                              *)
(***************************************************************************)

(* Once Shutdown has returned without an error no call is active, and none *)
(* becomes so; the goroutine of the server reports a clean end only after  *)
(* the select, so exit code 0 has no other way.                            *)
Drained ==
  /\ errCh = "nil" => main # "select"
  /\ main \in {"await", "flush"} => Active = {}
  /\ exit = "success" => Active = {}
  /\ flush # "not called" => main = "exited"
  /\ flush = "done" => exported = Recorded

(* The recorded calls are those past their Record step.                    *)
RecordedStages ==
  \A c \in Call : c \in Recorded <=> stage[c] \in {"recorded", "done"}

Once == \A i, j \in DOMAIN journal : journal[i] = journal[j] => i = j

(* A bot answers only an update that has reached it: a poll has then been  *)
(* recorded, and what a call is does not change once it has begun.         *)
Caused ==
  \A c \in Call : cause[c] # NoCall =>
    /\ stage[cause[c]] # "none"
    /\ kind[cause[c]] = "api" => stage[cause[c]] = "done"

IInv ==
  /\ TypeOK /\ Drained /\ RecordedStages /\ Once /\ Caused
  /\ PolledUpdateFirst /\ GapObservable

(***************************************************************************)
(* The tap                                                                 *)
(***************************************************************************)

(* tapBody never captures more than the cap, and what it leaves for the    *)
(* next reader is a stream again.                                          *)
LEMMA TapTypes ==
  ASSUME NEW b \in Body, NEW i \in Inflations
  PROVE  [body |-> b, sent |-> Replacement(b), size |-> CapturedSize(b),
          content |-> Content(b, i), truncated |-> Truncated(b, i)] \in Copies
<1>1. b \in Bodies
  BY ServerAssumption
<1>2. b.size \in Nat /\ b.fails \in BOOLEAN /\ b.encoding \in Encodings
  BY <1>1 DEF Bodies
<1>3. Replacement(b) \in [size : Nat, fails : BOOLEAN]
  BY <1>2 DEF Replacement, Stream
<1>4. CapturedSize(b) \in 0..BodyCap
  BY <1>2, BodyTapAssumption DEF CapturedSize, Overflows
<1>5. Truncated(b, i) \in BOOLEAN
  BY DEF Truncated
<1>6. Content(b, i) \in Contents
  <2>1. CapturedSize(b) = 0 \/ CapturedSize(b) > 0
    BY <1>4, BodyTapAssumption
  <2> QED
    BY <2>1 DEF Content, Contents
<1> QED
  BY <1>3, <1>4, <1>5, <1>6 DEF Copies

(* What a tapped body is worth: GapObservable holds of every copy the tap  *)
(* can make, whatever the cap.                                             *)
LEMMA TapObservable ==
  ASSUME NEW b \in Bodies, NEW i \in Inflations,
         b.encoding # "compressed" => i = "clean"
  PROVE  LET gap == b.size > 0 /\ Content(b, i) # "whole"
         IN /\ Truncated(b, i) => gap
            /\ gap /\ ~Truncated(b, i) => BodyCap = 0 \/ ReadFails(b) \/ b.layered
            /\ ~ReadFails(b) => Replacement(b) = Stream(b.size, b.fails)
<1> DEFINE gap == b.size > 0 /\ Content(b, i) # "whole"
<1>1. /\ b.size \in Nat /\ b.fails \in BOOLEAN /\ b.layered \in BOOLEAN
      /\ b.encoding \in Encodings /\ BodyCap \in Nat
  BY BodyTapAssumption DEF Bodies
<1>2. ~ReadFails(b) => Replacement(b) = Stream(b.size, b.fails)
  BY DEF Replacement
<1>3. CASE BodyCap = 0 \/ ReadFails(b)
  <2>1. CapturedSize(b) = 0 /\ ~Overflows(b)
    BY <1>1, <1>3 DEF CapturedSize, Overflows, ReadFails
  <2>2. ~Truncated(b, i)
    BY <2>1 DEF Truncated
  <2> QED
    BY <1>2, <1>3, <2>2
<1>4. CASE BodyCap > 0 /\ ~ReadFails(b) /\ Overflows(b)
  <2>1. CapturedSize(b) = BodyCap /\ b.size > BodyCap /\ b.size > 0
    BY <1>1, <1>4 DEF CapturedSize, Overflows
  <2>2. Content(b, i) # "whole"
    BY <1>1, <1>4, <2>1 DEF Content
  <2>3. Truncated(b, i)
    BY <1>4 DEF Truncated
  <2> QED
    BY <1>2, <2>1, <2>2, <2>3
<1>5. CASE BodyCap > 0 /\ ~ReadFails(b) /\ ~Overflows(b) /\ b.size > 0
  <2>1. CapturedSize(b) = b.size
    BY <1>5 DEF CapturedSize
  <2>2. CapturedSize(b) > 0 /\ CapturedSize(b) # 0
    BY <1>1, <1>5, <2>1
  <2>3. CASE Truncated(b, i)
    <3>1. b.encoding = "unsupported" \/ (b.encoding = "compressed" /\ i # "clean")
      BY <1>5, <2>3 DEF Truncated
    <3>2. Content(b, i) # "whole"
      BY <2>2, <3>1 DEF Content
    <3> QED
      BY <1>2, <1>5, <2>3, <3>2
  <2>4. CASE ~Truncated(b, i) /\ ~b.layered
    <3>1. b.encoding # "unsupported" /\ (b.encoding = "compressed" => i = "clean")
      BY <2>2, <2>4 DEF Truncated
    <3>2. Content(b, i) = "whole"
      BY <2>1, <2>2, <2>4, <3>1 DEF Content
    <3> QED
      BY <1>2, <2>4, <3>2
  <2>5. CASE ~Truncated(b, i) /\ b.layered
    BY <1>2, <2>5
  <2> QED
    BY <1>1, <2>3, <2>4, <2>5
<1>6. CASE BodyCap > 0 /\ ~ReadFails(b) /\ ~Overflows(b) /\ b.size = 0
  <2>1. CapturedSize(b) = 0
    BY <1>6 DEF CapturedSize
  <2>2. ~Truncated(b, i)
    BY <1>6, <2>1 DEF Truncated
  <2> QED
    BY <1>2, <1>6, <2>2
<1> QED
  BY <1>1, <1>3, <1>4, <1>5, <1>6

(***************************************************************************)
(* The initial states                                                      *)
(***************************************************************************)

LEMMA InitIInv == Init => IInv
<1>0. \A n \in Nat : n = 0 => \A i \in 1..n : FALSE
  OBVIOUS
<1> SUFFICES ASSUME Init PROVE IInv
  OBVIOUS
<1> USE DEF Init
<1>1. journal = <<>> /\ Recorded = {} /\ \A i \in DOMAIN journal : FALSE
  <2>1. journal = <<>> /\ journal \in Seq(Call) /\ Len(journal) = 0
    BY EmptySeq
  <2>2. \A i \in 1..Len(journal) : FALSE
    BY <1>0, <2>1, LenProperties, Zenon
  <2>3. DOMAIN journal = 1..Len(journal)
    BY <2>1, LenProperties, Zenon
  <2> QED
    BY <2>1, <2>2, <2>3, Zenon DEF Recorded, ToSet
<1>2. TypeOK
  <2>1. journal \in Seq(Call)
    BY EmptySeq
  <2>2. stage \in [Call -> Stages] /\ copy \in [Call -> Copies \cup {NoCopy}]
    BY DEF Stages, Ended
  <2> QED
    BY <2>1, <2>2 DEF TypeOK
<1>3. Drained /\ RecordedStages /\ Once
  BY <1>1 DEF Drained, RecordedStages, Once, Active, Ended
<1>4. Caused /\ PolledUpdateFirst /\ GapObservable
  BY <1>1 DEF Caused, PolledUpdateFirst, GapObservable
<1> QED
  BY <1>2, <1>3, <1>4 DEF IInv

(***************************************************************************)
(* The steps of a call that is neither accepted nor recorded in them: it   *)
(* moves from an active stage to a stage on the same side of its Record.   *)
(***************************************************************************)

Past == {"recorded", "done"}

LEMMA MoveKeepsIInv ==
  ASSUME IInv, NEW c \in Call,
         NEW from \in {"accepted", "forwarded", "answered", "recorded"},
         NEW to \in Ended \cup {"forwarded", "answered", "relayed"},
         to # "none", from \in Past <=> to \in Past,
         Goto(c, from, to),
         UNCHANGED <<process, kind, cause, journal, exported>>
  PROVE  /\ stage' \in [Call -> Stages]
         /\ Drained' /\ RecordedStages' /\ Once' /\ Caused' /\ PolledUpdateFirst'
<1> USE DEF IInv
<1>1. /\ stage \in [Call -> Stages]
      /\ stage' = [stage EXCEPT ![c] = to] /\ stage[c] = from
      /\ main # "exited" /\ c \in Active
  BY DEF TypeOK, Goto, Running, Active, Stages, Ended
<1>2. stage'[c] = to /\ \A d \in Call \ {c} : stage'[d] = stage[d]
  BY <1>1
<1>3. stage' \in [Call -> Stages]
  BY <1>1 DEF Stages, Ended
<1>4. Recorded' = Recorded
  BY DEF Recorded
<1>5. Drained'
  BY <1>1, <1>4 DEF Drained, process, TypeOK
<1>6. RecordedStages'
  BY <1>1, <1>2, <1>4 DEF RecordedStages, Past
<1>7. Once'
  BY DEF Once
<1>8. Caused'
  <2> SUFFICES ASSUME NEW d \in Call, cause[d] # NoCall
               PROVE  /\ stage'[cause[d]] # "none"
                      /\ kind[cause[d]] = "api" => stage'[cause[d]] = "done"
    BY DEF Caused
  <2>1. cause[d] \in Call
    BY DEF TypeOK
  <2>2. stage[cause[d]] # "none" /\ (kind[cause[d]] = "api" => stage[cause[d]] = "done")
    BY DEF Caused
  <2> QED
    BY <1>1, <1>2, <2>1, <2>2
<1>9. PolledUpdateFirst'
  BY DEF PolledUpdateFirst
<1> QED
  BY <1>3, <1>5, <1>6, <1>7, <1>8, <1>9

(***************************************************************************)
(* A record puts a call that was not yet recorded at the end.              *)
(***************************************************************************)

LEMMA RecordKeepsIInv ==
  ASSUME IInv, NEW c \in Call,
         NEW from \in {"answered", "relayed"}, NEW to \in Past,
         Goto(c, from, to), Record(c),
         UNCHANGED <<process, kind, cause, copy, exported>>
  PROVE  IInv'
<1> USE DEF IInv
<1>1. /\ stage \in [Call -> Stages]
      /\ stage' = [stage EXCEPT ![c] = to] /\ stage[c] = from
      /\ main # "exited" /\ c \in Active
  BY DEF TypeOK, Goto, Running, Active, Stages, Ended
<1>2. stage'[c] = to /\ \A d \in Call \ {c} : stage'[d] = stage[d]
  BY <1>1
<1>3. /\ journal \in Seq(Call) /\ journal' \in Seq(Call)
      /\ Len(journal') = Len(journal) + 1
      /\ journal'[Len(journal) + 1] = c
      /\ \A i \in 1..Len(journal) : journal'[i] = journal[i]
      /\ DOMAIN journal = 1..Len(journal)
      /\ DOMAIN journal' = 1..(Len(journal) + 1)
      /\ Len(journal) \in Nat
  <2>1. journal \in Seq(Call)
    BY DEF TypeOK
  <2>2. journal' = Append(journal, c)
    BY DEF Record
  <2> QED
    BY <2>1, <2>2, AppendProperties
<1>4. Recorded' = Recorded \cup {c}
  BY <1>3 DEF Recorded, ToSet
<1>5. c \notin Recorded
  BY <1>1 DEF RecordedStages
<1>6. TypeOK'
  BY <1>1, <1>3 DEF TypeOK, Stages, Ended, Past, process
<1>7. Drained'
  BY <1>1, <1>4 DEF Drained, process, TypeOK
<1>8. RecordedStages'
  BY <1>1, <1>2, <1>4 DEF RecordedStages, Past
<1>9. Once'
  <2>1. \A i \in 1..Len(journal) : journal[i] # c
    BY <1>3, <1>5 DEF Recorded, ToSet
  <2> QED
    BY <1>3, <2>1 DEF Once
<1>10. Caused'
  <2> SUFFICES ASSUME NEW d \in Call, cause[d] # NoCall
               PROVE  /\ stage'[cause[d]] # "none"
                      /\ kind[cause[d]] = "api" => stage'[cause[d]] = "done"
    BY DEF Caused
  <2>1. cause[d] \in Call
    BY DEF TypeOK
  <2>2. stage[cause[d]] # "none" /\ (kind[cause[d]] = "api" => stage[cause[d]] = "done")
    BY DEF Caused
  <2> QED
    BY <1>1, <1>2, <2>1, <2>2 DEF Past
<1>11. PolledUpdateFirst'
  <2> SUFFICES ASSUME NEW j \in DOMAIN journal',
                      cause[journal'[j]] # NoCall, kind[cause[journal'[j]]] = "api"
               PROVE  \E i \in 1..(j - 1) : journal'[i] = cause[journal'[j]]
    BY DEF PolledUpdateFirst
  <2>1. CASE j \in 1..Len(journal)
    <3>1. PICK i \in 1..(j - 1) : journal[i] = cause[journal[j]]
      BY <1>3, <2>1 DEF PolledUpdateFirst
    <3> QED
      BY <1>3, <2>1, <3>1
  <2>2. CASE j = Len(journal) + 1
    <3>1. cause[c] # NoCall /\ kind[cause[c]] = "api" /\ cause[c] \in Call
      BY <1>3, <2>2 DEF TypeOK
    <3>2. cause[c] \in Recorded
      BY <3>1 DEF Caused, RecordedStages
    <3>3. PICK i \in 1..Len(journal) : journal[i] = cause[c]
      BY <1>3, <3>2 DEF Recorded, ToSet
    <3> QED
      BY <1>3, <2>2, <3>3
  <2> QED
    BY <1>3, <2>1, <2>2
<1>12. GapObservable'
  BY DEF GapObservable, Gap
<1> QED
  BY <1>6, <1>7, <1>8, <1>9, <1>10, <1>11, <1>12

(***************************************************************************)
(* Every other step                                                        *)
(***************************************************************************)

LEMMA RecordedCalls ==
  ASSUME TypeOK
  PROVE  /\ Recorded \subseteq Call
         /\ \A j \in DOMAIN journal : journal[j] \in Call /\ journal[j] \in Recorded
<1>1. journal \in Seq(Call)
  BY DEF TypeOK
<1>2. \A j \in DOMAIN journal : journal[j] \in Call
  BY <1>1, ElementOfSeq, LenProperties
<1> QED
  BY <1>2, Zenon DEF Recorded, ToSet

LEMMA AcceptKeepsIInv ==
  ASSUME IInv, NEW c \in Call, Accept(c)
  PROVE  IInv'
<1> USE DEF IInv
<1>1. /\ stage \in [Call -> Stages] /\ kind \in [Call -> {"api", "webhook"}]
      /\ cause \in [Call -> Call \cup {NoCall}]
      /\ stage[c] = "none" /\ stage' = [stage EXCEPT ![c] = "accepted"]
      /\ main \in {"select", "shutdown"}
      /\ UNCHANGED <<process, copy, journal, exported>>
  BY DEF TypeOK, Accept, Goto, Connected
<1>2. /\ kind' \in [Call -> {"api", "webhook"}]
      /\ cause' \in [Call -> Call \cup {NoCall}]
      /\ \A d \in Call \ {c} : kind'[d] = kind[d] /\ cause'[d] = cause[d]
  BY <1>1 DEF Accept
<1>3. stage'[c] = "accepted" /\ \A d \in Call \ {c} : stage'[d] = stage[d]
  BY <1>1
<1>4. c \notin Recorded /\ Recorded' = Recorded
  BY <1>1 DEF RecordedStages, Recorded
<1>5. TypeOK'
  BY <1>1, <1>2 DEF TypeOK, Stages, process
<1>6. Drained'
  BY <1>1, <1>4 DEF Drained, process, TypeOK
<1>7. RecordedStages'
  BY <1>3, <1>4 DEF RecordedStages
<1>8. Once'
  BY <1>1 DEF Once
<1>9. \A d \in Call : Reached(d) =>
        /\ d # c
        /\ stage[d] # "none"
        /\ kind[d] = "api" => stage[d] = "done"
  BY <1>1 DEF Reached
<1>10. \A d \in Call : cause'[d] # NoCall =>
         \/ cause'[d] = cause[d]
         \/ \E e \in Call : Reached(e) /\ cause'[d] = e
  BY <1>1, <1>2 DEF Accept
<1>11. Caused'
  <2> SUFFICES ASSUME NEW d \in Call, cause'[d] # NoCall
               PROVE  /\ stage'[cause'[d]] # "none"
                      /\ kind'[cause'[d]] = "api" => stage'[cause'[d]] = "done"
    BY DEF Caused
  <2>1. cause'[d] \in Call
    BY <1>2
  <2>2. CASE cause'[d] = cause[d]
    <3>1. /\ stage[cause[d]] # "none"
          /\ kind[cause[d]] = "api" => stage[cause[d]] = "done"
      BY <2>2 DEF Caused
    <3>2. cause[d] # c
      BY <1>1, <3>1
    <3> QED
      BY <1>2, <1>3, <2>1, <2>2, <3>1, <3>2
  <2>3. ASSUME NEW e \in Call, Reached(e), cause'[d] = e
        PROVE  /\ stage'[cause'[d]] # "none"
               /\ kind'[cause'[d]] = "api" => stage'[cause'[d]] = "done"
    <3>1. /\ e # c /\ stage[e] # "none"
          /\ kind[e] = "api" => stage[e] = "done"
      BY <1>9, <2>3, Zenon
    <3>2. stage'[e] = stage[e] /\ kind'[e] = kind[e]
      BY <1>2, <1>3, <3>1
    <3> QED
      BY <2>3, <3>1, <3>2
  <2> QED
    BY <1>10, <2>2, <2>3
<1>12. PolledUpdateFirst'
  <2> SUFFICES ASSUME NEW j \in DOMAIN journal,
                      cause'[journal[j]] # NoCall, kind'[cause'[journal[j]]] = "api"
               PROVE  \E i \in 1..(j - 1) : journal[i] = cause'[journal[j]]
    BY <1>1 DEF PolledUpdateFirst
  <2>1. journal[j] \in Call /\ journal[j] \in Recorded
    BY RecordedCalls
  <2>2. cause'[journal[j]] = cause[journal[j]]
    BY <1>2, <1>4, <2>1
  <2>3. cause[journal[j]] \in Call /\ stage[cause[journal[j]]] # "none"
    BY <1>1, <2>1, <2>2 DEF Caused
  <2>4. kind'[cause[journal[j]]] = kind[cause[journal[j]]]
    BY <1>1, <1>2, <2>3
  <2> QED
    BY <2>2, <2>4 DEF PolledUpdateFirst
<1>13. GapObservable'
  BY <1>1 DEF GapObservable, Gap
<1> QED
  BY <1>5, <1>6, <1>7, <1>8, <1>11, <1>12, <1>13

(* What the process does leaves the calls alone.                           *)
LEMMA ProcessKeepsIInv ==
  ASSUME IInv, UNCHANGED calls, TypeOK', Drained'
  PROVE  IInv'
<1> USE DEF IInv, calls
<1>1. Recorded' = Recorded
  BY DEF Recorded
<1>2. RecordedStages' /\ Once' /\ Caused'
  BY <1>1 DEF RecordedStages, Once, Caused
<1>3. PolledUpdateFirst' /\ GapObservable'
  BY DEF PolledUpdateFirst, GapObservable, Gap
<1> QED
  BY <1>2, <1>3

LEMMA HandleKeepsIInv ==
  ASSUME IInv, NEW c \in Call, Handle(c)
  PROVE  IInv'
<1> USE DEF IInv
<1>1. CASE Accept(c)
  BY <1>1, AcceptKeepsIInv
<1>2. ASSUME NEW from \in {"accepted", "forwarded", "answered", "recorded"},
             NEW to \in Ended \cup {"forwarded", "answered", "relayed"},
             to # "none", from \in Past <=> to \in Past,
             Goto(c, from, to),
             UNCHANGED <<process, kind, cause, copy, journal, exported>>
      PROVE  IInv'
  <2>1. /\ stage' \in [Call -> Stages]
        /\ Drained' /\ RecordedStages' /\ Once' /\ Caused' /\ PolledUpdateFirst'
    BY <1>2, MoveKeepsIInv
  <2>2. TypeOK'
    BY <1>2, <2>1 DEF TypeOK, process
  <2>3. GapObservable'
    BY <1>2 DEF GapObservable, Gap
  <2> QED
    BY <2>1, <2>2, <2>3
<1>3. CASE Reject(c)
  BY <1>2, <1>3 DEF Reject, Ended, Past
<1>4. CASE Forward(c)
  BY <1>2, <1>4 DEF Forward, Past
<1>5. CASE Fail(c)
  BY <1>2, <1>5 DEF Fail, Ended, Past
<1>6. CASE Answer(c)
  <2> USE <1>6
  <2>1. PICK b \in Body, i \in Inflations :
          /\ b.encoding # "compressed" => i = "clean"
          /\ copy' = [copy EXCEPT ![c] =
               [body |-> b, sent |-> Replacement(b), size |-> CapturedSize(b),
                content |-> Content(b, i), truncated |-> Truncated(b, i)]]
    BY DEF Answer
  <2>2. Goto(c, "forwarded", "answered")
        /\ UNCHANGED <<process, kind, cause, journal, exported>>
    BY DEF Answer
  <2>3. /\ stage' \in [Call -> Stages]
        /\ Drained' /\ RecordedStages' /\ Once' /\ Caused' /\ PolledUpdateFirst'
    BY <2>2, MoveKeepsIInv DEF Past
  <2> DEFINE tapped == [body |-> b, sent |-> Replacement(b), size |-> CapturedSize(b),
                        content |-> Content(b, i), truncated |-> Truncated(b, i)]
  <2>4. copy \in [Call -> Copies \cup {NoCopy}] /\ tapped \in Copies
    BY TapTypes DEF TypeOK
  <2>5. copy'[c] = tapped /\ \A d \in Call \ {c} : copy'[d] = copy[d]
    BY <2>1, <2>4
  <2>6. copy' \in [Call -> Copies \cup {NoCopy}]
    BY <2>1, <2>4
  <2>7. TypeOK'
    BY <2>2, <2>3, <2>6 DEF TypeOK, process
  <2>8. GapObservable'
    <3> DEFINE gap == b.size > 0 /\ tapped.content # "whole"
    <3>1. /\ tapped.truncated => gap
          /\ gap /\ ~tapped.truncated => BodyCap = 0 \/ ReadFails(b) \/ b.layered
          /\ ~ReadFails(b) => tapped.sent = Stream(b.size, b.fails)
      <4>1. b \in Bodies
        BY ServerAssumption
      <4> QED
        BY <2>1, <4>1, TapObservable
    <3>2. tapped.body = b
      OBVIOUS
    <3> HIDE DEF tapped
    <3> QED
      BY <2>5, <3>1, <3>2 DEF GapObservable, Gap
  <2> QED
    BY <2>3, <2>7, <2>8
<1>7. CASE ModifyResponse(c)
  BY <1>7, RecordKeepsIInv DEF ModifyResponse, Past
<1>8. CASE PassOn(c)
  BY <1>2, <1>8 DEF PassOn, Ended, Past
<1>9. CASE Relay(c)
  BY <1>2, <1>9 DEF Relay, Past
<1>10. CASE RecordDelivery(c)
  BY <1>10, RecordKeepsIInv DEF RecordDelivery, Past
<1> QED
  BY <1>1, <1>3, <1>4, <1>5, <1>6, <1>7, <1>8, <1>9, <1>10 DEF Handle

LEMMA RunKeepsIInv ==
  ASSUME IInv, Run
  PROVE  IInv'
<1> USE DEF IInv
<1>1. UNCHANGED calls
  BY DEF Run, SelectSignal, SelectError, ShutdownReturns, AwaitServe, FlushAndExit
<1>2. Recorded' = Recorded /\ Active' = Active /\ Recorded \subseteq Call
  BY <1>1, RecordedCalls DEF calls, Recorded, Active
<1>3. CASE SelectSignal
  <2>1. TypeOK'
    BY <1>1, <1>3 DEF SelectSignal, TypeOK, calls
  <2>2. Drained'
    BY <1>2, <1>3 DEF SelectSignal, Drained, TypeOK
  <2> QED
    BY <1>1, <2>1, <2>2, ProcessKeepsIInv
<1>4. CASE SelectError
  <2>1. TypeOK'
    BY <1>1, <1>4 DEF SelectError, Exit, TypeOK, calls
  <2>2. Drained'
    BY <1>2, <1>4 DEF SelectError, Exit, Drained, TypeOK
  <2> QED
    BY <1>1, <2>1, <2>2, ProcessKeepsIInv
<1>5. CASE ShutdownReturns
  <2>1. TypeOK'
    BY <1>1, <1>5 DEF ShutdownReturns, Exit, TypeOK, calls
  <2>2. Drained'
    BY <1>2, <1>5 DEF ShutdownReturns, Exit, Drained, TypeOK
  <2> QED
    BY <1>1, <2>1, <2>2, ProcessKeepsIInv
<1>6. CASE AwaitServe
  <2>1. TypeOK'
    BY <1>1, <1>6 DEF AwaitServe, Exit, TypeOK, calls
  <2>2. Drained'
    BY <1>2, <1>6 DEF AwaitServe, Exit, Drained, TypeOK
  <2> QED
    BY <1>1, <2>1, <2>2, ProcessKeepsIInv
<1>7. CASE FlushAndExit
  <2>1. TypeOK'
    BY <1>1, <1>2, <1>7 DEF FlushAndExit, Exit, TypeOK, calls
  <2>2. Drained'
    BY <1>2, <1>7 DEF FlushAndExit, Exit, Drained, TypeOK
  <2> QED
    BY <1>1, <2>1, <2>2, ProcessKeepsIInv
<1> QED
  BY <1>3, <1>4, <1>5, <1>6, <1>7 DEF Run

LEMMA NextKeepsIInv == IInv /\ [Next]_vars => IInv'
<1> SUFFICES ASSUME IInv, [Next]_vars PROVE IInv'
  OBVIOUS
<1> USE DEF IInv
<1>1. CASE \E c \in Call : Handle(c)
  BY <1>1, HandleKeepsIInv
<1>2. CASE Listen \/ Serve \/ Signal \/ Expire
  <2>1. UNCHANGED <<main, exit, flush, calls, exported>>
    BY <1>2 DEF Listen, Serve, Signal, Expire
  <2>2. Recorded' = Recorded /\ Active' = Active
    BY <2>1 DEF calls, Recorded, Active
  <2>3. TypeOK'
    <3>1. /\ serve' \in {"starting", "listening", "closed", "never opened"}
          /\ errCh' \in {"empty", "nil", "error"}
      BY <1>2 DEF Listen, Serve, Signal, Expire, Return, TypeOK
    <3>2. signalled' \in BOOLEAN /\ expired' \in BOOLEAN
      BY <1>2 DEF Listen, Serve, Signal, Expire, TypeOK
    <3> QED
      BY <2>1, <3>1, <3>2 DEF TypeOK, calls
  <2>4. errCh' = "nil" => main # "select"
    BY <1>2 DEF Listen, Serve, Signal, Expire, Return, Closing, Drained
  <2>5. Drained'
    BY <2>1, <2>2, <2>4 DEF Drained
  <2> QED
    BY <2>1, <2>3, <2>5, ProcessKeepsIInv
<1>3. CASE Run
  BY <1>3, RunKeepsIInv
<1>4. CASE Export
  <2>1. UNCHANGED <<process, calls>> /\ Running /\ exported' = Recorded
    BY <1>4 DEF Export
  <2>2. Recorded' = Recorded /\ Active' = Active /\ Recorded \subseteq Call
    BY <2>1, RecordedCalls DEF calls, Recorded, Active
  <2>3. TypeOK'
    BY <2>1, <2>2 DEF TypeOK, process, calls
  <2>4. Drained'
    BY <2>1, <2>2 DEF Drained, process, Running
  <2> QED
    BY <2>1, <2>3, <2>4, ProcessKeepsIInv
<1>5. CASE UNCHANGED vars
  <2>1. UNCHANGED <<process, calls, exported>>
    BY <1>5 DEF vars, process, calls
  <2>2. Recorded' = Recorded /\ Active' = Active
    BY <2>1 DEF calls, Recorded, Active
  <2>3. TypeOK'
    BY <2>1 DEF TypeOK, process, calls
  <2>4. Drained'
    BY <2>1, <2>2 DEF Drained, process
  <2> QED
    BY <2>1, <2>3, <2>4, ProcessKeepsIInv
<1>6. CASE Exited
  BY <1>5, <1>6 DEF Exited
<1> QED
  BY <1>1, <1>2, <1>3, <1>4, <1>5, <1>6 DEF Next

LEMMA Invariance == Spec => []IInv
  BY InitIInv, NextKeepsIInv, PTL DEF Spec

(***************************************************************************)
(* Exit code 0 means that every accepted call has run to its end and that, *)
(* unless the flush failed, no recorded call is missing from the exported  *)
(* spans, however many calls there are.                                    *)
(***************************************************************************)
THEOREM StopIsClean == Spec => []CleanStop
<1>1. IInv => CleanStop
  BY DEF IInv, Drained, CleanStop
<1> QED
  BY <1>1, Invariance, PTL

(***************************************************************************)
(* A call is recorded at most once, only after it was answered, and always *)
(* before its handler ends; the reply to a polled update never precedes    *)
(* the update.                                                             *)
(***************************************************************************)
THEOREM RecordedOnceInOrder == Spec => [](RecordedOnce /\ PolledUpdateFirst)
<1>1. IInv => RecordedOnce /\ PolledUpdateFirst
  BY DEF IInv, Once, RecordedStages, RecordedOnce
<1> QED
  BY <1>1, Invariance, PTL

(***************************************************************************)
(* The truncated flag is raised only over a gap in the capture, and a gap  *)
(* goes without it only when the tap is off, the response broke off within *)
(* the cap, or encodings were stacked: for every cap, the cap 0 included,  *)
(* every body and whatever the decompressor makes of it.                   *)
(***************************************************************************)
THEOREM GapsObservable == Spec => [](TypeOK /\ GapObservable)
<1>1. IInv => TypeOK /\ GapObservable
  BY DEF IInv
<1> QED
  BY <1>1, Invariance, PTL
=============================================================================

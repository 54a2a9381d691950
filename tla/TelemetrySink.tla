---------------------------- MODULE TelemetrySink ----------------------------
(***************************************************************************)
(* telemetry.Sink (src/internal/telemetry/sink.go) called by concurrent    *)
(* threads: OnEvent, step by step, and OnEvict.                            *)
(*                                                                         *)
(* The store calls its listeners without holding its lock, so any number   *)
(* of OnEvent calls overlap. Each atomic operation of the code is one step *)
(* here: the Add of totalMessages, the Add or Load of totalLoops, the Set  *)
(* of the gauge, the section under traceMap.mu. The Prometheus counters    *)
(* messagesTotal and loopsTotal are incremented next to the atomics of the *)
(* same name and are the same numbers; the cost counter and the span       *)
(* attributes are functions of the one event and are left out.             *)
(***************************************************************************)
EXTENDS Integers, FiniteSets

CONSTANTS
  Thread,     (* goroutines delivering events                              *)
  Conv,       (* conversation ids                                          *)
  NoCall      (* the call variable of a thread outside OnEvent             *)

ASSUME SinkAssumption ==
  /\ IsFiniteSet(Thread)
  /\ NoCall \notin [conv : Conv, looped : BOOLEAN]

VARIABLES
  index,           (* traceMap.index: the trace of each conversation, 0 when absent *)
  traces,          (* how many root spans were started; the last trace id  *)
  totalMessages,   (* s.totalMessages                                      *)
  totalLoops,      (* s.totalLoops                                         *)
  spamRatio,       (* b2b_spam_ratio as [loops, total]                     *)
  pc,              (* where each thread is in OnEvent                      *)
  call,            (* the event of the thread's OnEvent call: [conv, looped] *)
  local,           (* the thread's local variables: [total, loops]         *)
  epoch,           (* history: how often each conversation was evicted     *)
  spans            (* history: the spans started, as [conv, epoch, trace]  *)

counters == <<totalMessages, totalLoops, spamRatio>>
tracing  == <<index, traces, epoch, spans>>
vars     == <<index, traces, totalMessages, totalLoops, spamRatio, pc, call,
              local, epoch, spans>>

Calls  == [conv : Conv, looped : BOOLEAN]
Pcs    == {"idle", "count", "score", "publish", "span"}
NoTrace == 0

Init ==
  /\ index = [c \in Conv |-> NoTrace]
  /\ traces = 0
  /\ totalMessages = 0
  /\ totalLoops = 0
  /\ spamRatio = [loops |-> 0, total |-> 0]
  /\ pc = [t \in Thread |-> "idle"]
  /\ call = [t \in Thread |-> NoCall]
  /\ local = [t \in Thread |-> [loops |-> 0, total |-> 0]]
  /\ epoch = [c \in Conv |-> 0]
  /\ spans = {}

-----------------------------------------------------------------------------

Goto(t, from, to) ==
  /\ pc[t] = from
  /\ pc' = [pc EXCEPT ![t] = to]

(* A listener call arrives with an event.                                  *)
OnEvent(t, c) ==
  /\ Goto(t, "idle", "count")
  /\ call' = [call EXCEPT ![t] = c]
  /\ UNCHANGED <<counters, tracing, local>>

(* Mutants of Count: the call is dropped; only messages that are no loops  *)
(* are counted.                                                            *)
CountDroppingCall(t) ==
  /\ Goto(t, "count", "score")
  /\ totalMessages' = totalMessages + 1
  /\ local' = [local EXCEPT ![t].total = totalMessages + 1]
  /\ call' = [call EXCEPT ![t] = NoCall]
  /\ UNCHANGED <<totalLoops, spamRatio, tracing>>

CountUnlooped(t) ==
  /\ Goto(t, "count", "score")
  /\ totalMessages' = IF call[t].looped THEN totalMessages ELSE totalMessages + 1
  /\ local' = [local EXCEPT ![t].total = totalMessages']
  /\ UNCHANGED <<totalLoops, spamRatio, tracing, call>>

(* total := s.totalMessages.Add(1)                                         *)
Count(t) ==
  /\ Goto(t, "count", "score")
  /\ totalMessages' = totalMessages + 1
  /\ local' = [local EXCEPT ![t].total = totalMessages + 1]
  /\ UNCHANGED <<totalLoops, spamRatio, tracing, call>>

(* Mutant of Score: the ratio gets the value before the Add.                *)
ScoreStale(t) ==
  /\ Goto(t, "score", "publish")
  /\ totalLoops' = IF call[t].looped THEN totalLoops + 1 ELSE totalLoops
  /\ local' = [local EXCEPT ![t].loops = totalLoops]
  /\ UNCHANGED <<totalMessages, spamRatio, tracing, call>>

(* loops is s.totalLoops.Add(1) for a looped event, Load() for another.    *)
Score(t) ==
  /\ Goto(t, "score", "publish")
  /\ totalLoops' = IF call[t].looped THEN totalLoops + 1 ELSE totalLoops
  /\ local' = [local EXCEPT ![t].loops = totalLoops']
  /\ UNCHANGED <<totalMessages, spamRatio, tracing, call>>

(* s.m.spamRatio.Set(loops / total), from the two locals.                  *)
Publish(t) ==
  /\ Goto(t, "publish", "span")
  /\ spamRatio' = local[t]
  /\ UNCHANGED <<totalMessages, totalLoops, tracing, call, local>>

(* The trace startConversationSpan puts a span of conversation c under: a  *)
(* fresh root when the index has none. The lookup, the start of the root   *)
(* and its reservation happen under traceMap.mu.                           *)
TraceFor(c) == IF index[c] # NoTrace THEN index[c] ELSE traces + 1

(* Mutant of Reserve: the root is started and not stored in the index.     *)
ReserveWithoutStore(c) ==
  /\ traces' = IF index[c] # NoTrace THEN traces ELSE traces + 1
  /\ spans' = spans \cup {[conv |-> c, epoch |-> epoch[c], trace |-> TraceFor(c)]}
  /\ UNCHANGED index

Reserve(c) ==
  /\ index' = [index EXCEPT ![c] = TraceFor(c)]
  /\ traces' = IF index[c] # NoTrace THEN traces ELSE traces + 1
  /\ spans' = spans \cup {[conv |-> c, epoch |-> epoch[c], trace |-> TraceFor(c)]}

(* startConversationSpan and the rest of OnEvent.                          *)
StartSpan(t) ==
  /\ Goto(t, "span", "idle")
  /\ Reserve(call[t].conv)
  /\ call' = [call EXCEPT ![t] = NoCall]
  /\ local' = [local EXCEPT ![t] = [loops |-> 0, total |-> 0]]
  /\ UNCHANGED <<counters, epoch>>

(* Mutant of OnEvict: the entry is not deleted.                            *)
OnEvictKeeping(c) ==
  /\ epoch' = [epoch EXCEPT ![c] = epoch[c] + 1]
  /\ UNCHANGED <<index, traces, spans, counters, pc, call, local>>

(* OnEvict: traceMap.delete.                                               *)
OnEvict(c) ==
  /\ index' = [index EXCEPT ![c] = NoTrace]
  /\ epoch' = [epoch EXCEPT ![c] = epoch[c] + 1]
  /\ UNCHANGED <<traces, spans, counters, pc, call, local>>

Next ==
  \/ \E t \in Thread :
       \/ \E c \in Calls : OnEvent(t, c)
       \/ Count(t) \/ Score(t) \/ Publish(t) \/ StartSpan(t)
  \/ \E c \in Conv : OnEvict(c)

Spec == Init /\ [][Next]_vars

-----------------------------------------------------------------------------

TypeOK ==
  /\ index \in [Conv -> Nat]
  /\ traces \in Nat
  /\ totalMessages \in Nat
  /\ totalLoops \in Nat
  /\ spamRatio \in [loops : Nat, total : Nat]
  /\ pc \in [Thread -> Pcs]
  /\ call \in [Thread -> Calls \cup {NoCall}]
  /\ \A t \in Thread : pc[t] # "idle" => call[t] \in Calls
  /\ local \in [Thread -> [loops : Nat, total : Nat]]
  /\ epoch \in [Conv -> Nat]
  /\ spans \in SUBSET [conv : Conv, epoch : Nat, trace : Nat]

(* Between two evictions of a conversation all its spans are in one trace, *)
(* however many threads deliver its first events at once, and no trace is  *)
(* shared by two conversations or survives an eviction.                    *)
OneTracePerEpoch ==
  \A s, u \in spans :
    s.trace = u.trace <=> (s.conv = u.conv /\ s.epoch = u.epoch)

(* Loops are counted after the message they belong to: at no moment have   *)
(* more loops than messages been counted, nor more than the looped events  *)
(* still between the two counters leave room for.                          *)
LoopsWithinMessages ==
  totalLoops + Cardinality({t \in Thread : pc[t] = "score" /\ call[t].looped})
    <= totalMessages

(* What the help text of b2b_spam_ratio says of it: it lies in 0.0-1.0.    *)
RatioAtMostOne == spamRatio.loops <= spamRatio.total
=============================================================================

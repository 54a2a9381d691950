--------------------------- MODULE CapturePipeline ---------------------------
(***************************************************************************)
(* Store.Record end to end (src/internal/capture/store.go): concurrent     *)
(* workers take captured exchanges, correlate each message under s.mu, and *)
(* then, without the lock, tell the telemetry sink of the evictions and of *)
(* the event. Composes ConversationCache (which conversations live),       *)
(* LoopWindow (loop detection) and TelemetrySink (metrics and traces).     *)
(***************************************************************************)
EXTENDS LoopWindow

CONSTANTS
  Worker,             (* goroutines that call Record                       *)
  Key,                (* conversation keys; the conversation ids too       *)
  Message,            (* parsed messages: [key, from, to, text, media]     *)
  MaxConversations, ConvTTL,
  NoCall,
  MaxBatch,           (* bound: usable messages of one exchange            *)
  MaxMessages,        (* bound: messages captured in all                   *)
  MaxClock            (* bound: the last time on the clock                 *)

ASSUME PipelineAssumption ==
  /\ \A m \in Message : m.key \in Key
  /\ IsFiniteSet(Worker)
  /\ NoCall \notin [conv : Key, looped : BOOLEAN]
  /\ {MaxConversations, ConvTTL} \subseteq Nat \ {0}
  /\ {MaxBatch, MaxMessages, MaxClock} \subseteq Nat \ {0}

VARIABLES
  clock,              (* time.Now()                                        *)
  phase,              (* where each worker is in Record                    *)
  inbox,              (* the parsed messages it has still to record        *)
  stamp,              (* ex.Timestamp of its exchange                      *)
  owed,               (* evicted ids it has still to hand to OnEvict       *)
  current,            (* the event it delivers: [key, born, looped]        *)
  window,             (* conv.loopWindow of every live conversation        *)
  events,             (* len(conv.Events) of every live conversation       *)
  born,               (* history: how often each conversation was created  *)
  captured,           (* history: messages captured                        *)
  loops,              (* history: events recorded with LoopDepth > 0       *)
  traced,             (* history: the spans as [key, born, trace]          *)
  delivered,          (* history: events delivered to the sink             *)
  serial              (* history: no Record overlapped another one's       *)
                      (* notifications so far                              *)

(* The store, whose timestamps are those of the clock.                     *)
VARIABLES lru, lmap, lastSeen, evicted, newest
Store == INSTANCE ConversationCache WITH Time <- 1..MaxClock, MaxSkew <- MaxClock

(* The sink, whose conversations are identified by their keys.             *)
VARIABLES index, traces, totalMessages, totalLoops, spamRatio, pc, call, local,
          epoch, spans
Sink == INSTANCE TelemetrySink WITH Thread <- Worker, Conv <- Key

recordVars == <<phase, inbox, stamp, owed, current>>
convVars   == <<window, events, born>>
storeVars  == <<lru, lmap, lastSeen, evicted, newest>>
sinkVars   == <<index, traces, totalMessages, totalLoops, spamRatio, pc, call,
                local, epoch, spans>>
history    == <<captured, loops, traced, delivered, serial>>
vars == <<clock, recordVars, convVars, history, storeVars, sinkVars>>

NoEvent == [key |-> NoCall, born |-> 0, looped |-> FALSE]

Init ==
  /\ clock = 1
  /\ phase = [w \in Worker |-> "idle"]
  /\ inbox = [w \in Worker |-> <<>>]
  /\ stamp = [w \in Worker |-> 0]
  /\ owed = [w \in Worker |-> <<>>]
  /\ current = [w \in Worker |-> NoEvent]
  /\ window = [k \in Key |-> <<>>]
  /\ events = [k \in Key |-> 0]
  /\ born = [k \in Key |-> 0]
  /\ captured = 0 /\ loops = 0 /\ traced = {} /\ delivered = 0
  /\ serial = TRUE
  /\ Store!Init
  /\ Sink!Init

-----------------------------------------------------------------------------

Tick ==
  /\ clock < MaxClock
  /\ clock' = clock + 1
  /\ UNCHANGED <<recordVars, convVars, history, storeVars, sinkVars>>

(* Mutant of Capture: the exchange carries a time not reached yet.         *)
CaptureAhead(w) ==
  \E n \in 1..MaxBatch :
    /\ phase[w] = "idle"
    /\ captured + n <= MaxMessages
    /\ \E batch \in [1..n -> Message] : inbox' = [inbox EXCEPT ![w] = batch]
    /\ stamp' = [stamp EXCEPT ![w] = IF clock < MaxClock THEN clock + 1 ELSE clock]
    /\ phase' = [phase EXCEPT ![w] = "record"]
    /\ captured' = captured + n
    /\ UNCHANGED <<clock, owed, current, convVars, loops, traced, delivered, serial,
                   storeVars, sinkVars>>

(* modifyResponse or the webhook handler stamps an exchange and calls      *)
(* Record, which parses it: one message, or every usable update of a       *)
(* getUpdates answer. Messages without chat or sender are skipped by       *)
(* recordOne before it touches anything, so they do not enter the inbox.   *)
Capture(w) ==
  \E n \in 1..MaxBatch :
    /\ phase[w] = "idle"
    /\ captured + n <= MaxMessages
    /\ \E batch \in [1..n -> Message] : inbox' = [inbox EXCEPT ![w] = batch]
    /\ stamp' = [stamp EXCEPT ![w] = clock]
    /\ phase' = [phase EXCEPT ![w] = "record"]
    /\ captured' = captured + n
    /\ UNCHANGED <<clock, owed, current, convVars, loops, traced, delivered, serial,
                   storeVars, sinkVars>>

(* Mutant of Without: evicted conversations keep their state.              *)
WithoutForgetting(f, gone, zero) == f

(* State of the conversations once the evicted ones are gone.              *)
Without(f, gone, zero) == [x \in Key |-> IF x \in gone THEN zero ELSE f[x]]

(* Mutant of Rest: only the first message of an exchange is recorded.      *)
RestDropped(w) == <<>>

(* The messages of the exchange after the one being recorded.              *)
Rest(w) == Tail(inbox[w])

(* Some worker has left the critical section and still owes the listeners  *)
(* a call.                                                                 *)
Notifying == \E w \in Worker : phase[w] \in {"notify", "deliver"}

(* The critical section of recordOne. A conversation that the store lost,  *)
(* be it in this very step, starts again with an empty window.             *)
Correlate(w) ==
  LET m      == Head(inbox[w])
      k      == m.key
      now    == stamp[w]
      gone   == {evicted'[i] : i \in DOMAIN evicted'}
      past   == Without(window, gone, <<>>)
      before == Without(events, gone, 0)
      depth  == DetectedDepth(past[k], Signature(m), now)
  IN /\ phase[w] = "record"
     /\ Store!Record(k, now)
     /\ window' = [past EXCEPT ![k] = WindowAfter(past[k], Signature(m), now)]
     /\ events' = [before EXCEPT ![k] = before[k] + 1]
     /\ born' = [born EXCEPT ![k] = IF k \in lmap \ gone THEN born[k] ELSE born[k] + 1]
     /\ loops' = IF depth > 0 THEN loops + 1 ELSE loops
     /\ current' = [current EXCEPT ![w] =
                      [key |-> k, born |-> born'[k], looped |-> depth > 0]]
     /\ inbox' = [inbox EXCEPT ![w] = Rest(w)]
     /\ owed' = [owed EXCEPT ![w] = evicted']
     /\ phase' = [phase EXCEPT ![w] = "notify"]
     /\ serial' = (serial /\ ~Notifying)
     /\ UNCHANGED <<clock, stamp, captured, traced, delivered, sinkVars>>

(* OnEvict for the next evicted conversation.                              *)
NotifyEvict(w) ==
  /\ phase[w] = "notify" /\ owed[w] # <<>>
  /\ Sink!OnEvict(Head(owed[w]))
  /\ owed' = [owed EXCEPT ![w] = Tail(owed[w])]
  /\ UNCHANGED <<clock, phase, inbox, stamp, current, convVars, history, storeVars>>

(* Mutant of NotifyEvent: the event is delivered before the evictions, of  *)
(* which the listeners are then not told.                                  *)
NotifyEventSkippingEvictions(w) ==
  /\ phase[w] = "notify"
  /\ Sink!OnEvent(w, [conv |-> current[w].key, looped |-> current[w].looped])
  /\ phase' = [phase EXCEPT ![w] = "deliver"]
  /\ owed' = [owed EXCEPT ![w] = <<>>]
  /\ UNCHANGED <<clock, inbox, stamp, current, convVars, history, storeVars>>

(* The call of OnEvent once every eviction was told.                       *)
NotifyEvent(w) ==
  /\ phase[w] = "notify" /\ owed[w] = <<>>
  /\ Sink!OnEvent(w, [conv |-> current[w].key, looped |-> current[w].looped])
  /\ phase' = [phase EXCEPT ![w] = "deliver"]
  /\ UNCHANGED <<clock, inbox, stamp, owed, current, convVars, history, storeVars>>

(* The steps of OnEvent before its span.                                   *)
Measure(w) ==
  /\ phase[w] = "deliver"
  /\ Sink!Count(w) \/ Sink!Score(w) \/ Sink!Publish(w)
  /\ UNCHANGED <<clock, recordVars, convVars, history, storeVars>>

(* OnEvent's span; when it returns the worker turns to its next message.   *)
Trace(w) ==
  LET more == inbox[w] # <<>>
  IN /\ phase[w] = "deliver"
     /\ Sink!StartSpan(w)
     /\ traced' = traced \cup {[key |-> current[w].key, born |-> current[w].born,
                                trace |-> Sink!TraceFor(current[w].key)]}
     /\ delivered' = delivered + 1
     /\ current' = [current EXCEPT ![w] = NoEvent]
     /\ stamp' = [stamp EXCEPT ![w] = IF more THEN stamp[w] ELSE 0]
     /\ phase' = [phase EXCEPT ![w] = IF more THEN "record" ELSE "idle"]
     /\ UNCHANGED <<clock, inbox, owed, convVars, captured, loops, serial, storeVars>>

(* The steps of Record, which nothing outside the worker can block.        *)
Work(w) == Correlate(w) \/ NotifyEvict(w) \/ NotifyEvent(w) \/ Measure(w) \/ Trace(w)

Quiescent == \A w \in Worker : phase[w] = "idle"

(* The bounds are reached and every Record has returned.                   *)
BoundReached ==
  /\ Quiescent /\ captured = MaxMessages /\ clock = MaxClock
  /\ UNCHANGED vars

Next == Tick \/ (\E w \in Worker : Capture(w) \/ Work(w)) \/ BoundReached

(* A goroutine in Record keeps running; nothing obliges bots to talk.      *)
Spec == Init /\ [][Next]_vars /\ \A w \in Worker : WF_vars(Work(w))

-----------------------------------------------------------------------------

TypeOK ==
  /\ clock \in 1..MaxClock
  /\ phase \in [Worker -> {"idle", "record", "notify", "deliver"}]
  /\ \A w \in Worker : stamp[w] <= clock /\ Len(inbox[w]) <= MaxBatch
  /\ Store!TypeOK
  /\ Sink!TypeOK

(* Whatever the interleaving of the workers, the store's list and map stay *)
(* in step and within capacity, windows exist for live conversations only  *)
(* and never exceed their size.                                            *)
StoreConsistent ==
  /\ Store!ListMatchesMap
  /\ Store!Bounded
  /\ \A k \in Key : /\ Len(window[k]) <= LoopWindowSize
                    /\ window[k] # <<>> <=> k \in lmap
                    /\ events[k] > 0 <=> k \in lmap

(* The messages of captured exchanges that are still to be recorded.       *)
Waiting == UNION {{w} \X DOMAIN inbox[w] : w \in Worker}

(* No event is lost, duplicated or invented between the capture of an      *)
(* exchange and its span: every captured message is waiting, in delivery,  *)
(* or has been counted and traced, evictions and batches notwithstanding.  *)
EveryEventDelivered ==
  LET inFlight == {w \in Worker : phase[w] \in {"notify", "deliver"}}
      counted  == {w \in Worker : pc[w] \in {"score", "publish", "span"}}
  IN /\ captured = Cardinality(Waiting) + Cardinality(inFlight) + delivered
     /\ totalMessages = delivered + Cardinality(counted)

(* Once all calls have returned the counters agree with the store: as many *)
(* messages as captured, as many loops as the detector reported. When      *)
(* Records have not overlapped, the gauge is the ratio of the two.         *)
MetricsSettle ==
  Quiescent =>
    /\ totalMessages = captured /\ totalLoops = loops
    /\ serial => spamRatio = [loops |-> totalLoops, total |-> totalMessages]

(* As long as no Record overlapped another's notifications, two spans are  *)
(* in one trace exactly when they belong to the same conversation between  *)
(* its creation and its eviction: a conversation that was evicted and      *)
(* started again gets a new trace.                                         *)
TracesFollowConversations ==
  serial => \A s, u \in traced :
              s.trace = u.trace <=> (s.key = u.key /\ s.born = u.born)

(* When Records have not overlapped, the trace index holds exactly the     *)
(* live conversations between two of them: it is as bounded as the store.  *)
IndexMirrorsStore ==
  serial /\ Quiescent => {k \in Key : index[k] # Sink!NoTrace} = lmap

(* What the README says of the trace index: it cannot outlive its          *)
(* conversations, once every Record has returned.                          *)
IndexNeverOutlives ==
  Quiescent => {k \in Key : index[k] # Sink!NoTrace} \subseteq lmap

(* What the metric's help text says: the gauge lies in 0.0-1.0.            *)
RatioAtMostOne == Sink!RatioAtMostOne

(* Every captured message ends up in a span: no Record gets stuck.         *)
EventuallyDelivered ==
  \A n \in 1..MaxMessages : captured >= n ~> delivered >= n
=============================================================================

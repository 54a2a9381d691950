# b2bdbg: a TLA+ verification project

b2bdbg is a debugging proxy between Telegram bots and the Bot API. It forwards
every call unchanged, taps a bounded copy of the bodies, parses the copy into
messages between bots, correlates the messages into conversations, detects
loops, and publishes the result as OpenTelemetry spans and Prometheus metrics.
This directory holds TLA+ models of that program, TLC configurations that check
them on small instances, and theorems about them that TLAPS has checked. Paths
like `store.go:280` are those of `src/internal/...`.

## 1. The system

| part | state | operations | with whom |
|---|---|---|---|
| process (`cmd/b2bdbg/main.go`) | where `run()` is, `errCh`, signal context, exit code | start, select on signal or server error, shutdown with a deadline, flush | server, tracer provider |
| HTTP server (`server/server.go`) | listener, active calls | `Start`, `Shutdown`, admin handlers | process, proxy, registry (`Snapshot`) |
| reverse proxy and webhook ingress (`proxy/proxy.go`) | per call: tap state | `ServeHTTP`, `modifyResponse`, `errorHandler`, webhook `ServeHTTP`, `tapBody`, `decodeCapturedBody` | `Sink.Record` of the store, synchronously |
| parser (`capture/parse.go`) | none | one exchange to messages; `getMe` fills the registry | registry |
| bot registry (`capture/registry.go`) | `idToHash`, `hashToID`, `insertOrder` under one mutex | `Register`, lookups, `Snapshot`, `Len` | parser, debug endpoint |
| conversation store (`capture/store.go`, `conversation.go`) | LRU list, map, conversations (window, events, last seen) under one mutex | `Record`, eviction by age and by capacity, `detectLoop` | listeners, called after the mutex is released |
| telemetry sink (`telemetry/sink.go`) | two atomic counters, the ratio gauge, the trace index under its own mutex | `OnEvent`, `OnEvict` | tracer provider, Prometheus |
| tracer provider (`telemetry/provider.go`) | batch of finished spans | create, flush and shut down | collector |
| mock Telegram (`examples/support-team/mocktelegram/mock.go`) | per bot a bounded queue and the wake channels of its open polls, one mutex | `getUpdates` with long poll, `sendMessage` | bots, through the proxy |
| support-team bots and driver (`examples/support-team/bots/bots.go`, `main.go`) | `r.pending` of the router under a mutex, the library's update offset per bot, the task deadline | `Run`, `handleMessage`, `handleIncomingReply`, `HandleTask`, `runScriptedTraffic` | mock, through the proxy |
| configuration, Bot API types, deployment | - | - | not modelled, see section 8 |

A call runs on one goroutine from the tap to the last listener: handler,
`Record`, parser (registry lock, possibly twice), store lock, then `OnEvict` and
`OnEvent` without the store lock. Many calls do so at once.

The example is a closed system around the proxy: a driver gives the router a task
(`HandleTask`), the router sends it to a specialist bot and waits on a channel, the
specialist's answer comes back as an update of the router, whose `Run` loop puts it
into a channel of `r.pending`. Every hop is a `sendMessage` of one bot and a
`getUpdates` of another.

Hard behaviours:

* goroutines between the store's unlock and their listener calls, whose
  deliveries overtake each other;
* three separately updated numbers behind one gauge;
* exchanges stamped before they queue for the store lock, so time runs backwards
  inside the store, while both eviction by age and loop pruning compare times;
* a registry whose answer may change between two lookups of one parse;
* token rotation and FIFO eviction on a two-way map;
* the order in which an update and the reply to it are recorded;
* bodies at and around the cap, reads that break off, failed decompression;
* shutdown: signal, listener error, deadline and active calls in any order;
* long polls that register a channel under the mutex and sleep outside it, senders
  that signal outside it, queues that are full, answers that are lost;
* replies that are matched to tasks by arrival, tasks that are given up.

`PROJECT.json` lists each of these as a hazard at its line, with the properties
that would catch it.

## 2. Modules

| module | what it is | corresponds to |
|---|---|---|
| `BotDirectory` | abstract: a bounded first-in-first-out list of (bot, hash) rows | what `Snapshot` shows |
| `BotRegistry` | the registry: `Register` is the early returns plus one of `Rotate`, `Learn`, `LearnEvicting` | `registry.go` |
| `Selection` | operators: the entries of a sequence at a set of positions, in their order | loops that filter a slice in place |
| `LoopWindow` | operators of loop detection: `loopContentKey`, pruning, matching, capping | `conversation.go:78-168` |
| `LoopDetector` | one conversation shown a sequence of messages, with the complete log as history | `detectLoop` |
| `ExpiringCache` | abstract: a bounded set of entries that expire | what the store promises to remember |
| `ConversationCache` | list, map and last-seen times; `Record` is the critical section of `recordOne`: stale entries are popped from the tail, then `Found`, `Created` or `CreatedEvicting` | `store.go:229-280, 302-367` |
| `TelemetrySink` | threads in `OnEvent`, one step per atomic operation (`Count`, `Score`, `Publish`, `StartSpan`), and `OnEvict` | `sink.go:123-241, 276-280` |
| `CapturePipeline` | workers in `Record`: `Capture` an exchange, `Correlate` each message under the lock, then `NotifyEvict`, `NotifyEvent`, `Measure`, `Trace`. Composes `ConversationCache`, `LoopWindow` and `TelemetrySink` | `store.go:174-297` |
| `Resolution` | a goroutine in the parser (`BeginOutbound`, `Resolve`, `Classify`, `ParseInboundUpdate`, `ParseGeneric`) while others register bots. Composes `BotRegistry` | `parse.go` |
| `BodyTap` | operators: what is captured, what is left for the next reader, what the parser gets, the truncated flag | `proxy.go:436-579` |
| `ProxyServer` | `main` (`run()`), `serve` (the goroutine around `Start`) and the calls in both handlers. Uses `BodyTap` | `main.go:213-321`, `server.go:196-222`, `proxy.go:189-431` |
| `UpdateFeed` | abstract: per bot a bounded feed, of which every update is received once and in order; received updates take up room until they are confirmed | what `getUpdates` promises |
| `MockTelegram` | the mock: `GetUpdates` (first critical section), then `Woken`, `TimeOut` or `Leave` (second one); `SendMessage` (critical section), then one `Signal` per listener | `mock.go:50-273` |
| `SupportTeam` | pollers, `Run` loops, and the driver in `HandleTask`, step by step from `Dispatch` to `Notify`. Extends `MockTelegram` | `bots.go`, `main.go:353-507` |
| `MC*` | instances for TLC | |
| `*Proofs` | theorems | |

`ProxyServer` contains `Record` as one step (`journal`); `CapturePipeline` is the
inside of that step. `CapturePipeline` takes messages already parsed;
`Resolution` is how they come about. `BotRegistry` is instantiated by
`Resolution` with the same variables. `SupportTeam` has the proxy as a wire that
may lose a call on the way there or back, which is all its users see of it.

### Abstractions

* Go maps are total functions whose zero value stands for an absent key; the code
  never stores a zero value.
* A text is its identity: SHA-256 prefixes are taken to be injective, and so is
  `syntheticChatID`, and `convID` of a key.
* Times are small integers, the zero time is 0. `CapturePipeline` has a clock;
  `ConversationCache` and `LoopDetector` have timestamps at most `MaxSkew`
  behind the newest one. The skew is how long an exchange waits between its
  stamp and the store lock, plus what the wall clock is set back by.
* A body is its size, whether it breaks off after that, the first token of its
  `Content-Encoding`, and whether it is still encoded once that is undone (`layered`). What
  a decompressor makes of a copy is an input. The tap of the request body uses the
  same `tapBody`; its copy is not followed.
* Prometheus counters are merged with the atomics incremented next to them.
  Token cost and span attributes are functions of one event and are left out.
* Chat ids are bots, humans, groups and names. A string such as "0" or "-",
  which is neither a name nor an id for the parser, is not distinguished.
* Bots are external: a bot that has received an update may send a call.
* `OnEvent` and `OnEvict` of the sink are the only listener, as in `main.go`.
* In the example a text is who wrote it, which message it answers, and whether it
  quotes an amount above `RefundThreshold`.
* The poller of the `tgbotapi` library is external: one `getUpdates` at a time per bot,
  always with a timeout (the bots ask for one second), the offset one behind the
  last update received, and the same offset again after an error. A bot
  that is told to stop while its process ends is not followed.
* `runScriptedTraffic` in duration mode asks the clock whether to go on; here
  the script is the number of iterations. `Expire` and `Interrupt` happen only
  where the driver looks at a context; the pause between iterations is left out.

Definitions called "mutant" in a module are plausible wrong versions of the
definition after them. No specification uses them; each shows that a property
notices that mistake.

## 3. Runs

| run | bounds | what it shows |
|---|---|---|
| `registry` | 4 bots, 3 entries, 2 shared hashes and one own hash per bot | the two maps and the order agree through rotation, eviction and relearning; a bot under a hash of its own is found both ways; the registry implements `BotDirectory` |
| `loop_detector` | window 3, TTL 2, times to 4, skew 2, 5 messages | the depth is that of a real repeat, never overstated, and exact while times are ordered |
| `conversation_cache` | 4 keys, capacity 3, TTL 2, times to 5, skew 2 | list and map agree, order and staleness stay within the skew, every departure is reported once and nothing else is, a conversation that expires and is recreated by one message included; implements `ExpiringCache` |
| `telemetry_sink` | 3 threads, 2 conversations, 4 events, 1 eviction each | concurrent first events share a trace; evictions separate traces; loops never exceed messages |
| `capture_pipeline` | 2 workers, 3 keys, capacity 2, TTL 1, batches of 2, 3 messages, clock to 2 | no event lost, repeated or invented; totals agree at rest; traces, index and gauge agree with the store as long as no `Record` overlapped another's listener calls; each message ends in a span |
| `resolution` | 2 bots, 1 human, 1 group, 1 name, 2 hashes, registry of 1 | recipient and diagnostic agree although looked up separately; the diagnostic is right about bots and groups whose standing did not change meanwhile (of humans nothing is claimed, see below); no addressee is lost |
| `proxy_server` | 2 calls, cap 1, 8 bodies around the cap | exit 0 means that no call is open and no span was left behind by a flush that succeeded; each answered call recorded once, a poll before the replies to it; the truncated flag is never raised without a gap, and a gap without it is one of three known cases; a signal ends the process |
| `support_team` | router, refund, order and approval bot; the refund of the example's script, and its order enquiry twice; queues of 2; 1 lost call | a poll never sleeps on updates; each bot gets its updates once and in order (implements `UpdateFeed`) unless its queue was full; replies go to the task that asked; a task hangs for the two reasons named only; the driver ends |

The bounds are the smallest in which the cases meet: a third conversation at
capacity two forces eviction, TTL 1 with a clock of two makes a message expire
its own conversation, two workers are what an overtaken delivery needs, a batch
of two exercises a worker that returns to the lock. Four bots on three entries
allow evicting one bot while another has taken its hash. In `telemetry_sink` the
bounds guard the arrival of calls only. Symmetry is used there alone; the run
has no liveness property.

In `support_team` a queue of two overflows (the repeated request and the
answer to it are in flight together, unconfirmed updates count), one fault is enough for
each kind of loss, and a second iteration for a task that follows an abandoned
one. The two tasks in one iteration, as the script has them, do not fit the time a
run may take: what they add is that the second reply to a refund may be taken
for the next task, which `AnswersOwnRequest` excludes by `repeated`.

Steps of `BoundReached`, `AllReturned` and `Exited` stutter where the bounds are
used up or the process has ended, so deadlock checking stays on in every run.

### What the program does not do

Four runs end in a counterexample, each to a sentence of the repository:

* `index_outlives`: README lines 483-484 say the trace index "cannot outlive its
  conversations". Worker 1 records into conversation k and leaves the lock;
  worker 2 evicts k and runs `OnEvict`; worker 1 runs `OnEvent`, which
  stores the trace of k again. It stays until k is recorded and evicted once more.
* `ratio_above_one`: `metrics.go:48` gives the range 0.0-1.0. A worker takes
  `total`, others count messages and loops, it reads `loops` and publishes more
  loops than messages. `MetricsSettle` shows that serial calls are right.
* `exit_without_flush`: `provider.go:26-27` asks for a shutdown of the provider
  before the process exits; `run()` skips it when the server fails or the
  deadline passes (`main.go:293-296, 303-306`), as an open long poll causes.
* `tap_error_not_transparent`: `proxy.go:267-269` promises byte transparency
  regardless of tap errors; after a failed read `tapBody` returns the original
  reader without the bytes it has consumed.

Other sentences of the repository disagree with its code or with each other; a run
would show no more than the lines do:

* A message to a human is diagnosed `unknown_getme_not_seen`, like one to a bot not yet
  seen: `classifyOutboundResolution` asks only whether the id is positive
  (`parse.go:74-84`), and its own comment says that it may be a user. `parse.go:44-46`,
  README line 432, `docs/span-schema.md:48` and `docs/limitations.md:42` promise
  `non_bot_chat` for humans. `RecipientDiagnosed` therefore speaks of bots and groups.
* The truncated flag is also raised for a body within the cap that cannot be decoded
  (`proxy.go:513-579`, and `docs/span-schema.md:35` agrees), while README line 440,
  `docs/limitations.md:69-70`, `sink.go:195-196` and `telemetry/doc.go:39` say that it
  means a copy cut at the cap, and only that.
* After a read that breaks off within the cap, nothing is captured and the flag is not
  raised (`proxy.go:460-463`), although `proxy.go:103-108` and `docs/span-schema.md:35`
  have it false only when the body was captured in full.
* Of several `Content-Encoding`s only the first is undone (`proxy.go:519-522`); what is
  then parsed is still encoded, and the flag does not tell.

The last two are the silent gaps that `GapObservable` names, next to a tap that is
switched off. Its flag is the response's part of the `Exchange` flag, which is or-ed
with the request's. A failed flush does not change the exit code either
(`main.go:315-321`), so `CleanStop` says nothing of its spans.

Also seen: a webhook delivery is recorded after
the bot has handled it, so replies may be recorded first (`proxy.go:430`);
messages of other methods carry an empty resolution although the attribute is a
closed enum (`parse.go:742`); sends to one `@username` land in two conversations
when only some answers can be parsed (`parse.go:479`); the package comment of `capture`
(`doc.go:22-23`) says no per-conversation state can grow without bound, while
`conv.Events` (`store.go:270`) is only appended to as long as a conversation lives.

In the example: `CostlyRefundApproved` of `SupportTeam` is false, as the reply to the
request repeated on purpose (`bots.go:165`) may be taken for the approval; and so
is `FastReplyKept`, although the comment at `bots.go:147` says the channel is made
early "to avoid race with fast replies": it is put into the map after the request
was answered (`bots.go:158`). A direct message between two bots behind the
proxy is recorded at both ends, which with the mock looks like a loop
(`parse.go:729`). These concern a demo, so they are not runs.

## 4. Fairness

`CapturePipeline`: weak fairness of `Work(w)`, the steps of one goroutine inside
`Record`. Nothing in them waits for anything but short critical sections, and the
Go scheduler runs a runnable goroutine. No fairness of `Capture` or `Tick`: bots
need not talk.

`ProxyServer`: weak fairness of `Run` (the main goroutine), `Listen`, `Expire` (time
passes) and `Closing /\ Serve` (a closed listener makes `Serve` return). None of
the calls: a long poll may never end, which is why the deadline matters. A
flush is one step, since it is bounded by the same context. That `Shutdown` waits for
every request, also one that arrives on an open connection after the listener was closed
(`Accept` allows it), is the contract of `net/http`.

`SupportTeam`: weak fairness of `DriverStep` (the driver's goroutine), of
`SignalNext(Driver)` (the server answers the driver's calls: its sends to channels do
not block) and of `Expire` (time passes). None of the bots and pollers:
`DriverReturns` must hold even if they never answer.

The other modules state safety only.

## 5. Proofs

All theorems hold for every value of the constants that satisfies the named
assumptions of the modules.

* `BotRegistryProofs` (from `RegistryAssumption`). The invariant is the
  conjunction of types, `OrderMatchesMap`, `Bounded` and `ReverseSound`; the
  capacity needs the order to list exactly the known ids, so that the size that
  the code compares is the length of the order. `RegistrySafe`,
  `RegistryBidirectional` (with: every registered pair was once an answer) and
  `RegistryImplementsDirectory`, a step simulation under `entries <- Listing`.
* `ConversationCacheProofs` (from `CacheAssumption`). `NoneOverdue` is not inductive:
  popping stops at the first fresh entry, so it needs `RecencyOrder`, which
  needs that nothing was seen after `newest` and nothing arrives more than
  `MaxSkew` behind it. The three outcomes of a record are brought to one form
  (`Outcome`) that says which entry of the old list each new one was.
  `CacheSafe`, `CacheReportsEvictions` (the report is the set of conversations that ended:
  what left the map, and the expired end of the list, without repetition),
  `CacheImplementsExpiringCache`, and
  `OrderedTimestampsLeaveNoneStale`, which says that the comment of
  `evictStaleLocked` is exactly right when the skew is 0.
* `TelemetrySinkProofs` (from `SinkAssumption`). `OneTracePerEpoch` needs that a span of
  the present epoch is under the trace in the index and that an indexed trace has
  a span of this epoch. `TracesFollowEpochs`; `CountersOrdered`, where the
  events between the two counters make the inequality inductive.
* `ProxyServerProofs` (from `ServerAssumption`, `BodyTapAssumption`). `CleanStop`
  needs that a nil result of the server is only sent once `run()` has left the
  select, and that no call starts after `Shutdown` returned; the order needs
  that a cause was recorded when it was chosen. `StopIsClean`,
  `RecordedOnceInOrder`; `GapsObservable`, for every cap, 0 included, from a lemma
  about the tap alone (`TapObservable`).
* `LoopDetectorProofs` (from `LoopWindowAssumption`). `WindowBounded`: types and the size
  of the window. `LoopsAreReal` (`DepthSound`) needs that the window is the log at ascending
  positions (`Remembered`): a match in it is a match in the log, and at least as far
  back. `LoopsAreFound` (`DepthExact`) needs that, while timestamps are ordered, the
  window is the end of the log, and that whatever lies before it is too far back or expired
  (`Recent`). The lemmas `KeepSelects` and `KeepSuffix` say what filtering a slice leaves;
  they count positions, as an induction over the slice is out of reach.
* `CapturePipelineProofs` (from `PipelineAssumption`). `StoreIsConversationCache` and
  `SinkIsTelemetrySink`: every step of the pipeline is a step of the cache or of the sink,
  or leaves it alone, and their assumptions hold, so the theorems above apply
  to the composition. `IndexAndTracesFollowStore`: `IndexMirrorsStore` and
  `TracesFollowConversations` hold while Records do not overlap. The invariant says that
  index and store differ by just what the one notifying worker has still to say, and
  that an event finds no trace only if it is its conversation's first. It needs
  nothing of the loop windows.
  `NoEventLost` (`EveryEventDelivered`) counts the messages that wait, as pairs of a
  worker and a position, those in flight, and those delivered (`Balance`); it needs that
  a worker's phase and its place in `OnEvent` go together (`InStep`). `MetricsAgree`
  (`MetricsSettle`) adds the loops that were found and are not scored, and that without
  overlap the gauge lags behind the counters only while its one worker is about to set it
  (`Gauge`). `StoreStaysConsistent` (`StoreConsistent`) adds the windows to the list and the
  map, which need `CacheAssumption`'s bound on timestamps (`Clocked`); `PipelineTyped`.
* `ResolutionProofs` (from `ResolutionAssumption`, `SyntheticAssumption`). The
  properties speak of a finished parse; the invariant carries up to there what
  the first lookup found and what the registry has been since (`Pending`,
  `LookedUp`). `ParsedMessagesConsistent`, and `MessagesTyped` for the types.
* `SupportTeamProofs` (from `MockAssumption`, `TeamAssumption`). `NoLostWakeup` needs that
  a waiting call is among the listeners of its bot, which its registration in the
  same critical section gives. It relies on one poll per bot, as
  `TeamAssumption` has it. `OneChannel` needs that the map is empty outside the waits
  and as soon as the task has its reply. `WakeupsKept`, `OneChannelInFlight`.
  `TeamImplementsFeed`: the refinement under `unread <- Unread`, `held <- Held`. Its
  invariant (`Lanes`) says that the ids in each queue ascend, so that an offset cuts the
  queue in two; that a poll that waits or leaves has confirmed all that came before
  it; and that the answer of a leaving poll is the beginning of what is unread. `TeamTyped`
  adds what the driver and the map know of ids (`Ids`).
  The last two look at the letters of each bot (`Letters`, `Load`): what is unread
  or in its channel, whether a poll holds a copy or not. Every step leaves them alone,
  adds one or takes one away. `HangsExplained`: unless something was lost, a letter that
  leads to the awaited reply is under way (`OnItsWay`). `OwnRequestAnswered`: until a
  request is repeated or a task given up, that letter is the only one, and there is none
  once the reply is there (`Single`). Both need that only the router writes to the others
  (`Addressed`). `TeamAssumption` says that the customer is no bot and that the
  bots which the script needs exist: `main` starts all of them.

Every safety property of the passing runs is proved. The liveness properties
`EventuallyDelivered`, `SignalStops` and `DriverReturns` are out of the prover's reach and
only model-checked.

## 6. Hazards without a property

An old `getMe` answer parsed late puts a rotated hash back: the registry has no order
of answers, and nothing promises otherwise. Updates delivered again by Telegram
are recorded again and may look like loops. Two webhook labels can share an
environment variable. The order of webhook records, the split of named chats, the event list of a
conversation, the duplicate taken for an approval, the reply that comes too early for
its channel and the message recorded at both ends are described above. A listener that
blocks would hold back the bot's response; those of this repository do not, and the
model assumes it.

## 7. Plan

Done, in this order: registry, loop detection, conversation cache, sink, their
composition, parser resolution, body tap, process and calls, mock and support team.

Next:

1. Model: the chain parser to store for one exchange (a skipped message, a batch with
   unusable updates), request bodies in `ProxyServer`, the batch queue of the tracer
   provider with its drop on overflow.
2. Compose: `SupportTeam` with `CapturePipeline`, so that the order in which hops are
   recorded is judged against the order in which they happened.

## 8. Not modelled

* Configuration (`config.go`): read once, before anything concurrent starts.
* `pkg/botapi`: data types and `ParseMethod`, a pure function of the path.
* Body decoding (JSON, form, multipart) and media keys: reduced to their outcome.
* Health check command and admin handlers: read-only.
* net/http, `httputil.ReverseProxy`, the OpenTelemetry SDK, Prometheus: external, and
  modelled only as far as the code relies on them.
* Of the example: embedded or external proxy, the traffic plan's environment variables, the
  pause between iterations. Deployment, scripts, CI.

## 9. Checking

`tlc -config <run>.cfg <module>` with the pairs listed in `PROJECT.json`, and
`tlapm <module>Proofs.tla`. The longest run, `support_team`, takes
about two and a half minutes on two workers, `capture_pipeline` and `proxy_server` less than a
minute, the others seconds.

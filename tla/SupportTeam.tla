---------------------------- MODULE SupportTeam ----------------------------
(***************************************************************************)
(* The support-team example (src/examples/support-team): a scripted driver *)
(* gives tasks to the router bot (RouterBot.HandleTask), which asks a      *)
(* specialist bot and, for a costly refund, the approval bot, while the    *)
(* Run loop of the router hands incoming messages to the waiting tasks.    *)
(* All calls pass the b2bdbg proxy unchanged and end in MockTelegram.      *)
(*                                                                         *)
(* Goroutines: the driver, and per bot the poller of the tgbotapi library  *)
(* (external) and the Run loop. A text is reduced to who wrote it, the     *)
(* message it answers, and whether it quotes an amount above               *)
(* RefundThreshold.                                                        *)
(***************************************************************************)
EXTENDS MockTelegram

CONSTANTS
  Scripts,          (* sequences of iterations, which are sequences of tasks *)
  MaxFaults         (* bound: requests or answers that get lost            *)

Driver == "driver"
Customer == "customer"
Router == "router"
Approver == "human-approve"

(* Tasks: a refund above the threshold, one below, an order or sales       *)
(* enquiry.                                                                *)
Task == {"costly refund", "small refund", "order", "sales"}
IsRefund(t) == t \in {"costly refund", "small refund"}

(* classify                                                                *)
Specialist(t) == IF IsRefund(t) THEN "refund" ELSE t

(* The customer is no bot, and those that the script needs are there.      *)
ASSUME TeamAssumption ==
  /\ {Router, Approver} \subseteq Bot /\ Customer \notin Bot
  /\ Poll = Bot /\ \A b \in Bot : Owner[b] = b
  /\ Sender = Bot \cup {Driver}
  /\ Scripts \subseteq Seq(Seq({t \in Task : Specialist(t) \in Bot}) \ {<<>>})
  /\ MaxFaults \in Nat

VARIABLES
  offset,           (* the library's config.Offset of each bot             *)
  inbox,            (* updates in each bot's channel                       *)
  pending,          (* r.pending: message ids with a reply channel         *)
  script,           (* the iterations; the first one is running            *)
  pc,               (* where the driver is in HandleTask                   *)
  channel,          (* the message id whose channel HandleTask awaits      *)
  reply,            (* what is in that channel                             *)
  expired,          (* taskCtx is done                                     *)
  interrupted,      (* ctx is done: SIGINT or SIGTERM                      *)
  faults,           (* calls that failed so far                            *)
  asked,            (* history: the ids of the request that is awaited     *)
  repeated,         (* history: a request was ever sent twice              *)
  abandoned,        (* history: a task was ever given up unanswered        *)
  dropped,          (* history: an update ever met a full queue            *)
  missed            (* history: an awaited reply came and was not kept     *)

client  == <<offset, inbox>>
driver  == <<script, pc, channel, expired, interrupted, asked, repeated, abandoned>>
replies == <<pending, reply, missed>>
vars == <<mock, client, driver, replies, faults, dropped>>

NoReply == <<>>

(* main registers the bots before they start.                              *)
Init ==
  /\ New(Bot)
  /\ offset = [b \in Bot |-> 0]
  /\ inbox = [b \in Bot |-> <<>>]
  /\ pending = {}
  /\ script \in Scripts
  /\ pc = "begin"
  /\ channel = 0
  /\ reply = NoReply
  /\ expired = FALSE /\ interrupted = FALSE
  /\ faults = 0
  /\ asked = {}
  /\ repeated = FALSE /\ abandoned = FALSE /\ dropped = FALSE /\ missed = FALSE

Fail == faults < MaxFaults /\ faults' = faults + 1

-----------------------------------------------------------------------------
(* The pollers: GetUpdatesChan of the library.                             *)

BeginPoll(b) ==
  /\ GetUpdates(b, offset[b])
  /\ UNCHANGED <<client, driver, replies, faults, dropped>>

EndOfPoll(b) == Woken(b) \/ TimeOut(b) \/ Leave(b)

(* The poller puts the updates into the channel and moves the offset on.   *)
Receive(b, updates) ==
  /\ inbox' = [inbox EXCEPT ![b] = inbox[b] \o updates]
  /\ offset' = IF updates = <<>> THEN offset
               ELSE [offset EXCEPT ![b] = updates[Len(updates)].id + 1]

EndPoll(b) ==
  /\ EndOfPoll(b)
  /\ Receive(b, Answer(b))
  /\ UNCHANGED <<driver, replies, faults, dropped>>

(* The answer gets lost; the library polls again with the same offset.     *)
LosePoll(b) ==
  /\ EndOfPoll(b)
  /\ Fail
  /\ UNCHANGED <<client, driver, replies, dropped>>

-----------------------------------------------------------------------------
(* Sending                                                                 *)

(* Bot from, on goroutine s, sends a message to chat.                      *)
Send(s, from, chat, answers, costly) ==
  /\ SendMessage(s, from, chat, [from |-> from, re |-> answers, costly |-> costly])
  /\ dropped' = (dropped \/ (chat \in Bot /\ Len(queue[chat]) = MaxQueueDepth))

(* The call of goroutine s has been answered, or none is open.             *)
Answered(s) == owing[s] = {}

-----------------------------------------------------------------------------
(* The Run loops                                                           *)

(* The loop of b takes the next update from the channel and handles it;    *)
(* its goroutine is free for that once its last call has been answered.    *)
TakeUpdate(b) ==
  /\ inbox[b] # <<>> /\ Answered(b)
  /\ inbox' = [inbox EXCEPT ![b] = Tail(inbox[b])]

(* A specialist or the approval bot answers the author of the message, not *)
(* the chat it came in; what it writes quotes what it was sent.            *)
HandleMessage(b) ==
  /\ b # Router /\ TakeUpdate(b)
  /\ LET m == Head(inbox[b])
     IN Send(b, b, m.body.from, MessageID(m), m.body.costly)
  /\ UNCHANGED <<offset, driver, replies, faults>>

(* Its call fails on the way to the server: a warning is all.              *)
HandleMessageFails(b) ==
  /\ b # Router /\ TakeUpdate(b)
  /\ Fail
  /\ UNCHANGED <<mock, offset, driver, replies, dropped>>

(* Mutant of Take: the entry stays in the map.                             *)
TakeKeeping(message) ==
  IF pending = {} THEN UNCHANGED <<pending, reply>>
  ELSE \E id \in pending :
         /\ reply' = IF id = channel THEN message ELSE reply
         /\ UNCHANGED pending

(* Any entry of r.pending is removed and its channel, which has room for   *)
(* one message, gets this one. Only HandleTask's present channel is read.  *)
Take(message) ==
  IF pending = {} THEN UNCHANGED <<pending, reply>>
  ELSE \E id \in pending :
         /\ pending' = pending \ {id}
         /\ reply' = IF id = channel THEN message ELSE reply

(* handleIncomingReply                                                     *)
HandleIncomingReply ==
  /\ TakeUpdate(Router)
  /\ LET m == Head(inbox[Router])
     IN /\ Take(m.body)
        /\ missed' = (missed \/ (m.body.re \in asked /\ reply' = NoReply))
  /\ UNCHANGED <<mock, offset, driver, faults, dropped>>

-----------------------------------------------------------------------------
(* The driver: runScriptedTraffic and HandleTask                           *)

task == Head(Head(script))
Costly == task = "costly refund"

(* The head of the loop over the iterations. In duration mode the clock    *)
(* decides how many there are, here the script does.                       *)
BeginIteration ==
  /\ pc = "begin"
  /\ pc' = IF interrupted \/ script = <<>> THEN "exit" ELSE "send"
  /\ expired' = interrupted
  /\ UNCHANGED <<mock, client, replies, faults, dropped, script, channel, interrupted,
                 asked, repeated, abandoned>>

(* The request to the specialist reaches the server.                       *)
Dispatch ==
  /\ pc = "send"
  /\ Send(Driver, Router, Specialist(task), 0, Costly)
  /\ pc' = "sent"
  /\ channel' = NextMessageID
  /\ reply' = NoReply
  /\ asked' = {NextMessageID}
  /\ UNCHANGED <<client, script, pending, missed, faults, expired, interrupted,
                 repeated, abandoned>>

(* Its answer is there: only now is the reply channel put into r.pending.  *)
RegisterChannel ==
  /\ pc = "sent" /\ Answered(Driver)
  /\ pending' = pending \cup {channel}
  /\ pc' = IF IsRefund(task) THEN "repeat" ELSE "wait"
  /\ UNCHANGED <<mock, client, script, channel, reply, missed, faults, dropped, expired,
                 interrupted, asked, repeated, abandoned>>

(* A refund is requested a second time.                                    *)
Repeat ==
  /\ pc = "repeat"
  /\ Send(Driver, Router, Specialist(task), 0, Costly)
  /\ pc' = "wait"
  /\ asked' = asked \cup {NextMessageID}
  /\ repeated' = TRUE
  /\ UNCHANGED <<client, replies, faults, script, channel, expired, interrupted, abandoned>>

(* The specialist's answer. A refund above the threshold needs approval.   *)
TakeReply ==
  /\ pc = "wait" /\ Answered(Driver) /\ reply # NoReply
  /\ pc' = IF IsRefund(task) /\ reply.costly THEN "ask" ELSE "notify"
  /\ UNCHANGED <<mock, client, replies, faults, dropped, script, channel, expired,
                 interrupted, asked, repeated, abandoned>>

AskApproval ==
  /\ pc = "ask"
  /\ Send(Driver, Router, Approver, 0, reply.costly)
  /\ pc' = "asked"
  /\ channel' = NextMessageID
  /\ reply' = NoReply
  /\ asked' = {NextMessageID}
  /\ UNCHANGED <<client, script, pending, missed, faults, expired, interrupted,
                 repeated, abandoned>>

RegisterApproval ==
  /\ pc = "asked" /\ Answered(Driver)
  /\ pending' = pending \cup {channel}
  /\ pc' = "await"
  /\ UNCHANGED <<mock, client, script, channel, reply, missed, faults, dropped, expired,
                 interrupted, asked, repeated, abandoned>>

TakeApproval ==
  /\ pc = "await" /\ reply # NoReply
  /\ pc' = "notify"
  /\ UNCHANGED <<mock, client, replies, faults, dropped, script, channel, expired,
                 interrupted, asked, repeated, abandoned>>

(* Mutant of GiveUp: the wait for an approval does not look at taskCtx.    *)
GiveUpUnlessApproving ==
  /\ pc = "wait" /\ Answered(Driver) /\ expired
  /\ pc' = "next"
  /\ abandoned' = TRUE
  /\ UNCHANGED <<mock, client, replies, faults, dropped, script, channel, expired,
                 interrupted, asked, repeated>>

(* taskCtx is done first: the entry in r.pending stays.                    *)
GiveUp ==
  /\ pc \in {"wait", "await"} /\ Answered(Driver) /\ expired
  /\ pc' = "next"
  /\ abandoned' = TRUE
  /\ UNCHANGED <<mock, client, replies, faults, dropped, script, channel, expired,
                 interrupted, asked, repeated>>

(* The customer, who is no bot, is told.                                   *)
Notify ==
  /\ pc = "notify"
  /\ Send(Driver, Router, Customer, 0, reply.costly)
  /\ pc' = "next"
  /\ UNCHANGED <<client, replies, faults, script, channel, expired, interrupted, asked,
                 repeated, abandoned>>

(* A call of the driver fails on the way to the server. Only the requests  *)
(* whose message id is needed end the task.                                *)
RequestLost ==
  /\ pc \in {"send", "repeat", "ask", "notify"}
  /\ Fail
  /\ pc' = IF pc = "repeat" THEN "wait" ELSE "next"
  /\ UNCHANGED <<mock, client, replies, dropped, script, channel, expired, interrupted,
                 asked, repeated, abandoned>>

(* It fails on the way back: the message is delivered, the task has ended. *)
AnswerLost ==
  /\ pc \in {"sent", "asked"} /\ Answered(Driver)
  /\ Fail
  /\ pc' = "next"
  /\ abandoned' = TRUE
  /\ UNCHANGED <<mock, client, replies, dropped, script, channel, expired, interrupted,
                 asked, repeated>>

(* The next task of the iteration, under the same deadline, done or not.   *)
NextTask ==
  LET rest == Tail(Head(script))
  IN /\ pc = "next" /\ Answered(Driver)
     /\ script' = IF rest = <<>> THEN Tail(script) ELSE <<rest>> \o Tail(script)
     /\ pc' = IF rest = <<>> THEN "begin" ELSE "send"
     /\ asked' = {}
     /\ UNCHANGED <<mock, client, replies, faults, dropped, channel, expired, interrupted,
                    repeated, abandoned>>

(* The deadline of the iteration passes. Only a wait looks at it, so it may *)
(* as well pass during one.                                                *)
Expire ==
  /\ pc \in {"wait", "await"} /\ ~expired
  /\ expired' = TRUE
  /\ UNCHANGED <<mock, client, replies, faults, dropped, script, pc, channel, interrupted,
                 asked, repeated, abandoned>>

(* A signal, looked at by the waits and by the loop over the iterations.   *)
Interrupt ==
  /\ pc \in {"begin", "wait", "await"} /\ ~interrupted
  /\ interrupted' = TRUE
  /\ expired' = TRUE
  /\ UNCHANGED <<mock, client, replies, faults, dropped, script, pc, channel, asked,
                 repeated, abandoned>>

SignalNext(s) == Signal(s) /\ UNCHANGED <<client, driver, replies, faults, dropped>>

DriverStep ==
  \/ BeginIteration \/ Dispatch \/ RegisterChannel \/ Repeat \/ TakeReply
  \/ AskApproval \/ RegisterApproval \/ TakeApproval \/ GiveUp \/ Notify \/ NextTask

BotStep(b) == BeginPoll(b) \/ EndPoll(b) \/ HandleMessage(b)

(* The program has ended, and its bots with it.                            *)
Exited == pc = "exit" /\ UNCHANGED vars

Next ==
  \/ /\ pc # "exit"
     /\ \/ DriverStep \/ RequestLost \/ AnswerLost \/ Expire \/ Interrupt
        \/ HandleIncomingReply
        \/ \E b \in Bot : BotStep(b) \/ HandleMessageFails(b) \/ LosePoll(b)
        \/ \E s \in Sender : SignalNext(s)
  \/ Exited

(* The driver's goroutine runs, its calls are answered, and time passes.   *)
Spec ==
  /\ Init /\ [][Next]_vars
  /\ WF_vars(DriverStep) /\ WF_vars(Expire) /\ WF_vars(SignalNext(Driver))

-----------------------------------------------------------------------------

TypeOK ==
  /\ MockTypeOK
  /\ offset \in [Bot -> 0..nextID + 1]
  /\ pending \subseteq 1..nextID
  /\ channel \in 0..nextID
  /\ asked \subseteq 1..nextID
  /\ reply # NoReply => reply.from \in Bot /\ reply.re \in 1..nextID
  /\ faults \in 0..MaxFaults
  /\ interrupted => expired \/ pc \in {"begin", "exit"}

Unread == [b \in Bot |-> Unacknowledged(queue[b], offset[b])]
Held   == [b \in Bot |-> Len(queue[b]) - Len(Unread[b])]

Feed == INSTANCE UpdateFeed WITH
  Capacity <- MaxQueueDepth, issued <- nextID, unread <- Unread, held <- Held

(* Every update is handed to its bot once and in order, whatever answers   *)
(* are lost and however polls and senders interleave, unless the queue of  *)
(* the bot was full.                                                       *)
ImplementsFeed == Feed!Spec

(* Nothing is on its way to a bot, in it, or from it.                      *)
Quiet ==
  /\ \A b \in Bot : Unread[b] = <<>> /\ inbox[b] = <<>>
  /\ \A s \in Sender : Answered(s)

(* The only ways to leave a task waiting for nothing, without a lost call  *)
(* or an overflow, are the two of handleIncomingReply: the reply came      *)
(* before its channel was registered, or another channel was taken for it. *)
HangsOnlyAfterRace ==
  pc \in {"wait", "await"} /\ reply = NoReply /\ Quiet =>
    missed \/ dropped \/ faults > 0

(* As long as no request was sent twice and no task was given up, the      *)
(* customer gets the answer to the present request, although replies are   *)
(* matched to tasks by no more than being the next to arrive.              *)
AnswersOwnRequest ==
  pc = "notify" /\ ~repeated /\ ~abandoned => reply.re \in asked

(* What handleIncomingReply's comment relies on: with one task in flight   *)
(* there is no channel in the map but that of the task, unless a task was  *)
(* given up, which leaves its channel behind for good.                     *)
OneChannel == ~abandoned => pending \subseteq {channel}

(* Not an invariant, although the example's README describes the flow so:  *)
(* a refund above the threshold is answered with an approval. The reply to *)
(* the repeated request may be taken for it.                               *)
CostlyRefundApproved == pc = "notify" /\ Costly => reply.from = Approver

(* Not an invariant, although the comment on HandleTask's channel says so: *)
(* it is there before the reply, so that a fast reply is not lost. It is   *)
(* made before the request is sent, but registered after.                  *)
FastReplyKept == ~missed

(* The traffic ends, whatever the bots do.                                 *)
DriverReturns == <>(pc = "exit")
=============================================================================

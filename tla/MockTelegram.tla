---------------------------- MODULE MockTelegram ----------------------------
(***************************************************************************)
(* The Bot API stand-in of the support-team example                        *)
(* (src/examples/support-team/mocktelegram/mock.go): one bounded queue of  *)
(* updates per bot under one mutex, long polls that register a wake        *)
(* channel, look at the queue, wait, and look again, and senders that      *)
(* signal the channels after they have released the mutex.                 *)
(*                                                                         *)
(* A message gets two ids from one counter: its own, and that of the       *)
(* update that carries it. Chat ids are bots, named by their tokens, or    *)
(* others, to whom nothing is delivered.                                   *)
(***************************************************************************)
EXTENDS Selection

CONSTANTS
  Bot,              (* tokens of the bots                                  *)
  Poll,             (* getUpdates calls that may be open at once           *)
  Owner,            (* Owner[p] is the bot that makes call p               *)
  Sender,           (* goroutines that call sendMessage                    *)
  MaxQueueDepth     (* updates a queue holds                               *)

ASSUME MockAssumption ==
  /\ Owner \in [Poll -> Bot]
  /\ MaxQueueDepth \in Nat \ {0}

VARIABLES
  known,            (* tokens in s.bots                                    *)
  queue,            (* st.queue of each bot                                *)
  listeners,        (* st.listeners of each bot, by the call they wake     *)
  poll,             (* each call: [phase, offset, pending]                 *)
  wake,             (* is there a token in the wake channel of the call?   *)
  owing,            (* channels each sender has still to signal            *)
  nextID            (* s.nextID                                            *)

mock == <<known, queue, listeners, poll, wake, owing, nextID>>

Closed == [phase |-> "closed", offset |-> 0, pending |-> <<>>]

New(registered) ==
  /\ known = registered
  /\ queue = [b \in Bot |-> <<>>]
  /\ listeners = [b \in Bot |-> {}]
  /\ poll = [p \in Poll |-> Closed]
  /\ wake = [p \in Poll |-> FALSE]
  /\ owing = [s \in Sender |-> {}]
  /\ nextID = 1

-----------------------------------------------------------------------------

(* ensureBot, which every request starts with.                             *)
EnsureBot(b) == known' = known \cup {b}

(* Mutant of Unacknowledged: the offset is ignored.                        *)
UnacknowledgedAll(q, offset) == q

(* The queue without the updates that a call with this offset confirms.    *)
Unacknowledged(q, offset) == Keep(q, {i \in DOMAIN q : q[i].id >= offset})

(* Mutant of GetUpdates: the queue is looked at and the channel            *)
(* registered only later, which GetUpdates reduces to not at all.          *)
GetUpdatesUnregistered(p, offset) ==
  LET b    == Owner[p]
      left == Unacknowledged(queue[b], offset)
  IN /\ poll[p].phase = "closed"
     /\ EnsureBot(b)
     /\ queue' = [queue EXCEPT ![b] = left]
     /\ wake' = [wake EXCEPT ![p] = FALSE]
     /\ poll' = [poll EXCEPT ![p] =
                   [ phase   |-> IF left = <<>> THEN "waiting" ELSE "leaving",
                     offset  |-> offset,
                     pending |-> left ]]
     /\ UNCHANGED <<listeners, owing, nextID>>

(* The first critical section of handleGetUpdates with a timeout: confirm, *)
(* copy the queue, register a fresh wake channel. An empty copy waits.     *)
GetUpdates(p, offset) ==
  LET b    == Owner[p]
      left == Unacknowledged(queue[b], offset)
  IN /\ poll[p].phase = "closed"
     /\ EnsureBot(b)
     /\ queue' = [queue EXCEPT ![b] = left]
     /\ listeners' = [listeners EXCEPT ![b] = listeners[b] \cup {p}]
     /\ wake' = [wake EXCEPT ![p] = FALSE]
     /\ poll' = [poll EXCEPT ![p] =
                   [ phase   |-> IF left = <<>> THEN "waiting" ELSE "leaving",
                     offset  |-> offset,
                     pending |-> left ]]
     /\ UNCHANGED <<owing, nextID>>

(* removeListener, and the end of the call. A sender that still holds the  *)
(* channel signals nobody.                                                 *)
RemoveListener(p) ==
  /\ listeners' = [listeners EXCEPT ![Owner[p]] = listeners[Owner[p]] \ {p}]
  /\ owing' = [s \in Sender |-> owing[s] \ {p}]
  /\ wake' = [wake EXCEPT ![p] = FALSE]
  /\ poll' = [poll EXCEPT ![p] = Closed]

(* The updates the answer of the call carries when it returns now.         *)
Answer(p) ==
  IF poll[p].phase = "waiting"
  THEN Unacknowledged(queue[Owner[p]], poll[p].offset)
  ELSE poll[p].pending

(* The second critical section after a wait: confirm and copy once more.   *)
Recheck(p) ==
  /\ poll[p].phase = "waiting"
  /\ queue' = [queue EXCEPT ![Owner[p]] = Answer(p)]
  /\ RemoveListener(p)
  /\ UNCHANGED <<known, nextID>>

(* The select of handleGetUpdates: a signal, or the timeout, or the end of *)
(* the client's connection.                                                *)
Woken(p)   == wake[p] /\ Recheck(p)
TimeOut(p) == ~wake[p] /\ Recheck(p)

(* The second critical section of a call that need not wait.               *)
Leave(p) ==
  /\ poll[p].phase = "leaving"
  /\ RemoveListener(p)
  /\ UNCHANGED <<known, queue, nextID>>

(* Mutant of Deliver: an update that comes to a full queue is kept.        *)
DeliverOverfull(chat, update) ==
  queue' = [b \in Bot |-> IF b = chat /\ b \in known'
                          THEN Append(queue[b], update) ELSE queue[b]]

(* Mutant of Deliver: the queue is full one update too soon.               *)
DeliverShort(chat, update) ==
  queue' = [b \in Bot |-> IF b = chat /\ b \in known' /\ Len(queue[b]) < MaxQueueDepth - 1
                          THEN Append(queue[b], update) ELSE queue[b]]

(* The queue of the bot a message is for takes it, if there is room.       *)
Deliver(chat, update) ==
  queue' = [b \in Bot |-> IF b = chat /\ b \in known' /\ Len(queue[b]) < MaxQueueDepth
                          THEN Append(queue[b], update) ELSE queue[b]]

(* The ids of the next message: msgID is drawn first, then updateID.       *)
NextMessageID == nextID + 1
NextUpdateID  == nextID + 2

(* The id of the message that an update carries.                           *)
MessageID(update) == update.id - 1

(* The critical section of handleSendMessage: message is stamped with its  *)
(* ids, put into the queue of chat, and the listeners there are to be      *)
(* told, whether there was room or not.                                    *)
SendMessage(s, from, chat, message) ==
  /\ owing[s] = {}
  /\ EnsureBot(from)
  /\ nextID' = NextUpdateID
  /\ Deliver(chat, [id |-> NextUpdateID, body |-> message])
  /\ owing' = [owing EXCEPT ![s] = IF chat \in known' THEN listeners[chat] ELSE {}]
  /\ UNCHANGED <<listeners, poll, wake>>

(* The non-blocking send to the next channel, without the mutex. The       *)
(* request is answered after the last one.                                 *)
Signal(s) ==
  \E p \in owing[s] :
    /\ wake' = [wake EXCEPT ![p] = TRUE]
    /\ owing' = [owing EXCEPT ![s] = owing[s] \ {p}]
    /\ UNCHANGED <<known, queue, listeners, poll, nextID>>

-----------------------------------------------------------------------------

MockTypeOK ==
  /\ known \subseteq Bot
  /\ nextID \in Nat
  /\ \A b \in Bot : Len(queue[b]) <= MaxQueueDepth
  /\ listeners \in [Bot -> SUBSET Poll]
  /\ \A p \in Poll : poll[p].phase \in {"closed", "waiting", "leaving"}
  /\ wake \in [Poll -> BOOLEAN]
  /\ owing \in [Sender -> SUBSET Poll]

(* No lost wakeup: a call that waits although its queue has updates for it *)
(* has a token in its channel or is about to be signalled, so it does not  *)
(* sleep until its timeout.                                                *)
NoLostWakeup ==
  \A p \in Poll :
    poll[p].phase = "waiting" /\ queue[Owner[p]] # <<>> =>
      wake[p] \/ \E s \in Sender : p \in owing[s]
=============================================================================

------------------------- MODULE SupportTeamProofs -------------------------
(***************************************************************************)
(* Theorems about SupportTeam, for every set of bots, script, queue depth  *)
(* and number of faults: no long poll of the mock sleeps on updates, the   *)
(* router never has more than one reply channel per unabandoned task,      *)
(* every update is handed to its bot once and in order, and what becomes   *)
(* of a request: why a task can wait for nothing, and whose answer it gets.*)
(***************************************************************************)
EXTENDS SupportTeam, SequenceTheorems, FiniteSetTheorems, TLAPS

-----------------------------------------------------------------------------
(* Wakeups. Only the steps of the mock matter.                             *)

Shape ==
  /\ known \subseteq Bot
  /\ DOMAIN queue = Bot
  /\ listeners \in [Bot -> SUBSET Poll]
  /\ DOMAIN poll = Poll
  /\ wake \in [Poll -> BOOLEAN]
  /\ owing \in [Sender -> SUBSET Poll]

(* Why a sender reaches every call that waits: the call is registered      *)
(* before it looks at the queue, and until it has looked again.            *)
WaitersRegistered ==
  \A p \in Poll : poll[p].phase = "waiting" => p \in listeners[Owner[p]]

WakeInv == Shape /\ WaitersRegistered /\ NoLostWakeup

(* One poll per bot: the queue of a call is trimmed by that call only.     *)
LEMMA OwnersDiffer ==
  ASSUME NEW p \in Poll
  PROVE  /\ Owner[p] \in Bot
         /\ \A q \in Poll : Owner[q] = Owner[p] => q = p
BY TeamAssumption

LEMMA GetUpdatesKeepsWakeInv ==
  ASSUME WakeInv, NEW p \in Poll, NEW o, GetUpdates(p, o)
  PROVE  WakeInv'
<1> DEFINE left == Unacknowledged(queue[Owner[p]], o)
<1>1. Owner[p] \in Bot /\ \A q \in Poll : Owner[q] = Owner[p] => q = p
  BY OwnersDiffer
<1>2. /\ queue' = [queue EXCEPT ![Owner[p]] = left]
      /\ listeners' = [listeners EXCEPT ![Owner[p]] = listeners[Owner[p]] \cup {p}]
      /\ wake' = [wake EXCEPT ![p] = FALSE]
      /\ poll' = [poll EXCEPT ![p] =
                    [ phase   |-> IF left = <<>> THEN "waiting" ELSE "leaving",
                      offset  |-> o, pending |-> left ]]
      /\ owing' = owing
      /\ known' = known \cup {Owner[p]}
  BY DEF GetUpdates, EnsureBot
<1> HIDE DEF left
<1>3. Shape'
  BY <1>1, <1>2 DEF WakeInv, Shape
<1>4. \A q \in Poll : q # p => poll'[q] = poll[q] /\ wake'[q] = wake[q]
  BY <1>2 DEF WakeInv, Shape
<1>5. poll'[p].phase = "waiting" => left = <<>>
  BY <1>2 DEF WakeInv, Shape
<1>6. \A q \in Poll : q # p => queue'[Owner[q]] = queue[Owner[q]]
  <2> SUFFICES ASSUME NEW q \in Poll, q # p PROVE queue'[Owner[q]] = queue[Owner[q]]
    OBVIOUS
  <2> QED BY <1>1, <1>2, OwnersDiffer DEF WakeInv, Shape
<1>7. queue'[Owner[p]] = left
  BY <1>1, <1>2 DEF WakeInv, Shape
<1>8. WaitersRegistered'
  <2> SUFFICES ASSUME NEW q \in Poll, poll'[q].phase = "waiting"
               PROVE  q \in listeners'[Owner[q]]
    BY DEF WaitersRegistered
  <2>1. CASE q = p
    BY <2>1, <1>1, <1>2 DEF WakeInv, Shape
  <2>2. CASE q # p
    BY <2>2, <1>1, <1>2, <1>4, OwnersDiffer DEF WakeInv, Shape, WaitersRegistered
  <2> QED BY <2>1, <2>2
<1>9. NoLostWakeup'
  <2> SUFFICES ASSUME NEW q \in Poll, poll'[q].phase = "waiting", queue'[Owner[q]] # <<>>
               PROVE  wake'[q] \/ \E s \in Sender : q \in owing'[s]
    BY DEF NoLostWakeup
  <2>1. q # p
    BY <1>5, <1>7
  <2>2. wake[q] \/ \E s \in Sender : q \in owing[s]
    BY <2>1, <1>4, <1>6 DEF WakeInv, NoLostWakeup
  <2> QED BY <2>1, <2>2, <1>2, <1>4
<1> QED BY <1>3, <1>8, <1>9 DEF WakeInv

(* The end of a call, whatever becomes of its own queue.                   *)
LEMMA RemoveListenerKeepsWakeInv ==
  ASSUME WakeInv, NEW p \in Poll, RemoveListener(p), DOMAIN queue' = Bot, UNCHANGED known,
         \A b \in Bot : b # Owner[p] => queue'[b] = queue[b]
  PROVE  WakeInv'
<1>1. Owner[p] \in Bot /\ \A q \in Poll : Owner[q] = Owner[p] => q = p
  BY OwnersDiffer
<1>2. /\ listeners' = [listeners EXCEPT ![Owner[p]] = listeners[Owner[p]] \ {p}]
      /\ owing' = [s \in Sender |-> owing[s] \ {p}]
      /\ wake' = [wake EXCEPT ![p] = FALSE]
      /\ poll' = [poll EXCEPT ![p] = Closed]
  BY DEF RemoveListener
<1>3. Shape'
  BY <1>1, <1>2 DEF WakeInv, Shape
<1>4. poll'[p].phase = "closed"
  BY <1>2 DEF WakeInv, Shape, Closed
<1>5. \A q \in Poll : q # p => poll'[q] = poll[q] /\ wake'[q] = wake[q]
  BY <1>2 DEF WakeInv, Shape
<1>6. WaitersRegistered'
  <2> SUFFICES ASSUME NEW q \in Poll, poll'[q].phase = "waiting"
               PROVE  q \in listeners'[Owner[q]]
    BY DEF WaitersRegistered
  <2>1. q # p
    BY <1>4
  <2>2. q \in listeners[Owner[q]] /\ Owner[q] \in Bot
    BY <2>1, <1>5, OwnersDiffer DEF WakeInv, WaitersRegistered
  <2> QED BY <2>1, <2>2, <1>1, <1>2 DEF WakeInv, Shape
<1>7. NoLostWakeup'
  <2> SUFFICES ASSUME NEW q \in Poll, poll'[q].phase = "waiting", queue'[Owner[q]] # <<>>
               PROVE  wake'[q] \/ \E s \in Sender : q \in owing'[s]
    BY DEF NoLostWakeup
  <2>1. q # p
    BY <1>4
  <2>2. queue'[Owner[q]] = queue[Owner[q]]
    BY <2>1, <1>1, OwnersDiffer
  <2>3. wake[q] \/ \E s \in Sender : q \in owing[s]
    BY <2>1, <2>2, <1>5 DEF WakeInv, NoLostWakeup
  <2> QED BY <2>1, <2>3, <1>2, <1>5
<1> QED BY <1>3, <1>6, <1>7 DEF WakeInv

(* Whoever adds an update takes all listeners of its queue along.          *)
LEMMA SendMessageKeepsWakeInv ==
  ASSUME WakeInv, NEW s \in Sender, NEW from \in Bot, NEW chat, NEW m,
         SendMessage(s, from, chat, m)
  PROVE  WakeInv'
<1> DEFINE told == IF chat \in known' THEN listeners[chat] ELSE {}
           update == [id |-> nextID', body |-> m]
<1>1. /\ owing[s] = {} /\ owing' = [owing EXCEPT ![s] = told]
      /\ listeners' = listeners /\ poll' = poll /\ wake' = wake
      /\ known' = known \cup {from}
      /\ Deliver(chat, update)
  BY DEF SendMessage, EnsureBot, NextUpdateID
<1> HIDE DEF update
<1>2. /\ DOMAIN queue' = Bot
      /\ \A b \in Bot : queue'[b] # queue[b] => b = chat /\ b \in known'
  BY <1>1 DEF Deliver
<1>3. known' \subseteq Bot
  BY <1>1 DEF WakeInv, Shape
<1>4. told \subseteq Poll
  <2>1. CASE chat \in known'
    BY <2>1, <1>3 DEF WakeInv, Shape
  <2>2. CASE chat \notin known'
    BY <2>2
  <2> QED BY <2>1, <2>2
<1>5. \A q \in listeners[chat] : chat \in known' => q \in told
  OBVIOUS
<1> HIDE DEF told
<1>6. Shape'
  BY <1>1, <1>2, <1>3, <1>4 DEF WakeInv, Shape
<1>7. WaitersRegistered'
  BY <1>1 DEF WakeInv, WaitersRegistered
<1>8. NoLostWakeup'
  <2> SUFFICES ASSUME NEW q \in Poll, poll'[q].phase = "waiting", queue'[Owner[q]] # <<>>
               PROVE  wake'[q] \/ \E t \in Sender : q \in owing'[t]
    BY DEF NoLostWakeup
  <2>1. Owner[q] \in Bot /\ q \in listeners[Owner[q]]
    BY <1>1, OwnersDiffer DEF WakeInv, WaitersRegistered
  <2>2. CASE queue'[Owner[q]] = queue[Owner[q]]
    <3>1. wake[q] \/ \E t \in Sender : q \in owing[t]
      BY <2>2, <1>1 DEF WakeInv, NoLostWakeup
    <3> QED BY <3>1, <1>1 DEF WakeInv, Shape
  <2>3. CASE queue'[Owner[q]] # queue[Owner[q]]
    <3>1. q \in told
      BY <2>1, <2>3, <1>2, <1>5
    <3>2. owing'[s] = told
      BY <1>1 DEF WakeInv, Shape
    <3> QED BY <3>1, <3>2
  <2> QED BY <2>2, <2>3
<1> QED BY <1>6, <1>7, <1>8 DEF WakeInv

LEMMA SignalKeepsWakeInv ==
  ASSUME WakeInv, NEW s \in Sender, Signal(s)
  PROVE  WakeInv'
<1>1. PICK p \in owing[s] :
        /\ wake' = [wake EXCEPT ![p] = TRUE]
        /\ owing' = [owing EXCEPT ![s] = owing[s] \ {p}]
        /\ UNCHANGED <<known, queue, listeners, poll, nextID>>
  BY DEF Signal
<1>2. p \in Poll
  BY <1>1 DEF WakeInv, Shape
<1>3. Shape'
  BY <1>1, <1>2 DEF WakeInv, Shape
<1>4. WaitersRegistered'
  BY <1>1 DEF WakeInv, WaitersRegistered
<1>5. NoLostWakeup'
  <2> SUFFICES ASSUME NEW q \in Poll, poll'[q].phase = "waiting", queue'[Owner[q]] # <<>>
               PROVE  wake'[q] \/ \E t \in Sender : q \in owing'[t]
    BY DEF NoLostWakeup
  <2>1. CASE q = p
    BY <2>1, <1>1, <1>2 DEF WakeInv, Shape
  <2>2. CASE q # p
    <3>1. wake[q] \/ \E t \in Sender : q \in owing[t]
      BY <1>1 DEF WakeInv, NoLostWakeup
    <3> QED BY <3>1, <2>2, <1>1, <1>2 DEF WakeInv, Shape
  <2> QED BY <2>1, <2>2
<1> QED BY <1>3, <1>4, <1>5 DEF WakeInv

(* A call that ends, with or without another look at its queue.            *)
LEMMA EndOfPollKeepsWakeInv ==
  ASSUME WakeInv, NEW p \in Poll, Recheck(p) \/ Leave(p)
  PROVE  WakeInv'
<1>1. /\ RemoveListener(p) /\ UNCHANGED known
      /\ DOMAIN queue' = Bot
      /\ \A b \in Bot : b # Owner[p] => queue'[b] = queue[b]
  <2>1. CASE Recheck(p)
    BY <2>1 DEF Recheck, WakeInv, Shape
  <2>2. CASE Leave(p)
    BY <2>2 DEF Leave, WakeInv, Shape
  <2> QED BY <2>1, <2>2
<1> QED BY <1>1, RemoveListenerKeepsWakeInv

(* What a step of the example does to the mock.                            *)
MockStep ==
  \/ \E p \in Poll : (\E o : GetUpdates(p, o)) \/ Recheck(p) \/ Leave(p)
  \/ \E s \in Sender, from \in Bot : \E chat, m : SendMessage(s, from, chat, m)
  \/ \E s \in Sender : Signal(s)

LEMMA StepOfMock ==
  ASSUME Next PROVE MockStep \/ UNCHANGED mock
<1>0. /\ Router \in Bot /\ Poll = Bot /\ Driver \in Sender /\ Bot \subseteq Sender
  BY TeamAssumption
<1>1. CASE \/ BeginIteration \/ RegisterChannel \/ TakeReply \/ RegisterApproval
           \/ TakeApproval \/ GiveUp \/ NextTask \/ RequestLost \/ AnswerLost
           \/ Expire \/ Interrupt \/ HandleIncomingReply \/ Exited
  BY <1>1 DEF BeginIteration, RegisterChannel, TakeReply, RegisterApproval,
     TakeApproval, GiveUp, NextTask, RequestLost, AnswerLost, Expire, Interrupt,
     HandleIncomingReply, Exited, vars
<1>2. CASE Dispatch \/ Repeat \/ AskApproval \/ Notify
  BY <1>2, <1>0 DEF Dispatch, Repeat, AskApproval, Notify, Send, MockStep
<1>3. ASSUME NEW b \in Bot, BotStep(b) \/ HandleMessageFails(b) \/ LosePoll(b)
      PROVE  MockStep \/ UNCHANGED mock
  <2>1. CASE BeginPoll(b)
    BY <2>1, <1>0 DEF BeginPoll, MockStep
  <2>2. CASE EndPoll(b) \/ LosePoll(b)
    BY <2>2, <1>0 DEF EndPoll, LosePoll, EndOfPoll, Woken, TimeOut, MockStep
  <2>3. CASE HandleMessage(b)
    BY <2>3, <1>0 DEF HandleMessage, Send, MockStep
  <2>4. CASE HandleMessageFails(b)
    BY <2>4 DEF HandleMessageFails
  <2> QED BY <1>3, <2>1, <2>2, <2>3, <2>4 DEF BotStep
<1>4. CASE \E s \in Sender : SignalNext(s)
  BY <1>4 DEF SignalNext, MockStep
<1> QED BY <1>1, <1>2, <1>3, <1>4 DEF Next, DriverStep

LEMMA WakeInvInductive ==
  ASSUME WakeInv, [Next]_vars
  PROVE  WakeInv'
<1>1. CASE UNCHANGED mock
  BY <1>1 DEF mock, WakeInv, Shape, WaitersRegistered, NoLostWakeup
<1>2. CASE MockStep
  BY <1>2, GetUpdatesKeepsWakeInv, EndOfPollKeepsWakeInv, SendMessageKeepsWakeInv,
     SignalKeepsWakeInv DEF MockStep
<1> QED BY <1>1, <1>2, StepOfMock DEF vars

(* A poll that waits although there are updates for its bot is always      *)
(* about to be woken: an update that arrives between the first look at the *)
(* queue and the wait is not slept on, whatever the polls and senders do   *)
(* (handleGetUpdates registers its channel in the critical section of the  *)
(* first look).                                                            *)
THEOREM WakeupsKept == Spec => []NoLostWakeup
<1>1. Init => WakeInv
  BY DEF Init, New, Closed, WakeInv, Shape, WaitersRegistered, NoLostWakeup
<1>2. WakeInv => NoLostWakeup
  BY DEF WakeInv
<1> QED BY <1>1, <1>2, WakeInvInductive, PTL DEF Spec

-----------------------------------------------------------------------------
(* Reply channels.                                                         *)

(* While no task was given up, an entry of r.pending is the one of the     *)
(* present task, is there only while the task waits or is about to, and is *)
(* gone once the task has its reply.                                       *)
ChannelInv ==
  ~abandoned =>
    /\ pending \subseteq {channel}
    /\ pc \notin {"repeat", "wait", "await"} => pending = {}
    /\ reply # NoReply => pending = {}
    /\ pc \in {"sent", "asked"} => reply = NoReply

LEMMA TakeKeepsChannelInv ==
  ASSUME ChannelInv, HandleIncomingReply
  PROVE  ChannelInv'
<1> SUFFICES ASSUME ~abandoned PROVE ChannelInv'
  BY DEF HandleIncomingReply, driver, ChannelInv
<1>1. PICK m : Take(m)
  BY DEF HandleIncomingReply
<1>2. UNCHANGED <<pc, channel, abandoned>>
  BY DEF HandleIncomingReply, driver
<1>3. CASE pending = {}
  BY <1>1, <1>2, <1>3 DEF Take, ChannelInv
<1>4. CASE pending # {}
  <2>1. pending' = {} /\ pc \in {"repeat", "wait", "await"}
    BY <1>1, <1>4 DEF Take, ChannelInv
  <2> QED BY <2>1, <1>2 DEF ChannelInv
<1> QED BY <1>3, <1>4

LEMMA ChannelInvInductive ==
  ASSUME ChannelInv, [Next]_vars
  PROVE  ChannelInv'
<1>1. CASE UNCHANGED vars
  BY <1>1 DEF vars, driver, replies, ChannelInv
<1>2. CASE BeginIteration \/ Dispatch \/ RegisterChannel \/ Repeat
  BY <1>2 DEF BeginIteration, Dispatch, RegisterChannel, Repeat, replies, ChannelInv, NoReply
<1>3. CASE TakeReply \/ AskApproval \/ RegisterApproval \/ TakeApproval
  BY <1>3 DEF TakeReply, AskApproval, RegisterApproval, TakeApproval, replies, ChannelInv
<1>4. CASE GiveUp \/ Notify \/ NextTask \/ RequestLost \/ AnswerLost
  BY <1>4 DEF GiveUp, Notify, NextTask, RequestLost, AnswerLost, replies, ChannelInv
<1>5. CASE Expire \/ Interrupt
  BY <1>5 DEF Expire, Interrupt, replies, ChannelInv
<1>6. CASE HandleIncomingReply
  BY <1>6, TakeKeepsChannelInv
<1>7. ASSUME NEW b \in Bot, BotStep(b) \/ HandleMessageFails(b) \/ LosePoll(b)
      PROVE  ChannelInv'
  BY <1>7 DEF BotStep, BeginPoll, EndPoll, HandleMessage, HandleMessageFails, LosePoll,
     driver, replies, ChannelInv
<1>8. CASE \E s \in Sender : SignalNext(s)
  BY <1>8 DEF SignalNext, driver, replies, ChannelInv
<1>9. CASE Exited
  BY <1>9, <1>1 DEF Exited
<1> QED BY <1>1, <1>2, <1>3, <1>4, <1>5, <1>6, <1>7, <1>8, <1>9 DEF Next, DriverStep

(* What the comment in handleIncomingReply counts on: as long as no task   *)
(* is given up, the first entry of r.pending is the only one and belongs   *)
(* to the task in flight, for every script and whatever calls fail.        *)
THEOREM OneChannelInFlight == Spec => []OneChannel
<1>1. Init => ChannelInv
  BY DEF Init, ChannelInv
<1>2. ChannelInv => OneChannel
  BY DEF ChannelInv, OneChannel
<1> QED BY <1>1, <1>2, ChannelInvInductive, PTL DEF Spec

-----------------------------------------------------------------------------
(* Queues and channels, as sequences of letters.                           *)

Body   == [from : Bot, re : Nat, costly : BOOLEAN]
Letter == [id : Nat \ {0}, body : Body]

(* The offset o confirms the first h letters of q and no other.            *)
ReadUpTo(q, h, o) ==
  /\ \A i \in 1..h : q[i].id < o
  /\ \A i \in (h + 1)..Len(q) : q[i].id >= o

LEMMA SubSeqOf ==
  ASSUME NEW q \in Seq(Letter), NEW h \in 0..Len(q)
  PROVE  /\ SubSeq(q, h + 1, Len(q)) \in Seq(Letter)
         /\ Len(SubSeq(q, h + 1, Len(q))) = Len(q) - h
         /\ \A n \in 1..(Len(q) - h) : SubSeq(q, h + 1, Len(q))[n] = q[h + n]
<1>1. Len(q) \in Nat /\ h \in Nat /\ \A i \in 1..Len(q) : q[i] \in Letter
  OBVIOUS
<1>2. \A i \in (h + 1)..Len(q) : q[i] \in Letter
  BY <1>1
<1> QED BY <1>1, <1>2, SubSeqProperties

LEMMA PrefixOf ==
  ASSUME NEW q \in Seq(Letter), NEW n \in 0..Len(q)
  PROVE  /\ SubSeq(q, 1, n) \in Seq(Letter)
         /\ Len(SubSeq(q, 1, n)) = n
         /\ \A i \in 1..n : SubSeq(q, 1, n)[i] = q[i]
<1>1. Len(q) \in Nat /\ n \in Nat /\ \A i \in 1..Len(q) : q[i] \in Letter
  OBVIOUS
<1> QED BY <1>1, SubSeqProperties

(* Confirming up to an offset leaves the end of the queue.                 *)
LEMMA Trimmed ==
  ASSUME NEW q \in Seq(Letter), NEW o \in Int, NEW h \in 0..Len(q), ReadUpTo(q, h, o)
  PROVE  Unacknowledged(q, o) = SubSeq(q, h + 1, Len(q))
<1> DEFINE c == Len(q) - h
           K == (h + 1)..Len(q)
<1>1. Len(q) \in Nat /\ h \in Nat /\ h <= Len(q) /\ c \in Nat /\ DOMAIN q = 1..Len(q)
  OBVIOUS
<1>2. {i \in DOMAIN q : q[i].id >= o} = K
  <2>1. \A i \in 1..Len(q) : q[i] \in Letter
    OBVIOUS
  <2>2. \A i \in 1..Len(q) : q[i].id \in Nat
    BY <2>1 DEF Letter
  <2> QED BY <1>1, <2>2 DEF ReadUpTo
<1>3. Cardinality(K) = c
  <2>1. h + 1 \in Int /\ Len(q) \in Int
    BY <1>1
  <2>2. Cardinality(K) = IF h + 1 > Len(q) THEN 0 ELSE Len(q) - (h + 1) + 1
    BY <2>1, FS_Interval
  <2> QED BY <1>1, <2>2
<1>4. \A n \in 1..c : Nth(K, n) = h + n
  <2> SUFFICES ASSUME NEW n \in 1..c PROVE Nth(K, n) = h + n
    OBVIOUS
  <2>1. \A i \in K : Cardinality({j \in K : j <= i}) = i - h
    <3> SUFFICES ASSUME NEW i \in K PROVE Cardinality({j \in K : j <= i}) = i - h
      OBVIOUS
    <3>1. {j \in K : j <= i} = (h + 1)..i
      BY <1>1
    <3>2. Cardinality((h + 1)..i) = i - h
      BY <1>1, FS_Interval
    <3> QED BY <3>1, <3>2
  <2>2. h + n \in K /\ \A i \in K : i - h = n <=> i = h + n
    BY <1>1
  <2> HIDE DEF K
  <2>3. (CHOOSE i \in K : Cardinality({j \in K : j <= i}) = n) = h + n
    BY <2>1, <2>2
  <2> QED BY <2>3 DEF Nth
<1>5. Keep(q, K) = [n \in 1..c |-> q[h + n]]
  <2> HIDE DEF K, c
  <2> QED BY <1>3, <1>4 DEF Keep
<1> DEFINE u == SubSeq(q, h + 1, Len(q))
<1>6. u \in Seq(Letter) /\ Len(u) = c /\ \A n \in 1..c : u[n] = q[h + n]
  BY SubSeqOf
<1>7. u = [n \in 1..c |-> q[h + n]]
  <2> HIDE DEF u, c
  <2> QED BY <1>6
<1> QED BY <1>2, <1>5, <1>7 DEF Unacknowledged

(* The letters to a bot that it has still to handle: not received, u, and  *)
(* received, v.                                                            *)
Mail(u, v)  == {u[i] : i \in 1..Len(u)} \cup {v[i] : i \in 1..Len(v)}
Total(u, v) == Len(u) + Len(v)

LEMMA MailPosted ==
  ASSUME NEW u \in Seq(Letter), NEW v \in Seq(Letter), NEW m \in Letter
  PROVE  /\ Total(Append(u, m), v) = Total(u, v) + 1
         /\ Mail(Append(u, m), v) = Mail(u, v) \cup {m}
<1> DEFINE w == Append(u, m)
<1>1. /\ Len(u) \in Nat /\ w \in Seq(Letter) /\ Len(w) = Len(u) + 1
      /\ w[Len(u) + 1] = m /\ \A i \in 1..Len(u) : w[i] = u[i]
  OBVIOUS
<1> HIDE DEF w
<1>2. 1..Len(w) = (1..Len(u)) \cup {Len(u) + 1}
  BY <1>1
<1>3. {w[i] : i \in 1..Len(w)} = {u[i] : i \in 1..Len(u)} \cup {m}
  BY <1>1, <1>2
<1>4. Len(w) + Len(v) = Len(u) + Len(v) + 1
  BY <1>1
<1> QED BY <1>3, <1>4 DEF Mail, Total, w

LEMMA MailReceived ==
  ASSUME NEW u \in Seq(Letter), NEW v \in Seq(Letter), NEW n \in 0..Len(u)
  PROVE  LET u1 == SubSeq(u, n + 1, Len(u))
             v1 == v \o SubSeq(u, 1, n)
         IN /\ u1 \in Seq(Letter) /\ v1 \in Seq(Letter)
            /\ Total(u1, v1) = Total(u, v)
            /\ Mail(u1, v1) = Mail(u, v)
<1> DEFINE u1 == SubSeq(u, n + 1, Len(u))
           u2 == SubSeq(u, 1, n)
           v1 == v \o u2
<1>1. Len(u) \in Nat /\ Len(v) \in Nat /\ n \in Nat
  OBVIOUS
<1>2. u1 \in Seq(Letter) /\ Len(u1) = Len(u) - n /\ \A i \in 1..(Len(u) - n) : u1[i] = u[n + i]
  BY SubSeqOf
<1>3. u2 \in Seq(Letter) /\ Len(u2) = n /\ \A i \in 1..n : u2[i] = u[i]
  BY PrefixOf
<1> HIDE DEF u1, u2
<1>4. /\ v1 \in Seq(Letter) /\ Len(v1) = Len(v) + n
      /\ \A i \in 1..(Len(v) + n) : v1[i] = IF i <= Len(v) THEN v[i] ELSE u2[i - Len(v)]
  BY <1>3, ConcatProperties
<1> HIDE DEF v1
<1>5. \A i \in 1..Len(v) : i \in 1..Len(v1) /\ v1[i] = v[i]
  BY <1>1, <1>4
<1>6. \A i \in 1..n : Len(v) + i \in 1..Len(v1) /\ v1[Len(v) + i] = u[i]
  <2> SUFFICES ASSUME NEW i \in 1..n
               PROVE  Len(v) + i \in 1..Len(v1) /\ v1[Len(v) + i] = u[i]
    OBVIOUS
  <2>1. /\ Len(v) + i \in 1..(Len(v) + n) /\ ~(Len(v) + i <= Len(v))
        /\ (Len(v) + i) - Len(v) = i
    BY <1>1
  <2> QED BY <2>1, <1>3, <1>4
<1>7. \A i \in 1..Len(v1) : \/ i \in 1..Len(v)
                            \/ i - Len(v) \in 1..n /\ v1[i] = u[i - Len(v)]
  BY <1>1, <1>3, <1>4
<1>8. \A i \in 1..Len(u) : \/ i \in 1..n
                           \/ i - n \in 1..Len(u1) /\ u1[i - n] = u[i]
  BY <1>1, <1>2
<1>9. \A i \in 1..Len(u1) : n + i \in 1..Len(u) /\ u1[i] = u[n + i]
  BY <1>1, <1>2
<1>10. \A i \in 1..n : i \in 1..Len(u)
  BY <1>1
<1>11. Mail(u1, v1) \subseteq Mail(u, v)
  BY <1>5, <1>7, <1>9, <1>10, SMTT(30) DEF Mail
<1>12. Mail(u, v) \subseteq Mail(u1, v1)
  <2>1. \A i \in 1..Len(u) : u[i] \in Mail(u1, v1)
    <3> SUFFICES ASSUME NEW i \in 1..Len(u) PROVE u[i] \in Mail(u1, v1)
      OBVIOUS
    <3>1. CASE i \in 1..n
      BY <3>1, <1>6 DEF Mail
    <3>2. CASE i - n \in 1..Len(u1) /\ u1[i - n] = u[i]
      BY <3>2 DEF Mail
    <3> QED BY <3>1, <3>2, <1>8
  <2>2. \A i \in 1..Len(v) : v[i] \in Mail(u1, v1)
    BY <1>5 DEF Mail
  <2> QED BY <2>1, <2>2 DEF Mail
<1>13. Len(u1) + Len(v1) = Len(u) + Len(v)
  BY <1>1, <1>2, <1>4
<1> QED BY <1>2, <1>4, <1>11, <1>12, <1>13 DEF Total, u1, u2, v1

LEMMA MailTaken ==
  ASSUME NEW u \in Seq(Letter), NEW v \in Seq(Letter), v # <<>>
  PROVE  /\ Total(u, Tail(v)) = Total(u, v) - 1 /\ Total(u, v) >= 1
         /\ Head(v) \in Mail(u, v)
         /\ Mail(u, v) = Mail(u, Tail(v)) \cup {Head(v)}
<1> DEFINE w == Tail(v)
<1>1. /\ Len(v) \in Nat /\ Len(v) >= 1 /\ w \in Seq(Letter) /\ Len(w) = Len(v) - 1
      /\ Head(v) = v[1] /\ \A i \in 1..Len(w) : w[i] = v[i + 1]
  BY HeadTailProperties
<1> HIDE DEF w
<1>2. \A i \in 1..Len(v) : \/ i = 1
                           \/ i - 1 \in 1..Len(w) /\ v[i] = w[i - 1]
  BY <1>1
<1>3. \A i \in 1..Len(w) : i + 1 \in 1..Len(v)
  BY <1>1
<1>4. {v[i] : i \in 1..Len(v)} = {w[i] : i \in 1..Len(w)} \cup {v[1]}
  <2>1. \A i \in 1..Len(v) : v[i] \in {w[j] : j \in 1..Len(w)} \cup {v[1]}
    BY <1>2
  <2>2. \A i \in 1..Len(w) : w[i] \in {v[j] : j \in 1..Len(v)}
    BY <1>1, <1>3
  <2>3. v[1] \in {v[j] : j \in 1..Len(v)}
    BY <1>1
  <2> QED BY <2>1, <2>2, <2>3
<1>5. Len(u) \in Nat /\ Len(u) + Len(w) = Len(u) + Len(v) - 1 /\ Len(u) + Len(v) >= 1
  BY <1>1
<1>6. Total(u, w) = Total(u, v) - 1 /\ Total(u, v) >= 1
  BY <1>5 DEF Total
<1>7. v[1] \in Mail(u, v) /\ Mail(u, v) = Mail(u, w) \cup {v[1]}
  BY <1>1, <1>4 DEF Mail
<1> QED BY <1>1, <1>6, <1>7 DEF w

LEMMA NoMail ==
  ASSUME NEW u \in Seq(Letter), NEW v \in Seq(Letter)
  PROVE  Total(u, v) \in Nat /\ (Total(u, v) = 0 <=> Mail(u, v) = {})
<1>1. Len(u) \in Nat /\ Len(v) \in Nat
  OBVIOUS
<1>3. Len(u) + Len(v) = 0 <=> Mail(u, v) = {}
  <2>1. ASSUME Len(u) = 0, Len(v) = 0 PROVE Mail(u, v) = {}
    BY <2>1 DEF Mail
  <2>2. ASSUME Len(u) > 0 PROVE u[1] \in Mail(u, v)
    BY <1>1, <2>2 DEF Mail
  <2>3. ASSUME Len(v) > 0 PROVE v[1] \in Mail(u, v)
    BY <1>1, <2>3 DEF Mail
  <2> QED BY <1>1, <2>1, <2>2, <2>3
<1> QED BY <1>1, <1>3 DEF Total

-----------------------------------------------------------------------------
(* Feeds. Ids in a queue ascend, so an offset splits the queue in two, and *)
(* a call that waits or leaves has confirmed all that its bot has          *)
(* received: what it answers is the beginning of what is unread.           *)

Ascending(q) == \A i, j \in 1..Len(q) : i < j => q[i].id < q[j].id

Lane(b) ==
  /\ queue[b] \in Seq(Letter) /\ Len(queue[b]) <= MaxQueueDepth
  /\ Ascending(queue[b])
  /\ \A i \in 1..Len(queue[b]) : queue[b][i].id \in 1..nextID
  /\ offset[b] \in 0..(nextID + 1)
  /\ inbox[b] \in Seq(Letter)
  /\ \E h \in 0..Len(queue[b]) : ReadUpTo(queue[b], h, offset[b])
  /\ poll[b].phase \in {"closed", "waiting", "leaving"}
  /\ poll[b].phase # "closed" =>
       poll[b].offset = offset[b] /\ ReadUpTo(queue[b], 0, offset[b])
  /\ poll[b].phase = "leaving" =>
       \E n \in 1..Len(queue[b]) : poll[b].pending = SubSeq(queue[b], 1, n)

Lanes ==
  /\ known = Bot /\ nextID \in Nat /\ nextID >= 1
  /\ DOMAIN queue = Bot /\ DOMAIN offset = Bot /\ DOMAIN poll = Bot /\ DOMAIN inbox = Bot
  /\ \A b \in Bot : Lane(b)

LEMMA UnreadAt ==
  ASSUME NEW b \in Bot
  PROVE  /\ Unread[b] = Unacknowledged(queue[b], offset[b])
         /\ Unread'[b] = Unacknowledged(queue'[b], offset'[b])
         /\ Held[b] = Len(queue[b]) - Len(Unread[b])
         /\ Held'[b] = Len(queue'[b]) - Len(Unread'[b])
BY DEF Unread, Held

LEMMA UnreadIs ==
  ASSUME NEW b \in Bot, Lane(b)
  PROVE  /\ Unread[b] \in Seq(Letter)
         /\ Held[b] = Len(queue[b]) - Len(Unread[b]) /\ Held[b] \in 0..Len(queue[b])
         /\ ReadUpTo(queue[b], Held[b], offset[b])
         /\ Unread[b] = SubSeq(queue[b], Held[b] + 1, Len(queue[b]))
<1>1. PICK h \in 0..Len(queue[b]) : ReadUpTo(queue[b], h, offset[b])
  BY DEF Lane
<1>2. queue[b] \in Seq(Letter) /\ Len(queue[b]) \in Nat /\ offset[b] \in Int
  BY DEF Lane
<1>3. Unread[b] = SubSeq(queue[b], h + 1, Len(queue[b]))
  BY <1>1, <1>2, Trimmed, UnreadAt
<1>4. Unread[b] \in Seq(Letter) /\ Len(Unread[b]) = Len(queue[b]) - h
  BY <1>2, <1>3, SubSeqOf
<1>5. Held[b] = h
  <2>1. Held[b] = Len(queue[b]) - Len(Unread[b])
    BY UnreadAt
  <2>2. h \in Nat
    BY <1>2
  <2> QED BY <1>2, <1>4, <2>1, <2>2
<1> QED BY <1>1, <1>3, <1>4, <1>5, UnreadAt

LEMMA Whole ==
  ASSUME NEW q \in Seq(Letter)
  PROVE  SubSeq(q, 1, Len(q)) = q /\ SubSeq(q, 0 + 1, Len(q)) = q
<1>1. Len(q) \in Nat
  OBVIOUS
<1>2. /\ SubSeq(q, 1, Len(q)) \in Seq(Letter) /\ Len(SubSeq(q, 1, Len(q))) = Len(q)
      /\ \A i \in 1..Len(q) : SubSeq(q, 1, Len(q))[i] = q[i]
  BY <1>1, PrefixOf
<1>3. SubSeq(q, 1, Len(q)) = q
  BY <1>2, SeqEqual
<1> QED BY <1>3

(* A feed that is left alone.                                              *)
LEMMA LaneKept ==
  ASSUME NEW b \in Bot, Lane(b), nextID \in Nat, nextID' \in Nat, nextID' >= nextID,
         UNCHANGED <<queue[b], offset[b], poll[b]>>, inbox'[b] \in Seq(Letter)
  PROVE  Lane(b)' /\ Unread'[b] = Unread[b] /\ Held'[b] = Held[b]
<1>1. Lane(b)'
  BY DEF Lane
<1>2. Unread'[b] = Unread[b]
  BY UnreadAt
<1> QED BY <1>1, <1>2, UnreadAt

LEMMA UnreadDomain ==
  /\ DOMAIN Unread = Bot /\ DOMAIN Held = Bot /\ DOMAIN Unread' = Bot /\ DOMAIN Held' = Bot
  /\ Unread = [b \in Bot |-> Unread[b]] /\ Unread' = [b \in Bot |-> Unread'[b]]
  /\ Held = [b \in Bot |-> Held[b]] /\ Held' = [b \in Bot |-> Held'[b]]
BY DEF Unread, Held

(* A bot polls: it confirms what it has received.                          *)
LEMMA PollBegins ==
  ASSUME Lanes, NEW b \in Bot, BeginPoll(b)
  PROVE  /\ Lanes' /\ UNCHANGED <<nextID, inbox>>
         /\ Unread' = Unread /\ Held' = [Held EXCEPT ![b] = 0]
<1> DEFINE left == Unacknowledged(queue[b], offset[b])
<1>1. /\ queue' = [queue EXCEPT ![b] = left]
      /\ poll' = [poll EXCEPT ![b] = [ phase |-> IF left = <<>> THEN "waiting" ELSE "leaving",
                                       offset |-> offset[b], pending |-> left ]]
      /\ known' = known \cup {b}
      /\ UNCHANGED <<nextID, offset, inbox>>
  BY TeamAssumption DEF BeginPoll, GetUpdates, EnsureBot, client
<1>2. Lane(b) /\ known = Bot /\ nextID \in Nat /\ nextID >= 1
  BY DEF Lanes
<1>3. left = Unread[b]
  BY UnreadAt
<1> HIDE DEF left
<1> DEFINE h == Held[b]
<1>4. /\ left \in Seq(Letter) /\ h \in 0..Len(queue[b]) /\ Len(queue[b]) \in Nat
      /\ queue[b] \in Seq(Letter)
      /\ Len(left) = Len(queue[b]) - h
      /\ ReadUpTo(queue[b], h, offset[b])
      /\ \A n \in 1..(Len(queue[b]) - h) : left[n] = queue[b][h + n]
  <2>1. /\ h \in 0..Len(queue[b]) /\ ReadUpTo(queue[b], h, offset[b])
        /\ left = SubSeq(queue[b], h + 1, Len(queue[b]))
    BY <1>2, <1>3, UnreadIs
  <2>2. queue[b] \in Seq(Letter) /\ Len(queue[b]) \in Nat
    BY <1>2 DEF Lane
  <2> HIDE DEF h
  <2> QED BY <2>1, <2>2, SubSeqOf
<1> HIDE DEF h
<1>5. /\ Len(left) \in Nat /\ Len(left) <= Len(queue[b])
      /\ \A n \in 1..Len(left) : h + n \in 1..Len(queue[b]) /\ h + n \in (h + 1)..Len(queue[b])
                               /\ left[n] = queue[b][h + n]
  BY <1>4
<1>6. Ascending(left)
  <2> SUFFICES ASSUME NEW i \in 1..Len(left), NEW j \in 1..Len(left), i < j
               PROVE  left[i].id < left[j].id
    BY DEF Ascending
  <2>1. h + i < h + j
    BY <1>4
  <2> QED BY <2>1, <1>2, <1>5 DEF Lane, Ascending
<1>7. ReadUpTo(left, 0, offset[b])
  BY <1>4, <1>5 DEF ReadUpTo
<1>8. \A c \in Bot \ {b} : UNCHANGED <<queue[c], offset[c], poll[c], inbox[c]>>
  BY <1>1 DEF Lanes
<1>9. /\ queue'[b] = left /\ offset'[b] = offset[b]
      /\ poll'[b] = [ phase |-> IF left = <<>> THEN "waiting" ELSE "leaving",
                      offset |-> offset[b], pending |-> left ]
  BY <1>1 DEF Lanes
<1>10. left # <<>> => Len(left) \in 1..Len(left) /\ left = SubSeq(left, 1, Len(left))
  BY <1>4, <1>5, Whole, EmptySeq
<1>11. Lane(b)'
  <2>1. Len(left) <= MaxQueueDepth
    BY <1>2, <1>4, <1>5, MockAssumption DEF Lane
  <2>5. \A i \in 1..Len(left) : left[i].id \in 1..nextID'
    <3>1. \A i \in 1..Len(queue[b]) : queue[b][i].id \in 1..nextID'
      BY <1>1, <1>2 DEF Lane
    <3> QED BY <3>1, <1>5
  <2>2. offset[b] \in 0..(nextID' + 1) /\ inbox'[b] \in Seq(Letter)
    BY <1>1, <1>2 DEF Lane
  <2>3. 0 \in 0..Len(left)
    BY <1>5
  <2>4. /\ poll'[b].phase \in {"closed", "waiting", "leaving"}
        /\ poll'[b].offset = offset[b] /\ poll'[b].pending = left
        /\ poll'[b].phase = "leaving" => left # <<>>
    BY <1>9
  <2> QED BY <1>4, <1>6, <1>7, <1>9, <1>10, <2>1, <2>2, <2>3, <2>4, <2>5 DEF Lane
<1>12. \A c \in Bot \ {b} : Lane(c)' /\ Unread'[c] = Unread[c] /\ Held'[c] = Held[c]
  <2> SUFFICES ASSUME NEW c \in Bot \ {b}
               PROVE  Lane(c)' /\ Unread'[c] = Unread[c] /\ Held'[c] = Held[c]
    OBVIOUS
  <2>1. Lane(c) /\ inbox'[c] \in Seq(Letter) /\ nextID' \in Nat /\ nextID' >= nextID
    BY <1>1, <1>2 DEF Lanes, Lane
  <2> QED BY <2>1, <1>2, <1>8, LaneKept
<1>13. Unread'[b] = left /\ Held'[b] = 0
  <2>1. 0 \in 0..Len(left) /\ offset[b] \in Int
    BY <1>2, <1>5 DEF Lane
  <2>2. Unacknowledged(left, offset[b]) = SubSeq(left, 0 + 1, Len(left))
    BY <1>4, <1>7, <2>1, Trimmed
  <2>3. Unread'[b] = Unacknowledged(left, offset[b])
    BY <1>9, UnreadAt
  <2>4. Unread'[b] = left
    BY <2>2, <2>3, <1>4, Whole
  <2>5. Held'[b] = Len(left) - Len(left)
    BY <2>4, <1>9, UnreadAt
  <2> QED BY <2>4, <2>5, <1>5
<1>14. Lanes'
  BY <1>1, <1>2, <1>11, <1>12 DEF Lanes
<1>15. Unread' = Unread
  BY <1>3, <1>12, <1>13, UnreadDomain
<1>16. Held' = [Held EXCEPT ![b] = 0]
  BY <1>12, <1>13, UnreadDomain
<1> QED BY <1>1, <1>14, <1>15, <1>16

(* What a call answers when it ends, and what it leaves.                   *)
LEMMA PollAnswers ==
  ASSUME Lanes, NEW b \in Bot, EndOfPoll(b)
  PROVE  /\ ReadUpTo(queue[b], 0, offset[b])
         /\ \E n \in 0..Len(queue[b]) : Answer(b) = SubSeq(queue[b], 1, n)
         /\ DOMAIN queue' = Bot /\ \A c \in Bot : queue'[c] = queue[c]
         /\ poll' = [poll EXCEPT ![b] = Closed]
         /\ UNCHANGED <<known, nextID>>
<1>1. Lane(b) /\ queue[b] \in Seq(Letter) /\ Len(queue[b]) \in Nat /\ DOMAIN queue = Bot
  BY DEF Lanes, Lane
<1>2. Owner[b] = b /\ Poll = Bot
  BY TeamAssumption
<1>3. CASE poll[b].phase = "waiting"
  <2>1. poll[b].offset = offset[b] /\ ReadUpTo(queue[b], 0, offset[b]) /\ offset[b] \in Int
    BY <1>1, <1>3 DEF Lane
  <2>2. 0 \in 0..Len(queue[b])
    BY <1>1
  <2>3. Unacknowledged(queue[b], offset[b]) = SubSeq(queue[b], 0 + 1, Len(queue[b]))
    BY <1>1, <2>1, <2>2, Trimmed
  <2>4. Answer(b) = queue[b] /\ Answer(b) = SubSeq(queue[b], 1, Len(queue[b]))
    BY <1>1, <1>2, <1>3, <2>1, <2>3, Whole DEF Answer
  <2>5. Recheck(b)
    BY <1>3 DEF EndOfPoll, Woken, TimeOut, Leave
  <2>6. DOMAIN queue' = Bot /\ \A c \in Bot : queue'[c] = queue[c]
    BY <1>1, <1>2, <2>4, <2>5 DEF Recheck
  <2>7. poll' = [poll EXCEPT ![b] = Closed] /\ UNCHANGED <<known, nextID>>
    BY <2>5 DEF Recheck, RemoveListener
  <2>8. Len(queue[b]) \in 0..Len(queue[b])
    BY <1>1
  <2> QED BY <2>1, <2>4, <2>6, <2>7, <2>8
<1>4. CASE poll[b].phase # "waiting"
  <2>1. Leave(b)
    BY <1>4 DEF EndOfPoll, Woken, TimeOut, Recheck
  <2>2. poll[b].phase = "leaving"
    BY <2>1 DEF Leave
  <2>3. /\ queue' = queue /\ UNCHANGED <<known, nextID>>
        /\ poll' = [poll EXCEPT ![b] = Closed]
    BY <2>1 DEF Leave, RemoveListener
  <2>4. ReadUpTo(queue[b], 0, offset[b])
    BY <1>1, <2>2 DEF Lane
  <2>5. PICK n \in 1..Len(queue[b]) : poll[b].pending = SubSeq(queue[b], 1, n)
    BY <1>1, <2>2 DEF Lane
  <2>6. n \in 0..Len(queue[b]) /\ Answer(b) = SubSeq(queue[b], 1, n)
    BY <1>1, <1>4, <2>5 DEF Answer
  <2> QED BY <1>1, <2>3, <2>4, <2>6
<1> QED BY <1>3, <1>4

(* The answer is lost: nothing has happened to the feed.                   *)
LEMMA PollLost ==
  ASSUME Lanes, NEW b \in Bot, EndOfPoll(b), UNCHANGED client
  PROVE  Lanes' /\ UNCHANGED <<Unread, Held, inbox, nextID>>
<1>1. /\ DOMAIN queue' = Bot /\ \A c \in Bot : queue'[c] = queue[c]
      /\ poll' = [poll EXCEPT ![b] = Closed]
      /\ UNCHANGED <<known, nextID, offset, inbox>>
  BY PollAnswers DEF client
<1>2. nextID \in Nat /\ DOMAIN poll = Bot /\ \A c \in Bot : Lane(c)
  BY DEF Lanes
<1>3. \A c \in Bot : poll'[c] = poll[c] \/ poll'[c].phase = "closed"
  BY <1>1, <1>2 DEF Closed
<1>4. \A c \in Bot : Lane(c)'
  <2> SUFFICES ASSUME NEW c \in Bot PROVE Lane(c)'
    OBVIOUS
  <2>1. UNCHANGED <<queue[c], offset[c], inbox[c], nextID>> /\ Lane(c)
    BY <1>1, <1>2
  <2>2. CASE poll'[c] = poll[c]
    BY <2>1, <2>2 DEF Lane
  <2>3. CASE poll'[c].phase = "closed"
    BY <2>1, <2>3 DEF Lane
  <2> QED BY <1>3, <2>2, <2>3
<1>5. Lanes'
  BY <1>1, <1>4 DEF Lanes
<1>6. ASSUME NEW c \in Bot PROVE Unread'[c] = Unread[c] /\ Held'[c] = Held[c]
  <2>1. queue'[c] = queue[c] /\ offset'[c] = offset[c]
    BY <1>1
  <2>2. Unread'[c] = Unread[c]
    BY <2>1, UnreadAt
  <2> QED BY <2>1, <2>2, UnreadAt
<1> QED BY <1>1, <1>5, <1>6, UnreadDomain

(* The answer arrives: its bot receives the n oldest unread updates.       *)
Received(b, n) ==
  /\ Unread' = [Unread EXCEPT ![b] = SubSeq(Unread[b], n + 1, Len(Unread[b]))]
  /\ Held' = [Held EXCEPT ![b] = Held[b] + n]
  /\ inbox' = [inbox EXCEPT ![b] = inbox[b] \o SubSeq(Unread[b], 1, n)]
  /\ nextID' = nextID

LEMMA PollEnds ==
  ASSUME Lanes, NEW b \in Bot, EndPoll(b)
  PROVE  Lanes' /\ \E n \in 0..Len(Unread[b]) : Received(b, n)
<1> DEFINE q == queue[b]
<1>1. /\ ReadUpTo(q, 0, offset[b])
      /\ \E n \in 0..Len(q) : Answer(b) = SubSeq(q, 1, n)
      /\ DOMAIN queue' = Bot /\ \A c \in Bot : queue'[c] = queue[c]
      /\ poll' = [poll EXCEPT ![b] = Closed]
      /\ UNCHANGED <<known, nextID>>
  BY PollAnswers DEF EndPoll
<1>2. PICK n \in 0..Len(q) : Answer(b) = SubSeq(q, 1, n)
  BY <1>1
<1>3. /\ Lane(b) /\ q \in Seq(Letter) /\ Len(q) \in Nat /\ n \in Nat /\ nextID \in Nat
      /\ Ascending(q) /\ \A i \in 1..Len(q) : q[i].id \in 1..nextID
      /\ inbox[b] \in Seq(Letter) /\ offset[b] \in 0..(nextID + 1)
      /\ DOMAIN queue = Bot /\ DOMAIN offset = Bot /\ DOMAIN inbox = Bot /\ DOMAIN poll = Bot
  BY DEF Lanes, Lane
<1> DEFINE a == SubSeq(q, 1, n)
<1>4. a \in Seq(Letter) /\ Len(a) = n /\ \A i \in 1..n : a[i] = q[i]
  BY <1>3, PrefixOf
<1>5. /\ inbox' = [inbox EXCEPT ![b] = inbox[b] \o a]
      /\ offset' = IF a = <<>> THEN offset ELSE [offset EXCEPT ![b] = a[Len(a)].id + 1]
  BY <1>2 DEF EndPoll, Receive
<1> HIDE DEF a
<1>6. /\ \A c \in Bot \ {b} : UNCHANGED <<queue[c], offset[c], poll[c], inbox[c]>>
      /\ poll'[b] = Closed /\ queue'[b] = q /\ inbox'[b] = inbox[b] \o a
  BY <1>1, <1>3, <1>5
<1>7. offset'[b] = IF n = 0 THEN offset[b] ELSE q[n].id + 1
  <2>1. a = <<>> <=> n = 0
    BY <1>3, <1>4, EmptySeq
  <2>2. n # 0 => n \in 1..n
    BY <1>3
  <2> QED BY <1>3, <1>4, <1>5, <2>1, <2>2
<1>8. ReadUpTo(q, n, offset'[b]) /\ offset'[b] \in 0..(nextID + 1)
  <2>1. CASE n = 0
    BY <2>1, <1>1, <1>3, <1>7
  <2>2. CASE n # 0
    <3>1. n \in 1..Len(q) /\ q[n].id \in 1..nextID /\ offset'[b] = q[n].id + 1
      BY <2>2, <1>2, <1>3, <1>7
    <3>2. \A i \in 1..n : q[i].id < offset'[b]
      <4> SUFFICES ASSUME NEW i \in 1..n PROVE q[i].id < offset'[b]
        OBVIOUS
      <4>1. i \in 1..Len(q) /\ q[i].id \in Int /\ q[n].id \in Int
        BY <3>1, <1>3
      <4>2. i = n \/ q[i].id < q[n].id
        <5>1. i \in Int /\ i <= n /\ n \in Int
          BY <1>3
        <5>2. i < n => q[i].id < q[n].id
          BY <3>1, <4>1, <1>3 DEF Ascending
        <5> QED BY <5>1, <5>2
      <4>3. q[i].id < q[n].id + 1
        BY <4>1, <4>2
      <4> QED BY <3>1, <4>3
    <3>3. \A i \in (n + 1)..Len(q) : q[i].id >= offset'[b]
      BY <3>1, <1>3, SMTT(30) DEF Ascending
    <3> QED BY <3>1, <3>2, <3>3, <1>3 DEF ReadUpTo
  <2> QED BY <2>1, <2>2
<1>9. Lane(b)'
  <2>1. inbox'[b] \in Seq(Letter)
    BY <1>3, <1>4, <1>6, ConcatProperties
  <2>2. poll'[b].phase = "closed"
    BY <1>6 DEF Closed
  <2> QED BY <2>1, <2>2, <1>1, <1>2, <1>3, <1>6, <1>8 DEF Lane
<1>10. \A c \in Bot \ {b} : Lane(c)' /\ Unread'[c] = Unread[c] /\ Held'[c] = Held[c]
  <2> SUFFICES ASSUME NEW c \in Bot \ {b}
               PROVE  Lane(c)' /\ Unread'[c] = Unread[c] /\ Held'[c] = Held[c]
    OBVIOUS
  <2>1. Lane(c) /\ inbox'[c] \in Seq(Letter) /\ nextID' \in Nat /\ nextID' >= nextID
    BY <1>1, <1>3, <1>6 DEF Lanes, Lane
  <2> QED BY <2>1, <1>3, <1>6, LaneKept
<1>11. Unread[b] = q /\ Held[b] = 0
  <2>1. 0 \in 0..Len(q) /\ offset[b] \in Int
    BY <1>3
  <2>2. Unacknowledged(q, offset[b]) = SubSeq(q, 0 + 1, Len(q))
    BY <2>1, <1>1, <1>3, Trimmed
  <2>3. Unread[b] = q
    BY <2>2, <1>3, Whole, UnreadAt
  <2>4. Held[b] = Len(q) - Len(q)
    BY <2>3, UnreadAt
  <2> QED BY <2>3, <2>4, <1>3
<1>12. Unread'[b] = SubSeq(q, n + 1, Len(q)) /\ Held'[b] = n
  <2>1. offset'[b] \in Int
    BY <1>8, <1>3
  <2>2. Unacknowledged(q, offset'[b]) = SubSeq(q, n + 1, Len(q))
    BY <2>1, <1>2, <1>3, <1>8, Trimmed
  <2>3. Unread'[b] = SubSeq(q, n + 1, Len(q))
    BY <2>2, <1>6, UnreadAt
  <2>4. Len(Unread'[b]) = Len(q) - n
    BY <2>3, <1>2, <1>3, SubSeqOf
  <2>5. Held'[b] = Len(q) - Len(Unread'[b])
    BY <1>6, UnreadAt
  <2> QED BY <2>3, <2>4, <2>5, <1>3
<1>13. Lanes'
  <2>1. DOMAIN queue' = Bot /\ DOMAIN offset' = Bot /\ DOMAIN poll' = Bot /\ DOMAIN inbox' = Bot
    BY <1>1, <1>3, <1>5
  <2>2. known' = Bot /\ nextID' \in Nat /\ nextID' >= 1
    BY <1>1 DEF Lanes
  <2> QED BY <2>1, <2>2, <1>9, <1>10 DEF Lanes
<1>14. Unread' = [Unread EXCEPT ![b] = SubSeq(Unread[b], n + 1, Len(Unread[b]))]
  BY <1>10, <1>11, <1>12, UnreadDomain
<1>15. Held' = [Held EXCEPT ![b] = Held[b] + n]
  <2>1. Held'[b] = Held[b] + n
    BY <1>3, <1>11, <1>12
  <2> QED BY <2>1, <1>10, UnreadDomain
<1>16. n \in 0..Len(Unread[b]) /\ inbox' = [inbox EXCEPT ![b] = inbox[b] \o SubSeq(Unread[b], 1, n)]
  BY <1>2, <1>5, <1>11 DEF a
<1> QED BY <1>1, <1>13, <1>14, <1>15, <1>16 DEF Received

(* A message is stamped and queued for its chat, if that is a bot with     *)
(* room for it.                                                            *)
Fits(chat) == chat \in Bot /\ Len(queue[chat]) < MaxQueueDepth

Posted(chat, body) ==
  /\ nextID' = nextID + 2
  /\ Held' = Held
  /\ Unread' = IF Fits(chat)
               THEN [Unread EXCEPT ![chat] = Append(Unread[chat], [id |-> nextID', body |-> body])]
               ELSE Unread

LEMMA SendPosts ==
  ASSUME Lanes, NEW s \in Sender, NEW from \in Bot, NEW chat, NEW body \in Body,
         SendMessage(s, from, chat, body), UNCHANGED offset,
         DOMAIN inbox' = Bot, \A b \in Bot : inbox'[b] \in Seq(Letter)
  PROVE  Lanes' /\ Posted(chat, body)
<1> DEFINE m == [id |-> nextID', body |-> body]
<1>1. /\ known = Bot /\ nextID \in Nat /\ nextID >= 1 /\ \A b \in Bot : Lane(b)
      /\ DOMAIN queue = Bot
  BY DEF Lanes
<1>2. nextID' = nextID + 2 /\ known' = Bot /\ poll' = poll /\ Deliver(chat, m)
  BY <1>1 DEF SendMessage, EnsureBot, NextUpdateID
<1>3. m \in Letter
  BY <1>1, <1>2 DEF Letter
<1> HIDE DEF m
<1>4. /\ DOMAIN queue' = Bot
      /\ \A b \in Bot : queue'[b] = IF b = chat /\ Fits(chat) THEN Append(queue[b], m)
                                                            ELSE queue[b]
  BY <1>1, <1>2 DEF Deliver, Fits
<1>5. \A b \in Bot : b # chat \/ ~Fits(chat) =>
        Lane(b)' /\ Unread'[b] = Unread[b] /\ Held'[b] = Held[b]
  <2> SUFFICES ASSUME NEW b \in Bot, b # chat \/ ~Fits(chat)
               PROVE  Lane(b)' /\ Unread'[b] = Unread[b] /\ Held'[b] = Held[b]
    OBVIOUS
  <2>1. UNCHANGED <<queue[b], offset[b], poll[b]>> /\ nextID' \in Nat /\ nextID' >= nextID
    BY <1>1, <1>2, <1>4
  <2> QED BY <2>1, <1>1, LaneKept
<1>6. ASSUME Fits(chat)
      PROVE  /\ Lane(chat)' /\ Held'[chat] = Held[chat]
             /\ Unread'[chat] = Append(Unread[chat], m)
  <2> DEFINE q == queue[chat]
             h == Held[chat]
             r == queue'[chat]
  <2>1. /\ chat \in Bot /\ Lane(chat) /\ q \in Seq(Letter) /\ Len(q) \in Nat
        /\ Len(q) < MaxQueueDepth /\ MaxQueueDepth \in Nat
    BY <1>1, <1>6, MockAssumption DEF Fits, Lane
  <2>2. r = Append(q, m)
    BY <2>1, <1>4, <1>6
  <2>3. /\ Unread[chat] = SubSeq(q, h + 1, Len(q)) /\ h \in 0..Len(q) /\ h \in Nat
        /\ ReadUpTo(q, h, offset[chat])
    <3>1. /\ Unread[chat] = SubSeq(q, h + 1, Len(q)) /\ h \in 0..Len(q)
          /\ ReadUpTo(q, h, offset[chat])
      BY <2>1, UnreadIs
    <3> HIDE DEF h, q
    <3> QED BY <3>1
  <2>4. /\ Ascending(q) /\ \A i \in 1..Len(q) : q[i].id \in 1..nextID
        /\ offset[chat] \in 0..(nextID + 1) /\ offset'[chat] = offset[chat]
        /\ poll'[chat] = poll[chat]
    BY <2>1, <1>2 DEF Lane
  <2>5. m.id = nextID + 2
    BY <1>2 DEF m
  <2> HIDE DEF h, r
  <2>6. /\ r \in Seq(Letter) /\ Len(r) = Len(q) + 1 /\ r[Len(q) + 1] = m
        /\ \A i \in 1..Len(q) : r[i] = q[i]
    BY <1>3, <2>1, <2>2
  <2>7. Ascending(r) /\ \A i \in 1..Len(r) : r[i].id \in 1..(nextID + 2)
    <3>1. \A i \in 1..Len(r) : i \in 1..Len(q) \/ i = Len(q) + 1
      BY <2>1, <2>6
    <3>2. \A i \in 1..Len(r) : r[i].id \in 1..(nextID + 2)
      <4>1. \A i \in 1..Len(q) : r[i].id \in 1..(nextID + 2)
        <5>1. \A i \in 1..nextID : i \in 1..(nextID + 2)
          BY <1>1
        <5> QED BY <5>1, <2>4, <2>6
      <4>2. r[Len(q) + 1].id \in 1..(nextID + 2)
        BY <1>1, <2>5, <2>6
      <4> QED BY <3>1, <4>1, <4>2
    <3> SUFFICES ASSUME NEW i \in 1..Len(r), NEW j \in 1..Len(r), i < j
                 PROVE  r[i].id < r[j].id
      BY <3>2 DEF Ascending
    <3>3. i \in 1..Len(q)
      BY <2>1, <2>6
    <3>4. CASE j \in 1..Len(q)
      BY <3>3, <3>4, <2>4, <2>6 DEF Ascending
    <3>5. CASE j = Len(q) + 1
      BY <3>3, <3>5, <1>1, <2>4, <2>5, <2>6
    <3> QED BY <3>1, <3>4, <3>5
  <2>8. \A k \in 0..Len(q) : ReadUpTo(q, k, offset[chat]) => ReadUpTo(r, k, offset[chat])
    <3> SUFFICES ASSUME NEW k \in 0..Len(q), ReadUpTo(q, k, offset[chat])
                 PROVE  ReadUpTo(r, k, offset[chat])
      OBVIOUS
    <3>1. \A i \in 1..k : r[i].id < offset[chat]
      <4>1. \A i \in 1..k : i \in 1..Len(q)
        BY <2>1
      <4> QED BY <4>1, <2>6 DEF ReadUpTo
    <3>2. \A i \in (k + 1)..Len(r) : r[i].id >= offset[chat]
      <4>1. \A i \in (k + 1)..Len(r) : i \in (k + 1)..Len(q) \/ i = Len(q) + 1
        BY <2>1, <2>6
      <4>2. m.id >= offset[chat]
        BY <1>1, <2>4, <2>5
      <4> QED BY <4>1, <4>2, <2>6 DEF ReadUpTo
    <3> QED BY <3>1, <3>2 DEF ReadUpTo
  <2>9. \A n \in 1..Len(q) : n \in 1..Len(r) /\ SubSeq(r, 1, n) = SubSeq(q, 1, n)
    <3> SUFFICES ASSUME NEW n \in 1..Len(q)
                 PROVE  n \in 1..Len(r) /\ SubSeq(r, 1, n) = SubSeq(q, 1, n)
      OBVIOUS
    <3>1. n \in 0..Len(q) /\ n \in 0..Len(r) /\ n \in 1..Len(r) /\ \A i \in 1..n : i \in 1..Len(q)
      BY <2>1, <2>6
    <3>2. /\ SubSeq(q, 1, n) \in Seq(Letter) /\ Len(SubSeq(q, 1, n)) = n
          /\ \A i \in 1..n : SubSeq(q, 1, n)[i] = q[i]
      BY <3>1, <2>1, PrefixOf
    <3>3. /\ SubSeq(r, 1, n) \in Seq(Letter) /\ Len(SubSeq(r, 1, n)) = n
          /\ \A i \in 1..n : SubSeq(r, 1, n)[i] = r[i]
      BY <3>1, <2>6, PrefixOf
    <3>4. \A i \in 1..n : SubSeq(r, 1, n)[i] = SubSeq(q, 1, n)[i]
      BY <3>1, <3>2, <3>3, <2>6
    <3>5. SubSeq(r, 1, n) = SubSeq(q, 1, n)
      BY <3>2, <3>3, <3>4, SeqEqual
    <3> QED BY <3>1, <3>5
  <2>10. Lane(chat)'
    <3>1. Len(r) <= MaxQueueDepth /\ offset[chat] \in 0..(nextID' + 1)
      BY <1>1, <1>2, <2>1, <2>4, <2>6
    <3>2. h \in 0..Len(r) /\ ReadUpTo(r, h, offset'[chat])
      BY <2>1, <2>3, <2>4, <2>6, <2>8
    <3>3. 0 \in 0..Len(q)
      BY <2>1
    <3>4. poll'[chat].phase # "closed" =>
            poll'[chat].offset = offset'[chat] /\ ReadUpTo(r, 0, offset'[chat])
      BY <2>1, <2>4, <2>8, <3>3 DEF Lane
    <3>5. poll'[chat].phase = "leaving" =>
            \E n \in 1..Len(r) : poll'[chat].pending = SubSeq(r, 1, n)
      BY <2>1, <2>4, <2>9 DEF Lane
    <3>6. poll'[chat].phase \in {"closed", "waiting", "leaving"}
      BY <2>1, <2>4 DEF Lane
    <3>7. \A i \in 1..Len(r) : r[i].id \in 1..nextID'
      BY <1>2, <2>7
    <3> QED BY <2>1, <2>4, <2>6, <2>7, <3>1, <3>2, <3>4, <3>5, <3>6, <3>7 DEF Lane, r
  <2>11. Unread'[chat] = SubSeq(r, h + 1, Len(r)) /\ h \in 0..Len(r)
    <3>1. h \in 0..Len(r) /\ offset[chat] \in Int
      BY <2>1, <2>3, <2>4, <2>6
    <3>2. Unacknowledged(r, offset[chat]) = SubSeq(r, h + 1, Len(r))
      BY <2>3, <2>6, <2>8, <3>1, Trimmed
    <3>3. Unread'[chat] = Unacknowledged(r, offset[chat])
      BY <2>1, <2>4, UnreadAt DEF r
    <3> QED BY <3>1, <3>2, <3>3
  <2>12. /\ Unread'[chat] \in Seq(Letter) /\ Len(Unread'[chat]) = Len(r) - h
         /\ \A n \in 1..(Len(r) - h) : Unread'[chat][n] = r[h + n]
    BY <2>6, <2>11, SubSeqOf, SMTT(30)
  <2>13. /\ Unread[chat] \in Seq(Letter) /\ Len(Unread[chat]) = Len(q) - h
         /\ \A n \in 1..(Len(q) - h) : Unread[chat][n] = q[h + n]
    BY <2>1, <2>3, SubSeqOf
  <2>14. Unread'[chat] = Append(Unread[chat], m)
    <3> DEFINE u == Unread[chat]
               w == Append(Unread[chat], m)
    <3>1. /\ w \in Seq(Letter) /\ Len(w) = Len(u) + 1 /\ w[Len(u) + 1] = m
          /\ \A n \in 1..Len(u) : w[n] = u[n]
      BY <1>3, <2>13
    <3> HIDE DEF u, w
    <3>2. Len(u) \in Nat /\ Len(u) = Len(q) - h /\ Len(w) = Len(r) - h
      BY <2>1, <2>3, <2>6, <2>13, <3>1 DEF u
    <3>3. \A n \in 1..Len(w) : Unread'[chat][n] = w[n]
      <4> SUFFICES ASSUME NEW n \in 1..Len(w) PROVE Unread'[chat][n] = w[n]
        OBVIOUS
      <4>1. Unread'[chat][n] = r[h + n]
        BY <2>12, <3>2
      <4>2. CASE n = Len(u) + 1
        <5>1. h + n = Len(q) + 1
          BY <4>2, <3>2, <2>1, <2>3
        <5> QED BY <4>1, <4>2, <5>1, <2>6, <3>1
      <4>3. CASE n # Len(u) + 1
        <5>1. n \in 1..Len(u) /\ n \in Nat
          BY <4>3, <3>1, <3>2
        <5>2. n \in 1..(Len(q) - h) /\ h + n \in 1..Len(q)
          <6> HIDE DEF q
          <6> QED BY <5>1, <3>2, <2>1, <2>3
        <5> QED BY <4>1, <5>1, <5>2, <2>6, <2>13, <3>1 DEF u
      <4> QED BY <4>2, <4>3
    <3>4. Unread'[chat] = w
      BY <2>12, <3>1, <3>2, <3>3, SeqEqual
    <3> QED BY <3>4 DEF w
  <2>15. Held'[chat] = h
    <3>1. Held'[chat] = Len(r) - Len(Unread'[chat])
      BY <2>1, UnreadAt DEF r
    <3> QED BY <3>1, <2>1, <2>3, <2>6, <2>12
  <2> QED BY <2>10, <2>14, <2>15 DEF h
<1>7. Lanes'
  <2>1. \A b \in Bot : Lane(b)'
    BY <1>5, <1>6
  <2>2. DOMAIN offset' = Bot /\ DOMAIN poll' = Bot
    BY <1>2 DEF Lanes
  <2>3. nextID' \in Nat /\ nextID' >= 1
    BY <1>1, <1>2
  <2> QED BY <1>2, <1>4, <2>1, <2>2, <2>3 DEF Lanes
<1>8. Held' = Held
  <2>1. \A b \in Bot : Held'[b] = Held[b]
    BY <1>5, <1>6
  <2> QED BY <2>1, UnreadDomain
<1>9. Unread' = IF Fits(chat) THEN [Unread EXCEPT ![chat] = Append(Unread[chat], m)]
                ELSE Unread
  <2>1. CASE ~Fits(chat)
    <3>1. \A b \in Bot : Unread'[b] = Unread[b]
      BY <2>1, <1>5
    <3> QED BY <2>1, <3>1, UnreadDomain
  <2>2. CASE Fits(chat)
    <3>1. chat \in Bot /\ Unread'[chat] = Append(Unread[chat], m)
      BY <2>2, <1>6 DEF Fits
    <3>2. \A b \in Bot \ {chat} : Unread'[b] = Unread[b]
      BY <1>5
    <3>3. Unread' = [Unread EXCEPT ![chat] = Append(Unread[chat], m)]
      BY <3>1, <3>2, UnreadDomain
    <3> QED BY <2>2, <3>3
  <2> QED BY <2>1, <2>2
<1> QED BY <1>2, <1>7, <1>8, <1>9 DEF Posted, m

(* Steps that leave queues, offsets and calls alone.                       *)
LEMMA LanesKept ==
  ASSUME Lanes, UNCHANGED <<known, queue, poll, nextID, offset>>,
         DOMAIN inbox' = Bot, \A b \in Bot : inbox'[b] \in Seq(Letter)
  PROVE  Lanes' /\ UNCHANGED <<Unread, Held, nextID>>
<1>1. \A b \in Bot : Lane(b)'
  BY DEF Lanes, Lane
<1> QED BY <1>1 DEF Lanes, Unread, Held

-----------------------------------------------------------------------------
(* The steps of the example, as what they do to the feeds.                 *)

Request(costly) == [from |-> Router, re |-> 0, costly |-> costly]
Response(b, m)  == [from |-> b, re |-> MessageID(m), costly |-> m.body.costly]

Overflow(chat) == dropped' = (dropped \/ (chat \in Bot /\ Len(queue[chat]) = MaxQueueDepth))

Taken(b) == inbox[b] # <<>> /\ inbox' = [inbox EXCEPT ![b] = Tail(inbox[b])]

LEMMA DriverSends ==
  ASSUME Lanes, NEW chat, NEW costly \in BOOLEAN, Send(Driver, Router, chat, 0, costly),
         UNCHANGED client
  PROVE  Lanes' /\ UNCHANGED inbox /\ Posted(chat, Request(costly)) /\ Overflow(chat)
<1>1. Driver \in Sender /\ Router \in Bot
  BY TeamAssumption
<1>2. Request(costly) \in Body
  BY <1>1 DEF Request, Body
<1>3. SendMessage(Driver, Router, chat, Request(costly)) /\ Overflow(chat)
  BY DEF Send, Request, Overflow
<1>4. UNCHANGED <<offset, inbox>>
  BY DEF client
<1>5. DOMAIN inbox' = Bot /\ \A b \in Bot : inbox'[b] \in Seq(Letter)
  BY <1>4 DEF Lanes, Lane
<1> QED BY <1>1, <1>2, <1>3, <1>4, <1>5, SendPosts

LEMMA TakenTyped ==
  ASSUME Lanes, NEW b \in Bot, Taken(b)
  PROVE  /\ inbox[b] \in Seq(Letter) /\ Head(inbox[b]) \in Letter
         /\ DOMAIN inbox' = Bot /\ \A c \in Bot : inbox'[c] \in Seq(Letter)
<1>1. DOMAIN inbox = Bot /\ \A c \in Bot : inbox[c] \in Seq(Letter)
  BY DEF Lanes, Lane
<1>2. Head(inbox[b]) \in Letter /\ Tail(inbox[b]) \in Seq(Letter)
  BY <1>1, HeadTailProperties DEF Taken
<1> QED BY <1>1, <1>2 DEF Taken

LEMMA BotHandles ==
  ASSUME Lanes, NEW b \in Bot, HandleMessage(b)
  PROVE  LET m == Head(inbox[b])
         IN /\ Lanes' /\ Taken(b) /\ b # Router /\ m \in Letter
            /\ Posted(m.body.from, Response(b, m)) /\ Overflow(m.body.from)
<1> DEFINE m == Head(inbox[b])
<1>1. Taken(b) /\ b # Router
  BY DEF HandleMessage, TakeUpdate, Taken
<1>2. /\ m \in Letter /\ DOMAIN inbox' = Bot /\ \A c \in Bot : inbox'[c] \in Seq(Letter)
  BY <1>1, TakenTyped
<1>3. SendMessage(b, b, m.body.from, Response(b, m)) /\ Overflow(m.body.from)
  BY DEF HandleMessage, Send, Response, Overflow
<1>4. UNCHANGED offset
  BY DEF HandleMessage
<1> HIDE DEF m
<1>5. b \in Sender
  BY TeamAssumption
<1>6. Response(b, m) \in Body
  BY <1>2 DEF Letter, Body, Response, MessageID
<1>7. Lanes' /\ Posted(m.body.from, Response(b, m))
  BY <1>2, <1>3, <1>4, <1>5, <1>6, SendPosts
<1> QED BY <1>1, <1>2, <1>3, <1>7 DEF m

LEMMA BotTakes ==
  ASSUME Lanes, NEW b \in Bot, HandleMessageFails(b) \/ (b = Router /\ HandleIncomingReply)
  PROVE  Lanes' /\ Taken(b) /\ UNCHANGED <<Unread, Held, nextID>>
<1>1. Taken(b) /\ UNCHANGED mock /\ UNCHANGED offset
  BY DEF HandleMessageFails, HandleIncomingReply, TakeUpdate, Taken
<1> QED BY <1>1, TakenTyped, LanesKept DEF mock

(* The driver's steps that send nothing.                                   *)
SilentStep ==
  \/ BeginIteration \/ RegisterChannel \/ TakeReply \/ RegisterApproval \/ TakeApproval
  \/ GiveUp \/ NextTask \/ RequestLost \/ AnswerLost \/ Expire \/ Interrupt
  \/ UNCHANGED vars

LEMMA SilentKeepsLanes ==
  ASSUME Lanes, SilentStep \/ \E s \in Sender : SignalNext(s)
  PROVE  Lanes' /\ UNCHANGED <<Unread, Held, nextID, inbox>>
<1>1. UNCHANGED <<known, queue, poll, nextID, offset, inbox>>
  <2>1. CASE SilentStep
    <3>1. UNCHANGED <<mock, client>>
      BY <2>1 DEF SilentStep, BeginIteration, RegisterChannel, TakeReply, RegisterApproval,
         TakeApproval, GiveUp, NextTask, RequestLost, AnswerLost, Expire, Interrupt, vars
    <3> QED BY <3>1 DEF mock, client
  <2>2. CASE \E s \in Sender : SignalNext(s)
    BY <2>2 DEF SignalNext, Signal, client
  <2> QED BY <2>1, <2>2
<1>2. DOMAIN inbox' = Bot /\ \A b \in Bot : inbox'[b] \in Seq(Letter)
  BY <1>1 DEF Lanes, Lane
<1> QED BY <1>1, <1>2, LanesKept

(* A reply that the driver goes on with is one.                            *)
Replies ==
  /\ reply # NoReply => reply \in Body
  /\ pc \in {"ask", "notify"} => reply # NoReply

LEMMA RepliesKept ==
  ASSUME Lanes, Replies, [Next]_vars
  PROVE  Replies'
<1>1. CASE HandleIncomingReply
  <2>1. Taken(Router) /\ Router \in Bot
    BY <1>1, TeamAssumption DEF HandleIncomingReply, TakeUpdate, Taken
  <2> DEFINE m == Head(inbox[Router])
  <2>2. m \in Letter
    BY <2>1, TakenTyped
  <2>3. m.body \in Body /\ m.body # NoReply
    BY <2>2 DEF Letter, Body, NoReply
  <2>4. reply' = reply \/ reply' = m.body
    BY <1>1 DEF HandleIncomingReply, Take
  <2>5. pc' = pc
    BY <1>1 DEF HandleIncomingReply, driver
  <2> HIDE DEF m
  <2> QED BY <2>3, <2>4, <2>5 DEF Replies
<1>2. CASE BeginIteration \/ Dispatch \/ RegisterChannel \/ Repeat
  BY <1>2 DEF BeginIteration, Dispatch, RegisterChannel, Repeat, replies, Replies
<1>3. CASE TakeReply \/ AskApproval \/ RegisterApproval \/ TakeApproval
  BY <1>3 DEF TakeReply, AskApproval, RegisterApproval, TakeApproval, replies, Replies
<1>4. CASE GiveUp \/ Notify \/ NextTask \/ RequestLost \/ AnswerLost
  BY <1>4 DEF GiveUp, Notify, NextTask, RequestLost, AnswerLost, replies, Replies
<1>5. CASE Expire \/ Interrupt
  BY <1>5 DEF Expire, Interrupt, replies, Replies
<1>6. ASSUME NEW b \in Bot, BotStep(b) \/ HandleMessageFails(b) \/ LosePoll(b)
      PROVE  Replies'
  BY <1>6 DEF BotStep, BeginPoll, EndPoll, HandleMessage, HandleMessageFails, LosePoll,
     driver, replies, Replies
<1>7. CASE \E s \in Sender : SignalNext(s)
  BY <1>7 DEF SignalNext, driver, replies, Replies
<1>8. CASE UNCHANGED vars
  BY <1>8 DEF vars, driver, replies, Replies
<1> QED BY <1>1, <1>2, <1>3, <1>4, <1>5, <1>6, <1>7, <1>8 DEF Next, DriverStep, Exited

(* To publish an update is to post a message.                              *)
LEMMA PostsPublish ==
  ASSUME Lanes, NEW chat, NEW body \in Body, Posted(chat, body)
  PROVE  /\ chat \in Bot => Feed!Publish(chat)
         /\ chat \notin Bot => Feed!Waste
<1>1. nextID' = nextID + 2 /\ nextID' > nextID /\ Held' = Held /\ nextID \in Nat
  BY DEF Posted, Lanes
<1>2. CASE chat \notin Bot
  BY <1>1, <1>2 DEF Posted, Fits, Feed!Waste
<1>3. CASE chat \in Bot
  <2> DEFINE u == Unread[chat]
             m == [id |-> nextID', body |-> body]
  <2>1. /\ u \in Seq(Letter) /\ Len(u) \in Nat /\ Len(queue[chat]) \in Nat /\ m \in Letter
        /\ Len(u) + Held[chat] = Len(queue[chat]) /\ Len(queue[chat]) <= MaxQueueDepth
        /\ MaxQueueDepth \in Nat
    <3>1. Lane(chat)
      BY <1>3 DEF Lanes
    <3>2. u \in Seq(Letter) /\ Held[chat] = Len(queue[chat]) - Len(u)
      BY <1>3, <3>1, UnreadIs
    <3>3. queue[chat] \in Seq(Letter) /\ Len(queue[chat]) <= MaxQueueDepth
      BY <3>1 DEF Lane
    <3>4. m \in Letter
      BY <1>1 DEF Letter
    <3> QED BY <3>2, <3>3, <3>4, MockAssumption
  <2>2. CASE Fits(chat)
    <3> DEFINE w == Append(u, m)
    <3>1. /\ w \in Seq(Letter) /\ Len(w) = Len(u) + 1 /\ w[Len(u) + 1] = m
          /\ \A i \in 1..Len(u) : w[i] = u[i]
      BY <2>1
    <3>2. Unread' = [Unread EXCEPT ![chat] = w]
      BY <2>2 DEF Posted
    <3>3. Unread'[chat] = w
      BY <1>3, <3>2, UnreadDomain
    <3> HIDE DEF w, u, m
    <3>4. SubSeq(w, 1, Len(u)) = u
      <4>1. Len(u) \in 0..Len(w)
        BY <2>1, <3>1
      <4>2. /\ SubSeq(w, 1, Len(u)) \in Seq(Letter) /\ Len(SubSeq(w, 1, Len(u))) = Len(u)
            /\ \A i \in 1..Len(u) : SubSeq(w, 1, Len(u))[i] = w[i]
        BY <3>1, <4>1, PrefixOf
      <4> QED BY <2>1, <3>1, <4>2, SeqEqual
    <3>5. Len(u) + Held[chat] < MaxQueueDepth
      BY <2>1, <2>2 DEF Fits
    <3>6. w[Len(u) + 1].id = nextID'
      BY <3>1 DEF m
    <3> QED BY <1>1, <1>3, <3>1, <3>2, <3>3, <3>4, <3>5, <3>6 DEF Feed!Publish, u
  <2>3. CASE ~Fits(chat)
    <3>1. ~(Len(u) + Held[chat] < MaxQueueDepth)
      BY <1>3, <2>1, <2>3 DEF Fits
    <3>2. Unread' = Unread
      BY <2>3 DEF Posted
    <3> QED BY <1>1, <1>3, <3>1, <3>2 DEF Feed!Publish
  <2> QED BY <2>2, <2>3
<1> QED BY <1>2, <1>3

FeedStep == Feed!Next \/ UNCHANGED <<nextID, Unread, Held, inbox>>

LEMMA StepOfFeed ==
  ASSUME Lanes, Replies, [Next]_vars
  PROVE  Lanes' /\ FeedStep
<1>1. CASE SilentStep \/ \E s \in Sender : SignalNext(s)
  BY <1>1, SilentKeepsLanes DEF FeedStep
<1>2. ASSUME NEW chat, NEW costly \in BOOLEAN, Send(Driver, Router, chat, 0, costly),
             UNCHANGED client
      PROVE  Lanes' /\ FeedStep
  <2>1. Lanes' /\ UNCHANGED inbox /\ Posted(chat, Request(costly))
    BY <1>2, DriverSends
  <2>2. Request(costly) \in Body
    BY TeamAssumption DEF Request, Body
  <2>3. (chat \in Bot => Feed!Publish(chat)) /\ (chat \notin Bot => Feed!Waste)
    BY <2>1, <2>2, PostsPublish
  <2> QED BY <2>1, <2>3 DEF FeedStep, Feed!Next
<1>3. CASE Dispatch \/ Repeat
  <2>1. Send(Driver, Router, Specialist(task), 0, Costly) /\ UNCHANGED client
    BY <1>3 DEF Dispatch, Repeat
  <2>2. Costly \in BOOLEAN
    BY DEF Costly
  <2> QED BY <2>1, <2>2, <1>2
<1>4. CASE AskApproval \/ Notify
  <2>1. PICK chat : Send(Driver, Router, chat, 0, reply.costly) /\ UNCHANGED client
    BY <1>4 DEF AskApproval, Notify
  <2>2. pc \in {"ask", "notify"}
    BY <1>4 DEF AskApproval, Notify
  <2>3. reply.costly \in BOOLEAN
    BY <2>2 DEF Replies, Body
  <2> QED BY <2>1, <2>3, <1>2
<1>5. ASSUME NEW b \in Bot, BeginPoll(b)
      PROVE  Lanes' /\ FeedStep
  <2>1. /\ Lanes' /\ UNCHANGED <<nextID, inbox>>
        /\ Unread' = Unread /\ Held' = [Held EXCEPT ![b] = 0]
    BY <1>5, PollBegins
  <2>2. Feed!Confirm(b)
    BY <2>1 DEF Feed!Confirm
  <2> QED BY <2>1, <2>2 DEF FeedStep, Feed!Next
<1>6. ASSUME NEW b \in Bot, EndPoll(b)
      PROVE  Lanes' /\ FeedStep
  <2>1. PICK n \in 0..Len(Unread[b]) : Received(b, n)
    BY <1>6, PollEnds
  <2>2. Feed!Receive(b, n)
    BY <2>1 DEF Received, Feed!Receive
  <2> QED BY <1>6, <2>1, <2>2, PollEnds DEF FeedStep, Feed!Next
<1>7. ASSUME NEW b \in Bot, LosePoll(b)
      PROVE  Lanes' /\ FeedStep
  <2>1. EndOfPoll(b) /\ UNCHANGED client
    BY <1>7 DEF LosePoll
  <2> QED BY <2>1, PollLost DEF FeedStep
<1>8. ASSUME NEW b \in Bot, HandleMessage(b)
      PROVE  Lanes' /\ FeedStep
  <2> DEFINE m == Head(inbox[b])
  <2>1. /\ Lanes' /\ Taken(b) /\ m \in Letter /\ Posted(m.body.from, Response(b, m))
    BY <1>8, BotHandles
  <2> HIDE DEF m
  <2>2. Response(b, m) \in Body /\ m.body.from \in Bot
    BY <2>1 DEF Letter, Body, Response, MessageID
  <2>3. Feed!Publish(m.body.from)
    BY <2>1, <2>2, PostsPublish
  <2>4. Feed!Handle(b)
    BY <2>1 DEF Taken, Feed!Handle
  <2> QED BY <2>1, <2>2, <2>3, <2>4 DEF FeedStep, Feed!Next
<1>9. ASSUME NEW b \in Bot, HandleMessageFails(b) \/ (b = Router /\ HandleIncomingReply)
      PROVE  Lanes' /\ FeedStep
  <2>1. Lanes' /\ Taken(b) /\ UNCHANGED <<Unread, Held, nextID>>
    BY <1>9, BotTakes
  <2>2. Feed!Handle(b)
    BY <2>1 DEF Taken, Feed!Handle
  <2> QED BY <2>1, <2>2 DEF FeedStep, Feed!Next
<1>10. Router \in Bot
  BY TeamAssumption
<1>11. CASE Next
  <2>1. \/ SilentStep \/ (\E s \in Sender : SignalNext(s))
        \/ Dispatch \/ Repeat \/ AskApproval \/ Notify \/ HandleIncomingReply
        \/ \E b \in Bot : \/ BeginPoll(b) \/ EndPoll(b) \/ HandleMessage(b)
                          \/ HandleMessageFails(b) \/ LosePoll(b)
    BY <1>11 DEF Next, DriverStep, BotStep, Exited, SilentStep
  <2> QED BY <2>1, <1>1, <1>3, <1>4, <1>5, <1>6, <1>7, <1>8, <1>9, <1>10
<1>12. CASE UNCHANGED vars
  BY <1>12, <1>1 DEF SilentStep
<1> QED BY <1>11, <1>12

LEMMA InitLanes == Init => Lanes /\ Replies /\ Feed!Init
<1> SUFFICES ASSUME Init PROVE Lanes /\ Replies /\ Feed!Init
  OBVIOUS
<1>1. /\ known = Bot /\ nextID = 1
      /\ queue = [b \in Bot |-> <<>>] /\ offset = [b \in Bot |-> 0]
      /\ poll = [b \in Bot |-> Closed] /\ inbox = [b \in Bot |-> <<>>]
      /\ reply = NoReply /\ pc = "begin"
  BY TeamAssumption DEF Init, New
<1>2. <<>> \in Seq(Letter) /\ Len(<<>>) = 0
  OBVIOUS
<1>3. ASSUME NEW b \in Bot PROVE Lane(b)
  <2>1. Ascending(<<>>) /\ ReadUpTo(<<>>, 0, 0) /\ 0 \in 0..0
    BY <1>2 DEF Ascending, ReadUpTo
  <2>2. Closed.phase = "closed"
    BY DEF Closed
  <2> QED BY <1>1, <1>2, <2>1, <2>2, MockAssumption DEF Lane
<1>4. Lanes
  BY <1>1, <1>3 DEF Lanes
<1>5. Replies
  BY <1>1 DEF Replies
<1>6. ASSUME NEW b \in Bot PROVE Unread[b] = <<>> /\ Held[b] = 0
  <2>1. queue[b] = <<>> /\ Lane(b)
    BY <1>1, <1>3
  <2>2. Held[b] \in 0..0 /\ Unread[b] \in Seq(Letter) /\ Held[b] = 0 - Len(Unread[b])
    BY <1>2, <2>1, UnreadIs
  <2> QED BY <2>2, EmptySeq
<1>7. Feed!Init
  BY <1>1, <1>6, UnreadDomain DEF Feed!Init
<1> QED BY <1>4, <1>5, <1>7

(* Every update is handed to its bot once and in the order of publication, *)
(* for any number of bots and depth of the queues, whatever answers are    *)
(* lost and however polls and senders interleave, unless the queue of the  *)
(* bot was full: handleGetUpdates and handleSendMessage implement the      *)
(* feeds of UpdateFeed.                                                    *)
THEOREM TeamImplementsFeed == Spec => ImplementsFeed
<1> DEFINE Inv == Lanes /\ Replies
<1>1. Init => Inv /\ Feed!Init
  BY InitLanes
<1>2. Inv /\ [Next]_vars => Inv' /\ [Feed!Next]_(Feed!vars)
  BY StepOfFeed, RepliesKept DEF FeedStep, Feed!vars
<1> HIDE DEF Inv
<1> QED BY <1>1, <1>2, PTL DEF Spec, ImplementsFeed, Feed!Spec

-----------------------------------------------------------------------------
(* Letters under way to a bot, and how many there are.                     *)

Letters == [b \in Bot |-> Mail(Unread[b], inbox[b])]
Load    == [b \in Bot |-> Total(Unread[b], inbox[b])]

Same(b)       == Letters'[b] = Letters[b] /\ Load'[b] = Load[b]
Arrives(b, m) == Letters'[b] = Letters[b] \cup {m} /\ Load'[b] = Load[b] + 1
Departs(b, m) == /\ m \in Letters[b] /\ Letters[b] = Letters'[b] \cup {m}
                 /\ Load'[b] = Load[b] - 1

LEMMA MailTyped ==
  ASSUME Lanes, NEW b \in Bot
  PROVE  /\ Unread[b] \in Seq(Letter) /\ inbox[b] \in Seq(Letter)
         /\ Load[b] \in Nat /\ (Load[b] = 0 <=> Letters[b] = {})
<1>1. Unread[b] \in Seq(Letter) /\ inbox[b] \in Seq(Letter)
  BY UnreadIs DEF Lanes, Lane
<1>2. /\ Total(Unread[b], inbox[b]) \in Nat
      /\ Total(Unread[b], inbox[b]) = 0 <=> Mail(Unread[b], inbox[b]) = {}
  BY <1>1, NoMail
<1> QED BY <1>1, <1>2 DEF Load, Letters

LEMMA UnchangedMail ==
  ASSUME NEW b \in Bot, UNCHANGED <<Unread[b], inbox[b]>>
  PROVE  Same(b)
BY DEF Same, Letters, Load

(* A letter that is received is under way to its bot as before.            *)
LEMMA ReceivedMail ==
  ASSUME Lanes, NEW b \in Bot, NEW n \in 0..Len(Unread[b]), Received(b, n), NEW c \in Bot
  PROVE  Same(c)
<1>1. DOMAIN Unread = Bot /\ DOMAIN inbox = Bot
  BY UnreadDomain DEF Lanes
<1>2. CASE c # b
  BY <1>1, <1>2, UnchangedMail DEF Received
<1>3. CASE c = b
  <2> DEFINE u == Unread[b]
             v == inbox[b]
  <2>1. Unread'[b] = SubSeq(u, n + 1, Len(u)) /\ inbox'[b] = v \o SubSeq(u, 1, n)
    BY <1>1 DEF Received
  <2>2. u \in Seq(Letter) /\ v \in Seq(Letter)
    BY MailTyped
  <2>3. /\ Total(SubSeq(u, n + 1, Len(u)), v \o SubSeq(u, 1, n)) = Total(u, v)
        /\ Mail(SubSeq(u, n + 1, Len(u)), v \o SubSeq(u, 1, n)) = Mail(u, v)
    BY <2>2, MailReceived
  <2> QED BY <1>3, <2>1, <2>3 DEF Same, Letters, Load
<1> QED BY <1>2, <1>3

LEMMA PostedMail ==
  ASSUME Lanes, NEW chat, NEW body \in Body, Posted(chat, body),
         NEW c \in Bot, inbox'[c] = inbox[c]
  PROVE  IF c = chat /\ Fits(chat) THEN Arrives(c, [id |-> nextID', body |-> body])
                                   ELSE Same(c)
<1> DEFINE m == [id |-> nextID', body |-> body]
<1>1. DOMAIN Unread = Bot /\ m \in Letter
  BY UnreadDomain DEF Posted, Lanes, Letter
<1>2. Unread' = IF Fits(chat) THEN [Unread EXCEPT ![chat] = Append(Unread[chat], m)]
                              ELSE Unread
  BY DEF Posted
<1> HIDE DEF m
<1>3. CASE ~(c = chat /\ Fits(chat))
  <2>1. Unread'[c] = Unread[c]
    BY <1>1, <1>2, <1>3
  <2> QED BY <1>3, <2>1, UnchangedMail
<1>4. CASE c = chat /\ Fits(chat)
  <2>1. Unread'[c] = Append(Unread[c], m)
    BY <1>1, <1>2, <1>4
  <2>2. Unread[c] \in Seq(Letter) /\ inbox[c] \in Seq(Letter)
    BY MailTyped
  <2>3. /\ Total(Append(Unread[c], m), inbox[c]) = Total(Unread[c], inbox[c]) + 1
        /\ Mail(Append(Unread[c], m), inbox[c]) = Mail(Unread[c], inbox[c]) \cup {m}
    BY <1>1, <2>2, MailPosted
  <2>4. Arrives(c, m)
    BY <2>1, <2>3 DEF Arrives, Letters, Load
  <2> QED BY <1>4, <2>4 DEF m
<1> QED BY <1>3, <1>4

LEMMA TakenMail ==
  ASSUME Lanes, NEW b \in Bot, Taken(b), Unread'[b] = Unread[b]
  PROVE  /\ Departs(b, Head(inbox[b])) /\ Load[b] >= 1
         /\ \A c \in Bot \ {b} : inbox'[c] = inbox[c]
<1>1. DOMAIN inbox = Bot
  BY DEF Lanes
<1>2. inbox'[b] = Tail(inbox[b]) /\ inbox[b] # <<>>
  BY <1>1 DEF Taken
<1>3. Unread[b] \in Seq(Letter) /\ inbox[b] \in Seq(Letter)
  BY MailTyped
<1>4. /\ Total(Unread[b], Tail(inbox[b])) = Total(Unread[b], inbox[b]) - 1
      /\ Total(Unread[b], inbox[b]) >= 1
      /\ Head(inbox[b]) \in Mail(Unread[b], inbox[b])
      /\ Mail(Unread[b], inbox[b]) = Mail(Unread[b], Tail(inbox[b])) \cup {Head(inbox[b])}
  BY <1>2, <1>3, MailTaken
<1>5. Departs(b, Head(inbox[b])) /\ Load[b] >= 1
  BY <1>2, <1>4 DEF Departs, Letters, Load
<1> QED BY <1>1, <1>5 DEF Taken

(* What the steps do to the letters. Polls and signals move none.          *)
WireStep ==
  \/ \E b \in Bot : BeginPoll(b) \/ EndPoll(b) \/ LosePoll(b)
  \/ \E s \in Sender : SignalNext(s)

LEMMA WireMail ==
  ASSUME Lanes, SilentStep \/ WireStep
  PROVE  nextID' = nextID /\ \A c \in Bot : Same(c)
<1>1. CASE SilentStep \/ \E s \in Sender : SignalNext(s)
  BY <1>1, SilentKeepsLanes, UnchangedMail
<1>2. ASSUME NEW b \in Bot, BeginPoll(b)
      PROVE  nextID' = nextID /\ \A c \in Bot : Same(c)
  BY <1>2, PollBegins, UnchangedMail
<1>3. ASSUME NEW b \in Bot, EndPoll(b)
      PROVE  nextID' = nextID /\ \A c \in Bot : Same(c)
  <2>1. PICK n \in 0..Len(Unread[b]) : Received(b, n)
    BY <1>3, PollEnds
  <2> QED BY <2>1, ReceivedMail DEF Received
<1>4. ASSUME NEW b \in Bot, LosePoll(b)
      PROVE  nextID' = nextID /\ \A c \in Bot : Same(c)
  <2>1. EndOfPoll(b) /\ UNCHANGED client
    BY <1>4 DEF LosePoll
  <2> QED BY <2>1, PollLost, UnchangedMail
<1> QED BY <1>1, <1>2, <1>3, <1>4 DEF WireStep

LEMMA DriverMail ==
  ASSUME Lanes, NEW chat, NEW costly \in BOOLEAN, Send(Driver, Router, chat, 0, costly),
         UNCHANGED client
  PROVE  /\ nextID' = nextID + 2 /\ Overflow(chat)
         /\ \A c \in Bot :
              IF c = chat /\ Fits(chat)
              THEN Arrives(c, [id |-> nextID', body |-> Request(costly)])
              ELSE Same(c)
<1>1. UNCHANGED inbox /\ Posted(chat, Request(costly)) /\ Overflow(chat)
  BY DriverSends
<1>2. Request(costly) \in Body
  BY TeamAssumption DEF Request, Body
<1> QED BY <1>1, <1>2, PostedMail DEF Posted

(* Specialists and approver are written to by the router only, the router  *)
(* by those that answer it.                                                *)
Addressed ==
  \A b \in Bot : \A m \in Letters[b] :
    /\ m.id \in 2..nextID
    /\ b # Router => m.body.from = Router
    /\ b = Router => m.body.re \in 1..nextID

LEMMA HandleMail ==
  ASSUME Lanes, Addressed, NEW b \in Bot, HandleMessage(b)
  PROVE  /\ b # Router /\ nextID' = nextID + 2 /\ Overflow(Router) /\ Load[b] >= 1
         /\ \E m \in Letters[b] :
              /\ Departs(b, m)
              /\ \A c \in Bot \ {b} :
                   IF c = Router /\ Fits(Router)
                   THEN Arrives(c, [id |-> nextID', body |-> Response(b, m)])
                   ELSE Same(c)
<1> DEFINE m == Head(inbox[b])
<1>1. /\ Taken(b) /\ b # Router /\ m \in Letter
      /\ Posted(m.body.from, Response(b, m)) /\ Overflow(m.body.from)
  BY BotHandles
<1>2. m \in Letters[b]
  BY <1>1, MailTyped, MailTaken DEF Taken, Letters
<1>3. m.body.from = Router
  BY <1>1, <1>2 DEF Addressed
<1>4. Unread'[b] = Unread[b]
  BY <1>1, <1>3, UnreadDomain DEF Posted
<1>5. Departs(b, m) /\ Load[b] >= 1 /\ \A c \in Bot \ {b} : inbox'[c] = inbox[c]
  BY <1>1, <1>4, TakenMail
<1> HIDE DEF m
<1>6. Response(b, m) \in Body
  BY <1>1 DEF Letter, Body, Response, MessageID
<1>7. \A c \in Bot \ {b} : IF c = Router /\ Fits(Router)
                           THEN Arrives(c, [id |-> nextID', body |-> Response(b, m)])
                           ELSE Same(c)
  BY <1>1, <1>3, <1>5, <1>6, PostedMail
<1> QED BY <1>1, <1>2, <1>3, <1>5, <1>7 DEF Posted

LEMMA TakeMail ==
  ASSUME Lanes, NEW b \in Bot, HandleMessageFails(b) \/ (b = Router /\ HandleIncomingReply)
  PROVE  /\ nextID' = nextID /\ Load[b] >= 1 /\ Head(inbox[b]) \in Letter
         /\ Departs(b, Head(inbox[b])) /\ \A c \in Bot \ {b} : Same(c)
<1>1. Taken(b) /\ UNCHANGED <<Unread, nextID>>
  BY BotTakes
<1>2. /\ Departs(b, Head(inbox[b])) /\ Load[b] >= 1
      /\ \A c \in Bot \ {b} : inbox'[c] = inbox[c]
  BY <1>1, TakenMail
<1> QED BY <1>1, <1>2, TakenTyped, UnchangedMail

-----------------------------------------------------------------------------
(* The script, and the ids that the driver and the map refer to.           *)

Tasks == {t \in Task : Specialist(t) \in Bot}

Plan ==
  /\ script \in Seq(Seq(Tasks) \ {<<>>})
  /\ pc \notin {"begin", "exit"} => script # <<>>

LEMMA PlanKept == ASSUME Plan, [Next]_vars PROVE Plan'
<1>1. CASE UNCHANGED <<script, pc>>
  BY <1>1 DEF Plan
<1>2. CASE BeginIteration
  BY <1>2 DEF BeginIteration, Plan
<1>3. CASE NextTask
  <2> DEFINE S == Seq(Tasks) \ {<<>>}
             rest == Tail(Head(script))
  <2>1. script \in Seq(S) /\ script # <<>> /\ pc = "next"
    BY <1>3 DEF NextTask, Plan
  <2>2. Head(script) \in S /\ Tail(script) \in Seq(S)
    <3> HIDE DEF S
    <3> QED BY <2>1, HeadTailProperties
  <2>3. rest \in Seq(Tasks)
    BY <2>2, HeadTailProperties
  <2>4. rest # <<>> => rest \in S
    BY <2>3
  <2>5. script' = IF rest = <<>> THEN Tail(script) ELSE <<rest>> \o Tail(script)
    BY <1>3 DEF NextTask
  <2>6. pc' = IF rest = <<>> THEN "begin" ELSE "send"
    BY <1>3 DEF NextTask
  <2> HIDE DEF S, rest
  <2>7. CASE rest = <<>>
    BY <2>2, <2>5, <2>6, <2>7 DEF Plan, S
  <2>8. CASE rest # <<>>
    <3>1. <<rest>> \in Seq(S) /\ Len(<<rest>>) = 1
      BY <2>4, <2>8
    <3>2. /\ <<rest>> \o Tail(script) \in Seq(S)
          /\ Len(<<rest>> \o Tail(script)) = 1 + Len(Tail(script))
      BY <2>2, <3>1, ConcatProperties
    <3>3. Len(Tail(script)) \in Nat
      BY <2>2
    <3>4. <<rest>> \o Tail(script) # <<>>
      BY <3>2, <3>3, EmptySeq
    <3> QED BY <2>5, <2>8, <3>2, <3>4 DEF Plan, S
  <2> QED BY <2>7, <2>8
<1>4. CASE \/ Dispatch \/ RegisterChannel \/ Repeat \/ TakeReply \/ AskApproval
           \/ RegisterApproval \/ TakeApproval \/ GiveUp \/ Notify
           \/ RequestLost \/ AnswerLost \/ Expire \/ Interrupt
  <2>1. script' = script
    BY <1>4 DEF Dispatch, RegisterChannel, Repeat, TakeReply, AskApproval,
       RegisterApproval, TakeApproval, GiveUp, Notify, RequestLost, AnswerLost, Expire,
       Interrupt
  <2>2. pc \notin {"begin", "exit"} \/ pc' = pc
    BY <1>4 DEF Dispatch, RegisterChannel, Repeat, TakeReply, AskApproval,
       RegisterApproval, TakeApproval, GiveUp, Notify, RequestLost, AnswerLost, Expire,
       Interrupt
  <2> QED BY <2>1, <2>2 DEF Plan
<1>5. ASSUME NEW b \in Bot, BotStep(b) \/ HandleMessageFails(b) \/ LosePoll(b)
      PROVE  UNCHANGED <<script, pc>>
  BY <1>5 DEF BotStep, BeginPoll, EndPoll, HandleMessage, HandleMessageFails, LosePoll,
     driver
<1>6. HandleIncomingReply \/ (\E s \in Sender : SignalNext(s)) \/ UNCHANGED vars =>
        UNCHANGED <<script, pc>>
  BY DEF HandleIncomingReply, SignalNext, vars, driver
<1> QED BY <1>1, <1>2, <1>3, <1>4, <1>5, <1>6 DEF Next, DriverStep, Exited

(* Who is asked is never the router itself.                                *)
LEMMA Asked ==
  ASSUME Plan, pc \notin {"begin", "exit"}
  PROVE  Specialist(task) \in Bot /\ Specialist(task) # Router
<1> DEFINE S == Seq(Tasks) \ {<<>>}
<1>1. script \in Seq(S) /\ script # <<>>
  BY DEF Plan
<1>2. Head(script) \in S
  <2> HIDE DEF S
  <2> QED BY <1>1, HeadTailProperties
<1>3. task \in Tasks
  BY <1>2, HeadTailProperties DEF task
<1> QED BY <1>3 DEF Tasks, Task, Specialist, IsRefund, Router

(* All that the theorems below need of the letters and of the plan.        *)
Post == Lanes /\ Replies /\ Addressed /\ Plan

LEMMA AddressedKept ==
  ASSUME Post, [Next]_vars
  PROVE  Addressed'
<1>1. Lanes /\ Replies /\ Addressed /\ Plan /\ nextID \in Nat /\ Router \in Bot
  BY TeamAssumption DEF Post, Lanes
<1>2. ASSUME nextID' = nextID, \A c \in Bot : Letters'[c] \subseteq Letters[c]
      PROVE  Addressed'
  BY <1>1, <1>2 DEF Addressed
<1>3. CASE SilentStep \/ WireStep
  BY <1>1, <1>2, <1>3, WireMail DEF Same
<1>4. ASSUME NEW b \in Bot, HandleMessageFails(b) \/ (b = Router /\ HandleIncomingReply)
      PROVE  Addressed'
  <2>1. nextID' = nextID /\ Departs(b, Head(inbox[b])) /\ \A c \in Bot \ {b} : Same(c)
    BY <1>1, <1>4, TakeMail
  <2>2. Letters'[b] \subseteq Letters[b] /\ \A c \in Bot \ {b} : Letters'[c] = Letters[c]
    BY <2>1 DEF Departs, Same
  <2> QED BY <2>1, <2>2, <1>2
<1>5. ASSUME NEW chat, NEW costly \in BOOLEAN, Send(Driver, Router, chat, 0, costly),
             UNCHANGED client, chat # Router
      PROVE  Addressed'
  <2> DEFINE m == [id |-> nextID', body |-> Request(costly)]
  <2>1. /\ nextID' = nextID + 2
        /\ \A c \in Bot : IF c = chat /\ Fits(chat) THEN Arrives(c, m) ELSE Same(c)
    BY <1>1, <1>5, DriverMail
  <2>2. m.id = nextID' /\ m.body.from = Router
    BY DEF Request
  <2> HIDE DEF m
  <2>3. \A c \in Bot : Letters'[c] \subseteq Letters[c] \cup (IF c = chat THEN {m} ELSE {})
    BY <2>1 DEF Arrives, Same
  <2> SUFFICES ASSUME NEW c \in Bot, NEW l \in Letters'[c]
               PROVE  /\ l.id \in 2..nextID'
                      /\ c # Router => l.body.from = Router
                      /\ c = Router => l.body.re \in 1..nextID'
    BY DEF Addressed
  <2>4. CASE l \in Letters[c]
    BY <1>1, <2>1, <2>4 DEF Addressed
  <2>5. CASE l = m /\ c = chat
    BY <1>1, <1>5, <2>1, <2>2, <2>5
  <2> QED BY <2>3, <2>4, <2>5
<1>6. ASSUME NEW b \in Bot, HandleMessage(b)
      PROVE  Addressed'
  <2>1. /\ b # Router /\ nextID' = nextID + 2
        /\ \E m \in Letters[b] :
             /\ Departs(b, m)
             /\ \A c \in Bot \ {b} :
                  IF c = Router /\ Fits(Router)
                  THEN Arrives(c, [id |-> nextID', body |-> Response(b, m)])
                  ELSE Same(c)
    BY <1>1, <1>6, HandleMail
  <2>2. PICK m \in Letters[b] :
          /\ Departs(b, m)
          /\ \A c \in Bot \ {b} : IF c = Router /\ Fits(Router)
                                  THEN Arrives(c, [id |-> nextID', body |-> Response(b, m)])
                                  ELSE Same(c)
    BY <2>1
  <2> DEFINE r == [id |-> nextID', body |-> Response(b, m)]
  <2>3. r.id = nextID' /\ r.body.re \in 1..nextID
    BY <1>1 DEF Response, Addressed, MessageID
  <2>4. \A c \in Bot \ {b} : IF c = Router /\ Fits(Router) THEN Arrives(c, r) ELSE Same(c)
    BY <2>2
  <2> HIDE DEF r
  <2>5. \A c \in Bot : Letters'[c] \subseteq Letters[c] \cup (IF c = Router THEN {r} ELSE {})
    BY <2>2, <2>4 DEF Departs, Arrives, Same
  <2> SUFFICES ASSUME NEW c \in Bot, NEW l \in Letters'[c]
               PROVE  /\ l.id \in 2..nextID'
                      /\ c # Router => l.body.from = Router
                      /\ c = Router => l.body.re \in 1..nextID'
    BY DEF Addressed
  <2>6. CASE l \in Letters[c]
    BY <1>1, <2>1, <2>6 DEF Addressed
  <2>7. CASE l = r /\ c = Router
    BY <1>1, <2>1, <2>3, <2>7
  <2> QED BY <2>5, <2>6, <2>7
<1>7. CASE Dispatch \/ Repeat
  <2>1. Send(Driver, Router, Specialist(task), 0, Costly) /\ UNCHANGED client
    BY <1>7 DEF Dispatch, Repeat
  <2>2. Costly \in BOOLEAN
    BY DEF Costly
  <2>3. Specialist(task) # Router
    BY <1>1, <1>7, Asked DEF Dispatch, Repeat
  <2> QED BY <2>1, <2>2, <2>3, <1>5
<1>8. CASE AskApproval \/ Notify
  <2>1. /\ Send(Driver, Router, Approver, 0, reply.costly)
             \/ Send(Driver, Router, Customer, 0, reply.costly)
        /\ UNCHANGED client /\ pc \in {"ask", "notify"}
    BY <1>8 DEF AskApproval, Notify
  <2>2. reply.costly \in BOOLEAN
    BY <1>1, <2>1 DEF Replies, Body
  <2>3. Approver # Router /\ Customer # Router
    BY DEF Approver, Customer, Router
  <2> QED BY <2>1, <2>2, <2>3, <1>5
<1>9. CASE Next
  <2>1. \/ SilentStep \/ WireStep
        \/ Dispatch \/ Repeat \/ AskApproval \/ Notify \/ HandleIncomingReply
        \/ \E b \in Bot : HandleMessage(b) \/ HandleMessageFails(b)
    BY <1>9 DEF Next, DriverStep, BotStep, Exited, SilentStep, WireStep
  <2> QED BY <2>1, <1>1, <1>3, <1>4, <1>6, <1>7, <1>8
<1>10. CASE UNCHANGED vars
  BY <1>10, <1>3 DEF SilentStep
<1> QED BY <1>9, <1>10

LEMMA PostInductive == /\ Init => Post
                       /\ Post /\ [Next]_vars => Post'
<1>1. ASSUME Init PROVE Post
  <2>1. Lanes /\ Replies
    BY <1>1, InitLanes
  <2>2. Plan
    BY <1>1, TeamAssumption DEF Init, Plan, Tasks
  <2>3. ASSUME NEW b \in Bot PROVE Letters[b] = {}
    <3>1. Feed!Init
      BY <1>1, InitLanes
    <3>2. Unread[b] = <<>> /\ inbox[b] = <<>>
      BY <3>1 DEF Feed!Init
    <3>3. <<>> \in Seq(Letter) /\ Total(<<>>, <<>>) = 0
      BY DEF Total
    <3>4. Mail(<<>>, <<>>) = {}
      BY <3>3, NoMail
    <3> QED BY <3>2, <3>4 DEF Letters
  <2> QED BY <2>1, <2>2, <2>3 DEF Post, Addressed
<1>2. ASSUME Post, [Next]_vars PROVE Post'
  BY <1>2, StepOfFeed, RepliesKept, PlanKept, AddressedKept DEF Post
<1> QED BY <1>1, <1>2

-----------------------------------------------------------------------------
(* Types.                                                                  *)

Ids ==
  /\ channel \in 0..nextID /\ (pc \in {"sent", "asked"} => channel \in 1..nextID)
  /\ asked \in SUBSET (1..nextID) /\ pending \in SUBSET (1..nextID)
  /\ reply # NoReply => reply.re \in 1..nextID
  /\ faults \in 0..MaxFaults
  /\ interrupted => expired
  /\ offset = [b \in Bot |-> offset[b]]

LEMMA CounterGrows ==
  ASSUME Post, [Next]_vars
  PROVE  nextID \in Nat /\ nextID >= 1 /\ nextID' \in Nat /\ nextID' >= nextID
<1>1. FeedStep /\ nextID \in Nat /\ nextID >= 1 /\ nextID' \in Nat
  BY StepOfFeed DEF Post, Lanes
<1>2. CASE Feed!Next
  <2>1. nextID' > nextID \/ nextID' = nextID
    BY <1>2 DEF Feed!Next, Feed!Publish, Feed!Waste, Feed!Confirm, Feed!Receive
  <2> QED BY <1>1, <2>1
<1>3. CASE UNCHANGED nextID
  BY <1>1, <1>3
<1> QED BY <1>1, <1>2, <1>3 DEF FeedStep

(* Both ids of a message are new ones.                                     *)
LEMMA SendCounts ==
  ASSUME Lanes, NEW s, NEW from, NEW chat, NEW re, NEW costly, Send(s, from, chat, re, costly)
  PROVE  NextMessageID \in 1..nextID'
BY DEF Send, SendMessage, NextMessageID, NextUpdateID, Lanes

LEMMA OffsetsKept ==
  ASSUME Lanes, offset = [b \in Bot |-> offset[b]], [Next]_vars
  PROVE  offset' = [b \in Bot |-> offset'[b]]
<1>1. CASE UNCHANGED offset
  BY <1>1
<1>2. ASSUME NEW b \in Bot, EndPoll(b)
      PROVE  offset' = [c \in Bot |-> offset'[c]]
  <2>1. offset' = offset \/ \E o : offset' = [offset EXCEPT ![b] = o]
    BY <1>2 DEF EndPoll, Receive
  <2> QED BY <2>1
<1>3. UNCHANGED offset \/ \E b \in Bot : EndPoll(b)
  BY DEF Next, DriverStep, BotStep, BeginIteration, Dispatch, RegisterChannel, Repeat,
     TakeReply, AskApproval, RegisterApproval, TakeApproval, GiveUp, Notify, NextTask,
     RequestLost, AnswerLost, Expire, Interrupt, HandleIncomingReply, BeginPoll,
     HandleMessage, HandleMessageFails, LosePoll, SignalNext, Exited, vars, client
<1> QED BY <1>1, <1>2, <1>3

LEMMA IdsKept ==
  ASSUME Post, Ids, [Next]_vars
  PROVE  Ids'
<1>1. /\ nextID \in Nat /\ nextID >= 1 /\ nextID' \in Nat /\ nextID' >= nextID
      /\ 1..nextID \in SUBSET (1..nextID') /\ 0..nextID \in SUBSET (0..nextID')
      /\ 1..nextID' \in SUBSET (0..nextID')
  BY CounterGrows
<1>2. offset' = [b \in Bot |-> offset'[b]]
  BY OffsetsKept DEF Post, Ids
<1>3. ASSUME Fail PROVE faults' \in 0..MaxFaults
  BY <1>3, TeamAssumption DEF Fail, Ids
<1>4. CASE HandleIncomingReply
  <2> DEFINE m == Head(inbox[Router])
  <2>1. Router \in Bot /\ Lanes /\ Addressed
    BY TeamAssumption DEF Post
  <2>2. m \in Letters[Router]
    BY <1>4, <2>1, TakeMail DEF Departs
  <2>3. m.body.re \in 1..nextID
    BY <2>1, <2>2 DEF Addressed
  <2>4. Take(m.body) /\ UNCHANGED <<driver, faults>>
    BY <1>4 DEF HandleIncomingReply
  <2> HIDE DEF m
  <2>5. pending' \in SUBSET pending /\ (reply' = reply \/ reply' = m.body)
    BY <2>4 DEF Take
  <2> QED BY <1>1, <1>2, <2>3, <2>4, <2>5 DEF Ids, driver
<1>5. CASE BeginIteration \/ Expire \/ Interrupt
  BY <1>1, <1>2, <1>5 DEF BeginIteration, Expire, Interrupt, replies, Ids
<1>6. CASE Dispatch \/ AskApproval
  <2>1. /\ channel' = NextMessageID /\ asked' = {NextMessageID} /\ reply' = NoReply
        /\ UNCHANGED <<pending, faults, expired, interrupted>>
    BY <1>6 DEF Dispatch, AskApproval
  <2>2. NextMessageID \in 1..nextID'
    BY <1>6, SendCounts DEF Dispatch, AskApproval, Post
  <2> QED BY <1>1, <1>2, <2>1, <2>2 DEF Ids
<1>7. CASE RegisterChannel \/ RegisterApproval
  <2>1. /\ pending' = pending \cup {channel} /\ channel \in 1..nextID
        /\ UNCHANGED <<channel, asked, reply, faults, expired, interrupted>>
        /\ pc' \notin {"sent", "asked"}
    BY <1>7 DEF RegisterChannel, RegisterApproval, Ids
  <2> QED BY <1>1, <1>2, <2>1 DEF Ids
<1>8. CASE Repeat
  <2>1. /\ asked' = asked \cup {NextMessageID} /\ pc' = "wait"
        /\ UNCHANGED <<channel, pending, reply, faults, expired, interrupted>>
    BY <1>8 DEF Repeat, replies
  <2>2. NextMessageID \in 1..nextID'
    BY <1>8, SendCounts DEF Repeat, Post
  <2> QED BY <1>1, <1>2, <2>1, <2>2 DEF Ids
<1>9. CASE TakeReply \/ TakeApproval \/ GiveUp \/ Notify \/ NextTask
  <2>1. /\ UNCHANGED <<channel, pending, reply, faults, expired, interrupted>>
        /\ asked' \in SUBSET asked /\ pc' \notin {"sent", "asked"}
    BY <1>9 DEF TakeReply, TakeApproval, GiveUp, Notify, NextTask, replies
  <2> QED BY <1>1, <1>2, <2>1 DEF Ids
<1>10. CASE RequestLost \/ AnswerLost
  <2>1. /\ UNCHANGED <<channel, pending, reply, asked, expired, interrupted>> /\ Fail
        /\ pc' \notin {"sent", "asked"}
    BY <1>10 DEF RequestLost, AnswerLost, replies
  <2> QED BY <1>1, <1>2, <1>3, <2>1 DEF Ids
<1>11. ASSUME UNCHANGED <<driver, replies>>, Fail \/ UNCHANGED faults
       PROVE  Ids'
  BY <1>1, <1>2, <1>3, <1>11 DEF Ids, driver, replies
<1>12. ASSUME NEW b \in Bot, BotStep(b) \/ HandleMessageFails(b) \/ LosePoll(b)
       PROVE  UNCHANGED <<driver, replies>> /\ (Fail \/ UNCHANGED faults)
  BY <1>12 DEF BotStep, BeginPoll, EndPoll, HandleMessage, HandleMessageFails, LosePoll
<1>13. (\E s \in Sender : SignalNext(s)) \/ UNCHANGED vars =>
         UNCHANGED <<driver, replies>> /\ UNCHANGED faults
  BY DEF SignalNext, vars
<1> QED BY <1>4, <1>5, <1>6, <1>7, <1>8, <1>9, <1>10, <1>11, <1>12, <1>13
        DEF Next, DriverStep, Exited

LEMMA InitIds == Init => Ids
BY TeamAssumption DEF Init, New, Ids

(* The types of the mock, the bots and the driver, for every script: above *)
(* all that an offset is at most one ahead of the newest update, so that   *)
(* no update is confirmed before it was received, and that what a task     *)
(* takes for its reply is an answer of a bot to an earlier message.        *)
THEOREM TeamTyped == Spec => []TypeOK
<1> DEFINE Inv == WakeInv /\ Post /\ Ids
<1>1. Init => Inv
  <2>1. Init => WakeInv
    BY DEF Init, New, Closed, WakeInv, Shape, WaitersRegistered, NoLostWakeup
  <2> QED BY <2>1, PostInductive, InitIds
<1>2. Inv /\ [Next]_vars => Inv'
  BY WakeInvInductive, PostInductive, IdsKept
<1>3. Inv => TypeOK
  <2> SUFFICES ASSUME Inv PROVE TypeOK
    OBVIOUS
  <2>1. Lanes /\ nextID \in Nat /\ \A b \in Bot : Lane(b)
    BY DEF Post, Lanes
  <2>2. MockTypeOK
    <3>1. \A p \in Poll : poll[p].phase \in {"closed", "waiting", "leaving"}
      BY <2>1, TeamAssumption DEF Lane
    <3>2. \A b \in Bot : Len(queue[b]) <= MaxQueueDepth
      BY <2>1 DEF Lane
    <3> QED BY <2>1, <3>1, <3>2 DEF WakeInv, Shape, MockTypeOK
  <2>3. offset \in [Bot -> 0..nextID + 1]
    <3>1. \A b \in Bot : offset[b] \in 0..(nextID + 1)
      BY <2>1 DEF Lane
    <3> QED BY <3>1 DEF Ids
  <2>4. reply # NoReply => reply.from \in Bot
    BY DEF Post, Replies, Body
  <2> QED BY <2>2, <2>3, <2>4 DEF TypeOK, Ids
<1> HIDE DEF Inv
<1> QED BY <1>1, <1>2, <1>3, PTL DEF Spec

-----------------------------------------------------------------------------
(* A task that waits.                                                      *)

Asking == {"sent", "repeat", "wait", "asked", "await"}

(* A letter that leads to the reply that the task waits for.               *)
Due(b, m) == IF b = Router THEN m.body.re \in asked ELSE MessageID(m) \in asked

(* Unless something was lost, the request or its answer is under way for   *)
(* as long as the task has no reply.                                       *)
OnItsWay ==
  pc \in Asking /\ reply = NoReply /\ ~missed /\ ~dropped /\ faults = 0 =>
    \E b \in Bot : \E m \in Letters[b] : Due(b, m)

LEMMA Room ==
  ASSUME Lanes, NEW chat \in Bot, Overflow(chat), ~dropped'
  PROVE  Fits(chat)
<1>1. queue[chat] \in Seq(Letter) /\ Len(queue[chat]) <= MaxQueueDepth
  BY DEF Lanes, Lane
<1>2. Len(queue[chat]) # MaxQueueDepth
  BY DEF Overflow
<1>3. Len(queue[chat]) \in Nat /\ MaxQueueDepth \in Nat
  BY <1>1, MockAssumption
<1> QED BY <1>1, <1>2, <1>3 DEF Fits

LEMMA OnItsWayKept ==
  ASSUME Post, Ids, OnItsWay, [Next]_vars
  PROVE  OnItsWay'
<1>0. /\ Lanes /\ Replies /\ Addressed /\ Plan /\ {Router, Approver} \subseteq Bot
      /\ faults \in Nat
  BY TeamAssumption DEF Post, Ids
<1> SUFFICES ASSUME pc' \in Asking, reply' = NoReply, ~missed', ~dropped', faults' = 0
             PROVE  \E b \in Bot : \E m \in Letters'[b] : Due(b, m)'
  BY DEF OnItsWay
<1>1. ~Fail
  BY <1>0 DEF Fail
<1>2. ASSUME \A c \in Bot : Letters[c] \subseteq Letters'[c],
             pc \in Asking, reply = NoReply, ~missed, ~dropped, faults = 0, asked \subseteq asked'
      PROVE  \E b \in Bot : \E m \in Letters'[b] : Due(b, m)'
  <2>1. PICK b \in Bot : \E m \in Letters[b] : Due(b, m)
    BY <1>2 DEF OnItsWay
  <2>2. PICK m \in Letters[b] : Due(b, m)
    BY <2>1
  <2>3. m \in Letters'[b] /\ Due(b, m)'
    BY <2>2, <1>2 DEF Due
  <2> QED BY <2>3
<1>3. CASE SilentStep
  <2>1. /\ pc \in Asking /\ asked' = asked
        /\ UNCHANGED <<reply, missed, dropped, faults>>
    BY <1>1, <1>3 DEF SilentStep, BeginIteration, RegisterChannel, TakeReply,
       RegisterApproval, TakeApproval, GiveUp, NextTask, RequestLost, AnswerLost, Expire,
       Interrupt, Asking, replies, vars, driver
  <2>2. \A c \in Bot : Letters'[c] = Letters[c]
    BY <1>0, <1>3, WireMail DEF Same
  <2> QED BY <2>1, <2>2, <1>2
<1>4. CASE WireStep
  <2>1. UNCHANGED <<driver, replies, faults, dropped>>
    BY <1>1, <1>4 DEF WireStep, BeginPoll, EndPoll, LosePoll, SignalNext
  <2>2. \A c \in Bot : Letters'[c] = Letters[c]
    BY <1>0, <1>4, WireMail DEF Same
  <2> QED BY <2>1, <2>2, <1>2 DEF driver, replies
<1>5. ASSUME NEW chat \in Bot, chat # Router, NEW costly \in BOOLEAN,
             Send(Driver, Router, chat, 0, costly), UNCHANGED client, asked' = {NextMessageID}
      PROVE  \E b \in Bot : \E m \in Letters'[b] : Due(b, m)'
  <2> DEFINE m == [id |-> nextID', body |-> Request(costly)]
  <2>1. /\ Overflow(chat) /\ nextID' = nextID + 2 /\ nextID \in Nat
        /\ \A c \in Bot : IF c = chat /\ Fits(chat) THEN Arrives(c, m) ELSE Same(c)
    BY <1>0, <1>5, DriverMail DEF Lanes
  <2>2. Arrives(chat, m)
    BY <1>0, <2>1, Room
  <2>3. m \in Letters'[chat] /\ MessageID(m) \in asked'
    BY <2>1, <2>2, <1>5 DEF Arrives, MessageID, NextMessageID
  <2> HIDE DEF m
  <2> QED BY <2>3, <1>5 DEF Due
<1>6. CASE Dispatch
  <2>1. /\ Send(Driver, Router, Specialist(task), 0, Costly) /\ UNCHANGED client
        /\ asked' = {NextMessageID} /\ pc = "send" /\ Costly \in BOOLEAN
    BY <1>6 DEF Dispatch, Costly
  <2>2. Specialist(task) \in Bot /\ Specialist(task) # Router
    BY <1>0, <2>1, Asked
  <2> QED BY <2>1, <2>2, <1>5
<1>7. CASE AskApproval
  <2>1. /\ Send(Driver, Router, Approver, 0, reply.costly) /\ UNCHANGED client
        /\ asked' = {NextMessageID} /\ pc = "ask"
    BY <1>7 DEF AskApproval
  <2>2. Approver # Router /\ Approver \in Bot
    BY <1>0 DEF Approver, Router
  <2>3. reply.costly \in BOOLEAN
    BY <1>0, <2>1 DEF Replies, Body
  <2> QED BY <2>1, <2>2, <2>3, <1>5
<1>8. CASE Repeat
  <2>1. /\ Send(Driver, Router, Specialist(task), 0, Costly) /\ UNCHANGED client
        /\ asked' = asked \cup {NextMessageID} /\ pc = "repeat" /\ Costly \in BOOLEAN
        /\ UNCHANGED <<replies, faults>>
    BY <1>8 DEF Repeat, Costly
  <2>2. /\ Overflow(Specialist(task))
        /\ \A c \in Bot : IF c = Specialist(task) /\ Fits(Specialist(task))
                          THEN Arrives(c, [id |-> nextID', body |-> Request(Costly)])
                          ELSE Same(c)
    BY <1>0, <2>1, DriverMail
  <2>3. \A c \in Bot : Letters[c] \subseteq Letters'[c]
    BY <2>2 DEF Arrives, Same
  <2>4. ~dropped
    BY <2>2 DEF Overflow
  <2> QED BY <2>1, <2>3, <2>4, <1>2 DEF replies, Asking
<1>9. CASE Notify
  BY <1>9 DEF Notify, Asking
<1>10. ASSUME NEW b \in Bot, HandleMessage(b)
       PROVE  \E c \in Bot : \E m \in Letters'[c] : Due(c, m)'
  <2>1. /\ b # Router /\ Overflow(Router)
        /\ \E m \in Letters[b] :
             /\ Departs(b, m)
             /\ \A c \in Bot \ {b} :
                  IF c = Router /\ Fits(Router)
                  THEN Arrives(c, [id |-> nextID', body |-> Response(b, m)])
                  ELSE Same(c)
    BY <1>0, <1>10, HandleMail
  <2>2. PICK m \in Letters[b] :
          /\ Departs(b, m)
          /\ \A c \in Bot \ {b} : IF c = Router /\ Fits(Router)
                                  THEN Arrives(c, [id |-> nextID', body |-> Response(b, m)])
                                  ELSE Same(c)
    BY <2>1
  <2> DEFINE r == [id |-> nextID', body |-> Response(b, m)]
  <2>3. Arrives(Router, r) /\ r.body.re = MessageID(m)
    BY <1>0, <2>1, <2>2, Room DEF Response
  <2> HIDE DEF r
  <2>4. UNCHANGED <<driver, replies, faults>> /\ ~dropped
    BY <1>10, <2>1 DEF HandleMessage, Overflow
  <2>5. PICK c \in Bot : \E l \in Letters[c] : Due(c, l)
    BY <2>4 DEF OnItsWay, driver, replies
  <2>6. PICK l \in Letters[c] : Due(c, l)
    BY <2>5
  <2>7. CASE c = b /\ l = m
    BY <1>0, <2>1, <2>3, <2>4, <2>6, <2>7 DEF Arrives, Due, driver
  <2>8. CASE ~(c = b /\ l = m)
    <3>1. l \in Letters'[c]
      BY <2>2, <2>6, <2>8 DEF Departs, Arrives, Same
    <3>2. Due(c, l)'
      BY <2>4, <2>6 DEF Due, driver
    <3> QED BY <3>1, <3>2
  <2> QED BY <2>7, <2>8
<1>11. ~ \E b \in Bot : HandleMessageFails(b)
  BY <1>1 DEF HandleMessageFails
<1>12. CASE HandleIncomingReply
  <2> DEFINE m == Head(inbox[Router])
  <2>1. Departs(Router, m) /\ \A c \in Bot \ {Router} : Same(c)
    BY <1>0, <1>12, TakeMail
  <2>2. /\ Take(m.body) /\ UNCHANGED <<driver, faults, dropped>>
        /\ ~missed /\ m.body.re \notin asked
    BY <1>12 DEF HandleIncomingReply
  <2> HIDE DEF m
  <2>3. reply = NoReply
    <3>1. reply' = reply \/ reply' = m.body
      BY <2>2 DEF Take
    <3>2. m \in Letter
      BY <1>0, <1>12, TakeMail DEF m
    <3>3. m.body # NoReply
      BY <3>2 DEF Letter, Body, NoReply
    <3> QED BY <3>1, <3>3
  <2>4. PICK c \in Bot : \E l \in Letters[c] : Due(c, l)
    BY <2>2, <2>3 DEF OnItsWay, driver
  <2>5. PICK l \in Letters[c] : Due(c, l)
    BY <2>4
  <2>6. l \in Letters'[c]
    BY <2>1, <2>2, <2>5 DEF Departs, Same, Due
  <2>7. Due(c, l)'
    BY <2>2, <2>5 DEF Due, driver
  <2> QED BY <2>6, <2>7
<1>13. CASE Next
  <2>1. \/ SilentStep \/ WireStep
        \/ Dispatch \/ Repeat \/ AskApproval \/ Notify \/ HandleIncomingReply
        \/ \E b \in Bot : HandleMessage(b) \/ HandleMessageFails(b)
    BY <1>13 DEF Next, DriverStep, BotStep, Exited, SilentStep, WireStep
  <2> QED BY <2>1, <1>3, <1>4, <1>6, <1>7, <1>8, <1>9, <1>10, <1>11, <1>12
<1>14. CASE UNCHANGED vars
  BY <1>14, <1>3 DEF SilentStep
<1> QED BY <1>13, <1>14

(* A task waits for nothing only for the reasons that handleIncomingReply  *)
(* gives (the reply came before its channel was in the map, or was put     *)
(* into another channel), or because a call failed or a queue was full,    *)
(* for any script and any number of bots.                                  *)
THEOREM HangsExplained == Spec => []HangsOnlyAfterRace
<1> DEFINE Inv == Post /\ Ids /\ OnItsWay
<1>1. Init => Inv
  <2>1. Init => OnItsWay
    BY DEF Init, OnItsWay, Asking
  <2> QED BY <2>1, PostInductive, InitIds
<1>2. Inv /\ [Next]_vars => Inv'
  BY PostInductive, IdsKept, OnItsWayKept
<1>3. Inv => HangsOnlyAfterRace
  <2> SUFFICES ASSUME Inv, pc \in {"wait", "await"}, reply = NoReply, Quiet,
                      ~missed, ~dropped, faults = 0
               PROVE  FALSE
    BY TeamAssumption DEF HangsOnlyAfterRace, Ids
  <2>1. PICK b \in Bot : \E m \in Letters[b] : Due(b, m)
    BY DEF OnItsWay, Asking
  <2>2. Unread[b] = <<>> /\ inbox[b] = <<>>
    BY DEF Quiet
  <2>3. Letters[b] = {}
    <3>1. <<>> \in Seq(Letter) /\ Total(<<>>, <<>>) = 0
      BY DEF Total
    <3>2. Mail(<<>>, <<>>) = {}
      BY <3>1, NoMail
    <3> QED BY <2>2, <3>2 DEF Letters
  <2> QED BY <2>1, <2>3
<1> HIDE DEF Inv
<1> QED BY <1>1, <1>2, <1>3, PTL DEF Spec

-----------------------------------------------------------------------------
(* Whose answer a task gets.                                               *)

Idle == \A b \in Bot : Load[b] = 0

(* At most one letter is under way, and it leads to the awaited reply.     *)
Lone ==
  /\ \A b \in Bot : Load[b] \in {0, 1}
  /\ \A b, c \in Bot : Load[b] = 1 /\ Load[c] = 1 => b = c
  /\ \A b \in Bot : \A m \in Letters[b] : Due(b, m)

(* What makes the next reply to arrive the right one.                      *)
Orderly ==
  /\ Lone
  /\ pc \notin Asking \/ reply # NoReply => Idle
  /\ reply # NoReply /\ pc \in Asking \cup {"ask", "notify"} => reply.re \in asked

Single == ~repeated /\ ~abandoned => Orderly

LEMMA NothingForgotten ==
  ASSUME [Next]_vars
  PROVE  (repeated => repeated') /\ (abandoned => abandoned')
BY DEF Next, DriverStep, BotStep, BeginIteration, Dispatch, RegisterChannel, Repeat,
   TakeReply, AskApproval, RegisterApproval, TakeApproval, GiveUp, Notify, NextTask,
   RequestLost, AnswerLost, Expire, Interrupt, HandleIncomingReply, BeginPoll, EndPoll,
   HandleMessage, HandleMessageFails, LosePoll, SignalNext, Exited, vars, driver

(* A letter leaves bot b, which holds the only one.                        *)
LEMMA LastLeaves ==
  ASSUME Lanes, Lone, NEW b \in Bot, NEW m, Departs(b, m), Load[b] >= 1
  PROVE  /\ Load'[b] = 0 /\ \A c \in Bot \ {b} : Load[c] = 0
         /\ Due(b, m)
         /\ \A c \in Bot \ {b} : Letters[c] = {}
<1>1. Load[b] = 1
  BY DEF Lone
<1>2. Load'[b] = 0
  BY <1>1 DEF Departs
<1>3. \A c \in Bot \ {b} : Load[c] = 0
  BY <1>1 DEF Lone
<1>4. \A c \in Bot \ {b} : Letters[c] = {}
  BY <1>3, MailTyped
<1> QED BY <1>2, <1>3, <1>4 DEF Departs, Lone

LEMMA SingleKept ==
  ASSUME Post, Single, [Next]_vars
  PROVE  Single'
<1>0. /\ Lanes /\ Replies /\ Addressed /\ Plan /\ {Router, Approver} \subseteq Bot
  BY TeamAssumption DEF Post
<1> SUFFICES ASSUME ~repeated', ~abandoned'
             PROVE  Orderly'
  BY DEF Single
<1>1. ~abandoned /\ Orderly
  BY NothingForgotten DEF Single
<1>2. Idle => \A b \in Bot : Letters[b] = {}
  BY <1>0, MailTyped DEF Idle
<1>3. ASSUME \A b \in Bot : Same(b), UNCHANGED reply,
             pc' \in Asking => pc \in Asking,
             pc \in Asking /\ pc' \notin Asking => reply # NoReply,
             pc' \in Asking \cup {"ask", "notify"} => pc \in Asking \cup {"ask", "notify"},
             asked' = asked \/ (pc \notin Asking /\ pc' \notin Asking \cup {"ask", "notify"})
      PROVE  Orderly'
  <2>1. \A b \in Bot : Load'[b] = Load[b] /\ Letters'[b] = Letters[b]
    BY <1>3 DEF Same
  <2>2. Idle => \A b \in Bot : Letters'[b] = {}
    BY <1>2, <2>1
  <2>3. \A b \in Bot : \A m \in Letters'[b] : Due(b, m)'
    <3>1. CASE asked' = asked
      BY <1>1, <2>1, <3>1 DEF Orderly, Lone, Due
    <3>2. CASE asked' # asked
      BY <1>1, <1>3, <2>2, <3>2 DEF Orderly
    <3> QED BY <3>1, <3>2
  <2>4. Lone'
    BY <1>1, <2>1, <2>3 DEF Orderly, Lone
  <2>5. pc' \notin Asking \/ reply' # NoReply => Idle'
    BY <1>1, <1>3, <2>1 DEF Orderly, Idle
  <2> QED BY <1>1, <1>3, <2>4, <2>5 DEF Orderly
<1>4. CASE SilentStep
  <2>1. \A b \in Bot : Same(b)
    BY <1>0, <1>4, WireMail
  <2>2. /\ UNCHANGED reply
        /\ pc' \in Asking => pc \in Asking
        /\ pc \in Asking /\ pc' \notin Asking => reply # NoReply
        /\ pc' \in Asking \cup {"ask", "notify"} => pc \in Asking \cup {"ask", "notify"}
        /\ asked' = asked \/ (pc \notin Asking /\ pc' \notin Asking \cup {"ask", "notify"})
    BY <1>4 DEF SilentStep, BeginIteration, RegisterChannel, TakeReply, RegisterApproval,
       TakeApproval, GiveUp, NextTask, RequestLost, AnswerLost, Expire, Interrupt, Asking,
       replies, vars, driver
  <2> QED BY <2>1, <2>2, <1>3
<1>5. CASE WireStep
  <2>1. UNCHANGED <<pc, reply, asked>>
    BY <1>5 DEF WireStep, BeginPoll, EndPoll, LosePoll, SignalNext, driver, replies
  <2> QED BY <1>0, <1>5, <2>1, <1>3, WireMail
<1>6. CASE Notify
  <2>1. /\ Send(Driver, Router, Customer, 0, reply.costly) /\ UNCHANGED client
        /\ pc = "notify" /\ pc' = "next" /\ UNCHANGED <<reply, asked>>
    BY <1>6 DEF Notify, replies
  <2>2. reply.costly \in BOOLEAN
    BY <1>0, <2>1 DEF Replies, Body
  <2>3. \A b \in Bot : Same(b)
    BY <1>0, <2>1, <2>2, TeamAssumption, DriverMail
  <2> QED BY <2>1, <2>3, <1>3 DEF Asking
<1>7. ASSUME NEW chat, chat # Router, NEW costly \in BOOLEAN,
             Send(Driver, Router, chat, 0, costly), UNCHANGED client, asked' = {NextMessageID},
             pc \notin Asking, pc' \in Asking, reply' = NoReply
      PROVE  Orderly'
  <2> DEFINE m == [id |-> nextID', body |-> Request(costly)]
  <2>1. /\ nextID' = nextID + 2 /\ nextID \in Nat
        /\ \A c \in Bot : IF c = chat /\ Fits(chat) THEN Arrives(c, m) ELSE Same(c)
    BY <1>0, <1>7, DriverMail DEF Lanes
  <2>2. MessageID(m) \in asked'
    BY <1>7, <2>1 DEF MessageID, NextMessageID
  <2> HIDE DEF m
  <2>3. \A c \in Bot : Load[c] = 0 /\ Letters[c] = {}
    BY <1>0, <1>1, <1>7, MailTyped DEF Orderly, Idle
  <2>4. \A c \in Bot : /\ Load'[c] = 0 \/ (c = chat /\ Load'[c] = 1)
                       /\ Letters'[c] \subseteq (IF c = chat THEN {m} ELSE {})
    BY <2>1, <2>3 DEF Arrives, Same
  <2>5. Lone'
    BY <1>7, <2>2, <2>4 DEF Lone, Due
  <2> QED BY <1>7, <2>5 DEF Orderly
<1>8. CASE Dispatch
  <2>1. /\ Send(Driver, Router, Specialist(task), 0, Costly) /\ UNCHANGED client
        /\ asked' = {NextMessageID} /\ pc = "send" /\ pc' = "sent" /\ reply' = NoReply
        /\ Costly \in BOOLEAN
    BY <1>8 DEF Dispatch, Costly
  <2>2. Specialist(task) # Router
    BY <1>0, <2>1, Asked
  <2> QED BY <2>1, <2>2, <1>7 DEF Asking
<1>9. CASE AskApproval
  <2>1. /\ Send(Driver, Router, Approver, 0, reply.costly) /\ UNCHANGED client
        /\ asked' = {NextMessageID} /\ pc = "ask" /\ pc' = "asked" /\ reply' = NoReply
    BY <1>9 DEF AskApproval
  <2>2. Approver # Router /\ reply.costly \in BOOLEAN
    BY <1>0, <2>1 DEF Approver, Router, Replies, Body
  <2> QED BY <2>1, <2>2, <1>7 DEF Asking
<1>10. ~Repeat
  BY DEF Repeat
<1>11. ASSUME NEW b \in Bot, HandleMessage(b)
       PROVE  Orderly'
  <2>1. /\ b # Router /\ Load[b] >= 1
        /\ \E m \in Letters[b] :
             /\ Departs(b, m)
             /\ \A c \in Bot \ {b} :
                  IF c = Router /\ Fits(Router)
                  THEN Arrives(c, [id |-> nextID', body |-> Response(b, m)])
                  ELSE Same(c)
    BY <1>0, <1>11, HandleMail
  <2>2. PICK m \in Letters[b] :
          /\ Departs(b, m)
          /\ \A c \in Bot \ {b} : IF c = Router /\ Fits(Router)
                                  THEN Arrives(c, [id |-> nextID', body |-> Response(b, m)])
                                  ELSE Same(c)
    BY <2>1
  <2> DEFINE r == [id |-> nextID', body |-> Response(b, m)]
  <2>3. r.body.re = MessageID(m)
    BY DEF Response
  <2>4. \A c \in Bot \ {b} : IF c = Router /\ Fits(Router) THEN Arrives(c, r) ELSE Same(c)
    BY <2>2
  <2> HIDE DEF r
  <2>5. UNCHANGED <<pc, reply, asked>>
    BY <1>11 DEF HandleMessage, driver, replies
  <2>6. /\ Load'[b] = 0 /\ \A c \in Bot \ {b} : Load[c] = 0 /\ Letters[c] = {}
        /\ MessageID(m) \in asked
    BY <1>0, <1>1, <2>1, <2>2, LastLeaves DEF Orderly, Due
  <2>7. \A c \in Bot : /\ Load'[c] = 0 \/ (c = Router /\ Load'[c] = 1)
                       /\ c # b => Letters'[c] \subseteq (IF c = Router THEN {r} ELSE {})
    BY <2>4, <2>6 DEF Arrives, Same
  <2>8. \A l \in Letters'[b] : Due(b, l)
    BY <1>1, <2>2 DEF Departs, Orderly, Lone
  <2>9. Lone'
    BY <2>1, <2>3, <2>5, <2>6, <2>7, <2>8 DEF Lone, Due
  <2>10. pc \in Asking /\ reply = NoReply
    BY <1>1, <2>1 DEF Orderly, Idle
  <2> QED BY <2>5, <2>9, <2>10 DEF Orderly
<1>12. ASSUME NEW b \in Bot, HandleMessageFails(b) \/ (b = Router /\ HandleIncomingReply),
              pc' = pc, asked' = asked,
              reply' = reply \/ (Due(b, Head(inbox[b])) => reply'.re \in asked)
       PROVE  Orderly'
  <2> DEFINE m == Head(inbox[b])
  <2>1. Load[b] >= 1 /\ Departs(b, m) /\ \A c \in Bot \ {b} : Same(c)
    BY <1>0, <1>12, TakeMail
  <2>2. Due(b, m)
    BY <1>0, <1>1, <2>1, LastLeaves DEF Orderly
  <2>3. reply' = reply \/ reply'.re \in asked
    BY <1>12, <2>2
  <2> HIDE DEF m
  <2>4. \A c \in Bot : Load'[c] = 0
    BY <1>0, <1>1, <2>1, LastLeaves DEF Orderly, Same
  <2>5. \A c \in Bot : Letters'[c] \subseteq Letters[c]
    BY <2>1 DEF Departs, Same
  <2>6. Lone' /\ Idle'
    BY <1>1, <1>12, <2>4, <2>5 DEF Orderly, Lone, Idle, Due
  <2> QED BY <1>1, <1>12, <2>3, <2>6 DEF Orderly
<1>13. ASSUME NEW b \in Bot, HandleMessageFails(b)
       PROVE  Orderly'
  BY <1>12, <1>13 DEF HandleMessageFails, driver, replies
<1>14. CASE HandleIncomingReply
  <2>1. pc' = pc /\ asked' = asked /\ Router \in Bot
    BY <1>0, <1>14 DEF HandleIncomingReply, driver
  <2>2. reply' = reply \/ reply' = Head(inbox[Router]).body
    BY <1>14 DEF HandleIncomingReply, Take
  <2>3. reply' = reply \/ (Due(Router, Head(inbox[Router])) => reply'.re \in asked)
    BY <2>2 DEF Due
  <2> QED BY <1>12, <1>14, <2>1, <2>3
<1>15. CASE Next
  <2>1. \/ SilentStep \/ WireStep
        \/ Dispatch \/ Repeat \/ AskApproval \/ Notify \/ HandleIncomingReply
        \/ \E b \in Bot : HandleMessage(b) \/ HandleMessageFails(b)
    BY <1>15 DEF Next, DriverStep, BotStep, Exited, SilentStep, WireStep
  <2> QED BY <2>1, <1>4, <1>5, <1>6, <1>8, <1>9, <1>10, <1>11, <1>13, <1>14
<1>16. CASE UNCHANGED vars
  BY <1>16, <1>4 DEF SilentStep
<1> QED BY <1>15, <1>16

(* For any script, bots and interleaving of polls and senders: as long as  *)
(* no request was sent twice and no task was given up, the only letter     *)
(* under way is the present request or its answer, so that the next reply  *)
(* to arrive, which is all that handleIncomingReply matches by, is the     *)
(* answer to the present request.                                          *)
THEOREM OwnRequestAnswered == Spec => []AnswersOwnRequest
<1> DEFINE Inv == Post /\ Single
<1>1. Init => Inv
  <2> SUFFICES ASSUME Init PROVE Single
    BY PostInductive
  <2>1. Feed!Init /\ Lanes
    BY InitLanes
  <2>2. ASSUME NEW b \in Bot PROVE Load[b] = 0 /\ Letters[b] = {}
    <3>1. Unread[b] = <<>> /\ inbox[b] = <<>>
      BY <2>1 DEF Feed!Init
    <3>2. Total(<<>>, <<>>) = 0
      BY DEF Total
    <3>3. Load[b] = 0
      BY <3>1, <3>2 DEF Load
    <3> QED BY <2>1, <3>3, MailTyped
  <2>3. reply = NoReply
    BY DEF Init
  <2> QED BY <2>2, <2>3 DEF Single, Orderly, Lone, Idle
<1>2. Inv /\ [Next]_vars => Inv'
  BY PostInductive, SingleKept
<1>3. Inv => AnswersOwnRequest
  <2> SUFFICES ASSUME Inv, pc = "notify", ~repeated, ~abandoned PROVE reply.re \in asked
    BY DEF AnswersOwnRequest
  <2>1. reply # NoReply
    BY DEF Post, Replies
  <2> QED BY <2>1 DEF Single, Orderly
<1> HIDE DEF Inv
<1> QED BY <1>1, <1>2, <1>3, PTL DEF Spec
=============================================================================

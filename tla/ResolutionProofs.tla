-------------------------- MODULE ResolutionProofs --------------------------
(***************************************************************************)
(* Theorems about Resolution, for every registry capacity and every set of *)
(* bots, humans, groups, names and hashes.                                 *)
(***************************************************************************)
EXTENDS Resolution, TLAPS

Fields == {"kind", "raw", "chat", "from", "to", "resolution"}

Chats == ChatID \cup {NoChat}

(* What is known of an outbound message before it is classified: where its *)
(* chat comes from, and what the history says of the registry right now.   *)
Pending ==
  /\ DOMAIN message = Fields
  /\ message.kind = "outbound"
  /\ message.raw \in RawChatID /\ message.chat \in Chats
  /\ message.raw.id # NoChat => message.chat = message.raw.id
  /\ steady => HashFor(message.chat) # NoHash
  /\ absent => HashFor(message.chat) = NoHash

(* Between the two lookups the recipient is what the first one found.      *)
LookedUp ==
  /\ message.to # NoHash => message.chat \in BotID
  /\ steady => message.to # NoHash
  /\ absent => message.to = NoHash

(* The inductive invariant. The three properties speak of a finished parse *)
(* only; what its two lookups saw has to be carried up to there.           *)
IInv ==
  /\ pc \in {"idle", "resolve", "classify"}
  /\ steady \in BOOLEAN /\ absent \in BOOLEAN
  /\ pc # "idle" => Pending
  /\ pc = "classify" => LookedUp
  /\ ResolvedIffToBot /\ RecipientDiagnosed /\ AddresseeKept

(* Only a bot's id can have a hash.                                        *)
LEMMA OnlyBotsHaveHashes ==
  ASSUME NEW chat, HashFor(chat) # NoHash
  PROVE  chat \in BotID
BY DEF HashFor

LEMMA BeginKeepsIInv ==
  ASSUME IInv, BeginOutbound
  PROVE  IInv'
<1>1. PICK raw \in RawChatID, answered \in Chats, from \in Hash :
        /\ message' = [kind |-> "outbound", raw |-> raw,
                       chat |-> OutboundChat(raw, answered),
                       from |-> from, to |-> NoHash, resolution |-> ""]
        /\ steady' = (HashFor(OutboundChat(raw, answered)) # NoHash)
        /\ absent' = (HashFor(OutboundChat(raw, answered)) = NoHash)
        /\ pc' = "resolve"
        /\ UNCHANGED registry
  BY DEF BeginOutbound, Chats
<1>2. OutboundChat(raw, answered) \in Chats
  BY DEF OutboundChat, RawChatID, Chats
<1>3. raw.id # NoChat => OutboundChat(raw, answered) = raw.id
  BY DEF OutboundChat
<1>4. HashFor(message.chat)' = HashFor(OutboundChat(raw, answered))
  BY <1>1 DEF HashFor, Registry!HashForID, registry
<1>5. Pending'
  BY <1>1, <1>2, <1>3, <1>4 DEF Pending, Fields
<1>6. steady' \in BOOLEAN /\ absent' \in BOOLEAN
  BY <1>1
<1> QED
  BY <1>1, <1>5, <1>6 DEF IInv, ResolvedIffToBot, RecipientDiagnosed, AddresseeKept, Parsed

LEMMA ResolveKeepsIInv ==
  ASSUME IInv, Resolve
  PROVE  IInv'
<1>1. /\ message' = [message EXCEPT !.to = HashFor(message.chat)]
      /\ pc' = "classify" /\ UNCHANGED <<steady, absent, registry>>
      /\ Pending
  BY DEF Resolve, IInv
<1>2. \A c : HashFor(c)' = HashFor(c)
  BY <1>1 DEF HashFor, Registry!HashForID, registry
<1>3. /\ message'.chat = message.chat /\ message'.raw = message.raw
      /\ message'.kind = message.kind /\ DOMAIN message' = Fields
      /\ message'.to = HashFor(message.chat)
  BY <1>1 DEF Pending, Fields
<1>4. Pending'
  BY <1>1, <1>2, <1>3 DEF Pending
<1>5. LookedUp'
  BY <1>1, <1>3, OnlyBotsHaveHashes DEF LookedUp, Pending
<1> QED
  BY <1>1, <1>4, <1>5 DEF IInv, ResolvedIffToBot, RecipientDiagnosed, AddresseeKept, Parsed

(* What Classification makes of a message in the parser.                   *)
LEMMA Classified ==
  ASSUME Pending, LookedUp
  PROVE  /\ Classification(message) = "resolved" <=> message.to # NoHash
         /\ message.raw.name = NoName =>
              /\ absent /\ message.chat \in BotID =>
                   Classification(message) = "unknown_getme_not_seen"
              /\ message.chat \in Group => Classification(message) = "non_bot_chat"
<1>1. CASE message.to # NoHash
  <2>1. Classification(message) = "resolved"
    BY <1>1 DEF Classification
  <2> QED BY <1>1, <2>1, ResolutionAssumption DEF LookedUp
<1>2. CASE message.to = NoHash /\ message.raw.name # NoName
  <2>1. Classification(message) = "string_chat_id"
    BY <1>2 DEF Classification
  <2> QED BY <1>2, <2>1
<1>3. CASE message.to = NoHash /\ message.raw.name = NoName /\ Positive(message.chat)
  <2>1. Classification(message) =
          IF HashFor(message.chat) # NoHash THEN "non_bot_chat" ELSE "unknown_getme_not_seen"
    BY <1>3 DEF Classification
  <2> QED BY <1>3, <2>1, ResolutionAssumption DEF Pending, Positive
<1>4. CASE message.to = NoHash /\ message.raw.name = NoName /\ ~Positive(message.chat)
  <2>1. Classification(message) = "non_bot_chat"
    BY <1>4 DEF Classification
  <2> QED BY <1>4, <2>1 DEF Positive
<1> QED BY <1>1, <1>2, <1>3, <1>4

LEMMA ClassifyKeepsIInv ==
  ASSUME IInv, Classify
  PROVE  IInv'
<1>1. /\ message' = [message EXCEPT !.resolution = Classification(message),
                                    !.chat = ConversationChat(message)]
      /\ pc' = "idle" /\ UNCHANGED <<steady, absent, registry>>
      /\ Pending /\ LookedUp
  BY DEF Classify, IInv
<1>2. /\ message'.resolution = Classification(message)
      /\ message'.chat = ConversationChat(message)
      /\ message'.raw = message.raw /\ message'.to = message.to
  BY <1>1 DEF Pending, Fields
<1>3. ResolvedIffToBot'
  BY <1>1, <1>2, Classified DEF ResolvedIffToBot
<1>4. message.raw.name = NoName => message'.chat = message.chat
  BY <1>2 DEF ConversationChat
<1>5. RecipientDiagnosed'
  BY <1>1, <1>2, <1>4, Classified DEF RecipientDiagnosed, LookedUp
<1>6. AddresseeKept'
  <2>1. message'.to # NoHash => message'.chat \in BotID
    BY <1>1, <1>2, ResolutionAssumption DEF ConversationChat, LookedUp
  <2>2. ASSUME message'.raw # Missing PROVE message'.chat # NoChat
    <3>1. CASE message.chat # NoChat
      BY <3>1, <1>2 DEF ConversationChat
    <3>2. CASE message.chat = NoChat
      <4>1. message.raw.id = NoChat
        BY <3>2, <1>1 DEF Pending
      <4>2. message.raw.name # NoName /\ message.raw.name \in Name
        BY <4>1, <2>2, <1>1, <1>2 DEF Pending, RawChatID, Missing
      <4> QED BY <3>2, <4>2, <1>2, SyntheticAssumption DEF ConversationChat
    <3> QED BY <3>1, <3>2
  <2> QED BY <2>1, <2>2 DEF AddresseeKept
<1> QED BY <1>1, <1>3, <1>5, <1>6 DEF IInv

LEMMA InboundKeepsIInv ==
  ASSUME IInv, ParseInboundUpdate
  PROVE  IInv'
<1>1. PICK receiver \in Hash, sender \in BotID \cup Human, chat \in ChatID :
        message' = InboundMessage(receiver, sender, chat)
  BY DEF ParseInboundUpdate
<1>2. /\ message'.kind = "inbound"
      /\ message'.to # NoHash <=> message'.resolution = "resolved"
  BY <1>1, ResolutionAssumption DEF InboundMessage
<1> QED
  BY <1>2 DEF ParseInboundUpdate, IInv, ResolvedIffToBot, RecipientDiagnosed,
     AddresseeKept, Parsed

LEMMA GenericKeepsIInv ==
  ASSUME IInv, ParseGeneric
  PROVE  IInv'
<1>1. PICK raw \in RawChatID, from \in Hash :
        message' = [kind |-> "other", raw |-> raw, chat |-> raw.id,
                    from |-> from, to |-> NoHash, resolution |-> ""]
  BY DEF ParseGeneric
<1>2. message'.kind = "other" /\ message'.to = NoHash /\ message'.resolution = ""
  BY <1>1
<1> QED
  BY <1>2 DEF ParseGeneric, IInv, ResolvedIffToBot, RecipientDiagnosed,
     AddresseeKept, Parsed

(* A registration of any bot, while a parse is on or not.                  *)
LEMMA GetMeKeepsIInv ==
  ASSUME IInv, ParseGetMe
  PROVE  IInv'
<1> DEFINE held == message.chat \in BotID /\ idToHash'[message.chat] # NoHash
<1>1. /\ UNCHANGED <<pc, message>>
      /\ steady' = (pc # "idle" /\ steady /\ held)
      /\ absent' = (pc # "idle" /\ absent /\ ~held)
  BY DEF ParseGetMe
<1>2. held <=> HashFor(message.chat)' # NoHash
  BY <1>1, ResolutionAssumption DEF HashFor, Registry!HashForID
<1> HIDE DEF held
<1>3. steady' \in BOOLEAN /\ absent' \in BOOLEAN
  BY <1>1
<1>4. pc' # "idle" => Pending'
  BY <1>1, <1>2 DEF IInv, Pending
<1>5. pc' = "classify" => LookedUp'
  BY <1>1 DEF IInv, LookedUp
<1>6. ResolvedIffToBot' /\ AddresseeKept'
  BY <1>1 DEF IInv, ResolvedIffToBot, AddresseeKept, Parsed
<1>7. RecipientDiagnosed'
  <2> SUFFICES ASSUME Parsed("outbound")'
               PROVE  /\ ~steady' /\ ~absent'
                      /\ message.raw.name = NoName /\ message.chat \in Group =>
                           message.resolution = "non_bot_chat"
    BY <1>1 DEF RecipientDiagnosed
  <2>1. pc = "idle" /\ Parsed("outbound")
    BY <1>1 DEF Parsed
  <2> QED BY <1>1, <2>1 DEF IInv, RecipientDiagnosed
<1> QED BY <1>1, <1>3, <1>4, <1>5, <1>6, <1>7 DEF IInv

LEMMA IInvInductive ==
  ASSUME IInv, [Next]_vars
  PROVE  IInv'
<1>1. CASE UNCHANGED vars
  <2>1. UNCHANGED <<pc, message, steady, absent>> /\ \A c : HashFor(c)' = HashFor(c)
    BY <1>1 DEF vars, HashFor, Registry!HashForID
  <2> QED BY <2>1 DEF IInv, Pending, LookedUp, ResolvedIffToBot, RecipientDiagnosed,
            AddresseeKept, Parsed
<1> QED
  BY <1>1, BeginKeepsIInv, ResolveKeepsIInv, ClassifyKeepsIInv, InboundKeepsIInv,
     GenericKeepsIInv, GetMeKeepsIInv DEF Next

(* Recipient and diagnostic agree, the diagnostic is right whenever the    *)
(* recipient's standing did not change, and no addressee is lost, although *)
(* parseExchange holds no lock between its two lookups of the registry.    *)
THEOREM ParsedMessagesConsistent ==
  Spec => [](ResolvedIffToBot /\ RecipientDiagnosed /\ AddresseeKept)
<1>1. Init => IInv
  BY DEF Init, IInv, ResolvedIffToBot, RecipientDiagnosed, AddresseeKept, Parsed
<1>2. IInv => ResolvedIffToBot /\ RecipientDiagnosed /\ AddresseeKept
  BY DEF IInv
<1> QED BY <1>1, <1>2, IInvInductive, PTL DEF Spec
-----------------------------------------------------------------------------
(* Types. What the parser reads of the registry decides the types of its   *)
(* messages, so the two are typed together.                                *)

LEMMA RegistryStaysTyped ==
  ASSUME Registry!TypeOK, Registry!Next
  PROVE  Registry!TypeOK'
<1> USE ResolutionAssumption DEF Registry!TypeOK
<1>1. PICK a \in Answers : Registry!Register(a[1], a[2])
  BY DEF Registry!Next
<1> DEFINE id == a[1]
           h  == a[2]
<1>2. id \in BotID /\ h \in Hash
  BY <1>1 DEF Registry!Register
<1>3. /\ Registry!Rotate(id, h) \/ Registry!Learn(id, h) \/ Registry!LearnEvicting(id, h)
  BY <1>1 DEF Registry!Register
<1> HIDE DEF id, h
<1>4. CASE Registry!Rotate(id, h)
  BY <1>2, <1>4 DEF Registry!Rotate, Registry!Unlinked
<1>5. CASE Registry!Learn(id, h)
  BY <1>2, <1>5 DEF Registry!Learn
<1>6. CASE Registry!LearnEvicting(id, h)
  <2>1. /\ insertOrder # <<>> /\ Head(insertOrder) \in BotID
        /\ Tail(insertOrder) \in Seq(BotID)
    BY <1>6 DEF Registry!LearnEvicting
  <2>2. insertOrder' \in Seq(BotID)
    BY <1>2, <1>6, <2>1 DEF Registry!LearnEvicting
  <2> QED BY <1>2, <1>6, <2>1, <2>2 DEF Registry!LearnEvicting, Registry!Unlinked
<1> QED BY <1>3, <1>4, <1>5, <1>6

LEMMA HashesAreTyped ==
  ASSUME Registry!TypeOK, NEW chat
  PROVE  HashFor(chat) \in Hash \cup {NoHash}
BY DEF HashFor, Registry!HashForID, Registry!TypeOK

LEMMA TypesInductive ==
  ASSUME TypeOK, [Next]_vars
  PROVE  TypeOK'
<1>1. CASE UNCHANGED vars
  BY <1>1 DEF TypeOK, vars, Registry!TypeOK
<1>2. CASE BeginOutbound
  <2>1. PICK raw \in RawChatID, answered \in Chats, from \in Hash :
          /\ message' = [kind |-> "outbound", raw |-> raw,
                         chat |-> OutboundChat(raw, answered),
                         from |-> from, to |-> NoHash, resolution |-> ""]
          /\ steady' = (HashFor(OutboundChat(raw, answered)) # NoHash)
          /\ absent' = (HashFor(OutboundChat(raw, answered)) = NoHash)
          /\ pc' = "resolve"
          /\ UNCHANGED registry
    BY <1>2 DEF BeginOutbound, Chats
  <2>2. OutboundChat(raw, answered) \in Chats
    BY DEF OutboundChat, RawChatID, Chats
  <2>3. message' \in Messages
    BY <2>1, <2>2 DEF Messages, Chats
  <2>4. steady' \in BOOLEAN /\ absent' \in BOOLEAN
    BY <2>1
  <2> QED BY <2>1, <2>3, <2>4 DEF TypeOK, registry, Registry!TypeOK
<1>3. CASE Resolve
  <2>1. HashFor(message.chat) \in Hash \cup {NoHash}
    BY HashesAreTyped DEF TypeOK
  <2>2. message \in Messages /\ message' = [message EXCEPT !.to = HashFor(message.chat)]
    BY <1>3 DEF Resolve, TypeOK
  <2>3. message' \in Messages
    BY <2>1, <2>2 DEF Messages
  <2> QED BY <1>3, <2>3 DEF Resolve, TypeOK, registry, Registry!TypeOK
<1>4. CASE Classify
  <2>1. /\ message \in Messages
        /\ message' = [message EXCEPT !.resolution = Classification(message),
                                      !.chat = ConversationChat(message)]
    BY <1>4 DEF Classify, TypeOK
  <2>2. Classification(message) \in Resolutions
    <3>1. CASE message.to # NoHash
      BY <3>1 DEF Classification, Resolutions
    <3>2. CASE message.to = NoHash /\ message.raw.name # NoName
      BY <3>2 DEF Classification, Resolutions
    <3>3. CASE message.to = NoHash /\ message.raw.name = NoName /\ Positive(message.chat)
      BY <3>3 DEF Classification, Resolutions
    <3>4. CASE message.to = NoHash /\ message.raw.name = NoName /\ ~Positive(message.chat)
      BY <3>4 DEF Classification, Resolutions
    <3> QED BY <3>1, <3>2, <3>3, <3>4
  <2>3. ConversationChat(message) \in
          ChatID \cup {NoChat} \cup {Synthetic(n) : n \in Name}
    BY <2>1 DEF ConversationChat, Messages, RawChatID
  <2>4. message' \in Messages
    BY <2>1, <2>2, <2>3 DEF Messages
  <2> QED BY <1>4, <2>4 DEF Classify, TypeOK, registry, Registry!TypeOK
<1>5. CASE ParseInboundUpdate
  <2>1. PICK receiver \in Hash, sender \in BotID \cup Human, chat \in ChatID :
          message' = InboundMessage(receiver, sender, chat)
    BY <1>5 DEF ParseInboundUpdate
  <2>2. HashFor(sender) \in Hash \cup {NoHash}
    BY HashesAreTyped DEF TypeOK
  <2>3. message' \in Messages
    BY <2>1, <2>2 DEF InboundMessage, Messages, RawChatID, Resolutions
  <2> QED BY <1>5, <2>3 DEF ParseInboundUpdate, TypeOK, registry, Registry!TypeOK
<1>6. CASE ParseGeneric
  <2>1. PICK raw \in RawChatID, from \in Hash :
          message' = [kind |-> "other", raw |-> raw, chat |-> raw.id,
                      from |-> from, to |-> NoHash, resolution |-> ""]
    BY <1>6 DEF ParseGeneric
  <2>2. message' \in Messages
    BY <2>1 DEF Messages, RawChatID
  <2> QED BY <1>6, <2>2 DEF ParseGeneric, TypeOK, registry, Registry!TypeOK
<1>7. CASE ParseGetMe
  <2>1. Registry!TypeOK'
    BY <1>7, RegistryStaysTyped DEF ParseGetMe, TypeOK
  <2>2. steady' \in BOOLEAN /\ absent' \in BOOLEAN
    BY <1>7 DEF ParseGetMe
  <2> QED BY <1>7, <2>1, <2>2 DEF ParseGetMe, TypeOK
<1> QED BY <1>1, <1>2, <1>3, <1>4, <1>5, <1>6, <1>7 DEF Next

(* Every message the parser hands on is well formed, whatever the registry *)
(* answers and however it changes between the two lookups.                 *)
THEOREM MessagesTyped == Spec => []TypeOK
<1>1. Init => TypeOK
  <2> SUFFICES ASSUME Init PROVE TypeOK
    OBVIOUS
  <2>1. Registry!TypeOK
    BY DEF Init, Registry!NewBotRegistry, Registry!TypeOK
  <2> QED BY <2>1 DEF Init, TypeOK
<1> QED BY <1>1, TypesInductive, PTL DEF Spec
=============================================================================

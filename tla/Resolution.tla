----------------------------- MODULE Resolution -----------------------------
(***************************************************************************)
(* From an exchange to a parsed message (src/internal/capture/parse.go):   *)
(* which chat a message belongs to, which bots are at its two ends, and    *)
(* the diagnostic that says why the recipient is or is not known.          *)
(*                                                                         *)
(* The parser runs without a lock and consults the BotRegistry once or     *)
(* twice per message, taking the registry's lock anew each time. This      *)
(* module follows one goroutine in the parser; the getMe answers that all  *)
(* the others parse come between its steps.                                *)
(*                                                                         *)
(* Chat ids are reduced to their kind: bots and humans have positive ids,  *)
(* groups and channels negative ones. Decoding a body is reduced to its    *)
(* outcome, NoChat when it yields no chat id.                              *)
(***************************************************************************)
EXTENDS Integers, Sequences, FiniteSets

CONSTANTS
  BotID, Human,      (* positive chat ids                                  *)
  Group,             (* negative chat ids                                  *)
  Name,              (* chat ids given as @username strings                *)
  NoChat, NoName,    (* no id; a chat_id that is numeric or missing        *)
  Hash, NoBot, NoHash, MaxEntries, Answers,
  NoMessage          (* nothing has been parsed yet                        *)

ASSUME ResolutionAssumption ==
  /\ NoName \notin Name /\ NoHash \notin Hash /\ NoBot \notin BotID
  /\ MaxEntries \in Nat \ {0}
  /\ Answers \subseteq (BotID \cup {NoBot}) \X (Hash \cup {NoHash})
  /\ NoChat \notin BotID \cup Human \cup Group
  /\ BotID \cap Human = {} /\ (BotID \cup Human) \cap Group = {}

VARIABLES
  pc,                (* where the goroutine is in the parser               *)
  message,           (* the message it is parsing, or parsed last          *)
  steady,            (* history: the recipient has been in the registry    *)
                     (* ever since the parse began                         *)
  absent             (* history: it has been missing ever since            *)

VARIABLES idToHash, hashToID, insertOrder
Registry == INSTANCE BotRegistry

registry == <<idToHash, hashToID, insertOrder>>
vars == <<pc, message, steady, absent, idToHash, hashToID, insertOrder>>

ChatID == BotID \cup Human \cup Group

(* chat_id as a request carries it: a number (or a numeric string), a      *)
(* name, or a string that merely begins with a number: chatIDInt scans the *)
(* number, isStringChatID sees a name. Missing when both are empty.        *)
RawChatID == [id : ChatID \cup {NoChat}, name : Name \cup {NoName}]
Missing   == [id |-> NoChat, name |-> NoName]

Resolutions ==
  {"resolved", "unknown_getme_not_seen", "non_bot_chat", "string_chat_id"}

(* syntheticChatID: the negative id made from a name, unlike any other.    *)
Synthetic(name) == <<"synthetic", name>>

ASSUME SyntheticAssumption ==
  \A name \in Name : Synthetic(name) \notin ChatID \cup {NoChat}

Messages ==
  [ kind       : {"outbound", "inbound", "other"},
    raw        : RawChatID,
    chat       : ChatID \cup {NoChat} \cup {Synthetic(n) : n \in Name},
    from       : Hash,
    to         : Hash \cup {NoHash},
    resolution : Resolutions \cup {""} ]

Init ==
  /\ pc = "idle"
  /\ message = NoMessage
  /\ steady = FALSE
  /\ absent = FALSE
  /\ Registry!NewBotRegistry

-----------------------------------------------------------------------------

(* Mutant of HashFor: an unknown id yields the zero id.                    *)
HashForOrNoBot(chat) ==
  IF chat \in BotID /\ Registry!HashForID(chat) # NoHash
  THEN Registry!HashForID(chat) ELSE NoBot

(* The hash the registry holds for a chat id at this moment.               *)
HashFor(chat) == IF chat \in BotID THEN Registry!HashForID(chat) ELSE NoHash

(* What classifyOutboundResolution takes for a possible bot.               *)
Positive(chat) == chat \in BotID \cup Human

(* The chat of an outbound message: the request's chat_id if numeric, else *)
(* the id of the chat in the answer.                                       *)
OutboundChat(raw, answered) == IF raw.id # NoChat THEN raw.id ELSE answered

(* parseSendMessage and parseForwardOrCopy up to the registry: the request *)
(* and the answer, either of which may be undecodable, are decoded.        *)
BeginOutbound ==
  \E raw \in RawChatID, answered \in ChatID \cup {NoChat}, from \in Hash :
    LET chat == OutboundChat(raw, answered)
    IN /\ pc = "idle"
       /\ message' = [kind |-> "outbound", raw |-> raw, chat |-> chat,
                      from |-> from, to |-> NoHash, resolution |-> ""]
       /\ steady' = (HashFor(chat) # NoHash)
       /\ absent' = (HashFor(chat) = NoHash)
       /\ pc' = "resolve"
       /\ UNCHANGED registry

(* resolveOutboundToBot: the first lookup.                                 *)
Resolve ==
  /\ pc = "resolve"
  /\ message' = [message EXCEPT !.to = HashFor(message.chat)]
  /\ pc' = "classify"
  /\ UNCHANGED <<steady, absent, registry>>

(* Mutant of Classification: a name is decisive even for a known bot.      *)
ClassificationNameFirst(m) ==
  CASE m.raw.name # NoName -> "string_chat_id"
    [] m.raw.name = NoName /\ m.to # NoHash -> "resolved"
    [] OTHER -> IF Positive(m.chat) THEN "unknown_getme_not_seen" ELSE "non_bot_chat"

(* Mutant of Classification: the second lookup is read the wrong way round. *)
ClassificationInverted(m) ==
  CASE m.to # NoHash -> "resolved"
    [] m.to = NoHash /\ m.raw.name # NoName -> "string_chat_id"
    [] m.to = NoHash /\ m.raw.name = NoName /\ Positive(m.chat) ->
         IF HashFor(m.chat) = NoHash THEN "non_bot_chat" ELSE "unknown_getme_not_seen"
    [] OTHER -> "non_bot_chat"

(* classifyOutboundResolution, with a lookup of its own.                   *)
Classification(m) ==
  CASE m.to # NoHash -> "resolved"
    [] m.to = NoHash /\ m.raw.name # NoName -> "string_chat_id"
    [] m.to = NoHash /\ m.raw.name = NoName /\ Positive(m.chat) ->
         IF HashFor(m.chat) # NoHash THEN "non_bot_chat" ELSE "unknown_getme_not_seen"
    [] OTHER -> "non_bot_chat"

(* Mutant of ConversationChat: no synthetic id.                            *)
ConversationChatNumeric(m) == m.chat

(* The chat id the correlator gets: a name stands in for a missing id.     *)
ConversationChat(m) ==
  IF m.chat = NoChat /\ m.raw.name # NoName THEN Synthetic(m.raw.name) ELSE m.chat

(* The rest of resolveOutboundToBot.                                       *)
Classify ==
  /\ pc = "classify"
  /\ message' = [message EXCEPT !.resolution = Classification(message),
                                !.chat = ConversationChat(message)]
  /\ pc' = "idle"
  /\ UNCHANGED <<steady, absent, registry>>

(* A message in chat from sender that the bot with hash receiver polled or *)
(* was sent by webhook: a registered bot other than the receiver becomes   *)
(* the origin of the edge.                                                 *)
InboundMessage(receiver, sender, chat) ==
  LET known == HashFor(sender) \notin {NoHash, receiver}
  IN [ kind       |-> "inbound",
       raw        |-> [id |-> chat, name |-> NoName],
       chat       |-> chat,
       from       |-> IF known THEN HashFor(sender) ELSE receiver,
       to         |-> IF known THEN receiver ELSE NoHash,
       resolution |-> IF known THEN "resolved" ELSE "non_bot_chat" ]

(* parseInboundUpdate: its only lookup makes it one step.                  *)
ParseInboundUpdate ==
  \E receiver \in Hash, sender \in BotID \cup Human, chat \in ChatID :
    /\ pc = "idle"
    /\ message' = InboundMessage(receiver, sender, chat)
    /\ UNCHANGED <<pc, steady, absent, registry>>

(* parseGeneric: any other method, of which only the request is read.      *)
ParseGeneric ==
  \E raw \in RawChatID, from \in Hash :
    /\ pc = "idle"
    /\ message' = [kind |-> "other", raw |-> raw, chat |-> raw.id,
                   from |-> from, to |-> NoHash, resolution |-> ""]
    /\ UNCHANGED <<pc, steady, absent, registry>>

(* parseGetMe in another goroutine registers a bot.                        *)
ParseGetMe ==
  LET held == message.chat \in BotID /\ idToHash'[message.chat] # NoHash
  IN /\ Registry!Next
     /\ steady' = (pc # "idle" /\ steady /\ held)
     /\ absent' = (pc # "idle" /\ absent /\ ~held)
     /\ UNCHANGED <<pc, message>>

Next ==
  \/ BeginOutbound \/ Resolve \/ Classify
  \/ ParseInboundUpdate \/ ParseGeneric
  \/ ParseGetMe

Spec == Init /\ [][Next]_vars

-----------------------------------------------------------------------------

TypeOK ==
  /\ pc \in {"idle", "resolve", "classify"}
  /\ message \in Messages \cup {NoMessage}
  /\ pc # "idle" => message \in Messages
  /\ steady \in BOOLEAN /\ absent \in BOOLEAN
  /\ Registry!TypeOK

Parsed(kind) == pc = "idle" /\ message # NoMessage /\ message.kind = kind

(* README and doc comment of Resolution: telegram.bot.to is non-empty if   *)
(* and only if the diagnostic is "resolved", although the two come from    *)
(* different lookups of a registry that changes in between.                *)
ResolvedIffToBot ==
  pc = "idle" /\ message # NoMessage =>
    (message.to # NoHash <=> message.resolution = "resolved")

(* Although two lookups of a changing registry decide, the diagnostic is   *)
(* right about every recipient whose standing did not change meanwhile: a  *)
(* bot registered throughout is resolved, a bot given by number whose      *)
(* getMe was not seen by the end of the parse is reported as such, and a   *)
(* group is no bot. So a bot given by number is called non_bot_chat only   *)
(* when its getMe was parsed between the two lookups. Nothing is claimed   *)
(* of humans: the code cannot tell them from bots, and gives them the      *)
(* diagnostic of an unregistered bot where the docs promise non_bot_chat.  *)
RecipientDiagnosed ==
  Parsed("outbound") =>
    /\ steady => message.resolution = "resolved"
    /\ message.raw.name = NoName =>
         /\ absent /\ message.chat \in BotID =>
              message.resolution = "unknown_getme_not_seen"
         /\ message.chat \in Group => message.resolution = "non_bot_chat"

(* An outbound message that names its recipient, by number or by string,   *)
(* always reaches the correlator with a chat id, and only a bot's own id   *)
(* ever gets a recipient: no hop is dropped for want of a number, and no   *)
(* made-up id resolves.                                                    *)
AddresseeKept ==
  Parsed("outbound") =>
    /\ message.raw # Missing => message.chat # NoChat
    /\ message.to # NoHash => message.chat \in BotID
=============================================================================

SPECIFICATION Spec
CONSTANTS
  NoBot = NoBot
  NoHash = NoHash
  NoChat = NoChat
  NoName = NoName
  NoMessage = NoMessage
  BotID = {b1, b2}
  Human = {u1}
  Group = {g1}
  Name = {n1}
  Hash = {h1, h2}
  MaxEntries = 1
  Answers <- AllAnswers
INVARIANTS
  TypeOK
  ResolvedIffToBot
  RecipientDiagnosed
  AddresseeKept

SPECIFICATION Spec
CONSTANTS
  NoBot = NoBot
  NoHash = NoHash
  BotID = {b1, b2, b3, b4}
  Shared = {s1, s2}
  Hash <- MCHash
  MaxEntries = 3
  Answers <- MCAnswers
INVARIANTS
  TypeOK
  OrderMatchesMap
  ReverseSound
  Bidirectional
PROPERTY ImplementsDirectory

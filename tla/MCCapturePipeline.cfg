SPECIFICATION Spec
CONSTANTS
  A = A
  B = B
  hello = hello
  NoText = NoText
  NoMedia = NoMedia
  NoCall = NoCall
  Worker = {w1, w2}
  Key = {k1, k2, k3}
  Message <- Hellos
  LoopWindowSize = 2
  LoopEntryTTL = 1
  MaxConversations = 2
  ConvTTL = 1
  MaxBatch = 2
  MaxMessages = 3
  MaxClock = 2
INVARIANTS
  TypeOK
  StoreConsistent
  EveryEventDelivered
  MetricsSettle
  TracesFollowConversations
  IndexMirrorsStore
PROPERTY EventuallyDelivered

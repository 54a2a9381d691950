SPECIFICATION Spec
CONSTANTS
  Key = {k1, k2, k3, k4}
  Time <- Times
  MaxTime = 5
  MaxConversations = 3
  ConvTTL = 2
  MaxSkew = 2
INVARIANTS
  TypeOK
  RecencyOrder
  NoneOverdue
PROPERTIES
  EvictionsReported
  ImplementsCache

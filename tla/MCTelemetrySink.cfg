SPECIFICATION MCSpec
CONSTANTS
  Thread = {t1, t2, t3}
  Conv = {c1, c2}
  NoCall = NoCall
  MaxEvents = 4
  MaxEvictions = 1
SYMMETRY Symmetry
INVARIANTS
  TypeOK
  OneTracePerEpoch
  LoopsWithinMessages

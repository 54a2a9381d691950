SPECIFICATION Spec
CONSTANTS
  A = A
  B = B
  hello = hello
  photo = photo
  NoText = NoText
  NoMedia = NoMedia
  Message <- Messages
  LoopWindowSize = 3
  LoopEntryTTL = 2
  MaxSkew = 2
  MaxTime = 4
  MaxLog = 5
INVARIANTS
  TypeOK
  DepthSound
  DepthExact

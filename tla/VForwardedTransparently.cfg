SPECIFICATION Spec
CONSTANTS
  Call = {c1, c2}
  NoCall = NoCall
  NoCopy = NoCopy
  BodyCap = 1
  Body <- SampleBodies
INVARIANT ForwardedTransparently

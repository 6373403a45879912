SPECIFICATION Spec
CONSTANT
  Retries = 2
INVARIANTS
  NoTearing
PROPERTIES
  FrameLostOnlyByOverride
  DisplayIsKept
  LockReturns
  PostedIsShown

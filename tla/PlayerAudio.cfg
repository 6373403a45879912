SPECIFICATION Spec
CONSTANTS
  Pool = {b1, b2}
  None = None
  QueueSize = 1
  File <- AudioFile
  Controlled <- AudioChain
INVARIANTS
  TypeOK
  ThreadMatchesState
  StopIsForThisThread
  BuffersAreKept
  ReadsOpenFile
PROPERTY
  CallReturns

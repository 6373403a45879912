SPECIFICATION DriverSpec
CONSTANTS
  Pool = {b1, b2}
  None = None
  QueueSize = 2
  File <- MixedFile
  Controlled <- AllElements
INVARIANTS
  CleanShutdown
  EngineOpenWhileDecoding
PROPERTIES
  InOrderDelivery
  FileIsPlayed
  MainReturns
CHECK_DEADLOCK FALSE

SPECIFICATION DevicesSpec
CONSTANTS
  Sessions = {"s1", "s2"}
  Blocks = {1, 2, 3, 4, 5, 6}
  MinCount = 1
  NoBlock = 0
  NoHandle = "none"
  Connectors <- MCConnectors
  Crtcs = {1, 2}
  BoundTo <- MCBoundTo
  Possible <- MCPossible
  NoCrtc = 0
  NoBuf <- MCNoBuf
  Saved <- MCSaved
  Period = 3
  MaxNow = 14
  Asked <- MCAsked
  Defaults <- MCDefaults
  Grant <- MCGrant
  MaxBuffers = 2
  DefaultBuffers = 2
  Pids = {11, 12, 13}
  MaxCreates = 3
  Threads = {"t1", "t2", "t3"}
  NoThread = "none"
  Slots = {0, 1}
  NoSlot = 99
  DisplayOf <- MCDisplayOf
  Displays = {"a", "b", "c"}
  Connections = {1, 2, 3}
  Paths <- MCPaths
  Length = 2
  Buffer = 2
INVARIANTS
  VpuIsKept
  ModesetIsSafe
  VSyncIsRegular
  CaptureIsSound
  ChildIsKept
  SlotsAreExclusive
  FilesAreWhole
PROPERTIES
  ModesetEnds
CHECK_DEADLOCK FALSE

CONSTANTS
  MEM = 1800
  Heads = {1792, 1740, 1756, 1757, 31, 32}
  Scenarios <- MCScenarios
  Tester = 21
  BLOCKS = 10
  STEP = 256
  Owners = {0, 21}
  Sizes = {1, 9}
  WORD = 65536
  JUNK = JUNK
SPECIFICATION TestSpec
INVARIANTS Tiled Coalesced RoomForAll PassedAreTooSmall LiveIsFound TestsPass
PROPERTIES OwnersFree CallsReturn
CHECK_DEADLOCK FALSE

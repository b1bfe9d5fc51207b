SPECIFICATION Spec
CONSTANTS
  Absent = Absent
  Layers = {a}
  Sizes = {10, 20}
  Tolerance = 1
  MaxConfigures = 1
  MaxRequests = 1
  NoFrame = NoFrame
  Presenters = {"wl_shm", "x11_shm", "wl_gpu", "x11_gpu"}
  Tiles = {1, 2}
  FrameSizes = {10, 20}
  MaxPaints = 4
  MaxGates = 1
  Resizers = {coord}
  WindowSizes = {0, 1}
  Rates = {60, 120}
  TickLimit = 1
  PumpCount = 2
  MaxWeb = 4
  Addresses = {jellyfin, other}
  NoUrl = NoUrl
  MaxProbes = 2
  MaxEscapes = 2
INVARIANTS
  TypesOK
  TransitionKept
  NoBlankTiles
  OneLoop
  LastSizeDelivered
  RateGivenBack
  DrainedAtExit
  NewestWebOnDisk
  ConnectedServerShown
PROPERTIES
  ScreenNeverGoesBack
  WaitsEnd
CHECK_DEADLOCK FALSE

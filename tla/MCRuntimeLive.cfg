SPECIFICATION LiveSpec
CONSTANTS
  Machines = {"session", "coordinator", "process", "boot", "mac_loop"}
  Items = {movie}
  NoItem = NoItem
  Positions = {0}
  Settings = {}
  Values = {0}
  MaxLoads = 2
  MaxStops = 1
  RapidLoads = FALSE
  mpv = mpv
  page = page
  Producers = {mpv, page}
  Posted <- FewInputs
  MaxQueue = 2
  MaxResets = 1
  MaxAbouts = 1
  MaxUrls = 1
  MaxMessages = 0
  EarlySignal = FALSE
  Hosts = {"wayland", "default", "macos"}
  MaxWindow = 3
  LogicalSizes = {1, 2}
  Scales = {1, 2}
  Posters = {p1, p2}
  MaxTasks = 2
  Displays = {d1, d2}
  NoDisplay = NoDisplay
  MaxLit = 4
INVARIANTS
  OwnTracks
  OpenFilePlays
  HandlesRegistered
  AllClosedUnlessReset
  BootTypeOK
  HandleOutlivesUse
  BrowsersHaveSize
PROPERTIES
  NoStoppedFlicker
  WaitsEnd
CHECK_DEADLOCK FALSE

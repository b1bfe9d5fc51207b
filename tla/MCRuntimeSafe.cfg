SPECIFICATION SafeSpec
CONSTANTS
  Machines = {"coordinator", "process", "mac_loop", "mac_link"}
  Items = {movie}
  NoItem = NoItem
  Positions = {0}
  Settings = {}
  Values = {0}
  MaxLoads = 0
  MaxStops = 0
  RapidLoads = FALSE
  mpv = mpv
  page = page
  Producers = {mpv, page}
  Posted <- PhaseInputs
  MaxQueue = 2
  MaxResets = 1
  MaxAbouts = 0
  MaxUrls = 0
  MaxMessages = 2
  EarlySignal = FALSE
  Hosts = {"wayland"}
  MaxWindow = 0
  LogicalSizes = {1, 2}
  Scales = {1, 2}
  Posters = {p1, p2}
  MaxTasks = 2
  Displays = {d1, d2}
  NoDisplay = NoDisplay
  MaxLit = 4
INVARIANTS
  TypesOK
  NoLostWakeup
  SnapshotCurrent
  SinksAgree
  ShownWhenRunning
  FramesGoOn
  NothingStranded

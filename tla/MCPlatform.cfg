SPECIFICATION Spec
CONSTANTS
  WinLayers = {web, about}
  Normal = {1}
  MaxWishes = 1
  Nobody = Nobody
  MenuButtons = {left, right}
  MaxPresses = 2
  MaxMenus = 2
  MaxSelects = 1
  NoMenu = NoMenu
  Transports = {"mpris", "smtc", "now_playing"}
  MediaItems = {i1}
  Untitled = Untitled
  QueueCap = 2
  MaxWaiting = 2
  Overlays = {a}
  Windowed = {1, 2}
  MaxChanges = 2
  VO = VO
  Helpers = {ozone}
  Foreign = {gpu}
  ShellSizes = {1, 2}
  InitialSize = 1
  ShellScales = {180}
  Colours = {c1}
  MaxShellEvents = 2
  MaxCommands = 2
  Nothing = Nothing
  FileLimit = 1
  MaxBackups = 3
  ChannelCap = 1
  PipeCap = 2
  MaxLines = 4
  MaxFaults = 1
  MaxKills = 1
  NoFile = NoFile
INVARIANTS
  TypesOK
  BottomIsMain
  MenuPromises
  TransportMirrors
  OverlaysKeepUp
  ShellKept
  LogKept
PROPERTIES
  MainStaysHidden
CHECK_DEADLOCK FALSE

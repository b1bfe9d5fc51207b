SPECIFICATION SessionSpec
CONSTANTS
  Items = {movie}
  NoItem = NoItem
  Positions = {0}
  Settings = {}
  Values = {0}
  MaxLoads = 2
  MaxStops = 0
  RapidLoads = TRUE
CHECK_DEADLOCK FALSE
INVARIANTS
  OwnTracks

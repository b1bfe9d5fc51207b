SPECIFICATION SessionSpec
CONSTANTS
  Items = {movie}
  NoItem = NoItem
  Positions = {0}
  Settings = {}
  Values = {0}
  MaxLoads = 2
  MaxStops = 1
  RapidLoads = FALSE
CHECK_DEADLOCK FALSE
PROPERTIES
  SwallowsOnlySuperseded

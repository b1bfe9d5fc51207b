SPECIFICATION MenusSpec
CONSTANTS
  MenuButtons = {left}
  MaxPresses = 2
  MaxMenus = 1
  MaxSelects = 0
  NoMenu = NoMenu
INVARIANT SlotNotStranded
CHECK_DEADLOCK FALSE

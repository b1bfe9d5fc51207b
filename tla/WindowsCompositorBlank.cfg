SPECIFICATION WinSpec
CONSTANTS
  WinLayers = {web}
  Normal = {1}
  MaxWishes = 1
  Nobody = Nobody
INVARIANT SettledIsOpen

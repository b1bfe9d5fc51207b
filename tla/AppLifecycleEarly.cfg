SPECIFICATION AppSpec
CONSTANTS
  MaxResets = 0
  MaxAbouts = 0
  MaxUrls = 0
  MaxMessages = 0
  EarlySignal = TRUE
PROPERTIES
  ExitReached
CHECK_DEADLOCK FALSE

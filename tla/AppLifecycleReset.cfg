SPECIFICATION AppSpec
CONSTANTS
  MaxResets = 1
  MaxAbouts = 0
  MaxUrls = 0
  MaxMessages = 0
  EarlySignal = FALSE
INVARIANTS
  NoBrowserAtCefShutdown

SPECIFICATION SMSpec
CONSTANTS
  Items = {movie, song}
  NoItem = NoItem
  Positions = {0, 1}
  Settings = {rate}
  Values = {0, 1}
SYMMETRY ItemSymmetry
INVARIANTS
  SMTypeOK
  NoLeftovers
PROPERTIES
  PromotionGate
  ChangesAnnounced
  ImplementsSource

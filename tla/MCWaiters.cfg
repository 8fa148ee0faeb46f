\* The waiters of a channel in an arena with four addresses.
SPECIFICATION WSpec
CONSTANTS
  Blocks = {b1, b2, b3, b4}
  NULL = NULL
SYMMETRY Symmetry
INVARIANTS
  ChainIntact
PROPERTIES
  WaitersQueue

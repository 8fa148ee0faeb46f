\* The channel: three cords, two values.
SPECIFICATION ChFairSpec
CONSTANTS
  MaxCords = 3
  Vals = {0, 1}
  NULL = NULL
  Data = {d1, d2}
  NONE = NONE
INVARIANTS
  OneKindWaits
  WaitersReachable
  EltsOwned
PROPERTIES
  KeepsPromise
  ReceiversComeBack

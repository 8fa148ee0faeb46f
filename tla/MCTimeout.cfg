\* One call of cktimeout: the visor, the caller and its two cords.
SPECIFICATION TCFairSpec
CONSTANTS
  MaxCords = 4
  Vals = {0, 1}
  NULL = NULL
  Data = {d1}
  NONE = NONE
  FirstCap = 4
  MaxWaits = 1
  Interruptible = {}
  Archs = {"amd64", "aarch64"}
INVARIANTS
  ZeroOnlyIfCut
  CutBeforeFree
  ContextsKept
PROPERTIES
  TimeoutReturns
  HelpersDie

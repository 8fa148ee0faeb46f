\* The README against the code: ClosedOnce.
SPECIFICATION TSpec
CONSTANTS
  MaxCords = 4
  Vals = {0, 1}
  NULL = NULL
  Data = {d1}
  NONE = NONE
  FirstCap = 4
  MaxWaits = 1
  Interruptible = {}
INVARIANT
  ClosedOnce

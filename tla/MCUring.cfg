\* The visor and up to three cords; the submission queue holds two entries
\* instead of 8196, so that get_sqe finds it full.  Cord 1 can be woken by
\* others and have two operations outstanding.
SPECIFICATION UFairSpec
CONSTANTS
  MaxCords = 4
  Vals = {0, 1}
  NULL = NULL
  SqSize = 2
  MaxOps = 2
  Interruptible = {1}
INVARIANTS
  VisorWatches
  OpsOwned
PROPERTIES
  OwnResult
  CompletedIsServed

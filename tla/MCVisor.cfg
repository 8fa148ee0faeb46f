\* The visor and up to three cords; the list starts at one entry instead of
\* four, so that it grows twice.  Cord 1 can be woken by others and have two
\* entries in the list.
SPECIFICATION VFairSpec
CONSTANTS
  MaxCords = 4
  Vals = {0}
  NULL = NULL
  FirstCap = 1
  MaxWaits = 2
  Interruptible = {1}
INVARIANTS
  NoLostWakeup
  WaitersListed
  ArraysInVisor
PROPERTIES
  WokenWhenReady
  

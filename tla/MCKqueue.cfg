\* The visor and up to three cords that share a descriptor; the list starts
\* at one entry instead of four, so that it grows twice.
SPECIFICATION KFairSpec
CONSTANTS
  MaxCords = 4
  Vals = {0}
  NULL = NULL
  Fds = {f}
  FirstCap = 1
INVARIANTS
  KnotesListed
  ReadFindsInput

  
  

\* The pool with room for four chunks.
SPECIFICATION PoolSpec
CONSTANTS
  Cap = 4
  NIL = NIL
  UseMprotect = FALSE
INVARIANTS
  ChunksAccounted
  LinksIntact
PROPERTIES
  IsAllocator

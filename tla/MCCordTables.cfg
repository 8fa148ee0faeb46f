\* Three cords with every hash function into 0..3.  A table starts with one
\* bucket, and every chain that is not shorter than its bucket allows doubles
\* the buckets, up to 16: enough to give up doubling (noexpand).
SPECIFICATION Spec
CONSTANTS
  Cords = {c1, c2, c3}
  Hashes = {0, 1, 2, 3}
  InitialNum = 1
  Thresh = 1
  MaxNum = 16
  NULL = NULL
SYMMETRY Symmetry
INVARIANTS
  TablesAgree
PROPERTIES
  ImplementsQueues

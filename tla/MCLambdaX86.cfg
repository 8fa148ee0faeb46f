\* lambda.h against its code for x86_64: ArgumentsMoved.
SPECIFICATION Spec
CONSTANTS
  Arch = "x86_64"
  NArgs = 4
INVARIANTS
  ArgumentsMoved

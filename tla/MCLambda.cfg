\* Every way to bind up to five arguments on aarch64.
SPECIFICATION Spec
CONSTANTS
  Arch = "aarch64"
  NArgs = 5
INVARIANTS
  PendingIntact
  CallsAsAsked
  

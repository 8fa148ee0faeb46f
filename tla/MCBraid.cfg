\* The scheduler with up to four cords and two wake-up values: safety,
\* liveness for cooperative cords, and refinement of CordLifecycle.
SPECIFICATION FairSpec
CONSTANTS
  MaxCords = 4
  Vals = {0, 1}
  NULL = NULL
INVARIANTS
  Accounted
PROPERTIES
  QueueAdvances
  DeathIsFinal
  FirstWakeWins
  RunsEventually
  ReapedEventually
  ImplementsLifecycle

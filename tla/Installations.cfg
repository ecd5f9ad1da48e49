CONSTANTS
  Release = {v1, v2}
  MaxCommands = 3
  MaxFailures = 1
  MaxKills = 1
SPECIFICATION Spec
INVARIANTS
  RollbackRestores
  InstalledIsWhole
  RetryAccepted
  UninstallRemovesExactly
  SomeWayForward
SYMMETRY Symmetry
\* The commands are bounded.
CHECK_DEADLOCK FALSE

CONSTANTS
  Release = {v1, v2}
  MaxCommands = 2
  MaxFailures = 1
  MaxKills = 0
SPECIFICATION Spec
INVARIANTS
  FailedInstallChangesNothing
\* The commands are bounded.
CHECK_DEADLOCK FALSE

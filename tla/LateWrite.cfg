CONSTANTS
  Base = {1}
  c1 = c1
  c2 = c2
  Config = {c1}
  NeedsApproval <- NoApprovals
  WriteSandbox <- FirstWrites
  Plans <- TaskPlans
  MaxReaders = 2
  Proc = {p1}
  Run = {r1}
  None = None
  LateWrites = TRUE
  MaxCommands = 1
  MaxInterrupts = 1
SPECIFICATION Spec
PROPERTIES
  LeaseHeldThroughWrites
\* Operators may issue no further command, so the system may stop.
CHECK_DEADLOCK FALSE

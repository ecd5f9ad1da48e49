CONSTANTS
  Base = {1, 2}
  c1 = c1
  c2 = c2
  Config = {c1}
  NeedsApproval <- ReviewPolicy
  WriteSandbox <- FirstWrites
  Plans <- WriterPlans
  MaxReaders = 2
  Proc = {p1, p2}
  Run = {r1, r2}
  None = None
  LateWrites = FALSE
  MaxCommands = 3
  MaxInterrupts = 0
SPECIFICATION FairSpec
INVARIANTS
  BusyRunsStayReady
PROPERTIES
  CommandsEnd
\* Operators may issue no further command, so the system may stop.
CHECK_DEADLOCK FALSE

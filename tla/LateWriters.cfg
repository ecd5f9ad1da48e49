CONSTANTS
  Base = {1, 2}
  c1 = c1
  c2 = c2
  Config = {c1}
  NeedsApproval <- NoApprovals
  WriteSandbox <- FirstWrites
  Plans <- WriterPlans
  MaxReaders = 2
  Proc = {p1, p2}
  Run = {r1, r2}
  None = None
  LateWrites = TRUE
  MaxCommands = 3
  MaxInterrupts = 1
SPECIFICATION Spec
INVARIANTS
  OneWriterPerProject
  OutcomesFollowDependencies
SYMMETRY Symmetry
\* Operators may issue no further command, so the system may stop.
CHECK_DEADLOCK FALSE

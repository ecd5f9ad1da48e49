CONSTANTS
  Base = {1, 2, 3}
  c1 = c1
  c2 = c2
  Config = {c1, c2}
  NeedsApproval <- TwoPolicies
  WriteSandbox <- SecondWrites
  Plans <- BatchPlans
  MaxReaders = 2
  Proc = {p1, p2}
  Run = {r1}
  None = None
  LateWrites = FALSE
  MaxCommands = 4
  MaxInterrupts = 1
SPECIFICATION Spec
INVARIANTS
  TypeOK
  ApprovedUnderCurrentPolicy
  PassesEndDecided
  ConcludedIsReviewed
  EventsFollowState
  DependenciesDurable
  NothingLeftToDecide
  RepeatsNeedInterrupts
PROPERTIES
  ImplementsLifecycle
SYMMETRY Symmetry
\* Operators may issue no further command, so the system may stop.
CHECK_DEADLOCK FALSE

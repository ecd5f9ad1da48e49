CONSTANTS
  Owner = {p1, p2}
  Inspecting = {p1}
  Depth = 2
  None = None
  MaxCancels = 2
  RivalCancels = 1
  SignalCancels = FALSE
SPECIFICATION FairInspectionSpec
INVARIANTS
  NoLeaseLeftBehind
  DescriptorsClosed
  CancelledNeverReturns
  NothingLeftRunning
  ProcessesHaveLease
  CancellationWins
PROPERTIES
  LeaseComesBack
\* The system may stop when every owner is through.
CHECK_DEADLOCK FALSE

CONSTANTS
  Item = {i1, i2, i3}
  Inventory = Inventory
  None = None
SPECIFICATION FairSpec
INVARIANTS
  SessionsSeeWholeHome
  EveryItemIsAnswered
  NothingIsLeftRunning
  SignalStopsCommand
PROPERTIES
  CommandEnds
\* A command ends.
CHECK_DEADLOCK FALSE

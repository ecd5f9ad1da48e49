CONSTANTS
  i1 = i1
  i2 = i2
  Writer = {w1, w2}
  Id = {i1, i2}
  SecretKeys = {}
  KeyShaped = {}
  States <- PairStates
  Redacted = Redacted
  NoFile = NoFile
  Torn = Torn
  Part = Part
  MaxCalls = 5
SPECIFICATION Spec
INVARIANTS
  CheckpointsAreWhole
  EventsAreKept
SYMMETRY Symmetry
\* The calls are bounded.
CHECK_DEADLOCK FALSE

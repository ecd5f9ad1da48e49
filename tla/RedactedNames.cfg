CONSTANTS
  i1 = i1
  i2 = i2
  Writer = {w1}
  Id = {i1, i2}
  SecretKeys = {i2}
  KeyShaped = {}
  States <- PairStates
  Redacted = Redacted
  NoFile = NoFile
  Torn = Torn
  Part = Part
  MaxCalls = 1
SPECIFICATION Spec
INVARIANTS
  RunsCanBeResumed
\* The calls are bounded.
CHECK_DEADLOCK FALSE

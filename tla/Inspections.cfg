CONSTANTS
  Path = {a, b, c}
  Nested = {b}
  Skippable = {b}
  File = {f1, f2}
  Link = {l1}
  Absent = Absent
  Unmerged = Unmerged
  None = None
  BatchMax = 2
  MaxEdits = 2
SPECIFICATION Spec
INVARIANTS
  CleanWasTrue
  DirtyWasTrue
PROPERTIES
  RootEntriesReported
SYMMETRY Symmetry
\* An inspection ends.
CHECK_DEADLOCK FALSE

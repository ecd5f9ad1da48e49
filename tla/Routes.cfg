CONSTANTS
  Alias = {low, mid, high}
  Model = {m1, m2, m3}
  Task = {t1, t2}
  Flag <- Flags
  None = None
  Raw <- Files
  Lists <- AnyLists
  Id = {i1, i2, i3}
  Inventories <- AnyInventories
  MaxCommands = 3
  low = low
  mid = mid
  high = high
  m1 = m1
  m2 = m2
  m3 = m3
  t1 = t1
  t2 = t2
  security = security
SPECIFICATION Spec
INVARIANTS
  OnlyNamesAreUnknown
  TurnsUseAvailableModels
  StoredRoutesMeetFloors
  ExplicitAccessIsSandbox
  AcceptsExactlyPlans
SYMMETRY Symmetry
\* The commands are bounded.
CHECK_DEADLOCK FALSE

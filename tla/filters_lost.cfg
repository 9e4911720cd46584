SPECIFICATION Spec
CONSTANTS
  Managers = {"m1"}
  NFilters = 2
  MaxEdits = 3
  Bounds <- MCBounds
  DiskFails = FALSE
  Nobody = Nobody
CHECK_DEADLOCK FALSE
INVARIANT FileWhole

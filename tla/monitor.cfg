SPECIFICATION Spec
CONSTANTS
  Conns = {c1, c2}
  MaxSets = 2
  MaxSeconds = 1
  MaxOpens = 2
SYMMETRY Symmetric
INVARIANTS WindowShowsList RowFound
PROPERTIES KillsLiveManager
CHECK_DEADLOCK FALSE

SPECIFICATION FairSpec
CONSTANTS
  Conns = {c1, c2}
  MaxSets = 0
  MaxSeconds = 1
  MaxOpens = 1
PROPERTIES MonitorOpens
CHECK_DEADLOCK FALSE

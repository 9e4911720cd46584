SPECIFICATION Spec
CONSTANTS
  Managers = {"m1"}
  NFilters = 2
  MaxEdits = 3
  Bounds <- MCBounds
  DiskFails = TRUE
  Nobody = Nobody
CHECK_DEADLOCK FALSE
INVARIANTS NoStaleCancel LoneSaveWritten FiltersCurrent
PROPERTIES OwnFileRenamed SavesEnd

SPECIFICATION FairSpec
CONSTANTS
  Local = "local.ptron"
  Settings <- DeafBrowser
PROPERTIES AbortCloses
CHECK_DEADLOCK FALSE

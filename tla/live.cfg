SPECIFICATION FairSpec
CONSTANTS
  Local = "local.ptron"
  Settings <- Live
PROPERTIES BrowserLeaves Answered AbortEnds
CHECK_DEADLOCK FALSE

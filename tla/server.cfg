SPECIFICATION FairSpec
CONSTANTS
  Conns = {c1, c2, c3}
  PoolMax = 2
  WorkMayFail = TRUE
  NoOne = NoOne
INVARIANTS NothingErasedInUse WalkStable WorkClosedOnce
PROPERTIES ContractSpec CloseEnds ServesOn

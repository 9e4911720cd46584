SPECIFICATION Spec
CONSTANTS
  Cases <- MCCases
  Patterns <- MCPatterns
  Alphabet <- MCAlphabet
  MatchAt <- MCMatchAt
  Okay <- MCOkay
  LowByteOf <- MCLowByteOf
  Encode <- MCEncode
  Decode <- MCDecode
  ASCII <- MCASCII
  Broken = "?"
  DetectSize = 2
  MaxDecrement = 3
INVARIANTS MatchMeans NoStartMissed BoundsAsAndAnd BodyFiltered
PROPERTY BodyEnds

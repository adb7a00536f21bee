CONSTANTS
  MaxInt = 15
  MaxArrayDepth = 1
  ArrayLimit = 2
  Alphabet <- Lines
  MaxBytes = 8
  MaxLine = 5
  MaxExtra = 0
SPECIFICATION Spec
INVARIANTS DecimalsAreExact EncodingRoundTrips
CHECK_DEADLOCK FALSE

CONSTANTS
  MaxInt = 3
  MaxArrayDepth = 2
  ArrayLimit = 3
  Alphabet <- Structure
  MaxBytes = 13
  MaxLine = 4
  MaxExtra = 1
SPECIFICATION Spec
INVARIANTS DecodingFollowsTheCheck DecodedWithinLimits EncodingRoundTrips
PROPERTY VerdictsAreStable
CHECK_DEADLOCK FALSE

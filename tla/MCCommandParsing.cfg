CONSTANTS
  NoValue = NoValue
  Payloads <- MCPayloads
  Utf8 <- MCUtf8
  GetNames <- MCGetNames
  SetNames <- MCSetNames
  Frames <- MCFrames
  MaxArgs = 3
SPECIFICATION Spec
INVARIANTS AcceptsTheGrammar EndOfStreamMeansTooShort
CHECK_DEADLOCK FALSE

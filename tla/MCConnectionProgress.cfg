CONSTANTS
  MaxInt = 127
  MaxArrayDepth = 2
  ArrayLimit = 3
  Encoding <- Encode
  Decoded <- ParseSimple
  Frames <- SimpleFrames
  Tails <- SimpleTails
  MaxFrames = 2
  Capacity = 4
  MaxBuffered = 11
SPECIFICATION FairSpec
PROPERTY FramesArrive

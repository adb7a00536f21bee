CONSTANTS
  MaxInt = 127
  MaxArrayDepth = 2
  ArrayLimit = 3
  Encoding <- Encode
  Decoded <- Parse
  Frames <- MCFrames
  Tails <- MCTails
  MaxFrames = 2
  Capacity = 4
  MaxBuffered = 11
SPECIFICATION Spec
INVARIANTS WireInOrder ReturnedIsFlushed ReadsTheStream BufferIsTheUnread

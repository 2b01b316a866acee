SPECIFICATION FairSpec
CONSTANTS
  FrameCount = 3
  Size <- MCSize
  N = 3
  MaxPayload = 1
  MaxFaults = 2
PROPERTIES IsLossyFifo HandledInOrder FramesGetThrough

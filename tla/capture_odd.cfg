SPECIFICATION Spec
CONSTANTS
  PoolBlocks = 2
  BlockFrames = 2
  NumChannels = 2
  InputSizes = {3}
  MaxSamples = 12
INVARIANT StartFrameExact
CHECK_DEADLOCK FALSE

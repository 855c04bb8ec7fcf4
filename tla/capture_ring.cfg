SPECIFICATION Spec
CONSTANTS
  PoolBlocks = 2
  BlockFrames = 2
  NumChannels = 2
  InputSizes = {2, 6}
  MaxSamples = 20
INVARIANTS
  TypeOK
  Conservation
  NeverSaturated
  StreamInOrder
  LossIsCounted
  StartFrameExact
PROPERTY CaptureReturns
CHECK_DEADLOCK FALSE

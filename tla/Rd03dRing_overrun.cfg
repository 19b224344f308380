SPECIFICATION FairSpec
CONSTANTS
  Payload <- MCPayloads
  PayloadLen = 3
  RING_SIZE = 16
  Fifo = 7
  Frames = 3
  LossUntil = 2
INVARIANTS TypeOK PublishedIsOneFrame
PROPERTIES InOrder ParserKeepsFrames LastFrameShown

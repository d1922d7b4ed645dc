CONSTANTS
  BufferSize = 2
  Retries = 2
  MaxDrops = 1
  MaxInbox = 1
  MaxSeq = 2
  MaxKey = 1
  Nil = Nil
SPECIFICATION SubFairSpec
INVARIANTS DeliveredOnce ResidueAfterClose
PROPERTY CancelEndsStream
CHECK_DEADLOCK FALSE

CONSTANTS
  Capacity = 2
  BufferSize = 2
  Streams = {stream}
  Files = {}
  Syncers = {sync}
  Closers = {}
  MaxPayloads = 2
  MaxRekeys = 1
  MaxRequests = 2
  Retries = 1
  MaxDrops = 1
  MaxInbox = 0
  MaxSeq = 0
  MaxKey = 0
  None = None
  Nil = Nil
SPECIFICATION FeedSpec
INVARIANTS DeliveredAsPublished UnbrokenDelivery StreamKept ReplayFillsGap
VIEW FeedView
CHECK_DEADLOCK FALSE

CONSTANTS
  Capacity = 2
  Streams = {stream}
  Files = {}
  Syncers = {}
  Closers = {wiper}
  MaxPayloads = 1
  MaxRekeys = 0
  MaxRequests = 0
  None = None
SPECIFICATION FairSpec
PROPERTY CloseReturns
CHECK_DEADLOCK FALSE

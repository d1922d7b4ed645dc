CONSTANTS
  Capacity = 2
  Streams = {stream}
  Files = {file}
  Syncers = {sync}
  Closers = {wiper}
  MaxPayloads = 2
  MaxRekeys = 1
  MaxRequests = 1
  None = None
SPECIFICATION Spec
INVARIANTS NonceUnique CloseIsLast StreamDecrypts ResidueBounded
CHECK_DEADLOCK FALSE

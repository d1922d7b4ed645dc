CONSTANTS
  Subs = {s1, s2}
  Names = {a}
  Window = 2
  AckCap = 1
  MaxTransfers = 2
  Sizes <- MCSizes
  MaxFaults = 1
  Absent = Absent
SPECIFICATION TransferFairSpec
INVARIANTS VerdictExact Backpressure
PROPERTIES SendFileReturns
CHECK_DEADLOCK FALSE

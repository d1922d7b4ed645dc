CONSTANTS
  Chunks = {c1, c2}
  Pass = pass
  Key = key
  None = None
SPECIFICATION WipeFairSpec
INVARIANTS NothingForgotten CleanExit
PROPERTIES SignalEnds
CHECK_DEADLOCK FALSE

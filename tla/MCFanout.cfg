CONSTANTS
  Subs = {s1, s2}
  QueueSize = 2
  High = 1
  Low = 0
  MaxFrames = 3
  None = None
SPECIFICATION FairSpec
INVARIANTS QueueBelowHigh OnlySlowPruned
PROPERTIES OrderedRun FanoutReturns SubscribersReleased
CHECK_DEADLOCK FALSE

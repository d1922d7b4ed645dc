CONSTANTS
  Conns = {c1, c2, c3, c4}
  IPs = {i1}
  Acceptors = {a1, a2}
  MaxActiveConnections = 2
  MaxFailedAttempts = 3
  BanDuration = 2
  MaxAge = 3
  None = None
SPECIFICATION Spec
INVARIANTS LimitOvershoot
PROPERTIES WindowRespected BanEnds
CHECK_DEADLOCK FALSE

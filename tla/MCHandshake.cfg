CONSTANTS
  Subs = {s1, s2}
  Patience = 4
  MaxData = 1
  Nobody = Nobody
SPECIFICATION HandshakeFairSpec
INVARIANTS ReadyMeansVerified
PROPERTY FirstPeerServed
CHECK_DEADLOCK FALSE

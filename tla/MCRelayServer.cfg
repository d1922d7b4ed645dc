CONSTANTS
  Conns = {c1, c2, c3}
  SessionIDs = {i1, i2}
  None = None
SPECIFICATION Spec
INVARIANTS TypeOK NoSessionLeak IntroducedPeers OnePublisher SessionIsolation GaugeExact
SYMMETRY Symmetry
CONSTRAINT Bounded
CHECK_DEADLOCK FALSE

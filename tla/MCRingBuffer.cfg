CONSTANTS
  Capacity = 3
  Seqs = {1, 2, 3, 4, 5, 6, 7}
  Bodies = {b1}
  Nil = Nil
SPECIFICATION Spec
INVARIANTS ScrubbedOutside MissReported
PROPERTY ImplementsLog
CHECK_DEADLOCK FALSE

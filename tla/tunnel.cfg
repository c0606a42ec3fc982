SPECIFICATION Spec
CONSTANTS
  Runs = {r1, r2, r3}
  Pids = {p1, p2, p3}
  Nobody = nobody
  Foreign = foreign
SYMMETRY Interchangeable
INVARIANTS NoOrphan
PROPERTIES NoneLeft SparesStrangers
CHECK_DEADLOCK FALSE

CONSTANTS
  Sessions = {a, b}
  MaxWrites = 4
  MaxFaults = 3
  a = a
  b = b
SPECIFICATION StoreSpec
INVARIANTS CacheBacked NothingLost
PROPERTIES ImplementsMap
SYMMETRY Symmetric
CHECK_DEADLOCK FALSE

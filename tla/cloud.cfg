SPECIFICATION Spec
CONSTANTS
  Runs = {r1, r2}
  Addresses = {home, cafe}
  Sizes = {2, 3}
  Small = 1
  Typed <- EveryCommand
  None = None
  MaxMoves = 1
  MaxFaults = 1
INVARIANTS ReadyIsReachable SingleAddress GrownIsGrown
PROPERTIES NeverLocksOut OnlyForward EveryRunEnds
CHECK_DEADLOCK FALSE

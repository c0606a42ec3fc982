SPECIFICATION TuiLiveSpec
CONSTANTS
  Agents = {p1, p2}
  Windows = {w1}
  None = none
  MaxKeys = 2
INVARIANTS FrameTrue EachOnce Restored
PROPERTIES QuitEnds
CHECK_DEADLOCK FALSE

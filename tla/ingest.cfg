CONSTANTS
  f1 = f1
  f2 = f2
  d1 = d1
  d2 = d2
  Files = {f1, f2}
  Dirs = {d1, d2}
  DirOf <- OneEach
  OldDirs = {d1}
  Kinds <- SomeRaise
  QueueCap = 2
  MaxLines <- LongAndShort
  MaxCrashes = 1
SPECIFICATION LiveSpec
INVARIANTS MergedExactly OnlyDelayed
PROPERTIES NeverBackwards KeepsUp
CHECK_DEADLOCK FALSE

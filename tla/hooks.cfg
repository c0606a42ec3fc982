CONSTANTS
  s1 = s1
  s2 = s2
  t1 = t1
  t2 = t2
  Sessions = {s1, s2}
  Tasks = {t1, t2}
  Owner <- NestedTasks
  None = None
  Timeout = 2
  Period = 2
  SockCap = 2
  MaxHooks = 1
SPECIFICATION LiveSpec
INVARIANTS StaleBound NoGhosts LatestReported Heard
PROPERTIES GhostsVanish

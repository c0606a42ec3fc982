SPECIFICATION Spec
CONSTANTS
  Collectors = {"instance", "services", "system"}
  Calls <- Asking
  CallTimeout <- Patience
  Essential = {"instance"}
  COLLECT_TIMEOUT = 5
INVARIANT CapHolds
CHECK_DEADLOCK FALSE

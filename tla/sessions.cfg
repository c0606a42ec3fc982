SPECIFICATION Spec
CONSTANTS
  Runs = {r1, r2, r3}
  here = here
  there = there
  tools = tools
  Dirs <- Checkouts
  Slugs = {"app", "app-tools", "codex"}
  SlugOf <- ShortAndLong
  Extends <- LongerThan
  Starts <- AgentBeginning
  Agents = {"claude", "codex"}
  Default = "claude"
  Unknown = "other"
  None = "none"
INVARIANT NeverTwice
PROPERTY KilledIsGone
SYMMETRY AnyRun
CHECK_DEADLOCK FALSE

SPECIFICATION Spec
CONSTANTS
  Runs = {r1, r2, r3}
  User = user
  HookEvents = {"PreToolUse", "Stop"}
  OtherEvents = {"PreCompact"}
  BedrockKeys = {"USE_BEDROCK", "AWS_REGION"}
  OtherKeys = {"EDITOR"}
  OwnHooks = {"lint"}
  Emitter = "emitter"
  MaxEdits = 1
SYMMETRY AnyRun
INVARIANTS OwnKept LastWins NeverHalf BrokenOnlyByWriters
CHECK_DEADLOCK FALSE

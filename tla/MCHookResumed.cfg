SPECIFICATION HookSpec
CONSTANTS
  Usages = {"callback"}
  Models <- MCModels
  Checkpoints = {0, 3}
  MaxTokens = 5
  MaxClockTicks = 4
  MaxHooks = 1
  MaxMessages = 2
INVARIANTS FlopsAreOfTheStep
\* The training ends.
CHECK_DEADLOCK FALSE

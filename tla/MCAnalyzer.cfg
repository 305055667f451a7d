SPECIFICATION MCSpec
CONSTANTS
  Gpus = {1, 2}
  Known = {1}
  MaxLevel = 2
  Target = 2
  Rate = 1
  HasBackend = TRUE
  WindowSpan = 3
  WindowLen = 3
  MinSteps = 2
  LeakTicks = 3
  LeakMinGrowth = 2
  LeakMinElapsed = 2
  DtCap = 2
  Samples <- MCSamples
  ClockSteps <- MCClockSteps
  MaxTicks = 4
  Sessions <- MCSessions
  Observations <- MCObservations
  Kept = 3
  WarmupSteps = 10
  MinStepsToJudge = 4
  Pids = {1, 2, 3, 4, 5}
  Self = 2
  Commands <- MCCommands
  Worlds <- MCWorlds
  MaxEvents = 3
  Entries <- MCEntries
  Marks <- MCMarks
  Cards = {1, 2}
  Interval = 1
  MaxTime = 5
  MaxSamples = 3
  Modes = {"tree", "process", "devices"}
  Selections = {{1, 2}}
  Usages = {"managed", "callback", "explicit"}
  Models <- MCModels
  Checkpoints = {0, 3}
  MaxTokens = 5
  MaxClockTicks = 4
  MaxHooks = 2
  MaxMessages = 2
INVARIANTS StatisticsDescribeBestSource WindowIsRecent CostIsBounded GrowthIsSustained
  VerdictIsBorneOut ResolutionCoversMatches MeasurementsAddUp
PROPERTIES FiguresAreCurrent CpuIsNeverOverstated
\* Sessions end with their target, and programs with their training.
CHECK_DEADLOCK FALSE

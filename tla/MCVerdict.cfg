SPECIFICATION VerdictSpec
CONSTANTS
  Sessions <- MCSessions
  Observations <- MCObservations
  Kept = 4
  WarmupSteps = 10
  MinStepsToJudge = 10
INVARIANTS OneSlowStepIsNotErratic

SPECIFICATION BenchSpec
CONSTANTS
  Iterations = 3
  Warmup = 1
  Budget = 6
  PilotCosts = {0, 1, 2, 3, 7}
  MinIterations = 2
  Figures = {10, 20}
  Batches <- MCBatches
  Commands <- MCCommands
INVARIANTS
  EveryPairIsAccounted RecommendationIsBest IterationsFitBudget
  ComparisonIsHonest NoChildIsLeft
PROPERTY BenchEnds

SPECIFICATION MCPlanSpec
CONSTANTS
  Processes = {p1, p2}
  p1 = p1
  p2 = p2
  Urls = {a, b}
  SpecTtl = 2
  RetryAfter = 1
  MaxClock = 4
  MaxLoads = 3
  PriceTtl = 1
  DefaultTtl = 0
  Providers = {"lambda", "runpod"}
  Lines <- MCLines
  Defaults <- MCDefaults
  Guesses <- MCGuesses
  Vocabulary <- MCVocabulary
  Builtin <- MCBuiltin
  LoraRank = 1
  Gib = 64
  Tiers = {8, 12, 16, 24, 32, 40, 48, 80, 94, 141, 180}
  AppleChips = {"m3"}
  FlopsScale = 50000
  Requests <- MCRequests
INVARIANTS
  PricesAreAccounted NoEarlyRetry SpecsAreOfTheSource
  RecommendationIsSound NoGpuPassesForAnother CountsAreHonest
SYMMETRY UrlSymmetry
CHECK_DEADLOCK FALSE

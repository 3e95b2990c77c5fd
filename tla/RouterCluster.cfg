CONSTANTS
  e1 = e1
  e2 = e2
  e3 = e3
  e4 = e4
  e5 = e5
  s1 = s1
  s2 = s2
  x = x
  y = y
  b = b
  noSlug = noSlug
  NoSlug = noSlug
  Entries = {e1, e2}
  AlphaOf <- MCMarkets
  Strategies <- MCStrategies
  Assets <- MCAssets
  Buckets <- MCBuckets
  BucketOf <- MCBucketOf
  BucketMax <- MCBucketMax
  DefaultPerTrade = 1
  SizeOverrides <- MCNone
  BudgetOverrides <- MCNone
  DefaultBudget = 20
  OrderCaps <- MCNone
  Cent = 1
  Whitelist <- MCStrategies
  Periods <- MCPeriods
  DrawdownCap <- MCDrawdownCap
  DisabledDirections = {}
  ScaleIn = {}
  PositionMult = 2
  BucketTotal <- MCBucketTotal
  ClusterTotal = 7
  LpPayloads <- MCNone
  AssetClass <- MCPredictions
  Words <- MCQuestion
  Lower <- MCLower
  Upper <- MCUpper
  SlugPrefixes <- MCSlugPrefixes
  Replicas = 1
  SettledFirst = TRUE
  MarkStep = 0
  MaxMoves = 0
  MaxChanges = 0
SPECIFICATION Spec
INVARIANT ClusterCapped
CHECK_DEADLOCK FALSE

CONSTANTS
  e1 = e1
  e2 = e2
  e3 = e3
  e4 = e4
  e5 = e5
  s1 = s1
  s2 = s2
  x = x
  y = y
  b = b
  noSlug = noSlug
  NoSlug = noSlug
  Entries = {e1, e2}
  AlphaOf <- MCSame
  Strategies <- MCStrategies
  Assets <- MCAssets
  Buckets <- MCBuckets
  BucketOf <- MCBucketOf
  BucketMax <- MCBucketMax
  DefaultPerTrade = 1
  SizeOverrides <- MCNone
  BudgetOverrides <- MCNone
  DefaultBudget = 20
  OrderCaps <- MCNone
  Cent = 1
  Whitelist <- MCStrategies
  Periods <- MCPeriods
  DrawdownCap <- MCDrawdownCap
  DisabledDirections = {}
  ScaleIn = {}
  PositionMult = 2
  BucketTotal <- MCBucketTotal
  ClusterTotal = 9
  LpPayloads <- MCFreshPayloads
  AssetClass <- MCAssetClass
  Words <- MCWords
  Lower <- MCLower
  Upper <- MCUpper
  SlugPrefixes <- MCSlugPrefixes
  Replicas = 1
  SettledFirst = FALSE
  MarkStep = 0
  MaxMoves = 0
  MaxChanges = 0
SPECIFICATION Spec
PROPERTY NoScaleIn
CHECK_DEADLOCK FALSE

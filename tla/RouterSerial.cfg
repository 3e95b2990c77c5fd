CONSTANTS
  e1 = e1
  e2 = e2
  e3 = e3
  e4 = e4
  e5 = e5
  s1 = s1
  s2 = s2
  x = x
  y = y
  b = b
  noSlug = noSlug
  NoSlug = noSlug
  Entries = {e1, e2, e3, e4, e5}
  AlphaOf <- MCSequence
  Strategies <- MCStrategies
  Assets <- MCAssets
  Buckets <- MCBuckets
  BucketOf <- MCBucketOf
  BucketMax <- MCBucketMax
  DefaultPerTrade = 1
  SizeOverrides <- MCNone
  BudgetOverrides <- MCOddBudget
  DefaultBudget = 14
  OrderCaps <- MCNone
  Cent = 2
  Whitelist <- MCStrategies
  Periods <- MCPeriods
  DrawdownCap <- MCDrawdownCap
  DisabledDirections = {}
  ScaleIn = {s2}
  PositionMult = 3
  BucketTotal <- MCBucketTotal
  ClusterTotal = 15
  LpPayloads <- MCFreshPayloads
  AssetClass <- MCAssetClass
  Words <- MCWords
  Lower <- MCLower
  Upper <- MCUpper
  SlugPrefixes <- MCSlugPrefixes
  Replicas = 1
  SettledFirst = TRUE
  MarkStep = 0
  MaxMoves = 0
  MaxChanges = 0
SPECIFICATION Spec
SYMMETRY MCLastAlike
INVARIANTS TypeOK CapInv PositionCapped BucketCapped ClusterCapped SizedWithinHeadroom
PROPERTY NoScaleIn
CHECK_DEADLOCK FALSE

CONSTANTS
  e1 = e1
  e2 = e2
  e3 = e3
  e4 = e4
  e5 = e5
  s1 = s1
  s2 = s2
  x = x
  y = y
  b = b
  noSlug = noSlug
  NoSlug = noSlug
  Entries = {e1, e2, e3}
  AlphaOf <- MCRaces
  Strategies <- MCOneStrategy
  Assets <- MCAssets
  Buckets <- MCBuckets
  BucketOf <- MCOneBucketOf
  BucketMax <- MCBucketMax
  DefaultPerTrade = 1
  SizeOverrides <- MCNone
  BudgetOverrides <- MCNone
  DefaultBudget = 10
  OrderCaps <- MCNone
  Cent = 1
  Whitelist = {}
  Periods <- MCPeriods
  DrawdownCap <- MCDrawdownCap
  DisabledDirections = {}
  ScaleIn = {}
  PositionMult = 2
  BucketTotal <- MCNone
  ClusterTotal = 0
  LpPayloads <- MCLpPayloads
  AssetClass <- MCAssetClass
  Words <- MCWords
  Lower <- MCLower
  Upper <- MCUpper
  SlugPrefixes <- MCSlugPrefixes
  Replicas = 2
  SettledFirst = FALSE
  MarkStep = 8
  MaxMoves = 1
  MaxChanges = 2
SPECIFICATION Spec
INVARIANTS BudgetInv BudgetCapped StopsSeen StopsHonoured AmplifiedOnlyOnData
CHECK_DEADLOCK FALSE

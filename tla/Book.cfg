SPECIFICATION BookSpec
CONSTANTS
  s1 = s1
  s2 = s2
  Ladder <- MCLadder
  Slugs <- MCSlugs
  SlugRank <- MCSlugRank
  RowLimit = 2
  MinTrades = 2
  Discount = 25
  Floor = 25
  Ceiling = 300
  Unit = 10
  Trades <- MCTrades
  History <- MCHistory
  MaxTrades = 3
  MaxAge = 4
  Interval = 1
  QueryMax = 1
  MaxFaults = 1
INVARIANTS BookInv BookTypeOK TierIsRecent AmplifiedOnlyWinners
PROPERTY CapsFollowBook

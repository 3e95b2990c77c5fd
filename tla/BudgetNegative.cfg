SPECIFICATION Spec
CONSTANTS
  e1 = e1
  e2 = e2
  e3 = e3
  s1 = s1
  Entries <- MCEntries
  AlphaOf <- MCAlphaOf
  Strategies <- MCStrategies
  StrategyOf <- MCStrategyOf
  Want <- MCWant
  MaxUsd = 2
  Cap <- MCCap
  TTL = 4
  RouteMax = 1
  SettleMax = 1
  Replicas = 1
  RedisFaults = TRUE
  Crashes = FALSE
  PromptExpire = TRUE
  Steady = FALSE
INVARIANT ReservationNonNegative

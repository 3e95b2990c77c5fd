SPECIFICATION TcaSpec
CONSTANTS
  a1 = a1
  bad = bad
  w1 = w1
  w2 = w2
  Alphas <- MCAlphas
  BadPayloads <- MCBadPayloads
  Workers <- MCWorkers
  BatchSize = 2
  MaxEntries = 3
  MaxCrashes = 1
  Faults = TRUE
CHECK_DEADLOCK FALSE
INVARIANTS TcaTypeOK AckedOnlyWhenDecided OneFillPerIntent CountedOnce
PROPERTIES RoutedOnce EverythingAccountedFor

SPECIFICATION TcaSpec
CONSTANTS
  a1 = a1
  bad = bad
  w1 = w1
  w2 = w2
  Alphas <- MCAlphas
  BadPayloads <- MCBadPayloads
  Workers <- MCOneWorker
  BatchSize = 2
  MaxEntries = 2
  MaxCrashes = 1
  Faults = FALSE
CHECK_DEADLOCK FALSE
PROPERTY EverythingDecided

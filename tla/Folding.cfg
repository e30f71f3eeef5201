SPECIFICATION FoldingSpec
CONSTANTS
  Grace = 1
  StartLedger = 1
  Lookback = 1
  PageLimit = 1
  ScanWindow = 2
  MaxLag = 1
  MaxHeight = 3
  MaxForks = 1
  MaxBacktracks = 2
  NULL = NULL
  Addresses = {a1}
  Loans = {l1, l2, l3}
  Treasuries = {t1}
  DayLength = 3
  Scenarios <- FoldScenarios
  a1 = a1
  l1 = l1
  l2 = l2
  l3 = l3
  t1 = t1
INVARIANTS NeverFoldsAcrossAFork NothingSkipped MirrorsContract BooksBalance NotifiedOnce
PROPERTIES ContinuityHaltMeansBacktrack StaysClosed
SYMMETRY LoanSymmetry
CHECK_DEADLOCK FALSE

SPECIFICATION FairSpec
CONSTANTS
  A = A
  B = B
  w1 = w1
  w2 = w2
  op = op
  Contracts <- TwoContracts
  Length = 2
  PageLimit = 2
  Threshold = 2
  ResetOnContractChange = FALSE
  Workers <- OneWorker
  Operators <- OneOperator
  Tools = {}
  Poison <- PoisonFirst
  MaxFaults = 1
  MaxExits = 1
PROPERTIES CursorCatchesUp NotHeldHostage

SPECIFICATION Spec
CONSTANTS
  A = A
  B = B
  w1 = w1
  w2 = w2
  op = op
  Contracts <- TwoContracts
  Length = 1
  PageLimit = 2
  Threshold = 2
  ResetOnContractChange = TRUE
  Workers <- OneWorker
  Operators <- OneOperator
  Tools = {"replay", "reindex", "repoint"}
  Poison <- PoisonFirst
  MaxFaults = 1
  MaxExits = 1
INVARIANTS LogCoversCursor

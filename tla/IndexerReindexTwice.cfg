SPECIFICATION Spec
CONSTANTS
  A = A
  B = B
  w1 = w1
  w2 = w2
  op = op
  Contracts <- OneContract
  Length = 2
  PageLimit = 2
  Threshold = 2
  ResetOnContractChange = FALSE
  Workers <- OneWorker
  Operators <- OneOperator
  Tools = {"reindex"}
  Poison <- NoPoison
  MaxFaults = 0
  MaxExits = 1
INVARIANTS AtMostOnce

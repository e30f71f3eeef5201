SPECIFICATION Spec
CONSTANTS
  A = A
  B = B
  w1 = w1
  w2 = w2
  op = op
  Contracts <- OneContract
  Length = 2
  PageLimit = 2
  Threshold = 2
  ResetOnContractChange = FALSE
  Workers <- Handoff
  Operators <- OneOperator
  Tools = {"replay", "reindex"}
  Poison <- PoisonFirst
  MaxFaults = 0
  MaxExits = 1
SYMMETRY WorkerSymmetry
INVARIANTS NeedsFoldIsFresh

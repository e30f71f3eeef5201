SPECIFICATION Spec
CONSTANTS
  A = A
  B = B
  w1 = w1
  w2 = w2
  op = op
  Contracts <- OneContract
  Length = 3
  PageLimit = 2
  Threshold = 2
  ResetOnContractChange = FALSE
  Workers <- OneWorker
  Operators <- OneOperator
  Tools = {"replay", "reindex", "resolve"}
  Poison <- PoisonFirst
  MaxFaults = 1
  MaxExits = 1
INVARIANTS TypeOK NoSilentLoss LogCoversCursor NoDoubleFold FoldedIsApplied OpenRowsHaveRawEvents
PROPERTIES ReindexRepairs

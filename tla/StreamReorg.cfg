SPECIFICATION Spec
CONSTANTS
  b1 = b1
  b2 = b2
  Clients <- TwoBrowsers
  Channels <- TwoChannels
  Subscribed <- SubscribedApart
  QueueLimit = 2
  HighWater = 2
  SocketBound = 3
  MaxLedger = 2
  MaxNotes = 0
  MaxReorgs = 1
  MaxOutages = 0
  MaxRestarts = 0
INVARIANTS ReorgReachesSubscribers

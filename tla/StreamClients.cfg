SPECIFICATION FairSpec
CONSTANTS
  b1 = b1
  b2 = b2
  Clients <- OneBrowser
  Channels <- TwoChannels
  Subscribed <- SubscribedOne
  QueueLimit = 2
  HighWater = 2
  SocketBound = 3
  MaxLedger = 2
  MaxNotes = 1
  MaxReorgs = 1
  MaxOutages = 1
  MaxRestarts = 1
INVARIANTS TypeOK NeverWedged FramesKept IdsBehindFrontier
PROPERTIES StalledReaderIsDropped

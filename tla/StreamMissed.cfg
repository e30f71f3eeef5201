SPECIFICATION FairSpec
CONSTANTS
  b1 = b1
  b2 = b2
  Clients <- OneBrowser
  Channels <- TwoChannels
  Subscribed <- SubscribedOne
  QueueLimit = 2
  HighWater = 2
  SocketBound = 3
  MaxLedger = 2
  MaxNotes = 2
  MaxReorgs = 0
  MaxOutages = 0
  MaxRestarts = 0
PROPERTIES CaughtUpIsTrue

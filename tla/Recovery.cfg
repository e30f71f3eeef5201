SPECIFICATION RecoverySpec
CONSTANTS
  r1 = r1
  r2 = r2
  r3 = r3
  ip1 = ip1
  ip2 = ip2
  k1 = k1
  a1 = a1
  api1 = api1
  api2 = api2
  Poller = Poller
  Operator = Operator
  Requests = {r1, r2, r3}
  Ips = {ip1, ip2}
  IpOf <- IpOfThree
  MaxConnections = 2
  MaxPerIp = 1
  MaxLosses = 2
  MaxFailures = 2
  Grace = 0
  StartLedger = 0
  Lookback = 1
  PageLimit = 1
  ScanWindow = 2
  MaxLag = 1
  MaxHeight = 2
  MaxForks = 1
  MaxBacktracks = 1
  Limits = {k1}
  Addresses = {a1}
  Readers = {r1}
  TTL = 2
  MaxCommits = 2
  MaxFaults = 1
  Apis = {api1, api2}
  Limit = 1
  StatsTTL = 1
  MaxChanges = 2
INVARIANTS RecoveryTypeOK AdmissionExact NeverEmptyAgain
PROPERTIES ListenerReturns ShutdownReturns FalseAlarmEnds EventuallyFresh HistorySettles CacheNeverGoesBack

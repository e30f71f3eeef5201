SPECIFICATION ServingSpec
CONSTANTS
  a1 = a1
  a2 = a2
  n1 = n1
  n2 = n2
  n3 = n3
  i1 = i1
  i2 = i2
  g1 = g1
  g2 = g2
  m1 = m1
  c1 = c1
  r1 = r1
  r2 = r2
  k1 = k1
  k2 = k2
  Poller = Poller
  Operator = Operator
  Addresses = {a1, a2}
  Nonces = {n1, n2, n3}
  Ttl = 1
  MaxEntries = 2
  MaxPerAddress = 2
  MaxTime = 3
  Issuers = {i1, i2}
  TableMaxTime = 2
  TableMaxPerAddress = 1
  Accounts = {g1, g2}
  Presented = {g1, g2, m1, c1}
  Base <- BaseOf
  Recipient <- RecipientOf
  NoteNonces = {n1, n2}
  Requests = {r1, r2}
  MaxReindexes = 1
  Limits = {k1, k2}
  CacheAddresses = {a1}
  Readers = {r1}
  TTL = 1
  MaxCommits = 2
  MaxFaults = 1
INVARIANTS ServingTypeOK CountsExact OvershootBounded OnlySignersRead ToldIsFresh
PROPERTIES KeepsPromise TableKeepsPromise ReadStays
CHECK_DEADLOCK FALSE

SPECIFICATION MCSpec
CONSTANTS
  m1 = m1
  m2 = m2
  Matches = {m1, m2}
  Topics <- Streams
  WindowSpan = 3
  MaxTracked = 3
  MaxFailures = 1
  MaxExpiries = 1
  MaxRestarts = 1
  MaxShed = 1
  Absent = Absent
  p1 = p1
  p2 = p2
  k1 = k1
  k2 = k2
  v1 = v1
  v2 = v2
  Nothing = Nothing
  Ids <- MCIds
  MaxWrites = 4
  Feeds <- MCFeeds
  BatchSize = 3
  MaxFlushFailures = 1
  MaxCrashes = 2
  Deployments <- MCDeployments
  Keys = {k1, k2}
  Values = {v1, v2}
  TTLs = {0, 1, 2}
  MaxTime = 4
  Missing = Missing
INVARIANTS
  MomentumExact
  HistoryExact
  StoreExact
  DiscoveryExact
  TicksAccounted
  LabelOfItsRound
CHECK_DEADLOCK FALSE

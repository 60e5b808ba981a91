SPECIFICATION MCSpec
CONSTANTS
  Gens = {g1, g2}
  QueueMax = 1
  MaxPublish = 3
  MaxStarts = 2
  MaxForeign = 0
  Foreign = Foreign
  MaxFaults = 1
  None = None
  m1 = m1
  m2 = m2
  Matches <- MCMatches
  Stream <- MCStream
  Wirings <- MCWirings
  MaxFailures = 3
  Backlog = 2
  Slots = {s1, s2}
  Script <- MCScript
  MaxPlays = 2
  MaxInFlight = 2
  MaxTroubles = 2
  MaxAttempt = 1
  MaxHistory = 2
  MaxRoundLog = 2
  Null = Null
INVARIANTS
  NoStaleGauge
CHECK_DEADLOCK FALSE

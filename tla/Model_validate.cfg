SPECIFICATION MCSpec
CONSTANTS
  Matches = {1, 2, 3}
  Fractions <- MCFractions
  MinCalibration = 2
  Best = {1}
  Caps = {1}
  MaxTrainings = 2
  MaxCrashes = 1
  None = None
  Absent = Absent
  Torn = Torn
  PlayersPerTeam = 5
  RoundSeconds = 115
  BombTimer = 40
  LadderLength = 5
  RoundsToWin = 13
  MaxRounds = 24
  Samples <- MCSamples
  MaxRows = 2
  Null = Null
  States <- MCScored
  Calibrators <- MCCalibrators
  Grid = 8
  Latencies = {1, 2}
  Window = 3
  MaxBatch = 3
  MaxCalls = 2
  References <- MCReferences
  Values = {0, 1, 4}
  PsiBins = 4
  MinSamples = 2
  MinDistinct = 2
  Scale = 4
  Bins = 2
  MaxLive = 3
INVARIANTS
  HeldOutIsUnseen
CHECK_DEADLOCK FALSE
